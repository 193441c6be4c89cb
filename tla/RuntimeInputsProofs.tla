------------------------- MODULE RuntimeInputsProofs -------------------------
(***************************************************************************)
(* What reaches a running runtime, for every size of the buffer, every     *)
(* line and any number of certificates: its stdin implements a channel of  *)
(* lines, and the two processes that share the trust store neither lose a  *)
(* certificate nor answer for a moment that never was.                     *)
(***************************************************************************)
EXTENDS RuntimeInputs, TLAPS

-----------------------------------------------------------------------------
(***************************************************************************)
(* The pipe to the runtime.  The inductive invariant: lines lie one behind *)
(* the other; none that has been read ends within the buffer, so what the  *)
(* buffer holds is one unfinished line; and the buffer reaches back to the *)
(* beginning of that line unless the line is too long for it.              *)
(***************************************************************************)
EndsOrdered ==
  /\ \A i \in Lines : Begin(i) \in Nat /\ Begin(i) < ends[i] /\ ends[i] <= Total
  /\ \A i \in Lines : \A j \in 1 .. i - 1 : ends[j] <= Begin(i)

NoLineWithin == \A i \in Lines : ends[i] <= upto => ends[i] <= from

FittingIsWhole == \A i \in Lines : Fits(i) /\ ends[i] > upto => Begin(i) >= from

ChannelInv ==
  /\ ChannelTypeOK
  /\ EndsOrdered
  /\ NoLineWithin
  /\ FittingIsWhole
  /\ ShortLinesApplied

(* A new pipe, at boot and at every start of a runtime.                    *)
LEMMA ChannelStarts ==
  ASSUME Empty, api \in {"stopped", "running"}, alive \in BOOLEAN
  PROVE  ChannelInv
<1>1. Lines = {} /\ Total = 0
  BY DEF Empty, Lines, Total
<1>2. ChannelTypeOK
  BY <1>1, ChannelAssumption DEF Empty, ChannelTypeOK
<1> QED
  BY <1>1, <1>2
  DEF Empty, ChannelInv, EndsOrdered, NoLineWithin, FittingIsWhole, ShortLinesApplied, Read

(* What happens to the processes changes nothing in the pipe.              *)
LEMMA StutteringKeepsChannel ==
  ASSUME ChannelInv, UNCHANGED pipe, api' \in {"stopped", "running"}, alive' \in BOOLEAN
  PROVE  ChannelInv'
<1>1. ends' = ends /\ from' = from /\ upto' = upto /\ applied' = applied
  BY DEF pipe, buffer
<1>2. ChannelTypeOK'
  BY <1>1 DEF ChannelInv, ChannelTypeOK, Lines, Total
<1>3. EndsOrdered' /\ NoLineWithin' /\ FittingIsWhole'
  BY <1>1
  DEF ChannelInv, EndsOrdered, NoLineWithin, FittingIsWhole, Lines, Begin, Length, Total, Fits
<1>4. ShortLinesApplied'
  BY <1>1 DEF ChannelInv, ShortLinesApplied, Lines, Begin, Length, Fits, Read
<1> QED BY <1>2, <1>3, <1>4 DEF ChannelInv

(* A line written begins where the last one ended, and moves no other.     *)
LEMMA WritingAppends ==
  ASSUME ChannelInv, NEW length \in Lengths, ends' = Append(ends, Total + length),
         NEW new \in Nat, new = Len(ends) + 1
  PROVE  /\ Lines' = Lines \cup {new}
         /\ Total' = Total + length
         /\ \A i \in Lines : ends'[i] = ends[i] /\ Begin(i)' = Begin(i)
         /\ Begin(new)' = Total
         /\ ends'[new] = Total + length
         /\ Total \in Nat /\ length \in Nat /\ length > 1
         /\ ends' \in Seq(Nat)
<1>1. /\ ends \in Seq(Nat) /\ Total \in Nat /\ length \in Nat /\ length > 1
      /\ Len(ends) \in Nat
  BY ChannelAssumption DEF ChannelInv, ChannelTypeOK, Total
<1>2. /\ Len(ends') = new /\ ends' \in Seq(Nat)
      /\ \A i \in 1 .. Len(ends) : ends'[i] = ends[i]
      /\ ends'[new] = Total + length
  BY <1>1
<1>3. Lines' = Lines \cup {new}
  BY <1>1, <1>2 DEF Lines
<1>4. Total' = Total + length
  BY <1>1, <1>2 DEF Total
<1>5. \A i \in Lines : Begin(i)' = Begin(i)
  BY <1>1, <1>2 DEF Lines, Begin
<1>6. Begin(new)' = Total
  BY <1>1, <1>2 DEF Begin, Total
<1> QED BY <1>1, <1>2, <1>3, <1>4, <1>5, <1>6 DEF Lines

(* A line written is not read before ipc_process reads it.                 *)
LEMMA WritingReadsNothing ==
  ASSUME ChannelInv, NEW length \in Lengths, writeToStdin(length), alive
  PROVE  /\ \A i \in Lines' : ends'[i] <= upto' => i \in Lines
         /\ Read' = Read
<1>1. ends' = Append(ends, Total + length) /\ upto' = upto
  BY DEF writeToStdin, buffer
<1>2. PICK new \in Nat : new = Len(ends) + 1
  BY DEF ChannelInv, ChannelTypeOK
<1>3. /\ Lines' = Lines \cup {new}
      /\ \A i \in Lines : ends'[i] = ends[i]
      /\ ends'[new] = Total + length
      /\ Total \in Nat /\ length \in Nat /\ length > 1
  BY <1>1, <1>2, WritingAppends
<1>4. upto \in Nat /\ upto <= Total
  BY <1>3 DEF ChannelInv, ChannelTypeOK
<1>5. ~(ends'[new] <= upto')
  <2>1. ends'[new] = Total + length /\ upto' = upto
    BY <1>1, <1>3
  <2>2. ~(Total + length <= upto)
    BY <1>3, <1>4
  <2> QED BY <2>1, <2>2
<1>6. \A i \in Lines' : ends'[i] <= upto' => i \in Lines
  BY <1>3, <1>5
<1> QED BY <1>1, <1>3, <1>6 DEF Read

(* writeToStdin keeps the invariant, whether the runtime lives or not.     *)
LEMMA WritingKeepsChannel ==
  ASSUME ChannelInv, NEW length \in Lengths, writeToStdin(length)
  PROVE  ChannelInv'
<1>1. CASE ~alive
  <2>1. UNCHANGED pipe /\ api' = api /\ alive' = alive
    BY <1>1 DEF writeToStdin, pipe, buffer
  <2> QED BY <2>1, StutteringKeepsChannel DEF ChannelInv, ChannelTypeOK
<1>2. CASE alive
  <2>1. /\ ends' = Append(ends, Total + length)
        /\ from' = from /\ upto' = upto /\ applied' = applied /\ api' = api /\ alive' = alive
    BY <1>2 DEF writeToStdin, buffer
  <2>2. PICK new \in Nat : new = Len(ends) + 1
    BY DEF ChannelInv, ChannelTypeOK
  <2>3. /\ Lines' = Lines \cup {new}
        /\ Total' = Total + length
        /\ \A i \in Lines : ends'[i] = ends[i] /\ Begin(i)' = Begin(i)
        /\ Begin(new)' = Total
        /\ ends'[new] = Total + length
        /\ Total \in Nat /\ length \in Nat /\ length > 1
        /\ ends' \in Seq(Nat)
    BY <2>1, <2>2, WritingAppends
  <2>4. /\ from \in Nat /\ upto \in Nat /\ from <= upto /\ upto <= Total
        /\ \A i \in Lines : Begin(i) \in Nat /\ ends[i] \in Nat
        /\ \A i \in Lines : Begin(i) < ends[i] /\ ends[i] <= Total
        /\ \A i \in Lines : \A j \in 1 .. i - 1 : ends[j] <= Begin(i)
    <3>1. from \in Nat /\ upto \in Nat /\ from <= upto /\ upto <= Total
      BY <2>3 DEF ChannelInv, ChannelTypeOK
    <3>2. \A i \in Lines : ends[i] \in Nat
      BY DEF ChannelInv, ChannelTypeOK, Lines
    <3> QED BY <3>1, <3>2 DEF ChannelInv, EndsOrdered
  <2>5. \A i \in Lines : Fits(i)' <=> Fits(i)
    BY <2>3 DEF Fits, Length
  <2>6. ChannelTypeOK'
    BY <2>1, <2>3, <2>4 DEF ChannelInv, ChannelTypeOK
  <2>7. EndsOrdered'
    <3>1. ASSUME NEW i \in Lines'
          PROVE  Begin(i)' \in Nat /\ Begin(i)' < ends'[i] /\ ends'[i] <= Total'
      <4>1. CASE i \in Lines
        BY <2>3, <2>4, <4>1
      <4>2. CASE i = new
        BY <2>3, <4>2
      <4> QED BY <2>3, <3>1, <4>1, <4>2
    <3>2. ASSUME NEW i \in Lines', NEW j \in 1 .. i - 1
          PROVE  ends'[j] <= Begin(i)'
      <4>1. i \in Nat /\ j \in Nat /\ j < i /\ j > 0
        BY <3>2 DEF Lines
      <4>2. CASE i \in Lines
        <5>1. j \in Lines
          BY <4>1, <4>2 DEF Lines, ChannelInv, ChannelTypeOK
        <5> QED BY <2>3, <2>4, <4>2, <5>1
      <4>3. CASE i = new
        <5>1. j \in Lines
          BY <2>2, <4>1, <4>3 DEF Lines, ChannelInv, ChannelTypeOK
        <5> QED BY <2>3, <2>4, <4>3, <5>1
      <4> QED BY <2>3, <3>2, <4>2, <4>3
    <3> QED BY <3>1, <3>2 DEF EndsOrdered
  <2>8. NoLineWithin'
    <3> SUFFICES ASSUME NEW i \in Lines', ends'[i] <= upto'
                 PROVE  ends'[i] <= from'
      BY DEF NoLineWithin
    <3>1. i \in Lines
      BY <1>2, WritingReadsNothing
    <3> QED BY <2>1, <2>3, <3>1 DEF ChannelInv, NoLineWithin
  <2>9. FittingIsWhole'
    <3> SUFFICES ASSUME NEW i \in Lines', Fits(i)', ends'[i] > upto'
                 PROVE  Begin(i)' >= from'
      BY DEF FittingIsWhole
    <3>1. CASE i \in Lines
      BY <2>1, <2>3, <2>5, <3>1 DEF ChannelInv, FittingIsWhole
    <3>2. CASE i = new
      BY <2>1, <2>3, <2>4, <3>2
    <3> QED BY <2>3, <3>1, <3>2
  <2>10. Read' = Read
    BY <1>2, WritingReadsNothing
  <2>11. ShortLinesApplied'
    BY <2>1, <2>5, <2>10 DEF ChannelInv, ShortLinesApplied, Read
  <2> QED BY <2>6, <2>7, <2>8, <2>9, <2>11 DEF ChannelInv
<1> QED BY <1>1, <1>2

(* A full buffer that is thrown away holds no part of a line that fits.    *)
LEMMA KeptIsLineStart ==
  ASSUME ChannelInv
  PROVE  /\ Kept \in Nat /\ from <= Kept /\ Kept <= upto /\ from \in Nat /\ upto \in Nat
         /\ Capacity \in Nat /\ upto - Kept < Capacity
         /\ \A i \in Lines : Fits(i) /\ ends[i] > upto => Begin(i) >= Kept
<1>1. /\ from \in Nat /\ upto \in Nat /\ from <= upto /\ upto - from < Capacity
      /\ Capacity \in Nat /\ Capacity > 1
  BY ChannelAssumption DEF ChannelInv, ChannelTypeOK, Total
<1>2. CASE Kept = from
  BY <1>1, <1>2 DEF ChannelInv, FittingIsWhole
<1>3. CASE Kept = upto /\ Space(upto - from) = 0
  <2> SUFFICES ASSUME NEW i \in Lines, Fits(i), ends[i] > upto
               PROVE  Begin(i) >= upto
    BY <1>1, <1>3
  <2>1. /\ Begin(i) \in Nat /\ ends[i] \in Nat
        /\ ends[i] - Begin(i) < Capacity /\ Begin(i) >= from
    BY DEF ChannelInv, ChannelTypeOK, EndsOrdered, FittingIsWhole, Fits, Length, Lines
  <2>2. Begin(i) > from
    BY <1>1, <1>3, <2>1 DEF Space
  <2>3. i - 1 \in Lines /\ Begin(i) = ends[i - 1]
    BY <1>1, <2>1, <2>2 DEF Begin, Lines, ChannelInv, ChannelTypeOK
  <2> QED BY <1>1, <2>1, <2>2, <2>3 DEF ChannelInv, NoLineWithin
<1> QED BY <1>1, <1>2, <1>3 DEF Kept

(* ipc_process keeps the invariant, however many bytes a read returns.     *)
LEMMA ReadingKeepsChannel ==
  ASSUME ChannelInv, NEW n \in 0 .. Capacity - 1, ipc_process(n)
  PROVE  ChannelInv'
<1> DEFINE read == upto + n
<1>1. /\ Kept \in Nat /\ from <= Kept /\ Kept <= upto /\ from \in Nat /\ upto \in Nat
      /\ Capacity \in Nat /\ upto - Kept < Capacity
      /\ \A i \in Lines : Fits(i) /\ ends[i] > upto => Begin(i) >= Kept
  BY KeptIsLineStart
<1>2. /\ ends' = ends /\ api' = api /\ alive' = alive /\ upto' = read
      /\ from' \in Remaining(read)
      /\ n \in Nat /\ read <= Total /\ read + 1 <= Kept + Capacity
      /\ applied' = applied \cup {i \in Completed(read) : Begin(i) >= Kept}
  BY <1>1 DEF ipc_process, Space
<1>3. /\ Lines' = Lines /\ Total' = Total
      /\ \A i \in Lines : Begin(i)' = Begin(i) /\ (Fits(i)' <=> Fits(i))
  BY <1>2 DEF Lines, Total, Begin, Fits, Length
<1>4. /\ \A i \in Lines : Begin(i) \in Nat /\ ends[i] \in Nat /\ Begin(i) < ends[i]
      /\ Total \in Nat
  BY DEF ChannelInv, ChannelTypeOK, EndsOrdered, Lines, Total
<1>5. /\ from' = Kept \/ \E j \in Completed(read) : from' = ends[j]
      /\ from' >= Kept
      /\ \A j \in Completed(read) : ends[j] <= from'
  BY <1>2 DEF Remaining
<1>6. \A j \in Completed(read) : j \in Lines /\ ends[j] > upto /\ ends[j] <= read
  BY <1>1, <1>2, <1>4 DEF Completed
<1>7. from' \in Nat /\ from' <= read
  BY <1>1, <1>2, <1>4, <1>5, <1>6
<1>8. read \in Nat /\ read >= upto
  BY <1>1, <1>2
<1>9. ChannelTypeOK'
  <2>1. applied' \subseteq Lines
    BY <1>2, <1>6 DEF ChannelInv, ChannelTypeOK
  <2>2. upto' - from' < Capacity
    <3>1. \A a, b, c, d \in Nat : b <= a /\ c + 1 <= b + d => c - a < d
      OBVIOUS
    <3> HIDE DEF read
    <3> QED BY <1>1, <1>2, <1>5, <1>7, <1>8, <3>1
  <2> HIDE DEF read
  <2> QED BY <1>2, <1>3, <1>4, <1>7, <1>8, <2>1, <2>2 DEF ChannelInv, ChannelTypeOK
<1>10. EndsOrdered'
  BY <1>2, <1>3 DEF ChannelInv, EndsOrdered
<1>11. NoLineWithin'
  <2> SUFFICES ASSUME NEW i \in Lines, ends[i] <= read
               PROVE  ends[i] <= from'
    BY <1>2, <1>3 DEF NoLineWithin
  <2>1. CASE ends[i] <= upto
    BY <1>1, <1>4, <1>5, <1>7, <2>1 DEF ChannelInv, NoLineWithin
  <2>2. CASE ends[i] > upto
    BY <1>1, <1>4, <1>5, <1>8, <2>2 DEF Completed
  <2> QED BY <1>1, <1>4, <2>1, <2>2
<1>12. FittingIsWhole'
  <2> SUFFICES ASSUME NEW i \in Lines, Fits(i), ends[i] > read
               PROVE  Begin(i) >= from'
    BY <1>2, <1>3 DEF FittingIsWhole
  <2>1. CASE from' = Kept
    BY <1>1, <1>4, <1>8, <2>1
  <2>2. CASE \E j \in Completed(read) : from' = ends[j]
    <3>1. PICK j \in Completed(read) : from' = ends[j]
      BY <2>2
    <3>2. j \in Lines /\ ends[j] < ends[i]
      BY <1>4, <1>6, <1>8, <3>1
    <3>3. i \in Nat /\ j \in Nat /\ i > 0 /\ j > 0
      BY <3>2 DEF Lines
    <3>4. j < i
      <4> SUFFICES ASSUME i < j PROVE FALSE
        BY <3>2, <3>3, <1>4
      <4>1. ends[i] <= Begin(j)
        BY <3>2, <3>3 DEF ChannelInv, EndsOrdered
      <4> QED BY <1>4, <3>2, <4>1
    <3> QED BY <3>1, <3>2, <3>3, <3>4 DEF ChannelInv, EndsOrdered
  <2> QED BY <1>5, <2>1, <2>2
<1>13. ShortLinesApplied'
  <2>1. \A i \in Completed(read) : Begin(i) >= Kept <=> Fits(i)
    BY <1>1, <1>2, <1>4, <1>6, <1>8 DEF Fits, Length
  <2>2. Read' = Read \cup Completed(read)
    BY <1>1, <1>2, <1>3, <1>4, <1>8 DEF Read, Completed
  <2>3. applied' = {i \in Read \cup Completed(read) : Fits(i)}
    BY <1>2, <2>1 DEF ChannelInv, ShortLinesApplied
  <2>4. Read \cup Completed(read) \subseteq Lines
    BY DEF Read, Completed
  <2> QED BY <1>3, <2>2, <2>3, <2>4 DEF ShortLinesApplied
<1> QED BY <1>9, <1>10, <1>11, <1>12, <1>13 DEF ChannelInv

(* Every step of the pipe keeps the invariant. *)
LEMMA ChannelSteps ==
  ASSUME ChannelInv, [ChannelNext]_channelVars
  PROVE  ChannelInv'
<1>1. CASE Start
  <2>1. Empty' /\ api' \in {"stopped", "running"} /\ alive' \in BOOLEAN
    BY <1>1 DEF Start, Empty
  <2>2. (Empty /\ api \in {"stopped", "running"} /\ alive \in BOOLEAN => ChannelInv)'
    BY ChannelStarts, PTL
  <2> QED BY <2>1, <2>2
<1>2. CASE Exit \/ ExitSeen
  BY <1>2, StutteringKeepsChannel DEF Exit, ExitSeen, ChannelInv, ChannelTypeOK
<1>3. CASE \E length \in Lengths : Len(ends) < MaxLines /\ writeToStdin(length)
  BY <1>3, WritingKeepsChannel
<1>4. CASE \E n \in 0 .. Capacity - 1 : ipc_process(n)
  BY <1>4, ReadingKeepsChannel
<1>5. CASE UNCHANGED channelVars
  BY <1>5, StutteringKeepsChannel DEF channelVars, ChannelInv, ChannelTypeOK
<1> QED BY <1>1, <1>2, <1>3, <1>4, <1>5 DEF ChannelNext

Lengthy == [i \in Lines |-> Length(i)]

(* The lengths of the lines are the sequence that LineChannel calls sent.  *)
LEMMA LengthyIsSequence ==
  ASSUME ChannelInv
  PROVE  /\ Lengthy \in Seq(Nat) /\ Len(Lengthy) = Len(ends) /\ Len(ends) \in Nat
         /\ \A i \in Lines : Lengthy[i] = Length(i)
         /\ 1 .. Len(Lengthy) = Lines
<1>1. Len(ends) \in Nat /\ Lines = 1 .. Len(ends)
  BY DEF ChannelInv, ChannelTypeOK, Lines
<1>2. \A i \in Lines : Length(i) \in Nat
  BY DEF ChannelInv, ChannelTypeOK, EndsOrdered, Lines, Length
<1> QED BY <1>1, <1>2 DEF Lengthy

(* A line written to a runtime that lives is a Send of the channel.        *)
LEMMA WritingSends ==
  ASSUME ChannelInv, ChannelInv', NEW length \in Lengths, writeToStdin(length), alive
  PROVE  Promise!Send
<1>1. /\ ends' = Append(ends, Total + length)
      /\ upto' = upto /\ applied' = applied
  BY DEF writeToStdin, buffer
<1>2. PICK new \in Nat : new = Len(ends) + 1
  BY DEF ChannelInv, ChannelTypeOK
<1>3. /\ Lines' = Lines \cup {new}
      /\ \A i \in Lines : ends'[i] = ends[i] /\ Begin(i)' = Begin(i)
      /\ ends'[new] = Total + length
      /\ Total \in Nat /\ length \in Nat /\ length > 1
  BY <1>1, <1>2, WritingAppends
<1>4. /\ Lengthy \in Seq(Nat) /\ Len(Lengthy) = Len(ends) /\ Len(ends) \in Nat
      /\ \A i \in Lines : Lengthy[i] = Length(i)
      /\ 1 .. Len(Lengthy) = Lines
  BY LengthyIsSequence
<1>5. /\ Lengthy' \in Seq(Nat) /\ Len(Lengthy') = Len(ends')
      /\ \A i \in Lines' : Lengthy'[i] = Length(i)'
  <2>1. (ChannelInv => /\ Lengthy \in Seq(Nat) /\ Len(Lengthy) = Len(ends)
                       /\ \A i \in Lines : Lengthy[i] = Length(i))'
    BY LengthyIsSequence, PTL
  <2> QED BY <2>1
<1>6. Len(Lengthy') = Len(Lengthy) + 1
  BY <1>1, <1>4, <1>5 DEF ChannelInv, ChannelTypeOK
<1>7. \A i \in Lines : Length(i)' = Length(i)
  BY <1>3 DEF Length
<1>8. \A i \in 1 .. Len(Lengthy) : Lengthy'[i] = Lengthy[i]
  BY <1>3, <1>4, <1>5, <1>7
<1>9. SubSeq(Lengthy', 1, Len(Lengthy)) = Lengthy
  BY <1>4, <1>5, <1>6, <1>8
<1>10. Read' = Read
  BY WritingReadsNothing
<1> QED BY <1>1, <1>6, <1>9, <1>10 DEF Promise!Send, Lengthy

(* A call of ipc_process is a Deliver of the channel: it hands on the      *)
(* lines it has read to their end and that fit, and no other.              *)
LEMMA ReadingDelivers ==
  ASSUME ChannelInv, ChannelInv', NEW n \in 0 .. Capacity - 1, ipc_process(n)
  PROVE  Promise!Deliver
<1>1. ends' = ends /\ upto' = upto + n /\ n \in Nat /\ upto \in Nat
  BY ChannelAssumption DEF ipc_process, ChannelInv, ChannelTypeOK, Total
<1>2. /\ Lines' = Lines
      /\ \A i \in Lines : Length(i)' = Length(i) /\ (Fits(i)' <=> Fits(i))
  BY <1>1 DEF Lines, Length, Begin, Fits
<1>3. /\ 1 .. Len(Lengthy) = Lines /\ \A i \in Lines : Lengthy[i] = Length(i)
  BY LengthyIsSequence
<1>4. Lengthy' = Lengthy
  BY <1>2 DEF Lengthy
<1>5. \A i \in Lines : ends[i] \in Nat /\ Length(i) \in Nat
  <2>1. \A i \in Lines : ends[i] \in Nat /\ Begin(i) \in Nat /\ Begin(i) < ends[i]
    BY DEF ChannelInv, ChannelTypeOK, EndsOrdered, Lines
  <2> QED BY <2>1 DEF Length
<1>6. Read \subseteq Read' /\ Read' \subseteq Lines
  BY <1>1, <1>2, <1>5 DEF Read
<1>7. ASSUME NEW i \in Read', NEW j \in 1 .. i
      PROVE  j \in Read'
  <2>1. i \in Lines /\ i \in Nat /\ j \in Lines /\ j \in Nat /\ j <= i /\ ends[i] <= upto'
    BY <1>1, <1>2, <1>7 DEF Read, Lines, ChannelInv, ChannelTypeOK
  <2>2. CASE j = i
    BY <2>2
  <2>3. CASE j < i
    <3>1. j \in 1 .. i - 1
      BY <2>1, <2>3
    <3>2. ends[j] <= Begin(i) /\ Begin(i) < ends[i] /\ Begin(i) \in Nat
      BY <2>1, <3>1 DEF ChannelInv, EndsOrdered
    <3>3. ends[j] <= upto'
      BY <1>1, <1>5, <2>1, <3>2
    <3> QED BY <1>1, <1>2, <2>1, <3>3 DEF Read
  <2> QED BY <2>1, <2>2, <2>3
<1>8. \A i \in Lines : Fits(i) <=> Lengthy[i] <= Capacity - 1
  BY <1>3, <1>5, ChannelAssumption DEF Fits
<1>9. applied' = {i \in Read' : Lengthy[i] <= Capacity - 1}
  BY <1>2, <1>6, <1>8 DEF ChannelInv, ShortLinesApplied
<1> QED BY <1>3, <1>4, <1>6, <1>7, <1>9 DEF Promise!Deliver, Lengthy

(* Every step of the pipe is one of LineChannel or leaves it alone. *)
LEMMA StepsKeepPromise ==
  ASSUME ChannelInv, ChannelInv', [ChannelNext]_channelVars
  PROVE  [Promise!Next]_Promise!vars
<1>1. ASSUME UNCHANGED pipe
      PROVE  UNCHANGED Promise!vars
  BY <1>1 DEF pipe, buffer, Promise!vars, Lines, Length, Begin, Read
<1>2. CASE Start
  <2>1. ends' = <<>> /\ applied' = {} /\ Lines' = {}
    BY <1>2 DEF Start, Lines
  <2>2. Promise!Restart
    BY <2>1 DEF Promise!Restart, Read
  <2> QED BY <2>2 DEF Promise!Next
<1>3. CASE Exit \/ ExitSeen \/ UNCHANGED channelVars
  BY <1>1, <1>3 DEF Exit, ExitSeen, channelVars
<1>4. CASE \E length \in Lengths : Len(ends) < MaxLines /\ writeToStdin(length)
  <2>1. PICK length \in Lengths : writeToStdin(length)
    BY <1>4
  <2>2. CASE alive
    BY <2>1, <2>2, WritingSends DEF Promise!Next
  <2>3. CASE ~alive
    BY <1>1, <2>1, <2>3 DEF writeToStdin, pipe, buffer
  <2> QED BY <2>2, <2>3
<1>5. CASE \E n \in 0 .. Capacity - 1 : ipc_process(n)
  BY <1>5, ReadingDelivers DEF Promise!Next
<1> QED BY <1>2, <1>3, <1>4, <1>5 DEF ChannelNext

-----------------------------------------------------------------------------
(***************************************************************************)
(* The trust store.  The inductive invariant: the answers a verification   *)
(* has seen include the present one, and "not rejected" once it is past    *)
(* the rejected files; a file that holds a part of a certificate is the    *)
(* one being written or was cut short; and what a request has found in a   *)
(* store is still there when it moves it.                                  *)
(***************************************************************************)
SeenInTime ==
  /\ verifying # "idle" => Store!Rejected(client) \in seen
  /\ verifying \in {"trusted?", "open", "write"} => FALSE \in seen

PartsOwned ==
  \A c \in Certs :
    /\ trusted[c] = "part" => c \in cut \/ (file = "trusted" /\ client = c)
    /\ rejected[c] = "part" => c \in cut \/ (file = "rejected" /\ client = c)

FoundIsThere ==
  /\ handling \in {"trustMissing", "trustMove"} => Store!Rejected(subject)
  /\ handling = "rejectMove" => Store!Trusted(subject)

StoreInv == Store!StoreTypeOK /\ SeenInTime /\ PartsOwned /\ FoundIsThere

(* What the three properties say of one step. *)
Timely ==
  verifying # "idle" /\ verifying' = "idle" =>
    /\ verdict' = "good" => FALSE \in seen
    /\ verdict' = "bad" => TRUE \in seen

Keeps ==
  \A c \in Certs :
    /\ Store!Stored(c) /\ ~Store!Stored(c)' =>
         handling \in {"deleteTrusted", "deleteRejected"} /\ subject = c
    /\ Store!Rejected(c) /\ ~Store!Rejected(c)' =>
         handling \in {"trustMove", "deleteRejected"} /\ subject = c

(* While a verification or a request is under way it is about a            *)
(* certificate.                                                            *)
LEMMA AboutACertificate ==
  ASSUME StoreInv
  PROVE  /\ verifying # "idle" => client \in Certs
         /\ handling # "idle" => subject \in Certs
         /\ verifying = "idle" => client \notin Certs
         /\ handling = "idle" => subject \notin Certs
BY InputsAssumption DEF StoreInv, Store!StoreTypeOK

(* Empty stores, and nobody at work on them. *)
LEMMA StoreStarts == Store!StoreInit => StoreInv
BY InputsAssumption
DEF Store!StoreInit, StoreInv, Store!StoreTypeOK, Store!File, Store!Handling,
    SeenInTime, PartsOwned, FoundIsThere

(* A step that leaves the files alone loses no certificate.                *)
LEMMA QuietKeeps ==
  ASSUME trusted' = trusted, rejected' = rejected
  PROVE  Keeps
BY DEF Keeps, Store!Stored, Store!Trusted, Store!Rejected

(* A verification that begins, looks something up, or ends with a lookup.  *)
LEMMA LookingKeepsStore ==
  ASSUME StoreInv,
         \/ \E c \in Certs : Store!Verify(c)
         \/ Store!Unreadable \/ Store!LookUpRejected \/ Store!LookUpTrusted
         \/ Store!OpenFails
  PROVE  StoreInv' /\ Timely /\ Keeps
<1>1. /\ trusted' = trusted /\ rejected' = rejected /\ file' = file
      /\ handling' = handling /\ subject' = subject /\ cut' = cut
  BY DEF Store!Verify, Store!Unreadable, Store!LookUpRejected, Store!LookUpTrusted,
     Store!OpenFails, Store!stores, Store!handler
<1>2. file = "none" /\ verifying # "write"
  BY DEF StoreInv, Store!StoreTypeOK, Store!Verify, Store!Unreadable,
     Store!LookUpRejected, Store!LookUpTrusted, Store!OpenFails
<1>3. Store!StoreTypeOK'
  BY <1>1, <1>2, InputsAssumption
  DEF StoreInv, Store!StoreTypeOK, Store!Verify, Store!Unreadable,
      Store!LookUpRejected, Store!LookUpTrusted, Store!OpenFails, Store!Answer,
      Store!GoOn, Store!Rejected
<1>4. SeenInTime' /\ Timely
  BY <1>1
  DEF StoreInv, SeenInTime, Timely, Store!Verify, Store!Unreadable,
      Store!LookUpRejected, Store!LookUpTrusted, Store!OpenFails, Store!Answer,
      Store!GoOn, Store!Rejected
<1>5. PartsOwned' /\ FoundIsThere'
  BY <1>1, <1>2
  DEF StoreInv, PartsOwned, FoundIsThere, Store!Rejected, Store!Trusted
<1> QED BY <1>1, <1>3, <1>4, <1>5, QuietKeeps DEF StoreInv

(* The file is opened: a part of it, in the hands of the verifier.         *)
LEMMA OpenKeepsStore ==
  ASSUME StoreInv, Store!Open
  PROVE  StoreInv' /\ Timely /\ Keeps
<1>1. /\ verifying = "open" /\ verifying' = "write"
      /\ client' = client /\ seen' = seen /\ verdict' = verdict /\ file' = "trusted"
      /\ trusted' = [trusted EXCEPT ![client] = "part"]
      /\ rejected' = rejected /\ handling' = handling /\ subject' = subject /\ cut' = cut
  BY DEF Store!Open, Store!GoOn, Store!handler
<1>2. client \in Certs /\ file = "none" /\ trusted \in [Certs -> Store!File]
  BY <1>1, AboutACertificate DEF StoreInv, Store!StoreTypeOK
<1>3. Store!StoreTypeOK'
  BY <1>1, <1>2 DEF StoreInv, Store!StoreTypeOK, Store!File
<1>4. SeenInTime' /\ Timely
  BY <1>1 DEF StoreInv, SeenInTime, Timely, Store!Rejected
<1>5. PartsOwned'
  BY <1>1, <1>2 DEF StoreInv, PartsOwned
<1>6. FoundIsThere' /\ Keeps
  BY <1>1, <1>2, AboutACertificate
  DEF StoreInv, FoundIsThere, Keeps, Store!Stored, Store!Rejected, Store!Trusted
<1> QED BY <1>3, <1>4, <1>5, <1>6 DEF StoreInv

(* It is written, whole or not, wherever it is by now; or the runtime ends *)
(* before that.                                                            *)
LEMMA WriteKeepsStore ==
  ASSUME StoreInv, NEW whole \in BOOLEAN, Store!Write(whole)
  PROVE  StoreInv' /\ Timely /\ Keeps
<1> DEFINE content == IF whole THEN "whole" ELSE "part"
<1>1. /\ verifying = "write" /\ verifying' = "idle" /\ client' = NoCert
      /\ seen' = {} /\ verdict' = "good" /\ file' = "none"
      /\ trusted' = Store!Written("trusted", trusted, content)
      /\ rejected' = Store!Written("rejected", rejected, content)
      /\ cut' = (IF whole \/ file = "gone" THEN cut ELSE cut \cup {client})
      /\ handling' = handling /\ subject' = subject
  BY DEF Store!Write, Store!Answer, Store!handler
<1>2. /\ client \in Certs /\ file \in {"trusted", "rejected", "gone"}
      /\ trusted \in [Certs -> Store!File] /\ rejected \in [Certs -> Store!File]
      /\ content \in {"part", "whole"}
  BY <1>1, AboutACertificate DEF StoreInv, Store!StoreTypeOK
<1>3. \A c \in Certs :
        /\ trusted'[c] = IF file = "trusted" /\ c = client THEN content ELSE trusted[c]
        /\ rejected'[c] = IF file = "rejected" /\ c = client THEN content ELSE rejected[c]
  BY <1>1, <1>2 DEF Store!Written
<1>4. Store!StoreTypeOK'
  <2>1. trusted' \in [Certs -> Store!File] /\ rejected' \in [Certs -> Store!File]
    BY <1>1, <1>2 DEF Store!Written, Store!File
  <2> QED BY <1>1, <1>2, <2>1, InputsAssumption DEF StoreInv, Store!StoreTypeOK
<1>5. SeenInTime' /\ Timely
  BY <1>1 DEF StoreInv, SeenInTime, Timely
<1>6. PartsOwned'
  BY <1>1, <1>2, <1>3 DEF StoreInv, PartsOwned
<1>7. FoundIsThere' /\ Keeps
  BY <1>1, <1>2, <1>3, AboutACertificate
  DEF StoreInv, FoundIsThere, Keeps, Store!Stored, Store!Rejected, Store!Trusted
<1> QED BY <1>4, <1>5, <1>6, <1>7 DEF StoreInv

LEMMA AbortKeepsStore ==
  ASSUME StoreInv, Store!Abort
  PROVE  StoreInv' /\ Timely /\ Keeps
<1>1. /\ verifying' = "idle" /\ client' = NoCert /\ seen' = {} /\ verdict' = "none"
      /\ file' = "none" /\ trusted' = trusted /\ rejected' = rejected
      /\ cut' = (IF file \in {"trusted", "rejected"} THEN cut \cup {client} ELSE cut)
      /\ handling' = handling /\ subject' = subject
  BY DEF Store!Abort, Store!Answer, Store!stores, Store!handler
<1>2. file \in {"trusted", "rejected"} => client \in Certs
  BY AboutACertificate DEF StoreInv, Store!StoreTypeOK
<1>3. Store!StoreTypeOK'
  BY <1>1, <1>2, InputsAssumption DEF StoreInv, Store!StoreTypeOK
<1>4. PartsOwned' /\ FoundIsThere'
  BY <1>1 DEF StoreInv, PartsOwned, FoundIsThere, Store!Rejected, Store!Trusted
<1> QED BY <1>1, <1>3, <1>4, QuietKeeps DEF StoreInv, SeenInTime, Timely

(* A request that begins, looks, fails or ends touches no file.            *)
LEMMA AskingKeepsStore ==
  ASSUME StoreInv,
         \/ \E c \in Certs, request \in {"trust", "reject", "delete"} :
              Store!Ask(request, c)
         \/ Store!LookUp \/ Store!RequestFails \/ Store!Signalled
  PROVE  StoreInv' /\ Timely /\ Keeps
<1>1. /\ trusted' = trusted /\ rejected' = rejected /\ verifying' = verifying
      /\ client' = client /\ file' = file /\ verdict' = verdict /\ seen' = seen
      /\ cut' = cut
  BY DEF Store!Ask, Store!LookUp, Store!Look, Store!RequestFails, Store!Signalled,
     Store!stores, Store!verifier
<1>2. /\ handling' \in Store!Handling /\ subject' \in Certs \cup {NoCert}
      /\ handling' = "idle" <=> subject' = NoCert
      /\ FoundIsThere'
  <2>1. CASE \E c \in Certs, request \in {"trust", "reject", "delete"} :
               Store!Ask(request, c)
    BY <2>1, InputsAssumption DEF Store!Ask, Store!Handling, FoundIsThere
  <2>2. CASE Store!RequestFails \/ Store!Signalled
    BY <2>2 DEF Store!RequestFails, Store!Signalled, Store!Handling, FoundIsThere
  <2>3. CASE Store!LookUp
    <3>1. handling # "idle" /\ subject \in Certs /\ subject # NoCert
      BY <2>3, AboutACertificate, InputsAssumption DEF Store!LookUp, Store!Look
    <3>2. subject' = IF handling' = "idle" THEN NoCert ELSE subject
      BY <2>3 DEF Store!LookUp, Store!Look
    <3>3. handling' \in Store!Handling
      BY <2>3 DEF Store!LookUp, Store!Look, Store!Handling
    <3>4. FoundIsThere'
      BY <1>1, <2>3, <3>2 DEF Store!LookUp, Store!Look, FoundIsThere, StoreInv,
         Store!Rejected, Store!Trusted
    <3> QED BY <3>1, <3>2, <3>3, <3>4
  <2> QED BY <2>1, <2>2, <2>3
<1>3. Store!StoreTypeOK'
  BY <1>1, <1>2 DEF StoreInv, Store!StoreTypeOK
<1>4. SeenInTime' /\ PartsOwned' /\ Timely
  BY <1>1 DEF StoreInv, SeenInTime, PartsOwned, Timely, Store!Rejected
<1> QED BY <1>1, <1>2, <1>3, <1>4, QuietKeeps DEF StoreInv

(* What a request does to the files counts among the answers a             *)
(* verification under way has seen.                                        *)
LEMMA WitnessedInTime ==
  ASSUME StoreInv, Store!Witnessed, verifying' = verifying, client' = client
  PROVE  SeenInTime' /\ Timely
BY DEF StoreInv, SeenInTime, Timely, Store!Witnessed, Store!Rejected

(* renameSync takes the file from one store to the other, along with the   *)
(* hands of the verifier on it.                                            *)
LEMMA TrustKeepsStore ==
  ASSUME StoreInv, Store!trustCertificate
  PROVE  StoreInv' /\ Timely /\ Keeps
<1>1. /\ handling = "trustMove" /\ handling' = "signal"
      /\ trusted' = [trusted EXCEPT ![subject] = rejected[subject]]
      /\ rejected' = [rejected EXCEPT ![subject] = "none"]
      /\ file' = Store!Carried("rejected", "trusted")
      /\ verifying' = verifying /\ client' = client /\ verdict' = verdict
      /\ subject' = subject /\ cut' = cut
  BY DEF Store!trustCertificate
<1>2. /\ subject \in Certs /\ rejected[subject] # "none"
      /\ trusted \in [Certs -> Store!File] /\ rejected \in [Certs -> Store!File]
  BY <1>1, AboutACertificate
  DEF StoreInv, Store!StoreTypeOK, FoundIsThere, Store!Rejected
<1>3. /\ SeenInTime' /\ Timely
      /\ seen' \subseteq BOOLEAN
  BY <1>1, WitnessedInTime
  DEF Store!trustCertificate, Store!Witnessed, StoreInv, Store!StoreTypeOK
<1>4. /\ file' \in {"none", "trusted", "rejected", "gone"}
      /\ file' # "none" <=> file # "none"
  BY <1>1 DEF Store!Carried, StoreInv, Store!StoreTypeOK
<1>5. Store!StoreTypeOK'
  BY <1>1, <1>2, <1>3, <1>4
  DEF StoreInv, Store!StoreTypeOK, Store!File, Store!Handling
<1>6. PartsOwned'
  BY <1>1, <1>2 DEF StoreInv, PartsOwned, Store!Carried
<1>7. FoundIsThere' /\ Keeps
  BY <1>1, <1>2
  DEF FoundIsThere, Keeps, Store!Stored, Store!Rejected, Store!Trusted
<1> QED BY <1>3, <1>5, <1>6, <1>7 DEF StoreInv

LEMMA RejectKeepsStore ==
  ASSUME StoreInv, Store!rejectCertificate
  PROVE  StoreInv' /\ Timely /\ Keeps
<1>1. /\ handling = "rejectMove" /\ handling' = "signal"
      /\ rejected' = [rejected EXCEPT ![subject] = trusted[subject]]
      /\ trusted' = [trusted EXCEPT ![subject] = "none"]
      /\ file' = Store!Carried("trusted", "rejected")
      /\ verifying' = verifying /\ client' = client /\ verdict' = verdict
      /\ subject' = subject /\ cut' = cut
  BY DEF Store!rejectCertificate
<1>2. /\ subject \in Certs /\ trusted[subject] # "none"
      /\ trusted \in [Certs -> Store!File] /\ rejected \in [Certs -> Store!File]
  BY <1>1, AboutACertificate
  DEF StoreInv, Store!StoreTypeOK, FoundIsThere, Store!Trusted
<1>3. /\ SeenInTime' /\ Timely
      /\ seen' \subseteq BOOLEAN
  BY <1>1, WitnessedInTime
  DEF Store!rejectCertificate, Store!Witnessed, StoreInv, Store!StoreTypeOK
<1>4. /\ file' \in {"none", "trusted", "rejected", "gone"}
      /\ file' # "none" <=> file # "none"
  BY <1>1 DEF Store!Carried, StoreInv, Store!StoreTypeOK
<1>5. Store!StoreTypeOK'
  BY <1>1, <1>2, <1>3, <1>4
  DEF StoreInv, Store!StoreTypeOK, Store!File, Store!Handling
<1>6. PartsOwned'
  BY <1>1, <1>2 DEF StoreInv, PartsOwned, Store!Carried
<1>7. FoundIsThere' /\ Keeps
  BY <1>1, <1>2
  DEF FoundIsThere, Keeps, Store!Stored, Store!Rejected, Store!Trusted
<1> QED BY <1>3, <1>5, <1>6, <1>7 DEF StoreInv

(* DELETE is the one request after which a certificate may be gone.        *)
LEMMA DeleteKeepsStore ==
  ASSUME StoreInv, Store!deleteCertificate
  PROVE  StoreInv' /\ Timely /\ Keeps
<1>1. /\ handling \in {"deleteTrusted", "deleteRejected"} /\ handling' = "signal"
      /\ verifying' = verifying /\ client' = client /\ verdict' = verdict
      /\ subject' = subject /\ cut' = cut
      /\ \/ /\ handling = "deleteTrusted"
            /\ trusted' = [trusted EXCEPT ![subject] = "none"] /\ rejected' = rejected
            /\ file' = Store!Carried("trusted", "gone")
         \/ /\ handling = "deleteRejected"
            /\ rejected' = [rejected EXCEPT ![subject] = "none"] /\ trusted' = trusted
            /\ file' = Store!Carried("rejected", "gone")
  BY DEF Store!deleteCertificate
<1>2. /\ subject \in Certs
      /\ trusted \in [Certs -> Store!File] /\ rejected \in [Certs -> Store!File]
  BY <1>1, AboutACertificate DEF StoreInv, Store!StoreTypeOK
<1>3. /\ SeenInTime' /\ Timely
      /\ seen' \subseteq BOOLEAN
  BY <1>1, WitnessedInTime
  DEF Store!deleteCertificate, Store!Witnessed, StoreInv, Store!StoreTypeOK
<1>4. /\ file' \in {"none", "trusted", "rejected", "gone"}
      /\ file' # "none" <=> file # "none"
  BY <1>1 DEF Store!Carried, StoreInv, Store!StoreTypeOK
<1>5. Store!StoreTypeOK'
  <2>1. trusted' \in [Certs -> Store!File] /\ rejected' \in [Certs -> Store!File]
    BY <1>1, <1>2 DEF Store!File
  <2> QED BY <1>1, <1>2, <1>3, <1>4, <2>1 DEF StoreInv, Store!StoreTypeOK, Store!Handling
<1>6. PartsOwned'
  BY <1>1, <1>2 DEF StoreInv, PartsOwned, Store!Carried
<1>7. FoundIsThere' /\ Keeps
  BY <1>1, <1>2
  DEF FoundIsThere, Keeps, Store!Stored, Store!Rejected, Store!Trusted
<1> QED BY <1>3, <1>5, <1>6, <1>7 DEF StoreInv

(* A step of the runtime's stdin alone does not touch the stores.          *)
LEMMA StoreStutters ==
  ASSUME StoreInv, UNCHANGED storeVars
  PROVE  StoreInv' /\ Timely /\ Keeps
<1>1. Store!StoreTypeOK'
  BY DEF StoreInv, storeVars, Store!StoreTypeOK
<1>2. SeenInTime' /\ PartsOwned' /\ FoundIsThere' /\ Timely
  BY DEF StoreInv, storeVars, SeenInTime, PartsOwned, FoundIsThere, Timely,
     Store!Rejected, Store!Trusted
<1> QED BY <1>1, <1>2, QuietKeeps DEF StoreInv, storeVars

-----------------------------------------------------------------------------
(***************************************************************************)
(* The runtime's inputs together.                                          *)
(***************************************************************************)

(* A step of RuntimeInputs is one of the pipe, seen from the pipe ... *)
LEMMA PipeSteps ==
  ASSUME [Next]_vars
  PROVE  [ChannelNext]_channelVars
<1>1. ASSUME NEW length \in Lengths, Room, writeToStdin(length)
      PROVE  [ChannelNext]_channelVars
  <2>1. CASE alive
    BY <1>1, <2>1 DEF Room, ChannelNext
  <2>2. CASE ~alive
    BY <1>1, <2>2 DEF writeToStdin, channelVars, pipe, buffer
  <2> QED BY <2>1, <2>2
<1>2. CASE signalReload
  BY <1>1, <1>2, InputsAssumption DEF signalReload
<1>3. CASE UNCHANGED vars
  BY <1>3 DEF vars
<1> QED BY <1>1, <1>2, <1>3 DEF Next, Channel, Process, ChannelNext

(* ... and one of the store, seen from there. *)
LEMMA StoreSteps ==
  ASSUME StoreInv, [Next]_vars
  PROVE  StoreInv' /\ Timely /\ Keeps
<1>1. CASE Store!VerifierStep \/ \E c \in Certs : Store!Verify(c)
  BY <1>1, LookingKeepsStore, OpenKeepsStore, WriteKeepsStore DEF Store!VerifierStep
<1>2. CASE Store!Abort
  BY <1>2, AbortKeepsStore
<1>3. CASE \/ \E c \in Certs, request \in {"trust", "reject", "delete"} :
                Store!Ask(request, c)
           \/ Store!Signalled
  BY <1>3, AskingKeepsStore
<1>4. CASE Store!HandlerStep
  BY <1>4, AskingKeepsStore, TrustKeepsStore, RejectKeepsStore, DeleteKeepsStore
  DEF Store!HandlerStep
<1>5. CASE UNCHANGED storeVars
  BY <1>5, StoreStutters
<1> QED BY <1>1, <1>2, <1>3, <1>4, <1>5 DEF Next, Channel, Process, signalReload, vars

(* Every reachable state of the runtime's inputs satisfies both invariants. *)
THEOREM InputsInvariant == Spec => [](ChannelInv /\ StoreInv)
<1>1. Init => ChannelInv /\ StoreInv
  BY ChannelStarts, StoreStarts DEF Init, ChannelInit
<1>2. (ChannelInv /\ StoreInv) /\ [Next]_vars => (ChannelInv /\ StoreInv)'
  BY PipeSteps, ChannelSteps, StoreSteps
<1> QED BY <1>1, <1>2, PTL DEF Spec

(* The variables of the pipe and of the store keep their types. *)
THEOREM InputsTypeCorrect == Spec => []TypeOK
<1>1. ChannelInv /\ StoreInv => TypeOK
  BY DEF ChannelInv, StoreInv, TypeOK
<1> QED BY <1>1, InputsInvariant, PTL

(***************************************************************************)
(* Whatever the size of the buffer, the lines and the pieces they arrive   *)
(* in, ipc_process applies exactly the lines that fit.                     *)
(***************************************************************************)
THEOREM ShortLinesAreApplied == Spec => []ShortLinesApplied
<1>1. ChannelInv => ShortLinesApplied
  BY DEF ChannelInv
<1> QED BY <1>1, InputsInvariant, PTL

(***************************************************************************)
(* writeToStdin and ipc_process together implement LineChannel: no line    *)
(* that fits is lost, and none comes out twice, early or cut.              *)
(***************************************************************************)
THEOREM ChannelKeepsPromise == Spec => KeepsPromise
<1>1. Init => Promise!Init
  <2> SUFFICES ASSUME Init PROVE Promise!Init
    OBVIOUS
  <2>1. ends = <<>> /\ applied = {} /\ Lines = {}
    BY DEF Init, ChannelInit, Empty, Lines
  <2> QED BY <2>1 DEF Promise!Init, Read
<1>2. ChannelInv /\ ChannelInv' /\ [Next]_vars => [Promise!Next]_Promise!vars
  BY PipeSteps, StepsKeepPromise
<1> QED BY <1>1, <1>2, InputsInvariant, PTL DEF Spec, KeepsPromise, Promise!Spec

(***************************************************************************)
(* A stored certificate is shown to the operator unless it is being        *)
(* written or was cut short: moves never leave a piece behind.             *)
(***************************************************************************)
THEOREM StoredIsListed == Spec => []ListedUnlessCut
<1>1. StoreInv => ListedUnlessCut
  BY DEF StoreInv, Store!StoreTypeOK, Store!File, PartsOwned, ListedUnlessCut,
     Store!ListedUnlessCut, Store!listCertificates, Store!Stored, Store!Trusted,
     Store!Rejected
<1> QED BY <1>1, InputsInvariant, PTL

(***************************************************************************)
(* The verdict on a client was right at some moment of its verification,   *)
(* whatever the routes moved in the meantime.                              *)
(***************************************************************************)
THEOREM VerdictsAreTimely == Spec => VerdictIsTimely
<1>1. StoreInv /\ [Next]_vars => Timely
  BY StoreSteps
<1> QED BY <1>1, InputsInvariant, PTL DEF Spec, VerdictIsTimely, Store!VerdictIsTimely, Timely

(***************************************************************************)
(* A certificate the stores know is forgotten by DELETE alone, and only a  *)
(* request to trust or to delete it ends its rejection.                    *)
(***************************************************************************)
THEOREM NothingIsLost == Spec => NothingLost
<1>1. StoreInv /\ [Next]_vars => Keeps
  BY StoreSteps
<1> QED BY <1>1, InputsInvariant, PTL DEF Spec, NothingLost, Store!NothingLost, Keeps
=============================================================================
