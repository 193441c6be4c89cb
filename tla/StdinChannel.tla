---------------------------- MODULE StdinChannel ----------------------------
(***************************************************************************)
(* The pipe from the API to the stdin of the runtime.  writeToStdin hands  *)
(* lines of JSON to a stream that takes them all and ignores back          *)
(* pressure; ipc_process, called by the loop of the runtime, reads what    *)
(* has arrived, at most what its buffer holds, applies the lines that are  *)
(* complete and keeps the rest for the next call.  A buffer that is full   *)
(* without a newline is thrown away.                                       *)
(*                                                                         *)
(* Bytes are positions in the stream: ends[i] is the position behind the   *)
(* newline of line i, and the buffer holds the bytes from `from' to        *)
(* `upto'.  What is left of a line whose beginning was thrown away is not  *)
(* a JSON object with a type, so apply_value_update ignores it.            *)
(***************************************************************************)
EXTENDS Naturals, Sequences

CONSTANTS
  Capacity,   \* sizeof(ctx->stdin_buffer): 65536 bytes, the last is for NUL
  Lengths,    \* lengths of the lines with the newline, none is empty
  MaxLines    \* bound: lines written to one runtime

ASSUME ChannelAssumption ==
  /\ Capacity \in Nat /\ Capacity > 1
  /\ Lengths \subseteq Nat \ {0, 1}
  /\ MaxLines \in Nat

VARIABLES
  api,      \* state of the process manager
  alive,    \* the runtime runs
  ends,     \* where the lines written end
  from,     \* the first byte in the buffer
  upto,     \* the bytes read
  applied   \* numbers of the lines given to apply_value_update whole

buffer == <<from, upto>>
pipe == <<ends, buffer, applied>>
channelVars == <<api, alive, pipe>>

Lines == 1 .. Len(ends)
Begin(i) == IF i = 1 THEN 0 ELSE ends[i - 1]
Length(i) == ends[i] - Begin(i)
Total == IF ends = <<>> THEN 0 ELSE ends[Len(ends)]

ChannelTypeOK ==
  /\ api \in {"stopped", "running"}
  /\ alive \in BOOLEAN
  /\ ends \in Seq(Nat)
  /\ from \in Nat /\ upto \in from .. Total
  /\ upto - from < Capacity
  /\ applied \subseteq Lines

-----------------------------------------------------------------------------
Empty == ends = <<>> /\ from = 0 /\ upto = 0 /\ applied = {}

ChannelInit == api = "stopped" /\ alive = FALSE /\ Empty

(* spawn: a new process, a new pipe, a buffer of zero bytes. *)
Start ==
  /\ api = "stopped" /\ ~alive
  /\ api' = "running" /\ alive' = TRUE
  /\ ends' = <<>> /\ from' = 0 /\ upto' = 0 /\ applied' = {}

(* The runtime ends, by a signal or a crash; the API hears of it later. *)
Exit == alive /\ alive' = FALSE /\ UNCHANGED <<api, pipe>>

ExitSeen ==
  /\ api = "running" /\ ~alive
  /\ api' = "stopped"
  /\ UNCHANGED <<alive, pipe>>

(***************************************************************************)
(* A line written after the runtime has ended is an EPIPE that the error   *)
(* listener absorbs.  The answer FALSE of a full stream changes nothing:   *)
(* Node keeps the line.                                                    *)
(***************************************************************************)
writeToStdin(length) ==
  /\ api = "running"
  /\ ends' = IF alive THEN Append(ends, Total + length) ELSE ends
  /\ UNCHANGED <<api, alive, buffer, applied>>

-----------------------------------------------------------------------------
Space(buffered) == Capacity - buffered - 1

(* Where the buffer begins after a full one has been thrown away. *)
Bug_KeptForever == from
Bug_KeptWhenAlmostFull == IF Space(upto - from) <= 1 THEN upto ELSE from
Kept == IF Space(upto - from) = 0 THEN upto ELSE from

Completed(read) == {i \in Lines : ends[i] \in upto + 1 .. read}

(* What is left behind the last newline moves to the front. *)
Remaining(read) ==
  LET starts == {Kept} \cup {ends[i] : i \in Completed(read)}
  IN {s \in starts : \A t \in starts : t <= s}

(* A call of ipc_process that reads n bytes, as many as the pipe has ready. *)
ipc_process(n) ==
  LET read == upto + n
  IN /\ alive
     /\ n <= Space(upto - Kept) /\ read <= Total
     /\ applied' = applied \cup {i \in Completed(read) : Begin(i) >= Kept}
     /\ from' \in Remaining(read)
     /\ upto' = read
     /\ UNCHANGED <<api, alive, ends>>

ChannelNext ==
  \/ Start
  \/ Exit
  \/ ExitSeen
  \/ \E length \in Lengths : Len(ends) < MaxLines /\ writeToStdin(length)
  \/ \E n \in 0 .. Capacity - 1 : ipc_process(n)

ChannelSpec == ChannelInit /\ [][ChannelNext]_channelVars

-----------------------------------------------------------------------------
(* Fits the buffer with its newline and the NUL behind it. *)
Fits(i) == Length(i) < Capacity

Read == {i \in Lines : ends[i] <= upto}

(***************************************************************************)
(* Whatever pieces the pipe hands out, the lines applied are exactly those *)
(* read to their end that fit the buffer: none is lost with an overlong    *)
(* neighbour, none that was cut is applied.                                *)
(***************************************************************************)
ShortLinesApplied == applied = {i \in Read : Fits(i)}

Promise == INSTANCE LineChannel WITH
  Longest <- Capacity - 1,
  sent <- [i \in Lines |-> Length(i)],
  passed <- Read,
  got <- applied

(* The buffer implements a channel that loses nothing but overlong lines.   *)
KeepsPromise == Promise!Spec
=============================================================================
