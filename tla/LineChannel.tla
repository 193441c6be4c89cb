----------------------------- MODULE LineChannel -----------------------------
(***************************************************************************)
(* What the stdin of the runtime promises to those who write lines to it:  *)
(* the lines that are not too long come out, each once and in the order    *)
(* they went in; a longer one comes out nowhere and takes no other with    *)
(* it.  A new runtime begins with an empty channel.                        *)
(***************************************************************************)
EXTENDS Naturals, Sequences

CONSTANT Longest    \* length of the longest line that comes out

VARIABLES
  sent,     \* the lengths of the lines written, in order
  passed,   \* numbers of those that have gone through, the first ones
  got       \* numbers of those that came out

vars == <<sent, passed, got>>

Init == sent = <<>> /\ passed = {} /\ got = {}

Send ==
  /\ Len(sent') = Len(sent) + 1
  /\ SubSeq(sent', 1, Len(sent)) = sent
  /\ UNCHANGED <<passed, got>>

Deliver ==
  /\ passed \subseteq passed' /\ passed' \subseteq 1 .. Len(sent)
  /\ \A i \in passed' : 1 .. i \subseteq passed'
  /\ got' = {i \in passed' : sent[i] <= Longest}
  /\ UNCHANGED sent

Restart == sent' = <<>> /\ passed' = {} /\ got' = {}

Next == Send \/ Deliver \/ Restart

Spec == Init /\ [][Next]_vars
=============================================================================
