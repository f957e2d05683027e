---------------------------- MODULE RequestReply ----------------------------
(***************************************************************************)
(* What an asynchronous interface promises: a callback for a request that  *)
(* was accepted, at most one, and none for any other.                      *)
(***************************************************************************)
EXTENDS Integers

CONSTANT Requests

VARIABLES asked,    \* the requests accepted so far
          answers   \* how often each one was called back

Init == asked = {} /\ answers = [q \in Requests |-> 0]

Ask(q) == q \notin asked /\ asked' = asked \cup {q} /\ UNCHANGED answers

Answer(q) ==
    /\ q \in asked /\ answers[q] = 0
    /\ answers' = [answers EXCEPT ![q] = 1]
    /\ UNCHANGED asked

Next == \E q \in Requests : Ask(q) \/ Answer(q)

Spec == Init /\ [][Next]_<<asked, answers>>
=============================================================================
