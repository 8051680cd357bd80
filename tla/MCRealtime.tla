----------------------------- MODULE MCRealtime -----------------------------
(* Instances of Realtime for model checking.                               *)
EXTENDS Realtime, TLC

CONSTANTS r1, r2, c1, c2, teacher, student

Home == [c \in {c1, c2} |-> IF c = c1 THEN r1 ELSE r2]
OneUser == [c \in {c1, c2} |-> student]

Event(type, to) == [type |-> type, to |-> to]
Messages == <<Event("message.sent", student), Event("message.sent", student),
              Event("message.read", student)>>

(* Which states are explored further: connections that come and go while   *)
(* the first event is pushed; or all events pushed to one connection,      *)
(* until their order is broken (after that ReceivedInOrder promises        *)
(* nothing).                                                               *)
ComingAndGoing ==
  \A r \in Replica : position[r] <= 1 /\ job[<<r, "kafka">>].index <= 1
Unbroken == opens <= 1 /\ ~broken
Explored == ComingAndGoing \/ Unbroken
=============================================================================
