---------------------------- MODULE EventStream ----------------------------
(***************************************************************************)
(* What the transactional outbox, Kafka and a consumer group promise each  *)
(* other: every recorded event is handled in the end, and before it those  *)
(* of its aggregate (one Kafka key) that were recorded when its            *)
(* transaction began.  Events of transactions that overlap come in any     *)
(* order; what has been handled may be handled again at any time.          *)
(***************************************************************************)
EXTENDS FiniteSets

CONSTANTS Event, KeyOf

VARIABLES
  stage,   \* of the transaction of an event
  before,  \* the events of its aggregate recorded when it began
  handled  \* the events handled at least once

vars == <<stage, before, handled>>

Recorded == {e \in Event : stage[e] = "recorded"}

Init ==
  /\ stage = [e \in Event |-> "absent"]
  /\ before = [e \in Event |-> {}]
  /\ handled = {}

Begin(e) ==
  /\ stage[e] = "absent"
  /\ stage' = [stage EXCEPT ![e] = "open"]
  /\ before' = [before EXCEPT ![e] = {f \in Recorded : KeyOf[f] = KeyOf[e]}]
  /\ UNCHANGED handled

Record(e) ==
  /\ stage[e] = "open"
  /\ stage' = [stage EXCEPT ![e] = "recorded"]
  /\ UNCHANGED <<before, handled>>

(* The first delivery of an event; a repeated one changes nothing here.    *)
Deliver(e) ==
  /\ e \in Recorded \ handled
  /\ before[e] \subseteq handled
  /\ handled' = handled \cup {e}
  /\ UNCHANGED <<stage, before>>

Next == \E e \in Event : Begin(e) \/ Record(e) \/ Deliver(e)

Spec == Init /\ [][Next]_vars /\ \A e \in Event : WF_vars(Deliver(e))
=============================================================================
