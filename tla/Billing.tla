------------------------------ MODULE Billing ------------------------------
(***************************************************************************)
(* From a lesson to the debt of the student: lesson-service (the module    *)
(* extended, whose lessons are created without a slot here), the event     *)
(* stream (EventStream, implemented by Outbox) and the consumer of         *)
(* finance-service (Finance), replicated and redelivering.                 *)
(*                                                                         *)
(* The stream is the partition of the lessons modelled: an event is first  *)
(* handled after all earlier ones, and may be handled again at any time,   *)
(* also by a second consumer that has lost the partition.                  *)
(***************************************************************************)
EXTENDS Lesson

CONSTANTS
  Times,      \* the range each lesson is created at
  Quote,      \* the price a request carries, in tenths of a kopeck
  Proc,       \* concurrent event handlers of finance-service
  MaxEvents,  \* bound on the events of a behaviour
  MaxCrashes  \* bound on the crashes of event handlers

ASSUME TimesAssumption == Times \in [LessonId -> Ranges]
ASSUME QuoteAssumption == Quote \in [LessonId -> Nat \ {0}]
ASSUME BoundAssumption == MaxEvents \in Nat \ {0}

VARIABLES
  topic,   \* the partition of tutorflow.lesson.events
  offset,  \* how many of its events have been handled
  ledger, receipts, processed, task, financeOutbox,
  crashes

(* lessons.price is NUMERIC(12, 2): a quote is rounded to kopecks.         *)
Price == [l \in LessonId |-> (Quote[l] + 5) \div 10]

FinanceDb == INSTANCE Finance WITH
  Event <- [id: 1..MaxEvents, type: EventType, lesson: LessonId,
            previous: LessonStatus],
  Lesson <- LessonId, Receipt <- {}, Manual <- {}, Amount <- Price,
  outbox <- financeOutbox, overlapped <- FALSE

financeVars == <<ledger, receipts, processed, task, financeOutbox>>
billingVars == <<vars, topic, offset, financeVars, crashes>>

BillingInit ==
  /\ Init
  /\ FinanceDb!Init
  /\ topic = <<>>
  /\ offset = 0
  /\ crashes = 0

-----------------------------------------------------------------------------

LessonStep ==
  /\ \/ \E l \in LessonId : CreateLesson(l, Times[l])
     \/ ReadStep
     \/ StatementStep
  /\ Len(topic) + Len(outbox') <= MaxEvents
  /\ UNCHANGED <<topic, offset, financeVars, crashes>>

PublishPending ==
  /\ Publish
  /\ LET e == Head(outbox)
     IN  topic' = Append(topic, [id |-> Len(topic) + 1, type |-> e.type,
                                 lesson |-> e.lesson, previous |-> e.previous])
  /\ UNCHANGED <<offset, financeVars, crashes>>

Advance(i) == offset' = IF i > offset THEN i ELSE offset

Deliver(p, i) ==
  /\ i \in DOMAIN topic
  /\ LET e == topic[i]
     IN  \/ /\ FinanceDb!Ignored(e)
            /\ Advance(i)
            /\ UNCHANGED financeVars
         \/ /\ \/ FinanceDb!OnLessonCompleted(p, e)
               \/ FinanceDb!OnLessonCancelledOrRestored(p, e)
            /\ UNCHANGED offset
  /\ UNCHANGED <<vars, topic, crashes>>

Redeliver(p) == \E i \in 1..offset : Deliver(p, i)
DeliverNext(p) == Deliver(p, offset + 1)

(* The handler of p returns when its event is in the inbox; one that       *)
(* throws leaves the offset where it was.                                  *)
HandlerStep(p) ==
  /\ FinanceDb!BeginStatement(p) \/ FinanceDb!ConsumerStatement(p)
  /\ IF task[p].ref \in processed' THEN Advance(task[p].ref.id) ELSE UNCHANGED offset
  /\ UNCHANGED <<vars, topic, crashes>>

Crash(p) ==
  /\ crashes < MaxCrashes
  /\ crashes' = crashes + 1
  /\ FinanceDb!Crash(p)
  /\ UNCHANGED <<vars, topic, offset>>

BillingNext ==
  \/ LessonStep
  \/ PublishPending
  \/ \E p \in Proc : Redeliver(p) \/ DeliverNext(p) \/ HandlerStep(p) \/ Crash(p)

(* The publisher ticks for ever, consumers poll for ever, and a handler    *)
(* that is not killed goes on; redeliveries do not keep the next event out *)
(* for ever.                                                               *)
Fairness ==
  /\ WF_billingVars(PublishPending)
  /\ SF_billingVars(\E p \in Proc : DeliverNext(p))
  /\ \A p \in Proc : WF_billingVars(HandlerStep(p))

BillingSpec == BillingInit /\ [][BillingNext]_billingVars /\ Fairness

-----------------------------------------------------------------------------
(* Properties.                                                             *)

RowOf(l, row) ==
  \/ row.type = "charge" /\ row.ref = l
  \/ row.type = "correction" /\ row.ref.lesson = l

(* What the ledger holds of lesson l.                                      *)
Debt(l) ==
  FinanceDb!PartialSum(
    [i \in DOMAIN ledger |-> IF RowOf(l, ledger[i]) THEN ledger[i].amount ELSE 0], Len(ledger))

Due(l) == IF lessons[l].status = "completed" THEN Price[l] ELSE 0

(* At no time does the ledger hold a lesson twice, or a compensation       *)
(* without its charge; the latter it may for a completed lesson that a     *)
(* stale reactivation has put back to scheduled (relapsed).                *)
DebtBounded ==
  \A l \in LessonId :
    /\ Debt(l) <= Price[l]
    /\ l \notin relapsed => Debt(l) \in {0, Price[l]}

(* The student owes the completed lessons, and for one that has relapsed   *)
(* at most that.                                                           *)
Settled ==
  \A l \in LessonId : IF l \in relapsed THEN Debt(l) <= Due(l) ELSE Debt(l) = Due(l)

(* That is so when every event has been handled.                           *)
SettledWhenQuiet == outbox = <<>> /\ offset = Len(topic) => Settled

(* And when lessons stop changing, that state is reached and stays.        *)
Settles == <>[]Settled
=============================================================================
