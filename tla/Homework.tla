------------------------------ MODULE Homework ------------------------------
(***************************************************************************)
(* assignment-service (Assignment) and the notifications its events lead   *)
(* to (Notification).  The outbox is the partition the events are          *)
(* delivered from, in order and at least once (EventStream).               *)
(***************************************************************************)
EXTENDS Integers, Sequences, FiniteSets, SequencesExt

CONSTANTS
  AssignmentId, Due, Call, MaxSubmissions,  \* as in Assignment
  Proc, None,                               \* as in Notification
  MaxEvents,   \* bound on the events after which no command starts
  MaxCrashes   \* bound on the crashes of event handlers

ASSUME AssignmentAssumption == IsFiniteSet(AssignmentId)
ASSUME DueAssumption == Due \subseteq AssignmentId
ASSUME BoundAssumption == {MaxSubmissions, MaxEvents, MaxCrashes} \subseteq Nat

VARIABLES
  status, overdue, submissions, clock, call, outbox,
  notifications, processed, handling, pushed,
  offset,     \* how many events of the outbox have been handled
  crashes,
  overlapped  \* history: has a review overlapped a submission?

AssignmentDb == INSTANCE Assignment

(* Events are told apart by their place in the outbox.                     *)
Delivered == [id: Nat \ {0}, type: AssignmentDb!EventType, detail: {None}]

NotificationDb == INSTANCE Notification WITH Event <- Delivered

assignmentVars == <<status, overdue, submissions, clock, call, outbox>>
notificationVars == <<notifications, processed, handling, pushed>>
vars == <<assignmentVars, notificationVars, offset, crashes, overlapped>>

Init ==
  /\ AssignmentDb!Init
  /\ NotificationDb!Init
  /\ offset = 0
  /\ crashes = 0
  /\ overlapped = FALSE

-----------------------------------------------------------------------------

InStatement(op) == {c \in Call : AssignmentDb!Running(c) /\ call[c].op = op}
Overlapping == \E b \in InStatement("submit"), c \in InStatement("review") :
                 call[b].id = call[c].id

Request ==
  /\ AssignmentDb!RequestStep
  /\ Len(outbox) < MaxEvents
  /\ UNCHANGED <<notificationVars, offset, crashes, overlapped>>

Statement ==
  /\ AssignmentDb!StatementStep
  /\ overlapped' = (overlapped \/ Overlapping')
  /\ UNCHANGED <<notificationVars, offset, crashes>>

Deadline ==
  /\ AssignmentDb!ExpireOverdue
  /\ UNCHANGED <<notificationVars, offset, crashes, overlapped>>

EventAt(i) == [id |-> i, type |-> outbox[i].type, detail |-> None]
Advance(i) == offset' = IF i > offset THEN i ELSE offset

Deliver(p, i) ==
  /\ i \in DOMAIN outbox
  /\ \/ /\ NotificationDb!Ignored(EventAt(i))
        /\ Advance(i)
        /\ UNCHANGED notificationVars
     \/ /\ NotificationDb!OnEvent(p, EventAt(i))
        /\ UNCHANGED offset
  /\ UNCHANGED <<assignmentVars, crashes, overlapped>>

Redeliver(p) == \E i \in 1..offset : Deliver(p, i)
DeliverNext(p) == Deliver(p, offset + 1)

HandlerStep(p) ==
  /\ NotificationDb!CreateFromEvent(p)
  /\ Advance(handling[p].id)
  /\ UNCHANGED <<assignmentVars, crashes, overlapped>>

Crash(p) ==
  /\ crashes < MaxCrashes
  /\ crashes' = crashes + 1
  /\ NotificationDb!Crash(p)
  /\ UNCHANGED <<assignmentVars, offset, overlapped>>

Read ==
  /\ \E n \in notifications : ~n.read /\ NotificationDb!MarkAsRead(n)
  /\ UNCHANGED <<assignmentVars, offset, crashes, overlapped>>

Next ==
  \/ Request \/ Statement \/ Deadline \/ Read
  \/ \E p \in Proc : Redeliver(p) \/ DeliverNext(p) \/ HandlerStep(p) \/ Crash(p)

(* The worker ticks for ever; a statement that has begun ends; consumers   *)
(* poll for ever, and a handler that is not killed goes on.                *)
Fairness ==
  /\ WF_vars(Deadline)
  /\ WF_vars(Statement)
  /\ SF_vars(\E p \in Proc : DeliverNext(p))
  /\ \A p \in Proc : WF_vars(HandlerStep(p))

Spec == Init /\ [][Next]_vars /\ Fairness

-----------------------------------------------------------------------------
(* Properties.                                                             *)

TypeOK == AssignmentDb!TypeOK /\ NotificationDb!TypeOK

(* Whatever submissions, reviews and expiries race, the status of an       *)
(* assignment is backed by a submission.                                   *)
ReviewBacked == AssignmentDb!ReviewBacked

(* Until a review has overlapped a submission, the last answer of a        *)
(* student is never overlooked.                                            *)
AnswerAwaitedInTurn == ~overlapped => AssignmentDb!AnswerAwaited

(* Concurrent and repeated deliveries leave one notification and one push. *)
NotifiedOnce == NotificationDb!NotifiedOnce

(* An assignment past its due date does not stay open, and the student is  *)
(* told of every expiry in the end.                                        *)
DeadlineActs ==
  \A a \in AssignmentId :
    /\ a \in overdue /\ status[a] \in {"assigned", "needs_fix"} ~>
         status[a] \notin {"assigned", "needs_fix"}
    /\ status[a] = "expired" ~>
         \E n \in notifications :
           /\ n.user = "student"
           /\ n.event.type = "assignment.deadline_expired"
           /\ outbox[n.event.id].id = a
=============================================================================
