------------------------------- MODULE Report -------------------------------
(***************************************************************************)
(* report-service: the read model behind the dashboards of one teacher.    *)
(*                                                                         *)
(* Each lesson, assignment and receipt has a row with its freshest event;  *)
(* the counters of a student are counted again from the rows by the        *)
(* statement that applies an event, and the summary of the teacher from    *)
(* the counters by a second statement.  Event times are whole seconds.     *)
(*                                                                         *)
(* Events come from Kafka: the events about one entity, and the balance    *)
(* events of one student, each form a log of their own, delivered in order *)
(* and at least once.                                                      *)
(***************************************************************************)
EXTENDS Integers, Sequences, SequencesExt, FiniteSets, FiniteSetsExt, Functions

CONSTANTS
  Lesson, Homework, Receipt,  \* the entities of the domain services
  Student,
  StudentOf,   \* the student of each entity
  Amount,      \* the balances a balance event may carry
  Proc,        \* replicas of the consumer
  MaxSecond,   \* bound on the event times
  MaxEvents,   \* bound on the events of all logs
  MaxFaults    \* bound on the redeliveries and the kills of replicas

Entity == Lesson \cup Homework \cup Receipt
Key == Entity \cup Student

(* Rows of different tables have different ids.                            *)
ASSUME KindAssumption ==
  /\ Lesson \cap Homework = {}
  /\ Receipt \cap (Lesson \cup Homework) = {}
  /\ Student \cap Entity = {}
ASSUME StudentAssumption == StudentOf \in [Entity -> Student]
ASSUME AmountAssumption == Amount \subseteq Int
ASSUME BoundAssumption == {MaxSecond, MaxEvents, MaxFaults} \subseteq Nat

VARIABLES
  log,       \* per key, the events published
  offset,    \* per key, how many of them are handled
  rows,      \* report_lessons, report_assignments, report_receipts
  summary,   \* the counters of student_activity_ and student_finance_summary
  balance,   \* student_finance_summary.balance_amount
  teacher,   \* teacher_summary
  processed, \* report_processed_events
  handling,  \* what each replica is doing
  faults,    \* redeliveries and kills so far
  missed,    \* history: was the last refresh of the teacher's summary missed?
  overlapped \* history: have two replicas been at work at once?

readModel == <<rows, summary, balance, teacher, processed>>
vars == <<log, offset, readModel, handling, faults, missed, overlapped>>

-----------------------------------------------------------------------------
(* The statuses, what may follow what, and the counters they count in.     *)

First == [e \in Entity |-> IF e \in Lesson THEN "scheduled"
                           ELSE IF e \in Homework THEN "assigned" ELSE "pending_review"]

(* Races included: an answer or a review that read the assignment before   *)
(* it expired or was accepted still counts, and a lesson that a stale      *)
(* reactivation has scheduled again (module Lesson) may be told of ahead   *)
(* of its cancellation, as transactions that overlap are (module Outbox).  *)
Follows ==
  [absent |-> {},
   scheduled |-> {"scheduled", "completed", "cancelled"},
   completed |-> {"cancelled", "scheduled"},
   cancelled |-> {"scheduled", "completed"},
   assigned |-> {"submitted", "expired"},
   submitted |-> {"submitted", "reviewed", "needs_fix", "done"},
   reviewed |-> {"submitted", "reviewed", "needs_fix", "done"},
   needs_fix |-> {"submitted", "reviewed", "needs_fix", "done", "expired"},
   done |-> {"submitted", "reviewed", "needs_fix", "done"},
   expired |-> {"submitted", "reviewed", "needs_fix", "done"},
   pending_review |-> {"confirmed", "rejected"},
   confirmed |-> {},
   rejected |-> {}]

Status == DOMAIN Follows

Rank(s) ==
  CASE s \in {"scheduled", "assigned", "pending_review"} -> 1
    [] s \in {"completed", "submitted", "confirmed", "rejected"} -> 2
    [] s \in {"cancelled", "reviewed", "needs_fix", "done"} -> 3
    [] s = "expired" -> 4
    [] OTHER -> 0

Counter ==
  [upcoming |-> {"scheduled"}, completed |-> {"completed"}, cancelled |-> {"cancelled"},
   active |-> {"assigned", "needs_fix"}, submitted |-> {"submitted"},
   reviewed |-> {"reviewed", "needs_fix", "done"}, pending |-> {"pending_review"}]

(* The rows a statement about an entity counts: one table, one student.    *)
Counted(e) ==
  {f \in Entity : StudentOf[f] = StudentOf[e] /\ First[f] = First[e]}

(* ... and the columns it writes.                                          *)
Columns(e) ==
  CASE e \in Lesson -> {"upcoming", "completed", "cancelled"}
    [] e \in Homework -> {"active", "submitted", "reviewed"}
    [] e \in Receipt -> {"pending"}

(* GREATEST($5, 0); the fault is a seeded bug, as in Lesson.               *)
DebtFault(amount) == amount
Debt(amount) == IF amount > 0 THEN amount ELSE 0

-----------------------------------------------------------------------------

Absent == [status |-> "absent", at |-> 0]
EntityEvent == [status: Status \ {"absent"}, at: 1..MaxSecond]
BalanceEvent == [balance: Amount]
Idle == [stage |-> "idle"]

TypeOK ==
  /\ log \in [Key -> Seq(EntityEvent \cup BalanceEvent)]
  /\ \A k \in Key : offset[k] \in 0..Len(log[k])
  /\ rows \in [Entity -> EntityEvent \cup {Absent}]
  /\ summary \in [Student -> [DOMAIN Counter -> Nat]]
  /\ balance \in [Student -> Amount \cup {0}]
  /\ teacher \in [upcoming: Nat, submitted: Nat, pending: Nat, debt: Nat]
  /\ processed \subseteq Key \X (1..MaxEvents)
  /\ \A p \in Proc : handling[p].stage \in {"idle", "statement", "refresh"}

Zero == [upcoming |-> 0, submitted |-> 0, pending |-> 0, debt |-> 0]

Init ==
  /\ log = [k \in Key |-> <<>>]
  /\ offset = [k \in Key |-> 0]
  /\ rows = [e \in Entity |-> Absent]
  /\ summary = [s \in Student |-> [c \in DOMAIN Counter |-> 0]]
  /\ balance = [s \in Student |-> 0]
  /\ teacher = Zero
  /\ processed = {}
  /\ handling = [p \in Proc |-> Idle]
  /\ faults = 0
  /\ missed = FALSE
  /\ overlapped = FALSE

-----------------------------------------------------------------------------
(* The domain services: a transition, and the balance of a student.        *)

Published == SumFunction([k \in Key |-> Len(log[k])])
Source(e) == IF log[e] = <<>> THEN "absent" ELSE Last(log[e]).status

(* An event carries the second in which its transaction began, counted     *)
(* from the creation of the entity; a transaction that waited for a row    *)
(* lock may be older than the one before it.                               *)
Publish(k, event) ==
  /\ Published < MaxEvents
  /\ log' = [log EXCEPT ![k] = Append(@, event)]
  /\ UNCHANGED <<offset, readModel, handling, faults, missed, overlapped>>

PublishTransition(e) ==
  IF log[e] = <<>>
    THEN Publish(e, [status |-> First[e], at |-> 1])
    ELSE \E status \in Follows[Source(e)], at \in 1..MaxSecond :
           Publish(e, [status |-> status, at |-> at])

PublishBalance(s) == \E amount \in Amount : Publish(s, [balance |-> amount])

-----------------------------------------------------------------------------
(* A statement begins: it sees the rows as they are now.                   *)

Busy == {p \in Proc : handling[p] # Idle}

Begin(p, k, i) ==
  /\ handling[p] = Idle
  /\ i \in DOMAIN log[k]
  /\ handling' = [handling EXCEPT ![p] =
       [stage |-> "statement", key |-> k, index |-> i,
        seen |-> IF k \in Entity THEN [f \in Counted(k) |-> rows[f].status] ELSE <<>>]]
  /\ overlapped' = (overlapped \/ Busy # {})
  /\ UNCHANGED <<log, offset, readModel, missed>>

DeliverNext(k) ==
  /\ \E p \in Proc : Begin(p, k, offset[k] + 1)
  /\ UNCHANGED faults

Redeliver(k) ==
  /\ faults < MaxFaults
  /\ faults' = faults + 1
  /\ \E p \in Proc, i \in 1..offset[k] : Begin(p, k, i)

(* The upsert takes the event if it is newer than the row, or of the same  *)
(* second and not of a lower rank.                                         *)
FresherFault(event, row) == event.at >= row.at  \* the rank is not compared
FresherByRank(event, row) == Rank(event.status) >= Rank(row.status)  \* nor the second
Fresher(event, row) ==
  \/ event.at > row.at
  \/ event.at = row.at /\ Rank(event.status) >= Rank(row.status)

CountFault(e, seen, status, c) ==  \* the row of the event is not counted afresh
  Cardinality({f \in Counted(e) : seen[f] \in Counter[c]})

Count(e, seen, status, c) ==
  Cardinality({f \in Counted(e) : (IF f = e THEN status ELSE seen[f]) \in Counter[c]})

(* The row, and with it the counters of its student.                       *)
ApplyEntityEvent(e, event, seen) ==
  LET taken == Fresher(event, rows[e])
      status == IF taken THEN event.status ELSE seen[e]
  IN  /\ rows' = IF taken THEN [rows EXCEPT ![e] = event] ELSE rows
      /\ summary' = [summary EXCEPT ![StudentOf[e]] =
           [c \in DOMAIN Counter |->
              IF c \in Columns(e) THEN Count(e, seen, status, c) ELSE @[c]]]
      /\ UNCHANGED balance

ApplyBalanceEvent(s, event) ==
  /\ balance' = [balance EXCEPT ![s] = event.balance]
  /\ UNCHANGED <<rows, summary>>

Advance(k, i) == offset' = [offset EXCEPT ![k] = IF i > @ THEN i ELSE @]

(* The statement commits; ON CONFLICT on the inbox decides the duplicate.  *)
Apply(p) ==
  LET k == handling[p].key
      i == handling[p].index
  IN  /\ handling[p].stage = "statement"
      /\ IF <<k, i>> \in processed
           THEN /\ handling' = [handling EXCEPT ![p] = Idle]
                /\ Advance(k, i)
                /\ UNCHANGED readModel
           ELSE /\ IF k \in Entity
                     THEN ApplyEntityEvent(k, log[k][i], handling[p].seen)
                     ELSE ApplyBalanceEvent(k, log[k][i])
                /\ processed' = processed \cup {<<k, i>>}
                /\ handling' = [handling EXCEPT ![p] =
                                  [stage |-> "refresh", key |-> k, index |-> i]]
                /\ UNCHANGED <<teacher, offset>>
      /\ UNCHANGED <<log, faults, missed, overlapped>>

TeacherSummary ==
  LET sum(c) == MapThenSumSet(LAMBDA s : summary[s][c], Student)
  IN  [upcoming |-> sum("upcoming"), submitted |-> sum("submitted"),
       pending |-> sum("pending"),
       debt |-> MapThenSumSet(LAMBDA s : Debt(balance[s]), Student)]

(* The second statement, for an accepted event only.                       *)
RefreshTeacherSummary(p) ==
  /\ handling[p].stage = "refresh"
  /\ teacher' = TeacherSummary
  /\ handling' = [handling EXCEPT ![p] = Idle]
  /\ Advance(handling[p].key, handling[p].index)
  /\ missed' = FALSE
  /\ UNCHANGED <<log, rows, summary, balance, processed, faults, overlapped>>

(* A replica is killed; a statement that has not committed is undone.      *)
Kill(p) ==
  /\ faults < MaxFaults
  /\ handling[p] # Idle
  /\ faults' = faults + 1
  /\ missed' = (missed \/ handling[p].stage = "refresh")
  /\ handling' = [handling EXCEPT ![p] = Idle]
  /\ UNCHANGED <<log, offset, readModel, overlapped>>

-----------------------------------------------------------------------------

Next ==
  \/ \E e \in Entity : PublishTransition(e)
  \/ \E s \in Student : PublishBalance(s)
  \/ \E k \in Key : DeliverNext(k) \/ Redeliver(k)
  \/ \E p \in Proc : Apply(p) \/ RefreshTeacherSummary(p) \/ Kill(p)

(* The consumer polls each partition for ever, and a handler that is not   *)
(* killed goes on.                                                         *)
Fairness ==
  /\ \A k \in Key : SF_vars(DeliverNext(k))
  /\ \A p \in Proc : WF_vars(Apply(p)) /\ WF_vars(RefreshTeacherSummary(p))

Spec == Init /\ [][Next]_vars /\ Fairness

-----------------------------------------------------------------------------
(* Properties.                                                             *)

Applied(e) == {log[e][x[2]] : x \in {y \in processed : y[1] = e}}

(* Whatever is delivered again or handled side by side, the row of an      *)
(* entity is an event that was applied, and none applied is newer, or of   *)
(* the same second and a higher rank.                                      *)
FreshestWins ==
  \A e \in Entity :
    /\ rows[e] = Absent <=> Applied(e) = {}
    /\ rows[e] # Absent => rows[e] \in Applied(e)
    /\ \A event \in Applied(e) :
         /\ event.at <= rows[e].at
         /\ event.at = rows[e].at => Rank(event.status) <= Rank(rows[e].status)

(* Until two replicas have been at work at once, the counters of a student *)
(* are those of the rows: no event is counted twice or not at all.         *)
SummaryExactInTurn ==
  ~overlapped =>
    \A s \in Student, c \in DOMAIN Counter :
      summary[s][c] =
        Cardinality({e \in Entity : StudentOf[e] = s /\ rows[e].status \in Counter[c]})

(* The log of an entity is in the order of the second and rank: then its   *)
(* last event is the freshest.                                             *)
InOrder(e) ==
  \A i, j \in DOMAIN log[e] : i < j =>
    \/ log[e][i].at < log[e][j].at
    \/ log[e][i].at = log[e][j].at /\ Rank(log[e][i].status) <= Rank(log[e][j].status)

(* The dashboard ends up with what the logs tell last: the status of each  *)
(* entity (if its events are in order of time), the balance of each        *)
(* student, and the teacher's summary (if its last refresh was not missed).*)
Mirrored ==
  /\ \A e \in Entity : InOrder(e) => rows[e].status = Source(e)
  /\ \A s \in Student :
       balance[s] = IF log[s] = <<>> THEN 0 ELSE Last(log[s]).balance
  /\ ~missed /\ ~overlapped => teacher = TeacherSummary
DashboardCatchesUp == <>[]Mirrored
=============================================================================
