----------------------------- MODULE Assignment -----------------------------
(***************************************************************************)
(* assignment-service: assignments, the history of submissions, reviews    *)
(* and the deadline worker.                                                *)
(*                                                                         *)
(* A command reads the assignment, checks its status, and then runs one    *)
(* statement that does not check it again.  The statement sees the         *)
(* submissions as they were when it began, stamps a submission with that   *)
(* moment, and takes effect when it commits.  Row locks on the assignment  *)
(* order the commits.                                                      *)
(***************************************************************************)
EXTENDS Integers, Sequences, FiniteSets, FiniteSetsExt, SequencesExt

CONSTANTS
  AssignmentId,
  Due,            \* the assignments with a due_at
  Call,           \* commands in flight at one time
  MaxSubmissions  \* bound on the submissions of all assignments

VARIABLES
  status,       \* assignments.status
  overdue,      \* assignments whose due_at has passed
  submissions,  \* per assignment, a set of [at, status]
  clock,        \* statements that insert a submission begun so far
  call,         \* what each command in flight is doing
  outbox        \* outbox_events not yet published

vars == <<status, overdue, submissions, clock, call, outbox>>

-----------------------------------------------------------------------------

Verdict == {"reviewed", "needs_fix", "accepted"}
SubmissionStatus == Verdict \cup {"submitted"}
AssignmentStatus == {"absent", "assigned", "submitted", "reviewed", "needs_fix",
                     "done", "expired"}
EventType == {"assignment.created", "submission.uploaded", "assignment.reviewed",
              "assignment.deadline_expired"}

Idle == [op |-> "idle"]
NotStarted == -1

(* seen: of a submission in progress its submitted_at, of a review the     *)
(* submitted_at of the submission it found, 0 if there was none.           *)
Command ==
  [op: {"submit"}, id: AssignmentId, verdict: {"submitted"}, seen: Int] \cup
  [op: {"review"}, id: AssignmentId, verdict: Verdict, seen: Int]

TypeOK ==
  /\ status \in [AssignmentId -> AssignmentStatus]
  /\ overdue \subseteq Due
  /\ submissions \in [AssignmentId -> SUBSET [at: Nat, status: SubmissionStatus]]
  /\ clock \in Nat
  /\ call \in [Call -> Command \cup {Idle}]
  /\ outbox \in Seq([type: EventType, id: AssignmentId])

Init ==
  /\ status = [a \in AssignmentId |-> "absent"]
  /\ overdue = {}
  /\ submissions = [a \in AssignmentId |-> {}]
  /\ clock = 0
  /\ call = [c \in Call |-> Idle]
  /\ outbox = <<>>

-----------------------------------------------------------------------------

(* Definitions called ...Fault are seeded bugs, as in Lesson.               *)

Emit(type, a) == outbox' = Append(outbox, [type |-> type, id |-> a])

CreateAssignment(a) ==
  /\ status[a] = "absent"
  /\ status' = [status EXCEPT ![a] = "assigned"]
  /\ Emit("assignment.created", a)
  /\ UNCHANGED <<overdue, submissions, clock, call>>

DueAtPasses(a) ==
  /\ a \in Due \ overdue
  /\ status[a] # "absent"
  /\ overdue' = overdue \cup {a}
  /\ UNCHANGED <<status, submissions, clock, call, outbox>>

Start(c, op, a, verdict) ==
  /\ call[c] = Idle
  /\ call' = [call EXCEPT ![c] =
                [op |-> op, id |-> a, verdict |-> verdict, seen |-> NotStarted]]
  /\ UNCHANGED <<status, overdue, submissions, clock, outbox>>

ReadForSubmit(c, a) ==
  /\ status[a] \notin {"absent", "done", "expired"}
  /\ Start(c, "submit", a, "submitted")

ReadForReview(c, a, verdict) ==
  /\ status[a] \notin {"absent", "expired"}
  /\ Start(c, "review", a, verdict)

Latest(a) == Max({0} \cup {s.at : s \in submissions[a]})

Waiting(c) == call[c] # Idle /\ call[c].seen = NotStarted
Running(c) == call[c] # Idle /\ call[c].seen # NotStarted

BeginSubmit(c) ==
  /\ Waiting(c) /\ call[c].op = "submit"
  /\ clock < MaxSubmissions
  /\ clock' = clock + 1
  /\ call' = [call EXCEPT ![c].seen = clock']
  /\ UNCHANGED <<status, overdue, submissions, outbox>>

BeginReview(c) ==
  /\ Waiting(c) /\ call[c].op = "review"
  /\ call' = [call EXCEPT ![c].seen = Latest(call[c].id)]
  /\ UNCHANGED <<status, overdue, submissions, clock, outbox>>

CreateSubmissionFault(c) ==  \* the assignment keeps its status
  LET a == call[c].id
  IN  /\ Running(c) /\ call[c].op = "submit"
      /\ submissions' = [submissions EXCEPT ![a] =
                           @ \cup {[at |-> call[c].seen, status |-> "submitted"]}]
      /\ Emit("submission.uploaded", a)
      /\ call' = [call EXCEPT ![c] = Idle]
      /\ UNCHANGED <<status, overdue, clock>>

CreateSubmission(c) ==
  LET a == call[c].id
  IN  /\ Running(c) /\ call[c].op = "submit"
      /\ submissions' = [submissions EXCEPT ![a] =
                           @ \cup {[at |-> call[c].seen, status |-> "submitted"]}]
      /\ status' = [status EXCEPT ![a] = "submitted"]
      /\ Emit("submission.uploaded", a)
      /\ call' = [call EXCEPT ![c] = Idle]
      /\ UNCHANGED <<overdue, clock>>

AssignmentStatusForReviewStatusFault(verdict) == verdict
AssignmentStatusForReviewStatus(verdict) ==
  IF verdict = "accepted" THEN "done" ELSE verdict

ReviewLatestSubmissionFault(c) ==  \* the assignment is updated in any case
  LET a == call[c].id
  IN  /\ Running(c) /\ call[c].op = "review"
      /\ submissions' = [submissions EXCEPT ![a] =
           {IF s.at = call[c].seen THEN [s EXCEPT !.status = call[c].verdict] ELSE s : s \in @}]
      /\ status' = [status EXCEPT ![a] = AssignmentStatusForReviewStatus(call[c].verdict)]
      /\ Emit("assignment.reviewed", a)
      /\ call' = [call EXCEPT ![c] = Idle]
      /\ UNCHANGED <<overdue, clock>>

(* Without a submission the review is answered "submission not found".     *)
ReviewLatestSubmission(c) ==
  LET a == call[c].id
  IN  /\ Running(c) /\ call[c].op = "review"
      /\ IF call[c].seen = 0
           THEN UNCHANGED <<submissions, status, outbox>>
           ELSE /\ submissions' = [submissions EXCEPT ![a] =
                     {IF s.at = call[c].seen
                        THEN [s EXCEPT !.status = call[c].verdict] ELSE s : s \in @}]
                /\ status' = [status EXCEPT ![a] =
                     AssignmentStatusForReviewStatus(call[c].verdict)]
                /\ Emit("assignment.reviewed", a)
      /\ call' = [call EXCEPT ![c] = Idle]
      /\ UNCHANGED <<overdue, clock>>

-----------------------------------------------------------------------------
(* The deadline worker, on every replica once a minute.                    *)

OverdueRowsFault == {a \in overdue : status[a] = "assigned"}
OverdueRows == {a \in overdue : status[a] \in {"assigned", "needs_fix"}}
Locked == {call[c].id : c \in {d \in Call : Running(d)}}

(* One statement for all rows; SKIP LOCKED may pass over the rows another  *)
(* statement holds.                                                        *)
ExpireOverdue ==
  \E rows \in SUBSET OverdueRows :
    /\ rows # {}
    /\ OverdueRows \ rows \subseteq Locked
    /\ status' = [a \in AssignmentId |-> IF a \in rows THEN "expired" ELSE status[a]]
    /\ outbox' = outbox \o
         SetToSeq({[type |-> "assignment.deadline_expired", id |-> a] : a \in rows})
    /\ UNCHANGED <<overdue, submissions, clock, call>>

-----------------------------------------------------------------------------

RequestStep ==
  \/ \E a \in AssignmentId : CreateAssignment(a) \/ DueAtPasses(a)
  \/ \E c \in Call, a \in AssignmentId :
       \/ ReadForSubmit(c, a)
       \/ \E verdict \in Verdict : ReadForReview(c, a, verdict)

StatementStep == \E c \in Call :
  \/ BeginSubmit(c) \/ CreateSubmission(c)
  \/ BeginReview(c) \/ ReviewLatestSubmission(c)

Next == RequestStep \/ StatementStep \/ ExpireOverdue

Spec == Init /\ [][Next]_vars

-----------------------------------------------------------------------------
(* Properties.                                                             *)

(* The status of an assignment is the one of some submission of it,        *)
(* whatever submissions, reviews and expiries race.                        *)
ReviewBacked ==
  \A a \in AssignmentId :
    status[a] \in {"submitted", "reviewed", "needs_fix", "done"} =>
      \E s \in submissions[a] :
        status[a] = AssignmentStatusForReviewStatus(s.status)

(* The last submission waits for its review exactly while the assignment   *)
(* says so: no answer of a student is overlooked.                          *)
AnswerAwaited ==
  \A a \in AssignmentId :
    status[a] = "submitted" <=>
      \E s \in submissions[a] : s.at = Latest(a) /\ s.status = "submitted"
=============================================================================
