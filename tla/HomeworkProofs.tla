--------------------------- MODULE HomeworkProofs ---------------------------
(* Theorems about module Homework: what is proved of assignment-service    *)
(* and of notification-service alone holds of the two together, for any    *)
(* number of assignments, commands, handlers and crashes.                  *)
EXTENDS Homework, FiniteSetTheorems, TLAPS

-----------------------------------------------------------------------------
(* assignment-service, for any assignments, any number of commands in      *)
(* flight and any bound on submissions.                                    *)

Submission == [at: Nat, status: AssignmentDb!SubmissionStatus]

TypeInv ==
  /\ status \in [AssignmentId -> AssignmentDb!AssignmentStatus]
  /\ submissions \in [AssignmentId -> SUBSET Submission]
  /\ clock \in Nat
  /\ call \in [Call -> AssignmentDb!Command \cup {AssignmentDb!Idle}]

Moments(a) == {0} \cup {s.at : s \in submissions[a]}

(* There is a latest submission, or none: Latest is well defined.          *)
HasLatest(a) == \E m \in Moments(a) : \A n \in Moments(a) : m >= n

(* The submission a review in progress has found is still there when it    *)
(* writes: submissions are never removed. A statement that has begun has a *)
(* moment, which a submission takes as its own.                            *)
FoundStays(c) ==
  call[c] # AssignmentDb!Idle =>
    /\ call[c].seen \in {AssignmentDb!NotStarted} \cup Nat
    /\ call[c].op = "review" => call[c].seen \in {AssignmentDb!NotStarted} \cup Moments(call[c].id)

ReviewInv ==
  /\ TypeInv
  /\ \A a \in AssignmentId : HasLatest(a)
  /\ \A c \in Call : FoundStays(c)
  /\ AssignmentDb!ReviewBacked

-----------------------------------------------------------------------------

LEMMA InitReviewInv == AssignmentDb!Init => ReviewInv
<1> SUFFICES ASSUME AssignmentDb!Init PROVE ReviewInv
  OBVIOUS
<1>1. TypeInv
  BY DEF AssignmentDb!Init, TypeInv, AssignmentDb!AssignmentStatus
<1>2. ASSUME NEW a \in AssignmentId PROVE HasLatest(a)
  <2>1. Moments(a) = {0}
    BY DEF AssignmentDb!Init, Moments
  <2> QED BY <2>1 DEF HasLatest
<1>3. AssignmentDb!ReviewBacked /\ \A c \in Call : FoundStays(c)
  BY DEF AssignmentDb!Init, AssignmentDb!ReviewBacked, FoundStays
<1> QED BY <1>1, <1>2, <1>3 DEF ReviewInv

LEMMA MaxIsLargest ==
  ASSUME NEW S \in SUBSET Nat, \E m \in S : \A n \in S : m >= n
  PROVE  /\ AssignmentDb!Max(S) \in S /\ AssignmentDb!Max(S) \in Nat
         /\ \A m \in S : AssignmentDb!Max(S) >= m
BY DEF AssignmentDb!Max

LEMMA LatestIsLargest ==
  ASSUME NEW a \in AssignmentId, TypeInv, HasLatest(a)
  PROVE  /\ AssignmentDb!Latest(a) \in Moments(a) /\ AssignmentDb!Latest(a) \in Nat
         /\ \A m \in Moments(a) : AssignmentDb!Latest(a) >= m
<1>1. Moments(a) \subseteq Nat
  BY DEF Moments, TypeInv, Submission
<1> QED BY <1>1, MaxIsLargest DEF HasLatest, AssignmentDb!Latest, Moments

(* A step that leaves submissions alone and moves no assignment to a       *)
(* status that tells of a review.                                          *)
LEMMA CallStepKeeps ==
  ASSUME ReviewInv, UNCHANGED submissions, TypeInv',
         \A c \in Call : FoundStays(c)',
         \A a \in AssignmentId :
           status'[a] = status[a] \/ status'[a] \in {"assigned", "expired"}
  PROVE  ReviewInv'
<1>1. \A a \in AssignmentId : HasLatest(a)'
  BY DEF ReviewInv, HasLatest, Moments
<1>2. AssignmentDb!ReviewBacked'
  BY DEF ReviewInv, AssignmentDb!ReviewBacked, TypeInv
<1> QED BY <1>1, <1>2 DEF ReviewInv

LEMMA StartKeeps ==
  ASSUME ReviewInv, NEW c \in Call, NEW a \in AssignmentId, NEW verdict,
         NEW op \in {"submit", "review"},
         op = "submit" => verdict = "submitted",
         op = "review" => verdict \in AssignmentDb!Verdict,
         AssignmentDb!Start(c, op, a, verdict)
  PROVE  ReviewInv'
<1> DEFINE new == [op |-> op, id |-> a, verdict |-> verdict, seen |-> AssignmentDb!NotStarted]
<1>1. new \in AssignmentDb!Command
  BY DEF AssignmentDb!Command, AssignmentDb!NotStarted
<1>2. TypeInv'
  BY <1>1 DEF AssignmentDb!Start, ReviewInv, TypeInv
<1>3. \A d \in Call : FoundStays(d)'
  BY DEF AssignmentDb!Start, ReviewInv, TypeInv, FoundStays, Moments
<1> QED BY <1>2, <1>3, CallStepKeeps DEF AssignmentDb!Start

LEMMA BeginSubmitKeeps ==
  ASSUME ReviewInv, NEW c \in Call, AssignmentDb!BeginSubmit(c)
  PROVE  ReviewInv'
<1>1. TypeInv'
  <2>1. /\ call[c] \in AssignmentDb!Command /\ call[c].op = "submit"
        /\ clock' \in Nat /\ clock' \in Int
    BY DEF AssignmentDb!BeginSubmit, AssignmentDb!Waiting, ReviewInv, TypeInv
  <2>2. [call[c] EXCEPT !.seen = clock'] \in AssignmentDb!Command
    BY <2>1 DEF AssignmentDb!Command
  <2> QED BY <2>1, <2>2 DEF AssignmentDb!BeginSubmit, ReviewInv, TypeInv
<1>2. \A d \in Call : FoundStays(d)'
  BY DEF AssignmentDb!BeginSubmit, AssignmentDb!Waiting, ReviewInv, TypeInv, FoundStays, Moments,
         AssignmentDb!Command
<1> QED BY <1>1, <1>2, CallStepKeeps DEF AssignmentDb!BeginSubmit

LEMMA BeginReviewKeeps ==
  ASSUME ReviewInv, NEW c \in Call, AssignmentDb!BeginReview(c)
  PROVE  ReviewInv'
<1> DEFINE seen == AssignmentDb!Latest(call[c].id)
<1>1. call[c] \in AssignmentDb!Command /\ call[c].op = "review" /\ call[c].id \in AssignmentId
  BY DEF AssignmentDb!BeginReview, AssignmentDb!Waiting, ReviewInv, TypeInv, AssignmentDb!Command
<1>2. seen \in Moments(call[c].id) /\ seen \in Int
  BY <1>1, LatestIsLargest DEF ReviewInv
<1>3. call' = [call EXCEPT ![c].seen = seen] /\ UNCHANGED <<status, submissions, clock>>
  BY DEF AssignmentDb!BeginReview
<1> HIDE DEF seen
<1>4. TypeInv'
  <2>1. [call[c] EXCEPT !.seen = seen] \in AssignmentDb!Command
    BY <1>1, <1>2 DEF AssignmentDb!Command
  <2> QED BY <1>3, <2>1 DEF ReviewInv, TypeInv
<1>5. ASSUME NEW d \in Call PROVE FoundStays(d)'
  <2>1. \A a : Moments(a)' = Moments(a)
    BY <1>3 DEF Moments
  <2>2. seen \in Nat
    BY <1>1, LatestIsLargest DEF ReviewInv, seen
  <2>3. CASE d = c
    <3>1. call'[c].seen = seen /\ call'[c].id = call[c].id
      BY <1>1, <1>3 DEF ReviewInv, TypeInv, AssignmentDb!Command
    <3> QED BY <1>2, <2>1, <2>2, <2>3, <3>1 DEF FoundStays
  <2>4. CASE d # c
    <3>1. call'[d] = call[d]
      BY <1>3, <2>4 DEF ReviewInv, TypeInv
    <3> QED BY <2>1, <3>1 DEF ReviewInv, FoundStays
  <2> QED BY <2>3, <2>4
<1> QED BY <1>3, <1>4, <1>5, CallStepKeeps

(* The verdict lands on the submission found, and the assignment follows.  *)
LEMMA ReviewKeeps ==
  ASSUME ReviewInv, NEW c \in Call, AssignmentDb!ReviewLatestSubmission(c)
  PROVE  ReviewInv'
<1> DEFINE a == call[c].id
           at == call[c].seen
           verdict == call[c].verdict
           after(s) == IF s.at = at THEN [s EXCEPT !.status = verdict] ELSE s
<1>1. /\ call[c] \in AssignmentDb!Command /\ call[c].op = "review"
      /\ a \in AssignmentId /\ verdict \in AssignmentDb!Verdict
      /\ at # AssignmentDb!NotStarted
    BY DEF AssignmentDb!ReviewLatestSubmission, AssignmentDb!Running, ReviewInv, TypeInv,
           AssignmentDb!Command
<1>2. call' = [call EXCEPT ![c] = AssignmentDb!Idle] /\ clock' = clock
  BY DEF AssignmentDb!ReviewLatestSubmission
<1>3. CASE at = 0
  <2>1. UNCHANGED <<submissions, status>>
    BY <1>3 DEF AssignmentDb!ReviewLatestSubmission
  <2>2. TypeInv'
    BY <1>2, <2>1 DEF ReviewInv, TypeInv
  <2>3. \A d \in Call : FoundStays(d)'
    BY <1>2, <2>1 DEF ReviewInv, TypeInv, FoundStays, Moments
  <2> QED BY <2>1, <2>2, <2>3, CallStepKeeps
<1>4. CASE at # 0
  <2> DEFINE target == AssignmentDb!AssignmentStatusForReviewStatus(verdict)
  <2>1. /\ submissions' = [submissions EXCEPT ![a] = {after(s) : s \in submissions[a]}]
        /\ status' = [status EXCEPT ![a] = target]
    BY <1>4 DEF AssignmentDb!ReviewLatestSubmission
  <2>2. \A s \in submissions[a] : s \in Submission /\ after(s) \in Submission /\ after(s).at = s.at
    BY <1>1 DEF ReviewInv, TypeInv, Submission, AssignmentDb!SubmissionStatus
  <2>3. target \in AssignmentDb!AssignmentStatus
    BY <1>1 DEF AssignmentDb!AssignmentStatusForReviewStatus, AssignmentDb!AssignmentStatus,
                AssignmentDb!Verdict
  <2> HIDE DEF after, target, at
  <2>4. TypeInv'
    <3>1. {after(s) : s \in submissions[a]} \in SUBSET Submission
      BY <2>2
    <3> QED BY <1>1, <1>2, <2>1, <2>3, <3>1 DEF ReviewInv, TypeInv
  <2>5. \A b \in AssignmentId : Moments(b)' = Moments(b)
    <3>1. {s.at : s \in {after(s) : s \in submissions[a]}} = {s.at : s \in submissions[a]}
      BY <2>2
    <3> QED BY <1>1, <2>1, <3>1 DEF Moments, ReviewInv, TypeInv
  <2>6. \A b \in AssignmentId : HasLatest(b)'
    BY <2>5 DEF ReviewInv, HasLatest
  <2>7. \A d \in Call : FoundStays(d)'
    BY <1>2, <2>5 DEF ReviewInv, TypeInv, FoundStays, AssignmentDb!Command
  <2>8. AssignmentDb!ReviewBacked'
    <3>1. PICK s \in submissions[a] : s.at = at
      BY <1>1, <1>4 DEF ReviewInv, FoundStays, Moments, at, AssignmentDb!Idle
    <3>2. after(s).status = verdict
      BY <2>2, <3>1 DEF after, Submission
    <3>3. /\ after(s) \in submissions'[a]
          /\ status'[a] = AssignmentDb!AssignmentStatusForReviewStatus(after(s).status)
      BY <1>1, <2>1, <3>2 DEF ReviewInv, TypeInv, target
    <3>4. \A b \in AssignmentId \ {a} : status'[b] = status[b] /\ submissions'[b] = submissions[b]
      BY <2>1 DEF ReviewInv, TypeInv
    <3> QED BY <3>3, <3>4 DEF ReviewInv, AssignmentDb!ReviewBacked
  <2> QED BY <2>4, <2>6, <2>7, <2>8 DEF ReviewInv
<1> QED BY <1>3, <1>4

LEMMA SubmitKeeps ==
  ASSUME ReviewInv, NEW c \in Call, AssignmentDb!CreateSubmission(c)
  PROVE  ReviewInv'
<1> DEFINE new == [at |-> call[c].seen, status |-> "submitted"]
<1>0. PICK a \in AssignmentId : a = call[c].id
  BY DEF AssignmentDb!CreateSubmission, AssignmentDb!Running, ReviewInv, TypeInv,
         AssignmentDb!Command
<1>1. call[c] \in AssignmentDb!Command /\ call[c].op = "submit"
  BY DEF AssignmentDb!CreateSubmission, AssignmentDb!Running, ReviewInv, TypeInv
<1>2. /\ submissions' = [submissions EXCEPT ![a] = @ \cup {new}]
      /\ status' = [status EXCEPT ![a] = "submitted"]
      /\ call' = [call EXCEPT ![c] = AssignmentDb!Idle]
      /\ clock' = clock
  BY <1>0 DEF AssignmentDb!CreateSubmission
<1>3. call[c].seen \in Nat
  BY <1>1 DEF AssignmentDb!CreateSubmission, AssignmentDb!Running, ReviewInv, FoundStays
<1>4. new \in Submission
  BY <1>3 DEF Submission, AssignmentDb!SubmissionStatus
<1> HIDE DEF new
<1>5. TypeInv'
  BY <1>1, <1>2, <1>4 DEF ReviewInv, TypeInv, AssignmentDb!AssignmentStatus
<1>6. /\ Moments(a)' = Moments(a) \cup {new.at}
      /\ \A b \in AssignmentId \ {a} : Moments(b)' = Moments(b)
  <2>1. submissions'[a] = submissions[a] \cup {new}
    BY <1>1, <1>2 DEF ReviewInv, TypeInv
  <2>2. {s.at : s \in submissions[a] \cup {new}} = {s.at : s \in submissions[a]} \cup {new.at}
    OBVIOUS
  <2>3. \A b \in AssignmentId \ {a} : submissions'[b] = submissions[b]
    BY <1>2 DEF ReviewInv, TypeInv
  <2> QED BY <2>1, <2>2, <2>3 DEF Moments
<1>7. \A b \in AssignmentId : HasLatest(b)'
  <2>1. PICK m \in Moments(a) : \A n \in Moments(a) : m >= n
    BY <1>1 DEF ReviewInv, HasLatest
  <2>2. Moments(a) \subseteq Nat /\ new.at \in Nat
    BY <1>1, <1>4 DEF Moments, ReviewInv, TypeInv, Submission
  <2>3. HasLatest(a)'
    <3>1. CASE m >= new.at
      BY <1>6, <2>1, <2>2, <3>1 DEF HasLatest
    <3>2. CASE ~(m >= new.at)
      <4>1. \A n \in Moments(a)' : new.at >= n
        BY <1>6, <2>1, <2>2, <3>2
      <4> QED BY <1>6, <4>1 DEF HasLatest
    <3> QED BY <3>1, <3>2
  <2>4. ASSUME NEW b \in AssignmentId \ {a} PROVE HasLatest(b)'
    BY <1>6 DEF ReviewInv, HasLatest
  <2> QED BY <2>3, <2>4
<1>8. ASSUME NEW d \in Call PROVE FoundStays(d)'
  <2>1. CASE d = c
    BY <1>2, <2>1 DEF ReviewInv, TypeInv, FoundStays
  <2>2. CASE d # c
    <3>1. call'[d] = call[d]
      BY <1>2, <2>2 DEF ReviewInv, TypeInv
    <3>2. \A b \in AssignmentId : Moments(b) \subseteq Moments(b)'
      BY <1>6
    <3>3. call[d] # AssignmentDb!Idle => call[d].id \in AssignmentId
      BY DEF ReviewInv, TypeInv, AssignmentDb!Command
    <3> QED BY <3>1, <3>2, <3>3 DEF ReviewInv, FoundStays
  <2> QED BY <2>1, <2>2
<1>9. AssignmentDb!ReviewBacked'
  <2>1. new \in submissions'[a] /\ new.status = "submitted" /\ status'[a] = "submitted"
    BY <1>1, <1>2 DEF ReviewInv, TypeInv, new
  <2>2. \A b \in AssignmentId \ {a} : status'[b] = status[b] /\ submissions'[b] = submissions[b]
    BY <1>2 DEF ReviewInv, TypeInv
  <2> QED BY <2>1, <2>2 DEF ReviewInv, AssignmentDb!ReviewBacked,
                            AssignmentDb!AssignmentStatusForReviewStatus
<1> QED BY <1>5, <1>7, <1>8, <1>9 DEF ReviewInv

LEMMA NextReviewInv == ReviewInv /\ [AssignmentDb!Next]_assignmentVars => ReviewInv'
<1> SUFFICES ASSUME ReviewInv, [AssignmentDb!Next]_assignmentVars PROVE ReviewInv'
  OBVIOUS
<1> DEFINE Quiet == UNCHANGED <<submissions, clock, call>>
<1>0. ASSUME Quiet, status' \in [AssignmentId -> AssignmentDb!AssignmentStatus],
             \A a \in AssignmentId :
               status'[a] = status[a] \/ status'[a] \in {"assigned", "expired"}
      PROVE  ReviewInv'
  <2>1. TypeInv'
    BY <1>0 DEF ReviewInv, TypeInv
  <2>2. \A c \in Call : FoundStays(c)'
    BY <1>0 DEF ReviewInv, FoundStays, Moments
  <2> QED BY <1>0, <2>1, <2>2, CallStepKeeps
<1>1. ASSUME NEW a \in AssignmentId, AssignmentDb!CreateAssignment(a) PROVE ReviewInv'
  BY <1>0, <1>1 DEF AssignmentDb!CreateAssignment, ReviewInv, TypeInv, AssignmentDb!AssignmentStatus
<1>2. ASSUME NEW a \in AssignmentId, AssignmentDb!DueAtPasses(a) PROVE ReviewInv'
  BY <1>0, <1>2 DEF AssignmentDb!DueAtPasses, ReviewInv, TypeInv
<1>3. CASE AssignmentDb!ExpireOverdue
  BY <1>0, <1>3 DEF AssignmentDb!ExpireOverdue, ReviewInv, TypeInv, AssignmentDb!AssignmentStatus
<1>4. CASE UNCHANGED assignmentVars
  BY <1>0, <1>4 DEF assignmentVars, ReviewInv, TypeInv
<1>5. ASSUME NEW c \in Call, NEW a \in AssignmentId, AssignmentDb!ReadForSubmit(c, a)
      PROVE  ReviewInv'
  BY <1>5, StartKeeps DEF AssignmentDb!ReadForSubmit
<1>6. ASSUME NEW c \in Call, NEW a \in AssignmentId, NEW verdict \in AssignmentDb!Verdict,
             AssignmentDb!ReadForReview(c, a, verdict)
      PROVE  ReviewInv'
  BY <1>6, StartKeeps DEF AssignmentDb!ReadForReview
<1> QED BY <1>1, <1>2, <1>3, <1>4, <1>5, <1>6, BeginSubmitKeeps, SubmitKeeps,
           BeginReviewKeeps, ReviewKeeps DEF AssignmentDb!Next, AssignmentDb!RequestStep,
                                             AssignmentDb!StatementStep

-----------------------------------------------------------------------------
(* Answers that await their review, as long as no review and no submission *)
(* of an assignment are in their statements at once.                       *)

Writing(c, op) == AssignmentDb!Running(c) /\ call[c].op = op

Apart ==
  \A b, c \in Call :
    Writing(b, "submit") /\ Writing(c, "review") => call[b].id # call[c].id

(* A submission being written will be the latest, or others that wait for  *)
(* a review already are; a review being written is of the latest.          *)
SeenSound(c) ==
  /\ AssignmentDb!Running(c) => call[c].seen <= clock
  /\ Writing(c, "submit") =>
       call[c].seen > AssignmentDb!Latest(call[c].id) \/ status[call[c].id] = "submitted"
  /\ Writing(c, "review") => call[c].seen = AssignmentDb!Latest(call[c].id)

AwaitInv ==
  /\ ReviewInv
  /\ Apart
  /\ \A a \in AssignmentId : \A m \in Moments(a) : m <= clock
  /\ \A c \in Call : SeenSound(c)
  /\ AssignmentDb!AnswerAwaited

LEMMA RunningType ==
  ASSUME TypeInv, NEW c \in Call, AssignmentDb!Running(c)
  PROVE  call[c] \in AssignmentDb!Command /\ call[c].id \in AssignmentId
BY DEF TypeInv, AssignmentDb!Running, AssignmentDb!Command

(* Steps that leave the submissions alone, too.                            *)
LEMMA SameSubmissions ==
  ASSUME UNCHANGED submissions
  PROVE  \A a : Moments(a)' = Moments(a) /\ AssignmentDb!Latest(a)' = AssignmentDb!Latest(a)
BY DEF Moments, AssignmentDb!Latest

LEMMA AnswersStay ==
  ASSUME AwaitInv, ReviewInv', UNCHANGED submissions,
         \A a \in AssignmentId :
           status'[a] # status[a] => "submitted" \notin {status[a], status'[a]}
  PROVE  AssignmentDb!AnswerAwaited'
BY SameSubmissions DEF AwaitInv, AssignmentDb!AnswerAwaited

(* A step that changes at most the call of c.                              *)
LEMMA CallKeepsAwait ==
  ASSUME AwaitInv, ReviewInv', Apart', UNCHANGED submissions, NEW c \in Call,
         clock' \in Nat, clock' >= clock,
         \A d \in Call \ {c} : call'[d] = call[d],
         \A a \in AssignmentId :
           status'[a] # status[a] => "submitted" \notin {status[a], status'[a]},
         SeenSound(c)'
  PROVE  AwaitInv'
<1>1. ASSUME NEW d \in Call PROVE SeenSound(d)'
  <2>1. CASE d = c
    BY <2>1
  <2>2. CASE d # c
    <3>1. call'[d] = call[d] /\ SeenSound(d)
      BY <2>2 DEF AwaitInv
    <3>2. AssignmentDb!Running(d) => call[d].id \in AssignmentId /\ call[d].seen \in Int
      BY RunningType DEF AwaitInv, ReviewInv, AssignmentDb!Command
    <3>3. clock \in Nat
      BY DEF AwaitInv, ReviewInv, TypeInv
    <3>4. AssignmentDb!Running(d)' <=> AssignmentDb!Running(d)
      BY <3>1 DEF AssignmentDb!Running
    <3> QED BY <3>1, <3>2, <3>3, <3>4, SameSubmissions DEF SeenSound, Writing
  <2> QED BY <2>1, <2>2
<1>2. ASSUME NEW a \in AssignmentId, NEW m \in Moments(a)' PROVE m <= clock'
  <2>1. m \in Moments(a) /\ Moments(a) \subseteq Nat
    BY <1>2, SameSubmissions DEF AwaitInv, ReviewInv, TypeInv, Moments, Submission
  <2> QED BY <2>1 DEF AwaitInv, ReviewInv, TypeInv
<1> QED BY <1>1, <1>2, AnswersStay DEF AwaitInv

LEMMA QuietAwait ==
  ASSUME AwaitInv, ReviewInv', UNCHANGED <<submissions, clock, call>>,
         \A a \in AssignmentId :
           status'[a] # status[a] => "submitted" \notin {status[a], status'[a]}
  PROVE  AwaitInv'
<1>1. \A d \in Call : AssignmentDb!Running(d)' <=> AssignmentDb!Running(d)
  BY DEF AssignmentDb!Running
<1>2. Apart'
  BY <1>1 DEF AwaitInv, Apart, Writing
<1>3. ASSUME NEW d \in Call PROVE SeenSound(d)'
  <2>1. AssignmentDb!Running(d) => call[d].id \in AssignmentId
    BY RunningType DEF AwaitInv, ReviewInv
  <2> QED BY <1>1, <2>1, SameSubmissions DEF AwaitInv, SeenSound, Writing
<1>4. \A a \in AssignmentId : \A m \in Moments(a)' : m <= clock'
  BY SameSubmissions DEF AwaitInv
<1> QED BY <1>2, <1>3, <1>4, AnswersStay DEF AwaitInv

LEMMA StartAwait ==
  ASSUME AwaitInv, ReviewInv', Apart', NEW c \in Call, NEW a, NEW op, NEW verdict,
         AssignmentDb!Start(c, op, a, verdict)
  PROVE  AwaitInv'
<1>1. ~AssignmentDb!Running(c)' /\ \A d \in Call \ {c} : call'[d] = call[d]
  BY DEF AssignmentDb!Start, AssignmentDb!Running, AwaitInv, ReviewInv, TypeInv
<1>2. SeenSound(c)'
  BY <1>1 DEF SeenSound, Writing
<1> QED BY <1>1, <1>2, CallKeepsAwait DEF AssignmentDb!Start, AwaitInv, ReviewInv, TypeInv

LEMMA BeginSubmitAwait ==
  ASSUME AwaitInv, ReviewInv', Apart', NEW c \in Call, AssignmentDb!BeginSubmit(c)
  PROVE  AwaitInv'
<1>1. /\ call[c] \in AssignmentDb!Command /\ call[c].op = "submit" /\ call[c].id \in AssignmentId
      /\ clock \in Nat /\ clock' = clock + 1
  BY DEF AssignmentDb!BeginSubmit, AssignmentDb!Waiting, AwaitInv, ReviewInv, TypeInv,
         AssignmentDb!Command
<1>2. /\ call'[c].op = "submit" /\ call'[c].id = call[c].id /\ call'[c].seen = clock + 1
      /\ \A d \in Call \ {c} : call'[d] = call[d]
  BY <1>1 DEF AssignmentDb!BeginSubmit, AwaitInv, ReviewInv, TypeInv, AssignmentDb!Command
<1>3. AssignmentDb!Latest(call[c].id) <= clock /\ AssignmentDb!Latest(call[c].id) \in Nat
  BY <1>1, LatestIsLargest DEF AwaitInv, ReviewInv
<1>4. SeenSound(c)'
  BY <1>1, <1>2, <1>3, SameSubmissions DEF SeenSound, Writing, AssignmentDb!BeginSubmit
<1> QED BY <1>1, <1>2, <1>4, CallKeepsAwait DEF AssignmentDb!BeginSubmit

LEMMA BeginReviewAwait ==
  ASSUME AwaitInv, ReviewInv', Apart', NEW c \in Call, AssignmentDb!BeginReview(c)
  PROVE  AwaitInv'
<1>1. /\ call[c] \in AssignmentDb!Command /\ call[c].op = "review" /\ call[c].id \in AssignmentId
      /\ clock \in Nat /\ clock' = clock
  BY DEF AssignmentDb!BeginReview, AssignmentDb!Waiting, AwaitInv, ReviewInv, TypeInv,
         AssignmentDb!Command
<1>2. /\ call'[c].op = "review" /\ call'[c].id = call[c].id
      /\ call'[c].seen = AssignmentDb!Latest(call[c].id)
      /\ \A d \in Call \ {c} : call'[d] = call[d]
  BY <1>1 DEF AssignmentDb!BeginReview, AwaitInv, ReviewInv, TypeInv, AssignmentDb!Command
<1>3. AssignmentDb!Latest(call[c].id) <= clock
  BY <1>1, LatestIsLargest DEF AwaitInv, ReviewInv
<1>4. SeenSound(c)'
  BY <1>1, <1>2, <1>3, SameSubmissions DEF SeenSound, Writing, AssignmentDb!BeginReview
<1> QED BY <1>1, <1>2, <1>4, CallKeepsAwait DEF AssignmentDb!BeginReview

(* The others of the assignment are submissions, and now one is there that *)
(* waits.                                                                  *)
LEMMA SubmitAwait ==
  ASSUME AwaitInv, ReviewInv', Apart', NEW c \in Call, AssignmentDb!CreateSubmission(c)
  PROVE  AwaitInv'
<1> DEFINE new == [at |-> call[c].seen, status |-> "submitted"]
<1>1. PICK a \in AssignmentId : a = call[c].id
  BY RunningType DEF AssignmentDb!CreateSubmission, AwaitInv, ReviewInv
<1>2. /\ submissions'[a] = submissions[a] \cup {new}
      /\ \A b \in AssignmentId \ {a} : submissions'[b] = submissions[b] /\ status'[b] = status[b]
      /\ status'[a] = "submitted"
      /\ call'[c] = AssignmentDb!Idle /\ clock' = clock
      /\ \A d \in Call \ {c} : call'[d] = call[d]
  BY <1>1 DEF AssignmentDb!CreateSubmission, AwaitInv, ReviewInv, TypeInv
<1>3. new.at \in Nat /\ new.at <= clock /\ new.status = "submitted" /\ Writing(c, "submit")
  <2>1. AssignmentDb!Running(c) /\ call[c].op = "submit"
    BY DEF AssignmentDb!CreateSubmission
  <2>2. call[c].seen \in Nat
    BY <2>1 DEF AwaitInv, ReviewInv, FoundStays, AssignmentDb!Running
  <2> QED BY <2>1, <2>2 DEF AwaitInv, SeenSound, Writing
<1>4. new.at > AssignmentDb!Latest(a) \/ status[a] = "submitted"
  BY <1>1, <1>3 DEF AwaitInv, SeenSound
<1> HIDE DEF new
<1>5. /\ Moments(a)' = Moments(a) \cup {new.at}
      /\ \A b \in AssignmentId \ {a} :
           Moments(b)' = Moments(b) /\ AssignmentDb!Latest(b)' = AssignmentDb!Latest(b)
  <2>1. {s.at : s \in submissions[a] \cup {new}} = {s.at : s \in submissions[a]} \cup {new.at}
    OBVIOUS
  <2> QED BY <1>2, <2>1 DEF Moments, AssignmentDb!Latest
<1>6. /\ AssignmentDb!Latest(a) \in Moments(a) /\ AssignmentDb!Latest(a) \in Nat
      /\ \A m \in Moments(a) : AssignmentDb!Latest(a) >= m
      /\ AssignmentDb!Latest(a)' \in Moments(a)' /\ AssignmentDb!Latest(a)' \in Nat
      /\ \A m \in Moments(a)' : AssignmentDb!Latest(a)' >= m
  <2>1. Moments(a)' \subseteq Nat
    BY DEF ReviewInv, Moments, TypeInv, Submission
  <2> QED BY <2>1, LatestIsLargest, MaxIsLargest DEF AwaitInv, ReviewInv, HasLatest,
                                                     AssignmentDb!Latest, Moments
<1>7. AssignmentDb!Latest(a)' =
        IF new.at > AssignmentDb!Latest(a) THEN new.at ELSE AssignmentDb!Latest(a)
  BY <1>3, <1>5, <1>6
<1>8. AssignmentDb!AnswerAwaited'
  <2>1. \E s \in submissions'[a] : s.at = AssignmentDb!Latest(a)' /\ s.status = "submitted"
    <3>1. CASE new.at > AssignmentDb!Latest(a)
      BY <1>2, <1>3, <1>7, <3>1
    <3>2. CASE ~(new.at > AssignmentDb!Latest(a))
      BY <1>2, <1>4, <1>7, <3>2 DEF AwaitInv, AssignmentDb!AnswerAwaited
    <3> QED BY <3>1, <3>2
  <2> QED BY <1>2, <1>5, <2>1 DEF AwaitInv, AssignmentDb!AnswerAwaited
<1>9. ASSUME NEW d \in Call PROVE SeenSound(d)'
  <2>1. CASE d = c
    BY <1>2, <2>1 DEF SeenSound, Writing, AssignmentDb!Running
  <2>2. CASE d # c
    <3>1. call'[d] = call[d] /\ SeenSound(d) /\ (AssignmentDb!Running(d)' <=> AssignmentDb!Running(d))
      BY <1>2, <2>2 DEF AwaitInv, AssignmentDb!Running
    <3>2. CASE AssignmentDb!Running(d) /\ call[d].id = a
      <4>1. ~Writing(d, "review")
        BY <1>1, <1>3, <3>2 DEF AwaitInv, Apart
      <4> QED BY <1>2, <3>1, <3>2, <4>1 DEF SeenSound, Writing
    <3>3. CASE AssignmentDb!Running(d) /\ call[d].id # a
      <4>1. call[d].id \in AssignmentId
        BY <3>3, RunningType DEF AwaitInv, ReviewInv
      <4> QED BY <1>2, <1>5, <3>1, <3>3, <4>1 DEF SeenSound, Writing
    <3> QED BY <3>1, <3>2, <3>3 DEF SeenSound, Writing
  <2> QED BY <2>1, <2>2
<1>10. ASSUME NEW b \in AssignmentId, NEW m \in Moments(b)' PROVE m <= clock'
  <2>1. CASE b = a
    BY <1>2, <1>3, <1>5, <1>10, <2>1 DEF AwaitInv
  <2>2. CASE b # a
    BY <1>2, <1>5, <1>10, <2>2 DEF AwaitInv
  <2> QED BY <2>1, <2>2
<1> QED BY <1>8, <1>9, <1>10 DEF AwaitInv

(* The review is of the latest submission, which no longer waits then.     *)
LEMMA ReviewAwait ==
  ASSUME AwaitInv, ReviewInv', Apart', NEW c \in Call, AssignmentDb!ReviewLatestSubmission(c)
  PROVE  AwaitInv'
<1> DEFINE at == call[c].seen
           verdict == call[c].verdict
           after(s) == IF s.at = at THEN [s EXCEPT !.status = verdict] ELSE s
<1>1. PICK a \in AssignmentId : a = call[c].id
  BY RunningType DEF AssignmentDb!ReviewLatestSubmission, AwaitInv, ReviewInv
<1>2. /\ call[c] \in AssignmentDb!Command /\ Writing(c, "review") /\ verdict \in AssignmentDb!Verdict
      /\ at = AssignmentDb!Latest(a)
      /\ call'[c] = AssignmentDb!Idle /\ clock' = clock
      /\ \A d \in Call \ {c} : call'[d] = call[d]
  BY <1>1, RunningType
  DEF AssignmentDb!ReviewLatestSubmission, AwaitInv, ReviewInv, TypeInv, AssignmentDb!Command,
      SeenSound, Writing
<1>3. SeenSound(c)'
  BY <1>2 DEF SeenSound, Writing, AssignmentDb!Running
<1>4. CASE at = 0
  <2>1. UNCHANGED <<submissions, status>>
    BY <1>4 DEF AssignmentDb!ReviewLatestSubmission
  <2> QED BY <1>2, <1>3, <2>1, CallKeepsAwait DEF AwaitInv, ReviewInv, TypeInv
<1>5. CASE at # 0
  <2> DEFINE target == AssignmentDb!AssignmentStatusForReviewStatus(verdict)
  <2>1. /\ submissions'[a] = {after(s) : s \in submissions[a]}
        /\ \A b \in AssignmentId \ {a} : submissions'[b] = submissions[b] /\ status'[b] = status[b]
        /\ status'[a] = target
    BY <1>1, <1>5 DEF AssignmentDb!ReviewLatestSubmission, AwaitInv, ReviewInv, TypeInv
  <2>2. target # "submitted" /\ verdict # "submitted"
    BY <1>2 DEF AssignmentDb!AssignmentStatusForReviewStatus, AssignmentDb!Verdict
  <2>3. \A s \in submissions[a] : after(s).at = s.at /\ (s.at = at => after(s).status = verdict)
    BY DEF AwaitInv, ReviewInv, TypeInv, Submission
  <2> HIDE DEF after, at, target
  <2>4. \A b \in AssignmentId :
          Moments(b)' = Moments(b) /\ AssignmentDb!Latest(b)' = AssignmentDb!Latest(b)
    <3>1. {s.at : s \in {after(s) : s \in submissions[a]}} = {s.at : s \in submissions[a]}
      BY <2>3
    <3> QED BY <2>1, <3>1 DEF Moments, AssignmentDb!Latest
  <2>5. AssignmentDb!AnswerAwaited'
    <3>1. \A s \in submissions'[a] : s.at = AssignmentDb!Latest(a)' => s.status = verdict
      BY <1>2, <2>1, <2>3, <2>4
    <3> QED BY <2>1, <2>2, <2>4, <3>1 DEF AwaitInv, AssignmentDb!AnswerAwaited
  <2>6. ASSUME NEW d \in Call PROVE SeenSound(d)'
    <3>1. CASE d = c
      BY <1>3, <3>1
    <3>2. CASE d # c
      <4>1. call'[d] = call[d] /\ SeenSound(d) /\ (AssignmentDb!Running(d)' <=> AssignmentDb!Running(d))
        BY <1>2, <3>2 DEF AwaitInv, AssignmentDb!Running
      <4>2. AssignmentDb!Running(d) => call[d].id \in AssignmentId
        BY RunningType DEF AwaitInv, ReviewInv
      <4>3. Writing(d, "submit") => call[d].id # a
        BY <1>1, <1>2 DEF AwaitInv, Apart
      <4> QED BY <1>2, <2>1, <2>4, <4>1, <4>2, <4>3 DEF SeenSound, Writing
    <3> QED BY <3>1, <3>2
  <2>7. \A b \in AssignmentId : \A m \in Moments(b)' : m <= clock'
    BY <1>2, <2>4 DEF AwaitInv
  <2> QED BY <2>5, <2>6, <2>7 DEF AwaitInv
<1> QED BY <1>4, <1>5

LEMMA InitAwaitInv == AssignmentDb!Init => AwaitInv
<1> SUFFICES ASSUME AssignmentDb!Init PROVE AwaitInv
  OBVIOUS
<1>1. \A c \in Call : ~AssignmentDb!Running(c)
  BY DEF AssignmentDb!Init, AssignmentDb!Running
<1>2. \A a \in AssignmentId : Moments(a) = {0}
  BY DEF AssignmentDb!Init, Moments
<1> QED BY <1>1, <1>2, InitReviewInv
    DEF AssignmentDb!Init, AwaitInv, Apart, SeenSound, Writing, AssignmentDb!AnswerAwaited

LEMMA NextAwaitInv == AwaitInv /\ [AssignmentDb!Next]_assignmentVars /\ Apart' => AwaitInv'
<1> SUFFICES ASSUME AwaitInv, [AssignmentDb!Next]_assignmentVars, Apart' PROVE AwaitInv'
  OBVIOUS
<1>0. ReviewInv'
  BY NextReviewInv DEF AwaitInv
<1>1. ASSUME NEW a \in AssignmentId, AssignmentDb!CreateAssignment(a) \/ AssignmentDb!DueAtPasses(a)
      PROVE  AwaitInv'
  BY <1>0, <1>1, QuietAwait DEF AssignmentDb!CreateAssignment, AssignmentDb!DueAtPasses, AwaitInv,
                                ReviewInv, TypeInv
<1>2. CASE AssignmentDb!ExpireOverdue
  BY <1>0, <1>2, QuietAwait DEF AssignmentDb!ExpireOverdue, AssignmentDb!OverdueRows
<1>3. CASE UNCHANGED assignmentVars
  BY <1>0, <1>3, QuietAwait DEF assignmentVars
<1>4. ASSUME NEW c \in Call, NEW a \in AssignmentId, NEW verdict \in AssignmentDb!Verdict,
             AssignmentDb!ReadForSubmit(c, a) \/ AssignmentDb!ReadForReview(c, a, verdict)
      PROVE  AwaitInv'
  BY <1>0, <1>4, StartAwait DEF AssignmentDb!ReadForSubmit, AssignmentDb!ReadForReview
<1>5. AssignmentDb!Verdict # {}
  BY DEF AssignmentDb!Verdict
<1> QED BY <1>0, <1>1, <1>2, <1>3, <1>4, <1>5, BeginSubmitAwait, SubmitAwait, BeginReviewAwait,
           ReviewAwait DEF AssignmentDb!Next, AssignmentDb!RequestStep, AssignmentDb!StatementStep

-----------------------------------------------------------------------------
(* notification-service, for any number of handlers: the same event at two *)
(* of them, and handlers that die.                                         *)

(* A notification goes to the recipient of its event: the unique index on  *)
(* user and event is then one on the event.                                *)
ToRecipient == \A n \in notifications : n.user = NotificationDb!Recipient(n.event)

(* What is being handled needs no invariant of its own: the statement      *)
(* looks at the index, and not at what the handler read before.            *)
NotifyInv == NotificationDb!TypeOK /\ ToRecipient /\ NotificationDb!NotifiedOnce

LEMMA InitNotifyInv == NotificationDb!Init => NotifyInv
BY DEF NotificationDb!Init, NotifyInv, NotificationDb!TypeOK, ToRecipient,
       NotificationDb!NotifiedOnce

LEMMA RecipientType == \A e : NotificationDb!Recipient(e) \in {"student", "teacher"}
BY DEF NotificationDb!Recipient

LEMMA QuietKeeps ==
  ASSUME NotifyInv, UNCHANGED <<notifications, processed, pushed>>,
         handling' \in [Proc -> Delivered \cup {None}]
  PROVE  NotifyInv'
<1>1. NotificationDb!TypeOK'
  BY DEF NotifyInv, NotificationDb!TypeOK
<1>2. ToRecipient'
  BY DEF NotifyInv, ToRecipient, NotificationDb!Recipient, NotificationDb!ToStudent
<1>3. NotificationDb!NotifiedOnce'
  BY DEF NotifyInv, NotificationDb!NotifiedOnce
<1> QED BY <1>1, <1>2, <1>3 DEF NotifyInv

LEMMA CreateKeeps ==
  ASSUME NotifyInv, NEW p \in Proc, NotificationDb!CreateFromEvent(p)
  PROVE  NotifyInv'
<1> DEFINE e == handling[p]
           new == [event |-> e, user |-> NotificationDb!Recipient(e), read |-> FALSE]
           known == \E n \in notifications : n.event = e /\ n.user = NotificationDb!Recipient(e)
<1>1. /\ e \in Delivered
      /\ handling' = [handling EXCEPT ![p] = None] /\ processed' = processed \cup {e}
  BY DEF NotifyInv, NotificationDb!TypeOK, NotificationDb!CreateFromEvent
<1>2. handling' \in [Proc -> Delivered \cup {None}] /\ processed' \subseteq Delivered
  BY <1>1 DEF NotifyInv, NotificationDb!TypeOK
<1>3. CASE known
  <2>1. e \in processed /\ UNCHANGED <<notifications, pushed>>
    BY <1>3 DEF NotificationDb!CreateFromEvent, NotifyInv, NotificationDb!NotifiedOnce
  <2>2. processed' = processed
    BY <1>1, <2>1
  <2>3. NotificationDb!TypeOK'
    BY <1>2, <2>1 DEF NotifyInv, NotificationDb!TypeOK
  <2>4. ToRecipient'
    BY <2>1 DEF NotifyInv, ToRecipient, NotificationDb!Recipient, NotificationDb!ToStudent
  <2>5. NotificationDb!NotifiedOnce'
    BY <2>1, <2>2 DEF NotifyInv, NotificationDb!NotifiedOnce
  <2> QED BY <2>3, <2>4, <2>5 DEF NotifyInv
<1>4. CASE ~known
  <2>1. notifications' = notifications \cup {new} /\ pushed' = Append(pushed, e)
    BY <1>4 DEF NotificationDb!CreateFromEvent
  <2>2. \A n \in notifications : n.event # e
    BY <1>4 DEF NotifyInv, ToRecipient
  <2>3. e \notin {n.event : n \in notifications} /\ e \notin {pushed[i] : i \in DOMAIN pushed}
    BY <2>2 DEF NotifyInv, NotificationDb!NotifiedOnce
  <2>4. new \in [event: Delivered, user: {"student", "teacher"}, read: BOOLEAN]
    BY <1>1, RecipientType
  <2>5. NotificationDb!TypeOK'
    <3>1. notifications' \in SUBSET [event: Delivered, user: {"student", "teacher"}, read: BOOLEAN]
      BY <2>1, <2>4 DEF NotifyInv, NotificationDb!TypeOK
    <3>2. pushed' \in Seq(Delivered)
      BY <1>1, <2>1 DEF NotifyInv, NotificationDb!TypeOK
    <3> QED BY <1>2, <3>1, <3>2 DEF NotificationDb!TypeOK
  <2>6. ToRecipient'
    BY <2>1 DEF NotifyInv, ToRecipient, NotificationDb!Recipient, NotificationDb!ToStudent
  <2>7. \A m, n \in notifications' : m.event = n.event => m = n
    <3>1. new.event = e
      OBVIOUS
    <3>2. \A m, n \in notifications : m.event = n.event => m = n
      BY DEF NotifyInv, NotificationDb!NotifiedOnce
    <3> HIDE DEF new, e
    <3> QED BY <2>1, <2>2, <3>1, <3>2
  <2>8. /\ pushed \in Seq(Delivered)
        /\ DOMAIN pushed = 1..Len(pushed) /\ Len(pushed) \in Nat
        /\ DOMAIN pushed' = 1..(Len(pushed) + 1)
        /\ \A i \in 1..Len(pushed) : pushed'[i] = pushed[i]
        /\ pushed'[Len(pushed) + 1] = e
    BY <1>1, <2>1 DEF NotifyInv, NotificationDb!TypeOK
  <2>9. \A i, j \in DOMAIN pushed' : pushed'[i] = pushed'[j] => i = j
    BY <2>3, <2>8 DEF NotifyInv, NotificationDb!NotifiedOnce
  <2>10. processed' = {n.event : n \in notifications'}
    <3>1. {n.event : n \in notifications \cup {new}} = {n.event : n \in notifications} \cup {e}
      <4>1. new.event = e
        OBVIOUS
      <4> HIDE DEF new, e
      <4> QED BY <4>1
    <3> QED BY <1>1, <2>1, <3>1 DEF NotifyInv, NotificationDb!NotifiedOnce
  <2>11. processed' = {pushed'[i] : i \in DOMAIN pushed'}
    <3>1. {pushed'[i] : i \in DOMAIN pushed'} = {pushed[i] : i \in DOMAIN pushed} \cup {e}
      BY <2>8
    <3> QED BY <1>1, <3>1 DEF NotifyInv, NotificationDb!NotifiedOnce
  <2> QED BY <2>5, <2>6, <2>7, <2>9, <2>10, <2>11 DEF NotifyInv, NotificationDb!NotifiedOnce
<1> QED BY <1>3, <1>4

LEMMA MarkAsReadKeeps ==
  ASSUME NotifyInv, NEW n \in notifications, NotificationDb!MarkAsRead(n)
  PROVE  NotifyInv'
<1> DEFINE marked == [n EXCEPT !.read = TRUE]
<1>1. n \in [event: Delivered, user: {"student", "teacher"}, read: BOOLEAN]
  BY DEF NotifyInv, NotificationDb!TypeOK
<1>2. /\ marked \in [event: Delivered, user: {"student", "teacher"}, read: BOOLEAN]
      /\ marked.event = n.event /\ marked.user = n.user
  BY <1>1
<1>3. notifications' = (notifications \ {n}) \cup {marked} /\ UNCHANGED <<processed, handling, pushed>>
  BY DEF NotificationDb!MarkAsRead
<1>4. NotificationDb!TypeOK'
  BY <1>2, <1>3 DEF NotifyInv, NotificationDb!TypeOK
<1>5. ToRecipient'
  <2>1. ASSUME NEW m \in notifications' PROVE m.user = NotificationDb!Recipient(m.event)
    <3>1. CASE m \in notifications BY <3>1 DEF NotifyInv, ToRecipient
    <3>2. CASE m = marked BY <3>2, <1>2 DEF NotifyInv, ToRecipient
    <3> QED BY <1>3, <3>1, <3>2
  <2> QED BY <2>1 DEF ToRecipient, NotificationDb!Recipient, NotificationDb!ToStudent
<1>6. \A m, k \in notifications' : m.event = k.event => m = k
  <2>1. \A m, k \in notifications : m.event = k.event => m = k
    BY DEF NotifyInv, NotificationDb!NotifiedOnce
  <2> HIDE DEF marked
  <2> QED BY <1>2, <1>3, <2>1
<1>7. {m.event : m \in notifications'} = {m.event : m \in notifications}
  BY <1>2, <1>3
<1>8. NotificationDb!NotifiedOnce'
  <2>0. processed = {m.event : m \in notifications} /\ processed = {pushed[i] : i \in DOMAIN pushed}
    BY DEF NotifyInv, NotificationDb!NotifiedOnce
  <2>1. processed' = {m.event : m \in notifications'}
    BY <1>3, <1>7, <2>0
  <2>3. processed' = {pushed'[i] : i \in DOMAIN pushed'}
    BY <1>3, <2>0
  <2>2. \A i, j \in DOMAIN pushed' : pushed'[i] = pushed'[j] => i = j
    BY <1>3 DEF NotifyInv, NotificationDb!NotifiedOnce
  <2> QED BY <1>6, <2>1, <2>2, <2>3 DEF NotificationDb!NotifiedOnce
<1> QED BY <1>4, <1>5, <1>8 DEF NotifyInv

LEMMA NextNotifyInv == NotifyInv /\ [NotificationDb!Next]_notificationVars => NotifyInv'
<1> SUFFICES ASSUME NotifyInv, [NotificationDb!Next]_notificationVars PROVE NotifyInv'
  OBVIOUS
<1>1. ASSUME NEW p \in Proc, NEW e \in Delivered, NotificationDb!OnEvent(p, e) PROVE NotifyInv'
  BY <1>1, QuietKeeps DEF NotificationDb!OnEvent, NotifyInv, NotificationDb!TypeOK
<1>2. ASSUME NEW p \in Proc, NotificationDb!Crash(p) PROVE NotifyInv'
  BY <1>2, QuietKeeps DEF NotificationDb!Crash, NotifyInv, NotificationDb!TypeOK
<1>3. CASE UNCHANGED notificationVars
  BY <1>3, QuietKeeps DEF notificationVars, NotifyInv, NotificationDb!TypeOK
<1> QED BY <1>1, <1>2, <1>3, CreateKeeps, MarkAsReadKeeps DEF NotificationDb!Next

-----------------------------------------------------------------------------

(* What is delivered is an event of assignment-service.                    *)
OutboxTyped == outbox \in Seq([type: AssignmentDb!EventType, id: AssignmentId])

HomeworkInv ==
  /\ OutboxTyped
  /\ overdue \subseteq Due
  /\ offset \in Nat
  /\ ReviewInv
  /\ NotifyInv

LEMMA InitHomeworkInv == Init => HomeworkInv
<1> SUFFICES ASSUME Init PROVE HomeworkInv
  OBVIOUS
<1>1. ReviewInv
  BY InitReviewInv
  DEF Init, AssignmentDb!Init, AssignmentDb!Idle
<1>2. NotifyInv
  BY InitNotifyInv DEF Init
<1>3. OutboxTyped /\ overdue \subseteq Due /\ offset \in Nat
  BY DEF Init, AssignmentDb!Init, OutboxTyped
<1> QED BY <1>1, <1>2, <1>3 DEF HomeworkInv

-----------------------------------------------------------------------------

(* The sequence of a finite set has its elements.                          *)
LEMMA SetToSeqType ==
  ASSUME NEW S, IsFiniteSet(S)
  PROVE  \E n \in Nat : AssignmentDb!SetToSeq(S) \in [1..n -> S]
<1>1. Cardinality(S) \in Nat /\ ExistsBijection(1..Cardinality(S), S)
  BY FS_CardinalityType
<1>2. PICK f \in [1..Cardinality(S) -> S] : AssignmentDb!IsInjective(f)
  <2>1. PICK f \in Bijection(1..Cardinality(S), S) : TRUE
    BY <1>1 DEF ExistsBijection
  <2>2. f \in [1..Cardinality(S) -> S] /\ IsInjective(f)
    BY <2>1 DEF Bijection, Injection
  <2>3. AssignmentDb!IsInjective(f)
    BY <2>2 DEF IsInjective, AssignmentDb!IsInjective
  <2> QED BY <2>2, <2>3
<1>3. AssignmentDb!SetToSeq(S) =
        CHOOSE g \in [1..Cardinality(S) -> S] : AssignmentDb!IsInjective(g)
  BY DEF AssignmentDb!SetToSeq, AssignmentDb!Cardinality, Cardinality
<1>4. AssignmentDb!SetToSeq(S) \in [1..Cardinality(S) -> S]
  BY <1>2, <1>3
<1> QED BY <1>1, <1>4

(* The expired rows add their events to the outbox.                        *)
LEMMA ExpiryTyped ==
  ASSUME OutboxTyped, AssignmentDb!ExpireOverdue, overdue \subseteq Due
  PROVE  OutboxTyped'
<1> DEFINE Row == [type: AssignmentDb!EventType, id: AssignmentId]
           expired(a) == [type |-> "assignment.deadline_expired", id |-> a]
<1>1. PICK rows \in SUBSET AssignmentId :
        outbox' = outbox \o AssignmentDb!SetToSeq({expired(a) : a \in rows})
  BY DueAssumption DEF AssignmentDb!ExpireOverdue, AssignmentDb!OverdueRows
<1> DEFINE S == {expired(a) : a \in rows}
<1>2. IsFiniteSet(S)
  <2>1. IsFiniteSet(rows)
    BY AssignmentAssumption, FS_Subset
  <2>2. [a \in rows |-> expired(a)] \in Surjection(rows, S)
    BY DEF Surjection
  <2> QED BY <2>1, <2>2, FS_Surjection
<1>3. S \subseteq Row
  BY DEF AssignmentDb!EventType
<1> HIDE DEF S
<1>4. AssignmentDb!SetToSeq(S) \in Seq(Row)
  <2>1. PICK n \in Nat : AssignmentDb!SetToSeq(S) \in [1..n -> S]
    BY <1>2, SetToSeqType
  <2> DEFINE events == AssignmentDb!SetToSeq(S)
  <2> HIDE DEF events, Row
  <2>2. events \in [1..n -> Row]
    BY <1>3, <2>1 DEF events
  <2>3. events \in Seq(Row)
    BY <2>2
  <2> QED BY <2>3 DEF events
<1>5. outbox' = outbox \o AssignmentDb!SetToSeq(S)
  BY <1>1 DEF S
<1> QED BY <1>4, <1>5 DEF OutboxTyped

(* Commands add events of their own assignment.                            *)
LEMMA CommandTyped ==
  ASSUME OutboxTyped, TypeInv,
         AssignmentDb!RequestStep \/ AssignmentDb!StatementStep
  PROVE  OutboxTyped'
<1>1. ASSUME NEW a \in AssignmentId, AssignmentDb!CreateAssignment(a) PROVE OutboxTyped'
  BY <1>1 DEF AssignmentDb!CreateAssignment, AssignmentDb!Emit, AssignmentDb!EventType, OutboxTyped
<1>2. ASSUME UNCHANGED outbox PROVE OutboxTyped'
  BY <1>2 DEF OutboxTyped
<1>3. ASSUME NEW c \in Call, AssignmentDb!Running(c) PROVE call[c].id \in AssignmentId
  BY <1>3 DEF AssignmentDb!Running, AssignmentDb!Idle, TypeInv, AssignmentDb!Command
<1>4. ASSUME NEW c \in Call, AssignmentDb!CreateSubmission(c) PROVE OutboxTyped'
  <2>1. outbox' = Append(outbox, [type |-> "submission.uploaded", id |-> call[c].id])
    BY <1>4 DEF AssignmentDb!CreateSubmission, AssignmentDb!Emit
  <2>2. call[c].id \in AssignmentId
    BY <1>3, <1>4 DEF AssignmentDb!CreateSubmission
  <2> QED BY <2>1, <2>2 DEF AssignmentDb!EventType, OutboxTyped
<1>5. ASSUME NEW c \in Call, AssignmentDb!ReviewLatestSubmission(c) PROVE OutboxTyped'
  <2>1. \/ UNCHANGED outbox
        \/ outbox' = Append(outbox, [type |-> "assignment.reviewed", id |-> call[c].id])
    BY <1>5 DEF AssignmentDb!ReviewLatestSubmission, AssignmentDb!Emit
  <2>2. call[c].id \in AssignmentId
    BY <1>3, <1>5 DEF AssignmentDb!ReviewLatestSubmission
  <2>3. CASE outbox' = Append(outbox, [type |-> "assignment.reviewed", id |-> call[c].id])
    BY <2>2, <2>3 DEF AssignmentDb!EventType, OutboxTyped
  <2> QED BY <1>2, <2>1, <2>3
<1> QED BY <1>1, <1>2, <1>4, <1>5
        DEF AssignmentDb!RequestStep, AssignmentDb!StatementStep, AssignmentDb!DueAtPasses,
            AssignmentDb!ReadForSubmit, AssignmentDb!ReadForReview, AssignmentDb!Start,
            AssignmentDb!BeginSubmit, AssignmentDb!BeginReview

-----------------------------------------------------------------------------

(* A step of assignment-service, which notification-service does not see.  *)
LEMMA AssignmentKeeps ==
  ASSUME HomeworkInv,
         AssignmentDb!RequestStep \/ AssignmentDb!StatementStep \/ AssignmentDb!ExpireOverdue,
         UNCHANGED <<notificationVars, offset>>
  PROVE  HomeworkInv'
<1>1. ReviewInv'
  BY NextReviewInv DEF HomeworkInv, AssignmentDb!Next
<1>2. NotifyInv'
  BY NextNotifyInv DEF HomeworkInv
<1>3. OutboxTyped'
  BY CommandTyped, ExpiryTyped DEF HomeworkInv, ReviewInv
<1>4. overdue' \subseteq Due
  BY DEF HomeworkInv, AssignmentDb!RequestStep, AssignmentDb!StatementStep,
         AssignmentDb!CreateAssignment, AssignmentDb!DueAtPasses, AssignmentDb!ReadForSubmit,
         AssignmentDb!ReadForReview, AssignmentDb!Start, AssignmentDb!BeginSubmit,
         AssignmentDb!CreateSubmission, AssignmentDb!BeginReview,
         AssignmentDb!ReviewLatestSubmission, AssignmentDb!ExpireOverdue
<1> QED BY <1>1, <1>2, <1>3, <1>4 DEF HomeworkInv

(* A step of notification-service, or of none, which assignment-service    *)
(* does not see.                                                           *)
LEMMA NotificationKeeps ==
  ASSUME HomeworkInv, [NotificationDb!Next]_notificationVars,
         UNCHANGED assignmentVars, offset' \in Nat
  PROVE  HomeworkInv'
<1>1. ReviewInv'
  BY NextReviewInv
  DEF HomeworkInv, assignmentVars
<1>2. NotifyInv'
  BY NextNotifyInv DEF HomeworkInv
<1>3. OutboxTyped' /\ overdue' \subseteq Due
  BY DEF HomeworkInv, OutboxTyped, assignmentVars
<1> QED BY <1>1, <1>2, <1>3 DEF HomeworkInv

LEMMA DeliverKeeps ==
  ASSUME HomeworkInv, NEW p \in Proc, NEW i \in Nat \ {0}, Deliver(p, i)
  PROVE  HomeworkInv'
<1>1. EventAt(i) \in Delivered
  <2> DEFINE Row == [type: AssignmentDb!EventType, id: AssignmentId]
  <2>1. outbox[i] \in Row
    <3>1. outbox \in Seq(Row) /\ i \in DOMAIN outbox
      BY DEF HomeworkInv, OutboxTyped, Deliver
    <3> HIDE DEF Row
    <3> QED BY <3>1
  <2> QED BY <2>1 DEF EventAt, Delivered
<1>2. offset' \in Nat
  BY DEF Deliver, Advance, HomeworkInv
<1>3. UNCHANGED notificationVars \/ NotificationDb!OnEvent(p, EventAt(i))
  BY DEF Deliver
<1>4. [NotificationDb!Next]_notificationVars
  BY <1>1, <1>3 DEF NotificationDb!Next
<1> QED BY <1>2, <1>4, NotificationKeeps DEF Deliver

LEMMA HandlerStepKeeps ==
  ASSUME HomeworkInv, NEW p \in Proc, HandlerStep(p)
  PROVE  HomeworkInv'
<1>1. [NotificationDb!Next]_notificationVars
  BY DEF HandlerStep, NotificationDb!Next
<1>2. handling[p] \in Delivered
  BY DEF HomeworkInv, NotifyInv, NotificationDb!TypeOK, HandlerStep,
         NotificationDb!CreateFromEvent
<1>3. offset' \in Nat
  BY <1>2 DEF HandlerStep, Advance, Delivered, HomeworkInv
<1> QED BY <1>1, <1>3, NotificationKeeps DEF HandlerStep

LEMMA NextHomeworkInv == HomeworkInv /\ [Next]_vars => HomeworkInv'
<1> SUFFICES ASSUME HomeworkInv, [Next]_vars PROVE HomeworkInv'
  OBVIOUS
<1>1. CASE Request \/ Statement \/ Deadline
  BY <1>1, AssignmentKeeps DEF Request, Statement, Deadline
<1>2. CASE Read
  BY <1>2, NotificationKeeps
  DEF Read, NotificationDb!MarkAsRead, NotificationDb!Next,
      HomeworkInv
<1>3. ASSUME NEW p \in Proc, Redeliver(p) \/ DeliverNext(p) PROVE HomeworkInv'
  BY <1>3, DeliverKeeps DEF Redeliver, DeliverNext, HomeworkInv
<1>4. ASSUME NEW p \in Proc, Crash(p) PROVE HomeworkInv'
  BY <1>4, NotificationKeeps
  DEF Crash, NotificationDb!Crash, NotificationDb!Next, HomeworkInv
<1>5. CASE UNCHANGED vars
  BY <1>5, NotificationKeeps DEF vars, HomeworkInv
<1> QED BY <1>1, <1>2, <1>3, <1>4, <1>5, HandlerStepKeeps DEF Next

(* Whatever submissions, reviews, expiries and deliveries race, the status *)
(* of an assignment is the one of a submission of it.                      *)
THEOREM StatusBacked == Spec => []ReviewBacked
<1>1. HomeworkInv => ReviewBacked
  BY DEF HomeworkInv, ReviewInv, ReviewBacked, AssignmentDb!ReviewBacked,
         AssignmentDb!AssignmentStatusForReviewStatus
<1> QED BY <1>1, InitHomeworkInv, NextHomeworkInv, PTL DEF Spec

(* An event of homework is told once, however often it is delivered and to *)
(* however many handlers, and wherever they die.                           *)
THEOREM ToldOnce == Spec => []NotifiedOnce
<1>1. HomeworkInv => NotifiedOnce
  BY DEF HomeworkInv, NotifyInv, NotifiedOnce, NotificationDb!NotifiedOnce
<1> QED BY <1>1, InitHomeworkInv, NextHomeworkInv, PTL DEF Spec

-----------------------------------------------------------------------------
(* Answers that await their review.                                        *)

AwaitedInv == HomeworkInv /\ (~overlapped => AwaitInv)

(* Statements begin and end in Statement only, which looks for overlaps.   *)
LEMMA ElsewhereApart ==
  ASSUME HomeworkInv, Apart,
         AssignmentDb!RequestStep \/ AssignmentDb!ExpireOverdue \/ UNCHANGED assignmentVars
  PROVE  Apart'
<1> DEFINE Runs(c) == AssignmentDb!Running(c)
<1> SUFFICES ASSUME NEW c \in Call, Runs(c)' PROVE Runs(c) /\ call'[c] = call[c]
  BY DEF Apart, Writing
<1>1. CASE UNCHANGED call
  BY <1>1 DEF AssignmentDb!Running
<1>2. ASSUME NEW d \in Call, NEW op, NEW a, NEW verdict, AssignmentDb!Start(d, op, a, verdict)
      PROVE  Runs(c) /\ call'[c] = call[c]
  <2>1. call' = [call EXCEPT ![d] = [op |-> op, id |-> a, verdict |-> verdict,
                                    seen |-> AssignmentDb!NotStarted]]
        /\ DOMAIN call = Call
    BY <1>2 DEF AssignmentDb!Start, HomeworkInv, ReviewInv, TypeInv
  <2>2. c # d
    BY <2>1 DEF AssignmentDb!Running, AssignmentDb!NotStarted
  <2> QED BY <2>1, <2>2 DEF AssignmentDb!Running
<1>3. CASE AssignmentDb!RequestStep
  BY <1>1, <1>2, <1>3
  DEF AssignmentDb!RequestStep, AssignmentDb!CreateAssignment, AssignmentDb!DueAtPasses,
      AssignmentDb!ReadForSubmit, AssignmentDb!ReadForReview
<1> QED BY <1>1, <1>3 DEF AssignmentDb!ExpireOverdue, assignmentVars

LEMMA NextAwaitedInv == AwaitedInv /\ [Next]_vars => AwaitedInv'
<1> SUFFICES ASSUME AwaitedInv, [Next]_vars, ~overlapped' PROVE AwaitInv'
  BY NextHomeworkInv DEF AwaitedInv
<1> DEFINE Step ==
             \/ AssignmentDb!RequestStep \/ AssignmentDb!ExpireOverdue \/ UNCHANGED assignmentVars
             \/ AssignmentDb!StatementStep /\ ~Overlapping'
<1>1. Step /\ ~overlapped
  <2>1. CASE Request \/ Deadline
    BY <2>1 DEF Request, Deadline
  <2>2. CASE Statement
    <3>1. AssignmentDb!StatementStep /\ ~overlapped /\ ~Overlapping'
      BY Zenon, <2>2 DEF Statement
    <3> QED BY <3>1
  <2>3. ASSUME NEW p \in Proc, NEW i, Deliver(p, i) PROVE UNCHANGED <<assignmentVars, overlapped>>
    BY <2>3 DEF Deliver
  <2>4. ASSUME NEW p \in Proc, HandlerStep(p) \/ Crash(p)
        PROVE  UNCHANGED <<assignmentVars, overlapped>>
    BY <2>4 DEF HandlerStep, Crash
  <2>5. Read \/ UNCHANGED vars => UNCHANGED <<assignmentVars, overlapped>>
    BY DEF Read, vars
  <2>6. CASE UNCHANGED <<assignmentVars, overlapped>>
    BY <2>6
  <2> QED BY <2>1, <2>2, <2>3, <2>4, <2>5, <2>6 DEF Next, Redeliver, DeliverNext
<1>2. Apart'
  <2>1. Apart
    BY <1>1 DEF AwaitedInv, AwaitInv
  <2>2. ~Overlapping' => Apart'
    BY DEF Apart, Writing, AssignmentDb!Running, AssignmentDb!Idle, AssignmentDb!NotStarted,
           Overlapping, InStatement
  <2> QED BY <1>1, <2>1, <2>2, ElsewhereApart DEF AwaitedInv
<1>3. [AssignmentDb!Next]_assignmentVars
  BY <1>1 DEF AssignmentDb!Next, assignmentVars
<1> QED BY <1>1, <1>2, <1>3, NextAwaitInv
    DEF AwaitedInv, assignmentVars

(* Until a review and a submission of an assignment have been in their     *)
(* statements at once, its last answer waits for a review exactly while    *)
(* its status says so, whatever else races: no answer is overlooked.       *)
THEOREM AnswersAwaited == Spec => []AnswerAwaitedInTurn
<1>1. Init => AwaitedInv
  <2> SUFFICES ASSUME Init PROVE AwaitedInv
    OBVIOUS
  <2>1. AwaitInv
    BY InitAwaitInv
    DEF Init, AssignmentDb!Init, AssignmentDb!Idle
  <2> QED BY <2>1, InitHomeworkInv DEF AwaitedInv
<1>2. AwaitedInv => AnswerAwaitedInTurn
  BY DEF AwaitedInv, AwaitInv, AnswerAwaitedInTurn, AssignmentDb!AnswerAwaited,
         AssignmentDb!Latest, AssignmentDb!Max
<1> QED BY <1>1, <1>2, NextAwaitedInv, PTL DEF Spec
=============================================================================
