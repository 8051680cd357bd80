--------------------------- MODULE BillingProofs ---------------------------
(* Theorems about module Lesson, for every set of teachers, lessons, slots *)
(* and concurrent calls and every set of requested intervals, and about    *)
(* module Billing, which extends it: what the student owes, from the       *)
(* command on a lesson to the ledger, for any number of handlers,          *)
(* redeliveries and crashes.                                               *)
EXTENDS Billing, TLAPS

-----------------------------------------------------------------------------
(* Lesson: type correctness.                                               *)

LEMMA InitTypeOK == Init => TypeOK
BY NoneAssumption DEF Init, TypeOK, LessonRow, LessonStatus, SlotStatus,
  OptionalSlot, NoRange, Event, Command

(* Emitting an event keeps the outbox and the history variable typed.      *)
LEMMA EmitType ==
  ASSUME TypeOK, NEW type \in EventType, NEW l \in LessonId,
         NEW previous \in LessonStatus, Emit(type, l, previous)
  PROVE  outbox' \in Seq(Event) /\ owed' \in [LessonId -> Int]
<1> DEFINE e == [type |-> type, lesson |-> l, previous |-> previous]
<1>1. e \in Event
  BY DEF Event
<1>2. ChargeEffect(e, lessons[l].completedAt) \in Int
  BY DEF ChargeEffect
<1>3. outbox' = Append(outbox, e)
  BY DEF Emit
<1>4. outbox' \in Seq(Event)
  BY <1>1, <1>3 DEF TypeOK
<1>5. owed' = [owed EXCEPT ![l] = @ + ChargeEffect(e, lessons[l].completedAt)]
  BY DEF Emit
<1>6. owed' \in [LessonId -> Int]
  BY <1>2, <1>5 DEF TypeOK
<1> QED BY <1>4, <1>6

(* The updates of a lesson row the statements make.                        *)
LEMMA CompletedRowType ==
  ASSUME TypeOK, NEW l \in LessonId,
         lessons' = [lessons EXCEPT ![l].status = "completed",
                                    ![l].completedAt = TRUE]
  PROVE  lessons' \in [LessonId -> LessonRow]
<1> DEFINE row == [lessons[l] EXCEPT !.status = "completed",
                                     !.completedAt = TRUE]
<1>1. lessons[l] \in LessonRow
  BY DEF TypeOK
<1>2. row \in LessonRow
  BY <1>1 DEF LessonRow, LessonStatus
<1>3. lessons' = [lessons EXCEPT ![l] = row]
  OBVIOUS
<1> QED BY <1>2, <1>3 DEF TypeOK

LEMMA StatusRowType ==
  ASSUME TypeOK, NEW l \in LessonId, NEW status \in LessonStatus,
         lessons' = [lessons EXCEPT ![l].status = status]
  PROVE  lessons' \in [LessonId -> LessonRow]
BY DEF TypeOK, LessonRow

LEMMA MovedRowType ==
  ASSUME TypeOK, NEW l \in LessonId, NEW slot \in OptionalSlot,
         NEW range \in Int \X Int,
         lessons' = [lessons EXCEPT ![l].range = range, ![l].slot = slot]
  PROVE  lessons' \in [LessonId -> LessonRow]
<1> DEFINE row == [lessons[l] EXCEPT !.range = range, !.slot = slot]
<1>1. lessons[l] \in LessonRow
  BY DEF TypeOK
<1>2. row \in LessonRow
  BY <1>1 DEF LessonRow
<1>3. lessons' = [lessons EXCEPT ![l] = row]
  OBVIOUS
<1> QED BY <1>2, <1>3 DEF TypeOK

(* What a statement does to its call, and what a reschedule does to the    *)
(* lesson.                                                                 *)
LEMMA StatementEnds ==
  ASSUME NEW c \in Call,
         \/ CompleteLesson(c) \/ CancelLesson(c)
         \/ RescheduleLesson(c) \/ ReactivateLesson(c)
  PROVE  call[c].op # "idle" /\ call' = [call EXCEPT ![c] = Idle]
<1>1. CASE CompleteLesson(c)
  BY <1>1 DEF CompleteLesson, EndCall
<1>2. CASE CancelLesson(c)
  BY <1>2 DEF CancelLesson, EndCall
<1>3. CASE RescheduleLesson(c)
  BY <1>3 DEF RescheduleLesson, EndCall
<1>4. CASE ReactivateLesson(c)
  BY <1>4 DEF ReactivateLesson, EndCall
<1> QED BY <1>1, <1>2, <1>3, <1>4

LEMMA RescheduleEffect ==
  ASSUME NEW c \in Call, RescheduleLesson(c), NEW l, l = call[c].lesson
  PROVE  /\ call[c].op = "reschedule" /\ UNCHANGED relapsed
         /\ \/ UNCHANGED <<lessons, outbox, owed>> /\ EndCall(c, "conflict")
            \/ /\ lessons[l].status = "scheduled"
               /\ NoClash(l, call[c].range)
               /\ call[c].slot # None /\ call[c].slot # call[c].oldSlot
                    => Bookable(call[c].slot, l)
               /\ lessons' = [lessons EXCEPT ![l].range = call[c].range,
                                             ![l].slot = call[c].slot]
               /\ Emit("lesson.rescheduled", l, "scheduled")
               /\ EndCall(c, "ok")
<1>1. call[c].op = "reschedule" /\ UNCHANGED relapsed
  BY DEF RescheduleLesson
<1>2. CASE EndCall(c, "conflict") /\ UNCHANGED <<lessons, outbox, owed>>
  BY <1>1, <1>2
<1>3. CASE ~(EndCall(c, "conflict") /\ UNCHANGED <<lessons, outbox, owed>>)
  BY <1>1, <1>3, Zenon DEF RescheduleLesson
<1> QED BY <1>2, <1>3

LEMMA ReactivateEffect ==
  ASSUME NEW c \in Call, ReactivateLesson(c), NEW l, l = call[c].lesson
  PROVE  /\ call[c].op = "reactivate"
         /\ \/ UNCHANGED <<lessons, outbox, owed, relapsed>> /\ EndCall(c, "conflict")
            \/ /\ lessons[l].status = "cancelled"
               /\ call[c].slot # None => Bookable(call[c].slot, l)
               /\ call[c].status = "scheduled" => NoClash(l, lessons[l].range)
               /\ lessons' = [lessons EXCEPT ![l].status = call[c].status]
               /\ relapsed' = IF call[c].status = "scheduled" /\ lessons[l].completedAt
                                THEN relapsed \cup {l} ELSE relapsed
               /\ Emit(IF call[c].status = "completed" THEN "lesson.restored"
                                                       ELSE "lesson.scheduled",
                       l, "cancelled")
               /\ EndCall(c, "ok")
<1>1. call[c].op = "reactivate"
  BY DEF ReactivateLesson
<1>2. CASE EndCall(c, "conflict") /\ UNCHANGED <<lessons, outbox, owed, relapsed>>
  BY <1>1, <1>2
<1>3. CASE ~(EndCall(c, "conflict") /\ UNCHANGED <<lessons, outbox, owed, relapsed>>)
  BY <1>1, <1>3, Zenon DEF ReactivateLesson
<1> QED BY <1>2, <1>3

(* Every call in progress carries typed parameters.                        *)
LEMMA CallType ==
  ASSUME TypeOK, NEW c \in Call, call[c] # Idle
  PROVE  call[c] \in Command
BY DEF TypeOK

LEMMA OpNotIdle ==
  ASSUME TypeOK, NEW c \in Call, call[c].op # "idle"
  PROVE  call[c] \in Command
BY DEF TypeOK, Idle

LEMMA InsertType ==
  ASSUME TypeOK, NEW l \in LessonId, NEW slot \in OptionalSlot,
         NEW range \in Ranges, InsertLesson(l, slot, range)
  PROVE  /\ lessons' \in [LessonId -> LessonRow]
         /\ reply' \in {"ok", "conflict", "not_found"}
         /\ outbox' \in Seq(Event) /\ owed' \in [LessonId -> Int]
<1>1. Emit("lesson.scheduled", l, "absent")
  BY DEF InsertLesson
<1>2. outbox' \in Seq(Event) /\ owed' \in [LessonId -> Int]
  BY <1>1, EmitType DEF EventType, LessonStatus
<1>3. [status |-> "scheduled", slot |-> slot, range |-> range,
       completedAt |-> FALSE] \in LessonRow
  BY RangeAssumption DEF LessonRow, LessonStatus
<1>4. lessons' \in [LessonId -> LessonRow]
  BY <1>3 DEF InsertLesson, TypeOK
<1> QED BY <1>2, <1>4 DEF InsertLesson, Answer

LEMMA CreateTypeOK == TypeOK /\ CreateStep => TypeOK'
<1> SUFFICES ASSUME TypeOK, CreateStep PROVE TypeOK'
  OBVIOUS
<1>1. ASSUME NEW s \in SlotId, CreateSlot(s) PROVE TypeOK'
  BY <1>1 DEF CreateSlot, Answer, TypeOK, SlotStatus
<1>2. ASSUME NEW l \in LessonId, NEW range \in Ranges, CreateLesson(l, range)
      PROVE TypeOK'
  <2>1. None \in OptionalSlot
    BY DEF OptionalSlot
  <2>2. InsertLesson(l, None, range) /\ UNCHANGED <<slotStatus, call, relapsed>>
    BY <1>2 DEF CreateLesson
  <2> QED BY <2>1, <2>2, InsertType DEF TypeOK
<1>3. ASSUME NEW l \in LessonId, NEW range \in Ranges, NEW s \in SlotId,
             CreateLessonFromSlot(l, s, range)
      PROVE TypeOK'
  <2>1. slotStatus' \in [SlotId -> SlotStatus] /\ UNCHANGED <<call, relapsed>>
    BY <1>3 DEF CreateLessonFromSlot, Bookable, TypeOK, SlotStatus
  <2>2. CASE Proper(range)
    <3>1. InsertLesson(l, s, range)
      BY <1>3, <2>2 DEF CreateLessonFromSlot, Bookable
    <3>2. s \in OptionalSlot
      BY DEF OptionalSlot
    <3> QED BY <2>1, <3>1, <3>2, InsertType DEF TypeOK
  <2>3. CASE ~Proper(range)
    <3>1. Answer("conflict") /\ UNCHANGED <<lessons, outbox, owed>>
      BY <1>3, <2>3 DEF CreateLessonFromSlot, Bookable
    <3> QED BY <2>1, <3>1 DEF TypeOK, Answer
  <2> QED BY <2>2, <2>3
<1> QED BY <1>1, <1>2, <1>3 DEF CreateStep

(* What Begin needs is a typed command.                                    *)
LEMMA BeginTypeOK ==
  ASSUME TypeOK, NEW c \in Call, NEW cmd \in Command, Begin(c, cmd)
  PROVE  TypeOK'
BY DEF Begin, TypeOK

LEMMA ReadTypeOK == TypeOK /\ ReadStep => TypeOK'
<1> SUFFICES ASSUME TypeOK, ReadStep PROVE TypeOK'
  OBVIOUS
<1> PICK c \in Call, l \in LessonId :
      \/ ReadForComplete(c, l)
      \/ ReadForCancel(c, l)
      \/ ReadForReactivate(c, l)
      \/ \E newSlot \in OptionalSlot, range \in Ranges :
           ReadForReschedule(c, l, newSlot, range)
  BY DEF ReadStep
<1>0. /\ None \in OptionalSlot /\ lessons[l].slot \in OptionalSlot
      /\ lessons[l].status \in LessonStatus /\ NoRange \in Int \X Int
  BY DEF TypeOK, LessonRow, OptionalSlot, NoRange
<1>1. CASE ReadForComplete(c, l)
  BY <1>0, <1>1, BeginTypeOK DEF ReadForComplete, Command, LessonStatus
<1>2. CASE ReadForCancel(c, l)
  BY <1>0, <1>2, BeginTypeOK DEF ReadForCancel, Command
<1>3. CASE ReadForReactivate(c, l)
  BY <1>0, <1>3, BeginTypeOK DEF ReadForReactivate, Command, LessonStatus
<1>4. ASSUME NEW newSlot \in OptionalSlot, NEW range \in Ranges,
             ReadForReschedule(c, l, newSlot, range)
      PROVE TypeOK'
  BY <1>0, <1>4, BeginTypeOK, RangeAssumption
     DEF ReadForReschedule, Command, LessonStatus
<1> QED BY <1>1, <1>2, <1>3, <1>4

LEMMA StatementTypeOK == TypeOK /\ StatementStep => TypeOK'
<1> SUFFICES ASSUME TypeOK, NEW c \in Call,
                    \/ CompleteLesson(c)
                    \/ CancelLesson(c)
                    \/ RescheduleLesson(c)
                    \/ ReactivateLesson(c)
             PROVE TypeOK'
  BY DEF StatementStep
<1> DEFINE l == call[c].lesson
<1>0. call[c].op # "idle" /\ call[c] \in Command /\ l \in LessonId
  <2>1. call[c].op # "idle"
    BY StatementEnds
  <2>2. call[c] \in Command
    BY <2>1, OpNotIdle
  <2> QED BY <2>1, <2>2 DEF Command
<1>a. ASSUME NEW r \in {"ok", "conflict", "not_found"}, EndCall(c, r)
      PROVE /\ call' \in [Call -> Command \cup {Idle}]
            /\ reply' \in {"ok", "conflict", "not_found"}
  BY <1>a DEF EndCall, Answer, TypeOK
<1>1. CASE CompleteLesson(c)
  <2>1. CASE lessons[l].status = "scheduled"
    <3>1. Emit("lesson.completed", l, "scheduled") /\ EndCall(c, "ok")
      BY <1>1, <2>1 DEF CompleteLesson
    <3>2. lessons' \in [LessonId -> LessonRow] /\ UNCHANGED <<slotStatus, relapsed>>
      BY <1>0, <1>1, <2>1, CompletedRowType DEF CompleteLesson
    <3>3. outbox' \in Seq(Event) /\ owed' \in [LessonId -> Int]
      BY <1>0, <3>1, EmitType DEF EventType, LessonStatus
    <3> QED BY <1>a, <3>1, <3>2, <3>3 DEF TypeOK
  <2>2. CASE lessons[l].status # "scheduled"
    BY <1>a, <1>1, <2>2 DEF CompleteLesson, TypeOK
  <2> QED BY <2>1, <2>2
<1>2. CASE CancelLesson(c)
  <2>1. CASE lessons[l].status = call[c].status
    <3>1. /\ Emit("lesson.cancelled", l, call[c].status) /\ EndCall(c, "ok")
          /\ UNCHANGED relapsed
      BY <1>2, <2>1 DEF CancelLesson, Reopened
    <3>2. lessons' \in [LessonId -> LessonRow]
      BY <1>0, <1>2, <2>1, StatusRowType DEF CancelLesson, Reopened, LessonStatus
    <3>3. slotStatus' \in [SlotId -> SlotStatus]
      BY <1>2, <2>1 DEF CancelLesson, Reopened, TypeOK, SlotStatus
    <3>4. outbox' \in Seq(Event) /\ owed' \in [LessonId -> Int]
      BY <1>0, <3>1, EmitType DEF EventType, Command
    <3> QED BY <1>a, <3>1, <3>2, <3>3, <3>4 DEF TypeOK
  <2>2. CASE lessons[l].status # call[c].status
    BY <1>a, <1>2, <2>2 DEF CancelLesson, Reopened, TypeOK
  <2> QED BY <2>1, <2>2
<1>3. CASE RescheduleLesson(c)
  <2>1. slotStatus' \in [SlotId -> SlotStatus] /\ UNCHANGED relapsed
    BY <1>3 DEF RescheduleLesson, Bookable, TypeOK, SlotStatus
  <2>2. CASE UNCHANGED <<lessons, outbox, owed>> /\ EndCall(c, "conflict")
    BY <1>a, <2>1, <2>2 DEF TypeOK
  <2>3. CASE /\ lessons' = [lessons EXCEPT ![l].range = call[c].range,
                                           ![l].slot = call[c].slot]
             /\ Emit("lesson.rescheduled", l, "scheduled")
             /\ EndCall(c, "ok")
    <3>1. lessons' \in [LessonId -> LessonRow]
      BY <1>0, <2>3, MovedRowType DEF Command
    <3>2. outbox' \in Seq(Event) /\ owed' \in [LessonId -> Int]
      BY <1>0, <2>3, EmitType DEF EventType, LessonStatus
    <3> QED BY <1>a, <2>1, <2>3, <3>1, <3>2 DEF TypeOK
  <2> QED BY <1>3, <2>2, <2>3, RescheduleEffect
<1>4. CASE ReactivateLesson(c)
  <2>0. relapsed' \subseteq LessonId
    BY <1>0, <1>4 DEF ReactivateLesson, Bookable, TypeOK
  <2>1. slotStatus' \in [SlotId -> SlotStatus]
    BY <1>4 DEF ReactivateLesson, Bookable, TypeOK, SlotStatus
  <2>2. CASE UNCHANGED <<lessons, outbox, owed>> /\ EndCall(c, "conflict")
    BY <1>a, <2>0, <2>1, <2>2 DEF TypeOK
  <2>3. CASE /\ lessons' = [lessons EXCEPT ![l].status = call[c].status]
             /\ Emit(IF call[c].status = "completed" THEN "lesson.restored"
                                             ELSE "lesson.scheduled",
                     l, "cancelled")
             /\ EndCall(c, "ok")
    <3>1. lessons' \in [LessonId -> LessonRow]
      BY <1>0, <2>3, StatusRowType DEF Command
    <3>2. outbox' \in Seq(Event) /\ owed' \in [LessonId -> Int]
      BY <1>0, <2>3, EmitType DEF EventType, LessonStatus
    <3> QED BY <1>a, <2>0, <2>1, <2>3, <3>1, <3>2 DEF TypeOK
  <2> QED BY <1>4, <2>2, <2>3, ReactivateEffect
<1> QED BY <1>1, <1>2, <1>3, <1>4

LEMMA NextTypeOK == TypeOK /\ [Next]_vars => TypeOK'
<1> SUFFICES ASSUME TypeOK, [Next]_vars PROVE TypeOK'
  OBVIOUS
<1>1. CASE Publish
  <2>1. Tail(outbox) \in Seq(Event)
    BY <1>1 DEF Publish, TypeOK
  <2> QED BY <1>1, <2>1 DEF Publish, TypeOK
<1>2. CASE UNCHANGED vars
  BY <1>2 DEF vars, TypeOK
<1> QED BY <1>1, <1>2, CreateTypeOK, ReadTypeOK, StatementTypeOK DEF Next

(* Every variable stays in its type.                                       *)
THEOREM TypeCorrect == Spec => []TypeOK
BY InitTypeOK, NextTypeOK, PTL DEF Spec

-----------------------------------------------------------------------------
(* The schedule of a teacher.  NoOverlap is inductive given the types: a   *)
(* row becomes scheduled, or moves while scheduled, only where NoClash     *)
(* holds.                                                                  *)

LEMMA OverlapSymmetric ==
  ASSUME NEW r1, NEW r2
  PROVE  Overlap(r1, r2) <=> Overlap(r2, r1)
BY DEF Overlap

(* One row changes, and if it ends up scheduled it clashes with no other.  *)
LEMMA OneRowNoOverlap ==
  ASSUME TypeOK, NoOverlap, NEW l \in LessonId,
         \A m \in LessonId \ {l} : lessons'[m] = lessons[m],
         lessons'[l].status = "scheduled" => NoClash(l, lessons'[l].range)
  PROVE  NoOverlap'
<1> SUFFICES ASSUME NEW m \in LessonId, NEW n \in LessonId, m # n,
                    LessonOwner[m] = LessonOwner[n],
                    lessons'[m].status = "scheduled",
                    lessons'[n].status = "scheduled"
             PROVE ~Overlap(lessons'[m].range, lessons'[n].range)
  BY DEF NoOverlap
<1>1. CASE m = l
  BY <1>1, OverlapSymmetric DEF NoClash
<1>2. CASE n = l
  BY <1>2 DEF NoClash
<1>3. CASE m # l /\ n # l
  BY <1>3 DEF NoOverlap
<1> QED BY <1>1, <1>2, <1>3

LEMMA NextNoOverlap == TypeOK /\ NoOverlap /\ [Next]_vars => NoOverlap'
<1> SUFFICES ASSUME TypeOK, NoOverlap, [Next]_vars PROVE NoOverlap'
  OBVIOUS
<1>1. CASE UNCHANGED lessons
  BY <1>1 DEF NoOverlap
<1>2. ASSUME NEW l \in LessonId, NEW slot, NEW range, InsertLesson(l, slot, range)
      PROVE NoOverlap'
  <2>1. NoClash(l, range)
    BY <1>2 DEF InsertLesson
  <2>2. lessons'[l].range = range /\ \A m \in LessonId \ {l} : lessons'[m] = lessons[m]
    BY <1>2 DEF InsertLesson, TypeOK
  <2> QED BY <2>1, <2>2, OneRowNoOverlap
<1>3. CASE CreateStep
  BY <1>1, <1>2, <1>3 DEF CreateStep, CreateSlot, CreateLesson, CreateLessonFromSlot, Bookable
<1>4. CASE ReadStep
  BY <1>1, <1>4 DEF ReadStep, ReadForComplete, ReadForCancel, ReadForReactivate,
                    ReadForReschedule, Begin
<1>5. ASSUME NEW c \in Call, CompleteLesson(c) PROVE NoOverlap'
  <2> DEFINE l == call[c].lesson
  <2>1. l \in LessonId
    BY <1>5, OpNotIdle DEF CompleteLesson, Command
  <2>2. CASE lessons' = [lessons EXCEPT ![l].status = "completed",
                                        ![l].completedAt = TRUE]
    <3>1. lessons'[l].status = "completed"
      BY <2>1, <2>2 DEF TypeOK, LessonRow
    <3>2. \A m \in LessonId \ {l} : lessons'[m] = lessons[m]
      BY <2>1, <2>2 DEF TypeOK
    <3> QED BY <2>1, <3>1, <3>2, OneRowNoOverlap
  <2> QED BY <1>1, <1>5, <2>2 DEF CompleteLesson
<1>6. ASSUME NEW c \in Call, CancelLesson(c) PROVE NoOverlap'
  <2> DEFINE l == call[c].lesson
  <2>1. l \in LessonId
    BY <1>6, OpNotIdle DEF CancelLesson, Reopened, Command
  <2>2. CASE lessons' = [lessons EXCEPT ![l].status = "cancelled"]
    <3>1. lessons'[l].status = "cancelled"
      BY <2>1, <2>2 DEF TypeOK, LessonRow
    <3>2. \A m \in LessonId \ {l} : lessons'[m] = lessons[m]
      BY <2>1, <2>2 DEF TypeOK
    <3> QED BY <2>1, <3>1, <3>2, OneRowNoOverlap
  <2> QED BY <1>1, <1>6, <2>2 DEF CancelLesson, Reopened
<1>7. ASSUME NEW c \in Call, RescheduleLesson(c) PROVE NoOverlap'
  <2> DEFINE l == call[c].lesson
  <2>1. l \in LessonId
    BY <1>7, OpNotIdle DEF RescheduleLesson, Command
  <2>2. CASE /\ NoClash(l, call[c].range)
             /\ lessons' = [lessons EXCEPT ![l].range = call[c].range,
                                           ![l].slot = call[c].slot]
    <3>1. lessons'[l].range = call[c].range
      BY <2>1, <2>2 DEF TypeOK, LessonRow
    <3>2. \A m \in LessonId \ {l} : lessons'[m] = lessons[m]
      BY <2>1, <2>2 DEF TypeOK
    <3> QED BY <2>1, <2>2, <3>1, <3>2, OneRowNoOverlap
  <2> QED BY <1>1, <1>7, <2>2, RescheduleEffect
<1>8. ASSUME NEW c \in Call, ReactivateLesson(c) PROVE NoOverlap'
  <2> DEFINE l == call[c].lesson
  <2>1. l \in LessonId
    BY <1>8, OpNotIdle DEF ReactivateLesson, Command
  <2>2. CASE /\ call[c].status = "scheduled" => NoClash(l, lessons[l].range)
             /\ lessons' = [lessons EXCEPT ![l].status = call[c].status]
    <3>1. lessons'[l].status = call[c].status /\ lessons'[l].range = lessons[l].range
      BY <2>1, <2>2 DEF TypeOK, LessonRow
    <3>2. \A m \in LessonId \ {l} : lessons'[m] = lessons[m]
      BY <2>1, <2>2 DEF TypeOK
    <3> QED BY <2>1, <2>2, <3>1, <3>2, OneRowNoOverlap
  <2> QED BY <1>1, <1>8, <2>2, ReactivateEffect
<1>9. CASE Publish
  BY <1>1, <1>9 DEF Publish
<1>10. CASE UNCHANGED vars
  BY <1>1, <1>10 DEF vars
<1> QED BY <1>3, <1>4, <1>5, <1>6, <1>7, <1>8, <1>9, <1>10 DEF Next, StatementStep

(* No two scheduled lessons of one teacher ever overlap, whatever commands *)
(* run side by side.                                                       *)
THEOREM ScheduleNeverOverlaps == Spec => []NoOverlap
<1>1. Init => NoOverlap
  BY DEF Init, NoOverlap
<1> QED BY <1>1, TypeCorrect, NextNoOverlap, PTL DEF Spec

-----------------------------------------------------------------------------
(* The ledger a lesson is owed.  What a command read may no longer be so   *)
(* when its statement runs; of a reactivation two things stay: a lesson it *)
(* will complete has been completed, and one it will schedule although it  *)
(* has been completed since is relapsed from then on.                      *)

CallsSound ==
  \A c \in Call : call[c] # Idle =>
    /\ call[c].op = "cancel" => call[c].status \in {"scheduled", "completed"}
    /\ call[c].op = "reactivate" =>
         /\ call[c].status \in {"scheduled", "completed"}
         /\ call[c].status = "completed" => lessons[call[c].lesson].completedAt

(* completed_at tells whether a lesson has been completed.                 *)
CompletionRecorded ==
  \A l \in LessonId :
    /\ lessons[l].status = "completed" => lessons[l].completedAt
    /\ lessons[l].status = "absent" => ~lessons[l].completedAt
    /\ l \notin relapsed =>
         (lessons[l].completedAt => lessons[l].status \in {"completed", "cancelled"})

OwedInv == TypeOK /\ OwedIffCompleted /\ CompletionRecorded /\ CallsSound

LEMMA InitOwedInv == Init => OwedInv
<1>1. Init => OwedIffCompleted /\ CompletionRecorded /\ CallsSound
  BY DEF Init, OwedIffCompleted, CompletionRecorded, CallsSound
<1> QED BY <1>1, InitTypeOK DEF OwedInv

(* A call in progress keeps what it relies on: completed_at stays set.     *)
LEMMA CallsKept ==
  ASSUME TypeOK, CallsSound, \A d \in Call : call'[d] \in {call[d], Idle},
         \A m \in LessonId : lessons[m].completedAt => lessons'[m].completedAt
  PROVE  CallsSound'
<1>1. \A d \in Call : call'[d] # Idle => call'[d] = call[d] /\ call[d].lesson \in LessonId
  BY CallType DEF Command
<1> QED BY <1>1 DEF CallsSound

(* One row changes and one event is emitted: the ledger follows.           *)
LEMMA RowOwedInv ==
  ASSUME OwedInv, TypeOK', NEW l \in LessonId, NEW type, NEW previous,
         Emit(type, l, previous),
         \A d \in Call : call'[d] \in {call[d], Idle},
         \A m \in LessonId \ {l} : lessons'[m] = lessons[m],
         relapsed \subseteq relapsed', relapsed' \subseteq relapsed \cup {l},
         lessons[l].completedAt => lessons'[l].completedAt,
         lessons'[l].status # "absent",
         lessons'[l].status = "completed" => lessons'[l].completedAt,
         l \notin relapsed' =>
           (lessons'[l].completedAt => lessons'[l].status \in {"completed", "cancelled"}),
         ChargeEffect([type |-> type, lesson |-> l, previous |-> previous],
                      lessons[l].completedAt)
           <= (IF lessons'[l].status = "completed" THEN 1 ELSE 0)
                - (IF lessons[l].status = "completed" THEN 1 ELSE 0),
         l \notin relapsed =>
           ChargeEffect([type |-> type, lesson |-> l, previous |-> previous],
                        lessons[l].completedAt)
             = (IF lessons'[l].status = "completed" THEN 1 ELSE 0)
               - (IF lessons[l].status = "completed" THEN 1 ELSE 0)
  PROVE  OwedInv'
<1> USE DEF OwedInv
<1> DEFINE effect == ChargeEffect([type |-> type, lesson |-> l,
                                   previous |-> previous], lessons[l].completedAt)
<1>1. CallsSound'
  BY CallsKept
<1>2. CompletionRecorded'
  BY DEF CompletionRecorded
<1>3. owed' = [owed EXCEPT ![l] = @ + effect]
  BY DEF Emit
<1>4. owed'[l] = owed[l] + effect /\ \A m \in LessonId \ {l} : owed'[m] = owed[m]
  BY <1>3 DEF TypeOK
<1>5. IF l \in relapsed'
        THEN owed'[l] <= IF lessons'[l].status = "completed" THEN 1 ELSE 0
        ELSE owed'[l] = IF lessons'[l].status = "completed" THEN 1 ELSE 0
  <2> DEFINE due == IF lessons[l].status = "completed" THEN 1 ELSE 0
             d == (IF lessons'[l].status = "completed" THEN 1 ELSE 0) - due
  <2>1. IF l \in relapsed THEN owed[l] <= due ELSE owed[l] = due
    BY DEF OwedIffCompleted
  <2>2. effect <= d /\ (l \notin relapsed => effect = d)
    OBVIOUS
  <2>3. effect \in Int /\ owed[l] \in Int /\ due \in Int
    BY DEF ChargeEffect, TypeOK
  <2>4. l \in relapsed => l \in relapsed'
    OBVIOUS
  <2>5. (IF lessons'[l].status = "completed" THEN 1 ELSE 0) = due + d /\ d \in Int
    OBVIOUS
  <2> HIDE DEF effect, due, d
  <2> QED BY <1>4, <2>1, <2>2, <2>3, <2>4, <2>5
<1>6. OwedIffCompleted'
  BY <1>4, <1>5 DEF OwedIffCompleted
<1> QED BY <1>1, <1>2, <1>6

LEMMA InsertOwedInv ==
  ASSUME OwedInv, TypeOK', NEW l \in LessonId, NEW slot, NEW range,
         lessons[l].status = "absent", InsertLesson(l, slot, range),
         UNCHANGED <<call, relapsed>>
  PROVE  OwedInv'
<1>1. lessons' = [lessons EXCEPT ![l] =
           [status |-> "scheduled", slot |-> slot, range |-> range,
            completedAt |-> FALSE]]
  BY DEF InsertLesson
<1>2. Emit("lesson.scheduled", l, "absent")
  BY DEF InsertLesson
<1>3. ChargeEffect([type |-> "lesson.scheduled", lesson |-> l, previous |-> "absent"],
                   lessons[l].completedAt) = 0
  BY DEF ChargeEffect
<1>4. \A m \in LessonId \ {l} : lessons'[m] = lessons[m]
  BY <1>1 DEF OwedInv, TypeOK
<1>5. lessons'[l].status = "scheduled" /\ ~lessons'[l].completedAt
  BY <1>1 DEF OwedInv, TypeOK
<1>6. ~lessons[l].completedAt
  BY DEF OwedInv, CompletionRecorded
<1>7. (IF lessons'[l].status = "completed" THEN 1 ELSE 0)
        - (IF lessons[l].status = "completed" THEN 1 ELSE 0) = 0
  BY <1>5
<1> QED BY <1>2, <1>3, <1>4, <1>5, <1>6, <1>7, RowOwedInv

LEMMA CreateOwedInv == OwedInv /\ CreateStep => OwedInv'
<1> SUFFICES ASSUME OwedInv, CreateStep PROVE OwedInv'
  OBVIOUS
<1>0. TypeOK'
  BY CreateTypeOK DEF OwedInv
<1>1. CASE UNCHANGED <<lessons, call, owed, relapsed>>
  BY <1>0, <1>1 DEF OwedInv, OwedIffCompleted, CompletionRecorded, CallsSound
<1>2. ASSUME NEW l \in LessonId, NEW slot, NEW range, lessons[l].status = "absent",
             InsertLesson(l, slot, range), UNCHANGED <<call, relapsed>>
      PROVE OwedInv'
  BY <1>0, <1>2, InsertOwedInv
<1> QED BY <1>1, <1>2 DEF CreateStep, CreateSlot, CreateLesson, CreateLessonFromSlot, Bookable

(* A read starts a call that is sound.                                     *)
LEMMA BeginOwedInv ==
  ASSUME OwedInv, TypeOK', NEW c \in Call, NEW cmd,
         Begin(c, cmd),
         cmd.op = "cancel" => cmd.status \in {"scheduled", "completed"},
         cmd.op = "reactivate" =>
           /\ cmd.status \in {"scheduled", "completed"}
           /\ cmd.status = "completed" => lessons[cmd.lesson].completedAt
  PROVE  OwedInv'
<1> USE DEF OwedInv
<1>1. call' = [call EXCEPT ![c] = cmd] /\ UNCHANGED <<lessons, owed, relapsed>>
  BY DEF Begin
<1>2. OwedIffCompleted' /\ CompletionRecorded'
  BY <1>1 DEF OwedIffCompleted, CompletionRecorded
<1>3. call'[c] = cmd /\ \A d \in Call \ {c} : call'[d] = call[d]
  BY <1>1 DEF TypeOK
<1>4. CallsSound'
  BY <1>1, <1>3 DEF CallsSound
<1> QED BY <1>2, <1>4

LEMMA ReadOwedInv == OwedInv /\ ReadStep => OwedInv'
<1> SUFFICES ASSUME OwedInv, ReadStep PROVE OwedInv'
  OBVIOUS
<1>0. TypeOK'
  BY ReadTypeOK DEF OwedInv
<1> PICK c \in Call, l \in LessonId :
      \/ ReadForComplete(c, l)
      \/ ReadForCancel(c, l)
      \/ ReadForReactivate(c, l)
      \/ \E newSlot \in OptionalSlot, range \in Ranges :
           ReadForReschedule(c, l, newSlot, range)
  BY DEF ReadStep
<1>1. CASE ReadForComplete(c, l)
  BY <1>0, <1>1, BeginOwedInv DEF ReadForComplete
<1>2. CASE ReadForCancel(c, l)
  BY <1>0, <1>2, BeginOwedInv DEF ReadForCancel
<1>3. CASE ReadForReactivate(c, l)
  BY <1>0, <1>3, BeginOwedInv DEF ReadForReactivate
<1>4. ASSUME NEW newSlot, NEW range, ReadForReschedule(c, l, newSlot, range)
      PROVE OwedInv'
  BY <1>0, <1>4, BeginOwedInv DEF ReadForReschedule
<1> QED BY <1>1, <1>2, <1>3, <1>4

LEMMA StatementOwedInv == OwedInv /\ StatementStep => OwedInv'
<1> SUFFICES ASSUME OwedInv, NEW c \in Call,
                    \/ CompleteLesson(c)
                    \/ CancelLesson(c)
                    \/ RescheduleLesson(c)
                    \/ ReactivateLesson(c)
             PROVE OwedInv'
  BY DEF StatementStep
<1> DEFINE l == call[c].lesson
<1>0. /\ call[c].op # "idle" /\ call[c] \in Command /\ l \in LessonId /\ call[c] # Idle
      /\ TypeOK /\ CompletionRecorded /\ CallsSound
  <2>1. call[c].op # "idle"
    BY StatementEnds
  <2>2. call[c] \in Command
    BY <2>1, OpNotIdle DEF OwedInv
  <2> QED BY <2>1, <2>2 DEF Command, Idle, OwedInv
<1>1. TypeOK'
  BY <1>0, StatementTypeOK DEF StatementStep
<1>2. \A d \in Call : call'[d] \in {call[d], Idle}
  <2>1. call' = [call EXCEPT ![c] = Idle]
    BY StatementEnds
  <2> QED BY <1>0, <2>1 DEF TypeOK
<1>3. CASE UNCHANGED <<lessons, owed, relapsed>>
  <2>1. CallsSound'
    BY <1>0, <1>2, <1>3, CallsKept
  <2> QED BY <1>1, <1>3, <2>1 DEF OwedInv, OwedIffCompleted, CompletionRecorded
<1>6. ASSUME CompleteLesson(c), ~UNCHANGED <<lessons, owed, relapsed>> PROVE OwedInv'
  <2>1. /\ lessons' = [lessons EXCEPT ![l].status = "completed",
                                      ![l].completedAt = TRUE]
        /\ Emit("lesson.completed", l, "scheduled")
        /\ lessons[l].status = "scheduled" /\ UNCHANGED relapsed
    BY <1>6 DEF CompleteLesson
  <2>2. lessons'[l].status = "completed" /\ lessons'[l].completedAt = TRUE
    BY <1>0, <2>1 DEF TypeOK, LessonRow
  <2>3. l \notin relapsed => ~lessons[l].completedAt
    BY <1>0, <2>1 DEF CompletionRecorded
  <2>4. \A m \in LessonId \ {l} : lessons'[m] = lessons[m]
    BY <1>0, <2>1 DEF TypeOK
  <2>5. /\ ChargeEffect([type |-> "lesson.completed", lesson |-> l,
                         previous |-> "scheduled"], lessons[l].completedAt) <= 1
        /\ l \notin relapsed =>
             ChargeEffect([type |-> "lesson.completed", lesson |-> l,
                           previous |-> "scheduled"], lessons[l].completedAt) = 1
    BY <2>3 DEF ChargeEffect
  <2>6. (IF lessons'[l].status = "completed" THEN 1 ELSE 0)
          - (IF lessons[l].status = "completed" THEN 1 ELSE 0) = 1
    BY <2>1, <2>2
  <2> QED BY <1>0, <1>1, <1>2, <2>1, <2>2, <2>4, <2>5, <2>6, RowOwedInv
<1>7. ASSUME CancelLesson(c), ~UNCHANGED <<lessons, owed, relapsed>> PROVE OwedInv'
  <2>1. /\ lessons' = [lessons EXCEPT ![l].status = "cancelled"]
        /\ Emit("lesson.cancelled", l, lessons[l].status)
        /\ call[c].op = "cancel" /\ lessons[l].status = call[c].status
        /\ UNCHANGED relapsed
    BY <1>7 DEF CancelLesson, Reopened
  <2>2. /\ lessons'[l].status = "cancelled"
        /\ lessons'[l].completedAt = lessons[l].completedAt
    BY <1>0, <2>1 DEF TypeOK, LessonRow
  <2>3. lessons[l].status \in {"scheduled", "completed"}
    BY <1>0, <2>1 DEF CallsSound
  <2>4. \A m \in LessonId \ {l} : lessons'[m] = lessons[m]
    BY <1>0, <2>1 DEF TypeOK
  <2>5. ChargeEffect([type |-> "lesson.cancelled", lesson |-> l,
                      previous |-> lessons[l].status], lessons[l].completedAt)
          = IF lessons[l].status = "completed" THEN -1 ELSE 0
    BY <2>3 DEF ChargeEffect
  <2>6. (IF lessons'[l].status = "completed" THEN 1 ELSE 0)
          - (IF lessons[l].status = "completed" THEN 1 ELSE 0)
          = IF lessons[l].status = "completed" THEN -1 ELSE 0
    BY <2>2
  <2> QED BY <1>0, <1>1, <1>2, <2>1, <2>2, <2>4, <2>5, <2>6, RowOwedInv
<1>8. ASSUME RescheduleLesson(c), ~UNCHANGED <<lessons, owed, relapsed>> PROVE OwedInv'
  <2>1. /\ lessons' = [lessons EXCEPT ![l].range = call[c].range,
                                      ![l].slot = call[c].slot]
        /\ Emit("lesson.rescheduled", l, "scheduled")
        /\ lessons[l].status = "scheduled" /\ UNCHANGED relapsed
    BY <1>8, RescheduleEffect
  <2>2. /\ lessons'[l].status = lessons[l].status
        /\ lessons'[l].completedAt = lessons[l].completedAt
    BY <1>0, <2>1 DEF TypeOK, LessonRow
  <2>4. \A m \in LessonId \ {l} : lessons'[m] = lessons[m]
    BY <1>0, <2>1 DEF TypeOK
  <2>5. ChargeEffect([type |-> "lesson.rescheduled", lesson |-> l,
                      previous |-> "scheduled"], lessons[l].completedAt) = 0
    BY DEF ChargeEffect
  <2>6. (IF lessons'[l].status = "completed" THEN 1 ELSE 0)
          - (IF lessons[l].status = "completed" THEN 1 ELSE 0) = 0
    BY <2>2
  <2>7. l \notin relapsed =>
          (lessons'[l].completedAt => lessons'[l].status \in {"completed", "cancelled"})
    BY <1>0, <2>2 DEF CompletionRecorded
  <2>8. /\ lessons'[l].status = "scheduled" /\ 0 <= 0
        /\ lessons[l].completedAt => lessons'[l].completedAt
        /\ relapsed \subseteq relapsed' /\ relapsed' \subseteq relapsed \cup {l}
    BY <2>1, <2>2
  <2> QED BY <1>0, <1>1, <1>2, <2>1, <2>4, <2>5, <2>6, <2>7, <2>8, RowOwedInv
<1>9. ASSUME ReactivateLesson(c), ~UNCHANGED <<lessons, owed, relapsed>> PROVE OwedInv'
  <2> DEFINE type == IF call[c].status = "completed" THEN "lesson.restored"
                                                     ELSE "lesson.scheduled"
  <2>1. /\ lessons' = [lessons EXCEPT ![l].status = call[c].status]
        /\ Emit(type, l, "cancelled")
        /\ call[c].op = "reactivate" /\ lessons[l].status = "cancelled"
        /\ relapsed' = IF call[c].status = "scheduled" /\ lessons[l].completedAt
                         THEN relapsed \cup {l} ELSE relapsed
    BY <1>9, ReactivateEffect
  <2>2. /\ lessons'[l].status = call[c].status
        /\ lessons'[l].completedAt = lessons[l].completedAt
    BY <1>0, <2>1 DEF TypeOK, LessonRow
  <2>3. /\ call[c].status \in {"scheduled", "completed"}
        /\ call[c].status = "completed" => lessons[l].completedAt
    BY <1>0, <2>1 DEF CallsSound
  <2>4. \A m \in LessonId \ {l} : lessons'[m] = lessons[m]
    BY <1>0, <2>1 DEF TypeOK
  <2>5. ChargeEffect([type |-> type, lesson |-> l, previous |-> "cancelled"],
                     lessons[l].completedAt)
          = IF call[c].status = "completed" THEN 1 ELSE 0
    BY <2>3 DEF ChargeEffect
  <2>6. (IF lessons'[l].status = "completed" THEN 1 ELSE 0)
          - (IF lessons[l].status = "completed" THEN 1 ELSE 0)
          = IF call[c].status = "completed" THEN 1 ELSE 0
    BY <2>1, <2>2
  <2>7. l \notin relapsed' => (lessons'[l].completedAt => lessons'[l].status = "completed")
    BY <2>1, <2>2, <2>3
  <2>8. relapsed \subseteq relapsed' /\ relapsed' \subseteq relapsed \cup {l}
    BY <2>1
  <2> HIDE DEF type
  <2> QED BY <1>0, <1>1, <1>2, <2>1, <2>2, <2>3, <2>4, <2>5, <2>6, <2>7, <2>8, RowOwedInv
<1> QED BY <1>3, <1>6, <1>7, <1>8, <1>9

LEMMA NextOwedInv == OwedInv /\ [Next]_vars => OwedInv'
<1> SUFFICES ASSUME OwedInv, [Next]_vars PROVE OwedInv'
  OBVIOUS
<1>0. TypeOK'
  BY NextTypeOK DEF OwedInv
<1>1. CASE UNCHANGED <<lessons, call, owed, relapsed>>
  BY <1>0, <1>1 DEF OwedInv, OwedIffCompleted, CompletionRecorded, CallsSound
<1> QED BY <1>1, CreateOwedInv, ReadOwedInv, StatementOwedInv DEF Next, Publish, vars

(* What a command says to the other services: nothing, or one event of the *)
(* lesson it changes; a completion leaves completed_at behind.             *)
Says(type, l, previous) ==
  /\ Emit(type, l, previous)
  /\ \A m \in LessonId : lessons'[m].completedAt <=>
       lessons[m].completedAt \/ (m = l /\ type = "lesson.completed")
  /\ relapsed \subseteq relapsed'

SaysNothing ==
  /\ UNCHANGED <<outbox, owed, relapsed>>
  /\ \A m \in LessonId : lessons'[m].completedAt = lessons[m].completedAt

LEMMA StepSays ==
  ASSUME OwedInv, CreateStep \/ ReadStep \/ StatementStep
  PROVE  \/ SaysNothing
         \/ \E type \in EventType, l \in LessonId, previous \in LessonStatus :
              Says(type, l, previous)
<1> DEFINE Spoken == \E type \in EventType, l \in LessonId, previous \in LessonStatus :
                       Says(type, l, previous)
<1>0. TypeOK /\ CompletionRecorded
  BY DEF OwedInv
<1>1. CASE UNCHANGED <<lessons, outbox, owed, relapsed>>
  BY <1>1 DEF SaysNothing
<1>2. ASSUME NEW l \in LessonId, NEW slot, NEW range, lessons[l].status = "absent",
             InsertLesson(l, slot, range), UNCHANGED relapsed
      PROVE  Spoken
  <2>1. "lesson.scheduled" \in EventType /\ "absent" \in LessonStatus
    BY DEF EventType, LessonStatus
  <2>2. ~lessons[l].completedAt
    BY <1>0, <1>2 DEF CompletionRecorded
  <2>3. Emit("lesson.scheduled", l, "absent")
    BY <1>2 DEF InsertLesson
  <2>4. lessons'[l].completedAt = FALSE /\ \A m \in LessonId \ {l} : lessons'[m] = lessons[m]
    BY <1>0, <1>2 DEF InsertLesson, TypeOK
  <2>5. UNCHANGED relapsed
    BY <1>2
  <2>6. Says("lesson.scheduled", l, "absent")
    BY <2>2, <2>3, <2>4, <2>5 DEF Says
  <2> QED BY <2>1, <2>6
<1>3. CASE CreateStep
  BY <1>1, <1>2, <1>3 DEF CreateStep, CreateSlot, CreateLesson, CreateLessonFromSlot, Bookable
<1>4. CASE ReadStep
  BY <1>1, <1>4 DEF ReadStep, ReadForComplete, ReadForCancel, ReadForReactivate,
    ReadForReschedule, Begin
<1>5. ASSUME NEW c \in Call,
             CompleteLesson(c) \/ CancelLesson(c) \/ RescheduleLesson(c) \/ ReactivateLesson(c)
      PROVE  SaysNothing \/ Spoken
  <2> DEFINE l == call[c].lesson
  <2>1. call[c] \in Command /\ call[c] # Idle /\ l \in LessonId /\ call[c].status \in LessonStatus
    <3>1. call[c].op # "idle"
      BY <1>5, StatementEnds
    <3> QED BY <1>0, <3>1, OpNotIdle DEF Command, Idle
  <2>2. /\ {"scheduled", "cancelled"} \subseteq LessonStatus
        /\ {"lesson.completed", "lesson.cancelled", "lesson.rescheduled", "lesson.restored",
            "lesson.scheduled"} \subseteq EventType
    BY DEF LessonStatus, EventType
  <2>3. CASE CompleteLesson(c)
    <3>1. \/ UNCHANGED <<lessons, outbox, owed, relapsed>>
          \/ /\ UNCHANGED relapsed
             /\ lessons' = [lessons EXCEPT ![l].status = "completed", ![l].completedAt = TRUE]
             /\ Emit("lesson.completed", l, "scheduled")
      BY <2>3 DEF CompleteLesson
    <3>3. lessons' = [lessons EXCEPT ![l].status = "completed", ![l].completedAt = TRUE] =>
            \A m \in LessonId : lessons'[m].completedAt <=> lessons[m].completedAt \/ m = l
      BY <1>0 DEF TypeOK, LessonRow
    <3>4. CASE UNCHANGED <<lessons, outbox, owed, relapsed>>
      BY <1>1, <3>4
    <3>5. CASE ~UNCHANGED <<lessons, outbox, owed, relapsed>>
      <4>1. Says("lesson.completed", l, "scheduled")
        BY <3>1, <3>3, <3>5 DEF Says
      <4> QED BY <2>1, <2>2, <4>1
    <3> QED BY <3>4, <3>5
  <2>4. ASSUME NEW type, NEW previous \in LessonStatus,
               type \in EventType, type # "lesson.completed",
               Emit(type, l, previous), relapsed \subseteq relapsed',
               \A m \in LessonId : lessons'[m].completedAt = lessons[m].completedAt
        PROVE  Spoken
    <3>1. Says(type, l, previous)
      BY <2>4 DEF Says
    <3> QED BY <2>1, <2>4, <3>1
  <2>5. CASE CancelLesson(c)
    <3>1. \/ UNCHANGED <<lessons, outbox, owed, relapsed>>
          \/ /\ lessons' = [lessons EXCEPT ![l].status = "cancelled"]
             /\ Emit("lesson.cancelled", l, call[c].status) /\ UNCHANGED relapsed
      BY <2>5 DEF CancelLesson, Reopened
    <3>2. lessons' = [lessons EXCEPT ![l].status = "cancelled"] =>
            \A m \in LessonId : lessons'[m].completedAt = lessons[m].completedAt
      BY <1>0 DEF TypeOK, LessonRow
    <3> QED BY <1>1, <2>1, <2>2, <2>4, <3>1, <3>2
  <2>6. CASE RescheduleLesson(c)
    <3>1. \/ UNCHANGED <<lessons, outbox, owed, relapsed>>
          \/ /\ lessons' = [lessons EXCEPT ![l].range = call[c].range, ![l].slot = call[c].slot]
             /\ Emit("lesson.rescheduled", l, "scheduled") /\ UNCHANGED relapsed
      BY <2>6, RescheduleEffect
    <3>2. lessons' = [lessons EXCEPT ![l].range = call[c].range, ![l].slot = call[c].slot] =>
            \A m \in LessonId : lessons'[m].completedAt = lessons[m].completedAt
      BY <1>0 DEF TypeOK, LessonRow
    <3> QED BY <1>1, <2>1, <2>2, <2>4, <3>1, <3>2
  <2>7. CASE ReactivateLesson(c)
    <3>1. \/ UNCHANGED <<lessons, outbox, owed, relapsed>>
          \/ /\ lessons' = [lessons EXCEPT ![l].status = call[c].status]
             /\ relapsed \subseteq relapsed'
             /\ \/ Emit("lesson.restored", l, "cancelled")
                \/ Emit("lesson.scheduled", l, "cancelled")
      BY <2>7, ReactivateEffect
    <3>2. lessons' = [lessons EXCEPT ![l].status = call[c].status] =>
            \A m \in LessonId : lessons'[m].completedAt = lessons[m].completedAt
      BY <1>0 DEF TypeOK, LessonRow
    <3> QED BY <1>1, <2>1, <2>2, <2>4, <3>1, <3>2
  <2> QED BY <1>5, <2>3, <2>5, <2>6, <2>7
<1> QED BY <1>3, <1>4, <1>5 DEF StatementStep

(* Whatever commands race on a lesson, the events charge its price exactly *)
(* while it is completed, unless a reactivation that read it before its    *)
(* completion has put it back to scheduled.                                *)
THEOREM OwedExactly == Spec => []OwedIffCompleted
<1>1. OwedInv => OwedIffCompleted
  BY DEF OwedInv
<1> QED BY <1>1, InitOwedInv, NextOwedInv, PTL DEF Spec

-----------------------------------------------------------------------------
(* Slots.  As long as a reschedule keeps the slot (otherwise its statement *)
(* reopens the one it read before), slots are exclusive for any number of  *)
(* concurrent calls: a reactivation and a reschedule still know the slot   *)
(* of their lesson, because nothing else moves a lesson.                   *)

CallsKnowSlot ==
  \A c \in Call : call[c] # Idle =>
    /\ call[c].op = "reschedule" =>
         /\ call[c].oldSlot = call[c].slot
         /\ call[c].slot = lessons[call[c].lesson].slot
         /\ lessons[call[c].lesson].status # "absent"
    /\ call[c].op = "cancel" => call[c].status \in {"scheduled", "completed"}
    /\ call[c].op = "reactivate" =>
         /\ call[c].status \in {"scheduled", "completed"}
         /\ call[c].slot = lessons[call[c].lesson].slot
         /\ lessons[call[c].lesson].status # "absent"

SlotInv == TypeOK /\ SlotHeldOnce /\ HeldSlotBooked /\ CallsKnowSlot

LEMMA InitSlotInv == Init => SlotInv
<1>1. Init => SlotHeldOnce /\ HeldSlotBooked /\ CallsKnowSlot
  BY DEF Init, SlotHeldOnce, HeldSlotBooked, CallsKnowSlot, Active
<1> QED BY <1>1, InitTypeOK DEF SlotInv

LEMMA CreateSlotInv == SlotInv /\ CreateStep => SlotInv'
<1> SUFFICES ASSUME SlotInv, CreateStep PROVE SlotInv'
  OBVIOUS
<1> USE DEF SlotInv
<1>0. TypeOK'
  BY CreateTypeOK
<1>1. ASSUME NEW s \in SlotId, CreateSlot(s) PROVE SlotInv'
  <2>1. /\ slotStatus[s] = "absent" /\ slotStatus' = [slotStatus EXCEPT ![s] = "open"]
        /\ UNCHANGED <<lessons, call>>
    BY <1>1 DEF CreateSlot
  <2>2. SlotHeldOnce' /\ CallsKnowSlot'
    BY <2>1 DEF SlotHeldOnce, CallsKnowSlot, Active
  <2>3. HeldSlotBooked'
    BY <2>1 DEF HeldSlotBooked, Active, TypeOK
  <2> QED BY <1>0, <2>2, <2>3
<1>2. ASSUME NEW l \in LessonId, NEW range, NEW slot \in OptionalSlot,
             lessons[l].status = "absent", InsertLesson(l, slot, range),
             UNCHANGED call,
             \/ slot = None /\ UNCHANGED slotStatus
             \/ /\ slot \in SlotId /\ slotStatus[slot] = "open"
                /\ slotStatus' = [slotStatus EXCEPT ![slot] = "booked"]
      PROVE SlotInv'
  <2>1. lessons' = [lessons EXCEPT ![l] =
          [status |-> "scheduled", slot |-> slot, range |-> range,
           completedAt |-> FALSE]]
    BY <1>2 DEF InsertLesson
  <2>2. lessons'[l].slot = slot /\ lessons'[l].status = "scheduled"
    BY <2>1 DEF TypeOK
  <2>3. \A m \in LessonId \ {l} : lessons'[m] = lessons[m]
    BY <2>1 DEF TypeOK
  <2>4. \A m \in LessonId : Active(m) /\ slot # None => lessons[m].slot # slot
    BY <1>2 DEF HeldSlotBooked
  <2>5. SlotHeldOnce'
    BY <2>2, <2>3, <2>4 DEF SlotHeldOnce, Active
  <2>6. \A s \in SlotId : slotStatus[s] = "booked" => slotStatus'[s] = "booked"
    BY <1>2 DEF TypeOK
  <2>7. slot # None => slotStatus'[slot] = "booked"
    BY <1>2 DEF TypeOK
  <2>8. \A m \in LessonId : lessons[m].slot \in OptionalSlot
    BY DEF TypeOK, LessonRow
  <2>9. HeldSlotBooked'
    BY <2>2, <2>3, <2>6, <2>7, <2>8 DEF HeldSlotBooked, Active, OptionalSlot
  <2>10. CallsKnowSlot'
    <3>1. \A c \in Call : call[c] # Idle /\ call[c].op \in {"reactivate", "reschedule"}
                           => call[c].lesson \in LessonId \ {l}
      BY <1>2, CallType DEF CallsKnowSlot, Command
    <3> QED BY <1>2, <2>3, <3>1 DEF CallsKnowSlot
  <2> QED BY <1>0, <2>5, <2>9, <2>10
<1>3. ASSUME NEW l \in LessonId, NEW range \in Ranges, CreateLesson(l, range)
      PROVE SlotInv'
  BY <1>2, <1>3 DEF CreateLesson, OptionalSlot
<1>4. ASSUME NEW l \in LessonId, NEW range \in Ranges, NEW s \in SlotId,
             CreateLessonFromSlot(l, s, range)
      PROVE SlotInv'
  <2>1. CASE Proper(range)
    BY <1>2, <1>4, <2>1 DEF CreateLessonFromSlot, Bookable, OptionalSlot
  <2>2. CASE ~Proper(range)
    <3>1. /\ slotStatus' = [slotStatus EXCEPT ![s] = "booked"]
          /\ UNCHANGED <<lessons, call>>
      BY <1>4, <2>2 DEF CreateLessonFromSlot, Bookable
    <3>2. HeldSlotBooked'
      BY <3>1 DEF HeldSlotBooked, Active, TypeOK
    <3> QED BY <1>0, <3>1, <3>2 DEF SlotHeldOnce, CallsKnowSlot, Active
  <2> QED BY <2>1, <2>2
<1> QED BY <1>1, <1>3, <1>4 DEF CreateStep

LEMMA ReadSlotInv ==
  ASSUME "reslot" \notin Ops
  PROVE  SlotInv /\ ReadStep => SlotInv'
<1> SUFFICES ASSUME SlotInv, ReadStep PROVE SlotInv'
  OBVIOUS
<1> USE DEF SlotInv
<1>0. TypeOK'
  BY ReadTypeOK
<1>1. ASSUME NEW c \in Call, NEW cmd, Begin(c, cmd),
             cmd.op = "reschedule" => /\ cmd.oldSlot = cmd.slot
                                      /\ cmd.slot = lessons[cmd.lesson].slot
                                      /\ lessons[cmd.lesson].status # "absent",
             cmd.op = "cancel" => cmd.status \in {"scheduled", "completed"},
             cmd.op = "reactivate" => /\ cmd.status \in {"scheduled", "completed"}
                                      /\ cmd.slot = lessons[cmd.lesson].slot
                                      /\ lessons[cmd.lesson].status # "absent"
      PROVE SlotInv'
  <2>1. call' = [call EXCEPT ![c] = cmd] /\ UNCHANGED <<lessons, slotStatus>>
    BY <1>1 DEF Begin
  <2>2. CallsKnowSlot'
    BY <1>1, <2>1 DEF CallsKnowSlot, TypeOK
  <2> QED BY <1>0, <2>1, <2>2 DEF SlotHeldOnce, HeldSlotBooked, Active
<1> PICK c \in Call, l \in LessonId :
      \/ ReadForComplete(c, l)
      \/ ReadForCancel(c, l)
      \/ ReadForReactivate(c, l)
      \/ \E newSlot \in OptionalSlot, range \in Ranges :
           ReadForReschedule(c, l, newSlot, range)
  BY DEF ReadStep
<1>2. CASE ReadForComplete(c, l)
  BY <1>1, <1>2 DEF ReadForComplete
<1>3. CASE ReadForCancel(c, l)
  BY <1>1, <1>3 DEF ReadForCancel
<1>4. CASE ReadForReactivate(c, l)
  BY <1>1, <1>4 DEF ReadForReactivate
<1>5. ASSUME NEW newSlot, NEW range, ReadForReschedule(c, l, newSlot, range)
      PROVE SlotInv'
  BY <1>1, <1>5 DEF ReadForReschedule
<1> QED BY <1>2, <1>3, <1>4, <1>5

LEMMA StatementSlotInv == SlotInv /\ StatementStep => SlotInv'
<1> SUFFICES ASSUME SlotInv, NEW c \in Call,
                    \/ CompleteLesson(c)
                    \/ CancelLesson(c)
                    \/ RescheduleLesson(c)
                    \/ ReactivateLesson(c)
             PROVE SlotInv'
  BY DEF StatementStep
<1> USE DEF SlotInv
<1> DEFINE l == call[c].lesson
<1>0. call[c] \in Command /\ l \in LessonId /\ call[c] # Idle
  <2>1. call[c].op # "idle"
    BY StatementEnds
  <2>2. call[c] \in Command
    BY <2>1, OpNotIdle
  <2> QED BY <2>1, <2>2 DEF Command, Idle
<1>1. TypeOK'
  BY StatementTypeOK DEF StatementStep
<1>2. call' = [call EXCEPT ![c] = Idle]
  BY StatementEnds
<1>3. ASSUME \A m \in LessonId : /\ lessons'[m].slot = lessons[m].slot
                                 /\ lessons[m].status # "absent"
                                      => lessons'[m].status # "absent"
      PROVE CallsKnowSlot'
  <2>1. \A d \in Call : call'[d] # Idle => call'[d] = call[d]
    BY <1>2 DEF TypeOK
  <2>2. \A d \in Call : call[d] # Idle => call[d].lesson \in LessonId
    BY CallType DEF Command
  <2> QED BY <1>3, <2>1, <2>2 DEF CallsKnowSlot
<1>t. \A m \in LessonId : lessons[m] \in LessonRow /\ lessons[m].slot \in OptionalSlot
  BY DEF TypeOK, LessonRow
<1>4. CASE UNCHANGED <<lessons, slotStatus>>
  BY <1>1, <1>3, <1>4 DEF SlotHeldOnce, HeldSlotBooked, Active
<1>5. ASSUME CompleteLesson(c), ~UNCHANGED <<lessons, slotStatus>> PROVE SlotInv'
  <2>1. /\ lessons' = [lessons EXCEPT ![l].status = "completed",
                                      ![l].completedAt = TRUE]
        /\ lessons[l].status = "scheduled" /\ UNCHANGED slotStatus
    BY <1>5 DEF CompleteLesson
  <2>2. lessons'[l].status = "completed" /\ lessons'[l].slot = lessons[l].slot
    BY <1>0, <2>1 DEF TypeOK, LessonRow
  <2>3. \A m \in LessonId \ {l} : lessons'[m] = lessons[m]
    BY <2>1 DEF TypeOK
  <2>4. \A m \in LessonId :
          /\ lessons'[m].slot = lessons[m].slot
          /\ lessons'[m].status \in {"scheduled", "completed"}
               => lessons[m].status \in {"scheduled", "completed"}
    BY <2>1, <2>2, <2>3
  <2>5. CallsKnowSlot'
    BY <1>3, <2>2, <2>3
  <2>6. SlotHeldOnce'
    BY <2>4 DEF SlotHeldOnce, Active
  <2>7. HeldSlotBooked'
    BY <2>1, <2>4 DEF HeldSlotBooked, Active
  <2> QED BY <1>1, <2>5, <2>6, <2>7
<1>6. ASSUME CancelLesson(c), ~UNCHANGED <<lessons, slotStatus>> PROVE SlotInv'
  <2>1. /\ lessons' = [lessons EXCEPT ![l].status = "cancelled"]
        /\ slotStatus' = [s \in SlotId |->
                            IF s = lessons[l].slot THEN "open" ELSE slotStatus[s]]
        /\ call[c].op = "cancel" /\ lessons[l].status = call[c].status
    BY <1>6 DEF CancelLesson, Reopened
  <2>2. lessons'[l].status = "cancelled" /\ lessons'[l].slot = lessons[l].slot
    BY <1>0, <2>1 DEF TypeOK, LessonRow
  <2>3. \A m \in LessonId \ {l} : lessons'[m] = lessons[m]
    BY <2>1 DEF TypeOK
  <2>4. Active(l) /\ lessons'[l].status = "cancelled"
    BY <1>0, <2>1, <2>2 DEF CallsKnowSlot, Active
  <2>5. SlotHeldOnce'
    BY <1>0, <2>3, <2>4 DEF SlotHeldOnce, Active
  <2>6. \A m \in LessonId \ {l} : Active(m) /\ lessons[m].slot # None
                                   => lessons[m].slot # lessons[l].slot
    BY <1>0, <2>4 DEF SlotHeldOnce
  <2>7. HeldSlotBooked'
    BY <1>t, <2>1, <2>3, <2>4, <2>6 DEF HeldSlotBooked, Active, OptionalSlot
  <2>8. CallsKnowSlot'
    BY <1>3, <2>2, <2>3
  <2> QED BY <1>1, <2>5, <2>7, <2>8
<1>7. ASSUME RescheduleLesson(c), ~UNCHANGED <<lessons, slotStatus>> PROVE SlotInv'
  <2>1. call[c].oldSlot = call[c].slot /\ call[c].slot = lessons[l].slot
    BY <1>0, <1>7 DEF RescheduleLesson, CallsKnowSlot
  <2>2. UNCHANGED slotStatus
    <3>1. slotStatus' = [s \in SlotId |-> slotStatus[s]]
      BY <1>7, <2>1 DEF RescheduleLesson
    <3> QED BY <3>1 DEF TypeOK
  <2>3. /\ lessons' = [lessons EXCEPT ![l].range = call[c].range,
                                      ![l].slot = call[c].slot]
    BY <1>7, <2>2 DEF RescheduleLesson
  <2>4. lessons'[l].slot = lessons[l].slot /\ lessons'[l].status = lessons[l].status
    BY <1>0, <2>1, <2>3 DEF TypeOK, LessonRow
  <2>5. \A m \in LessonId \ {l} : lessons'[m] = lessons[m]
    BY <2>3 DEF TypeOK
  <2>6. \A m \in LessonId : /\ lessons'[m].slot = lessons[m].slot
                            /\ lessons'[m].status = lessons[m].status
    BY <2>4, <2>5
  <2>7. SlotHeldOnce' /\ HeldSlotBooked'
    BY <2>2, <2>6 DEF SlotHeldOnce, HeldSlotBooked, Active
  <2> QED BY <1>1, <1>3, <2>6, <2>7
<1>8. ASSUME ReactivateLesson(c), ~UNCHANGED <<lessons, slotStatus>> PROVE SlotInv'
  <2> DEFINE slot == call[c].slot
             booked == Bookable(slot, l)
  <2>1. slot = lessons[l].slot /\ slot \in OptionalSlot
    BY <1>0, <1>8, <1>t DEF ReactivateLesson, CallsKnowSlot
  <2>2. slotStatus' = [s \in SlotId |->
                        IF booked /\ s = slot THEN "booked" ELSE slotStatus[s]]
    BY <1>8 DEF ReactivateLesson, Bookable
  <2>3. \A s \in SlotId : slotStatus[s] = "booked" => slotStatus'[s] = "booked"
    BY <2>2
  <2>4. CASE UNCHANGED lessons
    <3>1. HeldSlotBooked'
      BY <1>t, <2>3, <2>4 DEF HeldSlotBooked, Active, OptionalSlot
    <3> QED BY <1>1, <1>3, <2>4, <3>1 DEF SlotHeldOnce, Active
  <2>5. CASE ~UNCHANGED lessons
    <3>1. /\ lessons' = [lessons EXCEPT ![l].status = call[c].status]
          /\ lessons[l].status = "cancelled" /\ (slot # None => booked)
          /\ call[c].op = "reactivate"
      BY <1>8, <2>5, ReactivateEffect
    <3>2. /\ lessons'[l].slot = lessons[l].slot
          /\ lessons'[l].status = call[c].status
      BY <1>0, <3>1 DEF TypeOK, LessonRow
    <3>3. \A m \in LessonId \ {l} : lessons'[m] = lessons[m]
      BY <3>1 DEF TypeOK
    <3>4. \A m \in LessonId : Active(m) /\ slot # None => lessons[m].slot # slot
      BY <3>1 DEF HeldSlotBooked, Bookable
    <3>5. SlotHeldOnce'
      BY <2>1, <3>2, <3>3, <3>4 DEF SlotHeldOnce, Active
    <3>6. HeldSlotBooked'
      <4>1. slot # None => slotStatus'[slot] = "booked"
        BY <2>1, <2>2, <3>1 DEF OptionalSlot
      <4> QED BY <1>t, <2>1, <2>3, <3>2, <3>3, <4>1 DEF HeldSlotBooked, Active, OptionalSlot
    <3>7. call[c].status # "absent"
      BY <1>0, <3>1 DEF CallsKnowSlot
    <3>8. CallsKnowSlot'
      BY <1>3, <3>2, <3>3, <3>7
    <3> QED BY <1>1, <3>5, <3>6, <3>8
  <2> QED BY <2>4, <2>5
<1> QED BY <1>4, <1>5, <1>6, <1>7, <1>8

LEMMA NextSlotInv ==
  ASSUME "reslot" \notin Ops
  PROVE  SlotInv /\ [Next]_vars => SlotInv'
<1> SUFFICES ASSUME SlotInv, [Next]_vars PROVE SlotInv'
  OBVIOUS
<1>0. TypeOK'
  BY NextTypeOK DEF SlotInv
<1>1. CASE UNCHANGED <<lessons, slotStatus, call>>
  BY <1>0, <1>1 DEF SlotInv, SlotHeldOnce, HeldSlotBooked, CallsKnowSlot, Active
<1> QED BY <1>1, CreateSlotInv, ReadSlotInv, StatementSlotInv DEF Next, Publish, vars

(* Creation, completion, cancellation, reactivation and a move in time     *)
(* keep every slot exclusive and booked while a lesson sits in it.         *)
THEOREM SlotsExclusive ==
  ASSUME "reslot" \notin Ops
  PROVE  Spec => [](SlotHeldOnce /\ HeldSlotBooked)
<1>1. SlotInv => SlotHeldOnce /\ HeldSlotBooked
  BY DEF SlotInv
<1> QED BY <1>1, InitSlotInv, NextSlotInv, PTL DEF Spec

-----------------------------------------------------------------------------
(* The other direction of BookedIffHeld, for proper ranges: an inverted    *)
(* one books a slot for a lesson that is not inserted.                     *)

Carried == \A s \in SlotId :
  slotStatus[s] = "booked" => \E l \in LessonId : Active(l) /\ lessons[l].slot = s

(* What keeps it: a slot that becomes booked gets an active lesson, and an *)
(* active lesson that leaves its slot leaves it open.                      *)
LEMMA KeepsCarried ==
  ASSUME Carried, NEW l \in LessonId,
         \A m \in LessonId \ {l} : lessons'[m] = lessons[m],
         \A s \in SlotId : slotStatus'[s] = "booked" =>
           \/ /\ lessons'[l].status \in {"scheduled", "completed"}
              /\ lessons'[l].slot = s
           \/ slotStatus[s] = "booked" /\ ~(Active(l) /\ lessons[l].slot = s)
  PROVE  Carried'
<1> SUFFICES ASSUME NEW s \in SlotId, slotStatus'[s] = "booked"
             PROVE  \E m \in LessonId : Active(m)' /\ lessons'[m].slot = s
  BY DEF Carried
<1>1. CASE lessons'[l].status \in {"scheduled", "completed"} /\ lessons'[l].slot = s
  BY <1>1 DEF Active
<1>2. CASE slotStatus[s] = "booked" /\ ~(Active(l) /\ lessons[l].slot = s)
  <2>1. PICK m \in LessonId : Active(m) /\ lessons[m].slot = s
    BY <1>2 DEF Carried
  <2>2. m # l
    BY <1>2, <2>1
  <2> QED BY <2>1, <2>2 DEF Active
<1> QED BY <1>1, <1>2

LEMMA CreateCarried ==
  ASSUME SlotInv, Carried, CreateStep, \A range \in Ranges : Proper(range)
  PROVE  Carried'
<1> USE DEF SlotInv
<1>1. ASSUME NEW s \in SlotId, CreateSlot(s) PROVE Carried'
  BY <1>1 DEF CreateSlot, Carried, Active, TypeOK
<1>2. ASSUME NEW l \in LessonId, NEW range, NEW slot,
             lessons[l].status = "absent", InsertLesson(l, slot, range),
             \A s \in SlotId : slotStatus'[s] = "booked"
                               => s = slot \/ slotStatus[s] = "booked"
      PROVE Carried'
  <2>1. lessons' = [lessons EXCEPT ![l] =
          [status |-> "scheduled", slot |-> slot, range |-> range,
           completedAt |-> FALSE]]
    BY <1>2 DEF InsertLesson
  <2>2. lessons'[l].slot = slot /\ lessons'[l].status = "scheduled"
    BY <2>1 DEF TypeOK
  <2>3. \A m \in LessonId \ {l} : lessons'[m] = lessons[m]
    BY <2>1 DEF TypeOK
  <2>4. ~Active(l)
    BY <1>2 DEF Active
  <2> QED BY <1>2, <2>2, <2>3, <2>4, KeepsCarried
<1>3. ASSUME NEW l \in LessonId, NEW range \in Ranges, CreateLesson(l, range)
      PROVE Carried'
  BY <1>2, <1>3 DEF CreateLesson
<1>4. ASSUME NEW l \in LessonId, NEW range \in Ranges, NEW s \in SlotId,
             CreateLessonFromSlot(l, s, range)
      PROVE Carried'
  <2>1. /\ lessons[l].status = "absent" /\ InsertLesson(l, s, range)
        /\ slotStatus' = [slotStatus EXCEPT ![s] = "booked"]
    BY <1>4 DEF CreateLessonFromSlot
  <2>2. \A t \in SlotId : slotStatus'[t] = "booked" => t = s \/ slotStatus[t] = "booked"
    BY <2>1 DEF TypeOK
  <2> QED BY <1>2, <2>1, <2>2
<1> QED BY <1>1, <1>3, <1>4 DEF CreateStep

LEMMA StatementCarried ==
  ASSUME SlotInv, Carried, NEW c \in Call,
         \/ CompleteLesson(c) \/ CancelLesson(c)
         \/ RescheduleLesson(c) \/ ReactivateLesson(c)
  PROVE  Carried'
<1> USE DEF SlotInv
<1> DEFINE l == call[c].lesson
<1>0. call[c] \in Command /\ l \in LessonId /\ call[c] # Idle
  <2>1. call[c].op # "idle"
    BY StatementEnds
  <2>2. call[c] \in Command
    BY <2>1, OpNotIdle
  <2> QED BY <2>1, <2>2 DEF Command, Idle
<1>1. CASE UNCHANGED <<lessons, slotStatus>>
  BY <1>1 DEF Carried, Active
<1>2. ASSUME CompleteLesson(c), ~UNCHANGED <<lessons, slotStatus>> PROVE Carried'
  <2>1. /\ lessons' = [lessons EXCEPT ![l].status = "completed",
                                      ![l].completedAt = TRUE]
        /\ lessons[l].status = "scheduled" /\ UNCHANGED slotStatus
    BY <1>2 DEF CompleteLesson
  <2>2. lessons'[l].status = "completed" /\ lessons'[l].slot = lessons[l].slot
    BY <1>0, <2>1 DEF TypeOK, LessonRow
  <2>3. \A m \in LessonId \ {l} : lessons'[m] = lessons[m]
    BY <2>1 DEF TypeOK
  <2> QED BY <1>0, <2>1, <2>2, <2>3, KeepsCarried
<1>3. ASSUME CancelLesson(c), ~UNCHANGED <<lessons, slotStatus>> PROVE Carried'
  <2>1. /\ lessons' = [lessons EXCEPT ![l].status = "cancelled"]
        /\ slotStatus' = [s \in SlotId |->
                            IF s = lessons[l].slot THEN "open" ELSE slotStatus[s]]
    BY <1>3 DEF CancelLesson, Reopened
  <2>2. \A m \in LessonId \ {l} : lessons'[m] = lessons[m]
    BY <2>1 DEF TypeOK
  <2>3. \A s \in SlotId : slotStatus'[s] = "booked"
                          => slotStatus[s] = "booked" /\ lessons[l].slot # s
    BY <2>1
  <2> QED BY <1>0, <2>2, <2>3, KeepsCarried
<1>4. ASSUME RescheduleLesson(c), ~UNCHANGED <<lessons, slotStatus>> PROVE Carried'
  <2>1. call[c].oldSlot = call[c].slot /\ call[c].slot = lessons[l].slot
    BY <1>0, <1>4 DEF RescheduleLesson, CallsKnowSlot
  <2>2. UNCHANGED slotStatus
    <3>1. slotStatus' = [s \in SlotId |-> slotStatus[s]]
      BY <1>4, <2>1 DEF RescheduleLesson
    <3> QED BY <3>1 DEF TypeOK
  <2>3. lessons' = [lessons EXCEPT ![l].range = call[c].range, ![l].slot = call[c].slot]
    BY <1>4, <2>2 DEF RescheduleLesson
  <2>4. lessons'[l].slot = lessons[l].slot /\ lessons'[l].status = lessons[l].status
    BY <1>0, <2>1, <2>3 DEF TypeOK, LessonRow
  <2>5. \A m \in LessonId \ {l} : lessons'[m] = lessons[m]
    BY <2>3 DEF TypeOK
  <2> QED BY <1>0, <2>2, <2>4, <2>5, KeepsCarried DEF Active
<1>5. ASSUME ReactivateLesson(c), ~UNCHANGED <<lessons, slotStatus>> PROVE Carried'
  <2> DEFINE slot == call[c].slot
             booked == Bookable(slot, l)
  <2>t. /\ \A m \in LessonId : lessons[m].slot \in OptionalSlot
        /\ lessons[l].status \in LessonStatus
    BY <1>0 DEF TypeOK, LessonRow
  <2>1. /\ slot = lessons[l].slot /\ lessons[l].status # "absent"
        /\ call[c].status \in {"scheduled", "completed"}
    BY <1>0, <1>5 DEF ReactivateLesson, CallsKnowSlot
  <2>2. slotStatus' = [s \in SlotId |->
                        IF booked /\ s = slot THEN "booked" ELSE slotStatus[s]]
    BY <1>5 DEF ReactivateLesson, Bookable
  <2>3. booked => lessons[l].status = "cancelled"
    BY <1>0, <2>t, <2>1 DEF HeldSlotBooked, Active, Bookable, OptionalSlot, LessonStatus
  <2>4. CASE UNCHANGED lessons
    <3>1. ~booked
      <4>1. booked => lessons' = [lessons EXCEPT ![l].status = call[c].status]
        BY <1>5, <2>3 DEF ReactivateLesson, Bookable
      <4>2. booked => lessons'[l].status = call[c].status
        BY <1>0, <4>1 DEF TypeOK, LessonRow
      <4> QED BY <2>1, <2>3, <2>4, <4>2
    <3>2. UNCHANGED slotStatus
      BY <2>2, <3>1 DEF TypeOK
    <3> QED BY <2>4, <3>2 DEF Carried, Active
  <2>5. CASE ~UNCHANGED lessons
    <3>1. /\ lessons' = [lessons EXCEPT ![l].status = call[c].status]
          /\ lessons[l].status = "cancelled"
      BY <1>5, <2>5, ReactivateEffect
    <3>2. /\ lessons'[l].slot = lessons[l].slot
          /\ lessons'[l].status = call[c].status
      BY <1>0, <3>1 DEF TypeOK, LessonRow
    <3>3. \A m \in LessonId \ {l} : lessons'[m] = lessons[m]
      BY <3>1 DEF TypeOK
    <3>4. ~Active(l)
      BY <3>1 DEF Active
    <3> QED BY <1>0, <2>1, <2>2, <3>2, <3>3, <3>4, KeepsCarried
  <2> QED BY <2>4, <2>5
<1> QED BY <1>1, <1>2, <1>3, <1>4, <1>5

(* A slot is booked exactly while a lesson that is not cancelled sits in   *)
(* it, for proper ranges and reschedules that keep the slot.               *)
THEOREM BookedExactlyWhileHeld ==
  ASSUME "reslot" \notin Ops, \A range \in Ranges : Proper(range)
  PROVE  Spec => []BookedIffHeld
<1>1. Init => Carried
  BY DEF Init, Carried
<1>2. SlotInv /\ Carried /\ [Next]_vars => Carried'
  <2> SUFFICES ASSUME SlotInv, Carried, [Next]_vars PROVE Carried'
    OBVIOUS
  <2>1. CASE UNCHANGED <<lessons, slotStatus>>
    BY <2>1 DEF Carried, Active
  <2>2. CASE ReadStep
    BY <2>1, <2>2 DEF ReadStep, ReadForComplete, ReadForCancel, ReadForReactivate,
                      ReadForReschedule, Begin
  <2> QED BY <2>1, <2>2, CreateCarried, StatementCarried
          DEF Next, StatementStep, Publish, vars
<1>3. SlotInv /\ Carried => BookedIffHeld
  BY DEF SlotInv, Carried, BookedIffHeld
<1> QED BY <1>1, <1>2, <1>3, InitSlotInv, NextSlotInv, PTL DEF Spec

(* A statement that is refused leaves what the others see as it was: a     *)
(* reactivation that finds its slot open, and would book it, also finds    *)
(* its lesson cancelled, because the slot of an active lesson is booked.   *)
LEMMA StatementRefused ==
  ASSUME SlotInv, StatementStep, reply' # "ok"
  PROVE  UNCHANGED <<lessons, slotStatus>>
<1> USE DEF SlotInv
<1> PICK c \in Call :
      \/ CompleteLesson(c) \/ CancelLesson(c)
      \/ RescheduleLesson(c) \/ ReactivateLesson(c)
  BY DEF StatementStep
<1> DEFINE l == call[c].lesson
           slot == call[c].slot
<1>0. call[c] \in Command /\ l \in LessonId /\ slot \in OptionalSlot /\ call[c] # Idle
  <2>1. call[c].op # "idle"
    BY StatementEnds
  <2>2. call[c] \in Command
    BY <2>1, OpNotIdle
  <2> QED BY <2>1, <2>2 DEF Command, Idle
<1>1. CASE CompleteLesson(c)
  BY <1>1 DEF CompleteLesson, EndCall, Answer
<1>2. CASE CancelLesson(c)
  BY <1>2 DEF CancelLesson, Reopened, EndCall, Answer
<1>3. CASE RescheduleLesson(c)
  <2>1. UNCHANGED lessons
    BY <1>3, RescheduleEffect DEF EndCall, Answer
  <2>2. call[c].oldSlot = slot
    BY <1>0, <1>3 DEF RescheduleLesson, CallsKnowSlot
  <2>3. slotStatus' = slotStatus \/ slotStatus' = [s \in SlotId |-> slotStatus[s]]
    BY <1>3, <2>2 DEF RescheduleLesson
  <2> QED BY <2>1, <2>3 DEF TypeOK
<1>4. CASE ReactivateLesson(c)
  <2>1. UNCHANGED lessons
    BY <1>4 DEF ReactivateLesson, Bookable, EndCall, Answer
  <2>2. slot = lessons[l].slot /\ lessons[l].status # "absent"
    BY <1>0, <1>4 DEF ReactivateLesson, CallsKnowSlot
  <2>3. Bookable(slot, l) => lessons[l].status = "cancelled"
    <3>1. lessons[l].status \in LessonStatus
      BY <1>0 DEF TypeOK, LessonRow
    <3> QED BY <1>0, <2>2, <3>1 DEF HeldSlotBooked, Active, Bookable, OptionalSlot, LessonStatus
  <2>4. \/ UNCHANGED slotStatus
        \/ ~Bookable(slot, l) /\ slotStatus' = [s \in SlotId |-> slotStatus[s]]
    <3> HIDE DEF slot, l
    <3>1. CASE Bookable(slot, l)
      BY <1>4, <2>3, <3>1 DEF ReactivateLesson, EndCall, Answer, slot, l
    <3>2. CASE ~Bookable(slot, l)
      BY <1>4, <3>2 DEF ReactivateLesson, slot, l
    <3> QED BY <3>1, <3>2
  <2> QED BY <2>1, <2>4 DEF TypeOK
<1> QED BY <1>1, <1>2, <1>3, <1>4

(* Under the same assumptions a command answered with an error has changed *)
(* no lesson and no slot, whatever ran between its read and its statement. *)
THEOREM RefusalsChangeNothing ==
  ASSUME "reslot" \notin Ops, \A range \in Ranges : Proper(range)
  PROVE  Spec => RefusedChangesNothing
<1>1. SlotInv /\ [Next]_vars => [reply' = "ok"]_<<lessons, slotStatus>>
  <2> SUFFICES ASSUME SlotInv, [Next]_vars, reply' # "ok"
               PROVE  UNCHANGED <<lessons, slotStatus>>
    OBVIOUS
  <2>1. CASE CreateStep
    BY <2>1 DEF CreateStep, CreateSlot, CreateLesson, CreateLessonFromSlot, InsertLesson, Answer
  <2>2. CASE ReadStep
    BY <2>2 DEF ReadStep, ReadForComplete, ReadForCancel, ReadForReactivate,
                ReadForReschedule, Begin
  <2> QED BY <2>1, <2>2, StatementRefused DEF Next, Publish, vars
<1> QED BY <1>1, InitSlotInv, NextSlotInv, PTL DEF Spec, RefusedChangesNothing

-----------------------------------------------------------------------------
(* Whatever commands run, a slot is booked for a lesson of its teacher: a  *)
(* reschedule either books its new slot or keeps the one it read.          *)

OldSlotOfTeacher == \A c \in Call :
  call[c] # Idle /\ call[c].op = "reschedule" /\ call[c].oldSlot # None
    => SlotOwner[call[c].oldSlot] = LessonOwner[call[c].lesson]

OwnerInv == TypeOK /\ SlotOfTeacher /\ OldSlotOfTeacher

(* A command on lesson l puts it into no slot but its own or one booked.   *)
LEMMA KeepsSlotOfTeacher ==
  ASSUME SlotOfTeacher, NEW l \in LessonId, NEW slot,
         slot # None => SlotOwner[slot] = LessonOwner[l],
         \A m \in LessonId \ {l} : lessons'[m] = lessons[m],
         lessons'[l].slot = slot
  PROVE  SlotOfTeacher'
BY DEF SlotOfTeacher

LEMMA StatementSlotOfTeacher ==
  ASSUME OwnerInv, NEW c \in Call,
         \/ CompleteLesson(c) \/ CancelLesson(c)
         \/ RescheduleLesson(c) \/ ReactivateLesson(c)
  PROVE  SlotOfTeacher'
<1> USE DEF OwnerInv
<1> DEFINE l == call[c].lesson
<1>0. call[c] \in Command /\ l \in LessonId /\ call[c] # Idle
  <2>1. call[c].op # "idle"
    BY StatementEnds
  <2>2. call[c] \in Command
    BY <2>1, OpNotIdle
  <2> QED BY <2>1, <2>2 DEF Command, Idle
<1>1. CASE UNCHANGED lessons
  BY <1>1 DEF SlotOfTeacher
<1>2. CASE \E status : lessons' = [lessons EXCEPT ![l].status = status]
  <2>1. lessons'[l].slot = lessons[l].slot /\ \A m \in LessonId \ {l} : lessons'[m] = lessons[m]
    BY <1>0, <1>2 DEF TypeOK, LessonRow
  <2> QED BY <1>0, <2>1, KeepsSlotOfTeacher DEF SlotOfTeacher
<1>3. CASE CompleteLesson(c) /\ ~UNCHANGED lessons
  <2>1. lessons' = [lessons EXCEPT ![l].status = "completed", ![l].completedAt = TRUE]
    BY <1>3 DEF CompleteLesson
  <2>2. lessons'[l].slot = lessons[l].slot /\ \A m \in LessonId \ {l} : lessons'[m] = lessons[m]
    BY <1>0, <2>1 DEF TypeOK, LessonRow
  <2> QED BY <1>0, <2>2, KeepsSlotOfTeacher DEF SlotOfTeacher
<1>4. CASE CancelLesson(c) /\ ~UNCHANGED lessons
  BY <1>2, <1>4 DEF CancelLesson, Reopened
<1>5. CASE ReactivateLesson(c) /\ ~UNCHANGED lessons
  BY <1>2, <1>5, ReactivateEffect
<1>6. CASE RescheduleLesson(c) /\ ~UNCHANGED lessons
  <2> DEFINE cmd == call[c]
  <2>1. /\ lessons' = [lessons EXCEPT ![l].range = cmd.range, ![l].slot = cmd.slot]
        /\ cmd.slot # None /\ cmd.slot # cmd.oldSlot => Bookable(cmd.slot, l)
        /\ cmd.op = "reschedule"
    BY <1>6, RescheduleEffect
  <2>2. lessons'[l].slot = cmd.slot /\ \A m \in LessonId \ {l} : lessons'[m] = lessons[m]
    BY <1>0, <2>1 DEF TypeOK, LessonRow
  <2>3. cmd.slot # None => SlotOwner[cmd.slot] = LessonOwner[l]
    BY <1>0, <2>1 DEF OldSlotOfTeacher, Bookable
  <2> QED BY <1>0, <2>2, <2>3, KeepsSlotOfTeacher
<1> QED BY <1>1, <1>3, <1>4, <1>5, <1>6

LEMMA NextOwnerInv == OwnerInv /\ [Next]_vars => OwnerInv'
<1> SUFFICES ASSUME OwnerInv, [Next]_vars PROVE OwnerInv'
  OBVIOUS
<1> USE DEF OwnerInv
<1>0. TypeOK'
  BY NextTypeOK
<1>1. ASSUME UNCHANGED call \/ \E c \in Call : call' = [call EXCEPT ![c] = Idle]
      PROVE  OldSlotOfTeacher'
  <2>1. \A d \in Call : call'[d] = Idle \/ call'[d] = call[d]
    BY <1>1 DEF TypeOK
  <2> QED BY <2>1 DEF OldSlotOfTeacher
<1>2. CASE CreateStep
  <2>1. ASSUME NEW l \in LessonId, NEW range, NEW slot, InsertLesson(l, slot, range),
               slot # None => SlotOwner[slot] = LessonOwner[l]
        PROVE  SlotOfTeacher'
    <3>1. lessons'[l].slot = slot /\ \A m \in LessonId \ {l} : lessons'[m] = lessons[m]
      BY <2>1 DEF InsertLesson, TypeOK
    <3> QED BY <2>1, <3>1, KeepsSlotOfTeacher
  <2>2. ASSUME UNCHANGED lessons PROVE SlotOfTeacher'
    BY <2>2 DEF SlotOfTeacher
  <2>3. ASSUME NEW l \in LessonId, NEW range, CreateLesson(l, range)
        PROVE  SlotOfTeacher' /\ UNCHANGED call
    BY <2>1, <2>3 DEF CreateLesson
  <2>4. ASSUME NEW l \in LessonId, NEW range, NEW s, CreateLessonFromSlot(l, s, range)
        PROVE  SlotOfTeacher' /\ UNCHANGED call
    BY <2>1, <2>2, <2>4 DEF CreateLessonFromSlot, Bookable
  <2> QED BY <1>0, <1>1, <1>2, <2>2, <2>3, <2>4 DEF CreateStep, CreateSlot
<1>3. CASE ReadStep
  <2>1. PICK c \in Call, l \in LessonId :
          \E cmd : /\ Begin(c, cmd)
                   /\ cmd.op = "reschedule"
                        => cmd.oldSlot = lessons[l].slot /\ cmd.lesson = l
    <3>1. PICK c \in Call, l \in LessonId :
            \/ ReadForComplete(c, l) \/ ReadForCancel(c, l) \/ ReadForReactivate(c, l)
            \/ \E newSlot, range : ReadForReschedule(c, l, newSlot, range)
      BY <1>3 DEF ReadStep
    <3> DEFINE Found(cmd) == /\ Begin(c, cmd)
                             /\ cmd.op = "reschedule"
                                  => cmd.oldSlot = lessons[l].slot /\ cmd.lesson = l
    <3>2. ASSUME NEW newSlot, NEW range, ReadForReschedule(c, l, newSlot, range)
          PROVE  \E cmd : Found(cmd)
      <4>1. Found([op |-> "reschedule", lesson |-> l, status |-> "scheduled",
                   slot |-> newSlot, oldSlot |-> lessons[l].slot, range |-> range])
        BY <3>2 DEF ReadForReschedule
      <4> QED BY <4>1
    <3>3. ASSUME NEW op, NEW status, NEW slot, op # "reschedule",
                 Begin(c, [op |-> op, lesson |-> l, status |-> status,
                           slot |-> slot, oldSlot |-> None, range |-> NoRange])
          PROVE  \E cmd : Found(cmd)
      <4>1. Found([op |-> op, lesson |-> l, status |-> status,
                   slot |-> slot, oldSlot |-> None, range |-> NoRange])
        BY <3>3
      <4> QED BY <4>1
    <3>4. CASE ReadForComplete(c, l)
      BY <3>3, <3>4 DEF ReadForComplete
    <3>5. CASE ReadForCancel(c, l)
      BY <3>3, <3>5 DEF ReadForCancel
    <3>6. CASE ReadForReactivate(c, l)
      BY <3>3, <3>6 DEF ReadForReactivate
    <3> QED BY <3>1, <3>2, <3>4, <3>5, <3>6
  <2>0. PICK cmd : /\ Begin(c, cmd)
                   /\ cmd.op = "reschedule"
                        => cmd.oldSlot = lessons[l].slot /\ cmd.lesson = l
    BY <2>1
  <2>2. call' = [call EXCEPT ![c] = cmd] /\ UNCHANGED lessons
    BY <2>0 DEF Begin
  <2>3. SlotOfTeacher'
    BY <2>2 DEF SlotOfTeacher
  <2>4. \A d \in Call : call'[d] = IF d = c THEN cmd ELSE call[d]
    BY <2>2 DEF TypeOK
  <2>5. OldSlotOfTeacher'
    BY <2>0, <2>4 DEF OldSlotOfTeacher, SlotOfTeacher
  <2> QED BY <1>0, <2>3, <2>5
<1>4. CASE StatementStep
  <2>1. PICK c \in Call : \/ CompleteLesson(c) \/ CancelLesson(c)
                          \/ RescheduleLesson(c) \/ ReactivateLesson(c)
    BY <1>4 DEF StatementStep
  <2>2. call' = [call EXCEPT ![c] = Idle]
    BY <2>1, StatementEnds
  <2>3. OldSlotOfTeacher'
    BY <1>1, <2>2
  <2>4. SlotOfTeacher'
    BY <2>1, StatementSlotOfTeacher
  <2> QED BY <1>0, <2>3, <2>4
<1>5. CASE UNCHANGED <<lessons, call>>
  BY <1>0, <1>1, <1>5 DEF SlotOfTeacher
<1> QED BY <1>2, <1>3, <1>4, <1>5 DEF Next, Publish, vars

(* A lesson never sits in the slot of another teacher, whatever commands   *)
(* clients use.                                                            *)
THEOREM SlotsStayWithTheirTeacher == Spec => []SlotOfTeacher
<1>1. Init => OwnerInv
  BY InitTypeOK DEF Init, OwnerInv, SlotOfTeacher, OldSlotOfTeacher
<1>2. OwnerInv => SlotOfTeacher
  BY DEF OwnerInv
<1> QED BY <1>1, <1>2, NextOwnerInv, PTL DEF Spec

-----------------------------------------------------------------------------
(* Billing: lesson-service with the stream and finance-service behind it.  *)
(* What finance-service assumes of its constants holds here.               *)

FinanceFacts == INSTANCE FinanceProofs WITH
  Event <- [id: 1..MaxEvents, type: EventType, lesson: LessonId,
            previous: LessonStatus],
  Lesson <- LessonId, Receipt <- {}, Manual <- {}, Amount <- Price,
  outbox <- financeOutbox, overlapped <- FALSE

LEMMA PriceType == Price \in [LessonId -> Int]
BY QuoteAssumption DEF Price

LEMMA FinanceAssumed ==
  /\ Price \in [LessonId \cup {} \cup {} -> Int]
  /\ [id: 1..MaxEvents, type: EventType, lesson: LessonId,
      previous: LessonStatus] \cap {} = {}
  /\ \A e \in [id: 1..MaxEvents, type: EventType, lesson: LessonId,
               previous: LessonStatus] : e.lesson \in LessonId
<1>1. LessonId \cup {} \cup {} = LessonId
  OBVIOUS
<1> QED BY <1>1, PriceType

LEMMA SameSums ==
  ASSUME NEW f, NEW n \in Nat
  PROVE  FinanceDb!PartialSum(f, n) = FinanceFacts!PartialSum(f, n)
BY SMT DEF FinanceDb!PartialSum, FinanceFacts!PartialSum

(* The facts of the two services that are needed here.                     *)
LEMMA SumStep ==
  ASSUME NEW f, NEW n \in Nat
  PROVE  /\ FinanceDb!PartialSum(f, 0) = 0
         /\ FinanceDb!PartialSum(f, n + 1) = FinanceDb!PartialSum(f, n) + f[n + 1]
<1>1. 0 \in Nat /\ n + 1 \in Nat
  OBVIOUS
<1>2. /\ FinanceFacts!PartialSum(f, 0) = 0
      /\ FinanceFacts!PartialSum(f, n + 1) = FinanceFacts!PartialSum(f, n) + f[n + 1]
  BY FinanceAssumed, FinanceFacts!PartialSumStep
<1> QED BY <1>1, <1>2, SameSums

LEMMA SumSame ==
  ASSUME NEW f, NEW g, NEW n \in Nat, \A i \in 1..n : f[i] = g[i]
  PROVE  FinanceDb!PartialSum(f, n) = FinanceDb!PartialSum(g, n)
<1>1. FinanceFacts!PartialSum(f, n) = FinanceFacts!PartialSum(g, n)
  BY FinanceAssumed, FinanceFacts!PartialSumSame
<1> QED BY <1>1, SameSums

LEMMA Elsewhere ==
  ASSUME NEW p \in Proc, Redeliver(p) \/ DeliverNext(p) \/ HandlerStep(p) \/ Crash(p)
  PROVE  UNCHANGED vars
BY DEF Redeliver, DeliverNext, Deliver, HandlerStep, Crash

LEMMA LessonNext ==
  ASSUME [BillingNext]_billingVars
  PROVE  [Next]_vars
<1>1. CASE LessonStep
  <2>1. CreateStep \/ ReadStep \/ StatementStep
    BY <1>1, TimesAssumption DEF LessonStep, CreateStep
  <2> QED BY <2>1 DEF Next
<1>2. CASE PublishPending
  BY <1>2 DEF PublishPending, Next
<1>3. CASE UNCHANGED vars
  BY <1>3
<1> QED BY <1>1, <1>2, <1>3, Elsewhere DEF BillingNext, billingVars

(* What lesson-service does is not touched by the stream behind it: with   *)
(* the publisher, the redeliveries, the handlers of finance-service and    *)
(* their crashes it is still the service of module Lesson.                 *)
THEOREM LessonsImplemented == BillingSpec => Spec
<1>1. BillingInit => Init
  BY DEF BillingInit
<1>2. [BillingNext]_billingVars => [Next]_vars
  BY LessonNext
<1> QED BY <1>1, <1>2, PTL DEF BillingSpec, Spec

(* The events emitted so far charge a lesson exactly while it is           *)
(* completed, unless it has relapsed, whatever finance-service has handled *)
(* of them.                                                                *)
THEOREM BilledExactly == BillingSpec => []OwedIffCompleted
BY LessonsImplemented, OwedExactly, PTL

-----------------------------------------------------------------------------
(* The stream.  Events published and events still in the outbox of         *)
(* lesson-service are one sequence; publishing an event moves it from one  *)
(* to the other.                                                           *)

Total == Len(topic) + Len(outbox)
At(i) == IF i <= Len(topic) THEN topic[i] ELSE outbox[i - Len(topic)]
Completes(i, l) == At(i).lesson = l /\ At(i).type = "lesson.completed"

(* The first completion of a lesson is charged; one of a lesson that has   *)
(* been scheduled again finds the charge.                                  *)
First(i) ==
  /\ At(i).type = "lesson.completed"
  /\ \A j \in 1..(i - 1) : ~Completes(j, At(i).lesson)

(* How often the i-th event puts the price of its lesson into the ledger.  *)
Effect(i) ==
  IF First(i) \/ At(i).type = "lesson.restored" THEN 1
  ELSE IF At(i).type = "lesson.cancelled" /\ At(i).previous = "completed" THEN -1
  ELSE 0

(* How often the price of lesson l stands in a ledger that has applied the *)
(* first n events.                                                         *)
Effects(l) == [i \in 1..Total |-> IF At(i).lesson = l THEN Effect(i) ELSE 0]
Told(l, n) == FinanceDb!PartialSum(Effects(l), n)

TopicEvent == [id: Nat, type: EventType, lesson: LessonId,
               previous: LessonStatus]

StreamType ==
  /\ topic \in Seq(TopicEvent)
  /\ \A i \in DOMAIN topic : topic[i].id = i

StreamInv ==
  /\ OwedInv
  /\ StreamType
  /\ \A l \in LessonId : \A n \in 0..Total : Told(l, n) \in Int
  /\ \A l \in LessonId : \A n \in 0..Total : Told(l, n) <= 1
  /\ \A l \in LessonId \ relapsed : \A n \in 0..Total : Told(l, n) \in {0, 1}
  /\ \A l \in LessonId : Told(l, Total) = owed[l]
  /\ \A l \in LessonId : lessons[l].completedAt <=> \E i \in 1..Total : Completes(i, l)

LEMMA ToldIs ==
  ASSUME NEW l, NEW n
  PROVE  /\ Told(l, n) = FinanceDb!PartialSum(Effects(l), n)
         /\ Told(l, n)' = FinanceDb!PartialSum(Effects(l)', n)
BY DEF Told, FinanceDb!PartialSum

LEMMA Lengths ==
  ASSUME StreamInv
  PROVE  /\ outbox \in Seq(Event) /\ topic \in Seq(TopicEvent)
         /\ Len(topic) \in Nat /\ Len(outbox) \in Nat
         /\ Total \in Nat /\ Total = Len(topic) + Len(outbox)
         /\ DOMAIN topic = 1..Len(topic)
         /\ \A i \in DOMAIN topic : i \in 1..Total /\ At(i) = topic[i]
<1>1. outbox \in Seq(Event)
  BY DEF StreamInv, OwedInv, TypeOK
<1>2. topic \in Seq(TopicEvent)
  BY DEF StreamInv, StreamType
<1> QED BY <1>1, <1>2 DEF Total, At

SameEvent(e, f) == e.type = f.type /\ e.lesson = f.lesson /\ e.previous = f.previous

(* As long as the stream only grows, its events keep their effect ...      *)
LEMMA EffectKept ==
  ASSUME StreamInv, \A i \in 1..Total : SameEvent(At(i)', At(i)), NEW i \in 1..Total
  PROVE  (First(i)' <=> First(i)) /\ Effect(i)' = Effect(i)
<1>1. \A j \in 1..(i - 1) : j \in 1..Total
  BY Lengths
<1>2. SameEvent(At(i)', At(i)) /\ \A j \in 1..(i - 1) : SameEvent(At(j)', At(j))
  BY <1>1
<1>3. \A j \in 1..(i - 1) : \A l : Completes(j, l)' <=> Completes(j, l)
  BY <1>2 DEF Completes, SameEvent
<1>4. First(i)' <=> First(i)
  <2> DEFINE l == At(i).lesson
  <2>1. First(i) <=> At(i).type = "lesson.completed" /\ \A j \in 1..(i - 1) : ~Completes(j, l)
    BY DEF First
  <2>2. First(i)' <=> At(i).type = "lesson.completed" /\ \A j \in 1..(i - 1) : ~Completes(j, l)'
    BY <1>2 DEF First, Completes, SameEvent
  <2> SUFFICES ASSUME NEW m, m = l PROVE First(i)' <=> First(i)
    OBVIOUS
  <2>3. \A j \in 1..(i - 1) : Completes(j, l)' <=> Completes(j, m)'
    BY <1>2 DEF SameEvent, Completes
  <2> HIDE DEF l
  <2>4. \A j \in 1..(i - 1) : Completes(j, l) <=> Completes(j, m)
    OBVIOUS
  <2> QED BY <1>3, <2>1, <2>2, <2>3, <2>4
<1> QED BY <1>2, <1>4 DEF Effect, SameEvent

(* ... and what it has told stays told.                                    *)
LEMMA ToldKept ==
  ASSUME StreamInv, Total' \in Nat, Total <= Total',
         \A i \in 1..Total : SameEvent(At(i)', At(i))
  PROVE  \A l : \A n \in 0..Total : Told(l, n)' = Told(l, n)
<1> SUFFICES ASSUME NEW l, NEW n \in 0..Total PROVE Told(l, n)' = Told(l, n)
  OBVIOUS
<1>1. Total \in Nat
  BY Lengths
<1> DEFINE f == Effects(l)
           g == Effects(l)'
<1>2. ASSUME NEW i \in 1..n PROVE f[i] = g[i]
  <2>1. i \in 1..Total /\ i \in 1..Total'
    BY <1>1
  <2>2. SameEvent(At(i)', At(i))
    BY <2>1
  <2>3. Effect(i)' = Effect(i)
    BY <2>1, EffectKept
  <2>4. f[i] = IF At(i).lesson = l THEN Effect(i) ELSE 0
    BY <2>1 DEF Effects
  <2>5. g[i] = IF At(i)'.lesson = l THEN Effect(i)' ELSE 0
    BY <2>1 DEF Effects
  <2> QED BY <2>2, <2>3, <2>4, <2>5 DEF SameEvent
<1> HIDE DEF f, g
<1>3. n \in Nat
  BY <1>1
<1>4. FinanceDb!PartialSum(f, n) = FinanceDb!PartialSum(g, n)
  BY <1>2, <1>3, SumSame
<1> QED BY <1>4, ToldIs DEF f, g

(* What an event adds to what is told.                                     *)
LEMMA ToldNext ==
  ASSUME StreamInv, NEW l, NEW n \in 1..Total
  PROVE  Told(l, n) = Told(l, n - 1) + (IF At(n).lesson = l THEN Effect(n) ELSE 0)
<1>1. n - 1 \in Nat /\ (n - 1) + 1 = n
  BY Lengths
<1> DEFINE m == n - 1
           f == Effects(l)
<1>2. f[n] = IF At(n).lesson = l THEN Effect(n) ELSE 0
  BY DEF Effects
<1> HIDE DEF m, f
<1>3. m \in Nat /\ m + 1 = n
  BY <1>1 DEF m
<1>4. FinanceDb!PartialSum(f, m + 1) = FinanceDb!PartialSum(f, m) + f[m + 1]
  BY <1>3, SumStep
<1> QED BY <1>2, <1>3, <1>4, ToldIs DEF m, f

LEMMA ToldNextAfter ==
  ASSUME Total' \in Nat, NEW l, NEW n \in Nat, n + 1 <= Total'
  PROVE  Told(l, n + 1)' = Told(l, n)' + (IF At(n + 1)'.lesson = l THEN Effect(n + 1)' ELSE 0)
<1> DEFINE f == Effects(l)'
<1>1. f[n + 1] = IF At(n + 1)'.lesson = l THEN Effect(n + 1)' ELSE 0
  <2>1. n + 1 \in 1..Total'
    OBVIOUS
  <2> QED BY <2>1 DEF Effects
<1> HIDE DEF f
<1>2. FinanceDb!PartialSum(f, n + 1) = FinanceDb!PartialSum(f, n) + f[n + 1]
  BY SumStep
<1>3. Told(l, n + 1)' = FinanceDb!PartialSum(f, n + 1) /\ Told(l, n)' = FinanceDb!PartialSum(f, n)
  BY DEF Told, FinanceDb!PartialSum, f
<1> QED BY <1>1, <1>2, <1>3

(* The step of an event of lesson l that a command writes.                 *)
LEMMA Spoken ==
  ASSUME StreamInv, NEW type \in EventType, NEW l \in LessonId,
         NEW previous \in LessonStatus, Says(type, l, previous),
         UNCHANGED topic, NEW n, n = Total + 1
  PROVE  /\ n \in Nat /\ Total' = n
         /\ \A i \in 1..Total : At(i)' = At(i)
         /\ At(n)' = [type |-> type, lesson |-> l, previous |-> previous]
         /\ Effect(n)' \in {-1, 0, 1}
         /\ \A m \in LessonId : owed'[m] = owed[m] + (IF m = l THEN Effect(n)' ELSE 0)
<1> DEFINE e == [type |-> type, lesson |-> l, previous |-> previous]
<1>1. /\ outbox' = Append(outbox, e)
      /\ owed' = [owed EXCEPT ![l] = @ + ChargeEffect(e, lessons[l].completedAt)]
  BY DEF Says, Emit
<1>2. /\ e.type = type /\ e.lesson = l /\ e.previous = previous
      /\ e.type \in EventType
  OBVIOUS
<1>3. owed \in [LessonId -> Int]
  BY DEF StreamInv, OwedInv, TypeOK
<1> HIDE DEF e
<1>4. n \in Nat /\ Total' = n
  BY <1>1, Lengths DEF Total
<1>5. \A i \in 1..Total : At(i)' = At(i)
  BY <1>1, Lengths DEF At, Total
<1>6. At(n)' = e
  <2>1. outbox'[Len(outbox) + 1] = e
    BY <1>1, Lengths
  <2>2. n - Len(topic) = Len(outbox) + 1 /\ ~ (n <= Len(topic))
    BY <1>4, Lengths
  <2> QED BY <2>1, <2>2 DEF At
<1>7. First(n)' <=> type = "lesson.completed" /\ ~lessons[l].completedAt
  <2>1. First(n)' <=> type = "lesson.completed" /\ \A j \in 1..(n - 1) : ~Completes(j, l)'
    BY <1>2, <1>6 DEF First, Completes
  <2>2. \A j \in 1..Total : Completes(j, l)' <=> Completes(j, l)
    BY <1>5 DEF Completes
  <2>3. n - 1 = Total
    BY Lengths
  <2>4. lessons[l].completedAt <=> \E j \in 1..Total : Completes(j, l)
    BY DEF StreamInv
  <2> QED BY <2>1, <2>2, <2>3, <2>4
<1>8. Effect(n)' = ChargeEffect(e, lessons[l].completedAt) /\ Effect(n)' \in {-1, 0, 1}
  BY <1>2, <1>6, <1>7 DEF ChargeEffect, Effect, EventType
<1>9. \A m \in LessonId : owed'[m] = owed[m] + (IF m = l THEN Effect(n)' ELSE 0)
  <2> DEFINE c == ChargeEffect(e, lessons[l].completedAt)
  <2>1. c \in Int /\ owed' = [owed EXCEPT ![l] = @ + c]
    BY <1>1, <1>8
  <2> HIDE DEF c
  <2>2. \A m \in LessonId : owed'[m] = owed[m] + (IF m = l THEN c ELSE 0)
    BY <1>3, <2>1
  <2> QED BY <1>8, <2>2 DEF c
<1> QED BY <1>4, <1>5, <1>6, <1>8, <1>9 DEF e

LEMMA LessonInv ==
  ASSUME StreamInv, [BillingNext]_billingVars
  PROVE  OwedInv'
BY LessonNext, NextOwedInv DEF StreamInv

LEMMA LessonSays ==
  ASSUME StreamInv, LessonStep
  PROVE  \/ SaysNothing
         \/ \E type \in EventType, l \in LessonId, previous \in LessonStatus :
              Says(type, l, previous)
<1>1. CreateStep \/ ReadStep \/ StatementStep
  BY TimesAssumption DEF LessonStep, CreateStep
<1>2. OwedInv
  BY DEF StreamInv
<1> QED BY <1>1, <1>2, StepSays

(* A step that says nothing new.                                           *)
LEMMA StreamQuiet ==
  ASSUME StreamInv, OwedInv', StreamType',
         Total' = Total, \A i \in 1..Total : SameEvent(At(i)', At(i)),
         UNCHANGED <<owed, relapsed>>,
         \A l \in LessonId : lessons'[l].completedAt = lessons[l].completedAt
  PROVE  StreamInv'
<1>1. \A l : \A n \in 0..Total : Told(l, n)' = Told(l, n)
  BY Lengths, ToldKept
<1>2. \A l : Told(l, Total)' = Told(l, Total)
  <2> SUFFICES ASSUME NEW l, NEW n, n = Total
               PROVE  Told(l, n)' = Told(l, n) /\ Told(l, Total)' = Told(l, n)'
    OBVIOUS
  <2>1. n \in 0..Total
    BY Lengths
  <2> QED BY <1>1, <2>1 DEF Told
<1>3. \A l : \A i \in 1..Total : Completes(i, l)' <=> Completes(i, l)
  BY DEF Completes, SameEvent
<1> QED BY <1>1, <1>2, <1>3 DEF StreamInv

LEMMA StreamSpoken ==
  ASSUME StreamInv, OwedInv', NEW type \in EventType, NEW l \in LessonId,
         NEW previous \in LessonStatus, Says(type, l, previous),
         UNCHANGED topic
  PROVE  StreamInv'
<1> DEFINE k == Total
<1> SUFFICES ASSUME NEW n, n = k + 1 PROVE StreamInv'
  OBVIOUS
<1>1. /\ n \in Nat /\ Total' = n
      /\ \A i \in 1..k : At(i)' = At(i)
      /\ At(n)' = [type |-> type, lesson |-> l, previous |-> previous]
      /\ \A m \in LessonId : owed'[m] = owed[m] + (IF m = l THEN Effect(n)' ELSE 0)
  BY Spoken
<1>2. \A m : \A i \in 0..k : Told(m, i)' = Told(m, i)
  BY <1>1, Lengths, ToldKept DEF SameEvent
<1>3. StreamType'
  BY DEF StreamInv, StreamType
<1>4. ASSUME NEW m \in LessonId PROVE Told(m, n)' = owed'[m]
  <2> SUFFICES ASSUME NEW j, j = k PROVE Told(m, n)' = owed'[m]
    OBVIOUS
  <2>1. j \in Nat /\ n = j + 1 /\ j \in 0..k
    BY Lengths
  <2>2. Told(m, j + 1)' = Told(m, j)' + (IF At(j + 1)'.lesson = m THEN Effect(j + 1)' ELSE 0)
    BY <1>1, <2>1, ToldNextAfter
  <2>3. Told(m, n)' = Told(m, j)' + (IF m = l THEN Effect(n)' ELSE 0)
    BY <1>1, <2>1, <2>2
  <2>4. Told(m, j)' = Told(m, j) /\ Told(m, j) = owed[m]
    BY <1>2, <2>1 DEF StreamInv
  <2> QED BY <1>1, <2>3, <2>4
<1>5. \A m \in LessonId : owed'[m] \in Int
  BY DEF OwedInv, TypeOK
<1>6. /\ \A m \in LessonId : owed'[m] <= 1
      /\ \A m \in LessonId \ relapsed' : owed'[m] \in {0, 1}
  BY <1>5 DEF OwedInv, OwedIffCompleted
<1>7. \A i \in 0..n : i \in 0..k \/ i = n
  BY <1>1, Lengths
<1>8. \A m \in LessonId : \A i \in 0..n : Told(m, i)' \in Int /\ Told(m, i)' <= 1
  BY <1>2, <1>4, <1>5, <1>6, <1>7 DEF StreamInv
<1>9. \A m \in LessonId \ relapsed' : \A i \in 0..n : Told(m, i)' \in {0, 1}
  <2>1. relapsed \subseteq relapsed'
    BY DEF Says
  <2> QED BY <1>2, <1>4, <1>6, <1>7, <2>1 DEF StreamInv
<1>10. \A m \in LessonId : Told(m, Total)' = owed'[m]
  <2>1. \A m : Told(m, Total)' = Told(m, n)'
    BY <1>1 DEF Told
  <2> QED BY <1>4, <2>1
<1>11. \A m \in LessonId : \A i \in 1..k : Completes(i, m)' <=> Completes(i, m)
  BY <1>1 DEF Completes
<1>12. \A m \in LessonId : Completes(n, m)' <=> m = l /\ type = "lesson.completed"
  BY <1>1 DEF Completes
<1>13. \A m \in LessonId : lessons'[m].completedAt <=>
         lessons[m].completedAt \/ (m = l /\ type = "lesson.completed")
  BY DEF Says
<1>14. \A i : i \in 1..n <=> i \in 1..k \/ i = n
  <2>1. k \in Nat
    BY Lengths
  <2> HIDE DEF k
  <2> QED BY <2>1
<1>15. \A m \in LessonId : lessons[m].completedAt <=> \E i \in 1..k : Completes(i, m)
  <2>1. ASSUME NEW m \in LessonId
        PROVE  lessons[m].completedAt <=> \E i \in 1..Total : Completes(i, m)
    BY <2>1 DEF StreamInv
  <2> QED BY <2>1
<1> HIDE DEF k
<1>16. ASSUME NEW m \in LessonId
       PROVE  lessons'[m].completedAt <=> \E i \in 1..n : Completes(i, m)'
  <2>1. (\E i \in 1..n : Completes(i, m)')
          <=> (\E i \in 1..k : Completes(i, m)') \/ Completes(n, m)'
    BY <1>14
  <2>2. (\E i \in 1..k : Completes(i, m)') <=> \E i \in 1..k : Completes(i, m)
    BY <1>11, <1>16
  <2> QED BY <1>12, <1>13, <1>15, <1>16, <2>1, <2>2
<1> QED BY <1>1, <1>3, <1>8, <1>9, <1>10, <1>16 DEF StreamInv

(* Publishing moves the oldest event.                                      *)
LEMMA Published ==
  ASSUME StreamInv, PublishPending
  PROVE  /\ Total' = Total
         /\ \A i \in 1..Total : SameEvent(At(i)', At(i))
         /\ StreamType'
         /\ Len(topic') = Len(topic) + 1 /\ Len(topic) + 1 \in 1..Total
         /\ \A i \in DOMAIN topic : topic'[i] = topic[i]
<1> DEFINE e == Head(outbox)
           entry == [id |-> Len(topic) + 1, type |-> e.type, lesson |-> e.lesson,
                     previous |-> e.previous]
<1>1. /\ outbox # <<>> /\ outbox' = Tail(outbox)
      /\ topic' = Append(topic, entry)
  BY DEF PublishPending, Publish
<1>2. e \in Event /\ e = outbox[1]
  BY <1>1, Lengths
<1>3. entry \in TopicEvent /\ SameEvent(entry, e) /\ entry.id = Len(topic) + 1
  BY <1>2, Lengths DEF TopicEvent, Event, SameEvent
<1> HIDE DEF entry, e
<1>4. /\ Len(topic') = Len(topic) + 1
      /\ \A i \in 1..Len(topic) : topic'[i] = topic[i]
      /\ topic'[Len(topic) + 1] = entry
      /\ topic' \in Seq(TopicEvent)
  BY <1>1, <1>3, Lengths
<1>5. /\ Len(outbox') = Len(outbox) - 1 /\ Len(outbox) >= 1
      /\ \A i \in 1..(Len(outbox) - 1) : outbox'[i] = outbox[i + 1]
  BY <1>1, Lengths
<1>6. Total' = Total /\ Len(topic) + 1 \in 1..Total
  BY <1>4, <1>5, Lengths DEF Total
<1>7. StreamType'
  <2>1. DOMAIN topic' = 1..(Len(topic) + 1)
    BY <1>4, Lengths
  <2>2. \A i \in DOMAIN topic : topic[i].id = i
    BY DEF StreamInv, StreamType
  <2>3. \A i \in DOMAIN topic' : topic'[i].id = i
    BY <1>3, <1>4, <2>1, <2>2, Lengths
  <2> QED BY <1>4, <2>3 DEF StreamType
<1>8. ASSUME NEW i \in 1..Total PROVE SameEvent(At(i)', At(i))
  <2>1. CASE i <= Len(topic)
    <3>1. At(i) = topic[i] /\ At(i)' = topic'[i] /\ topic'[i] = topic[i]
      BY <1>4, <2>1, Lengths DEF At
    <3> QED BY <3>1 DEF SameEvent
  <2>2. CASE i = Len(topic) + 1
    <3>1. At(i) = e /\ At(i)' = entry
      BY <1>2, <1>4, <2>2, Lengths DEF At
    <3> QED BY <1>3, <3>1
  <2>3. CASE i > Len(topic) + 1
    <3>1. i - Len(topic) - 1 \in 1..(Len(outbox) - 1)
      BY <2>3, Lengths
    <3>2. At(i) = outbox[i - Len(topic)]
      BY <2>3, Lengths DEF At
    <3>3. At(i)' = outbox'[i - (Len(topic) + 1)]
      BY <1>4, <2>3, Lengths DEF At
    <3>4. i - (Len(topic) + 1) = i - Len(topic) - 1 /\ (i - Len(topic) - 1) + 1 = i - Len(topic)
      BY Lengths
    <3>5. At(i)' = At(i)
      BY <1>5, <3>1, <3>2, <3>3, <3>4
    <3> QED BY <3>5 DEF SameEvent
  <2> QED BY <2>1, <2>2, <2>3, Lengths
<1> QED BY <1>4, <1>6, <1>7, <1>8, Lengths

(* Every step extends the stream, and keeps the topic it has.              *)
Extends ==
  /\ Total' \in Nat /\ Total <= Total'
  /\ \A i \in 1..Total : SameEvent(At(i)', At(i))

LEMMA SameStream ==
  ASSUME StreamInv, UNCHANGED <<topic, outbox>>
  PROVE  Total' = Total /\ StreamType' /\ \A i \in 1..Total : SameEvent(At(i)', At(i))
BY DEF Total, At, SameEvent, StreamInv, StreamType

LEMMA NextStreamInv ==
  ASSUME StreamInv, [BillingNext]_billingVars
  PROVE  StreamInv' /\ Extends
<1>1. OwedInv'
  BY LessonInv
<1>2. ASSUME UNCHANGED <<topic, outbox, owed, relapsed>>,
             \A l \in LessonId : lessons'[l].completedAt = lessons[l].completedAt
      PROVE  StreamInv' /\ Extends
  <2>1. Total' = Total /\ StreamType' /\ \A i \in 1..Total : SameEvent(At(i)', At(i))
    BY <1>2, SameStream
  <2> QED BY <1>1, <1>2, <2>1, StreamQuiet, Lengths DEF Extends
<1>3. CASE LessonStep
  <2>1. UNCHANGED topic
    BY <1>3 DEF LessonStep
  <2>2. CASE SaysNothing
    BY <1>2, <2>1, <2>2 DEF SaysNothing
  <2>3. ASSUME NEW type \in EventType, NEW l \in LessonId,
               NEW previous \in LessonStatus, Says(type, l, previous)
        PROVE  StreamInv' /\ Extends
    <3>1. StreamInv'
      BY <1>1, <2>1, <2>3, StreamSpoken
    <3>2. Total' = Total + 1 /\ \A i \in 1..Total : At(i)' = At(i)
      BY <2>1, <2>3, Spoken
    <3> QED BY <3>1, <3>2, Lengths DEF Extends, SameEvent
  <2> QED BY <1>3, <2>2, <2>3, LessonSays
<1>4. CASE PublishPending
  <2>1. UNCHANGED <<lessons, owed, relapsed>>
    BY <1>4 DEF PublishPending, Publish
  <2> QED BY <1>1, <1>4, <2>1, Published, StreamQuiet, Lengths DEF Extends
<1>5. ASSUME NEW p \in Proc, Redeliver(p) \/ DeliverNext(p) \/ HandlerStep(p) \/ Crash(p)
      PROVE  StreamInv' /\ Extends
  <2>1. UNCHANGED vars /\ UNCHANGED topic
    BY <1>5 DEF Redeliver, DeliverNext, Deliver, HandlerStep, Crash
  <2> QED BY <1>2, <2>1 DEF vars
<1>6. CASE UNCHANGED billingVars
  BY <1>2, <1>6 DEF billingVars, vars
<1> QED BY <1>3, <1>4, <1>5, <1>6 DEF BillingNext

LEMMA InitStreamInv == BillingInit => StreamInv
<1> SUFFICES ASSUME BillingInit PROVE StreamInv
  OBVIOUS
<1>1. OwedInv
  <2>1. Init => OwedInv
    BY InitOwedInv
  <2> QED BY <2>1 DEF BillingInit
<1>2. topic = <<>> /\ outbox = <<>> /\ owed = [l \in LessonId |-> 0]
  BY DEF BillingInit, Init
<1>3. Total = 0
  BY <1>2 DEF Total
<1>4. \A l : Told(l, 0) = 0
  BY SumStep DEF Told
<1>5. StreamType
  BY <1>2 DEF StreamType
<1>6. \A l \in LessonId : ~lessons[l].completedAt
  BY DEF BillingInit, Init
<1> QED BY <1>1, <1>2, <1>3, <1>4, <1>5, <1>6 DEF StreamInv

-----------------------------------------------------------------------------
(* The books.  Events are handled in the order of the topic; at most the   *)
(* one after the offset has had its effect, a charge not yet marked.       *)

Charged(l) == FinanceDb!Rows("charge", l) # {}

(* The events a handler may work on.                                       *)
Seen == {topic[i] : i \in DOMAIN topic \cap 1..(offset + 1)}

JobSound(job) ==
  \/ job = FinanceDb!Idle
  \/ /\ job \in [op: {"charge", "mark", "correct"}, ref: Seen, snapshot: Int]
     /\ job.op = "correct" => FinanceDb!Corrects(job.ref)
     /\ job.op # "correct" => FinanceDb!Charges(job.ref)
     /\ job.op = "mark" => Charged(job.ref.lesson)

(* How far the ledger is.                                                  *)
Ahead == /\ offset < Len(topic)
         /\ First(offset + 1)
         /\ Charged(topic[offset + 1].lesson)
Front == IF Ahead THEN offset + 1 ELSE offset

BooksType ==
  /\ offset \in 0..Len(topic)
  /\ \E S : ledger \in Seq(S)
  /\ task = [p \in Proc |-> task[p]]

(* The ledger of lesson l is what the first n events have told.            *)
DebtIs(l, n) == Debt(l) = Told(l, n) * Price[l]

BooksInv ==
  /\ BooksType
  /\ \A p \in Proc : JobSound(task[p])
  /\ \A e \in processed : \E i \in 1..offset : e = topic[i]
  /\ \A i \in 1..offset :
       /\ FinanceDb!Charges(topic[i]) => Charged(topic[i].lesson)
       /\ FinanceDb!Corrects(topic[i]) => topic[i] \in processed
  /\ \A l \in LessonId : Charged(l) =>
       \E i \in DOMAIN topic \cap 1..(offset + 1) : Completes(i, l)
  /\ \A l \in LessonId : DebtIs(l, Front)

BillingInv == StreamInv /\ BooksInv

LEMMA BooksFacts ==
  ASSUME BillingInv
  PROVE  /\ offset \in Nat /\ offset <= Len(topic) /\ Len(topic) \in Nat /\ Len(topic) <= Total
         /\ Total \in Nat /\ DOMAIN topic = 1..Len(topic)
         /\ Front \in 0..Total /\ (Ahead => offset + 1 \in DOMAIN topic)
         /\ \A i \in DOMAIN topic : topic[i].id = i /\ topic[i].lesson \in LessonId
         /\ \A i \in DOMAIN topic : i \in 1..Total /\ At(i) = topic[i]
         /\ \A i \in DOMAIN topic : \A l :
              Completes(i, l) <=> topic[i].lesson = l /\ FinanceDb!Charges(topic[i])
         /\ \A i \in DOMAIN topic : First(i) => FinanceDb!Charges(topic[i])
<1>1. /\ Len(topic) \in Nat /\ Len(topic) <= Total /\ Total \in Nat /\ DOMAIN topic = 1..Len(topic)
      /\ \A i \in DOMAIN topic : i \in 1..Total /\ At(i) = topic[i]
  BY Lengths DEF BillingInv
<1>2. offset \in Nat /\ offset <= Len(topic)
  BY <1>1 DEF BillingInv, BooksInv, BooksType
<1>3. Front \in 0..Total /\ (Ahead => offset + 1 \in DOMAIN topic)
  BY <1>1, <1>2 DEF Front, Ahead
<1>4. \A i \in DOMAIN topic : topic[i].id = i /\ topic[i].lesson \in LessonId
  <2>1. topic \in Seq(TopicEvent) /\ \A i \in DOMAIN topic : topic[i].id = i
    BY DEF BillingInv, StreamInv, StreamType
  <2>2. \A i \in DOMAIN topic : topic[i] \in TopicEvent
    BY <2>1
  <2>3. \A e \in TopicEvent : e.lesson \in LessonId
    BY DEF TopicEvent
  <2> QED BY <2>1, <2>2, <2>3
<1>5. \A i \in DOMAIN topic : \A l :
        Completes(i, l) <=> topic[i].lesson = l /\ FinanceDb!Charges(topic[i])
  BY <1>1 DEF Completes, FinanceDb!Charges
<1>6. \A i \in DOMAIN topic : First(i) => FinanceDb!Charges(topic[i])
  BY <1>1 DEF First, FinanceDb!Charges
<1> QED BY <1>1, <1>2, <1>3, <1>4, <1>5, <1>6

(* A lesson that is charged has been completed by an event already seen:   *)
(* no event further on is its first completion.                            *)
LEMMA NotAhead ==
  ASSUME BillingInv, NEW k \in DOMAIN topic, k > offset + 1, First(k)
  PROVE  ~Charged(topic[k].lesson)
<1> SUFFICES ASSUME Charged(topic[k].lesson) PROVE FALSE
  OBVIOUS
<1> DEFINE l == topic[k].lesson
<1>1. l \in LessonId /\ At(k) = topic[k] /\ k \in 1..Total
  BY BooksFacts
<1>2. PICK i \in DOMAIN topic \cap 1..(offset + 1) : Completes(i, l)
  BY <1>1 DEF BillingInv, BooksInv
<1>3. i \in 1..(k - 1)
  BY <1>1, <1>2, BooksFacts
<1> QED BY <1>1, <1>2, <1>3 DEF First

(* The first completion is the only event that charges, if none before the *)
(* offset has charged the lesson.                                          *)
LEMMA FirstWhenUncharged ==
  ASSUME BillingInv, offset < Len(topic), NEW n, n = offset + 1, NEW e, e = topic[n],
         FinanceDb!Charges(e), ~Charged(e.lesson)
  PROVE  First(n)
<1>1. n \in DOMAIN topic /\ At(n) = e
  BY BooksFacts
<1>2. At(n).type = "lesson.completed"
  BY <1>1 DEF FinanceDb!Charges
<1>3. ASSUME NEW j \in 1..(n - 1), Completes(j, At(n).lesson) PROVE FALSE
  <2>1. j \in 1..offset /\ j \in DOMAIN topic
    BY BooksFacts
  <2>2. topic[j].lesson = e.lesson /\ FinanceDb!Charges(topic[j])
    BY <1>1, <1>3, <2>1, BooksFacts
  <2>3. Charged(topic[j].lesson)
    BY <2>1, <2>2 DEF BillingInv, BooksInv
  <2> QED BY <2>2, <2>3
<1> QED BY <1>2, <1>3 DEF First

LEMMA SameLedger ==
  ASSUME UNCHANGED ledger
  PROVE  \A l : (Charged(l)' <=> Charged(l)) /\ Debt(l)' = Debt(l)
BY DEF Charged, FinanceDb!Rows, Debt, FinanceDb!PartialSum, RowOf

LEMMA LedgerAfter ==
  ASSUME BooksType, NEW row, ledger' = Append(ledger, row)
  PROVE  /\ \E S : ledger' \in Seq(S)
         /\ \A l : Charged(l)' <=> Charged(l) \/ (row.type = "charge" /\ row.ref = l)
         /\ \A l : Debt(l)' = Debt(l) + (IF RowOf(l, row) THEN row.amount ELSE 0)
<1> DEFINE n == Len(ledger)
<1>1. PICK S : ledger \in Seq(S)
  BY DEF BooksType
<1>2. ledger' \in Seq(S \cup {row})
  BY <1>1
<1>3. /\ n \in Nat /\ DOMAIN ledger = 1..n /\ DOMAIN ledger' = 1..(n + 1) /\ Len(ledger') = n + 1
      /\ ledger'[n + 1] = row /\ \A i \in 1..n : ledger'[i] = ledger[i]
  BY <1>1
<1> HIDE DEF n
<1>4. ASSUME NEW l PROVE Charged(l)' <=> Charged(l) \/ (row.type = "charge" /\ row.ref = l)
  <2>1. Charged(l) <=> \E i \in 1..n : ledger[i].type = "charge" /\ ledger[i].ref = l
    BY <1>3 DEF Charged, FinanceDb!Rows
  <2>2. Charged(l)' <=> \E i \in 1..(n + 1) : ledger'[i].type = "charge" /\ ledger'[i].ref = l
    BY <1>3 DEF Charged, FinanceDb!Rows
  <2>3. \A i : i \in 1..(n + 1) <=> i \in 1..n \/ i = n + 1
    BY <1>3
  <2> QED BY <1>3, <2>1, <2>2, <2>3
<1>5. ASSUME NEW l PROVE Debt(l)' = Debt(l) + (IF RowOf(l, row) THEN row.amount ELSE 0)
  <2> DEFINE f == [i \in DOMAIN ledger |-> IF RowOf(l, ledger[i]) THEN ledger[i].amount ELSE 0]
             g == [i \in DOMAIN ledger' |-> IF RowOf(l, ledger'[i]) THEN ledger'[i].amount ELSE 0]
  <2>1. \A i \in 1..n : f[i] = g[i]
    BY <1>3 DEF RowOf
  <2>2. g[n + 1] = IF RowOf(l, row) THEN row.amount ELSE 0
    BY <1>3 DEF RowOf
  <2>3. Debt(l) = FinanceDb!PartialSum(f, n)
    BY DEF Debt, n
  <2>4. Debt(l)' = FinanceDb!PartialSum(g, n + 1)
    BY <1>3 DEF Debt, RowOf, FinanceDb!PartialSum
  <2> HIDE DEF f, g
  <2>5. FinanceDb!PartialSum(g, n + 1) = FinanceDb!PartialSum(g, n) + g[n + 1]
    BY <1>3, SumStep
  <2>6. FinanceDb!PartialSum(f, n) = FinanceDb!PartialSum(g, n)
    BY <1>3, <2>1, SumSame
  <2> QED BY <2>2, <2>3, <2>4, <2>5, <2>6
<1> QED BY <1>2, <1>4, <1>5

(* What a handler may rely on stays so.                                    *)
Steady ==
  /\ \A e : e \in Seen => e \in Seen'
  /\ \A l : Charged(l) => Charged(l)'

LEMMA JobKept ==
  ASSUME Steady, NEW job, JobSound(job)
  PROVE  JobSound(job)'
BY DEF Steady, JobSound, FinanceDb!Idle, FinanceDb!Charges, FinanceDb!Corrects

LEMMA TasksKept ==
  ASSUME BillingInv, Steady, UNCHANGED task
  PROVE  task' = [q \in Proc |-> task'[q]] /\ \A q \in Proc : JobSound(task[q])'
<1>1. \A q \in Proc : JobSound(task[q])
  BY DEF BillingInv, BooksInv
<1>2. \A job : JobSound(job) => JobSound(job)'
  BY JobKept
<1>3. task' = [q \in Proc |-> task'[q]]
  BY DEF BillingInv, BooksInv, BooksType
<1>4. \A q \in Proc : JobSound(task[q])'
  BY <1>1, <1>2 DEF JobSound
<1> QED BY <1>3, <1>4

LEMMA TaskSet ==
  ASSUME BillingInv, Steady, NEW p \in Proc, NEW job,
         task' = [task EXCEPT ![p] = job], JobSound(job)'
  PROVE  task' = [q \in Proc |-> task'[q]] /\ \A q \in Proc : JobSound(task[q])'
<1>1. task = [q \in Proc |-> task[q]]
  BY DEF BillingInv, BooksInv, BooksType
<1>2. task' = [q \in Proc |-> IF q = p THEN job ELSE task[q]]
  BY <1>1
<1>3. \A q \in Proc : task'[q] = IF q = p THEN job ELSE task[q]
  BY <1>2
<1>4. ASSUME NEW q \in Proc, NEW mine, mine = task'[q] PROVE JobSound(mine)'
  <2>1. CASE q = p
    <3>1. mine = job
      BY <1>3, <1>4, <2>1
    <3> QED BY <3>1
  <2>2. CASE q # p
    <3>1. JobSound(mine)
      BY <1>3, <1>4, <2>2 DEF BillingInv, BooksInv
    <3> QED BY <3>1, JobKept
  <2> QED BY <2>1, <2>2
<1>5. ASSUME NEW q \in Proc PROVE JobSound(task[q])'
  BY <1>4 DEF JobSound
<1> QED BY <1>2, <1>5

(* The topic only grows, and the offset goes on by one event at most.      *)
Onward ==
  /\ \A i \in DOMAIN topic : i \in DOMAIN topic' /\ topic'[i] = topic[i]
  /\ offset' \in {offset, offset + 1}
  /\ offset' <= Len(topic') /\ offset' \in Nat /\ Len(topic') \in Nat

(* What is left to show of a step once the stream is known to grow.        *)
LEMMA BooksTurn ==
  ASSUME BillingInv, StreamInv', Extends, Onward,
         \E S : ledger' \in Seq(S),
         task' = [q \in Proc |-> task'[q]], \A q \in Proc : JobSound(task[q])',
         \A l : Charged(l) => Charged(l)',
         \A e \in processed : e \in processed',
         \A e \in processed' : e \in processed \/ \E i \in 1..offset' : e = topic'[i],
         offset' = offset + 1 =>
           /\ FinanceDb!Charges(topic'[offset']) => Charged(topic[offset].lesson)'
           /\ FinanceDb!Corrects(topic'[offset']) => topic'[offset'] \in processed',
         \A l \in LessonId : Charged(l)' /\ ~Charged(l) =>
           \E i \in DOMAIN topic' \cap 1..(offset' + 1) : Completes(i, l)',
         NEW n, n = Front', \A l \in LessonId : DebtIs(l, n)'
  PROVE  BillingInv'
<1>1. BooksType'
  BY DEF Onward, BooksType
<1>2. \A i \in 1..offset' : i \in 1..offset \/ (i = offset' /\ offset' = offset + 1)
  BY BooksFacts DEF Onward
<1>3. \A i \in 1..offset : i \in DOMAIN topic /\ i \in 1..offset' /\ topic'[i] = topic[i]
  BY BooksFacts DEF Onward
<1>4. ASSUME NEW e \in processed' PROVE \E i \in 1..offset' : e = topic'[i]
  <2>1. CASE e \in processed
    <3>1. PICK i \in 1..offset : e = topic[i]
      BY <2>1 DEF BillingInv, BooksInv
    <3> QED BY <1>3, <3>1
  <2>2. CASE e \notin processed
    BY <2>2
  <2> QED BY <2>1, <2>2
<1>5. ASSUME NEW i \in 1..offset'
      PROVE  /\ FinanceDb!Charges(topic'[i]) => Charged(topic[i].lesson)'
             /\ FinanceDb!Corrects(topic'[i]) => topic'[i] \in processed'
  <2>1. CASE i \in 1..offset
    <3> DEFINE e == topic[i]
    <3> SUFFICES ASSUME NEW f, f = topic[i]
                 PROVE  /\ FinanceDb!Charges(f) => Charged(f.lesson)'
                        /\ FinanceDb!Corrects(f) => f \in processed'
      BY <1>3, <2>1 DEF Charged, FinanceDb!Rows
    <3>1. /\ FinanceDb!Charges(f) => Charged(f.lesson)
          /\ FinanceDb!Corrects(f) => f \in processed
      BY <2>1 DEF BillingInv, BooksInv
    <3> QED BY <3>1
  <2>2. CASE i = offset' /\ offset' = offset + 1
    BY <2>2 DEF Charged, FinanceDb!Rows
  <2> QED BY <1>2, <2>1, <2>2
<1>6. ASSUME NEW l \in LessonId, Charged(l)'
      PROVE  \E i \in DOMAIN topic' \cap 1..(offset' + 1) : Completes(i, l)'
  <2>1. CASE Charged(l)
    <3>1. PICK i \in DOMAIN topic \cap 1..(offset + 1) : Completes(i, l)
      BY <2>1 DEF BillingInv, BooksInv
    <3>2. i \in DOMAIN topic' \cap 1..(offset' + 1)
      BY <3>1, BooksFacts DEF Onward
    <3>3. Completes(i, l)'
      BY <3>1, BooksFacts DEF Extends, Completes, SameEvent
    <3> QED BY <3>2, <3>3
  <2>2. CASE ~Charged(l)
    BY <1>6, <2>2
  <2> QED BY <2>1, <2>2
<1>7. \A l \in LessonId : DebtIs(l, Front)'
  BY DEF DebtIs, Told, FinanceDb!PartialSum
<1>8. \A i \in 1..offset' : /\ FinanceDb!Charges(topic'[i]) => Charged(topic[i].lesson)'
                            /\ FinanceDb!Corrects(topic'[i]) => topic'[i] \in processed'
  BY <1>5
<1> QED BY <1>1, <1>4, <1>6, <1>7, <1>8
  DEF BillingInv, BooksInv, Charged, FinanceDb!Rows, FinanceDb!Charges, FinanceDb!Corrects,
      Completes, At

LEMMA DebtKept ==
  ASSUME BillingInv, StreamInv', Extends, \A l : Debt(l)' = Debt(l),
         NEW n \in 0..Total, \A l \in LessonId : Told(l, n) = Told(l, Front)
  PROVE  \A l \in LessonId : DebtIs(l, n)'
<1>1. \A l \in LessonId : DebtIs(l, Front)
  BY DEF BillingInv, BooksInv
<1>2. \A l : \A i \in 0..Total : Told(l, i)' = Told(l, i)
  BY ToldKept DEF BillingInv, Extends
<1>3. \A l \in LessonId : DebtIs(l, n)
  BY <1>1 DEF DebtIs
<1>4. UNCHANGED Price
  BY DEF Price
<1> QED BY <1>2, <1>3, <1>4 DEF DebtIs

(* The front after the offset has passed the next event: the one behind it *)
(* has had no effect yet.                                                  *)
LEMMA FrontPassed ==
  ASSUME BillingInv, Extends, UNCHANGED topic, offset' = offset + 1, offset < Len(topic),
         \A l : Charged(l)' <=> Charged(l)
  PROVE  Front' = offset + 1
<1> SUFFICES ASSUME Ahead' PROVE FALSE
  BY DEF Front
<1> SUFFICES ASSUME NEW k, k = offset + 2 PROVE FALSE
  OBVIOUS
<1>1. k <= Len(topic) /\ k = offset' + 1
  BY BooksFacts DEF Ahead
<1>2. k \in DOMAIN topic /\ k > offset + 1 /\ k \in 1..Total
  BY <1>1, BooksFacts
<1>3. First(k)
  <2>1. First(k)'
    BY <1>1 DEF Ahead, First, At, Completes
  <2> QED BY <1>2, <2>1, EffectKept DEF BillingInv, Extends
<1>4. Charged(topic[k].lesson)
  <2> SUFFICES ASSUME NEW l, l = topic[k].lesson PROVE Charged(l)
    OBVIOUS
  <2>1. Charged(l)'
    BY <1>1 DEF Ahead, Charged, FinanceDb!Rows
  <2> QED BY <2>1
<1> QED BY <1>2, <1>3, <1>4, NotAhead

LEMMA FrontKept ==
  ASSUME BillingInv, Extends, UNCHANGED <<topic, offset>>, \A l : Charged(l)' <=> Charged(l)
  PROVE  Front' = Front
<1>1. Ahead' <=> Ahead
  <2>1. /\ Ahead => Charged(topic[offset + 1].lesson)
        /\ Ahead' => Charged(topic[offset + 1].lesson)'
    BY DEF Ahead
  <2> SUFFICES ASSUME NEW k, k = offset + 1, NEW l, l = topic[k].lesson PROVE Ahead' <=> Ahead
    OBVIOUS
  <2>2. Charged(l)' <=> Charged(l)
    OBVIOUS
  <2>3. Ahead <=> offset < Len(topic) /\ First(k) /\ Charged(l)
    BY DEF Ahead
  <2>4. Ahead' <=> offset < Len(topic) /\ First(k)' /\ Charged(l)'
    BY DEF Ahead, Charged, FinanceDb!Rows, First, At, Completes
  <2>5. offset < Len(topic) => (First(k)' <=> First(k))
    <3> HAVE offset < Len(topic)
    <3>1. k \in 1..Total
      BY BooksFacts
    <3> QED BY <3>1, EffectKept DEF BillingInv, Extends
  <2> QED BY <2>2, <2>3, <2>4, <2>5
<1> QED BY <1>1 DEF Front

-----------------------------------------------------------------------------
(* Steps that leave the ledger alone.                                      *)

LEMMA SteadyWhen ==
  ASSUME BillingInv, Onward, \A l : Charged(l) => Charged(l)'
  PROVE  Steady
<1>1. \A i \in DOMAIN topic \cap 1..(offset + 1) :
        i \in DOMAIN topic' \cap 1..(offset' + 1) /\ topic'[i] = topic[i]
  BY BooksFacts DEF Onward
<1>2. \A e \in Seen : e \in Seen'
  BY <1>1 DEF Seen
<1> QED BY <1>2 DEF Steady

(* A step of the handlers that passes no event.                            *)
LEMMA QuietBooks ==
  ASSUME BillingInv, StreamInv', Extends, UNCHANGED <<topic, offset, ledger, processed>>,
         task' = [q \in Proc |-> task'[q]], \A q \in Proc : JobSound(task[q])'
  PROVE  BillingInv'
<1>1. \A l : (Charged(l)' <=> Charged(l)) /\ Debt(l)' = Debt(l)
  BY SameLedger
<1>2. Onward
  BY BooksFacts DEF Onward
<1>3. Front' = Front /\ Front \in 0..Total
  BY <1>1, FrontKept, BooksFacts
<1>4. PICK n \in 0..Total : n = Front
  BY <1>3
<1>5. \A l \in LessonId : DebtIs(l, n)'
  BY <1>1, <1>4, DebtKept
<1>6. \E S : ledger' \in Seq(S)
  BY DEF BillingInv, BooksInv, BooksType
<1>7. n = Front' /\ offset' # offset + 1
  BY <1>3, <1>4, BooksFacts
<1> QED BY <1>1, <1>2, <1>5, <1>6, <1>7, BooksTurn

(* Nothing at all happens in finance-service.                              *)
LEMMA StillBooks ==
  ASSUME BillingInv, StreamInv', Extends, UNCHANGED <<topic, offset, financeVars>>
  PROVE  BillingInv'
<1>1. UNCHANGED <<topic, offset, ledger, processed, task>>
  BY DEF financeVars
<1>2. Steady
  BY <1>1, SameLedger, SteadyWhen, BooksFacts DEF Onward
<1> QED BY <1>1, <1>2, TasksKept, QuietBooks

LEMMA PublishBooks ==
  ASSUME BillingInv, StreamInv', Extends, PublishPending
  PROVE  BillingInv'
<1>1. UNCHANGED <<offset, ledger, processed, task>>
  BY DEF PublishPending, financeVars
<1>2. /\ Len(topic') = Len(topic) + 1 /\ Len(topic) + 1 \in 1..Total
      /\ \A i \in DOMAIN topic : topic'[i] = topic[i]
      /\ Total' = Total /\ StreamType'
  BY Published DEF BillingInv
<1>3. DOMAIN topic' = 1..(Len(topic) + 1) /\ \A i \in DOMAIN topic' : topic'[i] \in TopicEvent
  <2>1. topic' \in Seq(TopicEvent)
    BY <1>2 DEF StreamType, TopicEvent
  <2> QED BY <1>2, <2>1
<1>4. Onward
  BY <1>1, <1>2, <1>3, BooksFacts DEF Onward
<1>5. \A l : (Charged(l)' <=> Charged(l)) /\ Debt(l)' = Debt(l)
  BY <1>1, SameLedger
<1>6. Front' = Front
  <2>1. CASE offset < Len(topic)
    <3>1. topic'[offset + 1] = topic[offset + 1] /\ offset < Len(topic')
      BY <1>2, <2>1, BooksFacts
    <3> SUFFICES ASSUME NEW k, k = offset + 1, NEW l, l = topic[k].lesson PROVE Front' = Front
      OBVIOUS
    <3>2. Ahead <=> First(k) /\ Charged(l)
      BY <2>1 DEF Ahead
    <3>3. Ahead' <=> First(k)' /\ Charged(l)'
      BY <1>1, <3>1 DEF Ahead, Charged, FinanceDb!Rows, First, At, Completes
    <3>t. k \in 1..Total
      BY <2>1, BooksFacts
    <3>f. First(k)' <=> First(k)
      BY <3>t, EffectKept DEF BillingInv, Extends
    <3>4. Ahead' <=> Ahead
      BY <1>5, <3>2, <3>3, <3>f
    <3> QED BY <1>1, <3>4 DEF Front
  <2>2. CASE offset = Len(topic)
    <3>1. ~Ahead
      BY <2>2, BooksFacts DEF Ahead
    <3>2. ASSUME Ahead' PROVE FALSE
      <4> SUFFICES ASSUME NEW k, k = offset + 1, NEW l, l = topic'[offset + 1].lesson PROVE FALSE
        OBVIOUS
      <4>1. Charged(l)' /\ First(k)'
        BY <1>1, <3>2 DEF Ahead, Charged, FinanceDb!Rows, First, At, Completes
      <4>2. k \in 1..Total /\ k = Len(topic) + 1 /\ k \in DOMAIN topic' /\ k <= Len(topic')
        BY <1>2, <1>3, <2>2, BooksFacts
      <4>3. First(k)
        BY <4>1, <4>2, EffectKept DEF BillingInv, Extends
      <4>4. At(k).lesson = l
        BY <4>2 DEF Extends, SameEvent, At
      <4>5. l \in LessonId
        <5>1. topic'[offset + 1] \in TopicEvent
          BY <1>3, <4>2
        <5>2. \A e \in TopicEvent : e.lesson \in LessonId
          BY DEF TopicEvent
        <5> QED BY <5>1, <5>2
      <4>6. Charged(l)
        BY <1>5, <4>1
      <4>7. PICK i \in DOMAIN topic \cap 1..(offset + 1) : Completes(i, l)
        BY <4>5, <4>6 DEF BillingInv, BooksInv
      <4>8. i \in 1..(k - 1)
        BY <4>2, <4>7, BooksFacts
      <4> QED BY <4>3, <4>4, <4>7, <4>8 DEF First
    <3> QED BY <1>1, <3>1, <3>2 DEF Front
  <2> QED BY <2>1, <2>2, BooksFacts
<1>7. PICK n \in 0..Total : n = Front
  BY BooksFacts
<1>8. \A l \in LessonId : DebtIs(l, n)'
  BY <1>5, <1>7, DebtKept
<1>9. \E S : ledger' \in Seq(S)
  BY <1>1 DEF BillingInv, BooksInv, BooksType
<1>10. Steady
  BY <1>4, <1>5, SteadyWhen
<1>11. n = Front' /\ offset' # offset + 1
  BY <1>1, <1>6, <1>7, BooksFacts
<1> QED BY <1>1, <1>4, <1>5, <1>8, <1>9, <1>10, <1>11, TasksKept, BooksTurn

(* The next event is passed, and the ledger has what it has to have of it. *)
LEMMA PassBooks ==
  ASSUME BillingInv, StreamInv', Extends, UNCHANGED <<topic, ledger>>,
         offset' = offset + 1, offset < Len(topic),
         task' = [q \in Proc |-> task'[q]], \A q \in Proc : JobSound(task[q])',
         \A e \in processed : e \in processed',
         \A e \in processed' : e \in processed \/ e = topic[offset + 1],
         FinanceDb!Charges(topic[offset + 1]) => Charged(topic[offset + 1].lesson),
         ~FinanceDb!Corrects(topic[offset + 1])
  PROVE  BillingInv'
<1> SUFFICES ASSUME NEW n, n = offset + 1, NEW e, e = topic[n] PROVE BillingInv'
  OBVIOUS
<1>1. \A l : (Charged(l)' <=> Charged(l)) /\ Debt(l)' = Debt(l)
  BY SameLedger
<1>2. n \in DOMAIN topic /\ n \in 1..Total /\ n \in 0..Total /\ At(n) = e /\ n - 1 = offset
  BY BooksFacts
<1>3. Front' = n
  BY <1>1, FrontPassed
<1>4. Onward
  BY BooksFacts DEF Onward
<1>5. \A l \in LessonId : Told(l, n) = Told(l, Front)
  <2>1. CASE Ahead
    BY <2>1 DEF Front
  <2>2. CASE ~Ahead
    <3>1. Front = offset
      BY <2>2 DEF Front
    <3>2. ~First(n)
      BY <1>2, <2>2, BooksFacts DEF Ahead
    <3>3. Effect(n) = 0
      BY <1>2, <3>2 DEF Effect, FinanceDb!Corrects
    <3>4. \A l : Told(l, n) = Told(l, n - 1) + (IF At(n).lesson = l THEN Effect(n) ELSE 0)
      BY <1>2, ToldNext DEF BillingInv
    <3>5. \A l \in LessonId : Told(l, offset) \in Int
      BY BooksFacts DEF BillingInv, StreamInv
    <3> QED BY <1>2, <3>1, <3>3, <3>4, <3>5
  <2> QED BY <2>1, <2>2
<1>6. \A l \in LessonId : DebtIs(l, n)'
  BY <1>1, <1>2, <1>5, DebtKept
<1>7. \E S : ledger' \in Seq(S)
  BY DEF BillingInv, BooksInv, BooksType
<1>8. FinanceDb!Charges(topic'[offset']) => Charged(topic[offset].lesson)'
  <2> SUFFICES ASSUME NEW l, l = e.lesson, FinanceDb!Charges(e) PROVE Charged(topic[offset].lesson)'
    BY DEF FinanceDb!Charges
  <2>1. Charged(l)'
    BY <1>1
  <2>2. topic'[offset'].lesson = l
    OBVIOUS
  <2> QED BY <2>1, <2>2 DEF Charged, FinanceDb!Rows
<1>9. ~FinanceDb!Corrects(topic'[offset'])
  BY DEF FinanceDb!Corrects
<1>10. \A f \in processed' : f \in processed \/ \E i \in 1..offset' : f = topic'[i]
  <2>1. n \in 1..offset' /\ topic'[n] = e
    BY BooksFacts
  <2> QED BY <2>1
<1> QED BY <1>1, <1>3, <1>4, <1>6, <1>7, <1>8, <1>9, <1>10, BooksTurn

(* What the inbox holds has been passed.                                   *)
LEMMA InboxPassed ==
  ASSUME BillingInv, NEW i \in DOMAIN topic, topic[i] \in processed
  PROVE  i \in 1..offset
<1>1. PICK j \in 1..offset : topic[i] = topic[j]
  BY DEF BillingInv, BooksInv
<1>2. j \in DOMAIN topic
  BY BooksFacts
<1>3. topic[i].id = i /\ topic[j].id = j
  BY <1>2, BooksFacts
<1> QED BY <1>1, <1>3

LEMMA IgnoredBooks ==
  ASSUME BillingInv, StreamInv', Extends, NEW i \in DOMAIN topic, i \in 1..(offset + 1),
         FinanceDb!Ignored(topic[i]), Advance(i), UNCHANGED financeVars, UNCHANGED topic
  PROVE  BillingInv'
<1>1. CASE i <= offset
  <2>1. UNCHANGED offset
    BY <1>1, BooksFacts DEF Advance
  <2> QED BY <2>1, StillBooks
<1>2. CASE i = offset + 1
  <2>1. offset' = offset + 1 /\ offset < Len(topic)
    BY <1>2, BooksFacts DEF Advance
  <2>2. topic[i] \notin processed
    BY <1>2, InboxPassed, BooksFacts
  <2>3. ~FinanceDb!Charges(topic[i]) /\ ~FinanceDb!Corrects(topic[i])
    BY <2>2 DEF FinanceDb!Ignored
  <2>4. UNCHANGED <<ledger, processed, task>>
    BY DEF financeVars
  <2>5. Steady
    BY <2>1, <2>4, SameLedger, SteadyWhen, BooksFacts DEF Onward
  <2>6. task' = [q \in Proc |-> task'[q]] /\ \A q \in Proc : JobSound(task[q])'
    BY <2>4, <2>5, TasksKept
  <2> QED BY <1>2, <2>1, <2>3, <2>4, <2>6, PassBooks
<1> QED BY <1>1, <1>2, BooksFacts

(* A handler takes an event up, or drops it.                               *)
LEMMA JobBooks ==
  ASSUME BillingInv, StreamInv', Extends, UNCHANGED <<topic, offset, ledger, processed>>,
         NEW p \in Proc, NEW job, task' = [task EXCEPT ![p] = job], JobSound(job)
  PROVE  BillingInv'
<1>1. Steady
  BY SameLedger, SteadyWhen, BooksFacts DEF Onward
<1>2. JobSound(job)'
  BY <1>1, JobKept
<1>3. task' = [q \in Proc |-> task'[q]] /\ \A q \in Proc : JobSound(task[q])'
  BY <1>1, <1>2, TaskSet
<1> QED BY <1>3, QuietBooks

LEMMA DeliverBooks ==
  ASSUME BillingInv, StreamInv', Extends, NEW p \in Proc, Redeliver(p) \/ DeliverNext(p)
  PROVE  BillingInv'
<1>1. PICK i : i \in DOMAIN topic /\ i \in 1..(offset + 1) /\ Deliver(p, i)
  <2>1. \A i : Deliver(p, i) => i \in DOMAIN topic
    BY DEF Deliver
  <2> QED BY <2>1, BooksFacts DEF Redeliver, DeliverNext
<1>2. UNCHANGED topic
  BY <1>1 DEF Deliver
<1>3. CASE FinanceDb!Ignored(topic[i]) /\ Advance(i) /\ UNCHANGED financeVars
  BY <1>1, <1>2, <1>3, IgnoredBooks
<1>4. topic[i] \in Seen
  BY <1>1 DEF Seen
<1>5. CASE FinanceDb!OnLessonCompleted(p, topic[i]) /\ UNCHANGED offset
  <2> DEFINE job == [op |-> "charge", ref |-> topic[i], snapshot |-> FinanceDb!NotStarted]
  <2>1. task' = [task EXCEPT ![p] = job] /\ UNCHANGED <<ledger, processed>>
    BY <1>5 DEF FinanceDb!OnLessonCompleted, FinanceDb!Start
  <2>2. JobSound(job)
    BY <1>4, <1>5 DEF JobSound, FinanceDb!OnLessonCompleted, FinanceDb!NotStarted
  <2> HIDE DEF job
  <2> QED BY <1>2, <1>5, <2>1, <2>2, JobBooks
<1>6. CASE FinanceDb!OnLessonCancelledOrRestored(p, topic[i]) /\ UNCHANGED offset
  <2> DEFINE job == [op |-> "correct", ref |-> topic[i], snapshot |-> FinanceDb!NotStarted]
  <2>1. task' = [task EXCEPT ![p] = job] /\ UNCHANGED <<ledger, processed>>
    BY <1>6 DEF FinanceDb!OnLessonCancelledOrRestored, FinanceDb!Start
  <2>2. JobSound(job)
    BY <1>4, <1>6 DEF JobSound, FinanceDb!OnLessonCancelledOrRestored, FinanceDb!NotStarted
  <2> HIDE DEF job
  <2> QED BY <1>2, <1>6, <2>1, <2>2, JobBooks
<1> QED BY <1>1, <1>3, <1>5, <1>6 DEF Deliver

LEMMA CrashBooks ==
  ASSUME BillingInv, StreamInv', Extends, NEW p \in Proc, Crash(p)
  PROVE  BillingInv'
<1>1. /\ task' = [task EXCEPT ![p] = FinanceDb!Idle]
      /\ UNCHANGED <<topic, offset, ledger, processed>>
  BY DEF Crash, FinanceDb!Crash, FinanceDb!End
<1>2. JobSound(FinanceDb!Idle)
  BY DEF JobSound
<1> QED BY <1>1, <1>2, JobBooks

-----------------------------------------------------------------------------
(* The statements of a handler.                                            *)

LEMMA JobOf ==
  ASSUME BillingInv, NEW p \in Proc,
         task[p].op \in {"charge", "mark", "correct", "manual", "confirm"}
  PROVE  /\ task[p] \in [op: {"charge", "mark", "correct"}, ref: Seen, snapshot: Int]
         /\ \E j \in DOMAIN topic :
              j \in 1..(offset + 1) /\ task[p].ref = topic[j] /\ topic[j].id = j
         /\ task[p].op = "correct" => FinanceDb!Corrects(task[p].ref)
         /\ task[p].op # "correct" => FinanceDb!Charges(task[p].ref)
         /\ task[p].op = "mark" => Charged(task[p].ref.lesson)
<1>1. JobSound(task[p]) /\ task[p] # FinanceDb!Idle
  BY DEF BillingInv, BooksInv, FinanceDb!Idle
<1>2. task[p].ref \in Seen
  BY <1>1 DEF JobSound
<1>3. \A j \in DOMAIN topic : topic[j].id = j
  BY BooksFacts
<1> QED BY <1>1, <1>2, <1>3 DEF JobSound, Seen

(* The offset after a statement, by the event of the handler.              *)
LEMMA OffsetAfter ==
  ASSUME BillingInv, NEW p \in Proc, HandlerStep(p), NEW j \in DOMAIN topic, j \in 1..(offset + 1),
         task[p].ref = topic[j]
  PROVE  /\ UNCHANGED topic
         /\ topic[j] \in processed' /\ j = offset + 1 => offset' = offset + 1 /\ offset < Len(topic)
         /\ ~ (topic[j] \in processed' /\ j = offset + 1) => offset' = offset
<1>1. topic[j].id = j
  BY BooksFacts
<1> QED BY <1>1, BooksFacts DEF HandlerStep, Advance

(* ... which stays when the inbox does.                                    *)
LEMMA OffsetStays ==
  ASSUME BillingInv, NEW p \in Proc, HandlerStep(p), UNCHANGED processed,
         task[p].op \in {"charge", "mark", "correct", "manual", "confirm"}
  PROVE  UNCHANGED <<topic, offset>>
<1>1. PICK j \in DOMAIN topic : j \in 1..(offset + 1) /\ task[p].ref = topic[j] /\ topic[j].id = j
  BY JobOf
<1>2. topic[j] \in processed => j # offset + 1
  BY <1>1, InboxPassed, BooksFacts
<1> QED BY <1>1, <1>2, OffsetAfter

LEMMA BeginBooks ==
  ASSUME BillingInv, StreamInv', Extends,
         NEW p \in Proc, HandlerStep(p), FinanceDb!BeginStatement(p)
  PROVE  BillingInv'
<1> DEFINE job == [task[p] EXCEPT !.snapshot = Len(ledger)]
<1>1. /\ task[p].op \in {"charge", "mark", "correct", "manual", "confirm"}
      /\ task' = [task EXCEPT ![p] = job] /\ UNCHANGED <<ledger, processed>>
  BY DEF FinanceDb!BeginStatement
<1>2. UNCHANGED <<topic, offset>>
  BY <1>1, OffsetStays
<1>3. Len(ledger) \in Int
  BY DEF BillingInv, BooksInv, BooksType
<1>4. JobSound(job)
  BY <1>1, <1>3, JobOf DEF JobSound
<1> HIDE DEF job
<1> QED BY <1>1, <1>2, <1>4, JobBooks

LEMMA MarkBooks ==
  ASSUME BillingInv, StreamInv', Extends,
         NEW p \in Proc, HandlerStep(p), FinanceDb!MarkEventProcessed(p)
  PROVE  BillingInv'
<1>1. /\ task[p].op = "mark" /\ UNCHANGED ledger
      /\ processed' = processed \cup {task[p].ref}
      /\ task' = [task EXCEPT ![p] = FinanceDb!Idle]
  BY DEF FinanceDb!MarkEventProcessed, FinanceDb!End
<1>2. PICK j \in DOMAIN topic : j \in 1..(offset + 1) /\ task[p].ref = topic[j] /\ topic[j].id = j
  BY <1>1, JobOf
<1>3. FinanceDb!Charges(topic[j]) /\ ~FinanceDb!Corrects(topic[j]) /\ Charged(topic[j].lesson)
  BY <1>1, <1>2, JobOf DEF FinanceDb!Charges, FinanceDb!Corrects
<1>4. UNCHANGED topic /\ offset' = IF j = offset + 1 THEN offset + 1 ELSE offset
  BY <1>1, <1>2, OffsetAfter
<1>5. j = offset + 1 => offset < Len(topic)
  BY <1>2, BooksFacts
<1>6. \A l : (Charged(l)' <=> Charged(l)) /\ Debt(l)' = Debt(l)
  BY <1>1, SameLedger
<1>7. Onward
  BY <1>4, <1>5, BooksFacts DEF Onward
<1>8. Steady
  BY <1>6, <1>7, SteadyWhen
<1>9. JobSound(FinanceDb!Idle)'
  BY DEF JobSound, FinanceDb!Idle
<1>10. task' = [q \in Proc |-> task'[q]] /\ \A q \in Proc : JobSound(task[q])'
  BY <1>1, <1>8, <1>9, TaskSet
<1>11. CASE j = offset + 1
  BY <1>1, <1>2, <1>3, <1>4, <1>5, <1>10, <1>11, PassBooks
<1>12. CASE j # offset + 1
  <2>1. UNCHANGED <<topic, offset>> /\ j \in 1..offset' /\ offset' # offset + 1
    BY <1>2, <1>4, <1>12, BooksFacts
  <2>2. Front' = Front
    BY <1>6, <2>1, FrontKept
  <2>3. PICK n \in 0..Total : n = Front
    BY BooksFacts
  <2>4. \A l \in LessonId : DebtIs(l, n)'
    BY <1>6, <2>3, DebtKept
  <2>5. \E S : ledger' \in Seq(S)
    BY <1>1 DEF BillingInv, BooksInv, BooksType
  <2>6. n = Front'
    BY <2>2, <2>3
  <2>7. \A e \in processed' : e \in processed \/ \E i \in 1..offset' : e = topic'[i]
    BY <1>1, <1>2, <2>1
  <2>8. \A e \in processed : e \in processed'
    BY <1>1
  <2> QED BY <1>6, <1>7, <1>10, <2>1, <2>4, <2>5, <2>6, <2>7, <2>8, BooksTurn
<1> QED BY <1>11, <1>12

(* What the ledger holds once the event after the front has been entered.  *)
LEMMA DebtNext ==
  ASSUME BillingInv, StreamInv', Extends, Front = offset, offset < Len(topic),
         NEW n, n = offset + 1, NEW e, e = topic[n], NEW c \in {1, -1}, Effect(n) = c,
         \A l \in LessonId :
           Debt(l)' = Debt(l) + (IF e.lesson = l THEN c * Price[l] ELSE 0)
  PROVE  \A l \in LessonId : DebtIs(l, n)'
<1> SUFFICES ASSUME NEW l \in LessonId PROVE DebtIs(l, n)'
  OBVIOUS
<1>1. n \in 1..Total /\ n \in 0..Total /\ offset \in 0..Total /\ At(n) = e /\ n - 1 = offset
  BY BooksFacts
<1>2. Told(l, n)' = Told(l, n)
  BY <1>1, ToldKept DEF BillingInv, Extends
<1>3. Told(l, n) = Told(l, offset) + (IF e.lesson = l THEN c ELSE 0)
  <2>1. Told(l, n) = Told(l, n - 1) + (IF At(n).lesson = l THEN Effect(n) ELSE 0)
    BY <1>1, ToldNext DEF BillingInv
  <2> QED BY <1>1, <2>1
<1>4. Told(l, offset) \in Int
  BY <1>1 DEF BillingInv, StreamInv
<1>5. Debt(l) = Told(l, offset) * Price[l]
  BY DEF BillingInv, BooksInv, DebtIs
<1>6. Price[l] \in Int /\ UNCHANGED Price
  BY PriceType DEF Price
<1>7. Debt(l)' = Told(l, n)' * Price[l]
  <2> DEFINE t == Told(l, n)
             s == Told(l, offset)
             d == Debt(l)
             price == Price[l]
  <2>1. CASE e.lesson = l
    <3>1. t = s + c /\ Debt(l)' = s * price + c * price /\ s \in Int /\ price \in Int
      BY <1>3, <1>4, <1>5, <1>6, <2>1
    <3> HIDE DEF t, s, price
    <3>2. (s + c) * price = s * price + c * price
      BY <3>1
    <3>3. Debt(l)' = t * price
      BY <3>1, <3>2
    <3> QED BY <1>2, <3>3 DEF t, price
  <2>2. CASE e.lesson # l
    <3>1. t = s /\ Debt(l)' = d + 0 /\ d = s * price
      BY <1>3, <1>4, <1>5, <2>2
    <3>2. s * price \in Int
      BY <1>4, <1>6
    <3> HIDE DEF t, s, d, price
    <3>3. Debt(l)' = t * price
      BY <3>1, <3>2
    <3> QED BY <1>2, <3>3 DEF t, price
  <2> QED BY <2>1, <2>2
<1> QED BY <1>6, <1>7 DEF DebtIs

(* A correction is entered once, with the event it passes.                 *)
LEMMA CorrectBooks ==
  ASSUME BillingInv, StreamInv', Extends, NEW p \in Proc, HandlerStep(p),
         FinanceDb!CreateEventCorrection(p)
  PROVE  BillingInv'
<1>1. task[p].op = "correct" /\ task' = [task EXCEPT ![p] = FinanceDb!Idle]
  BY DEF FinanceDb!CreateEventCorrection, FinanceDb!Running, FinanceDb!End
<1>2. PICK j \in DOMAIN topic : j \in 1..(offset + 1) /\ task[p].ref = topic[j] /\ topic[j].id = j
  BY <1>1, JobOf
<1> SUFFICES ASSUME NEW e, e = task[p].ref PROVE BillingInv'
  OBVIOUS
<1>3. FinanceDb!Corrects(e) /\ ~FinanceDb!Charges(e)
  BY <1>1, JobOf DEF FinanceDb!Charges, FinanceDb!Corrects
<1>4. processed' = processed \cup {e}
  BY DEF FinanceDb!CreateEventCorrection
<1>5. CASE e \in processed
  <2>1. UNCHANGED <<ledger, processed>>
    BY <1>4, <1>5 DEF FinanceDb!CreateEventCorrection
  <2>2. UNCHANGED <<topic, offset>>
    BY <1>1, <2>1, OffsetStays
  <2>3. JobSound(FinanceDb!Idle)
    BY DEF JobSound
  <2> QED BY <1>1, <2>1, <2>2, <2>3, JobBooks
<1>6. CASE e \notin processed
  <2> DEFINE row == FinanceDb!Correction(e)
  <2>1. ledger' = Append(ledger, row)
    BY <1>6 DEF FinanceDb!CreateEventCorrection, FinanceDb!Enter
  <2>2. j \notin 1..offset
    BY <1>2, <1>3, <1>6 DEF BillingInv, BooksInv
  <2>3. j = offset + 1 /\ offset < Len(topic)
    BY <1>2, <2>2, BooksFacts
  <2>4. UNCHANGED topic /\ offset' = offset + 1
    BY <1>2, <1>4, <2>3, OffsetAfter
  <2>5. /\ row.type = "correction" /\ row.ref = e
        /\ row.amount = IF e.type = "lesson.restored" THEN Price[e.lesson] ELSE -Price[e.lesson]
    BY DEF FinanceDb!Correction
  <2> HIDE DEF row
  <2>6. /\ \E S : ledger' \in Seq(S)
        /\ \A l : Charged(l)' <=> Charged(l) \/ (row.type = "charge" /\ row.ref = l)
        /\ \A l : Debt(l)' = Debt(l) + (IF RowOf(l, row) THEN row.amount ELSE 0)
    BY <2>1, LedgerAfter DEF BillingInv, BooksInv
  <2>7. \A l : Charged(l)' <=> Charged(l)
    BY <2>5, <2>6
  <2>8. Front = offset /\ Front' = j
    <3>1. ~Ahead
      BY <1>2, <1>3, <2>3, BooksFacts DEF Ahead
    <3> QED BY <2>3, <2>4, <2>7, <3>1, FrontPassed DEF Front
  <2>9. e.lesson \in LessonId /\ Price[e.lesson] \in Int
    BY <1>2, BooksFacts, PriceType
  <2>10. PICK c \in {1, -1} : Effect(j) = c /\ row.amount = c * Price[e.lesson]
    <3>1. At(j) = e /\ ~First(j)
      BY <1>2, <1>3, BooksFacts
    <3>2. CASE e.type = "lesson.restored"
      <4>1. Effect(j) = 1
        BY <3>1, <3>2 DEF Effect
      <4> QED BY <2>5, <2>9, <3>2, <4>1
    <3>3. CASE e.type # "lesson.restored"
      <4>1. Effect(j) = -1
        BY <1>3, <3>1, <3>3 DEF Effect, FinanceDb!Corrects
      <4> QED BY <2>5, <2>9, <3>3, <4>1
    <3> QED BY <3>2, <3>3
  <2>11. \A l \in LessonId :
           Debt(l)' = Debt(l) + (IF e.lesson = l THEN c * Price[l] ELSE 0)
    BY <2>5, <2>6, <2>10 DEF RowOf
  <2>12. \A l \in LessonId : DebtIs(l, j)'
    BY <1>2, <2>3, <2>8, <2>10, <2>11, DebtNext
  <2>13. Onward
    BY <2>3, <2>4, BooksFacts DEF Onward
  <2>14. Steady
    BY <2>7, <2>13, SteadyWhen
  <2>15. JobSound(FinanceDb!Idle)'
    BY DEF JobSound, FinanceDb!Idle
  <2>16. task' = [q \in Proc |-> task'[q]] /\ \A q \in Proc : JobSound(task[q])'
    BY <1>1, <2>14, <2>15, TaskSet
  <2>17. \A f \in processed' : f \in processed \/ \E i \in 1..offset' : f = topic'[i]
    BY <1>2, <1>4, <2>3, <2>4, BooksFacts
  <2>18. /\ topic'[offset'] = e /\ ~FinanceDb!Charges(topic'[offset'])
         /\ topic'[offset'] \in processed'
    BY <1>2, <1>3, <1>4, <2>3, <2>4
  <2>19. \A f \in processed : f \in processed'
    BY <1>4
  <2>20. j = Front'
    BY <2>8
  <2> QED BY <2>6, <2>7, <2>12, <2>13, <2>16, <2>17, <2>18, <2>19, <2>20, BooksTurn
<1> QED BY <1>5, <1>6

(* A charge is entered for the event after the offset only.                *)
LEMMA ChargeBooks ==
  ASSUME BillingInv, StreamInv', Extends, NEW p \in Proc, HandlerStep(p), FinanceDb!CreateCharge(p)
  PROVE  BillingInv'
<1>1. task[p].op = "charge" /\ UNCHANGED processed
  BY DEF FinanceDb!CreateCharge, FinanceDb!Running
<1>2. UNCHANGED <<topic, offset>>
  BY <1>1, OffsetStays
<1>3. PICK j \in DOMAIN topic : j \in 1..(offset + 1) /\ task[p].ref = topic[j] /\ topic[j].id = j
  BY <1>1, JobOf
<1> SUFFICES ASSUME NEW e, e = task[p].ref, NEW lesson, lesson = e.lesson PROVE BillingInv'
  OBVIOUS
<1> DEFINE marking == [op |-> "mark", ref |-> e, snapshot |-> FinanceDb!NotStarted]
<1>4. FinanceDb!Charges(e) /\ e \in Seen
  BY <1>1, JobOf
<1>5. marking \in [op: {"charge", "mark", "correct"}, ref: Seen, snapshot: Int]
  BY <1>4 DEF FinanceDb!NotStarted
<1>6. CASE Charged(lesson)
  <2>1. UNCHANGED ledger /\ (task' = [task EXCEPT ![p] = marking]
                             \/ task' = [task EXCEPT ![p] = FinanceDb!Idle])
    BY <1>6 DEF FinanceDb!CreateCharge, FinanceDb!ToMark, FinanceDb!End, Charged
  <2>2. JobSound(marking) /\ JobSound(FinanceDb!Idle)
    BY <1>4, <1>5, <1>6 DEF JobSound
  <2> HIDE DEF marking
  <2> QED BY <1>1, <1>2, <2>1, <2>2, JobBooks
<1>7. CASE ~Charged(lesson)
  <2> DEFINE row == [type |-> "charge", ref |-> lesson, amount |-> Price[lesson]]
  <2>1. ledger' = Append(ledger, row) /\ task' = [task EXCEPT ![p] = marking]
    BY <1>7 DEF FinanceDb!CreateCharge, FinanceDb!Enter, FinanceDb!ToMark, Charged
  <2>2. j \notin 1..offset
    BY <1>3, <1>4, <1>7 DEF BillingInv, BooksInv
  <2>3. j = offset + 1 /\ offset < Len(topic)
    BY <1>3, <2>2, BooksFacts
  <2>4. row.type = "charge" /\ row.ref = lesson /\ row.amount = Price[lesson]
    OBVIOUS
  <2> HIDE DEF row
  <2>5. /\ \E S : ledger' \in Seq(S)
        /\ \A l : Charged(l)' <=> Charged(l) \/ (row.type = "charge" /\ row.ref = l)
        /\ \A l : Debt(l)' = Debt(l) + (IF RowOf(l, row) THEN row.amount ELSE 0)
    BY <2>1, LedgerAfter DEF BillingInv, BooksInv
  <2>6. \A l : Charged(l)' <=> Charged(l) \/ l = lesson
    BY <2>4, <2>5
  <2>7. Front = offset
    BY <1>3, <1>7, <2>3 DEF Front, Ahead
  <2>8. Charged(lesson)'
    BY <2>6
  <2>f. First(j)
    BY <1>3, <1>4, <1>7, <2>3, FirstWhenUncharged
  <2>9. Front' = j
    <3>1. j \in 1..Total
      BY <1>3, BooksFacts
    <3>2. First(j)'
      BY <2>f, <3>1, EffectKept DEF BillingInv, Extends
    <3>3. Ahead'
      BY <1>2, <1>3, <2>3, <2>8, <3>2 DEF Ahead, Charged, FinanceDb!Rows, First, At, Completes
    <3> QED BY <1>2, <2>3, <3>3 DEF Front
  <2>10. lesson \in LessonId /\ Price[lesson] \in Int
    BY <1>3, BooksFacts, PriceType
  <2>11. Effect(j) = 1
    BY <2>f DEF Effect
  <2>12. \A l \in LessonId :
           Debt(l)' = Debt(l) + (IF e.lesson = l THEN 1 * Price[l] ELSE 0)
    BY <2>4, <2>5, <2>10 DEF RowOf
  <2>13. \A l \in LessonId : DebtIs(l, j)'
    BY <1>3, <2>3, <2>7, <2>11, <2>12, DebtNext
  <2>14. Onward
    BY <1>2, BooksFacts DEF Onward
  <2>15. \A l : Charged(l) => Charged(l)'
    BY <2>6
  <2>16. Steady
    BY <2>14, <2>15, SteadyWhen
  <2>17. JobSound(marking)'
    <3>1. e \in Seen'
      BY <1>4, <2>16 DEF Steady
    <3>2. marking \in [op: {"charge", "mark", "correct"}, ref: Seen', snapshot: Int]
      BY <3>1 DEF FinanceDb!NotStarted
    <3>3. marking.ref = e /\ marking.op = "mark" /\ FinanceDb!Charges(marking.ref)
      BY <1>4
    <3> HIDE DEF marking
    <3>4. Charged(marking.ref.lesson)'
      BY <2>8, <3>3 DEF Charged, FinanceDb!Rows
    <3> QED BY <3>2, <3>3, <3>4 DEF JobSound, FinanceDb!Charges
  <2> HIDE DEF marking
  <2>18. task' = [q \in Proc |-> task'[q]] /\ \A q \in Proc : JobSound(task[q])'
    BY <2>1, <2>16, <2>17, TaskSet
  <2>19. \A l \in LessonId : Charged(l)' /\ ~Charged(l) =>
           \E i \in DOMAIN topic' \cap 1..(offset' + 1) : Completes(i, l)'
    <3>1. j \in DOMAIN topic' \cap 1..(offset' + 1)
      BY <1>2, <1>3
    <3>2. Completes(j, lesson)'
      BY <1>2, <1>3, <1>4, BooksFacts DEF Completes, At, FinanceDb!Charges
    <3>3. \A l : Completes(j, l)' <=> l = lesson
      BY <3>2 DEF Completes
    <3> QED BY <2>6, <3>1, <3>3
  <2>20. offset' # offset + 1 /\ j = Front'
    BY <1>2, <2>9, BooksFacts
  <2> QED BY <1>1, <2>5, <2>13, <2>14, <2>15, <2>18, <2>19, <2>20, BooksTurn
<1> QED BY <1>6, <1>7

-----------------------------------------------------------------------------

LEMMA InitBooks == BillingInit => BooksInv
<1> SUFFICES ASSUME BillingInit PROVE BooksInv
  OBVIOUS
<1>1. /\ topic = <<>> /\ offset = 0 /\ ledger = <<>> /\ processed = {}
      /\ task = [p \in Proc |-> FinanceDb!Idle]
  BY DEF BillingInit, FinanceDb!Init
<1>2. BooksType
  BY <1>1 DEF BooksType
<1>3. \A l : ~Charged(l)
  BY <1>1 DEF Charged, FinanceDb!Rows
<1>4. Front = 0
  BY <1>1 DEF Front, Ahead
<1>5. \A l \in LessonId : DebtIs(l, 0)
  <2> SUFFICES ASSUME NEW l \in LessonId PROVE DebtIs(l, 0)
    OBVIOUS
  <2>1. Told(l, 0) = 0
    BY SumStep DEF Told
  <2>2. Debt(l) = 0
    <3>1. Len(ledger) = 0
      BY <1>1
    <3> QED BY <3>1, SumStep DEF Debt
  <2>3. Price[l] \in Int
    BY PriceType
  <2> QED BY <2>1, <2>2, <2>3 DEF DebtIs
<1> QED BY <1>1, <1>2, <1>3, <1>4, <1>5 DEF BooksInv, JobSound

LEMMA NextBillingInv ==
  ASSUME BillingInv, [BillingNext]_billingVars
  PROVE  BillingInv'
<1>1. StreamInv' /\ Extends
  BY NextStreamInv DEF BillingInv
<1>2. CASE LessonStep
  BY <1>1, <1>2, StillBooks DEF LessonStep
<1>3. CASE PublishPending
  BY <1>1, <1>3, PublishBooks
<1>4. ASSUME NEW p \in Proc, Redeliver(p) \/ DeliverNext(p) PROVE BillingInv'
  BY <1>1, <1>4, DeliverBooks
<1>5. ASSUME NEW p \in Proc, HandlerStep(p) PROVE BillingInv'
  <2>1. \/ FinanceDb!BeginStatement(p) \/ FinanceDb!CreateCharge(p)
        \/ FinanceDb!MarkEventProcessed(p) \/ FinanceDb!CreateEventCorrection(p)
    BY <1>5 DEF HandlerStep, FinanceDb!ConsumerStatement
  <2> QED BY <1>1, <1>5, <2>1, BeginBooks, ChargeBooks, MarkBooks, CorrectBooks
<1>6. ASSUME NEW p \in Proc, Crash(p) PROVE BillingInv'
  BY <1>1, <1>6, CrashBooks
<1>7. CASE UNCHANGED billingVars
  BY <1>1, <1>7, StillBooks DEF billingVars
<1> QED BY <1>2, <1>3, <1>4, <1>5, <1>6, <1>7 DEF BillingNext

LEMMA BillingAlways == BillingSpec => []BillingInv
<1>1. BillingInit => BillingInv
  BY InitStreamInv, InitBooks DEF BillingInv
<1>2. BillingInv /\ [BillingNext]_billingVars => BillingInv'
  BY NextBillingInv
<1> QED BY <1>1, <1>2, PTL DEF BillingSpec

LEMMA PriceNat == Price \in [LessonId -> Nat]
BY QuoteAssumption DEF Price

LEMMA TimesPrice ==
  ASSUME NEW n \in Int, NEW price \in Nat, NEW due \in {0, 1}, n <= due
  PROVE  n * price <= due * price /\ due * price \in {0, price}
<1>1. CASE n = 1
  BY <1>1
<1>2. CASE n <= 0
  <2>1. PICK m \in Nat : n = -m
    BY <1>2
  <2>2. m * price \in Nat /\ n * price = -(m * price)
    BY <2>1
  <2> QED BY <2>2
<1> QED BY <1>1, <1>2

(* At no time does the ledger hold a lesson twice, or a compensation       *)
(* without its charge: whatever commands race, whatever is delivered       *)
(* again, by however many replicas, and wherever their handlers die.  What *)
(* a stale reactivation has done to a lesson can only lower its debt.      *)
THEOREM DebtStaysBounded == BillingSpec => []DebtBounded
<1>1. ASSUME BillingInv PROVE DebtBounded
  <2> SUFFICES ASSUME NEW l \in LessonId
               PROVE  /\ Debt(l) <= Price[l]
                      /\ l \notin relapsed => Debt(l) \in {0, Price[l]}
    BY DEF DebtBounded
  <2>1. PICK n \in 0..Total : n = Front
    BY <1>1, BooksFacts
  <2>2. Debt(l) = Told(l, n) * Price[l]
    BY <1>1, <2>1 DEF BillingInv, BooksInv, DebtIs
  <2>3. /\ Told(l, n) \in Int /\ Told(l, n) <= 1
        /\ l \notin relapsed => Told(l, n) \in {0, 1}
    BY <1>1 DEF BillingInv, StreamInv
  <2>4. Price[l] \in Nat
    BY PriceNat
  <2>5. Told(l, n) * Price[l] <= Price[l]
    BY <2>3, <2>4, TimesPrice
  <2> QED BY <2>2, <2>3, <2>4, <2>5
<1> QED BY <1>1, BillingAlways, PTL

(* When every event has been handled, the student owes the price of the    *)
(* completed lessons and of no other, and for a relapsed lesson at most    *)
(* that.                                                                   *)
THEOREM SettledBooks == BillingSpec => []SettledWhenQuiet
<1>1. ASSUME BillingInv PROVE SettledWhenQuiet
  <2> SUFFICES ASSUME outbox = <<>>, offset = Len(topic), NEW l \in LessonId
               PROVE  IF l \in relapsed THEN Debt(l) <= Due(l) ELSE Debt(l) = Due(l)
    BY DEF SettledWhenQuiet, Settled
  <2>1. ~Ahead /\ Total = offset
    BY <1>1, BooksFacts DEF Ahead, Total
  <2>2. Front = Total
    BY <2>1 DEF Front
  <2>3. DebtIs(l, Total)
    BY <1>1, <2>2 DEF BillingInv, BooksInv
  <2>4. Told(l, Total) = owed[l]
    BY <1>1 DEF BillingInv, StreamInv
  <2> DEFINE n == owed[l]
             due == IF lessons[l].status = "completed" THEN 1 ELSE 0
  <2>5. n \in Int /\ IF l \in relapsed THEN n <= due ELSE n = due
    BY <1>1 DEF BillingInv, StreamInv, OwedInv, TypeOK, OwedIffCompleted
  <2>6. Price[l] \in Nat
    BY PriceNat
  <2>7. Debt(l) = n * Price[l]
    BY <2>3, <2>4 DEF DebtIs
  <2>8. Due(l) = due * Price[l]
    BY <2>6 DEF Due
  <2>9. n <= due => n * Price[l] <= due * Price[l]
    BY <2>5, <2>6, TimesPrice
  <2> HIDE DEF n, due
  <2> QED BY <2>5, <2>7, <2>8, <2>9
<1> QED BY <1>1, BillingAlways, PTL
=============================================================================
