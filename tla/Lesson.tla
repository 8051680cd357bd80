------------------------------- MODULE Lesson -------------------------------
(***************************************************************************)
(* lesson-service: availability slots, lessons, the commands of a teacher  *)
(* and the transactional outbox.                                           *)
(*                                                                         *)
(* A command on an existing lesson is two database statements: FindLesson  *)
(* reads the row and decides whether to go on, then one autocommit         *)
(* statement (a chain of data-modifying CTEs) re-checks part of what was   *)
(* read and changes lesson, slots and outbox together.  Between the two    *)
(* any other command may run, so a call in progress is a record of the     *)
(* parameters it took from its read.                                       *)
(*                                                                         *)
(* Row ids are fresh UUIDs, so who owns the row an id will name is a       *)
(* constant: LessonOwner, SlotOwner.  Price, topic, notes, student and     *)
(* files ride along unchanged and are left out.                            *)
(***************************************************************************)
EXTENDS Integers, Sequences

CONSTANTS
  Teacher,      \* users with the teacher role
  LessonId,     \* ids lessons may get
  SlotId,       \* ids availability slots may get
  LessonOwner,  \* lessons.teacher_id
  SlotOwner,    \* availability_slots.teacher_id
  Ranges,       \* <<starts_at, ends_at>> pairs a request may carry
  Call,         \* commands in progress at one time (gRPC handler coroutines)
  Ops,          \* the commands clients use; "reslot" is a reschedule to
                \* another slot, or from or to none
  MaxPending,   \* bound on outbox rows not yet published
  None          \* SQL NULL

ASSUME OwnerAssumption == /\ LessonOwner \in [LessonId -> Teacher]
                          /\ SlotOwner \in [SlotId -> Teacher]
ASSUME RangeAssumption == Ranges \subseteq Int \X Int
ASSUME NoneAssumption == None \notin LessonId \cup SlotId
ASSUME PendingAssumption == MaxPending \in Nat \ {0}

VARIABLES
  slotStatus,  \* availability_slots.status, "absent" before the insert
  lessons,     \* rows of the table lessons
  call,        \* the commands between their read and their statement
  reply,       \* how the command that ended last was answered
  outbox,      \* outbox_events still pending, oldest first
  owed,        \* history: how many times the price of each lesson stands in
               \* a ledger that applies every event ever emitted once
  relapsed     \* history: the lessons completed once and scheduled again, by
               \* a reactivation that read them before they were completed

vars == <<slotStatus, lessons, call, reply, outbox, owed, relapsed>>

-----------------------------------------------------------------------------

LessonStatus == {"absent", "scheduled", "completed", "cancelled"}
SlotStatus == {"absent", "open", "booked"}
EventType == {"lesson.scheduled", "lesson.completed", "lesson.rescheduled",
              "lesson.cancelled", "lesson.restored"}
OptionalSlot == SlotId \cup {None}
NoRange == <<0, 0>>

LessonRow == [status: LessonStatus, slot: OptionalSlot, range: Int \X Int,
              completedAt: BOOLEAN]

(* The parameters a statement takes from its command and from its read:    *)
(* status is $3 of cancel and $4/$3 of reactivate, oldSlot is $6 of        *)
(* reschedule.                                                             *)
Command == [op: {"complete", "cancel", "reschedule", "reactivate"},
            lesson: LessonId, status: LessonStatus,
            slot: OptionalSlot, oldSlot: OptionalSlot, range: Int \X Int]
Idle == [op |-> "idle"]

Event == [type: EventType, lesson: LessonId, previous: LessonStatus]

TypeOK ==
  /\ slotStatus \in [SlotId -> SlotStatus]
  /\ lessons \in [LessonId -> LessonRow]
  /\ call \in [Call -> Command \cup {Idle}]
  /\ reply \in {"ok", "conflict", "not_found"}
  /\ outbox \in Seq(Event)
  /\ owed \in [LessonId -> Int]
  /\ relapsed \subseteq LessonId

-----------------------------------------------------------------------------

Proper(range) == range[1] < range[2]

(* tstzrange(starts_at, ends_at) && ..., half-open                         *)
Overlap(r1, r2) == r1[1] < r2[2] /\ r2[1] < r1[2]

(* Definitions called ...Fault are seeded bugs: a run with one of them in  *)
(* place of the definition that follows must break a property.             *)

NoClashFault(l, range) ==  \* a unique index in place of the exclusion
  \A m \in LessonId \ {l} :
    (LessonOwner[m] = LessonOwner[l] /\ lessons[m].status = "scheduled")
      => lessons[m].range # range

(* The exclusion constraint no_overlap_teacher lets lesson l be scheduled  *)
(* at range.                                                               *)
NoClash(l, range) ==
  \A m \in LessonId \ {l} :
    (LessonOwner[m] = LessonOwner[l] /\ lessons[m].status = "scheduled")
      => ~Overlap(lessons[m].range, range)

BookableAnyStatusFault(s, l) == s # None /\ SlotOwner[s] = LessonOwner[l]
BookableAnyOwnerFault(s, l) == s # None /\ slotStatus[s] = "open"

(* booked_slot: lesson l may book slot s.                                  *)
Bookable(s, l) ==
  /\ s # None
  /\ slotStatus[s] = "open"
  /\ SlotOwner[s] = LessonOwner[l]

NotReopenedFault(slot) == slotStatus
ReopenedNullFault(slot) ==  \* slot_id IS NOT NULL forgotten
  [s \in SlotId \cup {slot} |-> IF s = slot THEN "open" ELSE slotStatus[s]]

(* reopened_slot                                                           *)
Reopened(slot) == [s \in SlotId |-> IF s = slot THEN "open" ELSE slotStatus[s]]

ChargeEffectFault(e, charged) ==  \* previous_status ignored
  CASE e.type = "lesson.completed" -> IF charged THEN 0 ELSE 1
    [] e.type = "lesson.restored" -> 1
    [] e.type = "lesson.cancelled" -> -1
    [] OTHER -> 0

(* What finance-service does to the ledger for an event of a lesson:       *)
(* lesson.completed charges the price unless the lesson has a charge       *)
(* already, cancelling a completed lesson and restoring it correct by      *)
(* -price and +price.                                                      *)
ChargeEffect(e, charged) ==
  CASE e.type = "lesson.completed" -> IF charged THEN 0 ELSE 1
    [] e.type = "lesson.restored" -> 1
    [] e.type = "lesson.cancelled" /\ e.previous = "completed" -> -1
    [] OTHER -> 0

(* INSERT INTO outbox_events, in the statement that changes the lesson.    *)
Emit(type, l, previous) ==
  LET e == [type |-> type, lesson |-> l, previous |-> previous]
  IN  /\ Len(outbox) < MaxPending
      /\ outbox' = Append(outbox, e)
      /\ owed' = [owed EXCEPT ![l] = @ + ChargeEffect(e, lessons[l].completedAt)]

Answer(r) == reply' = r
EndCall(c, r) == call' = [call EXCEPT ![c] = Idle] /\ Answer(r)

Init ==
  /\ slotStatus = [s \in SlotId |-> "absent"]
  /\ lessons = [l \in LessonId |->
       [status |-> "absent", slot |-> None, range |-> NoRange,
        completedAt |-> FALSE]]
  /\ call = [c \in Call |-> Idle]
  /\ reply = "ok"
  /\ outbox = <<>>
  /\ owed = [l \in LessonId |-> 0]
  /\ relapsed = {}

-----------------------------------------------------------------------------
(* Commands of one statement.                                              *)

CreateSlotFault(s) ==  \* an upsert that resets the status
  /\ slotStatus' = [slotStatus EXCEPT ![s] = "open"]
  /\ Answer("ok")
  /\ UNCHANGED <<lessons, call, outbox, owed, relapsed>>

CreateSlot(s) ==
  /\ slotStatus[s] = "absent"
  /\ slotStatus' = [slotStatus EXCEPT ![s] = "open"]
  /\ Answer("ok")
  /\ UNCHANGED <<lessons, call, outbox, owed, relapsed>>

InsertLesson(l, slot, range) ==
  /\ NoClash(l, range)
  /\ lessons' = [lessons EXCEPT ![l] =
       [status |-> "scheduled", slot |-> slot, range |-> range,
        completedAt |-> FALSE]]
  /\ Emit("lesson.scheduled", l, "absent")
  /\ Answer("ok")

CreateLesson(l, range) ==
  /\ "create" \in Ops
  /\ lessons[l].status = "absent"
  /\ Proper(range)
  /\ InsertLesson(l, None, range)
  /\ UNCHANGED <<slotStatus, call, relapsed>>

(* booked_slot runs whether or not inserted finds a proper range: with an  *)
(* inverted one the slot stays booked and the answer is a conflict.        *)
CreateLessonFromSlot(l, s, range) ==
  /\ "create" \in Ops
  /\ lessons[l].status = "absent"
  /\ Bookable(s, l)
  /\ slotStatus' = [slotStatus EXCEPT ![s] = "booked"]
  /\ IF Proper(range)
       THEN InsertLesson(l, s, range)
       ELSE Answer("conflict") /\ UNCHANGED <<lessons, outbox, owed>>
  /\ UNCHANGED <<call, relapsed>>

-----------------------------------------------------------------------------
(* FindLesson and the checks before the statement of the other commands.   *)
(* A command these checks answer at once (not found, forbidden, already in *)
(* the requested state, wrong status) changes nothing and is left out.     *)

Begin(c, cmd) ==
  /\ cmd.op \in Ops
  /\ call[c] = Idle
  /\ call' = [call EXCEPT ![c] = cmd]
  /\ UNCHANGED <<slotStatus, lessons, reply, outbox, owed, relapsed>>

ReadForComplete(c, l) ==
  /\ lessons[l].status = "scheduled"
  /\ Begin(c, [op |-> "complete", lesson |-> l, status |-> "scheduled",
               slot |-> None, oldSlot |-> None, range |-> NoRange])

ReadForCancel(c, l) ==
  /\ lessons[l].status \in {"scheduled", "completed"}
  /\ Begin(c, [op |-> "cancel", lesson |-> l, status |-> lessons[l].status,
               slot |-> None, oldSlot |-> None, range |-> NoRange])

ReadForReschedule(c, l, newSlot, range) ==
  /\ newSlot # lessons[l].slot => "reslot" \in Ops
  /\ lessons[l].status = "scheduled"
  /\ Proper(range)
  /\ range # lessons[l].range \/ newSlot # lessons[l].slot
  /\ Begin(c, [op |-> "reschedule", lesson |-> l, status |-> "scheduled",
               slot |-> newSlot, oldSlot |-> lessons[l].slot, range |-> range])

ReadForReactivate(c, l) ==
  LET target == IF lessons[l].completedAt THEN "completed" ELSE "scheduled"
  IN  /\ lessons[l].status = "cancelled"
      /\ Begin(c, [op |-> "reactivate", lesson |-> l, status |-> target,
                   slot |-> lessons[l].slot, oldSlot |-> None,
                   range |-> NoRange])

-----------------------------------------------------------------------------
(* The statements.                                                         *)

CompleteLesson(c) ==
  LET l == call[c].lesson
  IN  /\ call[c].op = "complete"
      /\ \/ /\ lessons[l].status = "scheduled"
            /\ lessons' = [lessons EXCEPT ![l].status = "completed",
                                          ![l].completedAt = TRUE]
            /\ Emit("lesson.completed", l, "scheduled")
            /\ EndCall(c, "ok")
         \/ /\ lessons[l].status # "scheduled"
            /\ EndCall(c, "not_found")
            /\ UNCHANGED <<lessons, outbox, owed>>
      /\ UNCHANGED <<slotStatus, relapsed>>

CancelLesson(c) ==
  LET l == call[c].lesson
  IN  /\ call[c].op = "cancel"
      /\ \/ /\ lessons[l].status = call[c].status
            /\ lessons' = [lessons EXCEPT ![l].status = "cancelled"]
            /\ slotStatus' = Reopened(lessons[l].slot)
            /\ Emit("lesson.cancelled", l, call[c].status)
            /\ EndCall(c, "ok")
         \/ /\ lessons[l].status # call[c].status
            /\ EndCall(c, "not_found")
            /\ UNCHANGED <<slotStatus, lessons, outbox, owed>>
      /\ UNCHANGED relapsed

(* Both branches reopen the slot read before, whether or not the lesson is *)
(* updated; booked_slot too takes effect on its own.  Only a violated      *)
(* exclusion constraint undoes the statement.                              *)
RescheduleLesson(c) ==
  LET cmd == call[c]
      l == cmd.lesson
      moves == cmd.slot # None /\ cmd.slot # cmd.oldSlot
      booked == moves /\ Bookable(cmd.slot, l)
      updated == lessons[l].status = "scheduled" /\ (moves => booked)
      reopened == {cmd.oldSlot} \ {cmd.slot}
  IN  /\ cmd.op = "reschedule"
      /\ \/ /\ updated /\ ~NoClash(l, cmd.range)
            /\ EndCall(c, "conflict")
            /\ UNCHANGED <<slotStatus, lessons, outbox, owed>>
         \/ /\ updated => NoClash(l, cmd.range)
            /\ slotStatus' = [s \in SlotId |->
                 CASE s \in reopened -> "open"
                   [] booked /\ s = cmd.slot -> "booked"
                   [] OTHER -> slotStatus[s]]
            /\ IF updated
                 THEN /\ lessons' = [lessons EXCEPT ![l].range = cmd.range,
                                                    ![l].slot = cmd.slot]
                      /\ Emit("lesson.rescheduled", l, "scheduled")
                      /\ EndCall(c, "ok")
                 ELSE /\ EndCall(c, "conflict")
                      /\ UNCHANGED <<lessons, outbox, owed>>
      /\ UNCHANGED relapsed

ReactivateLesson(c) ==
  LET cmd == call[c]
      l == cmd.lesson
      booked == Bookable(cmd.slot, l)
      updated == lessons[l].status = "cancelled" /\ (cmd.slot # None => booked)
      clash == /\ updated /\ cmd.status = "scheduled"
               /\ ~NoClash(l, lessons[l].range)
  IN  /\ cmd.op = "reactivate"
      /\ \/ /\ clash
            /\ EndCall(c, "conflict")
            /\ UNCHANGED <<slotStatus, lessons, outbox, owed, relapsed>>
         \/ /\ ~clash
            /\ slotStatus' = [s \in SlotId |->
                 IF booked /\ s = cmd.slot THEN "booked" ELSE slotStatus[s]]
            /\ IF updated
                 THEN /\ lessons' = [lessons EXCEPT ![l].status = cmd.status]
                      /\ relapsed' = IF cmd.status = "scheduled" /\ lessons[l].completedAt
                                       THEN relapsed \cup {l} ELSE relapsed
                      /\ Emit(IF cmd.status = "completed" THEN "lesson.restored"
                                                      ELSE "lesson.scheduled",
                              l, "cancelled")
                      /\ EndCall(c, "ok")
                 ELSE /\ EndCall(c, "conflict")
                      /\ UNCHANGED <<lessons, outbox, owed, relapsed>>

(* The outbox publisher (module Outbox) takes rows away.                   *)
Publish ==
  /\ outbox # <<>>
  /\ outbox' = Tail(outbox)
  /\ UNCHANGED <<slotStatus, lessons, call, reply, owed, relapsed>>

-----------------------------------------------------------------------------

CreateStep ==
  \/ \E s \in SlotId : CreateSlot(s)
  \/ \E l \in LessonId, range \in Ranges :
       \/ CreateLesson(l, range)
       \/ \E s \in SlotId : CreateLessonFromSlot(l, s, range)

ReadStep ==
  \E c \in Call, l \in LessonId :
    \/ ReadForComplete(c, l)
    \/ ReadForCancel(c, l)
    \/ ReadForReactivate(c, l)
    \/ \E newSlot \in OptionalSlot, range \in Ranges :
         ReadForReschedule(c, l, newSlot, range)

StatementStep ==
  \E c \in Call :
    \/ CompleteLesson(c)
    \/ CancelLesson(c)
    \/ RescheduleLesson(c)
    \/ ReactivateLesson(c)

Next == CreateStep \/ ReadStep \/ StatementStep \/ Publish

Spec == Init /\ [][Next]_vars

-----------------------------------------------------------------------------
(* Properties.                                                             *)

Active(l) == lessons[l].status \in {"scheduled", "completed"}

(* No two scheduled lessons of one teacher overlap, through every creation,*)
(* move and reactivation.                                                  *)
NoOverlap ==
  \A l, m \in LessonId :
    /\ l # m /\ LessonOwner[l] = LessonOwner[m]
    /\ lessons[l].status = "scheduled" /\ lessons[m].status = "scheduled"
    => ~Overlap(lessons[l].range, lessons[m].range)

(* A slot carries at most one lesson that is not cancelled.                *)
SlotHeldOnce ==
  \A l, m \in LessonId :
    l # m /\ Active(l) /\ Active(m) /\ lessons[l].slot # None
      => lessons[l].slot # lessons[m].slot

(* A lesson never sits in the slot of another teacher.                     *)
SlotOfTeacher ==
  \A l \in LessonId :
    lessons[l].slot # None => SlotOwner[lessons[l].slot] = LessonOwner[l]

(* The slot of a lesson that is not cancelled is not offered as open.      *)
HeldSlotBooked ==
  \A l \in LessonId :
    Active(l) /\ lessons[l].slot # None
      => slotStatus[lessons[l].slot] = "booked"

(* A booked slot carries a lesson, and a slot that carries one is booked:  *)
(* no command withdraws or returns a slot that it did not use.             *)
BookedIffHeld ==
  /\ HeldSlotBooked
  /\ \A s \in SlotId :
       slotStatus[s] = "booked" => \E l \in LessonId : Active(l) /\ lessons[l].slot = s

(* The events tell finance to have the price of a lesson in the ledger     *)
(* once if the lesson is completed, and not at all otherwise, whatever     *)
(* commands race.  A stale reactivation can put a completed lesson back to *)
(* scheduled; from then on its events may tell less, but never more.       *)
OwedIffCompleted ==
  \A l \in LessonId :
    LET due == IF lessons[l].status = "completed" THEN 1 ELSE 0
    IN  IF l \in relapsed THEN owed[l] <= due ELSE owed[l] = due

(* A command answered with an error leaves lessons and slots as they were. *)
RefusedChangesNothing ==
  [][reply' = "ok"]_<<lessons, slotStatus>>

=============================================================================
