------------------------------ MODULE MCLesson ------------------------------
(* Instances of Lesson for model checking.                                 *)
EXTENDS Lesson, FiniteSets, TLC

CONSTANTS l1, l2, s1, s2, s3, t1, t2, c1, c2

OneTeacherLessons == [l \in LessonId |-> t1]
OneTeacherSlots == [s \in SlotId |-> t1]

(* s3 is the slot of a teacher the lessons do not belong to.               *)
MixedSlots == [s \in SlotId |-> IF s = s3 THEN t2 ELSE t1]

ProperRanges == {<<0, 2>>, <<1, 3>>}

AllOps == {"create", "complete", "cancel", "reschedule", "reslot", "reactivate"}
NoReslot == AllOps \ {"reslot"}

Calls == Permutations(Call)
=============================================================================
