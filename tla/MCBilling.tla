----------------------------- MODULE MCBilling -----------------------------
(* Instances of Billing for model checking.                                *)
EXTENDS Billing, TLC

CONSTANTS l1, l2, t1

OneTeacher == [l \in LessonId |-> t1]
NoSlots == <<>>
AllOps == {"create", "complete", "cancel", "reschedule", "reactivate"}
NoReschedule == AllOps \ {"reschedule"}
BothRanges == {<<0, 1>>, <<1, 2>>}
TwoRanges == (l1 :> <<0, 1>>) @@ (l2 :> <<1, 2>>)
OneRange == [l \in LessonId |-> <<0, 1>>]
Rubles == [l \in LessonId |-> 1000]

(* 0.004 roubles, and a lesson at 10 roubles.                              *)
TinyQuote == [l \in LessonId |-> IF l = l1 THEN 4 ELSE 10000]
=============================================================================
