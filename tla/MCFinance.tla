----------------------------- MODULE MCFinance -----------------------------
(* Instances of Finance for model checking.                                *)
EXTENDS Finance, TLC

CONSTANTS l1, r1, m1, p1, p2

Completed(id) == [id |-> id, type |-> "lesson.completed", lesson |-> l1, previous |-> "scheduled"]
Cancelled(id) == [id |-> id, type |-> "lesson.cancelled", lesson |-> l1, previous |-> "completed"]

(* A lesson completed under two event ids and cancelled in between.        *)
Replays == {Completed(1), Cancelled(2), Completed(3)}
Single == {Completed(1)}

(* Amounts whose partial sums all differ.                                  *)
Amounts == [x \in Lesson \cup Receipt \cup Manual |->
              CASE x = l1 -> 1 [] x = r1 -> 3 [] OTHER -> 7]

Procs == Permutations(Proc)
=============================================================================
