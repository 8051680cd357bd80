--------------------------- MODULE FinanceProofs ---------------------------
(* Theorems about module Finance, for every set of events, lessons,        *)
(* receipts and corrections, any number of concurrent handlers and a       *)
(* ledger of any length: which rows it has, and which balance is told of   *)
(* it.                                                                     *)
EXTENDS Finance, FiniteSetTheorems, WellFoundedInduction, TLAPS

TypeInv ==
  /\ ledger \in Seq(Row)
  /\ receipts \in [Receipt -> ReceiptStatus]
  /\ processed \subseteq Event
  /\ task \in [Proc -> Task \cup {Idle}]

(* What a handler may rely on while it works on a reference.               *)
TaskSound(p) ==
  /\ task[p].op \in {"charge", "mark"} => task[p].ref \in Event /\ Charges(task[p].ref)
  /\ task[p].op = "mark" => Rows("charge", task[p].ref.lesson) # {}
  /\ task[p].op = "correct" => task[p].ref \in Event /\ Corrects(task[p].ref)
  /\ task[p].op = "manual" => task[p].ref \in Manual
  /\ task[p].op \in {"confirm", "reject"} => task[p].ref \in Receipt

(* An event outside the inbox has corrected nothing: this is why the inbox *)
(* alone keeps a correction from being repeated.                           *)
CorrectedIsProcessed == \A e \in Event \ processed : Rows("correction", e) = {}

LedgerInv ==
  /\ TypeInv
  /\ \A p \in Proc : TaskSound(p)
  /\ OneCharge
  /\ CorrectedIsProcessed
  /\ OneCorrection
  /\ PaidIffConfirmed
  /\ InboxApplied

-----------------------------------------------------------------------------

LEMMA InitLedgerInv == Init => LedgerInv
<1> SUFFICES ASSUME Init PROVE LedgerInv
  OBVIOUS
<1>1. TypeInv
  BY DEF Init, TypeInv, ReceiptStatus, Idle
<1>2. \A type, ref : Rows(type, ref) = {}
  BY DEF Init, Rows
<1>3. \A p \in Proc : TaskSound(p)
  BY DEF Init, TaskSound, Idle
<1> QED BY <1>1, <1>2, <1>3 DEF Init, LedgerInv, OneCharge, CorrectedIsProcessed, OneCorrection,
      PaidIffConfirmed, InboxApplied

(* Entering a row adds it to the rows of its type and reference and leaves *)
(* all others alone.                                                       *)
LEMMA RowsAfterEnter ==
  ASSUME TypeInv, NEW p \in Proc, NEW row \in Row, NEW events, Enter(p, row, events)
  PROVE  /\ ledger' \in Seq(Row)
         /\ Rows(row.type, row.ref)' = Rows(row.type, row.ref) \cup {Len(ledger) + 1}
         /\ \A type, ref : type # row.type \/ ref # row.ref => Rows(type, ref)' = Rows(type, ref)
<1>1. ledger' = Append(ledger, row) /\ ledger \in Seq(Row)
  BY DEF Enter, TypeInv
<1>2. /\ DOMAIN ledger' = DOMAIN ledger \cup {Len(ledger) + 1}
      /\ Len(ledger) + 1 \notin DOMAIN ledger
      /\ ledger'[Len(ledger) + 1] = row
      /\ \A i \in DOMAIN ledger : ledger'[i] = ledger[i]
  BY <1>1
<1> QED BY <1>1, <1>2 DEF Rows

(* A step that leaves the ledger, the receipts and the inbox alone.        *)
LEMMA TaskStepKeeps ==
  ASSUME LedgerInv, UNCHANGED <<ledger, receipts, processed>>,
         task' \in [Proc -> Task \cup {Idle}], \A p \in Proc : TaskSound(p)'
  PROVE  LedgerInv'
<1>1. \A type, ref : Rows(type, ref)' = Rows(type, ref)
  BY DEF Rows
<1> QED BY <1>1 DEF LedgerInv, TypeInv, OneCharge, CorrectedIsProcessed, OneCorrection,
      PaidIffConfirmed, InboxApplied

(* ... and only gives a handler something sound to do.                     *)
LEMMA StartKeeps ==
  ASSUME LedgerInv, NEW p \in Proc, NEW job \in Task \cup {Idle},
         UNCHANGED <<ledger, receipts, processed>>,
         task' = [task EXCEPT ![p] = job],
         /\ job.op \in {"charge", "mark"} => job.ref \in Event /\ Charges(job.ref)
         /\ job.op = "mark" => Rows("charge", job.ref.lesson) # {}
         /\ job.op = "correct" => job.ref \in Event /\ Corrects(job.ref)
         /\ job.op = "manual" => job.ref \in Manual
         /\ job.op \in {"confirm", "reject"} => job.ref \in Receipt
  PROVE  LedgerInv'
<1>1. task' \in [Proc -> Task \cup {Idle}]
  BY DEF LedgerInv, TypeInv
<1>2. \A type, ref : Rows(type, ref)' = Rows(type, ref)
  BY DEF Rows
<1>3. ASSUME NEW q \in Proc PROVE TaskSound(q)'
  <2>1. CASE q = p
    <3>1. task'[q] = job
      BY <2>1 DEF LedgerInv, TypeInv
    <3> QED BY <1>2, <3>1 DEF TaskSound
  <2>2. CASE q # p
    <3>1. task'[q] = task[q]
      BY <2>2 DEF LedgerInv, TypeInv
    <3> QED BY <1>2, <3>1 DEF TaskSound, LedgerInv
  <2> QED BY <2>1, <2>2
<1> QED BY <1>1, <1>3, TaskStepKeeps

-----------------------------------------------------------------------------
(* Handlers that only start, end or fail, and statements that enter no row.*)

LEMMA EndKeeps ==
  ASSUME LedgerInv, NEW p \in Proc, End(p), UNCHANGED <<ledger, receipts, processed>>
  PROVE  LedgerInv'
BY StartKeeps DEF End, Idle

LEMMA BeginStatementKeeps ==
  ASSUME LedgerInv, NEW p \in Proc, BeginStatement(p)
  PROVE  LedgerInv'
<1> DEFINE job == [task[p] EXCEPT !.snapshot = Len(ledger)]
<1>1. task[p] \in Task
  BY DEF BeginStatement, LedgerInv, TypeInv, Idle
<1>2. Len(ledger) \in Int
  BY DEF LedgerInv, TypeInv
<1>3. job \in Task /\ job.op = task[p].op /\ job.ref = task[p].ref
  BY <1>1, <1>2 DEF Task
<1>4. task' = [task EXCEPT ![p] = job] /\ UNCHANGED <<ledger, receipts, processed>>
  BY DEF BeginStatement
<1>5. TaskSound(p)
  BY DEF LedgerInv
<1> HIDE DEF job
<1> QED BY <1>3, <1>4, <1>5, StartKeeps DEF TaskSound

LEMMA DeliverKeeps ==
  ASSUME LedgerInv, DeliverStep
  PROVE  LedgerInv'
<1> PICK p \in Proc, e \in Event : OnLessonCompleted(p, e) \/ OnLessonCancelledOrRestored(p, e)
  BY DEF DeliverStep
<1>1. CASE OnLessonCompleted(p, e)
  <2> DEFINE job == [op |-> "charge", ref |-> e, snapshot |-> NotStarted]
  <2>1. job \in Task
    BY DEF Task, Ref, NotStarted
  <2> QED BY <1>1, <2>1, StartKeeps DEF OnLessonCompleted, Start
<1>2. CASE OnLessonCancelledOrRestored(p, e)
  <2> DEFINE job == [op |-> "correct", ref |-> e, snapshot |-> NotStarted]
  <2>1. job \in Task
    BY DEF Task, Ref, NotStarted
  <2> QED BY <1>2, <2>1, StartKeeps DEF OnLessonCancelledOrRestored, Start
<1> QED BY <1>1, <1>2

LEMMA ReadKeeps ==
  ASSUME LedgerInv, NEW p \in Proc, NEW r \in Receipt, ReadForConfirm(p, r) \/ ReadForReject(p, r)
  PROVE  LedgerInv'
<1>1. \A op \in {"confirm", "reject"} : [op |-> op, ref |-> r, snapshot |-> NotStarted] \in Task
  BY DEF Task, Ref, NotStarted
<1>2. CASE ReadForConfirm(p, r)
  BY <1>1, <1>2, StartKeeps DEF ReadForConfirm, Start
<1>3. CASE ReadForReject(p, r)
  BY <1>1, <1>3, StartKeeps DEF ReadForReject, Start
<1> QED BY <1>2, <1>3

LEMMA ManualStartKeeps ==
  ASSUME LedgerInv, NEW p \in Proc, NEW m \in Manual, ManualCorrection(p, m)
  PROVE  LedgerInv'
<1>1. [op |-> "manual", ref |-> m, snapshot |-> NotStarted] \in Task
  BY DEF Task, Ref, NotStarted
<1> QED BY <1>1, StartKeeps DEF ManualCorrection, Start

LEMMA CreateReceiptKeeps ==
  ASSUME LedgerInv, NEW r \in Receipt, CreateReceipt(r)
  PROVE  LedgerInv'
<1>1. /\ \A type, ref : Rows(type, ref)' = Rows(type, ref)
      /\ \A p \in Proc : TaskSound(p)'
  BY DEF CreateReceipt, Rows, TaskSound, LedgerInv
<1>2. TypeInv'
  BY DEF CreateReceipt, LedgerInv, TypeInv, ReceiptStatus
<1>3. PaidIffConfirmed'
  BY <1>1 DEF CreateReceipt, LedgerInv, TypeInv, PaidIffConfirmed
<1> QED BY <1>1, <1>2, <1>3 DEF CreateReceipt, LedgerInv, OneCharge, CorrectedIsProcessed,
      OneCorrection, InboxApplied

LEMMA RejectKeeps ==
  ASSUME LedgerInv, NEW p \in Proc, RejectReceipt(p)
  PROVE  LedgerInv'
<1> DEFINE r == task[p].ref
<1>1. r \in Receipt /\ End(p) /\ UNCHANGED <<ledger, processed>>
  BY DEF RejectReceipt, LedgerInv, TaskSound
<1>2. CASE receipts[r] \notin {"pending_review", "rejected"}
  BY <1>1, <1>2, EndKeeps DEF RejectReceipt
<1>3. CASE receipts[r] \in {"pending_review", "rejected"}
  <2>1. receipts' = [receipts EXCEPT ![r] = "rejected"]
    BY <1>3 DEF RejectReceipt
  <2>2. /\ \A type, ref : Rows(type, ref)' = Rows(type, ref)
        /\ task' = [task EXCEPT ![p] = Idle]
    BY <1>1 DEF Rows, End
  <2>3. TypeInv'
    BY <1>1, <2>1, <2>2 DEF LedgerInv, TypeInv, ReceiptStatus
  <2>4. \A q \in Proc : TaskSound(q)'
    BY <2>2 DEF LedgerInv, TypeInv, TaskSound, Idle
  <2>5. PaidIffConfirmed'
    BY <1>1, <1>3, <2>1, <2>2 DEF LedgerInv, TypeInv, PaidIffConfirmed
  <2> QED BY <1>1, <2>2, <2>3, <2>4, <2>5 DEF LedgerInv, OneCharge, CorrectedIsProcessed,
        OneCorrection, InboxApplied
<1> QED BY <1>2, <1>3

LEMMA MarkKeeps ==
  ASSUME LedgerInv, NEW p \in Proc, MarkEventProcessed(p)
  PROVE  LedgerInv'
<1> DEFINE e == task[p].ref
<1>1. /\ e \in Event /\ Charges(e) /\ Rows("charge", e.lesson) # {}
      /\ End(p) /\ processed' = processed \cup {e} /\ UNCHANGED <<ledger, receipts>>
  BY DEF MarkEventProcessed, LedgerInv, TaskSound
<1>2. /\ \A type, ref : Rows(type, ref)' = Rows(type, ref)
      /\ task' = [task EXCEPT ![p] = Idle]
  BY <1>1 DEF Rows, End
<1>3. TypeInv'
  BY <1>1, <1>2 DEF LedgerInv, TypeInv
<1>4. \A q \in Proc : TaskSound(q)'
  BY <1>2 DEF LedgerInv, TypeInv, TaskSound, Idle
<1>5. InboxApplied'
  BY <1>1, <1>2 DEF LedgerInv, InboxApplied
<1> QED BY <1>1, <1>2, <1>3, <1>4, <1>5 DEF LedgerInv, OneCharge, CorrectedIsProcessed,
      OneCorrection, PaidIffConfirmed

-----------------------------------------------------------------------------
(* Statements that enter a row.                                            *)

(* Entering a row keeps what the other handlers rely on: rows are never    *)
(* removed.                                                                *)
LEMMA EnterTasks ==
  ASSUME LedgerInv, NEW p \in Proc, NEW row \in Row, NEW events, Enter(p, row, events),
         NEW job \in Task \cup {Idle}, task' = [task EXCEPT ![p] = job],
         \/ job = Idle
         \/ /\ job.op = "mark" /\ job.ref \in Event /\ Charges(job.ref)
            /\ row.type = "charge" /\ row.ref = job.ref.lesson
  PROVE  /\ task' \in [Proc -> Task \cup {Idle}]
         /\ \A q \in Proc : TaskSound(q)'
<1>1. task' \in [Proc -> Task \cup {Idle}]
  BY DEF LedgerInv, TypeInv
<1>2. \A type, ref : Rows(type, ref) \subseteq Rows(type, ref)'
  BY RowsAfterEnter DEF LedgerInv
<1>3. ASSUME NEW q \in Proc, q # p PROVE TaskSound(q)'
  <2>1. task'[q] = task[q] /\ TaskSound(q)
    BY <1>3 DEF LedgerInv, TypeInv
  <2> QED BY <1>2, <2>1 DEF TaskSound
<1>4. TaskSound(p)'
  <2>1. task'[p] = job
    BY DEF LedgerInv, TypeInv
  <2>2. CASE job = Idle
    BY <2>1, <2>2 DEF TaskSound, Idle
  <2>3. CASE job # Idle
    <3>1. Rows("charge", job.ref.lesson)' # {}
      BY <2>3, RowsAfterEnter DEF LedgerInv
    <3> QED BY <2>1, <2>3, <3>1 DEF TaskSound, Charges
  <2> QED BY <2>2, <2>3
<1> QED BY <1>1, <1>3, <1>4

LEMMA ChargeKeeps ==
  ASSUME LedgerInv, NEW p \in Proc, CreateCharge(p)
  PROVE  LedgerInv'
<1> PICK e \in Event : e = task[p].ref /\ Charges(e)
  BY DEF CreateCharge, Running, LedgerInv, TaskSound
<1> DEFINE row == [type |-> "charge", ref |-> e.lesson, amount |-> Amount[e.lesson]]
           job == [op |-> "mark", ref |-> e, snapshot |-> NotStarted]
<1>1. e.lesson \in Lesson /\ UNCHANGED <<receipts, processed>>
  BY EventAssumption DEF CreateCharge
<1>2. job \in Task /\ (ToMark(p) => task' = [task EXCEPT ![p] = job])
  BY DEF Task, Ref, NotStarted, ToMark
<1>3. CASE Rows("charge", e.lesson) = {}
  <2>1. row \in Row
    BY <1>1, AmountAssumption DEF Row, Ref
  <2>2. PICK events : Enter(p, row, events)
    BY <1>3 DEF CreateCharge
  <2>3. task' = [task EXCEPT ![p] = job]
    BY <1>2, <1>3 DEF CreateCharge
  <2>4. task' \in [Proc -> Task \cup {Idle}] /\ \A q \in Proc : TaskSound(q)'
    <3>1. job.op = "mark" /\ job.ref = e /\ row.type = "charge" /\ row.ref = e.lesson
      OBVIOUS
    <3> HIDE DEF job, row
    <3> QED BY <1>2, <2>1, <2>2, <2>3, <3>1, EnterTasks
  <2>5. /\ ledger' \in Seq(Row)
        /\ Rows("charge", e.lesson)' = {Len(ledger) + 1}
        /\ \A type, ref : type # "charge" \/ ref # e.lesson => Rows(type, ref)' = Rows(type, ref)
    <3>1. row.type = "charge" /\ row.ref = e.lesson
      OBVIOUS
    <3> HIDE DEF row
    <3>2. /\ ledger' \in Seq(Row)
          /\ Rows(row.type, row.ref)' = Rows(row.type, row.ref) \cup {Len(ledger) + 1}
          /\ \A type, ref : type # row.type \/ ref # row.ref => Rows(type, ref)' = Rows(type, ref)
      BY <2>1, <2>2, RowsAfterEnter DEF LedgerInv
    <3> QED BY <1>3, <3>1, <3>2
  <2>6. OneCharge'
    BY <2>5 DEF LedgerInv, OneCharge
  <2>7. InboxApplied'
    BY <1>1, <2>5 DEF LedgerInv, InboxApplied
  <2> QED BY <1>1, <2>4, <2>5, <2>6, <2>7 DEF LedgerInv, TypeInv, CorrectedIsProcessed,
        OneCorrection, PaidIffConfirmed
<1>4. CASE Rows("charge", e.lesson) # {}
  <2>1. UNCHANGED ledger /\ (ToMark(p) \/ End(p))
    BY <1>4 DEF CreateCharge
  <2>2. CASE End(p)
    BY <1>1, <2>1, <2>2, EndKeeps
  <2>3. CASE ToMark(p)
    <3>1. job.op = "mark" /\ job.ref = e
      OBVIOUS
    <3> HIDE DEF job
    <3> QED BY <1>1, <1>2, <1>4, <2>1, <2>3, <3>1, StartKeeps
  <2> QED BY <2>1, <2>2, <2>3
<1> QED BY <1>3, <1>4

LEMMA CorrectionKeeps ==
  ASSUME LedgerInv, NEW p \in Proc, CreateEventCorrection(p)
  PROVE  LedgerInv'
<1> PICK e \in Event : e = task[p].ref /\ Corrects(e)
  BY DEF CreateEventCorrection, Running, LedgerInv, TaskSound
<1>1. e.lesson \in Lesson /\ task' = [task EXCEPT ![p] = Idle]
  BY EventAssumption DEF CreateEventCorrection, End
<1>2. CASE e \in processed
  BY <1>2, EndKeeps DEF CreateEventCorrection
<1>3. CASE e \notin processed
  <2>1. /\ Enter(p, Correction(e), <<>>)
        /\ processed' = processed \cup {e} /\ UNCHANGED receipts
    BY <1>3 DEF CreateEventCorrection
  <2>2. Correction(e) \in Row /\ Correction(e).type = "correction" /\ Correction(e).ref = e
    BY <1>1, AmountAssumption DEF Correction, Row, Ref
  <2>3. task' \in [Proc -> Task \cup {Idle}] /\ \A q \in Proc : TaskSound(q)'
    BY <1>1, <2>1, <2>2, EnterTasks
  <2>4. /\ ledger' \in Seq(Row)
        /\ Rows("correction", e)' = {Len(ledger) + 1}
        /\ \A type, ref : type # "correction" \/ ref # e => Rows(type, ref)' = Rows(type, ref)
    <3>1. Rows("correction", e) = {}
      BY <1>3 DEF LedgerInv, CorrectedIsProcessed
    <3> DEFINE row == Correction(e)
    <3> HIDE DEF row
    <3>2. /\ ledger' \in Seq(Row)
          /\ Rows(row.type, row.ref)' = Rows(row.type, row.ref) \cup {Len(ledger) + 1}
          /\ \A type, ref : type # row.type \/ ref # row.ref => Rows(type, ref)' = Rows(type, ref)
      BY <2>1, <2>2, RowsAfterEnter DEF LedgerInv, row
    <3> QED BY <2>2, <3>1, <3>2 DEF row
  <2>5. CorrectedIsProcessed' /\ OneCorrection'
    BY <2>1, <2>4 DEF LedgerInv, CorrectedIsProcessed, OneCorrection
  <2>6. InboxApplied'
    BY <1>1, <2>1, <2>4 DEF LedgerInv, InboxApplied, Corrects, Charges
  <2>7. OneCharge' /\ PaidIffConfirmed'
    BY <2>1, <2>4 DEF LedgerInv, OneCharge, PaidIffConfirmed
  <2> QED BY <1>1, <2>1, <2>3, <2>4, <2>5, <2>6, <2>7 DEF LedgerInv, TypeInv
<1> QED BY <1>2, <1>3

LEMMA ManualKeeps ==
  ASSUME LedgerInv, NEW p \in Proc, CreateCorrection(p)
  PROVE  LedgerInv'
<1> PICK m \in Manual : m = task[p].ref
  BY DEF CreateCorrection, Running, LedgerInv, TaskSound
<1> DEFINE row == [type |-> "correction", ref |-> m, amount |-> Amount[m]]
<1>1. m \notin Event
  BY RefAssumption
<1>2. row \in Row /\ row.type = "correction" /\ row.ref = m
  BY <1>1, AmountAssumption DEF Row, Ref
<1>3. /\ Enter(p, row, <<>>) /\ task' = [task EXCEPT ![p] = Idle]
      /\ UNCHANGED <<receipts, processed>>
  BY DEF CreateCorrection, End
<1> HIDE DEF row
<1>4. task' \in [Proc -> Task \cup {Idle}] /\ \A q \in Proc : TaskSound(q)'
  BY <1>2, <1>3, EnterTasks
<1>5. /\ ledger' \in Seq(Row)
      /\ \A type, ref : type # "correction" \/ ref # m => Rows(type, ref)' = Rows(type, ref)
      /\ \A type, ref : Rows(type, ref) \subseteq Rows(type, ref)'
  BY <1>2, <1>3, RowsAfterEnter DEF LedgerInv
<1>6. CorrectedIsProcessed' /\ OneCorrection'
  BY <1>1, <1>3, <1>5 DEF LedgerInv, CorrectedIsProcessed, OneCorrection
<1>7. InboxApplied'
  BY <1>1, <1>3, <1>5 DEF LedgerInv, InboxApplied
<1>8. OneCharge' /\ PaidIffConfirmed'
  BY <1>3, <1>5 DEF LedgerInv, OneCharge, PaidIffConfirmed
<1> QED BY <1>3, <1>4, <1>5, <1>6, <1>7, <1>8 DEF LedgerInv, TypeInv

LEMMA ConfirmKeeps ==
  ASSUME LedgerInv, NEW p \in Proc, ConfirmReceipt(p)
  PROVE  LedgerInv'
<1> PICK r \in Receipt : r = task[p].ref
  BY DEF ConfirmReceipt, Running, LedgerInv, TaskSound
<1> DEFINE row == [type |-> "payment", ref |-> r, amount |-> Amount[r]]
<1>1. task' = [task EXCEPT ![p] = Idle] /\ End(p) /\ UNCHANGED processed
  BY DEF ConfirmReceipt, End
<1>2. CASE receipts[r] \notin {"pending_review", "confirmed"}
  BY <1>1, <1>2, EndKeeps DEF ConfirmReceipt
<1>3. CASE receipts[r] = "confirmed"
  <2>1. Rows("payment", r) # {}
    BY <1>1, <1>3 DEF LedgerInv, PaidIffConfirmed
  <2>2. receipts' = receipts /\ UNCHANGED ledger
    BY <1>1, <1>3, <2>1 DEF ConfirmReceipt, LedgerInv, TypeInv
  <2> QED BY <1>1, <2>2, EndKeeps
<1>4. CASE receipts[r] = "pending_review"
  <2>1. Rows("payment", r) = {}
    BY <1>1, <1>4 DEF LedgerInv, PaidIffConfirmed
  <2>2. row \in Row /\ row.type = "payment" /\ row.ref = r
    BY <1>1, AmountAssumption DEF Row, Ref
  <2>3. receipts' = [receipts EXCEPT ![r] = "confirmed"]
    BY <1>4 DEF ConfirmReceipt
  <2>4. PICK events : Enter(p, row, events)
    BY <1>4, <2>1 DEF ConfirmReceipt
  <2> HIDE DEF row
  <2>5. task' \in [Proc -> Task \cup {Idle}] /\ \A q \in Proc : TaskSound(q)'
    BY <1>1, <2>2, <2>4, EnterTasks
  <2>6. /\ ledger' \in Seq(Row)
        /\ Rows("payment", r)' = {Len(ledger) + 1}
        /\ \A type, ref : type # "payment" \/ ref # r => Rows(type, ref)' = Rows(type, ref)
    <3>1. /\ ledger' \in Seq(Row)
          /\ Rows(row.type, row.ref)' = Rows(row.type, row.ref) \cup {Len(ledger) + 1}
          /\ \A type, ref : type # row.type \/ ref # row.ref => Rows(type, ref)' = Rows(type, ref)
      BY <2>2, <2>4, RowsAfterEnter DEF LedgerInv
    <3> QED BY <2>1, <2>2, <3>1
  <2>7. PaidIffConfirmed'
    <3> SUFFICES ASSUME NEW q \in Receipt
                 PROVE  /\ \A i, j \in Rows("payment", q)' : i = j
                        /\ receipts'[q] = "confirmed" <=> Rows("payment", q)' # {}
      BY DEF PaidIffConfirmed
    <3>1. CASE q = r
      BY <2>3, <2>6, <3>1 DEF LedgerInv, TypeInv
    <3>2. CASE q # r
      <4>1. Rows("payment", q)' = Rows("payment", q) /\ receipts'[q] = receipts[q]
        BY <2>3, <2>6, <3>2 DEF LedgerInv, TypeInv
      <4> QED BY <4>1 DEF LedgerInv, PaidIffConfirmed
    <3> QED BY <3>1, <3>2
  <2>8. receipts' \in [Receipt -> ReceiptStatus]
    BY <1>1, <2>3 DEF LedgerInv, TypeInv, ReceiptStatus
  <2>9. OneCharge' /\ CorrectedIsProcessed' /\ OneCorrection' /\ InboxApplied'
    BY <1>1, <2>6 DEF LedgerInv, OneCharge, CorrectedIsProcessed, OneCorrection, InboxApplied
  <2> QED BY <1>1, <2>5, <2>6, <2>7, <2>8, <2>9 DEF LedgerInv, TypeInv
<1> QED BY <1>2, <1>3, <1>4

-----------------------------------------------------------------------------

LEMMA NextLedgerInv == LedgerInv /\ [Next]_vars => LedgerInv'
<1> SUFFICES ASSUME LedgerInv, [Next]_vars PROVE LedgerInv'
  OBVIOUS
<1>1. CASE DeliverStep
  BY <1>1, DeliverKeeps
<1>2. CASE RequestStep
  BY <1>2, CreateReceiptKeeps, ReadKeeps, ManualStartKeeps DEF RequestStep
<1>3. CASE TaskStep
  <2> PICK p \in Proc : BeginStatement(p) \/ ConsumerStatement(p) \/ RequestStatement(p) \/ Crash(p)
    BY <1>3 DEF TaskStep
  <2>1. CASE BeginStatement(p)
    BY <2>1, BeginStatementKeeps
  <2>2. CASE ConsumerStatement(p)
    BY <2>2, ChargeKeeps, MarkKeeps, CorrectionKeeps DEF ConsumerStatement
  <2>3. CASE RequestStatement(p)
    BY <2>3, ManualKeeps, ConfirmKeeps, RejectKeeps DEF RequestStatement
  <2>4. CASE Crash(p)
    BY <2>4, EndKeeps DEF Crash
  <2> QED BY <2>1, <2>2, <2>3, <2>4
<1>4. CASE UNCHANGED vars
  <2>1. \A p \in Proc : TaskSound(p)'
    BY <1>4 DEF vars, LedgerInv, TaskSound, Rows
  <2> QED BY <1>4, <2>1, TaskStepKeeps DEF vars, LedgerInv, TypeInv
<1> QED BY <1>1, <1>2, <1>3, <1>4 DEF Next

(* The invariant behind the theorems below.                                *)
THEOREM LedgerInvariant == Spec => []LedgerInv
BY InitLedgerInv, NextLedgerInv, PTL DEF Spec

(* A lesson is charged at most once, however often and by however many     *)
(* consumers its completion is handled (ON CONFLICT in CreateCharge).      *)
THEOREM ChargedOnce == Spec => []OneCharge
<1>1. LedgerInv => OneCharge
  BY DEF LedgerInv
<1> QED BY <1>1, LedgerInvariant, PTL

(* A cancellation or restoration enters one correction, however often it   *)
(* is delivered (the inbox row and the ledger row are one statement).      *)
THEOREM CorrectedOnce == Spec => []OneCorrection
<1>1. LedgerInv => OneCorrection
  BY DEF LedgerInv
<1> QED BY <1>1, LedgerInvariant, PTL

(* Whatever confirmations and rejections race, a receipt is paid in        *)
(* exactly when it is confirmed, and once.                                 *)
THEOREM PaymentsMatchReceipts == Spec => []PaidIffConfirmed
<1>1. LedgerInv => PaidIffConfirmed
  BY DEF LedgerInv
<1> QED BY <1>1, LedgerInvariant, PTL

(* No crash between the effect of an event and its inbox mark leaves a     *)
(* mark without the effect.                                                *)
THEOREM MarkedIsApplied == Spec => []InboxApplied
<1>1. LedgerInv => InboxApplied
  BY DEF LedgerInv
<1> QED BY <1>1, LedgerInvariant, PTL

-----------------------------------------------------------------------------
(* What is announced of receipts.                                          *)

OutboxIsSeq == \E S : outbox \in Seq(S)
Among(type, r, events) == \E i \in DOMAIN events : events[i].type = type /\ events[i].ref = r

DecisionInv == LedgerInv /\ OutboxIsSeq /\ DecisionFinal

LEMMA AnnouncedAfter ==
  ASSUME OutboxIsSeq, NEW T, NEW events \in Seq(T), outbox' = outbox \o events
  PROVE  /\ OutboxIsSeq'
         /\ \A type, r : Announced(type, r)' <=> Announced(type, r) \/ Among(type, r, events)
<1> PICK S : outbox \in Seq(S)
  BY DEF OutboxIsSeq
<1>1. outbox' \in Seq(S \cup T)
  <2>1. outbox \in Seq(S \cup T) /\ events \in Seq(S \cup T)
    OBVIOUS
  <2> QED BY <2>1
<1>2. /\ DOMAIN outbox = 1..Len(outbox) /\ DOMAIN events = 1..Len(events)
      /\ Len(outbox) \in Nat /\ Len(events) \in Nat
      /\ DOMAIN outbox' = 1..(Len(outbox) + Len(events))
      /\ \A i \in DOMAIN outbox : outbox'[i] = outbox[i]
      /\ \A i \in DOMAIN events : outbox'[Len(outbox) + i] = events[i]
  OBVIOUS
<1>3. ASSUME NEW type, NEW r
      PROVE  Announced(type, r)' <=> Announced(type, r) \/ Among(type, r, events)
  <2>1. ASSUME Announced(type, r)' PROVE Announced(type, r) \/ Among(type, r, events)
    <3>1. PICK i \in DOMAIN outbox' : outbox'[i].type = type /\ outbox'[i].ref = r
      BY <2>1 DEF Announced
    <3>2. CASE i \in DOMAIN outbox
      BY <1>2, <3>1, <3>2 DEF Announced
    <3>3. CASE i \notin DOMAIN outbox
      <4>1. i - Len(outbox) \in DOMAIN events /\ outbox'[i] = events[i - Len(outbox)]
        BY <1>2, <3>3
      <4> QED BY <3>1, <4>1 DEF Among
    <3> QED BY <3>2, <3>3
  <2>2. Announced(type, r) => Announced(type, r)'
    BY <1>2 DEF Announced
  <2>3. Among(type, r, events) => Announced(type, r)'
    <3>1. ASSUME NEW i \in DOMAIN events, events[i].type = type, events[i].ref = r
          PROVE  Announced(type, r)'
      <4>1. Len(outbox) + i \in DOMAIN outbox'
        BY <1>2
      <4> QED BY <1>2, <3>1, <4>1 DEF Announced
    <3> QED BY <3>1 DEF Among
  <2> QED BY <2>1, <2>2, <2>3
<1> QED BY <1>1, <1>3 DEF OutboxIsSeq


LEMMA EnterAnnounces ==
  ASSUME OutboxIsSeq, NEW p, NEW row, NEW T, NEW events \in Seq(T), Enter(p, row, events)
  PROVE  /\ OutboxIsSeq'
         /\ \A type, r : type # "balance.changed" =>
              (Announced(type, r)' <=> Announced(type, r) \/ Among(type, r, events))
<1> DEFINE balance == [type |-> "balance.changed", ref |-> row.ref,
                       balance |-> Balance(task[p].snapshot) + Signed(row)]
<1>0. outbox' = outbox \o events \o <<balance>> /\ balance.type = "balance.changed"
  BY DEF Enter
<1> HIDE DEF balance
<1> PICK S : outbox \in Seq(S)
  BY DEF OutboxIsSeq
<1>1. outbox' = outbox \o (events \o <<balance>>)
  <2>1. outbox \in Seq(S \cup T \cup {balance}) /\ events \in Seq(S \cup T \cup {balance})
    OBVIOUS
  <2> QED BY <1>0, <2>1
<1>2. events \o <<balance>> \in Seq(T \cup {balance})
  <2>1. events \in Seq(T \cup {balance})
    OBVIOUS
  <2> QED BY <2>1
<1>3. ASSUME NEW type, NEW r, type # "balance.changed"
      PROVE  Among(type, r, events \o <<balance>>) <=> Among(type, r, events)
  <2> DEFINE all == events \o <<balance>>
  <2>1. /\ DOMAIN events = 1..Len(events) /\ Len(events) \in Nat
        /\ DOMAIN all = 1..(Len(events) + 1)
        /\ \A i \in DOMAIN events : all[i] = events[i]
        /\ all[Len(events) + 1] = balance
    OBVIOUS
  <2> HIDE DEF all
  <2>2. ASSUME NEW i \in DOMAIN all, all[i].type = type PROVE i \in DOMAIN events
    BY <1>0, <1>3, <2>1, <2>2
  <2>3. Among(type, r, all) => Among(type, r, events)
    BY <2>1, <2>2 DEF Among
  <2>4. Among(type, r, events) => Among(type, r, all)
    <3>1. DOMAIN events \subseteq DOMAIN all
      BY <2>1
    <3> QED BY <2>1, <3>1 DEF Among
  <2> QED BY <2>3, <2>4 DEF all
<1> HIDE DEF OutboxIsSeq, Announced, Among
<1> QED BY <1>1, <1>2, <1>3, AnnouncedAfter

(* A step that decides nothing and announces no decision.                  *)
LEMMA UndecidedKeeps ==
  ASSUME DecisionInv, LedgerInv', OutboxIsSeq', UNCHANGED receipts,
         \A r : /\ Announced("payment.rejected", r)' <=> Announced("payment.rejected", r)
                /\ Announced("payment.confirmed", r)' <=> Announced("payment.confirmed", r)
  PROVE  DecisionInv'
BY DEF DecisionInv, DecisionFinal

LEMMA SilentKeeps ==
  ASSUME DecisionInv, LedgerInv', UNCHANGED <<receipts, outbox>>
  PROVE  DecisionInv'
<1>1. OutboxIsSeq' /\ \A type, r : Announced(type, r)' <=> Announced(type, r)
  BY DEF DecisionInv, OutboxIsSeq, Announced
<1> QED BY <1>1, UndecidedKeeps

LEMMA EnteringKeeps ==
  ASSUME DecisionInv, LedgerInv', UNCHANGED receipts, NEW p, NEW row, NEW T,
         NEW events \in Seq(T), Enter(p, row, events),
         \A i \in DOMAIN events : events[i].type \notin {"payment.rejected", "payment.confirmed"}
  PROVE  DecisionInv'
<1>1. \A r : ~Among("payment.rejected", r, events) /\ ~Among("payment.confirmed", r, events)
  BY DEF Among
<1> QED BY <1>1, EnterAnnounces, UndecidedKeeps DEF DecisionInv

LEMMA ChargeDecides ==
  ASSUME DecisionInv, LedgerInv', NEW p \in Proc, CreateCharge(p)
  PROVE  DecisionInv'
<1> DEFINE lesson == task[p].ref.lesson
           row == [type |-> "charge", ref |-> lesson, amount |-> Amount[lesson]]
           created == [type |-> "charge.created", ref |-> lesson, balance |-> 0]
<1>1. CASE Rows("charge", lesson) = {}
  <2>1. Enter(p, row, <<created>>) /\ UNCHANGED receipts
    BY <1>1 DEF CreateCharge
  <2>2. <<created>> \in Seq({created}) /\ \A i \in DOMAIN <<created>> : <<created>>[i].type = "charge.created"
    OBVIOUS
  <2> HIDE DEF created, row
  <2> QED BY <2>1, <2>2, EnteringKeeps
<1>2. CASE Rows("charge", lesson) # {}
  BY <1>2, SilentKeeps DEF CreateCharge
<1> QED BY <1>1, <1>2

LEMMA CorrectionDecides ==
  ASSUME DecisionInv, LedgerInv', NEW p \in Proc, CreateEventCorrection(p) \/ CreateCorrection(p)
  PROVE  DecisionInv'
<1>1. <<>> \in Seq({}) /\ DOMAIN <<>> = {}
  OBVIOUS
<1>2. CASE UNCHANGED <<receipts, outbox>>
  BY <1>2, SilentKeeps
<1>3. ASSUME NEW row, Enter(p, row, <<>>), UNCHANGED receipts PROVE DecisionInv'
  BY <1>1, <1>3, EnteringKeeps
<1> QED BY <1>2, <1>3 DEF CreateEventCorrection, CreateCorrection

LEMMA CreateReceiptDecides ==
  ASSUME DecisionInv, LedgerInv', NEW r \in Receipt, CreateReceipt(r)
  PROVE  DecisionInv'
<1> DEFINE uploaded == [type |-> "payment_receipt.uploaded", ref |-> r, balance |-> 0]
<1>1. outbox' = outbox \o <<uploaded>> /\ <<uploaded>> \in Seq({uploaded})
  <2> PICK S : outbox \in Seq(S)
    BY DEF DecisionInv, OutboxIsSeq
  <2>1. outbox' = Append(outbox, uploaded)
    BY DEF CreateReceipt
  <2> HIDE DEF uploaded
  <2> QED BY <2>1
<1>2. OutboxIsSeq' /\ \A type, q : type # "payment_receipt.uploaded" =>
        (Announced(type, q)' <=> Announced(type, q))
  <2>1. \A type, q : type # "payment_receipt.uploaded" => ~Among(type, q, <<uploaded>>)
    BY DEF Among
  <2> QED BY <1>1, <2>1, AnnouncedAfter DEF DecisionInv
<1>3. receipts[r] = "absent" /\ receipts' = [receipts EXCEPT ![r] = "pending_review"]
  BY DEF CreateReceipt
<1>4. DecisionFinal'
  BY <1>2, <1>3 DEF DecisionInv, DecisionFinal, LedgerInv, TypeInv
<1> QED BY <1>2, <1>4 DEF DecisionInv

LEMMA ConfirmDecides ==
  ASSUME DecisionInv, LedgerInv', NEW p \in Proc, ConfirmReceipt(p)
  PROVE  DecisionInv'
<1> PICK r \in Receipt : r = task[p].ref
  BY DEF ConfirmReceipt, Running, DecisionInv, LedgerInv, TaskSound
<1> DEFINE confirmed == [type |-> "payment.confirmed", ref |-> r, balance |-> 0]
           row == [type |-> "payment", ref |-> r, amount |-> Amount[r]]
<1>1. CASE receipts[r] = "pending_review"
  <2>1. Rows("payment", r) = {}
    BY <1>1 DEF DecisionInv, LedgerInv, PaidIffConfirmed
  <2>2. /\ receipts' = [receipts EXCEPT ![r] = "confirmed"]
        /\ Enter(p, row, <<confirmed>>)
    BY <1>1, <2>1 DEF ConfirmReceipt
  <2>3. /\ <<confirmed>> \in Seq({confirmed})
        /\ \A q : /\ ~Among("payment.rejected", q, <<confirmed>>)
                  /\ Among("payment.confirmed", q, <<confirmed>>) <=> q = r
    BY DEF Among
  <2> HIDE DEF confirmed, row
  <2>4. /\ OutboxIsSeq'
        /\ \A q : /\ Announced("payment.rejected", q)' <=> Announced("payment.rejected", q)
                  /\ Announced("payment.confirmed", q)' <=>
                       Announced("payment.confirmed", q) \/ q = r
    BY <2>2, <2>3, EnterAnnounces DEF DecisionInv
  <2>5. DecisionFinal'
    BY <1>1, <2>2, <2>4 DEF DecisionInv, DecisionFinal, LedgerInv, TypeInv
  <2> QED BY <2>4, <2>5 DEF DecisionInv
<1>2. CASE receipts[r] = "confirmed"
  <2>1. Rows("payment", r) # {}
    BY <1>2 DEF DecisionInv, LedgerInv, PaidIffConfirmed
  <2>2. UNCHANGED <<receipts, outbox>>
    BY <1>2, <2>1 DEF ConfirmReceipt, DecisionInv, LedgerInv, TypeInv
  <2> QED BY <2>2, SilentKeeps
<1>3. CASE receipts[r] \notin {"pending_review", "confirmed"}
  BY <1>3, SilentKeeps DEF ConfirmReceipt
<1> QED BY <1>1, <1>2, <1>3

LEMMA RejectDecides ==
  ASSUME DecisionInv, LedgerInv', NEW p \in Proc, RejectReceipt(p)
  PROVE  DecisionInv'
<1> PICK r \in Receipt : r = task[p].ref
  BY DEF RejectReceipt, DecisionInv, LedgerInv, TaskSound
<1> DEFINE rejected == [type |-> "payment.rejected", ref |-> r, balance |-> 0]
<1>1. CASE receipts[r] \in {"pending_review", "rejected"}
  <2>1. /\ receipts' = [receipts EXCEPT ![r] = "rejected"]
        /\ outbox' = Append(outbox, rejected)
    BY <1>1 DEF RejectReceipt
  <2>2. /\ <<rejected>> \in Seq({rejected})
        /\ \A q : /\ ~Among("payment.confirmed", q, <<rejected>>)
                  /\ Among("payment.rejected", q, <<rejected>>) <=> q = r
    BY DEF Among
  <2> HIDE DEF rejected
  <2>3. outbox' = outbox \o <<rejected>>
    BY <2>1 DEF DecisionInv, OutboxIsSeq
  <2>4. /\ OutboxIsSeq'
        /\ \A q : /\ Announced("payment.confirmed", q)' <=> Announced("payment.confirmed", q)
                  /\ Announced("payment.rejected", q)' <=>
                       Announced("payment.rejected", q) \/ q = r
    BY <2>2, <2>3, AnnouncedAfter DEF DecisionInv
  <2>5. DecisionFinal'
    BY <1>1, <2>1, <2>4 DEF DecisionInv, DecisionFinal, LedgerInv, TypeInv
  <2> QED BY <2>4, <2>5 DEF DecisionInv
<1>2. CASE receipts[r] \notin {"pending_review", "rejected"}
  BY <1>2, SilentKeeps DEF RejectReceipt
<1> QED BY <1>1, <1>2

LEMMA NextDecisionInv == DecisionInv /\ [Next]_vars => DecisionInv'
<1> SUFFICES ASSUME DecisionInv, [Next]_vars PROVE DecisionInv'
  OBVIOUS
<1>1. LedgerInv'
  BY NextLedgerInv DEF DecisionInv
<1>2. CASE UNCHANGED <<receipts, outbox>>
  BY <1>1, <1>2, SilentKeeps
<1>3. DeliverStep \/ UNCHANGED vars => UNCHANGED <<receipts, outbox>>
  BY DEF DeliverStep, OnLessonCompleted, OnLessonCancelledOrRestored, Start, vars
<1>4. ASSUME NEW p \in Proc, BeginStatement(p) \/ MarkEventProcessed(p) \/ Crash(p)
      PROVE  UNCHANGED <<receipts, outbox>>
  BY <1>4 DEF BeginStatement, MarkEventProcessed, Crash
<1>5. CASE RequestStep
  BY <1>1, <1>2, <1>5, CreateReceiptDecides
  DEF RequestStep, ReadForConfirm, ReadForReject, ManualCorrection, Start
<1>6. CASE TaskStep
  BY <1>1, <1>2, <1>4, <1>6, ChargeDecides, CorrectionDecides, ConfirmDecides, RejectDecides
  DEF TaskStep, ConsumerStatement, RequestStatement
<1> QED BY <1>2, <1>3, <1>5, <1>6 DEF Next

(* The decision on a receipt is final and is announced as it was made, and *)
(* nothing else is, whatever confirmations and rejections race.            *)
THEOREM DecisionsStand == Spec => []DecisionFinal
<1>1. Init => DecisionInv
  <2> SUFFICES ASSUME Init PROVE DecisionInv
    OBVIOUS
  <2>1. outbox = <<>> /\ \A r \in Receipt : receipts[r] = "absent"
    BY DEF Init
  <2>2. outbox \in Seq({}) /\ DOMAIN outbox = {}
    BY <2>1
  <2> QED BY <2>1, <2>2, InitLedgerInv DEF DecisionInv, OutboxIsSeq, DecisionFinal, Announced
<1>2. DecisionInv => DecisionFinal
  BY DEF DecisionInv
<1> QED BY <1>1, <1>2, NextDecisionInv, PTL DEF Spec

-----------------------------------------------------------------------------
(* Sums.  Their definition recurs; that there is a function that solves    *)
(* the recursion, and one only, takes induction, here in the form of the   *)
(* least counterexample.                                                   *)

(* A set of natural numbers has a least element.                           *)
LEMMA LeastNatural ==
  ASSUME NEW T \in SUBSET Nat, T # {}
  PROVE  \E m \in T : \A n \in T : m <= n
<1> DEFINE less == {ss \in Nat \X Nat : ss[1] < ss[2]}
<1>1. \A m, n \in Nat : m < n => <<m, n>> \in less
  OBVIOUS
<1>2. IsWellFoundedOn(less, Nat)
  BY NatLessThanWellFounded DEF OpToRel
<1> HIDE DEF less
<1>3. PICK m \in T : \A n \in T : <<n, m>> \notin less
  BY <1>2, WFMin
<1>4. \A n \in T : ~ (n < m)
  BY <1>1, <1>3
<1> QED BY <1>4

(* sum is the function of the sums of f up to n.                           *)
Sums(sum, f, n) == sum = [i \in 0..n |-> IF i = 0 THEN 0 ELSE sum[i - 1] + f[i]]

LEMMA SumsExist == \A f : \A n \in Nat : \E sum : Sums(sum, f, n)
<1> SUFFICES ASSUME NEW f, NEW k \in Nat, ~ \E sum : Sums(sum, f, k) PROVE FALSE
  OBVIOUS
<1> DEFINE T == {n \in Nat : ~ \E sum : Sums(sum, f, n)}
<1>1. PICK n \in T : \A m \in T : n <= m
  <2>1. T \in SUBSET Nat /\ T # {}
    OBVIOUS
  <2> HIDE DEF T
  <2> QED BY <2>1, LeastNatural
<1>2. CASE n = 0
  <2> DEFINE sum == [i \in 0..0 |-> 0]
  <2>1. Sums(sum, f, 0)
    BY DEF Sums
  <2> QED BY <1>2, <2>1
<1>3. CASE n # 0
  <2>1. n - 1 \in Nat /\ n - 1 \notin T
    BY <1>1, <1>3
  <2>2. PICK sum : Sums(sum, f, n - 1)
    BY <2>1
  <2> DEFINE next == [i \in 0..n |-> IF i = 0 THEN 0 ELSE sum[i - 1] + f[i]]
  <2>3. \A i \in 0..(n - 1) : sum[i] = IF i = 0 THEN 0 ELSE sum[i - 1] + f[i]
    BY <2>2 DEF Sums
  <2>4. \A i \in 0..(n - 1) : i \in 0..n /\ next[i] = sum[i]
    BY <2>3
  <2>5. \A i \in 0..n : i # 0 => i - 1 \in 0..(n - 1)
    OBVIOUS
  <2>6. next = [i \in 0..n |-> IF i = 0 THEN 0 ELSE next[i - 1] + f[i]]
    BY <2>4, <2>5
  <2>7. Sums(next, f, n)
    BY <2>6 DEF Sums
  <2> QED BY <2>7
<1> QED BY <1>2, <1>3

LEMMA SumsAgree ==
  ASSUME NEW f, NEW g, NEW m \in Nat, NEW n \in Nat, m <= n,
         \A i \in 1..m : f[i] = g[i],
         NEW s, NEW t, Sums(s, f, m), Sums(t, g, n)
  PROVE  s[m] = t[m]
<1> DEFINE T == {i \in 0..m : s[i] # t[i]}
<1>1. \A i \in 0..m : /\ s[i] = IF i = 0 THEN 0 ELSE s[i - 1] + f[i]
                      /\ t[i] = IF i = 0 THEN 0 ELSE t[i - 1] + g[i]
  BY DEF Sums
<1>2. ASSUME T # {} PROVE FALSE
  <2>1. T \in SUBSET Nat
    OBVIOUS
  <2>2. PICK i \in T : \A j \in T : i <= j
    <3> HIDE DEF T
    <3> QED BY <1>2, <2>1, LeastNatural
  <2>3. i # 0
    BY <1>1
  <2>4. i - 1 \in 0..m /\ i - 1 \notin T
    BY <2>2, <2>3
  <2> QED BY <1>1, <2>3, <2>4
<1> QED BY <1>2

LEMMA PartialSumIs ==
  ASSUME NEW f, NEW n \in Nat
  PROVE  \E sum : Sums(sum, f, n) /\ PartialSum(f, n) = sum[n]
<1>1. \E sum : Sums(sum, f, n)
  BY SumsExist
<1> DEFINE sum == CHOOSE sum : sum = [i \in 0..n |-> IF i = 0 THEN 0 ELSE sum[i - 1] + f[i]]
<1>2. sum = [i \in 0..n |-> IF i = 0 THEN 0 ELSE sum[i - 1] + f[i]]
  BY <1>1 DEF Sums
<1>3. PartialSum(f, n) = sum[n]
  BY DEF PartialSum
<1> QED BY <1>2, <1>3 DEF Sums

(* The equations of a partial sum.                                         *)
LEMMA PartialSumStep ==
  ASSUME NEW f, NEW n \in Nat
  PROVE  /\ PartialSum(f, 0) = 0
         /\ PartialSum(f, n + 1) = PartialSum(f, n) + f[n + 1]
<1>1. PICK s : Sums(s, f, 0) /\ PartialSum(f, 0) = s[0]
  BY PartialSumIs
<1>2. PICK t : Sums(t, f, n) /\ PartialSum(f, n) = t[n]
  BY PartialSumIs
<1>3. PICK u : Sums(u, f, n + 1) /\ PartialSum(f, n + 1) = u[n + 1]
  BY PartialSumIs
<1>4. s[0] = 0
  BY <1>1 DEF Sums
<1>5. u[n + 1] = u[n] + f[n + 1]
  BY <1>3 DEF Sums
<1>6. t[n] = u[n]
  <2>1. n + 1 \in Nat /\ n <= n + 1 /\ \A i \in 1..n : f[i] = f[i]
    OBVIOUS
  <2>2. Sums(t, f, n) /\ Sums(u, f, n + 1)
    BY <1>2, <1>3
  <2> DEFINE m == n + 1
  <2>3. m \in Nat /\ n <= m /\ Sums(u, f, m)
    BY <2>1, <2>2
  <2> HIDE DEF m
  <2> QED BY <2>1, <2>2, <2>3, SumsAgree
<1> QED BY <1>1, <1>2, <1>3, <1>4, <1>5, <1>6

(* It depends on its summands only.                                        *)
LEMMA PartialSumSame ==
  ASSUME NEW f, NEW g, NEW n \in Nat, \A i \in 1..n : f[i] = g[i]
  PROVE  PartialSum(f, n) = PartialSum(g, n)
<1>1. PICK s : Sums(s, f, n) /\ PartialSum(f, n) = s[n]
  BY PartialSumIs
<1>2. PICK t : Sums(t, g, n) /\ PartialSum(g, n) = t[n]
  BY PartialSumIs
<1> QED BY <1>1, <1>2, SumsAgree

-----------------------------------------------------------------------------
(* The balance that each operation announces.                              *)

(* Statements on the ledger take turns, so that each sees all of it.       *)
TakeTurns ==
  /\ \A p, q \in Proc : InStatement(p) /\ InStatement(q) => p = q
  /\ \A p \in Proc : InStatement(p) => task[p].snapshot = Len(ledger)

BalanceInv ==
  /\ LedgerInv
  /\ OutboxIsSeq
  /\ overlapped \in BOOLEAN
  /\ ~overlapped => TakeTurns /\ BalanceExact

(* The same of any ledger and outbox.                                      *)
ChangesIn(o, n) == {i \in 1..n : o[i].type = "balance.changed"}
BalanceIn(rows, n) == PartialSum([i \in DOMAIN rows |-> Signed(rows[i])], n)
Exact(rows, o) ==
  /\ Cardinality(ChangesIn(o, Len(o))) = Len(rows)
  /\ \A n \in ChangesIn(o, Len(o)) : o[n].balance = BalanceIn(rows, Cardinality(ChangesIn(o, n)))

Silent(events) == \A i \in DOMAIN events : events[i].type # "balance.changed"

LEMMA ExactIs == (BalanceExact <=> Exact(ledger, outbox)) /\ (BalanceExact' <=> Exact(ledger', outbox'))
BY DEF BalanceExact, Exact, Changes, ChangesIn, Balance, BalanceIn, Signed, PartialSum

LEMMA ChangesFinite ==
  ASSUME NEW o, NEW n \in Nat
  PROVE  IsFiniteSet(ChangesIn(o, n)) /\ Cardinality(ChangesIn(o, n)) \in 0..n
<1>1. IsFiniteSet(1..n) /\ Cardinality(1..n) = n
  BY FS_Interval
<1>2. ChangesIn(o, n) \subseteq 1..n
  BY DEF ChangesIn
<1>3. IsFiniteSet(ChangesIn(o, n)) /\ Cardinality(ChangesIn(o, n)) <= n
  BY <1>1, <1>2, FS_Subset
<1> QED BY <1>3, FS_CardinalityType

LEMMA ChangesKept ==
  ASSUME NEW S, NEW o \in Seq(S), NEW T, NEW events \in Seq(T)
  PROVE  /\ Len(o) \in Nat /\ Len(events) \in Nat /\ Len(o \o events) = Len(o) + Len(events)
         /\ \A n \in 0..Len(o) : ChangesIn(o \o events, n) = ChangesIn(o, n)
         /\ \A i \in 1..Len(o) : (o \o events)[i] = o[i]
         /\ \A i \in 1..Len(events) : (o \o events)[Len(o) + i] = events[i]
<1>1. o \in Seq(S \cup T) /\ events \in Seq(S \cup T)
  OBVIOUS
<1>2. /\ Len(o) \in Nat /\ Len(events) \in Nat /\ Len(o \o events) = Len(o) + Len(events)
      /\ \A i \in 1..Len(o) : (o \o events)[i] = o[i]
      /\ \A i \in 1..Len(events) : (o \o events)[Len(o) + i] = events[i]
  BY <1>1
<1>3. ASSUME NEW n \in 0..Len(o) PROVE ChangesIn(o \o events, n) = ChangesIn(o, n)
  <2>1. \A i \in 1..n : i \in 1..Len(o)
    BY <1>2
  <2>2. \A i \in 1..n : (o \o events)[i] = o[i]
    BY <1>2, <2>1
  <2> QED BY <2>2 DEF ChangesIn
<1> QED BY <1>2, <1>3

LEMMA SilentChanges ==
  ASSUME NEW S, NEW o \in Seq(S), NEW T, NEW events \in Seq(T), Silent(events)
  PROVE  ChangesIn(o \o events, Len(o \o events)) = ChangesIn(o, Len(o))
<1> DEFINE n == Len(o)
           m == Len(events)
           after == o \o events
<1>1. /\ n \in Nat /\ m \in Nat /\ Len(after) = n + m
      /\ \A i \in 1..n : after[i] = o[i]
      /\ \A i \in 1..m : after[n + i] = events[i]
  BY ChangesKept
<1>2. \A i \in 1..m : events[i].type # "balance.changed"
  BY DEF Silent
<1>3. ChangesIn(after, n) = ChangesIn(o, n)
  <2>1. n \in 0..n
    BY <1>1
  <2> QED BY <2>1, ChangesKept
<1> HIDE DEF n, m, after
<1>4. \A j \in 1..(n + m) : j \in 1..n \/ (j - n \in 1..m /\ j = n + (j - n))
  BY <1>1
<1>5. \A j \in 1..(n + m) : j \in 1..n \/ after[j].type # "balance.changed"
  BY <1>1, <1>2, <1>4
<1>6. \A j \in 1..n : j \in 1..(n + m)
  BY <1>1
<1>7. ChangesIn(after, n + m) = ChangesIn(after, n)
  BY <1>5, <1>6 DEF ChangesIn
<1> QED BY <1>1, <1>3, <1>7 DEF n, after

LEMMA QuietExact ==
  ASSUME NEW S, NEW o \in Seq(S), NEW T, NEW events \in Seq(T), Silent(events),
         NEW rows, Exact(rows, o)
  PROVE  Exact(rows, o \o events)
<1> DEFINE after == o \o events
<1>1. ChangesIn(after, Len(after)) = ChangesIn(o, Len(o))
  BY SilentChanges
<1>2. ASSUME NEW n \in ChangesIn(o, Len(o))
      PROVE  after[n] = o[n] /\ ChangesIn(after, n) = ChangesIn(o, n)
  <2>1. n \in 1..Len(o) /\ Len(o) \in Nat
    BY ChangesKept DEF ChangesIn
  <2>2. n \in 0..Len(o)
    BY <2>1
  <2> QED BY <2>1, <2>2, ChangesKept
<1> HIDE DEF after
<1>3. Exact(rows, after)
  BY <1>1, <1>2 DEF Exact
<1> QED BY <1>3 DEF after

LEMMA BalanceAfter ==
  ASSUME NEW rows \in Seq(Row), NEW row \in Row
  PROVE  /\ \A n \in 0..Len(rows) : BalanceIn(Append(rows, row), n) = BalanceIn(rows, n)
         /\ BalanceIn(Append(rows, row), Len(rows) + 1) = BalanceIn(rows, Len(rows)) + Signed(row)
         /\ Len(Append(rows, row)) = Len(rows) + 1 /\ Len(rows) \in Nat
<1> DEFINE after == Append(rows, row)
           f == [i \in DOMAIN rows |-> Signed(rows[i])]
           g == [i \in DOMAIN after |-> Signed(after[i])]
           n == Len(rows)
<1>1. /\ n \in Nat /\ DOMAIN rows = 1..n
      /\ DOMAIN after = 1..(n + 1) /\ Len(after) = n + 1
      /\ after[n + 1] = row
      /\ \A i \in 1..n : after[i] = rows[i]
  OBVIOUS
<1>2. /\ \A i \in 1..n : g[i] = f[i]
      /\ g[n + 1] = Signed(row)
  BY <1>1
<1>3. \A i : BalanceIn(rows, i) = PartialSum(f, i) /\ BalanceIn(after, i) = PartialSum(g, i)
  BY DEF BalanceIn
<1> HIDE DEF f, g, n, after
<1>4. ASSUME NEW i \in 0..n PROVE PartialSum(g, i) = PartialSum(f, i)
  <2>1. i \in Nat /\ \A j \in 1..i : g[j] = f[j]
    BY <1>1, <1>2
  <2> QED BY <2>1, PartialSumSame
<1>5. PartialSum(g, n + 1) = PartialSum(g, n) + Signed(row)
  BY <1>1, <1>2, PartialSumStep
<1>6. n \in 0..n
  BY <1>1
<1>7. /\ \A i \in 0..n : BalanceIn(after, i) = BalanceIn(rows, i)
      /\ BalanceIn(after, n + 1) = BalanceIn(rows, n) + Signed(row)
  BY <1>3, <1>4, <1>5, <1>6
<1> QED BY <1>1, <1>7 DEF after, n

(* A row entered, and its balance announced behind silent events.          *)
LEMMA EnterExact ==
  ASSUME NEW S, NEW o \in Seq(S), NEW rows \in Seq(Row), NEW row \in Row, NEW change,
         change.type = "balance.changed",
         change.balance = BalanceIn(rows, Len(rows)) + Signed(row),
         Exact(rows, o)
  PROVE  Exact(Append(rows, row), o \o <<change>>)
<1> DEFINE after == o \o <<change>>
           n == Len(o)
           k == Len(rows)
           next == Append(rows, row)
<1>2. /\ n \in Nat /\ Len(after) = n + 1 /\ after[n + 1] = change
      /\ \A i \in 1..n : after[i] = o[i]
      /\ \A i \in 0..n : ChangesIn(after, i) = ChangesIn(o, i)
  <2> DEFINE last == <<change>>
  <2>1. last \in Seq({change}) /\ Len(last) = 1 /\ last[1] = change /\ 1 \in 1..1
    OBVIOUS
  <2>2. after = o \o last
    OBVIOUS
  <2> HIDE DEF last, after
  <2>3. /\ n \in Nat /\ Len(o \o last) = n + Len(last)
        /\ \A i \in 0..n : ChangesIn(o \o last, i) = ChangesIn(o, i)
        /\ \A i \in 1..n : (o \o last)[i] = o[i]
        /\ \A i \in 1..Len(last) : (o \o last)[n + i] = last[i]
    <3> DEFINE U == {change}
    <3>1. last \in Seq(U)
      BY <2>1
    <3> HIDE DEF U
    <3> QED BY <3>1, ChangesKept DEF n
  <2> QED BY <2>1, <2>2, <2>3
<1>3. /\ \A i \in 0..k : BalanceIn(next, i) = BalanceIn(rows, i)
      /\ BalanceIn(next, k + 1) = BalanceIn(rows, k) + Signed(row)
      /\ Len(next) = k + 1 /\ k \in Nat
  BY BalanceAfter
<1>4. /\ Cardinality(ChangesIn(o, n)) = k
      /\ \A i \in ChangesIn(o, n) : o[i].balance = BalanceIn(rows, Cardinality(ChangesIn(o, i)))
  BY DEF Exact
<1>5. change.balance = BalanceIn(rows, k) + Signed(row)
  OBVIOUS
<1> HIDE DEF after, n, k, next
<1>6. ChangesIn(after, n + 1) = ChangesIn(o, n) \cup {n + 1}
  <2>1. \A i : i \in 1..(n + 1) <=> (i \in 1..n \/ i = n + 1)
    BY <1>2
  <2> QED BY <1>2, <2>1 DEF ChangesIn
<1>7. Cardinality(ChangesIn(after, n + 1)) = k + 1
  <2>1. n + 1 \notin ChangesIn(o, n)
    BY <1>2 DEF ChangesIn
  <2>2. IsFiniteSet(ChangesIn(o, n))
    BY <1>2, ChangesFinite
  <2> QED BY <1>4, <1>6, <2>1, <2>2, FS_AddElement
<1>8. ASSUME NEW i \in ChangesIn(o, n)
      PROVE  after[i].balance = BalanceIn(next, Cardinality(ChangesIn(after, i)))
  <2>1. i \in 1..n /\ i \in 0..n /\ i \in Nat
    BY <1>2 DEF ChangesIn
  <2>2. after[i] = o[i] /\ ChangesIn(after, i) = ChangesIn(o, i)
    BY <1>2, <2>1
  <2>3. Cardinality(ChangesIn(o, i)) \in 0..k
    <3>1. IsFiniteSet(ChangesIn(o, n)) /\ IsFiniteSet(ChangesIn(o, i))
      BY <1>2, <2>1, ChangesFinite
    <3>2. ChangesIn(o, i) \subseteq ChangesIn(o, n)
      BY <1>2, <2>1 DEF ChangesIn
    <3>3. Cardinality(ChangesIn(o, i)) <= k
      BY <1>4, <3>1, <3>2, FS_Subset
    <3> QED BY <1>3, <3>1, <3>3, FS_CardinalityType
  <2> QED BY <1>3, <1>4, <2>2, <2>3
<1>9. after[n + 1].balance = BalanceIn(next, Cardinality(ChangesIn(after, n + 1)))
  BY <1>2, <1>3, <1>5, <1>7
<1>10. Exact(next, after)
  BY <1>2, <1>3, <1>6, <1>7, <1>8, <1>9 DEF Exact
<1> QED BY <1>10 DEF after, next

(* What a step says of the ledger: nothing of a row ...                    *)
QuietMove ==
  /\ UNCHANGED ledger
  /\ \E T : \E events \in Seq(T) : Silent(events) /\ outbox' = outbox \o events
  /\ \A p \in Proc : InStatement(p)' =>
       \/ InStatement(p) /\ task'[p] = task[p]
       \/ task'[p].snapshot = Len(ledger)

(* ... or of the one that the handler p enters, its statement over.        *)
EntryMove(p) ==
  /\ InStatement(p)
  /\ \E row \in Row : \E T : \E events \in Seq(T) : Silent(events) /\ Enter(p, row, events)
  /\ ~InStatement(p)'
  /\ \A q \in Proc : q # p => task'[q] = task[q]

LEMMA NothingSaid == OutboxIsSeq => \E T : \E events \in Seq(T) : Silent(events) /\ outbox = outbox \o events
<1> SUFFICES ASSUME OutboxIsSeq PROVE \E T : \E events \in Seq(T) : Silent(events) /\ outbox = outbox \o events
  OBVIOUS
<1> PICK S : outbox \in Seq(S)
  BY DEF OutboxIsSeq
<1>1. <<>> \in Seq({}) /\ outbox \o <<>> = outbox /\ DOMAIN <<>> = {}
  OBVIOUS
<1> QED BY <1>1 DEF Silent

LEMMA OneSaid ==
  ASSUME OutboxIsSeq, NEW event, event.type # "balance.changed", outbox' = Append(outbox, event)
  PROVE  \E T : \E events \in Seq(T) : Silent(events) /\ outbox' = outbox \o events
<1> PICK S : outbox \in Seq(S)
  BY DEF OutboxIsSeq
<1>1. <<event>> \in Seq({event}) /\ outbox' = outbox \o <<event>>
  OBVIOUS
<1>2. Silent(<<event>>)
  BY DEF Silent
<1> QED BY <1>1, <1>2

(* Starting, ending or failing says nothing.                               *)
LEMMA TaskMove ==
  ASSUME LedgerInv, OutboxIsSeq, NEW p \in Proc, NEW job, UNCHANGED <<ledger, outbox>>,
         task' = [task EXCEPT ![p] = job],
         job = Idle \/ job.snapshot = NotStarted \/ job.snapshot = Len(ledger)
  PROVE  QuietMove
<1>1. \A q \in Proc : task'[q] = IF q = p THEN job ELSE task[q]
  BY DEF LedgerInv, TypeInv
<1>2. \A q \in Proc : InStatement(q)' =>
        (InStatement(q) /\ task'[q] = task[q]) \/ task'[q].snapshot = Len(ledger)
  BY <1>1 DEF InStatement
<1> QED BY <1>2, NothingSaid DEF QuietMove

LEMMA DeliverMove == LedgerInv /\ OutboxIsSeq /\ DeliverStep => QuietMove
<1> SUFFICES ASSUME LedgerInv, OutboxIsSeq, NEW p \in Proc, NEW op, NEW ref, Start(p, op, ref)
             PROVE  QuietMove
  BY DEF DeliverStep, OnLessonCompleted, OnLessonCancelledOrRestored
<1> QED BY TaskMove DEF Start

LEMMA RequestMove == LedgerInv /\ OutboxIsSeq /\ RequestStep => QuietMove
<1> SUFFICES ASSUME LedgerInv, OutboxIsSeq, RequestStep PROVE QuietMove
  OBVIOUS
<1>1. ASSUME NEW p \in Proc, NEW op, NEW ref, Start(p, op, ref) PROVE QuietMove
  BY <1>1, TaskMove DEF Start
<1>2. ASSUME NEW r \in Receipt, CreateReceipt(r) PROVE QuietMove
  <2> DEFINE event == [type |-> "payment_receipt.uploaded", ref |-> r, balance |-> 0]
  <2>1. outbox' = Append(outbox, event) /\ event.type # "balance.changed" /\ UNCHANGED <<ledger, task>>
    BY <1>2 DEF CreateReceipt
  <2> HIDE DEF event
  <2> QED BY <2>1, OneSaid DEF QuietMove, InStatement
<1> QED BY <1>1, <1>2 DEF RequestStep, ReadForConfirm, ReadForReject, ManualCorrection

LEMMA EntryIsMove ==
  ASSUME LedgerInv, NEW p \in Proc, InStatement(p), NEW row \in Row, NEW T, NEW events \in Seq(T),
         Silent(events), Enter(p, row, events), End(p) \/ ToMark(p)
  PROVE  EntryMove(p)
<1>1. \A q \in Proc : q # p => task'[q] = task[q]
  BY DEF End, ToMark, LedgerInv, TypeInv
<1>2. ~InStatement(p)'
  BY DEF End, ToMark, InStatement, LedgerInv, TypeInv
<1> QED BY <1>1, <1>2 DEF EntryMove

LEMMA EndMove ==
  ASSUME LedgerInv, OutboxIsSeq, NEW p \in Proc, UNCHANGED <<ledger, outbox>>, End(p) \/ ToMark(p)
  PROVE  QuietMove
<1>1. CASE End(p)
  BY <1>1, TaskMove DEF End
<1>2. CASE ToMark(p)
  BY <1>2, TaskMove DEF ToMark
<1> QED BY <1>1, <1>2

(* The rows and events of the statements.                                  *)
LEMMA RunningIs ==
  ASSUME LedgerInv, NEW p \in Proc, NEW op, Running(p, op), op # "idle"
  PROVE  InStatement(p) /\ task[p] \in Task /\ TaskSound(p) /\ task[p].op = op
BY DEF Running, InStatement, Idle, LedgerInv, TypeInv

LEMMA ChargeMove ==
  ASSUME LedgerInv, OutboxIsSeq, NEW p \in Proc, CreateCharge(p)
  PROVE  QuietMove \/ EntryMove(p)
<1> DEFINE lesson == task[p].ref.lesson
           row == [type |-> "charge", ref |-> lesson, amount |-> Amount[lesson]]
           created == [type |-> "charge.created", ref |-> lesson, balance |-> 0]
<1>1. Running(p, "charge")
  BY DEF CreateCharge
<1>2. InStatement(p) /\ lesson \in Lesson
  BY <1>1, RunningIs, EventAssumption DEF TaskSound
<1>3. CASE Rows("charge", lesson) = {}
  <2>1. Enter(p, row, <<created>>) /\ ToMark(p)
    BY <1>3 DEF CreateCharge
  <2>2. row \in Row
    BY <1>2, AmountAssumption DEF Row, Ref
  <2>3. <<created>> \in Seq({created}) /\ Silent(<<created>>)
    BY DEF Silent
  <2> HIDE DEF row, created
  <2> QED BY <1>2, <2>1, <2>2, <2>3, EntryIsMove
<1>4. CASE Rows("charge", lesson) # {}
  <2>1. UNCHANGED <<ledger, outbox>> /\ (End(p) \/ ToMark(p))
    BY <1>4 DEF CreateCharge
  <2> QED BY <2>1, EndMove
<1> QED BY <1>3, <1>4

LEMMA CorrectionMove ==
  ASSUME LedgerInv, OutboxIsSeq, NEW p \in Proc, CreateEventCorrection(p) \/ CreateCorrection(p)
  PROVE  QuietMove \/ EntryMove(p)
<1>1. ASSUME UNCHANGED <<ledger, outbox>> PROVE QuietMove
  BY <1>1, EndMove DEF CreateEventCorrection, CreateCorrection
<1>2. ASSUME InStatement(p), NEW row \in Row, Enter(p, row, <<>>) PROVE EntryMove(p)
  <2>1. <<>> \in Seq({}) /\ Silent(<<>>)
    BY DEF Silent
  <2>2. End(p)
    BY DEF CreateEventCorrection, CreateCorrection
  <2> QED BY <1>2, <2>1, <2>2, EntryIsMove
<1>3. CASE CreateEventCorrection(p) /\ task[p].ref \notin processed
  <2> DEFINE e == task[p].ref
  <2>1. InStatement(p) /\ e \in Event
    BY <1>3, RunningIs DEF CreateEventCorrection, TaskSound
  <2>2. Correction(e) \in Row
    BY <2>1, EventAssumption, AmountAssumption DEF Correction, Row, Ref
  <2>3. Enter(p, Correction(e), <<>>)
    BY <1>3 DEF CreateEventCorrection
  <2> QED BY <1>2, <2>1, <2>2, <2>3
<1>4. CASE CreateEventCorrection(p) /\ task[p].ref \in processed
  BY <1>1, <1>4 DEF CreateEventCorrection
<1>5. CASE CreateCorrection(p)
  <2> DEFINE m == task[p].ref
             row == [type |-> "correction", ref |-> m, amount |-> Amount[m]]
  <2>1. InStatement(p) /\ m \in Manual
    BY <1>5, RunningIs DEF CreateCorrection, TaskSound
  <2>2. row \in Row
    BY <2>1, AmountAssumption DEF Row, Ref
  <2>3. Enter(p, row, <<>>)
    BY <1>5 DEF CreateCorrection
  <2> HIDE DEF row
  <2> QED BY <1>2, <2>1, <2>2, <2>3
<1> QED BY <1>3, <1>4, <1>5

LEMMA ConfirmMove ==
  ASSUME LedgerInv, OutboxIsSeq, NEW p \in Proc, ConfirmReceipt(p)
  PROVE  QuietMove \/ EntryMove(p)
<1> DEFINE r == task[p].ref
           row == [type |-> "payment", ref |-> r, amount |-> Amount[r]]
           confirmed == [type |-> "payment.confirmed", ref |-> r, balance |-> 0]
<1>1. InStatement(p) /\ r \in Receipt /\ End(p)
  BY RunningIs DEF ConfirmReceipt, TaskSound
<1>2. row \in Row
  BY <1>1, AmountAssumption DEF Row, Ref
<1>3. <<confirmed>> \in Seq({confirmed}) /\ Silent(<<confirmed>>)
  BY DEF Silent
<1>4. Enter(p, row, <<confirmed>>) \/ UNCHANGED <<ledger, outbox>>
  BY DEF ConfirmReceipt
<1> HIDE DEF row, confirmed
<1> QED BY <1>1, <1>2, <1>3, <1>4, EntryIsMove, EndMove

LEMMA RejectMove ==
  ASSUME LedgerInv, OutboxIsSeq, NEW p \in Proc, RejectReceipt(p)
  PROVE  QuietMove
<1> DEFINE rejected == [type |-> "payment.rejected", ref |-> task[p].ref, balance |-> 0]
<1>1. End(p) /\ UNCHANGED ledger /\ (outbox' = Append(outbox, rejected) \/ UNCHANGED outbox)
  BY DEF RejectReceipt
<1>2. CASE UNCHANGED outbox
  BY <1>1, <1>2, EndMove
<1>3. CASE outbox' = Append(outbox, rejected)
  <2>1. \E T : \E events \in Seq(T) : Silent(events) /\ outbox' = outbox \o events
    <3>1. rejected.type # "balance.changed"
      OBVIOUS
    <3> HIDE DEF rejected
    <3> QED BY <1>3, <3>1, OneSaid
  <2>2. \A q \in Proc : InStatement(q)' => InStatement(q) /\ task'[q] = task[q]
    BY <1>1 DEF End, InStatement, LedgerInv, TypeInv
  <2> QED BY <1>1, <2>1, <2>2 DEF QuietMove
<1> QED BY <1>1, <1>2, <1>3

LEMMA Moves == LedgerInv /\ OutboxIsSeq /\ [Next]_vars => QuietMove \/ \E p \in Proc : EntryMove(p)
<1> SUFFICES ASSUME LedgerInv, OutboxIsSeq, [Next]_vars
             PROVE  QuietMove \/ \E p \in Proc : EntryMove(p)
  OBVIOUS
<1>1. CASE UNCHANGED vars
  BY <1>1, NothingSaid DEF vars, QuietMove, InStatement
<1>2. CASE TaskStep
  <2> PICK p \in Proc : BeginStatement(p) \/ ConsumerStatement(p) \/ RequestStatement(p) \/ Crash(p)
    BY <1>2 DEF TaskStep
  <2>1. CASE BeginStatement(p)
    <3> DEFINE job == [task[p] EXCEPT !.snapshot = Len(ledger)]
    <3>1. job.snapshot = Len(ledger)
      BY <2>1 DEF BeginStatement, LedgerInv, TypeInv, Idle, Task
    <3>2. task' = [task EXCEPT ![p] = job] /\ UNCHANGED <<ledger, outbox>>
      BY <2>1 DEF BeginStatement
    <3> HIDE DEF job
    <3> QED BY <3>1, <3>2, TaskMove
  <2>2. CASE MarkEventProcessed(p) \/ Crash(p)
    BY <2>2, EndMove DEF MarkEventProcessed, Crash
  <2> QED BY <2>1, <2>2, ChargeMove, CorrectionMove, ConfirmMove, RejectMove
      DEF ConsumerStatement, RequestStatement
<1> QED BY <1>1, <1>2, DeliverMove, RequestMove DEF Next

LEMMA QuietTurn ==
  ASSUME BalanceInv, LedgerInv', OutboxIsSeq', overlapped' \in BOOLEAN, QuietMove,
         ~overlapped' => ~overlapped /\ \A p, q \in Proc : InStatement(p)' /\ InStatement(q)' => p = q
  PROVE  BalanceInv'
<1> SUFFICES ASSUME ~overlapped' PROVE TakeTurns' /\ BalanceExact'
  BY DEF BalanceInv
<1>1. TakeTurns /\ BalanceExact
  BY DEF BalanceInv
<1>2. TakeTurns'
  BY <1>1 DEF TakeTurns, QuietMove
<1>3. BalanceExact'
  <2>1. PICK S : outbox \in Seq(S)
    BY DEF BalanceInv, OutboxIsSeq
  <2>2. PICK T : \E events \in Seq(T) : Silent(events) /\ outbox' = outbox \o events
    BY DEF QuietMove
  <2>3. PICK events \in Seq(T) : Silent(events) /\ outbox' = outbox \o events
    BY <2>2
  <2>4. Exact(ledger, outbox \o events)
    BY <1>1, <2>1, <2>3, ExactIs, QuietExact
  <2> QED BY <2>3, <2>4, ExactIs DEF QuietMove
<1> QED BY <1>2, <1>3

LEMMA EntryTurn ==
  ASSUME BalanceInv, LedgerInv', OutboxIsSeq', overlapped' \in BOOLEAN,
         NEW p \in Proc, EntryMove(p), ~overlapped' => ~overlapped
  PROVE  BalanceInv'
<1> SUFFICES ASSUME ~overlapped' PROVE TakeTurns' /\ BalanceExact'
  BY DEF BalanceInv
<1>1. TakeTurns /\ BalanceExact
  BY DEF BalanceInv
<1>2. \A q \in Proc : ~InStatement(q)'
  BY <1>1 DEF TakeTurns, EntryMove, InStatement
<1>3. TakeTurns'
  BY <1>2 DEF TakeTurns
<1>4. BalanceExact'
  <2>1. PICK S : outbox \in Seq(S)
    BY DEF BalanceInv, OutboxIsSeq
  <2>2. PICK row \in Row : \E T : \E events \in Seq(T) : Silent(events) /\ Enter(p, row, events)
    BY DEF EntryMove
  <2>3. PICK T : \E events \in Seq(T) : Silent(events) /\ Enter(p, row, events)
    BY <2>2
  <2>4. PICK events \in Seq(T) : Silent(events) /\ Enter(p, row, events)
    BY <2>3
  <2> DEFINE told == outbox \o events
             change == [type |-> "balance.changed", ref |-> row.ref,
                        balance |-> Balance(Len(ledger)) + Signed(row)]
  <2>5. ledger' = Append(ledger, row) /\ outbox' = told \o <<change>>
    BY <1>1, <2>4 DEF Enter, TakeTurns, EntryMove
  <2>6. Exact(ledger, told)
    BY <1>1, <2>1, <2>4, ExactIs, QuietExact
  <2>7. told \in Seq(S \cup T)
    BY <2>1
  <2>8. ledger \in Seq(Row)
    BY DEF BalanceInv, LedgerInv, TypeInv
  <2>9. /\ change.type = "balance.changed"
        /\ change.balance = BalanceIn(ledger, Len(ledger)) + Signed(row)
    BY DEF Balance, BalanceIn, Signed, PartialSum
  <2> HIDE DEF told, change
  <2>10. Exact(Append(ledger, row), told \o <<change>>)
    BY <2>6, <2>7, <2>8, <2>9, EnterExact
  <2> QED BY <2>5, <2>10, ExactIs
<1> QED BY <1>3, <1>4

LEMMA NextBalanceInv == BalanceInv /\ [Next]_vars => BalanceInv'
<1> SUFFICES ASSUME BalanceInv, [Next]_vars PROVE BalanceInv'
  OBVIOUS
<1>1. LedgerInv' /\ LedgerInv /\ OutboxIsSeq
  BY NextLedgerInv DEF BalanceInv
<1>2. overlapped' \in BOOLEAN
  BY DEF BalanceInv, Next, vars
<1>3. ~overlapped' => ~overlapped
  BY DEF BalanceInv, Next, vars
<1>4. \A p \in Proc : EntryMove(p) => OutboxIsSeq'
  BY <1>1, EnterAnnounces DEF EntryMove
<1>5. QuietMove => OutboxIsSeq'
  <2> SUFFICES ASSUME QuietMove PROVE OutboxIsSeq'
    OBVIOUS
  <2>1. PICK S : outbox \in Seq(S)
    BY <1>1 DEF OutboxIsSeq
  <2>2. PICK T : \E events \in Seq(T) : outbox' = outbox \o events
    BY DEF QuietMove
  <2>3. outbox' \in Seq(S \cup T)
    BY <2>1, <2>2
  <2> QED BY <2>3 DEF OutboxIsSeq
<1>6. CASE UNCHANGED vars
  <2>1. UNCHANGED <<ledger, outbox, task, overlapped>>
    BY <1>6 DEF vars
  <2>2. OutboxIsSeq' /\ (TakeTurns => TakeTurns') /\ (BalanceExact => BalanceExact')
    BY <1>1, <2>1, ExactIs DEF OutboxIsSeq, TakeTurns, InStatement
  <2> QED BY <1>1, <1>2, <2>1, <2>2 DEF BalanceInv
<1>7. CASE Next
  <2>1. ~overlapped' => \A p, q \in Proc : InStatement(p)' /\ InStatement(q)' => p = q
    BY <1>7 DEF Next
  <2> QED BY <1>1, <1>2, <1>3, <1>4, <1>5, <2>1, Moves, QuietTurn, EntryTurn
<1> QED BY <1>6, <1>7

(* As long as no two statements on the ledger have overlapped, the k-th    *)
(* balance.changed tells the balance after the k-th operation.             *)
THEOREM BalanceAnnounced == Spec => []BalanceExactInTurn
<1>1. Init => BalanceInv
  <2> SUFFICES ASSUME Init PROVE BalanceInv
    OBVIOUS
  <2>1. outbox = <<>> /\ ledger = <<>> /\ overlapped = FALSE
    BY DEF Init
  <2>2. outbox \in Seq({}) /\ Len(outbox) = 0 /\ Len(ledger) = 0
    BY <2>1
  <2>3. TakeTurns
    BY DEF Init, TakeTurns, InStatement
  <2>4. ChangesIn(outbox, 0) = {}
    BY DEF ChangesIn
  <2>5. Exact(ledger, outbox)
    BY <2>2, <2>4, FS_EmptySet DEF Exact
  <2> QED BY <2>1, <2>2, <2>3, <2>5, InitLedgerInv, ExactIs DEF BalanceInv, OutboxIsSeq
<1>2. BalanceInv => BalanceExactInTurn
  BY DEF BalanceInv, BalanceExactInTurn
<1> QED BY <1>1, <1>2, NextBalanceInv, PTL DEF Spec
=============================================================================
