------------------------------ MODULE Finance ------------------------------
(***************************************************************************)
(* finance-service: the append-only ledger, payment receipts, the consumer *)
(* of lesson events with its inbox, and the outbox.  One student, one      *)
(* currency: every sum in the code ranges over one of each.                *)
(*                                                                         *)
(* A statement that writes the ledger sees the ledger as it was when the   *)
(* statement began (READ COMMITTED) and takes effect when it commits;      *)
(* statements of other handlers may commit in between.  Unique indexes and *)
(* row locks are checked against what is committed by then.                *)
(***************************************************************************)
EXTENDS Integers, Sequences, FiniteSets

CONSTANTS
  Event,   \* [id, type, lesson, previous] records of tutorflow.lesson.events
  Lesson,
  Receipt, \* ids payment receipts may get
  Manual,  \* ids manual corrections may get
  Amount,  \* lessons.price, payment_receipts.amount, amounts of corrections
  Proc     \* handlers running at one time: gRPC calls and consumers

ASSUME EventAssumption == \A e \in Event : e.lesson \in Lesson
(* Ids of manual corrections are not ids of events.                        *)
ASSUME RefAssumption == Event \cap Manual = {}
ASSUME AmountAssumption == Amount \in [Lesson \cup Receipt \cup Manual -> Int]

VARIABLES
  ledger,    \* financial_transactions, in commit order
  receipts,  \* payment_receipts.status
  processed, \* processed_events
  task,      \* what each handler is doing
  outbox,    \* every outbox_events row written so far
  overlapped \* history: have two statements on the ledger overlapped?

vars == <<ledger, receipts, processed, task, outbox, overlapped>>

-----------------------------------------------------------------------------

ReceiptStatus == {"absent", "pending_review", "confirmed", "rejected"}
Ref == Event \cup Lesson \cup Receipt \cup Manual
Row == [type: {"charge", "payment", "correction"}, ref: Ref, amount: Int]
OutboxEvent == [type: {"charge.created", "balance.changed",
                       "payment_receipt.uploaded", "payment.confirmed",
                       "payment.rejected"},
                ref: Ref, balance: Int]

Idle == [op |-> "idle"]
NotStarted == -1

(* snapshot: how much of the ledger the statement sees.                    *)
Task == [op: {"charge", "mark", "correct", "manual", "confirm", "reject"},
         ref: Ref, snapshot: Int]

TypeOK ==
  /\ ledger \in Seq(Row)
  /\ receipts \in [Receipt -> ReceiptStatus]
  /\ processed \subseteq Event
  /\ task \in [Proc -> Task \cup {Idle}]
  /\ outbox \in Seq(OutboxEvent)
  /\ overlapped \in BOOLEAN

Init ==
  /\ ledger = <<>>
  /\ receipts = [r \in Receipt |-> "absent"]
  /\ processed = {}
  /\ task = [p \in Proc |-> Idle]
  /\ outbox = <<>>
  /\ overlapped = FALSE

-----------------------------------------------------------------------------

Signed(row) == IF row.type = "payment" THEN -row.amount ELSE row.amount

(* f[1] + ... + f[n]                                                       *)
PartialSum(f, n) ==
  LET sum[i \in 0..n] == IF i = 0 THEN 0 ELSE sum[i - 1] + f[i] IN sum[n]

(* The balance of the first n rows of the ledger.                          *)
Balance(n) == PartialSum([i \in DOMAIN ledger |-> Signed(ledger[i])], n)

Rows(type, ref) == {i \in DOMAIN ledger : ledger[i].type = type /\ ledger[i].ref = ref}

(* Definitions called ...Fault are seeded bugs, as in Lesson.               *)

EnterFault(p, row, events) ==  \* the balance before the change
  /\ ledger' = Append(ledger, row)
  /\ outbox' = outbox \o events \o
       <<[type |-> "balance.changed", ref |-> row.ref,
          balance |-> Balance(task[p].snapshot)]>>

(* Appends a row; events precede its balance.changed, which carries the    *)
(* balance the statement of p sees plus the change.                        *)
Enter(p, row, events) ==
  /\ ledger' = Append(ledger, row)
  /\ outbox' = outbox \o events \o
       <<[type |-> "balance.changed", ref |-> row.ref,
          balance |-> Balance(task[p].snapshot) + Signed(row)]>>

Start(p, op, ref) ==
  /\ task[p] = Idle
  /\ task' = [task EXCEPT ![p] = [op |-> op, ref |-> ref, snapshot |-> NotStarted]]
  /\ UNCHANGED <<ledger, receipts, processed, outbox>>

ToMark(p) == task' = [task EXCEPT ![p] = [op |-> "mark", ref |-> task[p].ref, snapshot |-> NotStarted]]
End(p) == task' = [task EXCEPT ![p] = Idle]

InStatement(p) == task[p] # Idle /\ task[p].snapshot # NotStarted

(* A statement on the ledger takes its snapshot.                           *)
BeginStatement(p) ==
  /\ task[p].op \in {"charge", "correct", "manual", "confirm"}
  /\ task[p].snapshot = NotStarted
  /\ task' = [task EXCEPT ![p].snapshot = Len(ledger)]
  /\ UNCHANGED <<ledger, receipts, processed, outbox>>

Running(p, op) == task[p].op = op /\ task[p].snapshot # NotStarted

-----------------------------------------------------------------------------
(* OnLessonEvent.                                                          *)

Charges(e) == e.type = "lesson.completed"
Corrects(e) ==
  \/ e.type = "lesson.restored"
  \/ e.type = "lesson.cancelled" /\ e.previous = "completed"

(* Nothing to do for the event: no financial effect, or a completion found *)
(* in the inbox.                                                           *)
Ignored(e) == IF Charges(e) THEN e \in processed ELSE ~Corrects(e)

OnLessonCompletedFault(p, e) ==  \* marked before the charge
  /\ Charges(e) /\ ~Ignored(e)
  /\ Amount[e.lesson] > 0
  /\ task[p] = Idle
  /\ task' = [task EXCEPT ![p] = [op |-> "charge", ref |-> e, snapshot |-> NotStarted]]
  /\ processed' = processed \cup {e}
  /\ UNCHANGED <<ledger, receipts, outbox>>

(* ValidateAmount throws for an amount that is not positive: the handler   *)
(* fails and the event is delivered again.                                 *)
OnLessonCompleted(p, e) ==
  /\ Charges(e) /\ ~Ignored(e)
  /\ Amount[e.lesson] > 0
  /\ Start(p, "charge", e)

OnLessonCancelledOrRestored(p, e) ==
  /\ Corrects(e)
  /\ Start(p, "correct", e)

CreateChargeFault(p) ==  \* no unique index
  LET lesson == task[p].ref.lesson
  IN  /\ Running(p, "charge")
      /\ Enter(p, [type |-> "charge", ref |-> lesson, amount |-> Amount[lesson]], <<>>)
      /\ ToMark(p)
      /\ UNCHANGED <<receipts, processed>>

(* A charge committed by another handler after the snapshot keeps this one *)
(* from inserting and is not found by its select either: "charge was not   *)
(* created", and the event is delivered again.                             *)
CreateCharge(p) ==
  LET lesson == task[p].ref.lesson
      charge == Rows("charge", lesson)
      row == [type |-> "charge", ref |-> lesson, amount |-> Amount[lesson]]
  IN  /\ Running(p, "charge")
      /\ \/ /\ charge = {}
            /\ Enter(p, row, <<[type |-> "charge.created", ref |-> lesson, balance |-> 0]>>)
            /\ ToMark(p)
         \/ /\ charge # {}
            /\ IF \E i \in charge : i <= task[p].snapshot THEN ToMark(p) ELSE End(p)
            /\ UNCHANGED <<ledger, outbox>>
      /\ UNCHANGED <<receipts, processed>>

MarkEventProcessed(p) ==
  /\ task[p].op = "mark"
  /\ processed' = processed \cup {task[p].ref}
  /\ End(p)
  /\ UNCHANGED <<ledger, receipts, outbox>>

CorrectionFault(e) ==  \* a refund in place of a correction
  [type |-> "refund", ref |-> e, amount |-> Amount[e.lesson]]

Correction(e) ==
  [type |-> "correction", ref |-> e,
   amount |-> IF e.type = "lesson.restored" THEN Amount[e.lesson] ELSE -Amount[e.lesson]]

CreateEventCorrectionFault(p) ==  \* ON CONFLICT does not stop the insert
  /\ Running(p, "correct")
  /\ Enter(p, Correction(task[p].ref), <<>>)
  /\ processed' = processed \cup {task[p].ref}
  /\ End(p)
  /\ UNCHANGED receipts

(* Inbox, ledger and outbox in one statement.                              *)
CreateEventCorrection(p) ==
  LET e == task[p].ref
  IN  /\ Running(p, "correct")
      /\ IF e \in processed
           THEN UNCHANGED <<ledger, outbox>>
           ELSE Enter(p, Correction(e), <<>>)
      /\ processed' = processed \cup {e}
      /\ End(p)
      /\ UNCHANGED receipts

(* The replica dies, or its transaction is lost: what was committed stays. *)
Crash(p) ==
  /\ task[p] # Idle
  /\ End(p)
  /\ UNCHANGED <<ledger, receipts, processed, outbox>>

-----------------------------------------------------------------------------
(* gRPC handlers.                                                          *)

ManualCorrection(p, m) ==
  /\ Rows("correction", m) = {}
  /\ ~ \E q \in Proc : task[q] # Idle /\ task[q].ref = m
  /\ Start(p, "manual", m)

CreateCorrection(p) ==
  LET m == task[p].ref
  IN  /\ Running(p, "manual")
      /\ Enter(p, [type |-> "correction", ref |-> m, amount |-> Amount[m]], <<>>)
      /\ End(p)
      /\ UNCHANGED <<receipts, processed>>

CreateReceipt(r) ==
  /\ receipts[r] = "absent"
  /\ receipts' = [receipts EXCEPT ![r] = "pending_review"]
  /\ outbox' = Append(outbox, [type |-> "payment_receipt.uploaded", ref |-> r, balance |-> 0])
  /\ UNCHANGED <<ledger, processed, task>>

ReadForConfirm(p, r) ==
  /\ receipts[r] \in {"pending_review", "confirmed"}
  /\ Start(p, "confirm", r)

ReadForReject(p, r) ==
  /\ receipts[r] = "pending_review"
  /\ Start(p, "reject", r)

ConfirmReceiptFault(p) ==  \* status checked by the read only
  LET r == task[p].ref
  IN  /\ Running(p, "confirm")
      /\ receipts' = [receipts EXCEPT ![r] = "confirmed"]
      /\ IF Rows("payment", r) = {}
           THEN Enter(p, [type |-> "payment", ref |-> r, amount |-> Amount[r]],
                  <<[type |-> "payment.confirmed", ref |-> r, balance |-> 0]>>)
           ELSE UNCHANGED <<ledger, outbox>>
      /\ End(p)
      /\ UNCHANGED processed

(* A receipt rejected since the read is answered "receipt not found".      *)
ConfirmReceipt(p) ==
  LET r == task[p].ref
  IN  /\ Running(p, "confirm")
      /\ IF receipts[r] \in {"pending_review", "confirmed"}
           THEN /\ receipts' = [receipts EXCEPT ![r] = "confirmed"]
                /\ IF Rows("payment", r) = {}
                     THEN Enter(p, [type |-> "payment", ref |-> r, amount |-> Amount[r]],
                            <<[type |-> "payment.confirmed", ref |-> r, balance |-> 0]>>)
                     ELSE UNCHANGED <<ledger, outbox>>
           ELSE UNCHANGED <<receipts, ledger, outbox>>
      /\ End(p)
      /\ UNCHANGED processed

RejectReceiptFault(p) ==  \* status checked by the read only
  /\ task[p].op = "reject"
  /\ receipts' = [receipts EXCEPT ![task[p].ref] = "rejected"]
  /\ End(p)
  /\ UNCHANGED <<ledger, processed, outbox>>

RejectReceipt(p) ==
  LET r == task[p].ref
  IN  /\ task[p].op = "reject"
      /\ IF receipts[r] \in {"pending_review", "rejected"}
           THEN /\ receipts' = [receipts EXCEPT ![r] = "rejected"]
                /\ outbox' = Append(outbox,
                     [type |-> "payment.rejected", ref |-> r, balance |-> 0])
           ELSE UNCHANGED <<receipts, outbox>>
      /\ End(p)
      /\ UNCHANGED <<ledger, processed>>

-----------------------------------------------------------------------------

DeliverStep == \E p \in Proc, e \in Event :
  OnLessonCompleted(p, e) \/ OnLessonCancelledOrRestored(p, e)

RequestStep ==
  \/ \E r \in Receipt : CreateReceipt(r)
  \/ \E p \in Proc, r \in Receipt : ReadForConfirm(p, r) \/ ReadForReject(p, r)
  \/ \E p \in Proc, m \in Manual : ManualCorrection(p, m)

ConsumerStatement(p) ==
  CreateCharge(p) \/ MarkEventProcessed(p) \/ CreateEventCorrection(p)

RequestStatement(p) ==
  CreateCorrection(p) \/ ConfirmReceipt(p) \/ RejectReceipt(p)

TaskStep == \E p \in Proc :
  BeginStatement(p) \/ ConsumerStatement(p) \/ RequestStatement(p) \/ Crash(p)

(* The variable overlapped takes no part in what the handlers do.          *)
Next ==
  /\ DeliverStep \/ RequestStep \/ TaskStep
  /\ overlapped' =
       (overlapped \/ \E p, q \in Proc : p # q /\ InStatement(p)' /\ InStatement(q)')

Spec == Init /\ [][Next]_vars

-----------------------------------------------------------------------------
(* Properties.                                                             *)

(* A replayed or concurrent lesson.completed never charges a lesson twice. *)
OneCharge == \A l \in Lesson : \A i, j \in Rows("charge", l) : i = j

(* A cancellation or restoration delivered again corrects once.            *)
OneCorrection == \A e \in Event : \A i, j \in Rows("correction", e) : i = j

(* A receipt is paid in once, and exactly if it is confirmed, whatever     *)
(* confirmations and rejections race.                                      *)
PaidIffConfirmed ==
  \A r \in Receipt :
    /\ \A i, j \in Rows("payment", r) : i = j
    /\ receipts[r] = "confirmed" <=> Rows("payment", r) # {}

(* The decision on a receipt is final, and is announced as it was made.    *)
Announced(type, r) == \E i \in DOMAIN outbox : outbox[i].type = type /\ outbox[i].ref = r
DecisionFinal ==
  \A r \in Receipt :
    /\ Announced("payment.rejected", r) <=> receipts[r] = "rejected"
    /\ Announced("payment.confirmed", r) <=> receipts[r] = "confirmed"

(* An event in the inbox has had its effect: a crash between the effect    *)
(* and the mark loses neither.                                             *)
InboxApplied ==
  \A e \in processed :
    Rows(IF Charges(e) THEN "charge" ELSE "correction",
         IF Charges(e) THEN e.lesson ELSE e) # {}

(* The balance.changed among the first n events.                           *)
Changes(n) == {i \in 1..n : outbox[i].type = "balance.changed"}

(* The k-th balance.changed tells the balance after the k-th operation.    *)
BalanceExact ==
  /\ Cardinality(Changes(Len(outbox))) = Len(ledger)
  /\ \A n \in Changes(Len(outbox)) : outbox[n].balance = Balance(Cardinality(Changes(n)))

(* As long as no two statements on the ledger have overlapped, every       *)
(* balance.changed tells the balance after its own operation.              *)
BalanceExactInTurn == ~overlapped => BalanceExact
=============================================================================
