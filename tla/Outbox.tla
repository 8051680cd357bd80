------------------------------- MODULE Outbox -------------------------------
(***************************************************************************)
(* Events from the transaction that records them to the handler that       *)
(* applies them (libs/events): rows of outbox_events, the publisher tick   *)
(* of every replica of a service, one Kafka partition, and the replicas of *)
(* one consumer group.                                                     *)
(*                                                                         *)
(* created_at of a row is now(), the start of its transaction, not its     *)
(* commit; the publisher sorts by it.  A tick is one transaction: lock,    *)
(* select, then send and mark row by row, commit.  What was sent stays in  *)
(* the log when the transaction does not commit.                           *)
(***************************************************************************)
EXTENDS Naturals, Sequences, FiniteSets

CONSTANTS
  Event,        \* ids of outbox rows
  KeyOf,        \* outbox_events.aggregate_id
  Replica,      \* replicas of the producing service
  Consumer,     \* replicas of the consuming service
  BatchSize,    \* LIMIT of the publisher's select
  PollSize,     \* max_batch_size of the consumer
  MaxFailures,  \* bound on failed ticks, failed handlers and rebalances
  None

ASSUME SizeAssumption == BatchSize \in Nat \ {0} /\ PollSize \in Nat \ {0}
ASSUME FailuresAssumption == MaxFailures \in Nat
ASSUME NoneAssumption == None \notin Replica

VARIABLES
  status,    \* of the row: "open" while its transaction has not committed
  stamp,     \* created_at
  clock,     \* the database clock
  before,    \* history: the events of its aggregate that were committed when
             \* the transaction of an event began
  leader,    \* holder of the advisory lock tutorflow.outbox_publisher
  todo,      \* per replica, rows of its batch it has still to send
  sent,      \* per replica, rows of its batch it has sent and marked
  log,       \* the Kafka partition
  owner,     \* the consumer the partition is assigned to
  reader,    \* per consumer, the batch it is handling: log[pos + 1 .. end]
  committed, \* the offset of the consumer group
  handled,   \* history: the events handled at least once
  failures

rows == <<status, stamp, clock, before>>
ticks == <<leader, todo, sent>>
group == <<owner, reader, committed, handled>>
vars == <<rows, ticks, log, group, failures>>

TypeOK ==
  /\ status \in [Event -> {"absent", "open", "pending", "published"}]
  /\ stamp \in [Event -> Nat]
  /\ clock \in Nat
  /\ before \in [Event -> SUBSET Event]
  /\ leader \in Replica \cup {None}
  /\ todo \in [Replica -> SUBSET Event]
  /\ sent \in [Replica -> SUBSET Event]
  /\ log \in Seq(Event)
  /\ owner \in Consumer
  /\ reader \in [Consumer -> [pos: Nat, end: Nat]]
  /\ committed \in Nat
  /\ handled \subseteq Event
  /\ failures \in Nat

Init ==
  /\ status = [e \in Event |-> "absent"]
  /\ stamp = [e \in Event |-> 0]
  /\ clock = 0
  /\ before = [e \in Event |-> {}]
  /\ leader = None
  /\ todo = [p \in Replica |-> {}]
  /\ sent = [p \in Replica |-> {}]
  /\ log = <<>>
  /\ owner = CHOOSE c \in Consumer : TRUE  \* any: consumers are alike
  /\ reader = [c \in Consumer |-> [pos |-> 0, end |-> 0]]
  /\ committed = 0
  /\ handled = {}
  /\ failures = 0

-----------------------------------------------------------------------------
(* The transactions that record events.  Those of one aggregate may        *)
(* overlap: created_at is the moment a transaction starts, and it may wait *)
(* for the row of the aggregate after that.                                *)

Committed == {e \in Event : status[e] \in {"pending", "published"}}

BeginTransaction(e) ==
  /\ status[e] = "absent"
  /\ clock' = clock + 1
  /\ stamp' = [stamp EXCEPT ![e] = clock']
  /\ status' = [status EXCEPT ![e] = "open"]
  /\ before' = [before EXCEPT ![e] = {f \in Committed : KeyOf[f] = KeyOf[e]}]
  /\ UNCHANGED <<ticks, log, group, failures>>

CommitTransaction(e) ==
  /\ status[e] = "open"
  /\ status' = [status EXCEPT ![e] = "pending"]
  /\ UNCHANGED <<stamp, clock, before, ticks, log, group, failures>>

-----------------------------------------------------------------------------
(* PublishPending, on every replica once a second.                         *)

Fail == failures < MaxFailures /\ failures' = failures + 1

Pending == {e \in Event : status[e] = "pending"}

(* Definitions called ...Fault are seeded bugs, as in Lesson.               *)

IsBatchFault(S) ==  \* no ORDER BY
  /\ S \subseteq Pending
  /\ Cardinality(S) = IF Cardinality(Pending) < BatchSize
                        THEN Cardinality(Pending) ELSE BatchSize

(* The rows the select returns: the oldest, at most BatchSize.             *)
IsBatch(S) ==
  /\ S \subseteq Pending
  /\ Cardinality(S) = IF Cardinality(Pending) < BatchSize
                        THEN Cardinality(Pending) ELSE BatchSize
  /\ \A e \in S, f \in Pending \ S : stamp[e] < stamp[f]

StartTickFault(p) ==  \* no leader lock
  /\ todo[p] = {} /\ sent[p] = {}
  /\ Pending # {}
  /\ \E S \in SUBSET Pending : IsBatch(S) /\ todo' = [todo EXCEPT ![p] = S]
  /\ leader' = p
  /\ UNCHANGED <<sent, rows, log, group, failures>>

(* A replica that does not get the lock skips its tick.                    *)
StartTick(p) ==
  /\ leader = None
  /\ Pending # {}
  /\ \E S \in SUBSET Pending : IsBatch(S) /\ todo' = [todo EXCEPT ![p] = S]
  /\ leader' = p
  /\ UNCHANGED <<sent, rows, log, group, failures>>

Send(p) ==
  \E e \in todo[p] :
    /\ \A f \in todo[p] \ {e} : stamp[e] < stamp[f]
    /\ log' = Append(log, e)
    /\ todo' = [todo EXCEPT ![p] = @ \ {e}]
    /\ sent' = [sent EXCEPT ![p] = @ \cup {e}]
    /\ UNCHANGED <<leader, rows, group, failures>>

FinishTick(p) ==
  /\ todo[p] = {} /\ sent[p] # {}
  /\ status' = [e \in Event |-> IF e \in sent[p] THEN "published" ELSE status[e]]
  /\ sent' = [sent EXCEPT ![p] = {}]
  /\ leader' = None
  /\ UNCHANGED <<stamp, clock, before, todo, log, group, failures>>

AbortTickFault(p) ==  \* a session lock, not released by the rollback
  /\ leader = p
  /\ Fail
  /\ todo' = [todo EXCEPT ![p] = {}]
  /\ sent' = [sent EXCEPT ![p] = {}]
  /\ UNCHANGED <<leader, rows, log, group>>

(* Send throws, the replica dies or the commit fails: the transaction is   *)
(* rolled back and the lock goes with it.                                  *)
AbortTick(p) ==
  /\ leader = p
  /\ Fail
  /\ todo' = [todo EXCEPT ![p] = {}]
  /\ sent' = [sent EXCEPT ![p] = {}]
  /\ leader' = None
  /\ UNCHANGED <<rows, log, group>>

-----------------------------------------------------------------------------
(* The consumer group: EventConsumer::Start handles the messages of a      *)
(* batch one by one and then calls AsyncCommit.                            *)

Reading(c) == reader[c].pos < reader[c].end
Batch(from) == [pos |-> from,
                end |-> IF Len(log) < from + PollSize THEN Len(log) ELSE from + PollSize]
NoBatchFault == [pos |-> committed - 1, end |-> committed]  \* off by one
NoBatch == [pos |-> committed, end |-> committed]

Poll(c) ==
  /\ owner = c
  /\ ~Reading(c)
  /\ reader[c].pos < Len(log)
  /\ reader' = [reader EXCEPT ![c] = Batch(@.pos)]
  /\ UNCHANGED <<owner, committed, handled, rows, ticks, log, failures>>

(* A consumer that lost the partition still finishes its batch.            *)
Handle(c) ==
  LET e == log[reader[c].pos + 1]
  IN  /\ Reading(c)
      /\ reader' = [reader EXCEPT ![c].pos = @ + 1]
      /\ handled' = handled \cup {e}
      /\ UNCHANGED <<owner, committed, rows, ticks, log, failures>>

CommitOffsetFault(c) ==  \* the offset of the batch, before it is handled
  /\ owner = c
  /\ committed < reader[c].end
  /\ committed' = reader[c].end
  /\ UNCHANGED <<owner, reader, handled, rows, ticks, log, failures>>

(* The asynchronous commit may arrive late or not at all.                  *)
CommitOffset(c) ==
  /\ owner = c
  /\ ~Reading(c)
  /\ committed < reader[c].pos
  /\ committed' = reader[c].pos
  /\ UNCHANGED <<owner, reader, handled, rows, ticks, log, failures>>

(* The handler throws or the replica restarts: it reads again from the     *)
(* committed offset.                                                       *)
HandlerFails(c) ==
  /\ Reading(c)
  /\ Fail
  /\ reader' = [reader EXCEPT ![c] = NoBatch]
  /\ UNCHANGED <<owner, committed, handled, rows, ticks, log>>

Rebalance(c) ==
  /\ owner # c
  /\ ~Reading(c)
  /\ Fail
  /\ owner' = c
  /\ reader' = [reader EXCEPT ![c] = NoBatch]
  /\ UNCHANGED <<committed, handled, rows, ticks, log>>

-----------------------------------------------------------------------------

Tick(p) == StartTick(p) \/ Send(p) \/ FinishTick(p)
Consume(c) == Poll(c) \/ Handle(c)

Next ==
  \/ \E e \in Event : BeginTransaction(e) \/ CommitTransaction(e)
  \/ \E p \in Replica : Tick(p) \/ AbortTick(p)
  \/ \E c \in Consumer :
       Consume(c) \/ CommitOffset(c) \/ HandlerFails(c) \/ Rebalance(c)

(* Ticks recur every second on every replica; a consumer polls and handles *)
(* as long as it runs.                                                     *)
Fairness ==
  /\ WF_vars(\E p \in Replica : Tick(p))
  /\ \A c \in Consumer : WF_vars(Consume(c))

Spec == Init /\ [][Next]_vars /\ Fairness

-----------------------------------------------------------------------------
(* Properties.                                                             *)

(* No event below the committed offset is skipped, through failures and    *)
(* rebalances.                                                             *)
OffsetHandled == \A i \in 1..committed : log[i] \in handled

(* Whenever an event has been handled, so has every one of its aggregate   *)
(* that was committed before its transaction began, through batches,       *)
(* rolled back ticks and two publishers.                                   *)
KeysInOrder == \A e \in handled : before[e] \subseteq handled

(* No replica sends a row another one has already marked.                  *)
NoStaleSend ==
  [][\A e \in Event : log' = Append(log, e) => status[e] = "pending"]_log

(* Together: the abstract stream, with its promise that every recorded     *)
(* event is handled in the end.                                            *)
Stream == INSTANCE EventStream WITH
  stage <- [e \in Event |-> IF e \in Committed THEN "recorded" ELSE status[e]]
StreamSpec == Stream!Spec
=============================================================================
