---------------------------- MODULE OutboxProofs ----------------------------
(* Theorems about module Outbox, for any events, aggregates, replicas,     *)
(* consumers, batch sizes and bounds.                                      *)
EXTENDS Outbox, TLAPS

TypeInv ==
  /\ status \in [Event -> {"absent", "open", "pending", "published"}]
  /\ stamp \in [Event -> Nat]
  /\ clock \in Nat
  /\ before \in [Event -> SUBSET Event]
  /\ leader \in Replica \cup {None}
  /\ todo \in [Replica -> SUBSET Event]
  /\ sent \in [Replica -> SUBSET Event]
  /\ log \in Seq(Event)
  /\ reader \in [Consumer -> [pos: Nat, end: Nat]]
  /\ committed \in Nat
  /\ handled \subseteq Event

-----------------------------------------------------------------------------
(* The publisher.                                                          *)

(* Only the leader is in a tick, with rows nobody has marked; what it has  *)
(* sent, and what anybody has marked, is in the log.                       *)
InLog(e) == \E i \in DOMAIN log : log[i] = e

TickInv ==
  /\ \A p \in Replica \ {leader} : todo[p] = {} /\ sent[p] = {}
  /\ \A p \in Replica : todo[p] \cup sent[p] \subseteq Pending
  /\ \A p \in Replica : \A e \in sent[p] : InLog(e)
  /\ \A e \in Event : status[e] = "published" => InLog(e)

(* The consumers.  Whatever lies behind a position has been handled.       *)
ReadInv ==
  /\ committed <= Len(log)
  /\ \A c \in Consumer : reader[c].pos <= Len(log) /\ reader[c].end <= Len(log)
  /\ OffsetHandled
  /\ \A c \in Consumer : \A i \in 1..reader[c].pos : log[i] \in handled

StreamInv == TypeInv /\ TickInv /\ ReadInv

LEMMA InitStreamInv == Init => StreamInv
<1> SUFFICES ASSUME Init PROVE StreamInv
  OBVIOUS
<1>1. log = <<>> /\ Len(log) = 0 /\ log \in Seq(Event)
  BY DEF Init
<1>2. <<>> \in Seq(Event)
  OBVIOUS
<1>3. TypeInv
  BY <1>1, <1>2 DEF Init, TypeInv
<1>4. TickInv
  BY DEF Init, TickInv
<1>5. ReadInv
  BY <1>1 DEF Init, ReadInv, OffsetHandled
<1> QED BY <1>3, <1>4, <1>5 DEF StreamInv

(* Appending to the log, or leaving it, keeps what is in it.               *)
LEMMA LogGrows ==
  ASSUME log \in Seq(Event), NEW e \in Event, log' = Append(log, e)
  PROVE  /\ log' \in Seq(Event) /\ Len(log') = Len(log) + 1 /\ Len(log) \in Nat
         /\ \A i \in 1..Len(log) : log'[i] = log[i]
         /\ log'[Len(log) + 1] = e
         /\ \A f : InLog(f)' <=> InLog(f) \/ f = e
<1>1. /\ log' \in Seq(Event) /\ Len(log') = Len(log) + 1 /\ Len(log) \in Nat
      /\ \A i \in 1..Len(log) : log'[i] = log[i]
      /\ log'[Len(log) + 1] = e
      /\ DOMAIN log = 1..Len(log) /\ DOMAIN log' = 1..(Len(log) + 1)
  OBVIOUS
<1>2. ASSUME NEW f PROVE InLog(f)' <=> InLog(f) \/ f = e
  <2>1. InLog(f)' => InLog(f) \/ f = e
    BY <1>1 DEF InLog
  <2>2. InLog(f) => InLog(f)'
    BY <1>1 DEF InLog
  <2>3. f = e => InLog(f)'
    BY <1>1 DEF InLog
  <2> QED BY <2>1, <2>2, <2>3
<1> QED BY <1>1, <1>2

(* Steps of transactions and consumers, for the publisher.                 *)
LEMMA TickKept ==
  ASSUME TickInv, UNCHANGED <<ticks, log>>,
         \A e \in Event : status[e] \in {"pending", "published"} => status'[e] = status[e],
         \A e \in Event : status'[e] = "published" => status[e] = "published"
  PROVE  TickInv'
BY DEF TickInv, InLog, Pending, ticks

(* Steps of transactions and of the publisher, for the consumers.          *)
LEMMA ReadKept ==
  ASSUME TypeInv, ReadInv, UNCHANGED <<reader, committed, handled>>,
         UNCHANGED log \/ \E e \in Event : log' = Append(log, e)
  PROVE  ReadInv'
<1>1. Len(log) \in Nat /\ Len(log') \in Nat /\ Len(log') >= Len(log)
      /\ \A i \in 1..Len(log) : log'[i] = log[i]
  BY LogGrows DEF TypeInv
<1>2. \A c \in Consumer : reader[c].pos \in Nat /\ reader[c].end \in Nat
  BY DEF TypeInv
<1>3. committed' <= Len(log') /\ \A c \in Consumer : reader'[c].pos <= Len(log') /\ reader'[c].end <= Len(log')
  BY <1>1, <1>2 DEF TypeInv, ReadInv
<1>4. ASSUME NEW i \in 1..committed' PROVE log'[i] \in handled'
  <2>1. i \in 1..committed /\ i \in 1..Len(log)
    BY <1>1 DEF TypeInv, ReadInv
  <2> QED BY <1>1, <2>1 DEF ReadInv, OffsetHandled
<1>5. ASSUME NEW c \in Consumer, NEW i \in 1..reader'[c].pos PROVE log'[i] \in handled'
  <2>1. i \in 1..reader[c].pos /\ i \in 1..Len(log)
    BY <1>1, <1>2 DEF ReadInv
  <2> QED BY <1>1, <2>1 DEF ReadInv
<1> QED BY <1>3, <1>4, <1>5 DEF ReadInv, OffsetHandled

LEMMA TransactionKeeps ==
  ASSUME StreamInv, NEW e \in Event, BeginTransaction(e) \/ CommitTransaction(e)
  PROVE  StreamInv'
<1>1. CASE BeginTransaction(e)
  <2>1. TypeInv'
    BY <1>1 DEF BeginTransaction, Committed, StreamInv, TypeInv, ticks, group
  <2>2. TickInv'
    BY <1>1, TickKept DEF BeginTransaction, StreamInv, TypeInv
  <2>3. ReadInv'
    BY <1>1, ReadKept DEF BeginTransaction, StreamInv, group
  <2> QED BY <2>1, <2>2, <2>3 DEF StreamInv
<1>2. CASE CommitTransaction(e)
  <2>1. TypeInv'
    BY <1>2 DEF CommitTransaction, StreamInv, TypeInv, ticks, group
  <2>2. TickInv'
    BY <1>2, TickKept DEF CommitTransaction, StreamInv, TypeInv
  <2>3. ReadInv'
    BY <1>2, ReadKept DEF CommitTransaction, StreamInv, group
  <2> QED BY <2>1, <2>2, <2>3 DEF StreamInv
<1> QED BY <1>1, <1>2

LEMMA StartTickKeeps ==
  ASSUME StreamInv, NEW p \in Replica, StartTick(p)
  PROVE  StreamInv'
<1>1. PICK S \in SUBSET Pending : todo' = [todo EXCEPT ![p] = S]
  BY DEF StartTick
<1>2. leader = None /\ leader' = p /\ UNCHANGED <<sent, rows, log, group>>
  BY DEF StartTick
<1>3. Pending' = Pending /\ \A e : InLog(e)' <=> InLog(e)
  BY <1>2 DEF Pending, rows, InLog
<1>4. TypeInv'
  BY <1>1, <1>2 DEF StreamInv, TypeInv, rows, group, Pending
<1>5. TickInv'
  BY <1>1, <1>2, <1>3, NoneAssumption DEF StreamInv, TickInv, TypeInv, rows
<1>6. ReadInv'
  BY <1>2, ReadKept DEF StreamInv, group
<1> QED BY <1>4, <1>5, <1>6 DEF StreamInv

LEMMA SendKeeps ==
  ASSUME StreamInv, NEW p \in Replica, Send(p)
  PROVE  StreamInv'
<1>1. PICK e \in todo[p] : /\ log' = Append(log, e)
                           /\ todo' = [todo EXCEPT ![p] = @ \ {e}]
                           /\ sent' = [sent EXCEPT ![p] = @ \cup {e}]
                           /\ UNCHANGED <<leader, rows, group>>
  BY DEF Send
<1>2. e \in Event /\ p = leader
  BY <1>1 DEF StreamInv, TypeInv, TickInv
<1>3. Pending' = Pending /\ \A f : InLog(f)' <=> InLog(f) \/ f = e
  BY <1>1, <1>2, LogGrows DEF Pending, rows, StreamInv, TypeInv
<1>4. TypeInv'
  BY <1>1, <1>2, LogGrows DEF StreamInv, TypeInv, rows, group
<1>5. TickInv'
  BY <1>1, <1>2, <1>3 DEF StreamInv, TypeInv, TickInv, rows
<1>6. ReadInv'
  BY <1>1, <1>2, ReadKept DEF StreamInv, group
<1> QED BY <1>4, <1>5, <1>6 DEF StreamInv

LEMMA EndTickKeeps ==
  ASSUME StreamInv, NEW p \in Replica, FinishTick(p) \/ AbortTick(p)
  PROVE  StreamInv'
<1>1. /\ p = leader /\ leader' = None
      /\ \A q \in Replica : todo'[q] = {} /\ sent'[q] = {}
      /\ UNCHANGED <<stamp, clock, before, log, group>>
  <2>1. p = leader
    BY DEF StreamInv, TickInv, FinishTick, AbortTick
  <2>2. CASE FinishTick(p)
    BY <2>1, <2>2 DEF StreamInv, TypeInv, TickInv, FinishTick
  <2>3. CASE AbortTick(p)
    BY <2>1, <2>3 DEF StreamInv, TypeInv, TickInv, AbortTick, rows
  <2> QED BY <2>1, <2>2, <2>3
<1>2. /\ status' \in [Event -> {"absent", "open", "pending", "published"}]
      /\ \A e \in Event : status'[e] = "published" => status[e] = "published" \/ e \in sent[p]
  BY DEF StreamInv, TypeInv, FinishTick, AbortTick, rows
<1>3. TypeInv'
  BY <1>1, <1>2 DEF StreamInv, TypeInv, FinishTick, AbortTick, group
<1>4. TickInv'
  BY <1>1, <1>2 DEF StreamInv, TickInv, InLog
<1>5. ReadInv'
  BY <1>1, ReadKept DEF StreamInv, group
<1> QED BY <1>3, <1>4, <1>5 DEF StreamInv

-----------------------------------------------------------------------------
(* Steps of consumers.                                                     *)

LEMMA HandleKeepsHandled ==
  ASSUME StreamInv, NEW c \in Consumer, Handle(c)
  PROVE  /\ log[reader[c].pos + 1] \in Event
         /\ reader[c].pos + 1 \in 1..Len(log)
         /\ handled' = handled \cup {log[reader[c].pos + 1]}
<1>1. reader[c].pos \in Nat /\ reader[c].pos + 1 \in 1..Len(log)
  BY DEF Handle, Reading, StreamInv, TypeInv, ReadInv
<1>2. log[reader[c].pos + 1] \in Event
  BY <1>1 DEF StreamInv, TypeInv
<1> QED BY <1>1, <1>2 DEF Handle

LEMMA HandleKeeps ==
  ASSUME StreamInv, NEW c \in Consumer, Handle(c)
  PROVE  StreamInv'
<1> DEFINE e == log[reader[c].pos + 1]
<1>1. /\ reader' = [reader EXCEPT ![c].pos = @ + 1]
      /\ UNCHANGED <<committed, rows, ticks, log>>
  BY DEF Handle
<1>2. reader[c].pos < reader[c].end /\ reader[c] \in [pos: Nat, end: Nat]
  BY DEF Handle, Reading, StreamInv, TypeInv
<1>3. /\ reader' \in [Consumer -> [pos: Nat, end: Nat]]
      /\ reader'[c].pos = reader[c].pos + 1 /\ reader'[c].end = reader[c].end
      /\ \A d \in Consumer \ {c} : reader'[d] = reader[d]
  <2>1. [reader[c] EXCEPT !.pos = @ + 1] \in [pos: Nat, end: Nat]
    BY <1>2
  <2> QED BY <1>1, <1>2, <2>1 DEF StreamInv, TypeInv
<1>4. TypeInv'
  BY <1>1, <1>3, HandleKeepsHandled DEF StreamInv, TypeInv, rows, ticks
<1>5. TickInv'
  BY <1>1, TickKept DEF StreamInv, rows
<1>6. Len(log) \in Nat /\ \A i \in 1..Len(log) : log[i] \in Event
  BY DEF StreamInv, TypeInv
<1>7. ASSUME NEW i \in 1..Len(log), log[i] \in handled \/ log[i] = e PROVE log'[i] \in handled'
  BY <1>1, <1>7, HandleKeepsHandled
<1>8. /\ committed' <= Len(log')
      /\ \A d \in Consumer : reader'[d].pos <= Len(log') /\ reader'[d].end <= Len(log')
  BY <1>1, <1>2, <1>3, <1>6 DEF StreamInv, ReadInv
<1>9. OffsetHandled'
  <2> SUFFICES ASSUME NEW i \in 1..committed PROVE log'[i] \in handled'
    BY <1>1 DEF OffsetHandled
  <2>1. i \in 1..Len(log)
    BY <1>6 DEF StreamInv, TypeInv, ReadInv
  <2> QED BY <1>7, <2>1 DEF StreamInv, ReadInv, OffsetHandled
<1>10. ASSUME NEW d \in Consumer, NEW i \in 1..reader'[d].pos PROVE log'[i] \in handled'
  <2>1. i \in 1..Len(log)
    BY <1>1, <1>3, <1>6, <1>8
  <2>2. i \in 1..reader[d].pos \/ log[i] = e
    BY <1>2, <1>3
  <2> QED BY <1>7, <2>1, <2>2 DEF StreamInv, ReadInv
<1> QED BY <1>4, <1>5, <1>8, <1>9, <1>10 DEF StreamInv, ReadInv

(* A consumer takes a batch, commits, or goes back to what is committed.   *)
LEMMA PositionKeeps ==
  ASSUME StreamInv, NEW c \in Consumer,
         Poll(c) \/ CommitOffset(c) \/ HandlerFails(c) \/ Rebalance(c)
  PROVE  StreamInv'
<1>1. /\ UNCHANGED <<handled, rows, ticks, log>>
      /\ Len(log) \in Nat /\ PollSize \in Nat /\ committed \in Nat /\ reader[c] \in [pos: Nat, end: Nat]
  BY SizeAssumption DEF Poll, CommitOffset, HandlerFails, Rebalance, StreamInv, TypeInv
<1>2. /\ \A d \in Consumer \ {c} : reader'[d] = reader[d]
      /\ reader'[c].pos \in {reader[c].pos, committed}
      /\ reader' \in [Consumer -> [pos: Nat, end: Nat]]
      /\ reader'[c].end <= Len(log)
      /\ committed' \in {committed, reader[c].pos}
  <2>1. CASE Poll(c)
    <3>1. Batch(reader[c].pos) \in [pos: Nat, end: Nat] /\ Batch(reader[c].pos).end <= Len(log)
          /\ Batch(reader[c].pos).pos = reader[c].pos
      BY <1>1 DEF Batch
    <3> QED BY <2>1, <3>1 DEF Poll, StreamInv, TypeInv
  <2>2. CASE CommitOffset(c)
    BY <2>2 DEF CommitOffset, StreamInv, TypeInv, ReadInv
  <2>3. CASE HandlerFails(c) \/ Rebalance(c)
    <3>1. reader' = [reader EXCEPT ![c] = NoBatch] /\ UNCHANGED committed
      BY <2>3 DEF HandlerFails, Rebalance
    <3>2. NoBatch \in [pos: Nat, end: Nat] /\ NoBatch.pos = committed /\ NoBatch.end <= Len(log)
      BY <1>1 DEF NoBatch, StreamInv, ReadInv
    <3> QED BY <3>1, <3>2 DEF StreamInv, TypeInv
  <2> QED BY <2>1, <2>2, <2>3
<1>3. TypeInv'
  BY <1>1, <1>2 DEF StreamInv, TypeInv, rows, ticks
<1>4. TickInv'
  BY <1>1, TickKept DEF StreamInv, rows
<1>5. ReadInv'
  <2>1. /\ \A i \in 1..committed : log[i] \in handled
        /\ \A d \in Consumer : \A i \in 1..reader[d].pos : log[i] \in handled
        /\ committed <= Len(log)
        /\ \A d \in Consumer : reader[d].pos <= Len(log) /\ reader[d].end <= Len(log)
    BY DEF StreamInv, ReadInv, OffsetHandled
  <2>2. \A i \in 1..committed' : log[i] \in handled
    BY <1>2, <2>1
  <2>3. \A d \in Consumer : \A i \in 1..reader'[d].pos : log[i] \in handled
    BY <1>2, <2>1
  <2>4. committed' <= Len(log) /\ \A d \in Consumer : reader'[d].pos <= Len(log) /\ reader'[d].end <= Len(log)
    BY <1>2, <2>1
  <2> QED BY <1>1, <2>2, <2>3, <2>4 DEF ReadInv, OffsetHandled
<1> QED BY <1>3, <1>4, <1>5 DEF StreamInv

LEMMA NextStreamInv == StreamInv /\ [Next]_vars => StreamInv'
<1> SUFFICES ASSUME StreamInv, [Next]_vars PROVE StreamInv'
  OBVIOUS
<1>1. CASE UNCHANGED vars
  <2>1. TypeInv'
    BY <1>1 DEF vars, rows, ticks, group, StreamInv, TypeInv
  <2>2. TickInv'
    BY <1>1, TickKept DEF vars, rows, StreamInv
  <2>3. ReadInv'
    BY <1>1, ReadKept DEF vars, group, StreamInv
  <2> QED BY <2>1, <2>2, <2>3 DEF StreamInv
<1> QED BY <1>1, TransactionKeeps, StartTickKeeps, SendKeeps, EndTickKeeps, HandleKeeps, PositionKeeps
        DEF Next, Tick, Consume

(* No event below the committed offset is skipped, whatever ticks and      *)
(* handlers fail and wherever the partition moves: the offset only follows *)
(* a position behind which everything has been handled.                    *)
THEOREM OffsetsNeverSkip == Spec => []OffsetHandled
<1>1. StreamInv => OffsetHandled
  BY DEF StreamInv, ReadInv
<1> QED BY <1>1, InitStreamInv, NextStreamInv, PTL DEF Spec

(* No replica sends a row another one has already marked: the leader lock  *)
(* keeps ticks apart, and goes only with the transaction that marks.       *)
THEOREM NothingStaleSent == Spec => NoStaleSend
<1>1. StreamInv /\ [Next]_vars =>
        [\A e \in Event : log' = Append(log, e) => status[e] = "pending"]_log
  <2> SUFFICES ASSUME StreamInv, [Next]_vars, log' # log, NEW e \in Event, log' = Append(log, e)
               PROVE  status[e] = "pending"
    OBVIOUS
  <2>1. PICK p \in Replica : Send(p)
    BY DEF Next, BeginTransaction, CommitTransaction, Tick, StartTick, FinishTick, AbortTick, Consume,
           Poll, Handle, CommitOffset, HandlerFails, Rebalance, vars
  <2>2. PICK f \in todo[p] : log' = Append(log, f)
    BY <2>1 DEF Send
  <2>3. f \in Event /\ f = e
    <3>1. f \in Event
      BY <2>2 DEF StreamInv, TypeInv
    <3> QED BY <2>2, <3>1, LogGrows DEF StreamInv, TypeInv
  <2> QED BY <2>2, <2>3 DEF StreamInv, TickInv, Pending
<1> QED BY <1>1, InitStreamInv, NextStreamInv, PTL DEF Spec, NoStaleSend

-----------------------------------------------------------------------------
(* Order.                                                                  *)

(* What was committed when a transaction began has an older stamp.         *)
RowInv ==
  /\ \A e \in Event : status[e] # "absent" => stamp[e] <= clock
  /\ \A e \in Event : \A f \in before[e] :
       f \in Committed /\ KeyOf[f] = KeyOf[e] /\ stamp[f] < stamp[e]

(* A tick that takes a row takes those before it that are not yet marked.  *)
Taken(p) == todo[p] \cup sent[p]
BatchInv ==
  \A p \in Replica : \A e \in Taken(p) : \A f \in before[e] : f \in Pending => f \in Taken(p)

(* The events before one in the log come before it in the log.             *)
LogInv ==
  /\ \A i \in DOMAIN log :
       /\ log[i] \in Committed
       /\ \A f \in before[log[i]] : \E j \in 1..(i - 1) : log[j] = f
  /\ handled \subseteq Committed

OrderInv == StreamInv /\ RowInv /\ BatchInv /\ LogInv /\ KeysInOrder

(* Steps that leave the rows, the log and what is handled alone, but for   *)
(* marking rows.                                                           *)
LEMMA OrderKept ==
  ASSUME OrderInv, UNCHANGED <<stamp, clock, before, log, handled>>, Committed' = Committed,
         \A e \in Event : status'[e] # "absent" => status[e] # "absent"
  PROVE  RowInv' /\ LogInv' /\ KeysInOrder'
<1>1. RowInv'
  BY DEF OrderInv, RowInv
<1>2. LogInv'
  BY DEF OrderInv, LogInv
<1>3. KeysInOrder'
  BY DEF OrderInv, KeysInOrder
<1> QED BY <1>1, <1>2, <1>3

(* Consumers but for what they handle.                                     *)
LEMMA ReaderOrder ==
  ASSUME OrderInv, StreamInv', UNCHANGED <<rows, ticks, log, handled>>
  PROVE  OrderInv'
<1>1. Pending' = Pending /\ Committed' = Committed
  BY DEF Pending, Committed, rows
<1>2. BatchInv'
  BY <1>1 DEF OrderInv, BatchInv, Taken, rows, ticks
<1> QED BY <1>1, <1>2, OrderKept DEF OrderInv, rows

LEMMA BeginOrder ==
  ASSUME OrderInv, StreamInv', NEW e \in Event, BeginTransaction(e)
  PROVE  OrderInv'
<1>1. /\ status[e] = "absent" /\ status' = [status EXCEPT ![e] = "open"]
      /\ clock' = clock + 1 /\ clock \in Nat /\ stamp' = [stamp EXCEPT ![e] = clock + 1]
      /\ before' = [before EXCEPT ![e] = {f \in Committed : KeyOf[f] = KeyOf[e]}]
      /\ UNCHANGED <<ticks, log, group>>
  BY DEF BeginTransaction, OrderInv, StreamInv, TypeInv
<1>2. /\ status \in [Event -> {"absent", "open", "pending", "published"}]
      /\ stamp \in [Event -> Nat] /\ before \in [Event -> SUBSET Event] /\ log \in Seq(Event)
  BY DEF OrderInv, StreamInv, TypeInv
<1>3. Pending' = Pending /\ Committed' = Committed /\ e \notin Committed /\ Committed \subseteq Event
  BY <1>1, <1>2 DEF Pending, Committed
<1>4. \A f \in Event : f # e => stamp'[f] = stamp[f] /\ before'[f] = before[f] /\ status'[f] = status[f]
  BY <1>1, <1>2
<1>5. stamp'[e] = clock + 1 /\ before'[e] = {f \in Committed : KeyOf[f] = KeyOf[e]}
  BY <1>1, <1>2
<1>6. RowInv'
  <2>1. ASSUME NEW f \in Event, status'[f] # "absent" PROVE stamp'[f] <= clock'
    BY <1>1, <1>2, <1>4, <1>5, <2>1 DEF OrderInv, RowInv
  <2>2. ASSUME NEW g \in Event, NEW f \in before'[g]
        PROVE  f \in Committed' /\ KeyOf[f] = KeyOf[g] /\ stamp'[f] < stamp'[g]
    <3>1. CASE g = e
      <4>1. f \in Committed /\ KeyOf[f] = KeyOf[e] /\ f # e /\ f \in Event
        BY <1>3, <1>5, <2>2, <3>1
      <4>2. stamp[f] <= clock
        BY <4>1 DEF OrderInv, RowInv, Committed
      <4> QED BY <1>1, <1>2, <1>3, <1>4, <1>5, <3>1, <4>1, <4>2
    <3>2. CASE g # e
      <4>1. f \in Committed /\ KeyOf[f] = KeyOf[g] /\ stamp[f] < stamp[g]
        BY <1>4, <2>2, <3>2 DEF OrderInv, RowInv
      <4> QED BY <1>3, <1>4, <3>2, <4>1
    <3> QED BY <3>1, <3>2
  <2> QED BY <2>1, <2>2 DEF RowInv
<1>7. BatchInv'
  <2>1. \A p \in Replica : Taken(p)' = Taken(p) /\ Taken(p) \subseteq Pending
    BY <1>1 DEF Taken, ticks, OrderInv, StreamInv, TickInv
  <2>2. \A f \in Pending : f \in Event /\ f # e
    BY <1>1 DEF Pending
  <2> QED BY <1>3, <1>4, <2>1, <2>2 DEF BatchInv, OrderInv
<1>8. LogInv'
  <2> SUFFICES ASSUME NEW i \in DOMAIN log
               PROVE  log[i] \in Committed /\ \A f \in before'[log[i]] : \E j \in 1..(i - 1) : log[j] = f
    BY <1>1, <1>3 DEF OrderInv, LogInv, group
  <2>1. log[i] \in Committed /\ \A f \in before[log[i]] : \E j \in 1..(i - 1) : log[j] = f
    BY DEF OrderInv, LogInv
  <2> QED BY <1>3, <1>4, <2>1
<1>9. KeysInOrder'
  <2>1. \A g \in handled : before'[g] = before[g]
    BY <1>3, <1>4 DEF OrderInv, LogInv
  <2> QED BY <1>1, <2>1 DEF OrderInv, KeysInOrder, group
<1> QED BY <1>6, <1>7, <1>8, <1>9 DEF OrderInv

LEMMA CommitKeepsOrder ==
  ASSUME OrderInv, StreamInv', NEW e \in Event, CommitTransaction(e)
  PROVE  OrderInv'
<1>1. /\ status[e] = "open" /\ status' = [status EXCEPT ![e] = "pending"]
      /\ UNCHANGED <<stamp, clock, before, ticks, log, group>>
  BY DEF CommitTransaction
<1>2. /\ Pending' = Pending \cup {e}
      /\ e \notin Committed
      /\ Committed' = Committed \cup {e}
      /\ \A f \in Event : status'[f] # "absent" => status[f] # "absent"
  BY <1>1 DEF Pending, Committed, OrderInv, StreamInv, TypeInv
<1>3. RowInv'
  BY <1>1, <1>2 DEF OrderInv, RowInv
<1>4. BatchInv'
  <2>1. \A p \in Replica : Taken(p)' = Taken(p) /\ Taken(p) \subseteq Pending
    BY <1>1 DEF Taken, ticks, OrderInv, StreamInv, TickInv
  <2>2. \A g \in Event : e \notin before[g]
    BY <1>2 DEF OrderInv, RowInv
  <2> QED BY <1>1, <1>2, <2>1, <2>2 DEF BatchInv, OrderInv, Pending
<1>5. LogInv'
  BY <1>1, <1>2 DEF LogInv, OrderInv, group
<1>6. KeysInOrder'
  BY <1>1 DEF OrderInv, KeysInOrder, group
<1> QED BY <1>3, <1>4, <1>5, <1>6 DEF OrderInv

(* The oldest rows: none left outside is before one inside.                *)
LEMMA StartTickOrder ==
  ASSUME OrderInv, StreamInv', NEW p \in Replica, StartTick(p)
  PROVE  OrderInv'
<1>1. PICK S \in SUBSET Pending : IsBatch(S) /\ todo' = [todo EXCEPT ![p] = S]
  BY DEF StartTick
<1>2. leader = None /\ UNCHANGED <<sent, rows, log, group>>
  BY DEF StartTick
<1>3. Pending' = Pending /\ Committed' = Committed /\ Pending \subseteq Event
  BY <1>2 DEF Pending, Committed, rows
<1>4. Taken(p)' = S /\ \A q \in Replica \ {p} : Taken(q)' = {}
  BY <1>1, <1>2, NoneAssumption DEF Taken, OrderInv, StreamInv, TypeInv, TickInv
<1>5. ASSUME NEW e \in S, NEW f \in before[e], f \in Pending PROVE f \in S
  <2>1. e \in Event /\ f \in Event /\ stamp[f] < stamp[e] /\ stamp \in [Event -> Nat]
    BY <1>3, <1>5 DEF OrderInv, RowInv, StreamInv, TypeInv
  <2>2. f \notin S => stamp[e] < stamp[f]
    BY <1>1, <1>5 DEF IsBatch
  <2> QED BY <2>1, <2>2
<1>6. BatchInv'
  BY <1>2, <1>3, <1>4, <1>5 DEF BatchInv, rows
<1> QED BY <1>2, <1>3, <1>6, OrderKept DEF OrderInv, rows, group

(* What is before the row sent is in the log.                              *)
LEMMA SendOrder ==
  ASSUME OrderInv, StreamInv', NEW p \in Replica, Send(p)
  PROVE  OrderInv'
<1>1. PICK e \in todo[p] : /\ \A f \in todo[p] \ {e} : stamp[e] < stamp[f]
                           /\ log' = Append(log, e)
                           /\ todo' = [todo EXCEPT ![p] = @ \ {e}]
                           /\ sent' = [sent EXCEPT ![p] = @ \cup {e}]
                           /\ UNCHANGED <<leader, rows, group>>
  BY DEF Send
<1>2. Pending' = Pending /\ Committed' = Committed
  BY <1>1 DEF Pending, Committed, rows
<1>3. e \in Event /\ e \in Taken(p) /\ e \in Committed
  BY <1>1 DEF OrderInv, StreamInv, TypeInv, TickInv, Taken, Committed, Pending
<1>4. \A q \in Replica : Taken(q)' = Taken(q)
  BY <1>1 DEF Taken, OrderInv, StreamInv, TypeInv
<1>5. BatchInv'
  BY <1>1, <1>2, <1>4 DEF BatchInv, OrderInv, rows
<1>6. /\ Len(log) \in Nat /\ DOMAIN log = 1..Len(log) /\ DOMAIN log' = 1..(Len(log) + 1)
      /\ \A i \in 1..Len(log) : log'[i] = log[i]
      /\ log'[Len(log) + 1] = e
      /\ stamp \in [Event -> Nat]
      /\ UNCHANGED <<stamp, clock, before, status, handled>>
  BY <1>1, <1>3 DEF OrderInv, StreamInv, TypeInv, rows, group
<1>7. ASSUME NEW f \in before[e] PROVE InLog(f)
  <2>1. f \in Committed /\ stamp[f] < stamp[e] /\ f \in Event
    BY <1>3 DEF OrderInv, RowInv, Committed
  <2>2. CASE status[f] = "published"
    BY <2>1, <2>2 DEF OrderInv, StreamInv, TickInv
  <2>3. CASE f \in Pending
    <3>1. f \in Taken(p)
      BY <1>3, <2>3 DEF OrderInv, BatchInv
    <3>2. f # e /\ ~ stamp[e] < stamp[f]
      BY <1>3, <1>6, <2>1
    <3>3. f \in sent[p]
      BY <1>1, <3>1, <3>2 DEF Taken
    <3> QED BY <3>3 DEF OrderInv, StreamInv, TickInv
  <2> QED BY <2>1, <2>2, <2>3 DEF Committed, Pending
<1>8. ASSUME NEW i \in 1..(Len(log) + 1)
      PROVE  log'[i] \in Committed /\ \A f \in before[log'[i]] : \E j \in 1..(i - 1) : log'[j] = f
  <2>1. CASE i \in 1..Len(log)
    <3>1. log'[i] = log[i] /\ \A j \in 1..(i - 1) : log'[j] = log[j]
      BY <1>6, <2>1
    <3> QED BY <1>6, <2>1, <3>1 DEF OrderInv, LogInv
  <2>2. CASE i = Len(log) + 1
    <3>1. log'[i] = e /\ i - 1 = Len(log)
      BY <1>6, <2>2
    <3> QED BY <1>3, <1>6, <1>7, <3>1 DEF InLog
  <2> QED BY <1>6, <1>8, <2>1, <2>2
<1>9. LogInv'
  BY <1>2, <1>6, <1>8 DEF OrderInv, LogInv
<1>10. RowInv' /\ KeysInOrder'
  BY <1>2, <1>6 DEF OrderInv, RowInv, KeysInOrder
<1> QED BY <1>5, <1>9, <1>10 DEF OrderInv

LEMMA EndTickOrder ==
  ASSUME OrderInv, StreamInv', NEW p \in Replica, FinishTick(p) \/ AbortTick(p)
  PROVE  OrderInv'
<1>1. /\ p = leader /\ \A q \in Replica : todo'[q] = {} /\ sent'[q] = {}
      /\ UNCHANGED <<stamp, clock, before, log, group>>
  <2>1. p = leader
    BY DEF OrderInv, StreamInv, TickInv, FinishTick, AbortTick
  <2>2. CASE FinishTick(p)
    BY <2>1, <2>2 DEF OrderInv, StreamInv, TypeInv, TickInv, FinishTick
  <2>3. CASE AbortTick(p)
    BY <2>1, <2>3 DEF OrderInv, StreamInv, TypeInv, TickInv, AbortTick, rows
  <2> QED BY <2>1, <2>2, <2>3
<1>2. sent[p] \subseteq Pending
  BY DEF OrderInv, StreamInv, TickInv
<1>3. Committed' = Committed /\ \A e \in Event : status'[e] # "absent" => status[e] # "absent"
  <2>1. CASE FinishTick(p)
    BY <1>2, <2>1 DEF FinishTick, Committed, Pending
  <2>2. CASE AbortTick(p)
    BY <2>2 DEF AbortTick, Committed, rows
  <2> QED BY <2>1, <2>2
<1>4. BatchInv'
  BY <1>1 DEF BatchInv, Taken
<1> QED BY <1>1, <1>3, <1>4, OrderKept DEF OrderInv, group

(* What is before the event handled lies behind the position.              *)
LEMMA BeforeIsHandled ==
  ASSUME OrderInv, NEW c \in Consumer, Handle(c)
  PROVE  /\ log[reader[c].pos + 1] \in Committed
         /\ before[log[reader[c].pos + 1]] \subseteq handled
<1>1. reader[c].pos \in Nat /\ reader[c].pos + 1 \in DOMAIN log
  BY HandleKeepsHandled DEF OrderInv, StreamInv, TypeInv
<1>2. ASSUME NEW f \in before[log[reader[c].pos + 1]] PROVE f \in handled
  <2>1. \E j \in 1..(reader[c].pos + 1 - 1) : log[j] = f
    BY <1>1 DEF OrderInv, LogInv
  <2>2. \E j \in 1..reader[c].pos : log[j] = f
    BY <1>1, <2>1
  <2> QED BY <2>2 DEF OrderInv, StreamInv, ReadInv
<1> QED BY <1>1, <1>2 DEF OrderInv, LogInv

LEMMA HandleOrder ==
  ASSUME OrderInv, StreamInv', NEW c \in Consumer, Handle(c)
  PROVE  OrderInv'
<1>1. UNCHANGED <<rows, ticks, log>> /\ handled' = handled \cup {log[reader[c].pos + 1]}
  BY DEF Handle
<1>2. Pending' = Pending /\ Committed' = Committed
  BY <1>1 DEF Pending, Committed, rows
<1>3. UNCHANGED <<stamp, clock, before, status>>
  BY <1>1 DEF rows
<1>4. BatchInv'
  BY <1>1, <1>2, <1>3 DEF OrderInv, BatchInv, Taken, ticks
<1>5. LogInv'
  BY <1>1, <1>2, <1>3, BeforeIsHandled DEF OrderInv, LogInv
<1>6. RowInv'
  BY <1>2, <1>3 DEF OrderInv, RowInv
<1>7. KeysInOrder'
  BY <1>1, <1>3, BeforeIsHandled DEF OrderInv, KeysInOrder
<1> QED BY <1>4, <1>5, <1>6, <1>7 DEF OrderInv

LEMMA InitOrderInv == Init => OrderInv
<1> SUFFICES ASSUME Init PROVE OrderInv
  OBVIOUS
<1>1. RowInv /\ KeysInOrder
  BY DEF Init, RowInv, KeysInOrder
<1>2. BatchInv /\ LogInv
  BY DEF Init, BatchInv, LogInv, Taken
<1> QED BY <1>1, <1>2, InitStreamInv DEF OrderInv

LEMMA NextOrderInv ==
  ASSUME OrderInv, [Next]_vars
  PROVE  OrderInv'
<1>1. StreamInv'
  BY NextStreamInv DEF OrderInv
<1>2. CASE UNCHANGED vars
  BY <1>1, <1>2, ReaderOrder DEF vars, group
<1>3. ASSUME NEW e \in Event, BeginTransaction(e) \/ CommitTransaction(e) PROVE OrderInv'
  BY <1>1, <1>3, BeginOrder, CommitKeepsOrder
<1>4. ASSUME NEW p \in Replica, Tick(p) \/ AbortTick(p) PROVE OrderInv'
  BY <1>1, <1>4, StartTickOrder, SendOrder, EndTickOrder DEF Tick
<1>5. ASSUME NEW c \in Consumer,
             Consume(c) \/ CommitOffset(c) \/ HandlerFails(c) \/ Rebalance(c)
      PROVE  OrderInv'
  <2>1. CASE Handle(c)
    BY <1>1, <2>1, HandleOrder
  <2>2. CASE Poll(c) \/ CommitOffset(c) \/ HandlerFails(c) \/ Rebalance(c)
    BY <1>1, <2>2, ReaderOrder DEF Poll, CommitOffset, HandlerFails, Rebalance
  <2> QED BY <1>5, <2>1, <2>2 DEF Consume
<1> QED BY <1>2, <1>3, <1>4, <1>5 DEF Next

(* Whenever an event has been handled, so has every one of its aggregate   *)
(* that was committed before its transaction began: such a row has an      *)
(* older stamp, so no batch takes the later one without it, and no         *)
(* consumer gets past it.  Transactions may overlap at will.               *)
THEOREM StreamInOrder == Spec => []KeysInOrder
<1>1. OrderInv /\ [Next]_vars => OrderInv'
  BY NextOrderInv
<1>2. OrderInv => KeysInOrder
  BY DEF OrderInv
<1> QED BY <1>1, <1>2, InitOrderInv, PTL DEF Spec

(* Every step of the machinery is one of the abstract stream, which begins *)
(* and records events and delivers one whose predecessors are delivered,   *)
(* or changes nothing a handler can see.                                   *)
THEOREM ImplementsStream == Spec => Stream!Init /\ [][Stream!Next]_(Stream!vars)
<1> DEFINE stage == [e \in Event |-> IF e \in Committed THEN "recorded" ELSE status[e]]
<1>1. Init => Stream!Init
  BY DEF Init, Stream!Init, Committed
<1>2. OrderInv /\ [Next]_vars => OrderInv'
  BY NextOrderInv
<1>3. OrderInv /\ [Next]_vars => [Stream!Next]_(Stream!vars)
  <2> SUFFICES ASSUME OrderInv, [Next]_vars
               PROVE  Stream!Next \/ UNCHANGED <<stage, before, handled>>
    BY DEF Stream!vars
  <2>0. Stream!Recorded = Committed
    BY DEF Stream!Recorded, Committed, OrderInv, StreamInv, TypeInv
  <2>1. CASE UNCHANGED vars
    BY <2>1 DEF vars, rows, group, Committed
  <2>2. ASSUME NEW e \in Event, BeginTransaction(e) PROVE Stream!Next
    <3>1. /\ status[e] = "absent" /\ status' = [status EXCEPT ![e] = "open"]
          /\ before' = [before EXCEPT ![e] = {f \in Committed : KeyOf[f] = KeyOf[e]}]
          /\ UNCHANGED handled /\ status \in [Event -> {"absent", "open", "pending", "published"}]
      BY <2>2 DEF BeginTransaction, group, OrderInv, StreamInv, TypeInv
    <3>2. Committed' = Committed /\ stage[e] = "absent" /\ stage' = [stage EXCEPT ![e] = "open"]
      BY <3>1 DEF Committed
    <3>3. Stream!Begin(e)
      BY <2>0, <3>1, <3>2 DEF Stream!Begin
    <3> QED BY <3>3 DEF Stream!Next
  <2>3. ASSUME NEW e \in Event, CommitTransaction(e) PROVE Stream!Next
    <3>1. /\ status[e] = "open" /\ status' = [status EXCEPT ![e] = "pending"]
          /\ UNCHANGED <<before, handled>> /\ status \in [Event -> {"absent", "open", "pending", "published"}]
      BY <2>3 DEF CommitTransaction, group, OrderInv, StreamInv, TypeInv
    <3>2. Committed' = Committed \cup {e} /\ stage[e] = "open" /\ stage' = [stage EXCEPT ![e] = "recorded"]
      BY <3>1 DEF Committed
    <3>3. Stream!Record(e)
      BY <3>1, <3>2 DEF Stream!Record
    <3> QED BY <3>3 DEF Stream!Next
  <2>4. ASSUME NEW c \in Consumer, Handle(c) PROVE Stream!Next \/ UNCHANGED <<stage, before, handled>>
    <3>1. PICK e \in Event : /\ handled' = handled \cup {e}
                             /\ e \in Committed /\ before[e] \subseteq handled
      BY <2>4, BeforeIsHandled, HandleKeepsHandled DEF OrderInv
    <3>2. UNCHANGED <<stage, before>>
      BY <2>4 DEF Handle, rows, Committed
    <3>3. CASE e \in handled
      BY <3>1, <3>2, <3>3
    <3>4. CASE e \notin handled
      <4>1. Stream!Deliver(e)
        BY <2>0, <3>1, <3>2, <3>4 DEF Stream!Deliver
      <4> QED BY <4>1 DEF Stream!Next
    <3> QED BY <3>3, <3>4
  <2>5. ASSUME NEW p \in Replica, Tick(p) \/ AbortTick(p) PROVE UNCHANGED <<stage, before, handled>>
    <3>1. CASE FinishTick(p)
      <4>1. sent[p] \subseteq Pending /\ UNCHANGED <<before, handled>>
        BY <3>1 DEF FinishTick, group, OrderInv, StreamInv, TickInv
      <4>2. \A e \in Event : status'[e] = IF e \in sent[p] THEN "published" ELSE status[e]
        BY <3>1 DEF FinishTick
      <4>3. \A e \in Event : stage'[e] = stage[e]
        BY <4>1, <4>2 DEF Committed, Pending
      <4> QED BY <4>1, <4>3
    <3>2. CASE StartTick(p) \/ Send(p) \/ AbortTick(p)
      BY <3>2 DEF StartTick, Send, AbortTick, rows, group, Committed
    <3> QED BY <2>5, <3>1, <3>2 DEF Tick
  <2>6. ASSUME NEW c \in Consumer, Poll(c) \/ CommitOffset(c) \/ HandlerFails(c) \/ Rebalance(c)
        PROVE  UNCHANGED <<stage, before, handled>>
    BY <2>6 DEF Poll, CommitOffset, HandlerFails, Rebalance, rows, Committed
  <2> QED BY <2>1, <2>2, <2>3, <2>4, <2>5, <2>6 DEF Next, Consume
<1> QED BY <1>1, <1>2, <1>3, InitOrderInv, PTL DEF Spec
=============================================================================
