--------------------------- MODULE RealtimeProofs ---------------------------
(* Theorems about module Realtime, for every set of replicas, users and    *)
(* connections, every log and every bound.                                 *)
EXTENDS Realtime, TLAPS

(* A push under way only has connections in its list that are open at its  *)
(* own replica: what is closed or dies with a replica is dropped from it.  *)
JobSound(p) ==
  /\ job[p] = Idle \/ job[p].index \in DOMAIN Log
  /\ \A c \in Connection :
       c \in job[p].todo \/ c = job[p].ring => HomeOf[c] = p[1] /\ Registered(c)

PushInv ==
  /\ TypeOK
  /\ \A p \in Producer : JobSound(p)
  /\ NoLostWakeup

LEMMA LogType == Len(Log) \in Nat /\ DOMAIN Log = 1..Len(Log)
BY LogAssumption

LEMMA InitPushInv == Init => PushInv
<1> SUFFICES ASSUME Init PROVE PushInv
  OBVIOUS
<1>1. TypeOK
  BY LogType, OwnerAssumption DEF Init, TypeOK, Place, Idle
<1>2. \A p \in Producer : JobSound(p)
  BY NoneAssumption DEF Init, JobSound, Idle
<1>3. NoLostWakeup
  BY DEF Init, NoLostWakeup
<1> QED BY <1>1, <1>2, <1>3 DEF PushInv

-----------------------------------------------------------------------------
(* Handlers.  A step of the handler of c that leaves the pushes alone and  *)
(* does not put c to sleep with something in its queue.                    *)

LEMMA HandlerKeeps ==
  ASSUME PushInv, NEW c \in Connection, TypeOK',
         UNCHANGED job,
         \A d \in Connection \ {c} :
           pc'[d] = pc[d] /\ queue'[d] = queue[d] /\ signal'[d] = signal[d],
         Registered(c) => Registered(c)',
         pc'[c] = "waiting" => queue'[c] = <<>>
  PROVE  PushInv'
<1>1. ASSUME NEW p \in Producer PROVE JobSound(p)'
  BY DEF PushInv, JobSound, Registered
<1>2. NoLostWakeup'
  BY DEF PushInv, NoLostWakeup
<1> QED BY <1>1, <1>2 DEF PushInv

LEMMA OpenKeeps ==
  ASSUME PushInv, NEW c \in Connection, Open(c)
  PROVE  PushInv'
<1>1. TypeOK'
  BY DEF PushInv, Open, RefreshPresence, Leases, TypeOK, Place, pushVars, logVars
<1> QED BY <1>1, HandlerKeeps DEF PushInv, TypeOK, Open, RefreshPresence, Registered, pushVars, logVars

LEMMA AnnounceKeeps ==
  ASSUME PushInv, NEW c \in Connection, Announce(c)
  PROVE  PushInv'
<1>1. TypeOK'
  BY DEF PushInv, Announce, Goto, TypeOK, Place, pushVars, logVars
<1> QED BY <1>1, HandlerKeeps DEF PushInv, TypeOK, Announce, Goto, Registered, pushVars, logVars

LEMMA AnnounceOfflineKeeps ==
  ASSUME PushInv, NEW c \in Connection, AnnounceOffline(c)
  PROVE  PushInv'
<1>1. TypeOK'
  BY DEF PushInv, AnnounceOffline, Goto, TypeOK, Place, pushVars, logVars
<1> QED BY <1>1, HandlerKeeps DEF PushInv, TypeOK, AnnounceOffline, Goto, Registered, pushVars, logVars

(* What is popped is sent in order.                                        *)
LEMMA PoppedType ==
  ASSUME TypeOK, NEW c \in Connection, Popped(c)
  PROVE  /\ received' \in [Connection -> 0..Len(Log)]
         /\ queue' \in [Connection -> Seq(DOMAIN Log)]
         /\ queue'[c] = <<>>
<1>1. queue[c] \in Seq(DOMAIN Log)
  BY DEF TypeOK
<1>2. queue[c] # <<>> => Last(queue[c]) \in 0..Len(Log)
  BY <1>1, LogType DEF Last
<1> QED BY <1>1, <1>2 DEF TypeOK, Popped

LEMMA DrainKeeps ==
  ASSUME PushInv, NEW c \in Connection, DrainOutbound(c) \/ DrainAgain(c)
  PROVE  PushInv'
<1>1. TypeOK'
  BY PoppedType DEF PushInv, DrainOutbound, DrainAgain, Popped, Goto, TypeOK, Place, pushVars, logVars, presenceVars
<1>2. pc' = [pc EXCEPT ![c] = pc'[c]] /\ pc'[c] \in {"drained", "waiting", "top"} /\ Popped(c)
      /\ UNCHANGED <<job, signal>>
  BY DEF PushInv, TypeOK, DrainOutbound, DrainAgain, Goto, pushVars, logVars
<1> QED BY <1>1, <1>2, PoppedType, HandlerKeeps DEF PushInv, TypeOK, Popped, Registered

LEMMA ClientPingKeeps ==
  ASSUME PushInv, NEW c \in Connection, ClientPing(c)
  PROVE  PushInv'
<1>1. TypeOK'
  BY DEF PushInv, ClientPing, RefreshPresence, Leases, TypeOK, Place, pushVars, logVars
<1> QED BY <1>1, HandlerKeeps DEF PushInv, TypeOK, ClientPing, RefreshPresence, Registered, pushVars, logVars

LEMMA ResetSignalKeeps ==
  ASSUME PushInv, NEW c \in Connection, ResetSignal(c)
  PROVE  PushInv'
<1>1. TypeOK'
  BY DEF PushInv, ResetSignal, Goto, TypeOK, Place, pushVars, logVars, presenceVars
<1> QED BY <1>1, HandlerKeeps DEF PushInv, TypeOK, ResetSignal, Goto, Registered, pushVars, logVars

LEMMA TellFailsKeeps ==
  ASSUME PushInv, NEW c \in Connection, TellFails(c)
  PROVE  PushInv'
<1>1. TypeOK'
  BY DEF PushInv, TellFails, Goto, TypeOK, Place, pushVars, logVars, presenceVars
<1> QED BY <1>1, HandlerKeeps DEF PushInv, TypeOK, TellFails, Goto, Registered, pushVars

LEMMA WaitAnyKeeps ==
  ASSUME PushInv, NEW c \in Connection, WaitAny(c)
  PROVE  PushInv'
<1>1. TypeOK'
  BY DEF PushInv, WaitAny, Goto, TypeOK, Place, pushVars, logVars, presenceVars
<1> QED BY <1>1, HandlerKeeps DEF PushInv, TypeOK, WaitAny, Goto, Registered, pushVars, logVars

LEMMA LeaseKeeps ==
  ASSUME PushInv, NEW c \in Connection, NEW u \in User, Lapse(c) \/ ExpireKey(u)
  PROVE  PushInv'
<1>1. TypeOK' /\ UNCHANGED <<pc, queue, signal, job>>
  BY DEF PushInv, Lapse, ExpireKey, TypeOK, pushVars, logVars, socketVars
<1> QED BY <1>1 DEF PushInv, JobSound, NoLostWakeup, Registered

-----------------------------------------------------------------------------
(* Connections dropped from the registry.                                  *)

LEMMA DropType ==
  ASSUME TypeOK, NEW cs \in SUBSET Connection, Drop(cs)
  PROVE  /\ queue' \in [Connection -> Seq(DOMAIN Log)]
         /\ signal' \in [Connection -> BOOLEAN]
         /\ received' \in [Connection -> 0..Len(Log)]
         /\ \A c \in cs : queue'[c] = <<>>
         /\ \A c \in Connection \ cs : queue'[c] = queue[c] /\ signal'[c] = signal[c]
<1>1. Drop(cs) /\ 0 \in 0..Len(Log)
  BY LogType
<1>2. <<>> \in Seq(DOMAIN Log)
  OBVIOUS
<1>3. queue' \in [Connection -> Seq(DOMAIN Log)]
  BY <1>1, <1>2 DEF TypeOK, Drop
<1>4. signal' \in [Connection -> BOOLEAN] /\ received' \in [Connection -> 0..Len(Log)]
  BY <1>1 DEF TypeOK, Drop
<1>5. \A c \in Connection : IF c \in cs THEN queue'[c] = <<>> ELSE queue'[c] = queue[c] /\ signal'[c] = signal[c]
  BY <1>1 DEF TypeOK, Drop
<1> QED BY <1>3, <1>4, <1>5

Job == [index: 0..Len(Log), todo: SUBSET Connection, ring: Connection \cup {None}]

LEMMA WithoutType ==
  ASSUME NEW cs \in SUBSET Connection, NEW j \in Job
  PROVE  /\ Without(cs, j) \in Job
         /\ Without(cs, j).index = j.index
         /\ Without(cs, j).todo = j.todo \ cs
         /\ j.ring \notin cs => Without(cs, j).ring = j.ring
         /\ j.ring \in cs => Without(cs, j).ring = None
         /\ j = Idle => Without(cs, j) = Idle
<1>1. Without(cs, j) \in Job
  BY DEF Job, Without
<1>2. j = Idle => Without(cs, j) = Idle
  BY NoneAssumption DEF Idle, Without
<1> QED BY <1>1, <1>2 DEF Without

LEMMA DisconnectKeeps ==
  ASSUME PushInv, NEW c \in Connection, Disconnect(c) \/ CleanupFails(c)
  PROVE  PushInv'
<1>1. /\ TypeOK /\ \A p \in Producer : JobSound(p)
      /\ Drop({c}) /\ {c} \in SUBSET Connection
      /\ job' = [p \in Producer |-> Without({c}, job[p])]
      /\ pc' = [pc EXCEPT ![c] = pc'[c]] /\ pc'[c] \in {"parting", "closed"}
      /\ lease' \in [Connection -> {"none", "live", "stale"}]
      /\ UNCHANGED <<told, channel, logVars>>
  BY DEF PushInv, TypeOK, Disconnect, CleanupFails, Unregister, ClearPresence, Goto, Leases,
         presenceVars
<1>2. \A p \in Producer : job[p] \in Job /\ job'[p] = Without({c}, job[p]) /\ job'[p] \in Job
  BY <1>1, WithoutType DEF TypeOK, Job
<1>3. TypeOK'
  <2>1. job' \in [Producer -> Job]
    BY <1>1, <1>2
  <2>2. pc' \in [Connection -> Place]
    BY <1>1 DEF TypeOK, Place
  <2>3. \A d \in Connection : pc'[d] \in {"closed", "parting"} => queue'[d] = <<>>
    BY <1>1, DropType DEF TypeOK
  <2> QED BY <1>1, <2>1, <2>2, <2>3, DropType DEF TypeOK, Job, logVars
<1>4. ASSUME NEW p \in Producer PROVE JobSound(p)'
  <2>1. JobSound(p) /\ job[p] \in Job /\ job'[p] = Without({c}, job[p])
    BY <1>1, <1>2
  <2>2. job'[p] = Idle \/ job'[p].index \in DOMAIN Log
    BY <1>1, <2>1, WithoutType DEF JobSound
  <2>3. ASSUME NEW d \in Connection, d \in job'[p].todo \/ d = job'[p].ring
        PROVE  d # c /\ (d \in job[p].todo \/ d = job[p].ring)
    <3>1. /\ job'[p].todo = job[p].todo \ {c}
          /\ job[p].ring = c => job'[p].ring = None
          /\ job[p].ring # c => job'[p].ring = job[p].ring
      BY <1>1, <2>1, WithoutType
    <3> QED BY <2>3, <3>1, NoneAssumption
  <2> QED BY <1>1, <2>1, <2>2, <2>3 DEF JobSound, Registered, TypeOK
<1>5. NoLostWakeup'
  <2> SUFFICES ASSUME NEW d \in Connection, pc'[d] = "waiting", queue'[d] # <<>>
               PROVE  signal'[d] \/ \E p \in Producer : job'[p].ring = d
    BY DEF NoLostWakeup
  <2>1. d # c /\ pc[d] = "waiting" /\ queue[d] # <<>> /\ signal'[d] = signal[d]
    BY <1>1, DropType DEF TypeOK
  <2>2. CASE signal[d]
    BY <2>1, <2>2
  <2>3. CASE ~signal[d]
    <3> PICK p \in Producer : job[p].ring = d
      BY <2>1, <2>3 DEF PushInv, NoLostWakeup
    <3> QED BY <1>1, <1>2, <2>1, WithoutType
  <2> QED BY <2>2, <2>3
<1> QED BY <1>3, <1>4, <1>5 DEF PushInv

LEMMA KillKeeps ==
  ASSUME PushInv, NEW r \in Replica, Kill(r)
  PROVE  PushInv'
<1> DEFINE dead == {c \in Connection : HomeOf[c] = r}
<1>1. /\ TypeOK /\ \A p \in Producer : JobSound(p)
      /\ Drop(dead) /\ dead \in SUBSET Connection
      /\ pc' = [c \in Connection |-> IF c \in dead THEN "closed" ELSE pc[c]]
      /\ job' = [p \in Producer |-> IF p[1] = r THEN Idle ELSE job[p]]
      /\ channel' = [channel EXCEPT ![r] = <<>>] /\ owner' \in Replica
      /\ position' \in [Replica -> 0..Len(Log)]
      /\ UNCHANGED <<presenceVars, committed>>
  BY DEF PushInv, TypeOK, Kill
<1> HIDE DEF dead
<1>2. TypeOK'
  <2>1. job' \in [Producer -> Job]
    BY <1>1, LogType DEF TypeOK, Job, Idle
  <2>2. pc' \in [Connection -> Place]
    BY <1>1 DEF TypeOK, Place
  <2>3. \A d \in Connection : pc'[d] \in {"closed", "parting"} => queue'[d] = <<>>
    BY <1>1, DropType DEF TypeOK
  <2>4. channel' \in [Replica -> Seq([origin: Replica, index: DOMAIN Log])]
    <3> DEFINE Message == [origin: Replica, index: DOMAIN Log]
    <3>1. channel \in [Replica -> Seq(Message)]
      BY <1>1 DEF TypeOK
    <3> HIDE DEF Message
    <3>2. channel' \in [Replica -> Seq(Message)]
      BY <1>1, <3>1
    <3> QED BY <3>2 DEF Message
  <2> QED BY <1>1, <2>1, <2>2, <2>3, <2>4, DropType DEF TypeOK, Job, presenceVars
<1>3. ASSUME NEW p \in Producer PROVE JobSound(p)'
  <2>1. CASE p[1] = r
    BY <1>1, <2>1, NoneAssumption DEF JobSound, Idle
  <2>2. CASE p[1] # r
    BY <1>1, <2>2 DEF JobSound, Registered, dead
  <2> QED BY <2>1, <2>2
<1>4. NoLostWakeup'
  <2> SUFFICES ASSUME NEW d \in Connection, pc'[d] = "waiting", queue'[d] # <<>>
               PROVE  signal'[d] \/ \E p \in Producer : job'[p].ring = d
    BY DEF NoLostWakeup
  <2>1. d \notin dead /\ pc[d] = "waiting" /\ queue[d] # <<>> /\ signal'[d] = signal[d]
    BY <1>1, DropType
  <2>2. CASE signal[d]
    BY <2>1, <2>2
  <2>3. CASE ~signal[d]
    <3> PICK p \in Producer : job[p].ring = d
      BY <2>1, <2>3 DEF PushInv, NoLostWakeup
    <3>1. p[1] # r
      BY <1>1, <2>1 DEF JobSound, dead
    <3> QED BY <1>1, <3>1
  <2> QED BY <2>2, <2>3
<1> QED BY <1>2, <1>3, <1>4 DEF PushInv

(* What does not touch connections and pushes.                             *)
LEMMA LogKeeps ==
  ASSUME PushInv, NEW r \in Replica,
         Rebalance(r) \/ HandlerFails(r) \/ Commit(r) \/ Resubscribe(r)
  PROVE  PushInv'
<1>1. UNCHANGED <<socketVars, presenceVars, job>>
  BY DEF Rebalance, HandlerFails, Commit, Resubscribe
<1>2. /\ owner' \in Replica /\ position' \in [Replica -> 0..Len(Log)]
      /\ committed' \in 0..Len(Log)
  <2>1. CASE Commit(r)
    <3>1. position[r] \in 0..Len(Log) /\ committed \in 0..Len(Log)
      BY DEF PushInv, TypeOK
    <3>2. committed' \in 0..Len(Log)
      BY <2>1, <3>1, LogType DEF Commit
    <3> QED BY <2>1, <3>2 DEF PushInv, TypeOK, Commit
  <2>2. CASE ~Commit(r)
    BY <2>2 DEF PushInv, TypeOK, Rebalance, HandlerFails, Resubscribe, logVars
  <2> QED BY <2>1, <2>2
<1>3. channel' \in [Replica -> Seq([origin: Replica, index: DOMAIN Log])]
  <2> DEFINE Message == [origin: Replica, index: DOMAIN Log]
  <2>1. channel \in [Replica -> Seq(Message)]
    BY DEF PushInv, TypeOK
  <2>2. channel' = channel \/ channel' = [channel EXCEPT ![r] = <<>>]
    BY DEF Rebalance, HandlerFails, Commit, Resubscribe
  <2> HIDE DEF Message
  <2>3. <<>> \in Seq(Message)
    OBVIOUS
  <2>4. channel' \in [Replica -> Seq(Message)]
    BY <2>1, <2>2, <2>3
  <2> QED BY <2>4 DEF Message
<1>4. TypeOK'
  BY <1>1, <1>2, <1>3 DEF PushInv, TypeOK, socketVars, presenceVars
<1> QED BY <1>1, <1>4 DEF PushInv, JobSound, NoLostWakeup, Registered, socketVars

-----------------------------------------------------------------------------
(* Pushes.                                                                 *)

(* A producer without work takes an event: no signal was owed by it.       *)
LEMMA SendKeeps ==
  ASSUME PushInv, NEW p \in Producer, NEW i \in DOMAIN Log,
         job[p].ring = None, SendToUser(p, i), TypeOK',
         UNCHANGED <<pc, queue, signal>>
  PROVE  PushInv'
<1>1. ASSUME NEW q \in Producer PROVE JobSound(q)'
  <2>1. CASE q = p
    BY <2>1, NoneAssumption DEF PushInv, TypeOK, SendToUser, Connected, JobSound, Registered
  <2>2. CASE q # p
    BY <2>2 DEF PushInv, TypeOK, SendToUser, JobSound, Registered
  <2> QED BY <2>1, <2>2
<1>2. NoLostWakeup'
  <2> SUFFICES ASSUME NEW d \in Connection, pc[d] = "waiting", queue[d] # <<>>, ~signal[d]
               PROVE  \E q \in Producer : job'[q].ring = d
    BY DEF NoLostWakeup
  <2> PICK q \in Producer : job[q].ring = d
    BY DEF PushInv, NoLostWakeup
  <2>1. q # p
    BY NoneAssumption
  <2> QED BY <2>1 DEF SendToUser, PushInv, TypeOK
<1> QED BY <1>1, <1>2 DEF PushInv

LEMMA SendType ==
  ASSUME TypeOK, NEW p \in Producer, NEW i \in DOMAIN Log, SendToUser(p, i)
  PROVE  job' \in [Producer ->
           [index: 0..Len(Log), todo: SUBSET Connection, ring: Connection \cup {None}]]
BY LogType DEF TypeOK, SendToUser, Connected

(* The event after the position, if there is one.                          *)
LEMMA FollowingType ==
  ASSUME TypeOK, NEW r \in Replica, Following(r) \in DOMAIN Log
  PROVE  /\ position[r] \in Nat /\ Following(r) = position[r] + 1
         /\ Handled(r, Following(r)) => position' \in [Replica -> 0..Len(Log)]
<1>1. position \in [Replica -> 0..Len(Log)] /\ position[r] \in Nat
  BY LogType DEF TypeOK
<1>2. Following(r) \in 0..Len(Log)
  BY LogType
<1> QED BY <1>1, <1>2 DEF Following, Handled

LEMMA OnEventKeeps ==
  ASSUME PushInv, NEW r \in Replica, OnEvent(r)
  PROVE  PushInv'
<1> DEFINE i == Following(r)
           p == <<r, "kafka">>
<1>1. /\ i \in DOMAIN Log /\ p \in Producer /\ job[p] = Idle /\ job[p].ring = None
      /\ UNCHANGED <<socketVars, presenceVars, channel, owner, committed>>
  BY DEF OnEvent, Takes, Producer, Idle
<1>2. CASE SendToUser(p, i) /\ UNCHANGED position
  <2>1. TypeOK'
    BY <1>1, <1>2, SendType DEF PushInv, TypeOK, socketVars, presenceVars
  <2> QED BY <1>1, <1>2, <2>1, SendKeeps DEF socketVars
<1>3. CASE Handled(r, i) /\ UNCHANGED job
  <2>1. TypeOK'
    BY <1>1, <1>3, FollowingType DEF PushInv, TypeOK, socketVars, presenceVars
  <2> QED BY <1>1, <1>3, <2>1 DEF PushInv, JobSound, NoLostWakeup, Registered, socketVars
<1> QED BY <1>2, <1>3 DEF OnEvent

LEMMA OnPubSubMessageKeeps ==
  ASSUME PushInv, NEW r \in Replica, OnPubSubMessage(r)
  PROVE  PushInv'
<1> DEFINE p == <<r, "redis">>
           message == Head(channel[r])
<1>1. /\ p \in Producer /\ job[p].ring = None /\ channel[r] # <<>>
      /\ UNCHANGED <<socketVars, presenceVars, logVars>>
  BY DEF OnPubSubMessage, Working, Producer
<1>2. message.index \in DOMAIN Log /\ channel' \in [Replica -> Seq([origin: Replica, index: DOMAIN Log])]
  <2> DEFINE Message == [origin: Replica, index: DOMAIN Log]
  <2>1. channel \in [Replica -> Seq(Message)] /\ channel' = [channel EXCEPT ![r] = Tail(@)]
    BY DEF OnPubSubMessage, PushInv, TypeOK
  <2>2. Head(channel[r]) \in Message /\ Tail(channel[r]) \in Seq(Message)
    <3> HIDE DEF Message
    <3> QED BY <1>1, <2>1
  <2> QED BY <2>1, <2>2
<1>3. CASE SendToUser(p, message.index)
  <2>1. TypeOK'
    BY <1>1, <1>2, <1>3, SendType DEF PushInv, TypeOK, socketVars, presenceVars, logVars
  <2> QED BY <1>1, <1>2, <1>3, <2>1, SendKeeps DEF socketVars
<1>4. CASE UNCHANGED job
  <2>1. TypeOK'
    BY <1>1, <1>2, <1>4 DEF PushInv, TypeOK, socketVars, presenceVars, logVars
  <2> QED BY <1>1, <1>4, <2>1 DEF PushInv, JobSound, NoLostWakeup, Registered, socketVars
<1> QED BY <1>3, <1>4 DEF OnPubSubMessage

LEMMA EnqueueKeeps ==
  ASSUME PushInv, NEW p \in Producer, Enqueue(p)
  PROVE  PushInv'
<1> PICK c \in job[p].todo :
      /\ job' = [job EXCEPT ![p] = [index |-> @.index, todo |-> @.todo \ {c}, ring |-> c]]
      /\ queue' = [queue EXCEPT ![c] = Append(@, job[p].index)]
  BY DEF Enqueue
<1> DEFINE j == [index |-> job[p].index, todo |-> job[p].todo \ {c}, ring |-> c]
<1>1. /\ job[p] \in Job /\ job[p].ring = None /\ c \in Connection /\ Registered(c) /\ HomeOf[c] = p[1]
      /\ UNCHANGED <<pc, signal, received, presenceVars, channel, logVars>>
  BY DEF Enqueue, PushInv, TypeOK, Job, JobSound
<1>2. job' = [job EXCEPT ![p] = j] /\ j \in Job
  BY <1>1 DEF Job
<1>3. job[p].index \in DOMAIN Log
  BY DEF PushInv, JobSound, Idle
<1>4. TypeOK'
  <2>1. job' \in [Producer -> Job]
    BY <1>2 DEF PushInv, TypeOK, Job
  <2>2. queue' \in [Connection -> Seq(DOMAIN Log)]
    BY <1>1, <1>3 DEF PushInv, TypeOK
  <2>3. \A d \in Connection : pc'[d] \in {"closed", "parting"} => queue'[d] = <<>>
    BY <1>1 DEF PushInv, TypeOK, Registered
  <2> QED BY <1>1, <2>1, <2>2, <2>3 DEF PushInv, TypeOK, Job, presenceVars, logVars
<1>5. ASSUME NEW q \in Producer PROVE JobSound(q)'
  <2>1. CASE q = p
    <3>1. job'[q] = j /\ JobSound(p)
      BY <1>2, <2>1 DEF PushInv, TypeOK
    <3> QED BY <1>1, <1>3, <2>1, <3>1 DEF JobSound, Registered
  <2>2. CASE q # p
    BY <1>1, <1>2, <2>2 DEF PushInv, TypeOK, JobSound, Registered
  <2> QED BY <2>1, <2>2
<1>6. NoLostWakeup'
  <2> SUFFICES ASSUME NEW d \in Connection, pc[d] = "waiting", queue'[d] # <<>>, ~signal[d]
               PROVE  \E q \in Producer : job'[q].ring = d
    BY <1>1 DEF NoLostWakeup
  <2>1. CASE d = c
    BY <1>2, <2>1 DEF PushInv, TypeOK
  <2>2. CASE d # c
    <3>1. queue[d] # <<>>
      BY <2>2 DEF PushInv, TypeOK
    <3>2. PICK q \in Producer : job[q].ring = d
      BY <3>1 DEF PushInv, NoLostWakeup
    <3>3. q # p
      BY <1>1, <3>2, NoneAssumption
    <3> QED BY <1>2, <3>2, <3>3 DEF PushInv, TypeOK
  <2> QED BY <2>1, <2>2
<1> QED BY <1>4, <1>5, <1>6 DEF PushInv

LEMMA SignalKeeps ==
  ASSUME PushInv, NEW p \in Producer, Signal(p)
  PROVE  PushInv'
<1> DEFINE c == job[p].ring
           j == [job[p] EXCEPT !.ring = None]
<1>1. /\ job[p] \in Job /\ c \in Connection
      /\ signal' = [signal EXCEPT ![c] = TRUE]
      /\ UNCHANGED <<pc, queue, received, presenceVars, channel, logVars>>
  BY DEF Signal, PushInv, TypeOK, Job
<1>2. /\ j \in Job /\ j.ring = None /\ j.index = job[p].index /\ j.todo = job[p].todo
      /\ job' = [job EXCEPT ![p] = j]
  BY <1>1 DEF Signal, Job
<1>3. job[p].index \in DOMAIN Log
  BY <1>1, NoneAssumption DEF PushInv, JobSound, Idle
<1> HIDE DEF j
<1>4. TypeOK'
  <2>1. job' \in [Producer -> Job]
    BY <1>2 DEF PushInv, TypeOK, Job
  <2> QED BY <1>1, <2>1 DEF PushInv, TypeOK, Job, presenceVars, logVars
<1>5. ASSUME NEW q \in Producer PROVE JobSound(q)'
  <2>1. CASE q = p
    <3>1. job'[q] = j /\ JobSound(p)
      BY <1>2, <2>1 DEF PushInv, TypeOK
    <3> QED BY <1>1, <1>2, <1>3, <2>1, <3>1, NoneAssumption DEF JobSound, Registered
  <2>2. CASE q # p
    BY <1>1, <1>2, <2>2 DEF PushInv, TypeOK, JobSound, Registered
  <2> QED BY <2>1, <2>2
<1>6. NoLostWakeup'
  <2> SUFFICES ASSUME NEW d \in Connection, pc[d] = "waiting", queue[d] # <<>>, ~signal'[d]
               PROVE  \E q \in Producer : job'[q].ring = d
    BY <1>1 DEF NoLostWakeup
  <2>1. d # c /\ ~signal[d]
    BY <1>1 DEF PushInv, TypeOK
  <2>2. PICK q \in Producer : job[q].ring = d
    BY <2>1 DEF PushInv, NoLostWakeup
  <2> QED BY <1>2, <2>1, <2>2 DEF PushInv, TypeOK
<1> QED BY <1>4, <1>5, <1>6 DEF PushInv

LEMMA PublishToUserKeeps ==
  ASSUME PushInv, NEW r \in Replica, PublishToUser(r)
  PROVE  PushInv'
<1> DEFINE p == <<r, "kafka">>
           message == [origin |-> r, index |-> job[p].index]
           Message == [origin: Replica, index: DOMAIN Log]
<1>1. /\ p \in Producer /\ job[p] # Idle /\ job[p].ring = None
      /\ channel' = [q \in Replica |-> Append(channel[q], message)]
      /\ job' = [job EXCEPT ![p] = Idle]
      /\ Handled(r, job[p].index)
      /\ UNCHANGED <<socketVars, presenceVars, owner, committed>>
  BY DEF PublishToUser, Working, Producer
<1>2. job[p].index \in DOMAIN Log /\ message \in Message
  BY <1>1 DEF PushInv, JobSound
<1>3. TypeOK'
  <2>1. job' \in [Producer -> Job]
    BY <1>1, LogType DEF PushInv, TypeOK, Job, Idle
  <2>2. channel \in [Replica -> Seq(Message)]
    BY DEF PushInv, TypeOK
  <2>3. channel' \in [Replica -> Seq(Message)]
    <3> HIDE DEF message, Message
    <3> QED BY <1>1, <1>2, <2>2
  <2>4. position' \in [Replica -> 0..Len(Log)]
    BY <1>1, <1>2, LogType DEF Handled, PushInv, TypeOK
  <2> QED BY <1>1, <2>1, <2>3, <2>4 DEF PushInv, TypeOK, Job, socketVars, presenceVars
<1>4. ASSUME NEW q \in Producer PROVE JobSound(q)'
  <2>1. CASE q = p
    BY <1>1, <2>1, NoneAssumption DEF PushInv, TypeOK, JobSound, Idle
  <2>2. CASE q # p
    BY <1>1, <2>2 DEF PushInv, TypeOK, JobSound, Registered, socketVars
  <2> QED BY <2>1, <2>2
<1>5. NoLostWakeup'
  <2> SUFFICES ASSUME NEW d \in Connection, pc[d] = "waiting", queue[d] # <<>>, ~signal[d]
               PROVE  \E q \in Producer : job'[q].ring = d
    BY <1>1 DEF NoLostWakeup, socketVars
  <2>1. PICK q \in Producer : job[q].ring = d
    BY DEF PushInv, NoLostWakeup
  <2>2. q # p
    BY <1>1, <2>1, NoneAssumption
  <2> QED BY <1>1, <2>1, <2>2 DEF PushInv, TypeOK
<1> QED BY <1>3, <1>4, <1>5 DEF PushInv

-----------------------------------------------------------------------------

LEMMA NextPushInv == PushInv /\ [Next]_vars => PushInv'
<1> SUFFICES ASSUME PushInv, [Next]_vars PROVE PushInv'
  OBVIOUS
<1>1. ASSUME NEW c \in Connection,
             \/ HandlerStep(c) \/ Open(c) \/ ClientPing(c) \/ Disconnect(c)
             \/ CleanupFails(c) \/ TellFails(c)
      PROVE  PushInv'
  BY <1>1, AnnounceKeeps, DrainKeeps, ResetSignalKeeps, WaitAnyKeeps, AnnounceOfflineKeeps,
     OpenKeeps, ClientPingKeeps, DisconnectKeeps, TellFailsKeeps DEF HandlerStep
<1>2. ASSUME NEW c \in Connection, Lapse(c) PROVE PushInv'
  <2>1. UserOf[c] \in User
    BY HomeAssumption
  <2> QED BY <1>2, <2>1, LeaseKeeps
<1>3. ASSUME NEW u \in User, ExpireKey(u) PROVE PushInv'
  <2>1. PICK c \in Connection : TRUE
    BY <1>3 DEF ExpireKey
  <2> QED BY <1>3, <2>1, LeaseKeeps
<1>4. ASSUME NEW r \in Replica, PushStep(r) PROVE PushInv'
  <2>1. {r} \X {"kafka", "redis"} \subseteq Producer
    BY DEF Producer
  <2> QED BY <1>4, <2>1, OnEventKeeps, PublishToUserKeeps, OnPubSubMessageKeeps, EnqueueKeeps,
        SignalKeeps, LogKeeps DEF PushStep
<1>5. ASSUME NEW r \in Replica, Rebalance(r) \/ Kill(r) \/ Resubscribe(r) PROVE PushInv'
  BY <1>5, LogKeeps, KillKeeps
<1>6. CASE UNCHANGED vars
  <2>1. TypeOK' /\ UNCHANGED <<pc, queue, signal, job>>
    BY <1>6 DEF PushInv, TypeOK, vars, socketVars, presenceVars, pushVars, logVars
  <2> QED BY <2>1 DEF PushInv, JobSound, NoLostWakeup, Registered
<1> QED BY <1>1, <1>2, <1>3, <1>4, <1>5, <1>6 DEF Next

(* The invariant behind the theorems below.                                *)
THEOREM PushInvariant == Spec => []PushInv
BY InitPushInv, NextPushInv, PTL DEF Spec

(* The type invariant of realtime-service; in particular, nothing is       *)
(* pushed to a connection that is closed.                                  *)
THEOREM TypeCorrect == Spec => []TypeOK
<1>1. PushInv => TypeOK
  BY DEF PushInv
<1> QED BY <1>1, PushInvariant, PTL

(* However many replicas push to however many connections, and whatever    *)
(* closes or dies meanwhile, no handler sleeps over a queued event: the    *)
(* second drain after the signal is reset closes the window.               *)
THEOREM WakeupsKept == Spec => []NoLostWakeup
<1>1. PushInv => NoLostWakeup
  BY DEF PushInv
<1> QED BY <1>1, PushInvariant, PTL

-----------------------------------------------------------------------------
(* Presence.  As long as it is settled, at most one handler of a user is   *)
(* between its script and its message, and then the leases already are     *)
(* what the message will say; the lease announced is the only live one.    *)

Present(u) == \E c \in Connection : UserOf[c] = u /\ lease[c] # "none"

PresenceSound(u) ==
  /\ \A c, d \in Changing(u) : c = d
  /\ \A c \in Changing(u) : Present(u) <=> pc[c] = "announcing"
  /\ \A c \in Changing(u) : pc[c] = "announcing" => Live(c) \subseteq {c}
  /\ Changing(u) = {} => (told[u] <=> Present(u))

PresenceInv == ~unsettled => \A u \in User : PresenceSound(u)

(* A step that neither adds nor removes a lease and moves no handler in    *)
(* or out of a change.                                                     *)
LEMMA QuietKeeps ==
  ASSUME PresenceInv, UNCHANGED told,
         \A c \in Connection : /\ lease'[c] = "none" <=> lease[c] = "none"
                               /\ lease'[c] = "live" => lease[c] = "live",
         ~unsettled' => /\ ~unsettled
                        /\ \A c \in Connection :
                             {pc[c], pc'[c]} \cap {"announcing", "parting"} # {} => pc'[c] = pc[c]
  PROVE  PresenceInv'
<1> SUFFICES ASSUME ~unsettled', NEW u \in User PROVE PresenceSound(u)'
  BY DEF PresenceInv
<1>1. PresenceSound(u)
  BY DEF PresenceInv
<1>2. Changing(u)' = Changing(u) /\ \A c \in Changing(u) : pc'[c] = pc[c]
  BY DEF Changing
<1>3. Present(u)' <=> Present(u)
  BY DEF Present
<1>4. \A c \in Connection : Live(c)' \subseteq Live(c)
  BY DEF Live, Peers
<1>5. Changing(u) \subseteq Connection
  BY DEF Changing
<1> QED BY <1>1, <1>2, <1>3, <1>4, <1>5 DEF PresenceSound

(* A step of the handler of c alone: the other users see nothing of it.    *)
LEMMA OwnUserSuffices ==
  ASSUME PresenceInv, NEW c \in Connection, ~unsettled' => ~unsettled,
         \A d \in Connection \ {c} : pc'[d] = pc[d],
         \A d \in Connection : UserOf[d] # UserOf[c] => lease'[d] = lease[d],
         \A u \in User \ {UserOf[c]} : told'[u] = told[u],
         ~unsettled' => PresenceSound(UserOf[c])'
  PROVE  PresenceInv'
<1> SUFFICES ASSUME ~unsettled', NEW u \in User, u # UserOf[c] PROVE PresenceSound(u)'
  BY DEF PresenceInv
<1>1. PresenceSound(u)
  BY DEF PresenceInv
<1>2. Changing(u)' = Changing(u) /\ \A d \in Changing(u) : pc'[d] = pc[d]
  BY DEF Changing
<1>3. Present(u)' <=> Present(u)
  BY DEF Present
<1>4. \A d \in Changing(u) : Live(d)' = Live(d)
  BY DEF Live, Peers, Changing
<1> QED BY <1>1, <1>2, <1>3, <1>4 DEF PresenceSound

LEMMA AnnouncingKeeps ==
  ASSUME TypeOK, PresenceInv, NEW c \in Connection, Announce(c) \/ AnnounceOffline(c)
  PROVE  PresenceInv'
<1> DEFINE u == UserOf[c]
<1>1. /\ u \in User /\ c \in Changing(u)
      /\ told' = [told EXCEPT ![u] = (pc[c] = "announcing")]
      /\ pc' = [pc EXCEPT ![c] = pc'[c]] /\ pc'[c] \in {"top", "closed"}
      /\ UNCHANGED <<lease, unsettled>>
  BY HomeAssumption DEF Announce, AnnounceOffline, Goto, Changing, TypeOK
<1>2. ASSUME ~unsettled PROVE PresenceSound(u)'
  <2>1. PresenceSound(u)
    BY <1>1, <1>2 DEF PresenceInv
  <2>2. Changing(u)' = {}
    <3>1. \A d \in Changing(u) : d = c
      BY <1>1, <2>1 DEF PresenceSound
    <3>2. pc'[c] \notin {"announcing", "parting"} /\ \A d \in Connection \ {c} : pc'[d] = pc[d]
      BY <1>1 DEF TypeOK
    <3> QED BY <3>1, <3>2 DEF Changing
  <2>3. told'[u] <=> Present(u)'
    <3>1. Present(u)' <=> Present(u)
      BY <1>1 DEF Present
    <3>2. told'[u] <=> pc[c] = "announcing"
      BY <1>1 DEF TypeOK
    <3> QED BY <1>1, <2>1, <3>1, <3>2 DEF PresenceSound
  <2> QED BY <2>2, <2>3 DEF PresenceSound
<1> QED BY <1>1, <1>2, OwnUserSuffices DEF TypeOK

(* The scripts: whoever brings the first lease or takes the last one says  *)
(* so, and nobody else.                                                    *)
LEMMA RefreshKeeps ==
  ASSUME TypeOK, PresenceInv, NEW c \in Connection, NEW next \in Place \ {"announcing", "parting"},
         RefreshPresence(c, next), Race(c), UNCHANGED told,
         pc[c] \notin {"announcing", "parting"}
  PROVE  PresenceInv'
<1> DEFINE u == UserOf[c]
<1>1. /\ u \in User /\ lease' = Leases(c, Live(c) \cup {c})
      /\ pc' = [pc EXCEPT ![c] = IF Live(c) = {} THEN "announcing" ELSE next]
      /\ ~unsettled' => ~unsettled /\ Changing(u) = {}
  BY HomeAssumption DEF RefreshPresence, Race, Changing
<1>2. Present(u)'
  <2>1. lease'[c] = "live"
    BY <1>1 DEF Leases, Peers
  <2> QED BY <2>1 DEF Present
<1>3. ASSUME ~unsettled' PROVE PresenceSound(u)'
  <2>1. PresenceSound(u) /\ Changing(u) = {}
    BY <1>1, <1>3 DEF PresenceInv
  <2>2. CASE Live(c) = {}
    <3>1. Changing(u)' = {c} /\ pc'[c] = "announcing"
      BY <1>1, <2>1, <2>2 DEF Changing, TypeOK
    <3>2. Live(c)' \subseteq {c}
      BY <1>1, <2>2 DEF Live, Leases, Peers
    <3> QED BY <1>2, <3>1, <3>2 DEF PresenceSound
  <2>3. CASE Live(c) # {}
    <3>1. Changing(u)' = {}
      BY <1>1, <2>1, <2>3 DEF Changing, TypeOK, Place
    <3>2. Present(u)
      BY <2>3 DEF Present, Live, Peers
    <3> QED BY <1>2, <2>1, <3>1, <3>2 DEF PresenceSound
  <2> QED BY <2>2, <2>3
<1> QED BY <1>1, <1>3, OwnUserSuffices DEF Leases, Peers, TypeOK

LEMMA ClearKeeps ==
  ASSUME TypeOK, PresenceInv, NEW c \in Connection, ClearPresence(c), Race(c), UNCHANGED told,
         pc[c] # "parting"
  PROVE  PresenceInv'
<1> DEFINE u == UserOf[c]
           last == Entries(c) # {} /\ Live(c) \subseteq {c}
<1>1. /\ u \in User /\ lease' = Leases(c, Live(c) \ {c})
      /\ pc' = [pc EXCEPT ![c] = IF last THEN "parting" ELSE "closed"]
      /\ ~unsettled' => ~unsettled /\ Changing(u) \subseteq {c}
  BY HomeAssumption DEF ClearPresence, Race, Changing
<1>2. Present(u)' <=> ~(Live(c) \subseteq {c})
  BY <1>1 DEF Present, Leases, Live, Peers
<1>3. Present(u) <=> Entries(c) # {}
  BY DEF Present, Entries, Peers
<1>4. Live(c) \subseteq Entries(c)
  BY DEF Live, Entries
<1>5. ASSUME ~unsettled' PROVE PresenceSound(u)'
  <2>1. PresenceSound(u) /\ Changing(u) \subseteq {c}
    BY <1>1, <1>5 DEF PresenceInv
  <2>2. CASE last
    <3>1. Changing(u)' = {c} /\ pc'[c] = "parting"
      BY <1>1, <2>1, <2>2 DEF Changing, TypeOK
    <3> QED BY <1>2, <2>2, <3>1 DEF PresenceSound
  <2>3. CASE ~last
    <3>1. Changing(u)' = {}
      BY <1>1, <2>1, <2>3 DEF Changing, TypeOK
    <3>2. Present(u)' <=> Present(u)
      BY <1>2, <1>3, <1>4, <2>3
    <3>3. Changing(u) = {}
      <4>1. c \in Changing(u) => Present(u) /\ Live(c) \subseteq {c}
        BY <2>1 DEF PresenceSound, Changing
      <4> QED BY <1>3, <2>1, <2>3, <4>1
    <3> QED BY <2>1, <3>1, <3>2, <3>3 DEF PresenceSound
  <2> QED BY <2>2, <2>3
<1> QED BY <1>1, <1>5, OwnUserSuffices DEF Leases, Peers, TypeOK

LEMMA NextPresenceInv == PushInv /\ PresenceInv /\ [Next]_vars => PresenceInv'
<1> SUFFICES ASSUME TypeOK, PresenceInv, [Next]_vars PROVE PresenceInv'
  BY DEF PushInv
<1>1. ASSUME NEW c \in Connection, Announce(c) \/ AnnounceOffline(c) PROVE PresenceInv'
  BY <1>1, AnnouncingKeeps
<1>2. ASSUME NEW c \in Connection, Open(c) \/ ClientPing(c) PROVE PresenceInv'
  BY <1>2, RefreshKeeps DEF Open, ClientPing, Place
<1>3. ASSUME NEW c \in Connection, Disconnect(c) PROVE PresenceInv'
  BY <1>3, ClearKeeps DEF Disconnect
<1>4. ASSUME NEW c \in Connection, DrainOutbound(c) \/ ResetSignal(c) \/ DrainAgain(c) \/ WaitAny(c)
      PROVE  PresenceInv'
  BY <1>4, QuietKeeps DEF DrainOutbound, ResetSignal, DrainAgain, WaitAny, Goto, TypeOK, presenceVars
<1>5. ASSUME NEW c \in Connection, Lapse(c) \/ CleanupFails(c) \/ TellFails(c) PROVE PresenceInv'
  <2>1. CASE Lapse(c)
    BY <2>1, QuietKeeps DEF Lapse, TypeOK, socketVars
  <2>2. CASE CleanupFails(c)
    BY <2>2, QuietKeeps DEF CleanupFails, Goto, TypeOK, presenceVars
  <2>3. CASE TellFails(c)
    BY <2>3, QuietKeeps DEF TellFails, presenceVars
  <2> QED BY <1>5, <2>1, <2>2, <2>3
<1>6. ASSUME NEW u \in User, ExpireKey(u) PROVE PresenceInv'
  BY <1>6 DEF ExpireKey, PresenceInv
<1>7. ASSUME NEW r \in Replica, PushStep(r) \/ Rebalance(r) \/ Resubscribe(r)
      PROVE  PresenceInv'
  <2>1. UNCHANGED <<pc, lease, told, unsettled>>
    BY <1>7 DEF PushStep, OnEvent, HandlerFails, Commit, PublishToUser, OnPubSubMessage, Enqueue,
          Signal, Rebalance, Resubscribe, socketVars, presenceVars
  <2> QED BY <2>1, QuietKeeps
<1>8. ASSUME NEW r \in Replica, Kill(r) PROVE PresenceInv'
  BY <1>8, QuietKeeps DEF Kill, TypeOK, presenceVars
<1>9. CASE UNCHANGED vars
  BY <1>9, QuietKeeps DEF vars, socketVars, presenceVars
<1> QED BY <1>1, <1>2, <1>3, <1>4, <1>5, <1>6, <1>7, <1>8, <1>9 DEF Next, HandlerStep

(* Whatever connections of a user open and close, at whatever replicas:    *)
(* once nobody is changing it, what the peers were told is what the leases *)
(* say, unless two handlers changed it at once, one ended before its       *)
(* message, or the leases expired.                                         *)
THEOREM PresenceTold == Spec => []PresenceInTurn
<1>1. Init => PresenceInv
  BY DEF Init, PresenceInv, PresenceSound, Present, Changing
<1>2. PresenceInv => PresenceInTurn
  BY DEF PresenceInv, PresenceInTurn, PresenceSound, Present
<1> QED BY <1>1, <1>2, PushInvariant, NextPresenceInv, PTL DEF Spec

-----------------------------------------------------------------------------
-----------------------------------------------------------------------------
(* Order, while the partition stays where it is.  Only its owner takes     *)
(* events, one after the other, and hears from Redis nothing but itself;   *)
(* every other replica works through what the owner has published.  What   *)
(* is known of two places a and n of the log that follow each other on     *)
(* this way: nothing of D is between them, or n has been come to again.    *)

Reaches(a, n, D, again) == IF a <= n THEN \A k \in (a + 1)..n : k \notin D ELSE again

LEMMA ReachesItself ==
  ASSUME NEW n \in Nat, NEW D, NEW again
  PROVE  Reaches(n, n, D, again)
BY DEF Reaches

LEMMA ReachesNext ==
  ASSUME NEW a \in Nat, NEW n \in Nat, NEW D, NEW again, Reaches(a, n, D, again), n + 1 \notin D
  PROVE  Reaches(a, n + 1, D, again)
BY DEF Reaches

LEMMA ReachesOn ==
  ASSUME NEW a \in Nat, NEW m \in Nat, NEW n \in Nat, NEW E, NEW D \in SUBSET E, NEW again,
         Reaches(a, m, D, again), Reaches(m, n, E, again)
  PROVE  Reaches(a, n, D, again)
BY DEF Reaches

LEMMA ReachesBack ==
  ASSUME NEW a \in Nat, NEW m \in Nat, NEW n \in Nat, NEW D, NEW again,
         Reaches(a, n, D, again), m <= n
  PROVE  Reaches(a, m, D, TRUE)
BY DEF Reaches

LEMMA ReachesWeaker ==
  ASSUME NEW a \in Nat, NEW n \in Nat, NEW D, NEW again, NEW later, again => later,
         Reaches(a, n, D, again)
  PROVE  Reaches(a, n, D, later)
BY DEF Reaches

-----------------------------------------------------------------------------

Wanted(c) == {k \in DOMAIN Log : Due(c, k)}
Pushed == {k \in DOMAIN Log : Log[k].type # "message.read"}

OwnerInv ==
  /\ \A r \in Replica \ {owner} : job[<<r, "kafka">>].index = 0
  /\ job[<<owner, "kafka">>].index \in {0, position[owner] + 1}
  /\ job[<<owner, "redis">>].index = 0
  /\ committed <= position[owner]

(* The way of another replica: what it pushes, what is published for it,   *)
(* where the owner is.                                                     *)
Published(r, i) == IF i = 1 THEN job[<<r, "redis">>].index ELSE channel[r][i - 1].index

ChannelSound(r) ==
  /\ \A i \in DOMAIN channel[r] : channel[r][i].origin = owner
  /\ r # owner =>
       /\ \A i \in DOMAIN channel[r] :
            Reaches(Published(r, i), channel[r][i].index - 1, Pushed, failed)
       /\ Reaches(Published(r, Len(channel[r]) + 1), position[owner], Pushed, failed)

(* The one producer that pushes to a connection, and where it is.          *)
Pusher(c) == <<HomeOf[c], IF HomeOf[c] = owner THEN "kafka" ELSE "redis">>
Reached(c) ==
  LET j == job[Pusher(c)]
  IN  IF HomeOf[c] = owner /\ j.index = 0 THEN position[owner]
      ELSE IF c \in j.todo THEN j.index - 1 ELSE j.index

(* The way of a connection: what it received, what is queued, its pusher.  *)
Got(c, i) == IF i = 1 THEN received[c] ELSE queue[c][i - 1]
Latest(c) == Got(c, Len(queue[c]) + 1)

Gapless(c) ==
  \A i \in DOMAIN queue[c] :
    Got(c, i) # 0 => Reaches(Got(c, i), queue[c][i] - 1, Wanted(c), failed)

Ordered(c) ==
  /\ Gapless(c)
  /\ Latest(c) # 0 => Reaches(Latest(c), Reached(c), Wanted(c), failed)
  /\ Registered(c) \/ received[c] = 0

SteadyInv ==
  /\ OwnerInv
  /\ \A r \in Replica : ChannelSound(r)
  /\ \A c \in Connection : Ordered(c)

OrderInv == ~broken => SteadyInv

LEMMA ProducerType ==
  ASSUME PushInv
  PROVE  /\ \A r \in Replica : <<r, "kafka">> \in Producer /\ <<r, "redis">> \in Producer
         /\ owner \in Replica /\ position[owner] \in Nat /\ committed \in Nat
         /\ \A p \in Producer :
              /\ job[p].index \in Nat /\ job[p].todo \subseteq Connection
              /\ job[p].index = 0 => job[p] = Idle /\ job[p].todo = {}
         /\ \A c \in Connection : HomeOf[c] \in Replica /\ Pusher(c) \in Producer
<1>1. \A r \in Replica : <<r, "kafka">> \in Producer /\ <<r, "redis">> \in Producer
  BY DEF Producer
<1>2. owner \in Replica /\ position[owner] \in Nat /\ committed \in Nat
  BY LogType DEF PushInv, TypeOK
<1>3. ASSUME NEW p \in Producer
      PROVE  /\ job[p].index \in Nat /\ job[p].todo \subseteq Connection
             /\ job[p].index = 0 => job[p] = Idle /\ job[p].todo = {}
  <2>1. job[p] \in Job /\ JobSound(p)
    BY <1>3 DEF PushInv, TypeOK, Job
  <2> QED BY <2>1, LogType DEF Job, JobSound, Idle
<1>4. \A c \in Connection : HomeOf[c] \in Replica /\ Pusher(c) \in Producer
  BY <1>1, HomeAssumption DEF Pusher
<1> QED BY <1>1, <1>2, <1>3, <1>4

LEMMA ChannelType ==
  ASSUME PushInv, NEW r \in Replica
  PROVE  /\ channel[r] \in Seq([origin: Replica, index: DOMAIN Log])
         /\ Len(channel[r]) \in Nat /\ DOMAIN channel[r] = 1..Len(channel[r])
         /\ \A i \in DOMAIN channel[r] : channel[r][i].index \in DOMAIN Log
         /\ \A i \in 1..(Len(channel[r]) + 1) : Published(r, i) \in Nat
<1> DEFINE Message == [origin: Replica, index: DOMAIN Log]
<1>1. channel[r] \in Seq(Message)
  BY DEF PushInv, TypeOK
<1>2. \A x \in Message : x.index \in DOMAIN Log
  OBVIOUS
<1> HIDE DEF Message
<1>3. /\ Len(channel[r]) \in Nat /\ DOMAIN channel[r] = 1..Len(channel[r])
      /\ \A i \in DOMAIN channel[r] : channel[r][i].index \in DOMAIN Log
  BY <1>1, <1>2
<1>4. job[<<r, "redis">>].index \in Nat
  BY ProducerType
<1>5. \A i \in 1..(Len(channel[r]) + 1) : i = 1 \/ i - 1 \in DOMAIN channel[r]
  BY <1>3
<1>6. \A i \in 1..(Len(channel[r]) + 1) : Published(r, i) \in Nat
  BY <1>3, <1>4, <1>5, LogType DEF Published
<1> QED BY <1>1, <1>3, <1>6 DEF Message

LEMMA QueueType ==
  ASSUME PushInv, NEW c \in Connection
  PROVE  /\ queue[c] \in Seq(DOMAIN Log)
         /\ Len(queue[c]) \in Nat /\ DOMAIN queue[c] = 1..Len(queue[c])
         /\ \A i \in DOMAIN queue[c] : queue[c][i] \in DOMAIN Log
         /\ \A i \in 1..(Len(queue[c]) + 1) : Got(c, i) \in Nat
         /\ Latest(c) \in Nat
         /\ Latest(c) = IF queue[c] = <<>> THEN received[c] ELSE Last(queue[c])
<1>1. queue[c] \in Seq(DOMAIN Log) /\ received[c] \in Nat
  BY LogType DEF PushInv, TypeOK
<1>2. /\ Len(queue[c]) \in Nat /\ DOMAIN queue[c] = 1..Len(queue[c])
      /\ \A i \in DOMAIN queue[c] : queue[c][i] \in DOMAIN Log
      /\ queue[c] = <<>> <=> Len(queue[c]) = 0
  BY <1>1
<1>3. \A i \in 1..(Len(queue[c]) + 1) : i = 1 \/ i - 1 \in DOMAIN queue[c]
  BY <1>2
<1>4. \A i \in 1..(Len(queue[c]) + 1) : Got(c, i) \in Nat
  BY <1>1, <1>2, <1>3, LogType DEF Got
<1>5. Latest(c) \in Nat
  BY <1>2, <1>4 DEF Latest
<1>6. Latest(c) = IF queue[c] = <<>> THEN received[c] ELSE Last(queue[c])
  BY <1>2 DEF Latest, Got, Last
<1> QED BY <1>1, <1>2, <1>4, <1>5, <1>6

Bounded == \A c \in Connection : Reached(c) \in Nat

LEMMA FrontType == PushInv => Bounded
<1> SUFFICES ASSUME PushInv, NEW c \in Connection PROVE Reached(c) \in Nat
  BY DEF Bounded
<1> DEFINE j == job[Pusher(c)]
<1>1. j.index \in Nat /\ position[owner] \in Nat /\ (c \in j.todo => j.index # 0)
  BY ProducerType
<1> QED BY <1>1 DEF Reached

LEMMA NextFrontType == PushInv' => \A c \in Connection : Reached(c)' \in Nat
<1>1. PushInv' => Bounded'
  BY FrontType, PTL
<1> QED BY <1>1 DEF Bounded

(* A connection keeps its queue or loses it, popped or dropped, and what   *)
(* follows its last event still does.                                      *)
LEMMA OrderedKept ==
  ASSUME PushInv, NEW c \in Connection, Ordered(c), failed => failed',
         \A a \in Nat : Reaches(a, Reached(c), Wanted(c), failed)
                          => Reaches(a, Reached(c)', Wanted(c), failed'),
         Registered(c)' \/ received'[c] = 0 \/ (~Registered(c) /\ received'[c] = received[c]),
         \/ queue'[c] = queue[c] /\ received'[c] = received[c]
         \/ queue'[c] = <<>> /\ received'[c] = 0
         \/ /\ queue'[c] = <<>>
            /\ received'[c] = IF queue[c] = <<>> THEN received[c] ELSE Last(queue[c])
  PROVE  Ordered(c)'
<1>1. Latest(c)' \in {0, Latest(c)} /\ Latest(c) \in Nat
  <2>1. Latest(c)' = IF queue'[c] = <<>> THEN received'[c] ELSE queue'[c][Len(queue'[c])]
    <3>1. CASE queue'[c] = <<>>
      BY <3>1 DEF Latest, Got
    <3>2. CASE queue'[c] = queue[c]
      BY <3>2, QueueType DEF Latest, Got
    <3> QED BY <3>1, <3>2
  <2> QED BY <2>1, QueueType DEF Last
<1>2. Latest(c)' # 0 => Reaches(Latest(c)', Reached(c)', Wanted(c), failed')
  BY <1>1 DEF Ordered
<1>3. Gapless(c)'
  <2>1. CASE queue'[c] = <<>>
    BY <2>1 DEF Gapless
  <2>2. CASE queue'[c] = queue[c] /\ received'[c] = received[c]
    <3> SUFFICES ASSUME NEW i \in DOMAIN queue[c], Got(c, i) # 0
                 PROVE  Reaches(Got(c, i), queue[c][i] - 1, Wanted(c), failed')
      BY <2>2 DEF Gapless, Got
    <3>1. Reaches(Got(c, i), queue[c][i] - 1, Wanted(c), failed)
      BY DEF Ordered, Gapless
    <3>2. Got(c, i) \in Nat /\ queue[c][i] - 1 \in Nat
      BY QueueType, LogType
    <3> QED BY <3>1, <3>2, ReachesWeaker
  <2> QED BY <2>1, <2>2
<1>4. Registered(c)' \/ received'[c] = 0
  BY DEF Ordered
<1> QED BY <1>2, <1>3, <1>4 DEF Ordered, Wanted, Due

(* Steps that leave the pushes as they are.                                *)
LEMMA SocketOrder ==
  ASSUME PushInv, SteadyInv, UNCHANGED <<job, channel, logVars, failed>>,
         \A c \in Connection :
           /\ Registered(c)' \/ received'[c] = 0 \/ (~Registered(c) /\ received'[c] = received[c])
           /\ \/ queue'[c] = queue[c] /\ received'[c] = received[c]
              \/ queue'[c] = <<>> /\ received'[c] = 0
              \/ /\ queue'[c] = <<>>
                 /\ received'[c] = IF queue[c] = <<>> THEN received[c] ELSE Last(queue[c])
  PROVE  SteadyInv'
<1>1. OwnerInv' /\ \A r \in Replica : ChannelSound(r)'
  BY DEF SteadyInv, OwnerInv, ChannelSound, Published, logVars
<1>2. \A c \in Connection : Reached(c)' = Reached(c)
  BY DEF Reached, Pusher, logVars
<1>3. ASSUME NEW c \in Connection PROVE Ordered(c)'
  BY <1>2, OrderedKept DEF SteadyInv
<1> QED BY <1>1, <1>3 DEF SteadyInv

(* A channel that is left alone, when the owner moves on or back.          *)
LEMMA ChannelKept ==
  ASSUME PushInv, NEW r \in Replica, ChannelSound(r), failed => failed',
         channel'[r] = channel[r], owner' = owner, position'[owner] \in Nat,
         r # owner => /\ job'[<<r, "redis">>].index = job[<<r, "redis">>].index
                      /\ \A a \in Nat : Reaches(a, position[owner], Pushed, failed)
                           => Reaches(a, position'[owner], Pushed, failed')
  PROVE  ChannelSound(r)'
<1> SUFFICES ASSUME r # owner
             PROVE  /\ \A i \in DOMAIN channel[r] :
                         Reaches(Published(r, i), channel[r][i].index - 1, Pushed, failed')
                    /\ Reaches(Published(r, Len(channel[r]) + 1), position'[owner], Pushed, failed')
  BY DEF ChannelSound, Published
<1>1. ASSUME NEW i \in DOMAIN channel[r]
      PROVE  Reaches(Published(r, i), channel[r][i].index - 1, Pushed, failed')
  <2>1. Reaches(Published(r, i), channel[r][i].index - 1, Pushed, failed)
    BY DEF ChannelSound
  <2>2. Published(r, i) \in Nat /\ channel[r][i].index - 1 \in Nat
    BY ChannelType, LogType
  <2> QED BY <2>1, <2>2, ReachesWeaker
<1>2. Published(r, Len(channel[r]) + 1) \in Nat
  BY ChannelType
<1> QED BY <1>1, <1>2 DEF ChannelSound

LEMMA DisconnectOrder ==
  ASSUME PushInv, SteadyInv, NEW c \in Connection, Disconnect(c) \/ CleanupFails(c)
  PROVE  SteadyInv'
<1>1. /\ Drop({c}) /\ job' = [p \in Producer |-> Without({c}, job[p])]
      /\ pc' = [pc EXCEPT ![c] = pc'[c]] /\ pc \in [Connection -> Place]
      /\ UNCHANGED <<channel, owner, position, committed, failed>>
  BY DEF Disconnect, CleanupFails, Unregister, ClearPresence, Goto, PushInv, TypeOK, logVars, breaks
<1>2. \A p \in Producer : job'[p].index = job[p].index /\ job'[p].todo = job[p].todo \ {c}
  BY <1>1 DEF Without
<1>3. OwnerInv'
  BY <1>1, <1>2, ProducerType DEF SteadyInv, OwnerInv
<1>4. ASSUME NEW r \in Replica PROVE ChannelSound(r)'
  BY <1>1, <1>2, ProducerType, ChannelKept DEF SteadyInv
<1>5. ASSUME NEW d \in Connection \ {c} PROVE Ordered(d)'
  <2>1. Reached(d)' = Reached(d)
    <3>1. Pusher(d)' = Pusher(d) /\ Pusher(d) \in Producer
      BY <1>1, ProducerType DEF Pusher
    <3> QED BY <1>1, <1>2, <3>1 DEF Reached
  <2>2. queue'[d] = queue[d] /\ received'[d] = received[d] /\ pc'[d] = pc[d]
    BY <1>1 DEF Drop
  <2> QED BY <1>1, <2>1, <2>2, OrderedKept DEF SteadyInv, Registered
<1>6. Ordered(c)'
  BY <1>1 DEF Drop, Ordered, Gapless, Latest, Got
<1> QED BY <1>3, <1>4, <1>5, <1>6 DEF SteadyInv

(* What is closed has nothing queued and has received nothing.             *)
LEMMA ClosedOrdered ==
  ASSUME PushInv, NEW c \in Connection, Ordered(c), ~Registered(c),
         UNCHANGED <<pc, queue, received>>
  PROVE  Ordered(c)'
<1>1. queue[c] = <<>> /\ received[c] = 0
  BY DEF PushInv, TypeOK, Ordered, Registered
<1> QED BY <1>1 DEF Ordered, Gapless, Latest, Got

(* Nothing is pushed: the owner only goes on, or back, in the log.         *)
LEMMA MovedOrder ==
  ASSUME PushInv, PushInv', SteadyInv, failed => failed',
         UNCHANGED <<pc, queue, received, channel, owner, job>>,
         job[<<owner, "kafka">>].index = 0, committed' <= position'[owner],
         \A c \in Connection : \A a \in Nat :
           Reaches(a, position[owner], Wanted(c), failed)
             => Reaches(a, position'[owner], Wanted(c), failed'),
         \A a \in Nat : Reaches(a, position[owner], Pushed, failed)
                          => Reaches(a, position'[owner], Pushed, failed')
  PROVE  SteadyInv'
<1>1. OwnerInv'
  BY DEF SteadyInv, OwnerInv
<1>2. position'[owner] \in Nat
  BY LogType DEF PushInv, TypeOK
<1>3. ASSUME NEW r \in Replica PROVE ChannelSound(r)'
  BY <1>2, ChannelKept DEF SteadyInv
<1>4. ASSUME NEW c \in Connection PROVE Ordered(c)'
  <2>1. Reached(c)' = IF HomeOf[c] = owner THEN position'[owner] ELSE Reached(c)
    BY DEF Reached, Pusher
  <2>2. HomeOf[c] = owner => Reached(c) = position[owner]
    BY DEF Reached, Pusher
  <2>3. Reached(c) \in Nat
    BY FrontType DEF Bounded
  <2>4. \A a \in Nat : Reaches(a, Reached(c), Wanted(c), failed)
                         => Reaches(a, Reached(c)', Wanted(c), failed')
    BY <2>1, <2>2, <2>3, ReachesWeaker
  <2> QED BY <2>4, OrderedKept DEF SteadyInv, Registered
<1> QED BY <1>1, <1>3, <1>4 DEF SteadyInv

(* The handler throws and the owner starts again from the committed offset.*)
LEMMA HandlerFailsOrder ==
  ASSUME PushInv, PushInv', SteadyInv, NEW r \in Replica, HandlerFails(r)
  PROVE  SteadyInv'
<1>1. /\ owner = r /\ job[<<owner, "kafka">>].index = 0 /\ failed' = TRUE
      /\ committed' = committed /\ position'[owner] = committed
      /\ UNCHANGED <<pc, queue, received, channel, owner, job>>
  BY DEF HandlerFails, Takes, Idle, socketVars, PushInv, TypeOK
<1>2. committed <= position[owner] /\ committed \in Nat /\ position[owner] \in Nat
  BY ProducerType DEF SteadyInv, OwnerInv
<1>3. \A D : \A a \in Nat : Reaches(a, position[owner], D, failed)
                              => Reaches(a, position'[owner], D, failed')
  BY <1>1, <1>2, ReachesBack
<1>4. /\ \A a \in Nat : Reaches(a, position[owner], Pushed, failed)
                         => Reaches(a, position'[owner], Pushed, failed')
      /\ \A c \in Connection : \A a \in Nat :
           Reaches(a, position[owner], Wanted(c), failed)
             => Reaches(a, position'[owner], Wanted(c), failed')
  BY <1>3
<1>5. (failed => failed') /\ committed' <= position'[owner]
  BY <1>1, <1>2
<1> QED BY <1>1, <1>4, <1>5, MovedOrder

LEMMA CommitOrder ==
  ASSUME PushInv, PushInv', SteadyInv, NEW r \in Replica, Commit(r)
  PROVE  SteadyInv'
<1>1. /\ owner = r /\ committed' <= position[owner]
      /\ UNCHANGED <<pc, queue, received, channel, owner, position, failed, job>>
  <2>1. committed' \in committed + 1 .. position[r] /\ owner = r
    BY DEF Commit
  <2>2. committed \in Nat /\ position[owner] \in Nat
    BY ProducerType
  <2> QED BY <2>1, <2>2 DEF Commit, socketVars, breaks
<1>2. OwnerInv'
  BY <1>1 DEF SteadyInv, OwnerInv
<1>3. \A q \in Replica : ChannelSound(q)'
  BY <1>1 DEF SteadyInv, ChannelSound, Published
<1>4. ASSUME NEW c \in Connection PROVE Ordered(c)'
  <2>1. Reached(c)' = Reached(c)
    BY <1>1 DEF Reached, Pusher
  <2> QED BY <1>1, <2>1, OrderedKept DEF SteadyInv, Registered
<1> QED BY <1>2, <1>3, <1>4 DEF SteadyInv

(* An event taken: who is not in the list of the push does not want it.    *)
LEMMA OnEventOrder ==
  ASSUME PushInv, PushInv', SteadyInv, NEW r \in Replica, OnEvent(r)
  PROVE  SteadyInv'
<1> DEFINE i == position[owner] + 1
           p == <<r, "kafka">>
<1>1. /\ owner = r /\ job[p] = Idle /\ p \in Producer /\ job[p].index = 0 /\ job[p].todo = {}
      /\ i \in DOMAIN Log /\ position[owner] \in Nat
      /\ UNCHANGED <<pc, queue, received, channel, owner, committed, failed>>
  BY ProducerType DEF OnEvent, Takes, Following, socketVars, Producer, Idle, breaks
<1>2. CASE Log[i].type = "message.read" /\ Handled(r, i) /\ UNCHANGED job
  <2>1. position'[owner] = i
    BY <1>1, <1>2 DEF Handled, PushInv, TypeOK
  <2>2. i \notin Pushed /\ \A c \in Connection : i \notin Wanted(c)
    BY <1>2 DEF Pushed, Wanted, Due
  <2>3. committed <= i
    BY <1>1, ProducerType DEF SteadyInv, OwnerInv
  <2>4. \A D : \A a \in Nat : i \notin D /\ Reaches(a, position[owner], D, failed)
                                => Reaches(a, position'[owner], D, failed')
    BY <1>1, <2>1, ReachesNext
  <2> QED BY <1>1, <1>2, <2>1, <2>2, <2>3, <2>4, MovedOrder
<1>3. CASE SendToUser(p, i) /\ UNCHANGED position
  <2>1. /\ \A q \in Producer \ {p} : job'[q] = job[q]
        /\ job'[p].index = i /\ job'[p].todo = Connected(r, Log[i].to)
    BY <1>1, <1>3 DEF SendToUser, PushInv, TypeOK
  <2>2. OwnerInv'
    BY <1>1, <1>3, <2>1, ProducerType DEF SteadyInv, OwnerInv
  <2>3. ASSUME NEW q \in Replica PROVE ChannelSound(q)'
    <3>1. job'[<<q, "redis">>] = job[<<q, "redis">>]
      BY <2>1, ProducerType
    <3> QED BY <1>1, <1>3, <3>1, ChannelKept DEF SteadyInv
  <2>4. ASSUME NEW c \in Connection, HomeOf[c] # owner PROVE Ordered(c)'
    <3>1. Pusher(c)' = Pusher(c) /\ job'[Pusher(c)] = job[Pusher(c)]
      BY <1>1, <2>1, <2>4, ProducerType DEF Pusher
    <3>2. Reached(c)' = Reached(c)
      BY <1>1, <2>4, <3>1 DEF Reached
    <3> QED BY <1>1, <3>2, OrderedKept DEF SteadyInv, Registered
  <2>5. ASSUME NEW c \in Connection, HomeOf[c] = owner PROVE Ordered(c)'
    <3>1. /\ Reached(c) = position[owner]
          /\ Reached(c)' = IF c \in Connected(r, Log[i].to) THEN i - 1 ELSE i
      BY <1>1, <2>1, <2>5 DEF Reached, Pusher
    <3>2. CASE c \in Connected(r, Log[i].to)
      BY <1>1, <3>1, <3>2, OrderedKept DEF SteadyInv, Registered
    <3>3. CASE c \notin Connected(r, Log[i].to) /\ Registered(c)
      <4>1. i \notin Wanted(c)
        BY <1>1, <2>5, <3>3 DEF Connected, Wanted, Due
      <4>2. \A a \in Nat : Reaches(a, Reached(c), Wanted(c), failed)
                             => Reaches(a, Reached(c)', Wanted(c), failed')
        BY <1>1, <3>1, <3>3, <4>1, ReachesNext
      <4> QED BY <1>1, <4>2, OrderedKept DEF SteadyInv, Registered
    <3>4. CASE ~Registered(c)
      BY <1>1, <3>4, ClosedOrdered DEF SteadyInv, Registered
    <3> QED BY <3>2, <3>3, <3>4
  <2> QED BY <2>2, <2>3, <2>4, <2>5 DEF SteadyInv
<1> QED BY <1>1, <1>2, <1>3 DEF OnEvent, Following

LEMMA EnqueueOrder ==
  ASSUME PushInv, PushInv', SteadyInv, NEW p \in Producer, Enqueue(p)
  PROVE  SteadyInv'
<1>1. PICK c \in job[p].todo :
        /\ job' = [job EXCEPT ![p] = [index |-> @.index, todo |-> @.todo \ {c}, ring |-> c]]
        /\ queue' = [queue EXCEPT ![c] = Append(@, job[p].index)]
        /\ UNCHANGED <<pc, received, channel, owner, position, committed, failed>>
  BY DEF Enqueue, logVars, breaks
<1>2. /\ job \in [Producer -> Job] /\ c \in Connection
      /\ queue \in [Connection -> Seq(DOMAIN Log)]
      /\ HomeOf[c] = p[1] /\ Registered(c)
      /\ job[p].index \in DOMAIN Log
  BY <1>1, ProducerType DEF PushInv, TypeOK, Job, JobSound, Idle
<1>3. /\ \A q \in Producer : job'[q].index = job[q].index
      /\ \A q \in Producer \ {p} : job'[q].todo = job[q].todo
      /\ job'[p].todo = job[p].todo \ {c}
  BY <1>1, <1>2
<1>4. OwnerInv'
  BY <1>1, <1>3, ProducerType DEF SteadyInv, OwnerInv
<1>5. ASSUME NEW r \in Replica PROVE ChannelSound(r)'
  BY <1>1, <1>3, ProducerType, ChannelKept DEF SteadyInv
<1>6. p = Pusher(c) /\ job[p].index # 0 /\ job[p].index \in Nat
  <2>1. job[p].index # 0 /\ job[p].index \in Nat
    BY <1>2, LogType
  <2>2. PICK r \in Replica, k \in {"kafka", "redis"} : p = <<r, k>>
    BY DEF Producer
  <2> QED BY <1>2, <2>1, <2>2 DEF Pusher, SteadyInv, OwnerInv
<1>7. ASSUME NEW d \in Connection \ {c} PROVE Ordered(d)'
  <2>1. queue'[d] = queue[d] /\ received'[d] = received[d]
    BY <1>1, <1>2
  <2>2. Reached(d)' = Reached(d)
    <3>1. Pusher(d)' = Pusher(d) /\ Pusher(d) \in Producer
      BY <1>1, ProducerType DEF Pusher
    <3>2. /\ job'[Pusher(d)].index = job[Pusher(d)].index
          /\ d \in job'[Pusher(d)].todo <=> d \in job[Pusher(d)].todo
      BY <1>3, <3>1
    <3> QED BY <1>1, <3>1, <3>2 DEF Reached
  <2> QED BY <1>1, <2>1, <2>2, OrderedKept DEF SteadyInv, Registered
<1>8. Ordered(c)'
  <2>1. Reached(c) = job[p].index - 1 /\ Reached(c)' = job[p].index
    <3>1. Pusher(c)' = p
      BY <1>1, <1>6 DEF Pusher
    <3> QED BY <1>1, <1>3, <1>6, <3>1 DEF Reached
  <2> DEFINE old == queue[c]
             new == queue'[c]
  <2> PICK n \in Nat : n = Len(old)
    BY <1>2, QueueType
  <2>2. /\ n = Len(old) /\ DOMAIN old = 1..n /\ new = Append(old, job[p].index)
        /\ DOMAIN new = 1..(n + 1) /\ Len(new) = n + 1
        /\ \A i \in 1..n : new[i] = old[i] /\ new[i] \in DOMAIN Log
        /\ new[n + 1] = job[p].index
    <3>1. old \in Seq(DOMAIN Log) /\ new = Append(old, job[p].index)
      BY <1>1, <1>2
    <3> QED BY <1>2, <3>1
  <2>3. /\ Got(c, n + 1) = Latest(c) /\ Got(c, n + 2)' = job[p].index
        /\ Latest(c)' = job[p].index
        /\ \A i \in 1..(n + 1) : Got(c, i)' = Got(c, i)
    <3>1. \A i \in 1..(n + 1) : i = 1 \/ i - 1 \in 1..n
      BY <2>2
    <3>2. n + 2 # 1 /\ n + 2 - 1 = n + 1
      BY <2>2
    <3>3. Len(queue'[c]) + 1 = n + 2
      BY <2>2
    <3> QED BY <1>1, <2>2, <3>1, <3>2, <3>3 DEF Got, Latest
  <2>4. Latest(c) # 0 => Reaches(Latest(c), job[p].index - 1, Wanted(c), failed)
    BY <1>2, <2>1 DEF SteadyInv, Ordered
  <2>5. \A i \in 1..n : Got(c, i) # 0 => Reaches(Got(c, i), old[i] - 1, Wanted(c), failed)
    BY <1>2, <2>2 DEF SteadyInv, Ordered, Gapless
  <2> HIDE DEF old, new
  <2>6. ASSUME NEW i \in 1..(n + 1), Got(c, i)' # 0
        PROVE  Reaches(Got(c, i)', new[i] - 1, Wanted(c), failed)
    <3>1. i \in 1..n \/ i = n + 1
      BY <2>2
    <3> QED BY <2>2, <2>3, <2>4, <2>5, <2>6, <3>1
  <2>7. Gapless(c)'
    BY <1>1, <2>2, <2>6 DEF Gapless, new, Wanted, Due
  <2>8. Reaches(job[p].index, job[p].index, Wanted(c), failed)
    BY <1>6, ReachesItself
  <2> QED BY <1>1, <1>2, <2>1, <2>3, <2>7, <2>8 DEF Ordered, Registered, Wanted, Due
<1> QED BY <1>4, <1>5, <1>7, <1>8 DEF SteadyInv

LEMMA SignalOrder ==
  ASSUME PushInv, SteadyInv, NEW p \in Producer, Signal(p)
  PROVE  SteadyInv'
<1>1. /\ job' = [job EXCEPT ![p].ring = None]
      /\ UNCHANGED <<pc, queue, received, channel, owner, position, committed, failed>>
      /\ job \in [Producer -> Job]
  BY DEF Signal, PushInv, TypeOK, Job, logVars, breaks
<1>2. \A q \in Producer : job'[q].index = job[q].index /\ job'[q].todo = job[q].todo
  BY <1>1 DEF Job
<1>3. OwnerInv'
  BY <1>1, <1>2, ProducerType DEF SteadyInv, OwnerInv
<1>4. ASSUME NEW r \in Replica PROVE ChannelSound(r)'
  BY <1>1, <1>2, ProducerType, ChannelKept DEF SteadyInv
<1>5. ASSUME NEW c \in Connection PROVE Ordered(c)'
  <2>1. Pusher(c)' = Pusher(c) /\ Pusher(c) \in Producer
    BY <1>1, ProducerType DEF Pusher
  <2>2. Reached(c)' = Reached(c)
    BY <1>1, <1>2, <2>1 DEF Reached
  <2> QED BY <1>1, <2>2, OrderedKept DEF SteadyInv, Registered
<1> QED BY <1>3, <1>4, <1>5 DEF SteadyInv

(* The owner publishes what it has pushed: the next event of its log.      *)
LEMMA PublishOrder ==
  ASSUME PushInv, PushInv', SteadyInv, NEW r \in Replica, PublishToUser(r)
  PROVE  SteadyInv'
<1> DEFINE p == <<r, "kafka">>
           message == [origin |-> r, index |-> job[p].index]
<1>1. /\ p \in Producer /\ job[p] # Idle /\ job[p].todo = {}
      /\ channel' = [q \in Replica |-> Append(channel[q], message)]
      /\ job' = [job EXCEPT ![p] = Idle] /\ Handled(r, job[p].index)
      /\ UNCHANGED <<pc, queue, received, owner, committed, failed>>
      /\ job \in [Producer -> Job]
  BY DEF PublishToUser, Working, Producer, socketVars, breaks, PushInv, TypeOK, Job
<1>2. owner = r /\ job[p].index = position[owner] + 1 /\ position[owner] \in Nat
  BY <1>1, ProducerType DEF SteadyInv, OwnerInv
<1>3. /\ position'[owner] = position[owner] + 1
      /\ job'[p].index = 0 /\ \A q \in Producer \ {p} : job'[q] = job[q]
  BY <1>1, <1>2 DEF Handled, Idle, PushInv, TypeOK
<1>4. OwnerInv'
  BY <1>1, <1>2, <1>3, ProducerType DEF SteadyInv, OwnerInv
<1>5. ASSUME NEW q \in Replica PROVE ChannelSound(q)'
  <2> DEFINE old == channel[q]
             new == channel'[q]
  <2> PICK n \in Nat : n = Len(old)
    BY ChannelType
  <2>1. /\ n = Len(old) /\ DOMAIN old = 1..n
        /\ DOMAIN new = 1..(n + 1) /\ Len(new) = n + 1
        /\ \A i \in 1..n : new[i] = old[i]
        /\ new[n + 1] = message
    <3> DEFINE Message == [origin: Replica, index: DOMAIN Log]
    <3>1. old \in Seq(Message) /\ message \in Message
      BY <1>1, ChannelType DEF PushInv, JobSound
    <3>2. new = Append(old, message)
      BY <1>1
    <3> HIDE DEF message, Message, old, new
    <3> QED BY <3>1, <3>2
  <2>2. \A i \in 1..(n + 1) : new[i].origin = owner'
    <3>1. \A i \in 1..(n + 1) : i \in 1..n \/ i = n + 1
      BY <2>1
    <3>2. \A i \in 1..n : old[i].origin = owner
      BY <2>1 DEF SteadyInv, ChannelSound
    <3> QED BY <1>1, <1>2, <2>1, <3>1, <3>2
  <2>3. ASSUME q # owner
        PROVE  /\ \A i \in 1..(n + 1) : Reaches(Published(q, i)', new[i].index - 1, Pushed, failed)
               /\ Reaches(Published(q, n + 2)', position'[owner], Pushed, failed)
    <3>1. job'[<<q, "redis">>] = job[<<q, "redis">>]
      BY <1>3, ProducerType
    <3>2. /\ \A i \in 1..(n + 1) : Published(q, i)' = Published(q, i)
          /\ Published(q, n + 2)' = job[p].index
      <4>1. \A i \in 1..(n + 1) : i = 1 \/ i - 1 \in 1..n
        BY <2>1
      <4>2. n + 2 # 1 /\ n + 2 - 1 = n + 1
        BY <2>1
      <4> QED BY <2>1, <3>1, <4>1, <4>2 DEF Published
    <3>3. /\ \A i \in 1..n : Reaches(Published(q, i), old[i].index - 1, Pushed, failed)
          /\ Reaches(Published(q, n + 1), position[owner], Pushed, failed)
      BY <2>1, <2>3 DEF SteadyInv, ChannelSound
    <3>4. message.index - 1 = position[owner] /\ job[p].index = position'[owner]
      BY <1>2, <1>3
    <3> HIDE DEF old, new, message
    <3>5. ASSUME NEW i \in 1..(n + 1)
          PROVE  Reaches(Published(q, i)', new[i].index - 1, Pushed, failed)
      <4>1. i \in 1..n \/ i = n + 1
        BY <2>1
      <4> QED BY <2>1, <3>2, <3>3, <3>4, <4>1
    <3>6. Reaches(Published(q, n + 2)', position'[owner], Pushed, failed)
      BY <1>2, <1>3, <3>2, <3>4, ReachesItself
    <3> QED BY <3>5, <3>6
  <2>4. Len(channel'[q]) + 1 = n + 2
    BY <2>1
  <2> QED BY <1>1, <2>1, <2>2, <2>3, <2>4 DEF ChannelSound
<1>6. ASSUME NEW c \in Connection PROVE Ordered(c)'
  <2>1. Pusher(c)' = Pusher(c) /\ Pusher(c) \in Producer
    BY <1>1, ProducerType DEF Pusher
  <2>2. Reached(c)' = Reached(c)
    <3>1. CASE HomeOf[c] = owner
      <4>1. Pusher(c) = p
        BY <1>2, <3>1 DEF Pusher
      <4>2. Reached(c)' = position'[owner]
        BY <1>1, <1>3, <2>1, <3>1, <4>1 DEF Reached
      <4>3. Reached(c) = job[p].index
        <5>1. job[p].index # 0 /\ job[p].todo = {}
          BY <1>1, <1>2
        <5> HIDE DEF p
        <5> QED BY <4>1, <5>1 DEF Reached
      <4> QED BY <1>2, <1>3, <4>2, <4>3
    <3>2. CASE HomeOf[c] # owner
      <4>1. job'[Pusher(c)] = job[Pusher(c)]
        BY <1>3, <2>1, <3>2 DEF Pusher
      <4> QED BY <1>1, <2>1, <3>2, <4>1 DEF Reached
    <3> QED BY <3>1, <3>2
  <2> QED BY <1>1, <2>2, OrderedKept DEF SteadyInv, Registered
<1> QED BY <1>4, <1>5, <1>6 DEF SteadyInv

(* Another replica takes the next publication; the owner drops its own.    *)
LEMMA SubscriptionOrder ==
  ASSUME PushInv, PushInv', SteadyInv, NEW r \in Replica, OnPubSubMessage(r)
  PROVE  SteadyInv'
<1> DEFINE p == <<r, "redis">>
<1> PICK message : message = channel[r][1]
  OBVIOUS
<1>1. /\ p \in Producer /\ job[p].todo = {} /\ channel[r] # <<>> /\ message = Head(channel[r])
      /\ channel' = [channel EXCEPT ![r] = Tail(@)]
      /\ IF message.origin # r THEN SendToUser(p, message.index) ELSE UNCHANGED job
      /\ UNCHANGED <<pc, queue, received, owner, position, committed, failed>>
      /\ job \in [Producer -> Job]
  <2>1. channel[r] # <<>> => Head(channel[r]) = channel[r][1]
    BY ChannelType
  <2> QED BY <2>1 DEF OnPubSubMessage, Foreign, Working, Producer, socketVars, logVars, breaks,
        PushInv, TypeOK, Job
<1>2. /\ channel \in [Replica -> Seq([origin: Replica, index: DOMAIN Log])]
      /\ 1 \in DOMAIN channel[r] /\ message.index \in DOMAIN Log
      /\ message.index \in Nat /\ message.index - 1 \in Nat
  <2>1. 1 \in DOMAIN channel[r]
    BY <1>1, ChannelType
  <2>2. message.index \in DOMAIN Log
    BY <2>1, ChannelType
  <2>3. message.index \in Nat /\ message.index - 1 \in Nat
    BY <2>2, LogType
  <2> QED BY <2>1, <2>2, <2>3 DEF PushInv, TypeOK
<1>3. message.origin = owner
  BY <1>1, <1>2 DEF SteadyInv, ChannelSound
<1>4. /\ \A q \in Producer \ {p} : job'[q] = job[q]
      /\ r = owner => job' = job
      /\ r # owner => /\ job'[p].index = message.index
                      /\ job'[p].todo = Connected(r, Log[message.index].to)
  BY <1>1, <1>3 DEF SendToUser
<1>5. OwnerInv'
  BY <1>1, <1>4, ProducerType DEF SteadyInv, OwnerInv
<1>6. ASSUME NEW q \in Replica \ {r} PROVE ChannelSound(q)'
  <2>1. channel'[q] = channel[q] /\ job'[<<q, "redis">>] = job[<<q, "redis">>]
    BY <1>1, <1>2, <1>4, ProducerType
  <2> QED BY <1>1, <2>1, ProducerType, ChannelKept DEF SteadyInv
<1>7. ChannelSound(r)'
  <2> DEFINE old == channel[r]
             new == channel'[r]
  <2> PICK n \in Nat : n = Len(old)
    BY ChannelType
  <2>1. /\ DOMAIN old = 1..n /\ n >= 1 /\ Len(new) = n - 1 /\ DOMAIN new = 1..(n - 1)
        /\ \A i \in 1..(n - 1) : new[i] = old[i + 1]
    <3> DEFINE Message == [origin: Replica, index: DOMAIN Log]
    <3>1. old \in Seq(Message) /\ new = Tail(old)
      BY <1>1, <1>2
    <3> HIDE DEF Message, old, new
    <3> QED BY <1>1, <3>1 DEF old
  <2>2. \A i \in 1..(n - 1) : new[i].origin = owner'
    BY <1>1, <2>1 DEF SteadyInv, ChannelSound
  <2>3. ASSUME r # owner
        PROVE  /\ \A i \in 1..(n - 1) : Reaches(Published(r, i)', new[i].index - 1, Pushed, failed)
               /\ Reaches(Published(r, n)', position'[owner], Pushed, failed)
    <3>1. \A i \in 1..n : Published(r, i)' = Published(r, i + 1)
      <4>1. \A i \in 1..n : /\ i + 1 # 1 /\ (i + 1) - 1 = i
                            /\ i = 1 \/ (i - 1 \in 1..(n - 1) /\ (i - 1) + 1 = i)
        OBVIOUS
      <4>2. Published(r, 1)' = Published(r, 2)
        BY <1>4, <2>3 DEF Published
      <4>3. ASSUME NEW i \in 1..n, i # 1 PROVE Published(r, i)' = Published(r, i + 1)
        <5>1. new[i - 1] = old[i]
          BY <2>1, <4>1, <4>3
        <5> QED BY <4>1, <4>3, <5>1 DEF Published
      <4> QED BY <4>2, <4>3
    <3>2. /\ \A i \in 1..n : Reaches(Published(r, i), old[i].index - 1, Pushed, failed)
          /\ Reaches(Published(r, n + 1), position[owner], Pushed, failed)
      BY <2>1, <2>3 DEF SteadyInv, ChannelSound
    <3>3. \A i \in 1..(n - 1) : i \in 1..n /\ i + 1 \in 1..n
      OBVIOUS
    <3>4. n \in 1..n
      BY <2>1
    <3> HIDE DEF old, new
    <3> QED BY <1>1, <2>1, <3>1, <3>2, <3>3, <3>4
  <2>4. Len(channel'[r]) + 1 = n
    BY <2>1
  <2> QED BY <1>1, <2>1, <2>2, <2>3, <2>4 DEF ChannelSound
<1>8. ASSUME NEW c \in Connection, Pusher(c) # p \/ r = owner PROVE Ordered(c)'
  <2>1. Pusher(c)' = Pusher(c) /\ job'[Pusher(c)] = job[Pusher(c)]
    BY <1>1, <1>4, <1>8, ProducerType DEF Pusher
  <2>2. Reached(c)' = Reached(c)
    BY <1>1, <2>1 DEF Reached
  <2> QED BY <1>1, <2>2, OrderedKept DEF SteadyInv, Registered
<1>9. ASSUME NEW c \in Connection, Pusher(c) = p, r # owner PROVE Ordered(c)'
  <2> DEFINE i == message.index
  <2>1. HomeOf[c] = r /\ Pusher(c)' = p
    BY <1>1, <1>9 DEF Pusher
  <2>2. /\ Reached(c) = job[p].index
        /\ Reached(c)' = IF c \in Connected(r, Log[i].to) THEN i - 1 ELSE i
    BY <1>1, <1>4, <1>9, <2>1 DEF Reached
  <2>3. \A a \in Nat : Reaches(a, Reached(c), Wanted(c), failed)
                         => Reaches(a, i - 1, Wanted(c), failed)
    <3>1. Reaches(Reached(c), i - 1, Pushed, failed)
      BY <1>2, <1>9, <2>2 DEF SteadyInv, ChannelSound, Published
    <3>2. Wanted(c) \subseteq Pushed
      BY DEF Wanted, Pushed, Due
    <3>3. Reached(c) \in Nat
      BY FrontType DEF Bounded
    <3> QED BY <1>2, <3>1, <3>2, <3>3, ReachesOn
  <2>4. CASE c \in Connected(r, Log[i].to)
    BY <1>1, <2>2, <2>3, <2>4, OrderedKept DEF SteadyInv, Registered
  <2>5. CASE c \notin Connected(r, Log[i].to) /\ Registered(c)
    <3>1. i \notin Wanted(c)
      BY <2>1, <2>5 DEF Connected, Wanted, Due
    <3>2. \A a \in Nat : Reaches(a, i - 1, Wanted(c), failed) => Reaches(a, i, Wanted(c), failed)
      <4>1. (i - 1) + 1 = i
        BY <1>2
      <4> QED BY <1>2, <3>1, <4>1, ReachesNext
    <3> QED BY <1>1, <2>2, <2>3, <2>5, <3>2, OrderedKept DEF SteadyInv, Registered
  <2>6. CASE ~Registered(c)
    BY <1>1, <2>6, ClosedOrdered DEF SteadyInv, Registered
  <2> QED BY <2>4, <2>5, <2>6
<1> QED BY <1>5, <1>6, <1>7, <1>8, <1>9 DEF SteadyInv

LEMMA InitOrderInv == Init => OrderInv
<1> SUFFICES ASSUME Init PROVE SteadyInv
  BY DEF OrderInv
<1>1. \A p \in Producer : job[p].index = 0 /\ job[p].todo = {}
  BY DEF Init, Idle
<1>2. PushInv
  BY InitPushInv
<1>3. position[owner] = 0 /\ committed = 0
  BY <1>2 DEF Init, PushInv, TypeOK
<1>4. OwnerInv
  <2>1. \A r \in Replica : job[<<r, "kafka">>].index = 0 /\ job[<<r, "redis">>].index = 0
    BY <1>1, <1>2, ProducerType
  <2>2. owner \in Replica
    BY <1>2, ProducerType
  <2>3. job[<<owner, "kafka">>].index = 0 /\ job[<<owner, "redis">>].index = 0
    BY <2>1, <2>2
  <2>4. committed <= position[owner]
    BY <1>3
  <2> QED BY <2>1, <2>3, <2>4 DEF OwnerInv
<1>5. ASSUME NEW r \in Replica PROVE ChannelSound(r)
  <2>1. channel[r] = <<>> /\ <<r, "redis">> \in Producer
    BY <1>2, ProducerType DEF Init
  <2>2. Published(r, Len(channel[r]) + 1) = 0
    BY <1>1, <2>1 DEF Published
  <2>3. Reaches(0, 0, Pushed, failed)
    BY ReachesItself
  <2> QED BY <1>3, <2>1, <2>2, <2>3 DEF ChannelSound
<1>6. \A c \in Connection : Ordered(c)
  BY DEF Init, Ordered, Gapless, Latest, Got
<1> QED BY <1>4, <1>5, <1>6 DEF SteadyInv

LEMMA NextOrderInv == PushInv /\ OrderInv /\ [Next]_vars => OrderInv'
<1> SUFFICES ASSUME PushInv, OrderInv, [Next]_vars, ~broken' PROVE SteadyInv'
  BY DEF OrderInv
<1>1. PushInv'
  BY NextPushInv
<1>2. ~ \E r \in Replica : Rebalance(r) \/ Kill(r) \/ Resubscribe(r)
  BY DEF Rebalance, Kill, Resubscribe, Break
<1>3. ~broken
  BY <1>2 DEF Next, HandlerStep, PushStep, Open, Announce, DrainOutbound, ClientPing, ResetSignal,
         DrainAgain, WaitAny, Disconnect, CleanupFails, TellFails, AnnounceOffline, Lapse,
         ExpireKey, OnEvent, HandlerFails, Commit, Enqueue, Signal, PublishToUser,
         OnPubSubMessage, vars, breaks
<1>4. SteadyInv
  BY <1>3 DEF OrderInv
<1>5. ASSUME NEW c \in Connection, DrainOutbound(c) \/ DrainAgain(c) PROVE SteadyInv'
  <2>1. /\ Popped(c) /\ UNCHANGED <<job, channel, logVars, failed>>
        /\ pc' = [pc EXCEPT ![c] = pc'[c]] /\ pc'[c] \in {"drained", "waiting", "top"}
    BY <1>5 DEF DrainOutbound, DrainAgain, Goto, PushInv, TypeOK, pushVars, breaks
  <2>2. \A d \in Connection :
           \/ queue'[d] = queue[d] /\ received'[d] = received[d]
           \/ /\ queue'[d] = <<>>
              /\ received'[d] = IF queue[d] = <<>> THEN received[d] ELSE Last(queue[d])
    BY <2>1 DEF Popped, PushInv, TypeOK
  <2>3. \A d \in Connection :
          Registered(d)' \/ (~Registered(d) /\ received'[d] = received[d])
    <3>1. Registered(c)'
      BY <2>1 DEF Registered, PushInv, TypeOK
    <3>2. \A d \in Connection \ {c} : pc'[d] = pc[d] /\ received'[d] = received[d]
      BY <2>1 DEF Popped, PushInv, TypeOK
    <3> QED BY <3>1, <3>2 DEF Registered
  <2> QED BY <1>4, <2>1, <2>2, <2>3, SocketOrder
<1>6. ASSUME NEW c \in Connection,
             \/ Announce(c) \/ ResetSignal(c) \/ WaitAny(c) \/ AnnounceOffline(c) \/ Open(c)
             \/ ClientPing(c) \/ Lapse(c) \/ TellFails(c)
      PROVE  SteadyInv'
  <2>1. UNCHANGED <<queue, received, job, channel, logVars, failed>>
    BY <1>6 DEF Announce, ResetSignal, WaitAny, AnnounceOffline, Open, ClientPing, Lapse, TellFails,
          pushVars, socketVars, breaks
  <2>2. \A d \in Connection : Registered(d)' \/ ~Registered(d)
    <3>1. \A d \in Connection \ {c} : pc'[d] = pc[d]
      BY <1>6 DEF Announce, ResetSignal, WaitAny, AnnounceOffline, Open, ClientPing, Lapse, TellFails,
            RefreshPresence, Goto, socketVars, PushInv, TypeOK
    <3>2. Registered(c)' \/ ~Registered(c)
      BY <1>6 DEF Announce, ResetSignal, WaitAny, AnnounceOffline, Open, ClientPing, Lapse, TellFails,
            RefreshPresence, Goto, socketVars, PushInv, TypeOK, Registered
    <3> QED BY <3>1, <3>2 DEF Registered
  <2> QED BY <1>4, <2>1, <2>2, SocketOrder
<1>7. ASSUME NEW u \in User, ExpireKey(u) PROVE SteadyInv'
  <2>1. UNCHANGED <<pc, queue, received, job, channel, logVars, failed>>
    BY <1>7 DEF ExpireKey, pushVars, socketVars, breaks
  <2> QED BY <1>4, <2>1, SocketOrder DEF Registered
<1>8. ASSUME NEW c \in Connection, Disconnect(c) \/ CleanupFails(c) PROVE SteadyInv'
  BY <1>4, <1>8, DisconnectOrder
<1>9. ASSUME NEW r \in Replica, PushStep(r) PROVE SteadyInv'
  <2>1. {r} \X {"kafka", "redis"} \subseteq Producer
    BY DEF Producer
  <2> QED BY <1>1, <1>4, <1>9, <2>1, OnEventOrder, HandlerFailsOrder, CommitOrder, EnqueueOrder,
        SignalOrder, PublishOrder, SubscriptionOrder DEF PushStep
<1>10. CASE UNCHANGED vars
  <2>1. UNCHANGED <<pc, queue, received, job, channel, logVars, failed>>
    BY <1>10 DEF vars, pushVars, socketVars, breaks
  <2> QED BY <1>4, <2>1, SocketOrder DEF Registered
<1> QED BY <1>2, <1>5, <1>6, <1>7, <1>8, <1>9, <1>10 DEF Next, HandlerStep

(* As long as the partition stays where it is, no replica dies and no      *)
(* publication is lost, a connection at any replica misses no message      *)
(* between two that it gets, whatever handlers throw, whenever offsets are *)
(* committed; only what a thrown handler starts again with comes twice or  *)
(* out of order.                                                           *)
THEOREM NothingSkipped == Spec => []ReceivedInOrder
<1>1. PushInv /\ OrderInv => ReceivedInOrder
  <2> SUFFICES ASSUME PushInv, SteadyInv, NEW c \in Connection,
                      NEW i \in DOMAIN queue[c], (<<received[c]>> \o queue[c])[i] # 0
               PROVE  LET a == (<<received[c]>> \o queue[c])[i]
                          b == (<<received[c]>> \o queue[c])[i + 1]
                      IN  IF a < b THEN \A k \in a + 1 .. b - 1 : ~Due(c, k) ELSE failed
    BY DEF OrderInv, ReceivedInOrder
  <2> DEFINE events == <<received[c]>> \o queue[c]
  <2>1. queue[c] \in Seq(DOMAIN Log)
    BY QueueType
  <2>2. /\ Len(queue[c]) \in Nat /\ DOMAIN queue[c] = 1..Len(queue[c])
        /\ events[1] = received[c]
        /\ \A k \in 2..(Len(queue[c]) + 1) : events[k] = queue[c][k - 1]
    BY <2>1
  <2>3. /\ i \in 1..Len(queue[c]) /\ i + 1 \in 2..(Len(queue[c]) + 1) /\ (i + 1) - 1 = i
        /\ i = 1 \/ i \in 2..(Len(queue[c]) + 1)
    BY <2>2
  <2> HIDE DEF events
  <2>4. events[i] = Got(c, i) /\ events[i + 1] = queue[c][i]
    BY <2>2, <2>3 DEF Got
  <2>5. Reaches(Got(c, i), queue[c][i] - 1, Wanted(c), failed)
    BY <2>4 DEF events, SteadyInv, Ordered, Gapless
  <2>6. Got(c, i) \in Nat /\ queue[c][i] \in DOMAIN Log /\ DOMAIN Log \subseteq Nat
    BY <2>3, QueueType, LogType
  <2>7. Got(c, i) < queue[c][i]
          => \A k \in (Got(c, i) + 1)..(queue[c][i] - 1) : k \in DOMAIN Log /\ ~Due(c, k)
    BY <2>5, <2>6, LogType DEF Reaches, Wanted
  <2>8. ~(Got(c, i) < queue[c][i]) => failed
    BY <2>5, <2>6 DEF Reaches
  <2> QED BY <2>4, <2>7, <2>8 DEF events
<1> QED BY <1>1, PushInvariant, InitOrderInv, NextOrderInv, PTL DEF Spec
=============================================================================
