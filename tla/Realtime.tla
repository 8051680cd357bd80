------------------------------ MODULE Realtime ------------------------------
(***************************************************************************)
(* realtime-service: replicas that push events to WebSocket connections.   *)
(*                                                                         *)
(* One replica at a time owns the partition of a dialog.  It pushes an     *)
(* event to its own connections and publishes it in Redis, from where the  *)
(* other replicas push it to theirs.  The offset is committed some time    *)
(* after that, and a handler that throws starts again from there: nothing  *)
(* filters what is pushed again.                                           *)
(*                                                                         *)
(* A connection has a queue, a signal and a handler that drains the queue  *)
(* and waits for the signal.  Its lease in Redis makes its user present;   *)
(* the peers of the user are told when the first lease comes and the last  *)
(* one goes.  The unread badge and the caches in Redis are left out.       *)
(***************************************************************************)
EXTENDS Integers, Sequences, SequencesExt, FiniteSets

CONSTANTS
  Replica,
  FirstOwner, \* the replica that is given the partition first
  User, Connection,
  HomeOf,     \* the replica a connection is open at
  UserOf,     \* the user of a connection
  Log,        \* the messages of the partition, a sequence of [type, to]; an
              \* event that a publisher has sent twice is there twice
  MaxOpens,   \* bound on the connections opened
  MaxFaults,  \* bound on lapsed leases, failed calls, rebalances and kills
  None

Producer == Replica \X {"kafka", "redis"}

ASSUME HomeAssumption == HomeOf \in [Connection -> Replica] /\ UserOf \in [Connection -> User]
ASSUME OwnerAssumption == FirstOwner \in Replica
ASSUME LogAssumption ==
  Log \in Seq([type: {"message.sent", "message.read", "notification.created"}, to: User])
ASSUME NoneAssumption == None \notin Connection
ASSUME BoundAssumption == {MaxOpens, MaxFaults} \subseteq Nat

VARIABLES
  pc,        \* where the handler of each connection is
  queue,     \* OutboundQueue: events pushed and not popped, as indices of Log
  signal,    \* ... and its event
  received,  \* the last event sent to the client, 0 before the first
  lease,     \* rt:presence: the entry of each connection
  told,      \* what the peers of a user were told last: online?
  job,       \* the push each producer is at
  channel,   \* per replica, publications not yet delivered to it
  owner,     \* the replica that owns the partition
  position,  \* per replica, how far the owner has got in Log
  committed, \* the offset of the consumer group
  opens, faults,
  unsettled, \* history: have two handlers of a user changed presence at once, has
             \* one ended before it told the peers, or has a presence key expired?
  failed,    \* history: has the Kafka handler thrown?
  broken     \* history: has the partition moved, a replica died or a
             \* publication been lost?

socketVars == <<pc, queue, signal, received>>
presenceVars == <<lease, told>>
logVars == <<owner, position, committed>>
pushVars == <<job, channel, logVars>>
breaks == <<failed, broken>>
vars == <<socketVars, presenceVars, pushVars, opens, faults, unsettled, breaks>>

-----------------------------------------------------------------------------

Place == {"closed", "announcing", "top", "drained", "armed", "waiting", "parting"}
Idle == [index |-> 0, todo |-> {}, ring |-> None]

TypeOK ==
  /\ pc \in [Connection -> Place]
  /\ queue \in [Connection -> Seq(DOMAIN Log)]
  /\ signal \in [Connection -> BOOLEAN]
  /\ received \in [Connection -> 0..Len(Log)]
  /\ lease \in [Connection -> {"none", "live", "stale"}]
  /\ told \in [User -> BOOLEAN]
  /\ job \in [Producer ->
       [index: 0..Len(Log), todo: SUBSET Connection, ring: Connection \cup {None}]]
  /\ channel \in [Replica -> Seq([origin: Replica, index: DOMAIN Log])]
  /\ owner \in Replica
  /\ position \in [Replica -> 0..Len(Log)]
  /\ committed \in 0..Len(Log)
  /\ \A c \in Connection : pc[c] \in {"closed", "parting"} => queue[c] = <<>>

Init ==
  /\ pc = [c \in Connection |-> "closed"]
  /\ queue = [c \in Connection |-> <<>>]
  /\ signal = [c \in Connection |-> FALSE]
  /\ received = [c \in Connection |-> 0]
  /\ lease = [c \in Connection |-> "none"]
  /\ told = [u \in User |-> FALSE]
  /\ job = [p \in Producer |-> Idle]
  /\ channel = [r \in Replica |-> <<>>]
  /\ owner = FirstOwner
  /\ position = [r \in Replica |-> 0]
  /\ committed = 0
  /\ opens = 0
  /\ faults = 0
  /\ unsettled = FALSE
  /\ failed = FALSE
  /\ broken = FALSE

Fault == faults < MaxFaults /\ faults' = faults + 1

-----------------------------------------------------------------------------
(* Presence: two scripts on the leases of a user, each atomic in Redis.    *)

Peers(c) == {d \in Connection : UserOf[d] = UserOf[c]}
Entries(c) == {d \in Peers(c) : lease[d] # "none"}
Live(c) == {d \in Peers(c) : lease[d] = "live"}

Leases(c, live) == [d \in Connection |->
  IF d \notin Peers(c) THEN lease[d] ELSE IF d \in live THEN "live" ELSE "none"]

RefreshPresence(c, next) ==
  /\ lease' = Leases(c, Live(c) \cup {c})
  /\ pc' = [pc EXCEPT ![c] = IF Live(c) = {} THEN "announcing" ELSE next]

ClearPresenceFault(c) ==  \* whoever leaves says offline
  /\ lease' = Leases(c, Live(c) \ {c})
  /\ pc' = [pc EXCEPT ![c] = IF Entries(c) # {} THEN "parting" ELSE "closed"]

ClearPresence(c) ==
  /\ lease' = Leases(c, Live(c) \ {c})
  /\ pc' = [pc EXCEPT ![c] =
       IF Entries(c) # {} /\ Live(c) \subseteq {c} THEN "parting" ELSE "closed"]

(* The client does not ping; the entry stays until a script or the expiry  *)
(* of the key, two leases after the last refresh, removes it.              *)
Lapse(c) ==
  /\ Fault
  /\ lease[c] = "live"
  /\ lease' = [lease EXCEPT ![c] = "stale"]
  /\ UNCHANGED <<socketVars, told, pushVars, opens, unsettled, breaks>>

ExpireKey(u) ==
  /\ \E c \in Connection : UserOf[c] = u /\ lease[c] = "stale"
  /\ \A c \in Connection : UserOf[c] = u => lease[c] # "live"
  /\ lease' = [c \in Connection |-> IF UserOf[c] = u THEN "none" ELSE lease[c]]
  /\ unsettled' = TRUE
  /\ UNCHANGED <<socketVars, told, pushVars, opens, faults, breaks>>

-----------------------------------------------------------------------------
(* The handler of a connection.                                            *)

Registered(c) == pc[c] \notin {"closed", "parting"}

Goto(c, place) == pc' = [pc EXCEPT ![c] = place]

(* A handler between its script and the message to the peers.              *)
Changing(u) == {c \in Connection : UserOf[c] = u /\ pc[c] \in {"announcing", "parting"}}
Race(c) == unsettled' = (unsettled \/ Changing(UserOf[c]) \ {c} # {})

(* Registration and the first script.                                      *)
Open(c) ==
  /\ opens < MaxOpens
  /\ opens' = opens + 1
  /\ pc[c] = "closed"
  /\ RefreshPresence(c, "top")
  /\ Race(c)
  /\ UNCHANGED <<queue, signal, received, told, pushVars, faults, breaks>>

(* PublishPresence; its messages take the way of all others, of which only *)
(* the last one is kept here.                                              *)
Announce(c) ==
  /\ pc[c] = "announcing"
  /\ told' = [told EXCEPT ![UserOf[c]] = TRUE]
  /\ Goto(c, "top")
  /\ UNCHANGED <<queue, signal, received, lease, pushVars, opens, faults, unsettled, breaks>>

Popped(c) ==
  /\ received' = [received EXCEPT ![c] = IF queue[c] = <<>> THEN @ ELSE Last(queue[c])]
  /\ queue' = [queue EXCEPT ![c] = <<>>]

DrainOutbound(c) ==
  /\ pc[c] = "top"
  /\ Popped(c)
  /\ Goto(c, "drained")
  /\ UNCHANGED <<signal, presenceVars, pushVars, opens, faults, unsettled, breaks>>

(* A ping of the client; it changes something only if the lease is gone.   *)
ClientPing(c) ==
  /\ pc[c] = "drained"
  /\ lease[c] # "live"
  /\ RefreshPresence(c, "drained")
  /\ Race(c)
  /\ UNCHANGED <<queue, signal, received, told, pushVars, opens, faults, breaks>>

ResetSignal(c) ==
  /\ pc[c] = "drained"
  /\ signal' = [signal EXCEPT ![c] = FALSE]
  /\ Goto(c, "armed")
  /\ UNCHANGED <<queue, received, presenceVars, pushVars, opens, faults, unsettled, breaks>>

DrainAgainFault(c) ==  \* it waits without looking again
  /\ pc[c] = "armed"
  /\ Goto(c, "waiting")
  /\ UNCHANGED <<queue, signal, received, presenceVars, pushVars, opens, faults, unsettled, breaks>>

DrainAgain(c) ==
  /\ pc[c] = "armed"
  /\ Popped(c)
  /\ Goto(c, IF queue[c] = <<>> THEN "waiting" ELSE "top")
  /\ UNCHANGED <<signal, presenceVars, pushVars, opens, faults, unsettled, breaks>>

(* The signal, data from the client, or the deadline of the heartbeat.     *)
WaitAny(c) ==
  /\ pc[c] = "waiting"
  /\ Goto(c, "top")
  /\ UNCHANGED <<queue, signal, received, presenceVars, pushVars, opens, faults, unsettled, breaks>>

(* The registry drops connections with what is still queued for them; a    *)
(* push that has them in its list no longer has an effect.                 *)
Drop(cs) ==
  /\ queue' = [c \in Connection |-> IF c \in cs THEN <<>> ELSE queue[c]]
  /\ signal' = [c \in Connection |-> signal[c] /\ c \notin cs]
  /\ received' = [c \in Connection |-> IF c \in cs THEN 0 ELSE received[c]]

WithoutFault(cs, push) == push  \* a closed queue is not refused

Without(cs, push) ==
  [index |-> push.index, todo |-> push.todo \ cs,
   ring |-> IF push.ring \in cs THEN None ELSE push.ring]

Unregister(c) ==
  /\ Drop({c})
  /\ job' = [p \in Producer |-> Without({c}, job[p])]

(* A close frame, unanswered pings, or a failed send, also one to the      *)
(* peers: removal from the registry, and the script.                       *)
Disconnect(c) ==
  /\ pc[c] \in {"announcing", "top", "drained", "armed"}
  /\ Unregister(c)
  /\ ClearPresence(c)
  /\ Race(c)
  /\ UNCHANGED <<told, channel, logVars, opens, faults, breaks>>

(* The script of the cleanup fails, which is logged: the lease stays.      *)
CleanupFails(c) ==
  /\ Fault
  /\ pc[c] \in {"announcing", "top", "drained", "armed"}
  /\ Unregister(c)
  /\ Goto(c, "closed")
  /\ unsettled' = (unsettled \/ pc[c] = "announcing")
  /\ UNCHANGED <<presenceVars, channel, logVars, opens, breaks>>

AnnounceOffline(c) ==
  /\ pc[c] = "parting"
  /\ told' = [told EXCEPT ![UserOf[c]] = FALSE]
  /\ Goto(c, "closed")
  /\ UNCHANGED <<queue, signal, received, lease, pushVars, opens, faults, unsettled, breaks>>

(* ... or the message after it, and the peers are not told.                *)
TellFails(c) ==
  /\ Fault
  /\ pc[c] = "parting"
  /\ Goto(c, "closed")
  /\ unsettled' = TRUE
  /\ UNCHANGED <<queue, signal, received, presenceVars, pushVars, opens, breaks>>

-----------------------------------------------------------------------------
(* Pushing an event: the Kafka handler of the owner, then the subscription *)
(* of every other replica.                                                 *)

Connected(r, u) == {c \in Connection : HomeOf[c] = r /\ UserOf[c] = u /\ Registered(c)}

SendToUser(p, i) ==
  job' = [job EXCEPT ![p] =
    [index |-> i, todo |-> Connected(p[1], Log[i].to), ring |-> None]]

Working(p) == job[p].todo # {} \/ job[p].ring # None

Following(r) == position[r] + 1
Takes(r) == owner = r /\ job[<<r, "kafka">>] = Idle /\ Following(r) \in DOMAIN Log
Handled(r, i) == position' = [position EXCEPT ![r] = i]

(* The badge and the caches, then the push.  A read is pushed to the peer  *)
(* only if the participants are still cached.                              *)
OnEvent(r) ==
  /\ Takes(r)
  /\ \/ SendToUser(<<r, "kafka">>, Following(r)) /\ UNCHANGED position
     \/ Log[Following(r)].type = "message.read" /\ Handled(r, Following(r)) /\ UNCHANGED job
  /\ UNCHANGED <<socketVars, presenceVars, channel, owner, committed, opens, faults,
                 unsettled, breaks>>

(* A call to Redis before the push fails, and OnEvent throws: the same     *)
(* replica reads again from the committed offset.                          *)
HandlerFails(r) ==
  /\ Fault
  /\ Takes(r)
  /\ Log[Following(r)].type # "notification.created"
  /\ position' = [position EXCEPT ![r] = committed]
  /\ failed' = TRUE
  /\ UNCHANGED <<socketVars, presenceVars, job, channel, owner, committed, opens,
                 unsettled, broken>>

CommitFault(r) ==  \* before the handler has run
  /\ owner = r
  /\ committed <= position[r] /\ position[r] < Len(Log)
  /\ committed' = position[r] + 1
  /\ UNCHANGED <<socketVars, presenceVars, job, channel, owner, position, opens, faults,
                 unsettled, breaks>>

(* AsyncCommit after a batch of one: it may come late or not at all.       *)
Commit(r) ==
  /\ owner = r
  /\ committed' \in committed + 1 .. position[r]
  /\ UNCHANGED <<socketVars, presenceVars, job, channel, owner, position, opens, faults,
                 unsettled, breaks>>

(* Push: into the queue, then the signal.                                  *)
Enqueue(p) ==
  /\ job[p].ring = None
  /\ \E c \in job[p].todo :
       /\ job' = [job EXCEPT ![p] = [index |-> @.index, todo |-> @.todo \ {c}, ring |-> c]]
       /\ queue' = [queue EXCEPT ![c] = Append(@, job[p].index)]
  /\ UNCHANGED <<pc, signal, received, presenceVars, channel, logVars, opens, faults, unsettled, breaks>>

Signal(p) ==
  /\ job[p].ring # None
  /\ signal' = [signal EXCEPT ![job[p].ring] = TRUE]
  /\ job' = [job EXCEPT ![p].ring = None]
  /\ UNCHANGED <<pc, queue, received, presenceVars, channel, logVars, opens, faults, unsettled, breaks>>

PublishToUser(r) ==
  LET p == <<r, "kafka">>
      i == job[p].index
  IN  /\ job[p] # Idle /\ ~Working(p)
      /\ channel' = [q \in Replica |-> Append(channel[q], [origin |-> r, index |-> i])]
      /\ job' = [job EXCEPT ![p] = Idle]
      /\ Handled(r, i)
      /\ UNCHANGED <<socketVars, presenceVars, owner, committed, opens, faults, unsettled, breaks>>

Foreign(r, message) == message.origin # r

OnPubSubMessage(r) ==
  LET p == <<r, "redis">>
      message == Head(channel[r])
  IN  /\ ~Working(p)
      /\ channel[r] # <<>>
      /\ channel' = [channel EXCEPT ![r] = Tail(@)]
      /\ IF Foreign(r, message) THEN SendToUser(p, message.index) ELSE UNCHANGED job
      /\ UNCHANGED <<socketVars, presenceVars, logVars, opens, faults, unsettled, breaks>>

-----------------------------------------------------------------------------
(* The group gives the partition to another replica; a replica dies.       *)

Break ==
  /\ Fault
  /\ broken' = TRUE
  /\ UNCHANGED <<opens, failed>>

(* The member that is given the partition starts at the committed offset;  *)
(* one that loses it finishes the message it is at.                        *)
Rebalance(r) ==
  /\ Break
  /\ owner # r
  /\ job[<<r, "kafka">>] = Idle
  /\ owner' = r
  /\ position' = [position EXCEPT ![r] = committed]
  /\ UNCHANGED <<socketVars, presenceVars, job, channel, committed, unsettled>>

Kill(r) ==
  /\ Break
  /\ pc' = [c \in Connection |-> IF HomeOf[c] = r THEN "closed" ELSE pc[c]]
  /\ Drop({c \in Connection : HomeOf[c] = r})
  /\ job' = [p \in Producer |-> IF p[1] = r THEN Idle ELSE job[p]]
  /\ channel' = [channel EXCEPT ![r] = <<>>]
  /\ owner' \in {q \in Replica : q \in {r, owner} \/ job[<<q, "kafka">>] = Idle}
  /\ position' = [q \in Replica |->
       IF q = r \/ (q = owner' /\ q # owner) THEN committed ELSE position[q]]
  /\ unsettled' = (unsettled \/ \E c \in Connection :
                     HomeOf[c] = r /\ pc[c] \in {"announcing", "parting"})
  /\ UNCHANGED <<presenceVars, committed>>

(* The subscription of a replica is interrupted; what was on its way to it *)
(* is lost.                                                                *)
Resubscribe(r) ==
  /\ Break
  /\ channel[r] # <<>>
  /\ channel' = [channel EXCEPT ![r] = <<>>]
  /\ UNCHANGED <<socketVars, presenceVars, job, logVars, unsettled>>

-----------------------------------------------------------------------------

HandlerStep(c) ==
  \/ Announce(c) \/ DrainOutbound(c) \/ ResetSignal(c) \/ DrainAgain(c)
  \/ WaitAny(c) \/ AnnounceOffline(c)

PushStep(r) ==
  \/ OnEvent(r) \/ HandlerFails(r) \/ Commit(r) \/ PublishToUser(r) \/ OnPubSubMessage(r)
  \/ \E p \in {r} \X {"kafka", "redis"} : Enqueue(p) \/ Signal(p)

Next ==
  \/ \E c \in Connection :
       \/ HandlerStep(c) \/ Open(c) \/ ClientPing(c) \/ Disconnect(c)
       \/ CleanupFails(c) \/ TellFails(c) \/ Lapse(c)
  \/ \E u \in User : ExpireKey(u)
  \/ \E r \in Replica : PushStep(r) \/ Rebalance(r) \/ Kill(r) \/ Resubscribe(r)

Spec == Init /\ [][Next]_vars

-----------------------------------------------------------------------------
(* Properties.                                                             *)

(* No handler waits, with an event in its queue, for a signal that nobody  *)
(* has sent or is about to send.                                           *)
NoLostWakeup ==
  \A c \in Connection :
    pc[c] = "waiting" /\ queue[c] # <<>> =>
      signal[c] \/ \E p \in Producer : job[p].ring = c

(* Until two connections of a user have changed its presence at once, one  *)
(* has ended without telling, or the leases have expired unnoticed, the    *)
(* peers know whether the user is online.                                  *)
PresenceInTurn ==
  \A u \in User :
    Changing(u) = {} /\ ~unsettled =>
      (told[u] <=> \E c \in Connection : UserOf[c] = u /\ lease[c] # "none")

(* Message i is one the client of c should get; a read marker may be left  *)
(* out.                                                                    *)
Due(c, i) == Log[i].to = UserOf[c] /\ Log[i].type # "message.read"

(* Until the partition moves, a replica dies or a publication is lost, a   *)
(* connection misses no message of the partition between two that it gets, *)
(* whatever handlers throw and however late offsets are committed; and     *)
(* only after a handler has thrown does it get a message again or one      *)
(* before it.                                                              *)
ReceivedInOrder ==
  ~broken => \A c \in Connection :
    LET events == <<received[c]>> \o queue[c]
    IN  \A i \in DOMAIN queue[c] :
          LET a == events[i]
              b == events[i + 1]
          IN  a # 0 => IF a < b THEN \A k \in a + 1 .. b - 1 : ~Due(c, k) ELSE failed
=============================================================================
