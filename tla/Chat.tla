-------------------------------- MODULE Chat --------------------------------
(***************************************************************************)
(* chat-service: the dialog of a teacher and a student on its shard.       *)
(*                                                                         *)
(* A message is known by its created_at, the moment its transaction began, *)
(* and appears when the transaction commits.  A statement sees what was    *)
(* committed when it began; a row it conflicts with, it sees as it is when *)
(* its turn on that row comes.                                             *)
(***************************************************************************)
EXTENDS Integers, Sequences, SequencesExt, FiniteSets, FiniteSetsExt

CONSTANTS
  User,        \* the two participants
  Call,        \* requests in flight at one time, readers that page included
  PageSize,    \* messages of a page
  MaxMessages  \* bound on the messages of the dialog

ASSUME UserAssumption == IsFiniteSet(User) /\ Cardinality(User) = 2
ASSUME BoundAssumption == MaxMessages \in Nat /\ PageSize \in Nat \ {0}

VARIABLES
  dialog,         \* is there a row of the dialog?
  messages,       \* committed messages, a set of [at, by]
  lastMessageAt,  \* dialogs.last_message_at
  marker,         \* read_markers: per user the message read last, 0 without a row
  clock,          \* transactions that send a message begun so far
  call,           \* what each request in flight is doing
  outbox,         \* outbox_events, in the order of commits
  failed,         \* requests answered with an internal error
  late,           \* history: has a message appeared before an older one?
  firstRaced,     \* history: has a user marked twice at once without a marker?
  shown           \* history: per user, the messages visible to the last move

history == <<late, firstRaced, shown>>
vars == <<dialog, messages, lastMessageAt, marker, clock, call, outbox, failed, history>>

-----------------------------------------------------------------------------

Moment == 1..MaxMessages
Idle == [op |-> "idle"]
Create == [op: {"create"}, seen: BOOLEAN] \cup [op: {"find"}]
Send == [op: {"send"}, by: User, at: Moment]
Read == [op: {"read"}, by: User, to: Moment, seen: 0..MaxMessages, visible: SUBSET Moment]
(* A reader pages back: before is its cursor, 0 before the first page, got *)
(* what it has been given and there what was there when it began.          *)
Page == [op: {"page"}, before: 0..MaxMessages, got: SUBSET Moment, there: SUBSET Moment]
Event == [type: {"message.sent", "message.read"}, by: User, at: Moment]

Times == {m.at : m \in messages}

TypeOK ==
  /\ dialog \in BOOLEAN
  /\ messages \subseteq [at: Moment, by: User]
  /\ lastMessageAt \in Times \cup {0}
  /\ \A u \in User : marker[u] \in Times \cup {0}
  /\ clock \in 0..MaxMessages
  /\ call \in [Call -> Create \cup Send \cup Read \cup Page \cup {Idle}]
  /\ outbox \in Seq(Event)
  /\ failed \subseteq {"create", "read"}
  /\ shown \in [User -> SUBSET Moment]

Init ==
  /\ dialog = FALSE
  /\ messages = {}
  /\ lastMessageAt = 0
  /\ marker = [u \in User |-> 0]
  /\ clock = 0
  /\ call = [c \in Call |-> Idle]
  /\ outbox = <<>>
  /\ failed = {}
  /\ late = FALSE
  /\ firstRaced = FALSE
  /\ shown = [u \in User |-> {}]

Begin(c, request) ==
  /\ call[c] = Idle
  /\ call' = [call EXCEPT ![c] = request]

End(c) == call' = [call EXCEPT ![c] = Idle]

Emit(type, u, at) == outbox' = Append(outbox, [type |-> type, by |-> u, at |-> at])

-----------------------------------------------------------------------------
(* CreateDialog.  Of two inserts of one dialog the second does nothing; if *)
(* its snapshot has no dialog either, a second statement looks again.      *)

BeginCreate(c) ==
  /\ Begin(c, [op |-> "create", seen |-> dialog])
  /\ UNCHANGED <<dialog, messages, lastMessageAt, marker, clock, outbox, failed, history>>

InsertDialog(c) ==
  /\ call[c].op = "create"
  /\ dialog' = TRUE
  /\ call' = [call EXCEPT ![c] =
                IF dialog /\ ~call[c].seen THEN [op |-> "find"] ELSE Idle]
  /\ UNCHANGED <<messages, lastMessageAt, marker, clock, outbox, failed, history>>

FindDialog(c) ==
  /\ call[c].op = "find"
  /\ failed' = IF dialog THEN failed ELSE failed \cup {"create"}
  /\ End(c)
  /\ UNCHANGED <<dialog, messages, lastMessageAt, marker, clock, outbox, history>>

-----------------------------------------------------------------------------
(* SendMessage: one transaction.                                           *)

BeginSend(c, u) ==
  /\ dialog
  /\ clock < MaxMessages
  /\ clock' = clock + 1
  /\ Begin(c, [op |-> "send", by |-> u, at |-> clock'])
  /\ UNCHANGED <<dialog, messages, lastMessageAt, marker, outbox, failed, history>>

SendMessage(c) ==
  LET at == call[c].at
      u == call[c].by
  IN  /\ call[c].op = "send"
      /\ messages' = messages \cup {[at |-> at, by |-> u]}
      /\ lastMessageAt' = at
      /\ Emit("message.sent", u, at)
      /\ End(c)
      /\ late' = (late \/ \E time \in Times : at < time)
      /\ UNCHANGED <<dialog, marker, clock, failed, firstRaced, shown>>

-----------------------------------------------------------------------------
(* MarkRead.                                                               *)

Reading(u) == {c \in Call : call[c].op = "read" /\ call[c].by = u}

(* Definitions called ...Fault are seeded bugs.                            *)
TargetsFault == Moment \cap 1..clock  \* the message is not looked up
Targets == Times

BeginRead(c, u, to) ==
  /\ to \in Targets
  /\ Begin(c, [op |-> "read", by |-> u, to |-> to, seen |-> marker[u], visible |-> Times])
  /\ firstRaced' = (firstRaced \/ (marker[u] = 0 /\ Reading(u) # {}))
  /\ UNCHANGED <<dialog, messages, lastMessageAt, marker, clock, outbox, failed, late, shown>>

(* The upsert.  With a row there already it compares the times of the two  *)
(* messages; the one of the row may be too new for the statement to see,   *)
(* and then nothing moves.                                                 *)
MovesFault(current, to, visible) == TRUE
Moves(current, to, visible) == current = 0 \/ (current \in visible /\ current < to)

TargetFault(c) == Max(Times)  \* everything is marked, whatever was asked for
Target(c) == call[c].to

(* A request that moves nothing is answered with the marker it saw before. *)
AnswersFault(moved, seen) == moved
Answers(moved, seen) == moved \/ seen # 0

MarkRead(c) ==
  LET u == call[c].by
      moved == Moves(marker[u], call[c].to, call[c].visible)
  IN  /\ call[c].op = "read"
      /\ IF moved
           THEN /\ marker' = [marker EXCEPT ![u] = Target(c)]
                /\ shown' = [shown EXCEPT ![u] = call[c].visible]
                /\ Emit("message.read", u, Target(c))
           ELSE UNCHANGED <<marker, shown, outbox>>
      /\ failed' = IF Answers(moved, call[c].seen) THEN failed ELSE failed \cup {"read"}
      /\ End(c)
      /\ UNCHANGED <<dialog, messages, lastMessageAt, clock, late, firstRaced>>

-----------------------------------------------------------------------------
(* ListMessages, request after request: keyset paging from the newest      *)
(* message back, each page cut off at the moment of the cursor.            *)

BeginPaging(c) ==
  /\ dialog
  /\ Begin(c, [op |-> "page", before |-> 0, got |-> {}, there |-> Times])
  /\ UNCHANGED <<dialog, messages, lastMessageAt, marker, clock, outbox, failed, history>>

Older(before) == {time \in Times : before = 0 \/ time < before}

NewestFault(times) ==  \* ORDER BY created_at without DESC
  {time \in times : Cardinality({other \in times : other < time}) < PageSize}

(* ORDER BY created_at DESC LIMIT PageSize                                 *)
Newest(times) ==
  {time \in times : Cardinality({other \in times : other > time}) < PageSize}

ListMessages(c) ==
  LET page == Newest(Older(call[c].before))
  IN  /\ call[c].op = "page"
      /\ IF page = {}
           THEN End(c)
           ELSE call' = [call EXCEPT ![c].before = Min(page), ![c].got = @ \cup page]
      /\ UNCHANGED <<dialog, messages, lastMessageAt, marker, clock, outbox, failed, history>>

-----------------------------------------------------------------------------

Next ==
  \E c \in Call :
    \/ BeginCreate(c) \/ InsertDialog(c) \/ FindDialog(c)
    \/ SendMessage(c) \/ MarkRead(c)
    \/ BeginPaging(c) \/ ListMessages(c)
    \/ \E u \in User :
         \/ BeginSend(c, u)
         \/ \E to \in Moment : BeginRead(c, u, to)

Spec == Init /\ [][Next]_vars

-----------------------------------------------------------------------------
(* Properties.                                                             *)

ReadsBy(u) == {i \in DOMAIN outbox : outbox[i].type = "message.read" /\ outbox[i].by = u}

(* However the requests of a reader race, the message.read events of a     *)
(* reader tell of ever later messages, the last one of the marker: the     *)
(* marker only moves forward, and an event is emitted only if it does.     *)
ReadsForward ==
  \A u \in User :
    /\ \A i, j \in ReadsBy(u) : i < j => outbox[i].at < outbox[j].at
    /\ \A i \in ReadsBy(u) : outbox[i].at <= marker[u]
    /\ marker[u] # 0 => \E i \in ReadsBy(u) : outbox[i].at = marker[u]

(* Until a message appears before an older one, every message that counts  *)
(* as read was there when the reader asked to move the marker.             *)
NothingUnseenInTurn ==
  ~late => \A u \in User, m \in messages :
             m.by # u /\ m.at <= marker[u] => m.at \in shown[u]

(* A reader that pages back, whatever is sent meanwhile, has been given all *)
(* that was there when it began, down to its cursor, and everything if its *)
(* next page is empty.                                                     *)
NoneSkipped ==
  \A c \in Call :
    call[c].op = "page" =>
      \A time \in call[c].there :
        time \in call[c].got \/ (call[c].before # 0 => time < call[c].before)

(* No request ends in an internal error, until a user without a marker has *)
(* marked twice at once.                                                   *)
AnsweredInTurn == failed # {} => firstRaced
=============================================================================
