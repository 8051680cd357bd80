----------------------------- MODULE ChatProofs -----------------------------
(* Theorems about module Chat, for any number of requests in flight and of *)
(* messages.                                                               *)
EXTENDS Chat, FiniteSetTheorems, WellFoundedInduction, TLAPS

TypeInv ==
  /\ dialog \in BOOLEAN
  /\ messages \subseteq [at: Moment, by: User]
  /\ marker \in [User -> Nat]
  /\ call \in [Call -> Create \cup Send \cup Read \cup Page \cup {Idle}]
  /\ shown \in [User -> SUBSET Moment]

(* The marker is at a message that is there, and a request to move it asks *)
(* for one: what appears later in order appears beyond both.               *)
MarkersThere ==
  /\ \A u \in User : marker[u] \in Times \cup {0}
  /\ \A c \in Call : call[c].op = "read" => call[c].to \in Times

(* In order, a request to move the marker saw all it is going to mark.     *)
SawAll(c) ==
  call[c].op = "read" =>
    \A m \in messages : m.at <= call[c].to => m.at \in call[c].visible

(* No two messages have one moment, sent or about to be.                   *)
FreshMoments ==
  /\ clock \in Nat
  /\ \A time \in Times : time <= clock
  /\ \A c \in Call : call[c].op = "send" =>
       /\ call[c].at <= clock
       /\ call[c].at \notin Times
       /\ \A d \in Call \ {c} : call[d].op = "send" => call[d].at # call[c].at

SeenInv ==
  /\ TypeInv
  /\ FreshMoments
  /\ MarkersThere
  /\ ~late => \A c \in Call : SawAll(c)
  /\ NothingUnseenInTurn

(* A request whose reader had no marker is the only one of its reader,     *)
(* which still has none; who looks for a dialog again will find it.        *)
Alone(c) ==
  call[c].op = "read" /\ call[c].seen = 0 =>
    /\ marker[call[c].by] = 0
    /\ Reading(call[c].by) = {c}

AnswerInv ==
  /\ \A c \in Call : call[c].op = "find" => dialog
  /\ ~firstRaced => \A c \in Call : Alone(c)
  /\ AnsweredInTurn

(* The messages a reader has been promised are there.                      *)
PageInv ==
  /\ \A c \in Call : call[c].op = "page" => call[c].there \subseteq Times
  /\ NoneSkipped

EventInv ==
  /\ outbox \in Seq(Event)
  /\ ReadsForward

-----------------------------------------------------------------------------

LEMMA MomentIsNat == Moment \subseteq Nat \ {0}
BY BoundAssumption DEF Moment

(* The comparisons of moments and markers, for steps without arithmetic.   *)
LEMMA Beyond == \A x, y \in Nat : x < y => ~(y <= x)
OBVIOUS

LEMMA InitSeenInv == Init => SeenInv
<1> SUFFICES ASSUME Init PROVE SeenInv
  OBVIOUS
<1>1. TypeInv
  BY DEF Init, TypeInv
<1>2. MarkersThere /\ FreshMoments /\ NothingUnseenInTurn /\ \A c \in Call : SawAll(c)
  BY DEF Init, MarkersThere, FreshMoments, Times, NothingUnseenInTurn, SawAll, Idle
<1> QED BY <1>1, <1>2 DEF SeenInv

(* A step that replaces a request by one that neither reads nor sends.     *)
LEMMA QuietSeen ==
  ASSUME SeenInv, NEW c \in Call, NEW next \in Create \cup Page \cup {Idle},
         call' = [call EXCEPT ![c] = next], dialog' \in BOOLEAN,
         UNCHANGED <<messages, marker, clock, shown, late>>
  PROVE  SeenInv'
<1>1. next.op \notin {"read", "send"}
  BY DEF Create, Page, Idle
<1>2. call'[c] = next /\ \A d \in Call \ {c} : call'[d] = call[d]
  BY DEF SeenInv, TypeInv
<1>3. TypeInv'
  BY DEF SeenInv, TypeInv
<1>4. Times' = Times
  BY DEF Times
<1>5. MarkersThere' /\ FreshMoments'
  BY <1>1, <1>2, <1>4 DEF SeenInv, MarkersThere, FreshMoments
<1>6. ~late' => \A d \in Call : SawAll(d)'
  BY <1>1, <1>2 DEF SeenInv, SawAll
<1>7. NothingUnseenInTurn'
  BY DEF SeenInv, NothingUnseenInTurn
<1> QED BY <1>3, <1>5, <1>6, <1>7 DEF SeenInv

LEMMA BeginSendSeen ==
  ASSUME SeenInv, NEW c \in Call, NEW u \in User, BeginSend(c, u)
  PROVE  SeenInv'
<1> DEFINE next == [op |-> "send", by |-> u, at |-> clock + 1]
<1>1. /\ call[c] = Idle /\ call' = [call EXCEPT ![c] = next]
      /\ clock' = clock + 1 /\ clock < MaxMessages
      /\ UNCHANGED <<dialog, messages, marker, shown, late>>
  BY DEF BeginSend, Begin, history
<1>2. clock \in Nat /\ next \in Send
  BY <1>1, BoundAssumption DEF SeenInv, FreshMoments, Send, Moment
<1>3. next.op = "send" /\ next.at = clock + 1
  OBVIOUS
<1> HIDE DEF next
<1>4. call'[c] = next /\ \A d \in Call \ {c} : call'[d] = call[d]
  BY <1>1 DEF SeenInv, TypeInv
<1>5. TypeInv'
  BY <1>1, <1>2 DEF SeenInv, TypeInv
<1>6. Times' = Times /\ Times \subseteq Nat
  BY <1>1, MomentIsNat DEF Times, SeenInv, TypeInv
<1>7. MarkersThere'
  BY <1>1, <1>3, <1>4, <1>6 DEF SeenInv, MarkersThere
<1>8. \A d \in Call : call[d].op = "send" => call[d].at \in Nat
  <2>1. \A request \in Create \cup Read \cup Page \cup {Idle} : request.op # "send"
    BY DEF Create, Read, Page, Idle
  <2> QED BY <2>1, MomentIsNat DEF SeenInv, TypeInv, Send
<1>9. FreshMoments'
  BY <1>1, <1>2, <1>3, <1>4, <1>6, <1>8 DEF SeenInv, FreshMoments
<1>10. ~late' => \A d \in Call : SawAll(d)'
  BY <1>1, <1>3, <1>4 DEF SeenInv, SawAll
<1>11. NothingUnseenInTurn'
  BY <1>1 DEF SeenInv, NothingUnseenInTurn
<1> QED BY <1>5, <1>7, <1>9, <1>10, <1>11 DEF SeenInv

LEMMA SendMessageSeen ==
  ASSUME SeenInv, NEW c \in Call, SendMessage(c)
  PROVE  SeenInv'
<1>1. call[c] \in Send
  <2>1. \A request \in Create \cup Read \cup Page \cup {Idle} : request.op # "send"
    BY DEF Create, Read, Page, Idle
  <2> QED BY <2>1 DEF SendMessage, SeenInv, TypeInv
<1>2. PICK new \in [at: Moment, by: User] : new = [at |-> call[c].at, by |-> call[c].by]
  BY <1>1 DEF Send
<1>3. /\ messages' = messages \cup {new}
      /\ call' = [call EXCEPT ![c] = Idle]
      /\ late' = (late \/ \E time \in Times : new.at < time)
      /\ UNCHANGED <<dialog, marker, clock, shown>>
  BY <1>2 DEF SendMessage, End
<1>4. call'[c] = Idle /\ Idle.op = "idle" /\ \A d \in Call \ {c} : call'[d] = call[d]
  BY <1>3 DEF SeenInv, TypeInv, Idle
<1>5. new.at = call[c].at /\ call[c].op = "send"
  BY <1>2 DEF SendMessage
<1>6. TypeInv'
  BY <1>3 DEF SeenInv, TypeInv
<1>7. Times' = Times \cup {new.at}
  <2>1. {m.at : m \in messages \cup {new}} = {m.at : m \in messages} \cup {new.at}
    OBVIOUS
  <2> QED BY <1>3, <2>1 DEF Times
<1>8. MarkersThere'
  BY <1>3, <1>4, <1>7 DEF SeenInv, MarkersThere
<1>9. FreshMoments'
  BY <1>3, <1>4, <1>5, <1>7 DEF SeenInv, FreshMoments
<1>10. Times \subseteq Nat /\ new.at \in Nat
  BY MomentIsNat DEF Times, SeenInv, TypeInv
<1>11. ASSUME ~late' PROVE ~late /\ \A time \in Times : time < new.at
  <2>1. ~late /\ ~ \E time \in Times : new.at < time
    BY <1>3, <1>11, Zenon
  <2>2. new.at \notin Times
    BY <1>5 DEF SeenInv, FreshMoments
  <2> QED BY <1>10, <2>1, <2>2
<1>12. ASSUME ~late', NEW d \in Call PROVE SawAll(d)'
  <2>1. CASE call'[d].op = "read"
    <3>1. call'[d] = call[d] /\ call[d].to \in Times /\ SawAll(d)
      BY <1>4, <1>11, <1>12, <2>1 DEF SeenInv, MarkersThere
    <3>2. call[d].to < new.at
      BY <1>11, <1>12, <3>1
    <3>3. ~(new.at <= call[d].to)
      BY <1>10, <3>1, <3>2, Beyond, Zenon
    <3> QED BY <1>3, <2>1, <3>1, <3>3 DEF SawAll
  <2>2. CASE call'[d].op # "read"
    BY <2>2 DEF SawAll
  <2> QED BY <2>1, <2>2
<1>13. ASSUME ~late', NEW u \in User PROVE ~(new.at <= marker[u])
  <2>1. marker[u] = 0 \/ marker[u] \in Times
    BY DEF SeenInv, MarkersThere
  <2>2. new.at # 0
    BY MomentIsNat
  <2>3. marker[u] \in Times => marker[u] < new.at
    BY <1>11, <1>13
  <2>4. marker[u] = 0 => ~(new.at <= marker[u])
    BY <1>10, <2>2
  <2>5. marker[u] \in Times => ~(new.at <= marker[u])
    BY <1>10, <2>3, Beyond, Zenon
  <2> QED BY <2>1, <2>4, <2>5
<1>14. NothingUnseenInTurn'
  BY <1>3, <1>11, <1>13 DEF SeenInv, NothingUnseenInTurn
<1> QED BY <1>6, <1>8, <1>9, <1>12, <1>14 DEF SeenInv

LEMMA BeginReadSeen ==
  ASSUME SeenInv, NEW c \in Call, NEW u \in User, NEW to \in Moment, BeginRead(c, u, to)
  PROVE  SeenInv'
<1> DEFINE next == [op |-> "read", by |-> u, to |-> to, seen |-> marker[u], visible |-> Times]
<1>1. /\ call[c] = Idle /\ call' = [call EXCEPT ![c] = next] /\ to \in Times
      /\ UNCHANGED <<dialog, messages, marker, clock, shown, late>>
  BY DEF BeginRead, Begin, Targets, history
<1>2. Times \subseteq Moment /\ marker[u] \in 0..MaxMessages
  BY MomentIsNat, BoundAssumption DEF Times, SeenInv, TypeInv, MarkersThere, Moment
<1>3. next \in Read
  BY <1>2 DEF Read
<1>4. next.op = "read" /\ next.to = to /\ next.visible = Times
  OBVIOUS
<1> HIDE DEF next
<1>5. call'[c] = next /\ \A d \in Call \ {c} : call'[d] = call[d]
  BY <1>1 DEF SeenInv, TypeInv
<1>6. TypeInv'
  BY <1>1, <1>3 DEF SeenInv, TypeInv
<1>7. Times' = Times
  BY <1>1 DEF Times
<1>8. MarkersThere'
  BY <1>1, <1>4, <1>5, <1>7 DEF SeenInv, MarkersThere
<1>9. FreshMoments'
  BY <1>1, <1>4, <1>5, <1>7 DEF SeenInv, FreshMoments
<1>10. ASSUME ~late', NEW d \in Call PROVE SawAll(d)'
  <2>1. CASE d = c
    BY <1>1, <1>4, <1>5, <2>1 DEF SawAll, Times
  <2>2. CASE d # c
    BY <1>1, <1>5, <1>10, <2>2 DEF SeenInv, SawAll
  <2> QED BY <2>1, <2>2
<1>11. NothingUnseenInTurn'
  BY <1>1 DEF SeenInv, NothingUnseenInTurn
<1> QED BY <1>6, <1>8, <1>9, <1>10, <1>11 DEF SeenInv

LEMMA ReadType ==
  ASSUME TypeInv, NEW c \in Call, call[c].op = "read"
  PROVE  call[c] \in Read
<1>1. \A request \in Create \cup Send \cup Page \cup {Idle} : request.op # "read"
  BY DEF Create, Send, Page, Idle
<1> QED BY <1>1 DEF TypeInv

LEMMA MarkReadSeen ==
  ASSUME SeenInv, NEW c \in Call, MarkRead(c)
  PROVE  SeenInv'
<1>1. PICK u \in User : u = call[c].by
  BY ReadType DEF MarkRead, SeenInv, Read
<1>2. call[c] \in Read /\ call[c].to \in Times /\ call[c].to \in Nat
  BY ReadType, MomentIsNat DEF MarkRead, SeenInv, Read, MarkersThere
<1>3. call' = [call EXCEPT ![c] = Idle] /\ UNCHANGED <<dialog, messages, clock, late>>
  BY DEF MarkRead, End
<1>4. CASE UNCHANGED <<marker, shown>>
  BY <1>3, <1>4, QuietSeen DEF SeenInv, TypeInv
<1>5. CASE /\ marker' = [marker EXCEPT ![u] = call[c].to]
           /\ shown' = [shown EXCEPT ![u] = call[c].visible]
  <2>1. call'[c] = Idle /\ Idle.op = "idle" /\ \A d \in Call \ {c} : call'[d] = call[d]
    BY <1>3 DEF SeenInv, TypeInv, Idle
  <2>2. TypeInv'
    BY <1>2, <1>3, <1>5 DEF SeenInv, TypeInv, Read
  <2>3. Times' = Times
    BY <1>3 DEF Times
  <2>4. MarkersThere'
    BY <1>2, <1>5, <2>1, <2>3 DEF SeenInv, TypeInv, MarkersThere
  <2>5. FreshMoments'
    BY <1>3, <2>1, <2>3 DEF SeenInv, FreshMoments
  <2>6. ~late' => \A d \in Call : SawAll(d)'
    BY <1>3, <2>1 DEF SeenInv, SawAll
  <2>7. ~late => SawAll(c) /\ call[c].op = "read"
    BY DEF SeenInv, MarkRead
  <2>8. NothingUnseenInTurn'
    BY <1>3, <1>5, <2>7 DEF SeenInv, TypeInv, NothingUnseenInTurn, SawAll
  <2> QED BY <2>2, <2>4, <2>5, <2>6, <2>8 DEF SeenInv
<1> QED BY <1>1, <1>4, <1>5 DEF MarkRead, Target

(* The oldest message of a page that is not empty.                         *)
LEMMA OldestOfPage ==
  ASSUME NEW page \in SUBSET Moment, page # {}
  PROVE  Min(page) \in page /\ \A time \in page : Min(page) <= time
<1>1. page \subseteq Nat
  BY MomentIsNat
<1>2. \E x \in page : \A y \in page : <<y, x>> \notin OpToRel(<, Nat)
  BY <1>1, NatLessThanWellFounded, WFMin, Zenon
<1>3. PICK x \in page : \A y \in page : <<y, x>> \notin OpToRel(<, Nat)
  BY <1>2
<1>4. ASSUME NEW y \in page PROVE x <= y
  <2>1. x \in Nat /\ y \in Nat
    BY <1>1
  <2>2. y < x => <<y, x>> \in OpToRel(<, Nat)
    BY <2>1 DEF OpToRel
  <2>3. ~(y < x)
    BY <1>3, <2>2, Zenon
  <2> QED BY <2>1, <2>3
<1> QED BY <1>4 DEF Min

LEMMA PageType ==
  ASSUME TypeInv, NEW c \in Call, call[c].op = "page"
  PROVE  call[c] \in Page
<1>1. \A request \in Create \cup Send \cup Read \cup {Idle} : request.op # "page"
  BY DEF Create, Send, Read, Idle
<1> QED BY <1>1 DEF TypeInv

LEMMA ListMessagesCall ==
  ASSUME TypeInv, NEW c \in Call, ListMessages(c)
  PROVE  \E next \in Page \cup {Idle} : call' = [call EXCEPT ![c] = next]
<1> DEFINE page == Newest(Older(call[c].before))
<1>1. call[c] \in Page /\ call[c].op = "page"
  BY PageType DEF ListMessages
<1>2. page \subseteq Moment
  BY DEF Newest, Older, Times, TypeInv
<1>3. CASE page = {}
  BY <1>3 DEF ListMessages, End
<1>4. CASE page # {}
  <2> DEFINE next == [call[c] EXCEPT !.before = Min(page), !.got = @ \cup page]
  <2>1. Min(page) \in 0..MaxMessages
    BY <1>2, <1>4, OldestOfPage, BoundAssumption DEF Moment
  <2>2. next \in Page
    BY <1>1, <1>2, <2>1 DEF Page
  <2>3. call' = [call EXCEPT ![c] = next]
    BY <1>1, <1>4 DEF ListMessages
  <2> QED BY <2>2, <2>3
<1> QED BY <1>3, <1>4

LEMMA NextSeenInv == SeenInv /\ [Next]_vars => SeenInv'
<1> SUFFICES ASSUME SeenInv, [Next]_vars PROVE SeenInv'
  OBVIOUS
<1>1. ASSUME NEW c \in Call, BeginCreate(c) PROVE SeenInv'
  <2>1. [op |-> "create", seen |-> dialog] \in Create
    BY DEF Create, SeenInv, TypeInv
  <2> QED BY <1>1, <2>1, QuietSeen DEF BeginCreate, Begin, history, SeenInv, TypeInv
<1>2. ASSUME NEW c \in Call, InsertDialog(c) PROVE SeenInv'
  <2>1. [op |-> "find"] \in Create
    BY DEF Create
  <2> QED BY <1>2, <2>1, QuietSeen DEF InsertDialog, history
<1>3. ASSUME NEW c \in Call, FindDialog(c) PROVE SeenInv'
  BY <1>3, QuietSeen DEF FindDialog, End, history, SeenInv, TypeInv
<1>4. CASE UNCHANGED vars
  <2>1. Times' = Times
    BY <1>4 DEF vars, Times
  <2>2. TypeInv' /\ MarkersThere' /\ FreshMoments' /\ NothingUnseenInTurn'
    BY <1>4, <2>1 DEF vars, history, SeenInv, TypeInv, MarkersThere, FreshMoments, NothingUnseenInTurn
  <2>3. ~late' => \A c \in Call : SawAll(c)'
    BY <1>4 DEF vars, history, SeenInv, SawAll
  <2> QED BY <2>2, <2>3 DEF SeenInv
<1>5. ASSUME NEW c \in Call, BeginPaging(c) PROVE SeenInv'
  <2> DEFINE next == [op |-> "page", before |-> 0, got |-> {}, there |-> Times]
  <2>1. next \in Page
    BY BoundAssumption DEF Page, Times, SeenInv, TypeInv
  <2> HIDE DEF next
  <2>2. /\ call' = [call EXCEPT ![c] = next] /\ dialog' \in BOOLEAN
        /\ UNCHANGED <<messages, marker, clock, shown, late>>
    BY <1>5 DEF BeginPaging, Begin, history, SeenInv, TypeInv, next
  <2> QED BY <2>1, <2>2, QuietSeen
<1>6. ASSUME NEW c \in Call, ListMessages(c) PROVE SeenInv'
  <2>1. PICK next \in Page \cup {Idle} : call' = [call EXCEPT ![c] = next]
    BY <1>6, ListMessagesCall DEF SeenInv
  <2>2. dialog' \in BOOLEAN /\ UNCHANGED <<messages, marker, clock, shown, late>>
    BY <1>6 DEF ListMessages, history, SeenInv, TypeInv
  <2> QED BY <2>1, <2>2, QuietSeen
<1> QED BY <1>1, <1>2, <1>3, <1>4, <1>5, <1>6, BeginSendSeen, SendMessageSeen,
           BeginReadSeen, MarkReadSeen DEF Next

(* As long as messages appear in the order of their moments, no message of *)
(* the other participant counts as read that was not there when the reader *)
(* asked for the move, whatever requests race.                             *)
THEOREM NothingUnseen == Spec => []NothingUnseenInTurn
<1>1. SeenInv => NothingUnseenInTurn
  BY DEF SeenInv
<1> QED BY <1>1, InitSeenInv, NextSeenInv, PTL DEF Spec

-----------------------------------------------------------------------------

(* A step that replaces a request by one that does not read, moves no      *)
(* marker and fails nobody.                                                *)
LEMMA QuietAnswer ==
  ASSUME SeenInv, AnswerInv, NEW c \in Call, NEW next,
         next.op # "read", next.op = "find" => dialog',
         call' = [call EXCEPT ![c] = next], dialog => dialog',
         UNCHANGED <<marker, firstRaced, failed>>
  PROVE  AnswerInv'
<1>1. call'[c] = next /\ \A d \in Call \ {c} : call'[d] = call[d]
  BY DEF SeenInv, TypeInv
<1>2. ASSUME ~firstRaced, NEW d \in Call PROVE Alone(d)'
  BY <1>1, <1>2 DEF AnswerInv, Alone, Reading
<1>3. \A d \in Call : call'[d].op = "find" => dialog'
  BY <1>1 DEF AnswerInv
<1> QED BY <1>2, <1>3 DEF AnswerInv, AnsweredInTurn

LEMMA BeginReadAnswer ==
  ASSUME SeenInv, AnswerInv, NEW c \in Call, NEW u \in User, NEW to \in Moment,
         BeginRead(c, u, to)
  PROVE  AnswerInv'
<1> DEFINE next == [op |-> "read", by |-> u, to |-> to, seen |-> marker[u], visible |-> Times]
<1>1. /\ call[c] = Idle /\ call' = [call EXCEPT ![c] = next]
      /\ firstRaced' = (firstRaced \/ (marker[u] = 0 /\ Reading(u) # {}))
      /\ UNCHANGED <<dialog, marker, failed>>
  BY DEF BeginRead, Begin
<1>2. next.op = "read" /\ next.by = u /\ next.seen = marker[u]
  OBVIOUS
<1> HIDE DEF next
<1>3. call'[c] = next /\ \A d \in Call \ {c} : call'[d] = call[d]
  BY <1>1 DEF SeenInv, TypeInv
<1>4. Idle.op # "read"
  BY DEF Idle
<1>5. ASSUME ~firstRaced' PROVE ~firstRaced /\ ~(marker[u] = 0 /\ Reading(u) # {})
  BY <1>1, <1>5, Zenon
<1>6. ASSUME ~firstRaced', NEW d \in Call PROVE Alone(d)'
  <2>1. CASE d = c
    <3>1. ASSUME marker[u] = 0 PROVE Reading(u)' = {c}
      BY <1>2, <1>3, <1>5, <1>6, <3>1 DEF Reading
    <3> QED BY <1>1, <1>2, <1>3, <2>1, <3>1 DEF Alone
  <2>2. CASE d # c
    <3>1. ASSUME call[d].op = "read", call[d].seen = 0 PROVE call[d].by # u
      BY <1>5, <1>6, <3>1 DEF AnswerInv, Alone
    <3> QED BY <1>1, <1>2, <1>3, <1>4, <1>5, <1>6, <2>2, <3>1 DEF AnswerInv, Alone, Reading
  <2> QED BY <2>1, <2>2
<1>7. \A d \in Call : call'[d].op = "find" => dialog'
  BY <1>1, <1>2, <1>3 DEF AnswerInv
<1>8. AnsweredInTurn'
  <2>1. firstRaced => firstRaced'
    BY <1>1, Zenon
  <2> QED BY <1>1, <2>1 DEF AnswerInv, AnsweredInTurn
<1> QED BY <1>6, <1>7, <1>8 DEF AnswerInv

LEMMA MarkReadAnswer ==
  ASSUME SeenInv, AnswerInv, NEW c \in Call, MarkRead(c)
  PROVE  AnswerInv'
<1>1. PICK u \in User : u = call[c].by
  BY ReadType DEF MarkRead, SeenInv, Read
<1>2. /\ call[c].op = "read" /\ call' = [call EXCEPT ![c] = Idle]
      /\ UNCHANGED <<dialog, firstRaced>>
      /\ marker' = marker \/ marker' = [marker EXCEPT ![u] = call[c].to]
  BY <1>1 DEF MarkRead, End, Target
<1>3. call'[c] = Idle /\ Idle.op = "idle" /\ \A d \in Call \ {c} : call'[d] = call[d]
  BY <1>2 DEF SeenInv, TypeInv, Idle
<1>4. c \in Reading(u)
  BY <1>1, <1>2 DEF Reading
<1>5. ASSUME ~firstRaced, NEW d \in Call PROVE Alone(d)'
  <2>1. CASE d = c
    BY <1>3, <2>1 DEF Alone
  <2>2. CASE d # c
    <3>1. ASSUME call[d].op = "read", call[d].seen = 0 PROVE call[d].by # u
      BY <1>4, <1>5, <2>2, <3>1 DEF AnswerInv, Alone
    <3>2. ASSUME NEW v \in User, v # u PROVE marker'[v] = marker[v]
      BY <1>2, <3>2 DEF SeenInv, TypeInv
    <3>3. call[d].op = "read" => call[d].by \in User
      BY ReadType DEF SeenInv, Read
    <3> QED BY <1>3, <1>5, <2>2, <3>1, <3>2, <3>3 DEF AnswerInv, Alone, Reading
  <2> QED BY <2>1, <2>2
<1>6. \A d \in Call : call'[d].op = "find" => dialog'
  BY <1>2, <1>3 DEF AnswerInv
<1>7. ASSUME ~firstRaced PROVE failed' = failed
  <2>1. CASE call[c].seen = 0
    <3>1. Moves(marker[u], call[c].to, call[c].visible)
      BY <1>1, <1>2, <1>7, <2>1 DEF AnswerInv, Alone, Moves
    <3> QED BY <1>1, <3>1 DEF MarkRead, Answers
  <2>2. CASE call[c].seen # 0
    BY <2>2 DEF MarkRead, Answers
  <2> QED BY <2>1, <2>2
<1> QED BY <1>2, <1>5, <1>6, <1>7 DEF AnswerInv, AnsweredInTurn

LEMMA NextAnswerInv == SeenInv /\ AnswerInv /\ [Next]_vars => AnswerInv'
<1> SUFFICES ASSUME SeenInv, AnswerInv, [Next]_vars PROVE AnswerInv'
  OBVIOUS
<1>0. Idle.op = "idle"
  BY DEF Idle
<1>1. ASSUME NEW c \in Call, BeginCreate(c) PROVE AnswerInv'
  BY <1>1, QuietAnswer DEF BeginCreate, Begin, history
<1>2. ASSUME NEW c \in Call, InsertDialog(c) PROVE AnswerInv'
  <2> DEFINE next == IF dialog /\ ~call[c].seen THEN [op |-> "find"] ELSE Idle
  <2>1. next.op # "read" /\ dialog'
    BY <1>0, <1>2 DEF InsertDialog
  <2> QED BY <1>2, <2>1, QuietAnswer DEF InsertDialog, history
<1>3. ASSUME NEW c \in Call, FindDialog(c) PROVE AnswerInv'
  BY <1>0, <1>3, QuietAnswer DEF FindDialog, End, history, AnswerInv
<1>4. ASSUME NEW c \in Call, NEW u \in User, BeginSend(c, u) PROVE AnswerInv'
  BY <1>4, QuietAnswer DEF BeginSend, Begin, history
<1>5. ASSUME NEW c \in Call, SendMessage(c) PROVE AnswerInv'
  BY <1>0, <1>5, QuietAnswer DEF SendMessage, End
<1>6. CASE UNCHANGED vars
  BY <1>6 DEF vars, history, AnswerInv, Alone, Reading, AnsweredInTurn
<1>7. ASSUME NEW c \in Call, BeginPaging(c) PROVE AnswerInv'
  BY <1>7, QuietAnswer DEF BeginPaging, Begin, history
<1>8. ASSUME NEW c \in Call, ListMessages(c) PROVE AnswerInv'
  <2>1. PICK next \in Page \cup {Idle} : call' = [call EXCEPT ![c] = next]
    BY <1>8, ListMessagesCall DEF SeenInv
  <2>2. next.op # "read" /\ next.op # "find"
    BY DEF Page, Idle
  <2>3. UNCHANGED <<dialog, marker, firstRaced, failed>>
    BY <1>8 DEF ListMessages, history
  <2> QED BY <2>1, <2>2, <2>3, QuietAnswer
<1> QED BY <1>1, <1>2, <1>3, <1>4, <1>5, <1>6, <1>7, <1>8, BeginReadAnswer,
           MarkReadAnswer DEF Next

(* No creation of a dialog and no move of a marker ends in an internal     *)
(* error, unless a reader without a marker has asked twice at once.        *)
THEOREM Answered == Spec => []AnsweredInTurn
<1>1. Init => AnswerInv
  BY DEF Init, AnswerInv, AnsweredInTurn, Alone, Idle
<1>2. AnswerInv => AnsweredInTurn
  BY DEF AnswerInv
<1> QED BY <1>1, <1>2, InitSeenInv, NextSeenInv, NextAnswerInv, PTL DEF Spec

-----------------------------------------------------------------------------

(* A step that replaces a request by one that does not page.               *)
LEMMA QuietPage ==
  ASSUME SeenInv, PageInv, NEW c \in Call, NEW next, next.op # "page",
         call' = [call EXCEPT ![c] = next], Times \subseteq Times'
  PROVE  PageInv'
<1>1. call'[c] = next /\ \A d \in Call \ {c} : call'[d] = call[d]
  BY DEF SeenInv, TypeInv
<1> QED BY <1>1 DEF PageInv, NoneSkipped

LEMMA BeginPagingPage ==
  ASSUME SeenInv, PageInv, NEW c \in Call, BeginPaging(c)
  PROVE  PageInv'
<1> DEFINE next == [op |-> "page", before |-> 0, got |-> {}, there |-> Times]
<1>1. call' = [call EXCEPT ![c] = next] /\ Times' = Times
  BY DEF BeginPaging, Begin, Times
<1>2. next.there = Times /\ next.before = 0
  OBVIOUS
<1> HIDE DEF next
<1>3. call'[c] = next /\ \A d \in Call \ {c} : call'[d] = call[d]
  BY <1>1 DEF SeenInv, TypeInv
<1> QED BY <1>1, <1>2, <1>3 DEF PageInv, NoneSkipped

(* What is older than the cursor and not on the page is older than all of  *)
(* the page.                                                               *)
LEMMA PageIsNewest ==
  ASSUME NEW times \in SUBSET Moment, NEW time \in times, time \notin Newest(times),
         Newest(times) # {}
  PROVE  time < Min(Newest(times))
<1> DEFINE oldest == Min(Newest(times))
           Above(t) == {other \in times : other > t}
<1>1. Newest(times) \subseteq times /\ Newest(times) \subseteq Moment
  BY DEF Newest
<1>2. oldest \in Newest(times)
  BY <1>1, OldestOfPage
<1>3. oldest \in Nat /\ time \in Nat /\ oldest # time
  BY <1>1, <1>2, MomentIsNat
<1>4. ASSUME oldest < time PROVE FALSE
  <2>1. Above(time) \subseteq Above(oldest)
    <3>1. ASSUME NEW other \in times, other > time PROVE other > oldest
      <4>1. other \in Nat
        BY MomentIsNat
      <4> QED BY <1>3, <1>4, <3>1, <4>1
    <3> QED BY <3>1
  <2>2. IsFiniteSet(Above(oldest))
    <3>1. IsFiniteSet(Moment)
      BY BoundAssumption, FS_Interval DEF Moment
    <3>2. Above(oldest) \subseteq Moment
      OBVIOUS
    <3> QED BY <3>1, <3>2, FS_Subset
  <2>3. Cardinality(Above(time)) <= Cardinality(Above(oldest))
    BY <2>1, <2>2, FS_Subset
  <2>4. Cardinality(Above(time)) \in Nat /\ Cardinality(Above(oldest)) \in Nat
    BY <2>1, <2>2, FS_Subset, FS_CardinalityType
  <2>5. Cardinality(Above(oldest)) < PageSize
    BY <1>2 DEF Newest
  <2>6. ~(Cardinality(Above(time)) < PageSize)
    BY DEF Newest
  <2> HIDE DEF Above
  <2> QED BY <2>3, <2>4, <2>5, <2>6, BoundAssumption
<1> QED BY <1>3, <1>4

LEMMA ListMessagesPage ==
  ASSUME SeenInv, PageInv, NEW c \in Call, ListMessages(c)
  PROVE  PageInv'
<1> DEFINE older == Older(call[c].before)
           page == Newest(older)
<1>1. call[c] \in Page /\ call[c].op = "page" /\ Times' = Times
  BY PageType DEF ListMessages, SeenInv, Times
<1>2. CASE page = {}
  BY <1>1, <1>2, QuietPage DEF ListMessages, End, Idle
<1>3. CASE page # {}
  <2> DEFINE next == [call[c] EXCEPT !.before = Min(page), !.got = @ \cup page]
  <2>1. call' = [call EXCEPT ![c] = next]
    BY <1>1, <1>3 DEF ListMessages
  <2>2. /\ next.there = call[c].there /\ next.before = Min(page)
        /\ next.got = call[c].got \cup page
    BY <1>1 DEF Page
  <2> HIDE DEF next
  <2>3. call'[c] = next /\ \A d \in Call \ {c} : call'[d] = call[d]
    BY <2>1 DEF SeenInv, TypeInv
  <2>4. ASSUME NEW time \in call[c].there, time \notin next.got
        PROVE  time < Min(page)
    <3>1. time \in Times /\ (call[c].before # 0 => time < call[c].before)
      BY <1>1, <2>2, <2>4 DEF PageInv, NoneSkipped
    <3>2. time \in older /\ older \subseteq Moment
      BY <3>1 DEF Older, Times, SeenInv, TypeInv
    <3>3. time \notin page
      BY <2>2, <2>4
    <3> HIDE DEF older
    <3> QED BY <1>3, <3>2, <3>3, PageIsNewest
  <2> HIDE DEF page
  <2> QED BY <1>1, <2>2, <2>3, <2>4 DEF PageInv, NoneSkipped
<1> QED BY <1>2, <1>3

LEMMA NextPageInv == SeenInv /\ PageInv /\ [Next]_vars => PageInv'
<1> SUFFICES ASSUME SeenInv, PageInv, [Next]_vars PROVE PageInv'
  OBVIOUS
<1>0. Idle.op = "idle"
  BY DEF Idle
<1>1. ASSUME NEW c \in Call, BeginCreate(c) PROVE PageInv'
  BY <1>1, QuietPage DEF BeginCreate, Begin, Times
<1>2. ASSUME NEW c \in Call, InsertDialog(c) PROVE PageInv'
  <2> DEFINE next == IF dialog /\ ~call[c].seen THEN [op |-> "find"] ELSE Idle
  <2>1. next.op # "page" /\ call' = [call EXCEPT ![c] = next] /\ Times' = Times
    BY <1>0, <1>2 DEF InsertDialog, Times
  <2> QED BY <2>1, QuietPage
<1>3. ASSUME NEW c \in Call, FindDialog(c) PROVE PageInv'
  BY <1>0, <1>3, QuietPage DEF FindDialog, End, Times
<1>4. ASSUME NEW c \in Call, NEW u \in User, BeginSend(c, u) PROVE PageInv'
  BY <1>4, QuietPage DEF BeginSend, Begin, Times
<1>5. ASSUME NEW c \in Call, SendMessage(c) PROVE PageInv'
  <2>1. Times \subseteq Times'
    BY <1>5 DEF SendMessage, Times
  <2> QED BY <1>0, <1>5, <2>1, QuietPage DEF SendMessage, End
<1>6. ASSUME NEW c \in Call, NEW u \in User, NEW to \in Moment, BeginRead(c, u, to)
      PROVE  PageInv'
  BY <1>6, QuietPage DEF BeginRead, Begin, Times
<1>7. ASSUME NEW c \in Call, MarkRead(c) PROVE PageInv'
  BY <1>0, <1>7, QuietPage DEF MarkRead, End, Times
<1>8. CASE UNCHANGED vars
  BY <1>8 DEF vars, PageInv, NoneSkipped, Times
<1> QED BY <1>1, <1>2, <1>3, <1>4, <1>5, <1>6, <1>7, <1>8, BeginPagingPage,
           ListMessagesPage DEF Next

(* Paging back through a dialog skips nothing that was there when the      *)
(* reader began, whatever is sent meanwhile and for pages of any size.     *)
THEOREM PagingSkipsNothing == Spec => []NoneSkipped
<1>1. Init => PageInv
  BY DEF Init, PageInv, NoneSkipped, Idle
<1>2. PageInv => NoneSkipped
  BY DEF PageInv
<1> QED BY <1>1, <1>2, InitSeenInv, NextSeenInv, NextPageInv, PTL DEF Spec

-----------------------------------------------------------------------------

LEMMA SendMessageEvent ==
  ASSUME SeenInv, EventInv, NEW c \in Call, SendMessage(c)
  PROVE  EventInv'
<1>1. call[c] \in Send
  <2>1. \A request \in Create \cup Read \cup Page \cup {Idle} : request.op # "send"
    BY DEF Create, Read, Page, Idle
  <2> QED BY <2>1 DEF SendMessage, SeenInv, TypeInv
<1>2. PICK e \in Event : e.type = "message.sent" /\ outbox' = Append(outbox, e)
  BY <1>1 DEF SendMessage, Emit, Event, Send
<1>3. outbox' \in Seq(Event)
  BY <1>2 DEF EventInv
<1>4. \A u \in User : ReadsBy(u)' = ReadsBy(u) /\ \A i \in ReadsBy(u) : outbox'[i] = outbox[i]
  BY <1>2 DEF EventInv, ReadsBy
<1>5. marker' = marker
  BY DEF SendMessage
<1> QED BY <1>3, <1>4, <1>5 DEF EventInv, ReadsForward

LEMMA MarkReadEvent ==
  ASSUME SeenInv, EventInv, NEW c \in Call, MarkRead(c)
  PROVE  EventInv'
<1>1. call[c] \in Read /\ call[c].by \in User /\ call[c].to \in Moment
  BY ReadType DEF MarkRead, SeenInv, Read
<1>2. PICK u \in User : u = call[c].by
  BY <1>1
<1>3. CASE UNCHANGED <<marker, outbox>>
  BY <1>3 DEF EventInv, ReadsForward, ReadsBy
<1>4. CASE /\ Moves(marker[u], call[c].to, call[c].visible)
           /\ marker' = [marker EXCEPT ![u] = call[c].to]
           /\ Emit("message.read", u, call[c].to)
  <2>1. PICK e \in Event : /\ e.type = "message.read" /\ e.by = u /\ e.at = call[c].to
                           /\ outbox' = Append(outbox, e)
    BY <1>1, <1>4 DEF Emit, Event
  <2>2. outbox' \in Seq(Event)
    BY <2>1 DEF EventInv
  <2>3. \A i \in DOMAIN outbox : outbox'[i] = outbox[i]
    BY <2>1 DEF EventInv
  <2>4. ASSUME NEW v \in User, v # u
        PROVE  ReadsBy(v)' = ReadsBy(v) /\ marker'[v] = marker[v]
    BY <1>4, <2>1, <2>4 DEF EventInv, ReadsBy, SeenInv, TypeInv
  <2>5. ReadsBy(u)' = ReadsBy(u) \cup {Len(outbox) + 1} /\ outbox'[Len(outbox) + 1] = e
    BY <2>1 DEF EventInv, ReadsBy
  <2>6. marker[u] \in Nat /\ marker'[u] = e.at /\ e.at \in Nat /\ marker[u] < e.at
    <3>1. e.at \in Nat /\ e.at # 0 /\ marker[u] \in Nat
      BY <1>1, <2>1, MomentIsNat DEF SeenInv, TypeInv
    <3>2. marker[u] = 0 \/ marker[u] < e.at
      BY <1>4, <2>1 DEF Moves
    <3>3. marker'[u] = e.at
      BY <1>4, <2>1 DEF SeenInv, TypeInv
    <3> QED BY <3>1, <3>2, <3>3
  <2>7. \A i \in ReadsBy(u) : i \in 1..Len(outbox) /\ outbox[i].at \in Nat
    <3>1. \A i \in ReadsBy(u) : i \in 1..Len(outbox) /\ outbox[i] \in Event
      BY DEF EventInv, ReadsBy
    <3>2. \A event \in Event : event.at \in Nat
      BY MomentIsNat DEF Event
    <3> QED BY <3>1, <3>2
  <2>8. \A i \in ReadsBy(u) : outbox[i].at < e.at
    BY <2>6, <2>7 DEF EventInv, ReadsForward
  <2>9. Len(outbox) \in Nat
    BY DEF EventInv
  <2>10. \A i, j \in ReadsBy(u)' : i < j => outbox'[i].at < outbox'[j].at
    <3>1. \A i \in ReadsBy(u) : outbox'[i] = outbox[i]
      BY <2>3 DEF ReadsBy
    <3> QED BY <2>5, <2>7, <2>8, <2>9, <3>1 DEF EventInv, ReadsForward
  <2>11. \A i \in ReadsBy(u)' : outbox'[i].at <= marker'[u]
    <3>1. \A i \in ReadsBy(u) : outbox'[i] = outbox[i]
      BY <2>3 DEF ReadsBy
    <3> QED BY <2>5, <2>6, <2>7, <2>8, <3>1
  <2>12. \E i \in ReadsBy(u)' : outbox'[i].at = marker'[u]
    BY <2>5, <2>6
  <2>13. ASSUME NEW v \in User, v # u
         PROVE  /\ \A i, j \in ReadsBy(v)' : i < j => outbox'[i].at < outbox'[j].at
                /\ \A i \in ReadsBy(v)' : outbox'[i].at <= marker'[v]
                /\ marker'[v] # 0 => \E i \in ReadsBy(v)' : outbox'[i].at = marker'[v]
    <3>1. \A i \in ReadsBy(v) : outbox'[i] = outbox[i]
      BY <2>3 DEF ReadsBy
    <3> QED BY <2>4, <2>13, <3>1 DEF EventInv, ReadsForward
  <2> QED BY <2>2, <2>10, <2>11, <2>12, <2>13 DEF EventInv, ReadsForward
<1> QED BY <1>2, <1>3, <1>4 DEF MarkRead, Target

LEMMA NextEventInv == SeenInv /\ EventInv /\ [Next]_vars => EventInv'
<1> SUFFICES ASSUME SeenInv, EventInv, [Next]_vars PROVE EventInv'
  OBVIOUS
<1>1. ASSUME UNCHANGED <<marker, outbox>> PROVE EventInv'
  BY <1>1 DEF EventInv, ReadsForward, ReadsBy
<1>2. ASSUME NEW c \in Call,
             BeginCreate(c) \/ InsertDialog(c) \/ FindDialog(c) \/ BeginPaging(c)
               \/ ListMessages(c)
      PROVE  EventInv'
  BY <1>1, <1>2 DEF BeginCreate, InsertDialog, FindDialog, BeginPaging, ListMessages
<1>3. ASSUME NEW c \in Call, NEW u \in User,
             BeginSend(c, u) \/ \E to \in Moment : BeginRead(c, u, to)
      PROVE  EventInv'
  BY <1>1, <1>3 DEF BeginSend, BeginRead
<1>4. CASE UNCHANGED vars
  BY <1>1, <1>4 DEF vars
<1> QED BY <1>2, <1>3, <1>4, SendMessageEvent, MarkReadEvent DEF Next

(* The events of a reader tell of ever later messages up to its marker,    *)
(* for any number of requests that race.                                   *)
THEOREM MarkersMoveForward == Spec => []ReadsForward
<1>1. Init => EventInv
  BY DEF Init, EventInv, ReadsForward, ReadsBy
<1>2. EventInv => ReadsForward
  BY DEF EventInv
<1> QED BY <1>1, <1>2, InitSeenInv, NextSeenInv, NextEventInv, PTL DEF Spec
=============================================================================
