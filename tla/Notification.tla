---------------------------- MODULE Notification ----------------------------
(***************************************************************************)
(* notification-service: the consumer of domain events with its inbox, the *)
(* notifications, and the notification.created events in its outbox.       *)
(*                                                                         *)
(* An event is a record [id, type, detail]; detail is the field of the     *)
(* payload the handler branches on (origin, reason), None where it has     *)
(* none.                                                                   *)
(***************************************************************************)
EXTENDS Naturals, Sequences

CONSTANTS
  Event,
  Proc,   \* consumer handlers running at one time
  None

VARIABLES
  notifications,  \* [event, user, read] rows
  processed,      \* processed_events
  handling,       \* the event each handler is between its read and its statement with
  pushed          \* notification.created rows in the outbox, by source event

vars == <<notifications, processed, handling, pushed>>

TypeOK ==
  /\ notifications \in SUBSET [event: Event, user: {"student", "teacher"}, read: BOOLEAN]
  /\ processed \subseteq Event
  /\ handling \in [Proc -> Event \cup {None}]
  /\ pushed \in Seq(Event)

Init ==
  /\ notifications = {}
  /\ processed = {}
  /\ handling = [p \in Proc |-> None]
  /\ pushed = <<>>

-----------------------------------------------------------------------------
(* BuildNotification.                                                      *)

ToTeacher(e) == e.type \in {"submission.uploaded", "payment_receipt.uploaded"}

ToStudent(e) ==
  \/ e.type \in {"assignment.created", "assignment.reviewed",
                 "assignment.deadline_expired", "payment.confirmed",
                 "payment.rejected", "lesson.completed", "lesson.rescheduled",
                 "lesson.cancelled", "lesson.restored"}
  \/ e.type = "lesson.scheduled" /\ e.detail \in {"created", "reactivated"}
  \/ e.type = "balance.changed" /\ e.detail = "correction.created"
  \/ e.type = "message.sent" /\ e.detail = "to_student"

Supported(e) ==
  ToTeacher(e) \/ ToStudent(e) \/ e.type = "message.sent"

Recipient(e) == IF ToStudent(e) THEN "student" ELSE "teacher"

-----------------------------------------------------------------------------

(* OnEvent: the duplicate and the unsupported event are dropped.           *)
Ignored(e) == e \in processed \/ ~Supported(e)

OnEvent(p, e) ==
  /\ handling[p] = None
  /\ ~Ignored(e)
  /\ handling' = [handling EXCEPT ![p] = e]
  /\ UNCHANGED <<notifications, processed, pushed>>

(* A seeded bug, as in Lesson.                                             *)
CreateFromEventFault(p) ==  \* the outbox row does not depend on the insert
  LET e == handling[p]
  IN  /\ e # None
      /\ notifications' = IF \E n \in notifications : n.event = e THEN notifications
           ELSE notifications \cup {[event |-> e, user |-> Recipient(e), read |-> FALSE]}
      /\ pushed' = Append(pushed, e)
      /\ processed' = processed \cup {e}
      /\ handling' = [handling EXCEPT ![p] = None]

(* Notification, inbox and outbox in one statement; the unique index on    *)
(* (user_id, source_event_id) stops the second of two handlers.            *)
CreateFromEvent(p) ==
  LET e == handling[p]
      user == Recipient(e)
      known == \E n \in notifications : n.event = e /\ n.user = user
  IN  /\ e # None
      /\ IF known
           THEN UNCHANGED <<notifications, pushed>>
           ELSE /\ notifications' = notifications \cup
                     {[event |-> e, user |-> user, read |-> FALSE]}
                /\ pushed' = Append(pushed, e)
      /\ processed' = processed \cup {e}
      /\ handling' = [handling EXCEPT ![p] = None]

(* The replica dies between its read and its statement.                    *)
Crash(p) ==
  /\ handling[p] # None
  /\ handling' = [handling EXCEPT ![p] = None]
  /\ UNCHANGED <<notifications, processed, pushed>>

MarkAsRead(n) ==
  /\ n \in notifications
  /\ notifications' = (notifications \ {n}) \cup {[n EXCEPT !.read = TRUE]}
  /\ UNCHANGED <<processed, handling, pushed>>

Next ==
  \/ \E p \in Proc, e \in Event : OnEvent(p, e)
  \/ \E p \in Proc : CreateFromEvent(p) \/ Crash(p)
  \/ \E n \in notifications : MarkAsRead(n)

Spec == Init /\ [][Next]_vars

-----------------------------------------------------------------------------

(* Concurrent and repeated deliveries of an event leave one notification   *)
(* and one push, and an event in the inbox has both.                       *)
NotifiedOnce ==
  /\ \A m, n \in notifications : m.event = n.event => m = n
  /\ \A i, j \in DOMAIN pushed : pushed[i] = pushed[j] => i = j
  /\ processed = {n.event : n \in notifications}
  /\ processed = {pushed[i] : i \in DOMAIN pushed}
=============================================================================
