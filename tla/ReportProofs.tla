---------------------------- MODULE ReportProofs ----------------------------
(* Theorems about module Report, for any entities, students, replicas,     *)
(* event times, balances and numbers of redeliveries and kills.            *)
EXTENDS Report, FiniteSetTheorems, TLAPS

-----------------------------------------------------------------------------
(* The events and rows of an entity carry the statuses of its kind.        *)

Kind(e) ==
  IF e \in Lesson THEN {"scheduled", "completed", "cancelled"}
  ELSE IF e \in Homework
    THEN {"assigned", "submitted", "reviewed", "needs_fix", "done", "expired"}
    ELSE {"pending_review", "confirmed", "rejected"}

RowEvent(e) == [status: Kind(e), at: Nat \ {0}]

(* What a replica is doing is about an event that is there.                *)
JobTyped(job) ==
  job # Idle => /\ job.stage \in {"statement", "refresh"}
                /\ job.key \in Key
                /\ job.index \in DOMAIN log[job.key]

TypeInv ==
  /\ \E S : log \in [Key -> Seq(S)]
  /\ \A e \in Entity : \A i \in DOMAIN log[e] : log[e][i] \in RowEvent(e)
  /\ \E S : rows \in [Entity -> S]
  /\ \A e \in Entity : rows[e] = Absent \/ rows[e] \in RowEvent(e)
  /\ \E S : summary \in [Student -> [DOMAIN Counter -> S]]
  /\ \E S : handling \in [Proc -> S]
  /\ \A p \in Proc : JobTyped(handling[p])
  /\ \A x \in processed : \E k \in Key : \E i \in DOMAIN log[k] : x = <<k, i>>

LEMMA FollowsKind ==
  ASSUME NEW e \in Entity, NEW s \in Kind(e)
  PROVE  Follows[s] \subseteq Kind(e)
<1>1. CASE e \in Lesson
  BY <1>1 DEF Kind, Follows
<1>2. CASE e \notin Lesson /\ e \in Homework
  <2>1. s \in {"assigned", "submitted", "reviewed", "needs_fix", "done", "expired"}
    BY <1>2 DEF Kind
  <2>2. /\ Follows["assigned"] = {"submitted", "expired"}
        /\ Follows["submitted"] = {"submitted", "reviewed", "needs_fix", "done"}
        /\ Follows["reviewed"] = {"submitted", "reviewed", "needs_fix", "done"}
        /\ Follows["needs_fix"] = {"submitted", "reviewed", "needs_fix", "done", "expired"}
        /\ Follows["done"] = {"submitted", "reviewed", "needs_fix", "done"}
        /\ Follows["expired"] = {"submitted", "reviewed", "needs_fix", "done"}
    BY DEF Follows
  <2> QED BY <1>2, <2>1, <2>2 DEF Kind
<1>3. CASE e \notin Lesson /\ e \notin Homework
  <2>1. /\ Follows["pending_review"] = {"confirmed", "rejected"}
        /\ Follows["confirmed"] = {} /\ Follows["rejected"] = {}
    BY DEF Follows
  <2> QED BY <1>3, <2>1 DEF Kind
<1> QED BY <1>1, <1>2, <1>3

LEMMA FirstKind == \A e \in Entity : First[e] \in Kind(e)
BY DEF First, Kind

(* A column counts statuses of one kind only.                              *)
LEMMA ColumnsOfKind ==
  ASSUME NEW e \in Entity, NEW c \in DOMAIN Counter
  PROVE  /\ Counter[c] \cap Kind(e) # {} => c \in Columns(e)
         /\ Columns(e) \subseteq DOMAIN Counter
         /\ "absent" \notin Counter[c]
<1>1. DOMAIN Counter = {"upcoming", "completed", "cancelled", "active", "submitted", "reviewed", "pending"}
  BY DEF Counter
<1>2. /\ Counter["upcoming"] = {"scheduled"} /\ Counter["completed"] = {"completed"}
      /\ Counter["cancelled"] = {"cancelled"} /\ Counter["active"] = {"assigned", "needs_fix"}
      /\ Counter["submitted"] = {"submitted"}
      /\ Counter["reviewed"] = {"reviewed", "needs_fix", "done"}
      /\ Counter["pending"] = {"pending_review"}
  BY DEF Counter
<1>3. CASE e \in Lesson
  <2>1. Columns(e) = {"upcoming", "completed", "cancelled"}
    BY <1>3, KindAssumption DEF Columns
  <2> QED BY <1>1, <1>2, <1>3, <2>1 DEF Kind
<1>4. CASE e \in Homework
  <2>1. Columns(e) = {"active", "submitted", "reviewed"} /\ e \notin Lesson
    BY <1>4, KindAssumption DEF Columns
  <2> QED BY <1>1, <1>2, <1>4, <2>1 DEF Kind
<1>5. CASE e \in Receipt
  <2>1. Columns(e) = {"pending"} /\ e \notin Lesson /\ e \notin Homework
    BY <1>5, KindAssumption DEF Columns
  <2> QED BY <1>1, <1>2, <1>5, <2>1 DEF Kind
<1> QED BY <1>3, <1>4, <1>5 DEF Entity

LEMMA SameTable ==
  ASSUME NEW e \in Entity, NEW f \in Entity
  PROVE  First[f] = First[e] <=> Kind(f) = Kind(e)
<1>1. /\ First[e] = (IF e \in Lesson THEN "scheduled"
                     ELSE IF e \in Homework THEN "assigned" ELSE "pending_review")
      /\ First[f] = (IF f \in Lesson THEN "scheduled"
                     ELSE IF f \in Homework THEN "assigned" ELSE "pending_review")
  BY DEF First
<1>2. Kind(f) = Kind(e) => ("scheduled" \in Kind(f) <=> "scheduled" \in Kind(e))
                            /\ ("assigned" \in Kind(f) <=> "assigned" \in Kind(e))
  OBVIOUS
<1> QED BY <1>1, <1>2 DEF Kind

-----------------------------------------------------------------------------
(* Steps and the types.                                                    *)

LEMMA InitTypeInv == Init => TypeInv
<1> SUFFICES ASSUME Init PROVE TypeInv
  OBVIOUS
<1>1. /\ log = [k \in Key |-> <<>>] /\ rows = [e \in Entity |-> Absent]
      /\ summary = [s \in Student |-> [c \in DOMAIN Counter |-> 0]]
      /\ handling = [p \in Proc |-> Idle] /\ processed = {}
  BY DEF Init
<1>2. /\ log \in [Key -> Seq({})] /\ rows \in [Entity -> {Absent}]
      /\ summary \in [Student -> [DOMAIN Counter -> {0}]]
      /\ handling \in [Proc -> {Idle}]
  BY <1>1
<1>3. \A e \in Entity : DOMAIN log[e] = {}
  BY <1>1 DEF Key
<1> QED BY <1>1, <1>2, <1>3 DEF TypeInv, JobTyped

LEMMA AppendKeeps ==
  ASSUME NEW S, NEW s \in Seq(S), NEW x
  PROVE  /\ Append(s, x) \in Seq(S \cup {x})
         /\ DOMAIN s \subseteq DOMAIN Append(s, x)
         /\ \A i \in DOMAIN s : Append(s, x)[i] = s[i]
         /\ \A i \in DOMAIN Append(s, x) : i \in DOMAIN s \/ Append(s, x)[i] = x
<1>1. s \in Seq(S \cup {x})
  OBVIOUS
<1> QED BY <1>1

(* Publishing only adds to a log.                                          *)
LEMMA PublishGrows ==
  ASSUME TypeInv, NEW k \in Key, NEW event, Publish(k, event)
  PROVE  /\ \E S : log' \in [Key -> Seq(S)]
         /\ log' = [log EXCEPT ![k] = Append(@, event)]
         /\ \A j \in Key : /\ DOMAIN log[j] \subseteq DOMAIN log'[j]
                           /\ \A i \in DOMAIN log[j] : log'[j][i] = log[j][i]
         /\ \A j \in Key : j # k => log'[j] = log[j]
         /\ \A i \in DOMAIN log'[k] : i \in DOMAIN log[k] \/ log'[k][i] = event
<1> PICK S : log \in [Key -> Seq(S)]
  BY DEF TypeInv
<1>1. log' = [log EXCEPT ![k] = Append(@, event)]
  BY DEF Publish
<1>2. log'[k] = Append(log[k], event) /\ \A j \in Key : j # k => log'[j] = log[j]
  BY <1>1
<1>3. log[k] \in Seq(S)
  OBVIOUS
<1>4. /\ log'[k] \in Seq(S \cup {event})
      /\ DOMAIN log[k] \subseteq DOMAIN log'[k]
      /\ \A i \in DOMAIN log[k] : log'[k][i] = log[k][i]
      /\ \A i \in DOMAIN log'[k] : i \in DOMAIN log[k] \/ log'[k][i] = event
  BY <1>2, <1>3, AppendKeeps
<1>5. \A j \in Key : j # k => log[j] \in Seq(S \cup {event})
  OBVIOUS
<1>6. log' \in [Key -> Seq(S \cup {event})]
  BY <1>1, <1>2, <1>4, <1>5
<1> QED BY <1>1, <1>2, <1>4, <1>6

LEMMA PublishTypeInv ==
  ASSUME TypeInv, NEW k \in Key, NEW event, Publish(k, event),
         k \in Entity => event \in RowEvent(k)
  PROVE  TypeInv'
<1>1. UNCHANGED <<rows, summary, handling, processed>>
  BY DEF Publish, readModel
<1>2. /\ \E S : rows' \in [Entity -> S]
      /\ \A e \in Entity : rows'[e] = Absent \/ rows'[e] \in RowEvent(e)
      /\ \E S : summary' \in [Student -> [DOMAIN Counter -> S]]
      /\ \E S : handling' \in [Proc -> S]
  BY <1>1 DEF TypeInv
<1>3. \A e \in Entity : \A i \in DOMAIN log'[e] : log'[e][i] \in RowEvent(e)
  <2> SUFFICES ASSUME NEW e \in Entity, NEW i \in DOMAIN log'[e]
               PROVE  log'[e][i] \in RowEvent(e)
    OBVIOUS
  <2>1. e \in Key
    BY DEF Key
  <2>2. CASE e = k
    <3>1. CASE i \in DOMAIN log[k]
      BY <2>2, <3>1, PublishGrows DEF TypeInv
    <3>2. CASE i \notin DOMAIN log[k]
      BY <2>2, <3>2, PublishGrows
    <3> QED BY <3>1, <3>2
  <2>3. CASE e # k
    <3>1. log'[e] = log[e]
      BY <2>1, <2>3, PublishGrows
    <3> QED BY <3>1 DEF TypeInv
  <2> QED BY <2>2, <2>3
<1>4. \A p \in Proc : JobTyped(handling[p])'
  <2> SUFFICES ASSUME NEW p \in Proc, handling[p] # Idle
               PROVE  /\ handling[p].stage \in {"statement", "refresh"}
                      /\ handling[p].key \in Key
                      /\ handling[p].index \in DOMAIN log'[handling[p].key]
    BY <1>1 DEF JobTyped
  <2>1. JobTyped(handling[p])
    BY DEF TypeInv
  <2> QED BY <2>1, PublishGrows DEF JobTyped
<1>5. \A x \in processed' : \E j \in Key : \E i \in DOMAIN log'[j] : x = <<j, i>>
  <2> SUFFICES ASSUME NEW x \in processed
               PROVE  \E j \in Key : \E i \in DOMAIN log'[j] : x = <<j, i>>
    BY <1>1
  <2> PICK j \in Key : \E i \in DOMAIN log[j] : x = <<j, i>>
    BY DEF TypeInv
  <2> PICK i \in DOMAIN log[j] : x = <<j, i>>
    OBVIOUS
  <2>1. i \in DOMAIN log'[j]
    BY PublishGrows
  <2> QED BY <2>1
<1>6. \E S : log' \in [Key -> Seq(S)]
  BY PublishGrows
<1> QED BY <1>2, <1>3, <1>4, <1>5, <1>6 DEF TypeInv

LEMMA TransitionPublishes ==
  ASSUME TypeInv, NEW e \in Entity, PublishTransition(e)
  PROVE  \E event \in RowEvent(e) : Publish(e, event)
<1>1. CASE log[e] = <<>>
  <2>1. [status |-> First[e], at |-> 1] \in RowEvent(e)
    BY FirstKind DEF RowEvent
  <2> QED BY <1>1, <2>1 DEF PublishTransition
<1>2. CASE log[e] # <<>>
  <2> PICK S : log \in [Key -> Seq(S)]
    BY DEF TypeInv
  <2>1. log[e] \in Seq(S) /\ e \in Key
    BY DEF Key
  <2>2. Len(log[e]) \in DOMAIN log[e]
    BY <1>2, <2>1
  <2>3. Source(e) = log[e][Len(log[e])].status
    BY <1>2 DEF Source, Last
  <2>4. Source(e) \in Kind(e)
    BY <2>2, <2>3 DEF TypeInv, RowEvent
  <2>5. PICK status \in Follows[Source(e)], at \in 1..MaxSecond :
          Publish(e, [status |-> status, at |-> at])
    BY <1>2 DEF PublishTransition
  <2>6. status \in Kind(e)
    BY <2>4, <2>5, FollowsKind
  <2>7. at \in Nat \ {0}
    BY <2>5, BoundAssumption
  <2>8. [status |-> status, at |-> at] \in RowEvent(e)
    BY <2>6, <2>7 DEF RowEvent
  <2> QED BY <2>5, <2>8
<1> QED BY <1>1, <1>2

LEMMA BeginJob ==
  ASSUME TypeInv, NEW p \in Proc, NEW k \in Key, NEW i, Begin(p, k, i)
  PROVE  /\ TypeInv'
         /\ handling[p] = Idle /\ i \in DOMAIN log[k]
         /\ handling'[p].stage = "statement" /\ handling'[p].key = k /\ handling'[p].index = i
         /\ k \in Entity => handling'[p].seen = [f \in Counted(k) |-> rows[f].status]
         /\ \A q \in Proc : q # p => handling'[q] = handling[q]
<1> DEFINE job == [stage |-> "statement", key |-> k, index |-> i,
                   seen |-> IF k \in Entity THEN [f \in Counted(k) |-> rows[f].status] ELSE <<>>]
<1>1. /\ handling[p] = Idle /\ i \in DOMAIN log[k]
      /\ handling' = [handling EXCEPT ![p] = job]
      /\ UNCHANGED <<log, rows, summary, processed>>
  BY DEF Begin, readModel
<1> PICK S : handling \in [Proc -> S]
  BY DEF TypeInv
<1>2. /\ job.stage = "statement" /\ job.key = k /\ job.index = i
      /\ k \in Entity => job.seen = [f \in Counted(k) |-> rows[f].status]
  OBVIOUS
<1> HIDE DEF job
<1>3. handling'[p] = job /\ \A q \in Proc : q # p => handling'[q] = handling[q]
  BY <1>1
<1>4. handling' \in [Proc -> S \cup {job}]
  BY <1>1
<1>5. \A q \in Proc : JobTyped(handling[q])'
  <2> SUFFICES ASSUME NEW q \in Proc PROVE JobTyped(handling[q])'
    OBVIOUS
  <2>1. CASE q = p
    BY <1>1, <1>2, <1>3, <2>1 DEF JobTyped
  <2>2. CASE q # p
    BY <1>1, <1>3, <2>2 DEF JobTyped, TypeInv
  <2> QED BY <2>1, <2>2
<1>6. TypeInv'
  BY <1>1, <1>4, <1>5 DEF TypeInv
<1> QED BY <1>1, <1>2, <1>3, <1>6

(* A replica goes idle, or on to the refresh.                              *)
LEMMA JobChange ==
  ASSUME TypeInv, NEW p \in Proc, NEW job, UNCHANGED log,
         handling' = [handling EXCEPT ![p] = job], JobTyped(job)
  PROVE  /\ \E S : handling' \in [Proc -> S]
         /\ \A q \in Proc : JobTyped(handling[q])'
         /\ handling'[p] = job /\ \A q \in Proc : q # p => handling'[q] = handling[q]
<1> PICK S : handling \in [Proc -> S]
  BY DEF TypeInv
<1>1. handling' \in [Proc -> S \cup {job}]
  OBVIOUS
<1>2. handling'[p] = job /\ \A q \in Proc : q # p => handling'[q] = handling[q]
  OBVIOUS
<1>3. \A q \in Proc : JobTyped(handling[q])'
  BY <1>2 DEF JobTyped, TypeInv
<1> QED BY <1>1, <1>2, <1>3

-----------------------------------------------------------------------------
(* What has been applied, and the rows.                                    *)

LEMMA RankNat ==
  ASSUME NEW e \in Entity, NEW status \in Kind(e)
  PROVE  Rank(status) \in Nat
<1>1. CASE status \in {"scheduled", "assigned", "pending_review"}
  <2>1. Rank(status) = 1
    BY <1>1 DEF Rank
  <2> QED BY <2>1
<1>2. CASE status \in {"completed", "submitted", "confirmed", "rejected"}
  <2>1. Rank(status) = 2
    BY <1>2 DEF Rank
  <2> QED BY <2>1
<1>3. CASE status \in {"cancelled", "reviewed", "needs_fix", "done"}
  <2>1. Rank(status) = 3
    BY <1>3 DEF Rank
  <2> QED BY <2>1
<1>4. CASE status = "expired"
  <2>1. Rank(status) = 4
    BY <1>4 DEF Rank
  <2> QED BY <2>1
<1> QED BY <1>1, <1>2, <1>3, <1>4 DEF Kind

LEMMA PublishApplied ==
  ASSUME TypeInv, NEW k \in Key, NEW event, Publish(k, event), NEW e \in Entity
  PROVE  Applied(e)' = Applied(e)
<1>1. processed' = processed
  BY DEF Publish, readModel
<1>2. ASSUME NEW x \in processed, x[1] = e PROVE log'[e][x[2]] = log[e][x[2]]
  <2> PICK j \in Key : \E i \in DOMAIN log[j] : x = <<j, i>>
    BY DEF TypeInv
  <2> PICK i \in DOMAIN log[j] : x = <<j, i>>
    OBVIOUS
  <2>1. j = e /\ x[2] = i
    BY <1>2
  <2> QED BY <2>1, PublishGrows
<1> QED BY <1>1, <1>2 DEF Applied

LEMMA OneMoreApplied ==
  ASSUME TypeInv, NEW k \in Key, NEW i \in DOMAIN log[k], UNCHANGED log,
         processed' = processed \cup {<<k, i>>}, NEW e \in Entity
  PROVE  /\ e # k => Applied(e)' = Applied(e)
         /\ e = k => Applied(e)' = Applied(e) \cup {log[k][i]}
<1>1. ASSUME e # k PROVE {y \in processed' : y[1] = e} = {y \in processed : y[1] = e}
  BY <1>1
<1>2. ASSUME e = k
      PROVE  {y \in processed' : y[1] = e} = {y \in processed : y[1] = e} \cup {<<k, i>>}
  BY <1>2
<1>3. ASSUME e # k PROVE Applied(e)' = Applied(e)
  BY <1>1, <1>3 DEF Applied
<1>4. ASSUME e = k PROVE Applied(e)' = Applied(e) \cup {log[k][i]}
  <2>1. Applied(e)' = {log[e][x[2]] : x \in {y \in processed : y[1] = e} \cup {<<k, i>>}}
    BY <1>2, <1>4 DEF Applied
  <2>2. <<k, i>>[2] = i
    OBVIOUS
  <2> QED BY <1>4, <2>1, <2>2 DEF Applied
<1> QED BY <1>3, <1>4

Freshest(e) ==
  /\ rows[e] = Absent <=> Applied(e) = {}
  /\ rows[e] # Absent => rows[e] \in Applied(e)
  /\ \A event \in Applied(e) :
       /\ event.at <= rows[e].at
       /\ event.at = rows[e].at => Rank(event.status) <= Rank(rows[e].status)

LEMMA AppliedTyped ==
  ASSUME TypeInv, NEW e \in Entity
  PROVE  Applied(e) \subseteq RowEvent(e)
<1> SUFFICES ASSUME NEW x \in processed, x[1] = e PROVE log[e][x[2]] \in RowEvent(e)
  BY DEF Applied
<1> PICK j \in Key : \E i \in DOMAIN log[j] : x = <<j, i>>
  BY DEF TypeInv
<1> PICK i \in DOMAIN log[j] : x = <<j, i>>
  OBVIOUS
<1>1. j = e /\ x[2] = i
  OBVIOUS
<1> QED BY <1>1 DEF TypeInv

LEMMA AbsentIsNone ==
  ASSUME NEW e \in Entity, NEW event \in RowEvent(e)
  PROVE  event # Absent /\ event.at \in Nat /\ event.at > 0 /\ event.status \in Kind(e)
<1>1. event.status \in Kind(e) /\ event.at \in Nat \ {0}
  BY DEF RowEvent
<1>2. "absent" \notin Kind(e)
  BY DEF Kind
<1> QED BY <1>1, <1>2 DEF Absent

LEMMA UpsertFreshest ==
  ASSUME TypeInv, NEW e \in Entity, Freshest(e), NEW event \in RowEvent(e),
         Applied(e)' = Applied(e) \cup {event},
         rows'[e] = IF Fresher(event, rows[e]) THEN event ELSE rows[e]
  PROVE  Freshest(e)'
<1>1. rows[e] = Absent \/ rows[e] \in RowEvent(e)
  BY DEF TypeInv
<1>2. rows[e].at \in Nat /\ (rows[e] = Absent => rows[e].at = 0)
  BY <1>1, AbsentIsNone DEF Absent
<1>3. event # Absent /\ event.at \in Nat /\ event.at > 0
  BY AbsentIsNone
<1>4. \A a \in Applied(e) : a.at \in Nat
  BY AppliedTyped, AbsentIsNone
<1>5. CASE Fresher(event, rows[e])
  <2>1. rows'[e] = event
    BY <1>5
  <2>2. ASSUME NEW a \in Applied(e)
        PROVE  a.at <= event.at /\ (a.at = event.at => Rank(a.status) <= Rank(event.status))
    <3>1. /\ a.at <= rows[e].at
          /\ a.at = rows[e].at => Rank(a.status) <= Rank(rows[e].status)
          /\ rows[e] # Absent
      BY DEF Freshest
    <3>2. /\ Rank(a.status) \in Nat /\ Rank(event.status) \in Nat
          /\ Rank(rows[e].status) \in Nat /\ a.at \in Nat
      BY <1>1, <1>4, <3>1, RankNat, AppliedTyped, AbsentIsNone
    <3> QED BY <1>2, <1>3, <1>5, <3>1, <3>2 DEF Fresher
  <2>3. event.at <= event.at /\ Rank(event.status) <= Rank(event.status)
    BY <1>3, RankNat, AbsentIsNone
  <2> QED BY <1>3, <2>1, <2>2, <2>3 DEF Freshest
<1>6. CASE ~Fresher(event, rows[e])
  <2>1. rows'[e] = rows[e]
    BY <1>6
  <2>2. rows[e] # Absent
    BY <1>2, <1>3, <1>6 DEF Fresher
  <2>3. /\ event.at <= rows[e].at
        /\ event.at = rows[e].at => Rank(event.status) <= Rank(rows[e].status)
    <3>1. Rank(event.status) \in Nat /\ Rank(rows[e].status) \in Nat
      BY <1>1, <2>2, RankNat, AbsentIsNone
    <3> QED BY <1>2, <1>3, <1>6, <3>1 DEF Fresher
  <2> QED BY <2>1, <2>2, <2>3 DEF Freshest
<1> QED BY <1>5, <1>6

RowsFreshest == \A e \in Entity : Freshest(e)

LEMMA SameApplied ==
  ASSUME UNCHANGED <<log, processed, rows>>, RowsFreshest
  PROVE  RowsFreshest'
<1>1. \A e \in Entity : Applied(e)' = Applied(e)
  BY DEF Applied
<1> QED BY <1>1 DEF RowsFreshest, Freshest

(* The statement of a new event about an entity.                           *)
LEMMA UpsertKeeps ==
  ASSUME TypeInv, RowsFreshest, NEW e \in Entity, NEW i \in DOMAIN log[e], NEW seen,
         UNCHANGED log, processed' = processed \cup {<<e, i>>},
         ApplyEntityEvent(e, log[e][i], seen)
  PROVE  /\ RowsFreshest'
         /\ \E S : rows' \in [Entity -> S]
         /\ rows'[e] = IF Fresher(log[e][i], rows[e]) THEN log[e][i] ELSE rows[e]
         /\ \A f \in Entity : f # e => rows'[f] = rows[f]
         /\ \A f \in Entity : rows'[f] = Absent \/ rows'[f] \in RowEvent(f)
<1> DEFINE event == log[e][i]
<1> PICK S : rows \in [Entity -> S]
  BY DEF TypeInv
<1>1. event \in RowEvent(e) /\ e \in Key
  BY DEF TypeInv, Key
<1>2. rows' = IF Fresher(event, rows[e]) THEN [rows EXCEPT ![e] = event] ELSE rows
  BY DEF ApplyEntityEvent
<1> HIDE DEF event
<1>3. rows' \in [Entity -> S \cup {event}]
  BY <1>2
<1>4. /\ rows'[e] = IF Fresher(event, rows[e]) THEN event ELSE rows[e]
      /\ \A f \in Entity : f # e => rows'[f] = rows[f]
  BY <1>2
<1>5. /\ Applied(e)' = Applied(e) \cup {event}
      /\ \A f \in Entity : f # e => Applied(f)' = Applied(f)
  BY <1>1, OneMoreApplied DEF event
<1>6. Freshest(e)'
  BY <1>1, <1>4, <1>5, UpsertFreshest DEF RowsFreshest
<1>7. ASSUME NEW f \in Entity, f # e PROVE Freshest(f)'
  BY <1>4, <1>5, <1>7 DEF RowsFreshest, Freshest
<1>8. RowsFreshest'
  BY <1>6, <1>7 DEF RowsFreshest
<1>9. \A f \in Entity : rows'[f] = Absent \/ rows'[f] \in RowEvent(f)
  BY <1>1, <1>4 DEF TypeInv
<1> QED BY <1>3, <1>4, <1>8, <1>9 DEF event

-----------------------------------------------------------------------------
(* The counters.                                                           *)

InColumn(s, c) == {e \in Entity : StudentOf[e] = s /\ rows[e].status \in Counter[c]}

CountsExact ==
  \A s \in Student, c \in DOMAIN Counter : summary[s][c] = Cardinality(InColumn(s, c))

(* What the statement of p has seen of the table is still there.           *)
SeenIsNow(p) ==
  handling[p].stage = "statement" /\ handling[p].key \in Entity
    => \A f \in Counted(handling[p].key) : handling[p].seen[f] = rows[f].status

Alone == \A p, q \in Proc : handling[p] # Idle /\ handling[q] # Idle => p = q

InTurn == ~overlapped => Alone /\ (\A p \in Proc : SeenIsNow(p)) /\ CountsExact

LEMMA OthersColumns ==
  ASSUME TypeInv, NEW e \in Entity,
         \A f \in Entity : f # e => rows'[f] = rows[f],
         \A f \in Entity : rows'[f] = Absent \/ rows'[f] \in RowEvent(f),
         NEW s \in Student, NEW c \in DOMAIN Counter,
         s # StudentOf[e] \/ c \notin Columns(e)
  PROVE  InColumn(s, c)' = InColumn(s, c)
<1>1. CASE s # StudentOf[e]
  BY <1>1 DEF InColumn
<1>2. CASE c \notin Columns(e)
  <2>1. Counter[c] \cap Kind(e) = {} /\ "absent" \notin Counter[c]
    BY <1>2, ColumnsOfKind
  <2>2. rows[e].status \in Kind(e) \cup {"absent"} /\ rows'[e].status \in Kind(e) \cup {"absent"}
    BY DEF TypeInv, RowEvent, Absent
  <2>3. rows[e].status \notin Counter[c] /\ rows'[e].status \notin Counter[c]
    BY <2>1, <2>2
  <2> QED BY <2>3 DEF InColumn
<1> QED BY <1>1, <1>2

(* A recount from rows that are those of the table counts the table.       *)
LEMMA RecountExact ==
  ASSUME NEW e \in Entity, NEW seen, NEW status, NEW c \in Columns(e),
         \A f \in Counted(e) : f # e => seen[f] = rows'[f].status,
         status = rows'[e].status,
         \A f \in Entity : rows'[f] = Absent \/ rows'[f] \in RowEvent(f)
  PROVE  Count(e, seen, status, c) = Cardinality(InColumn(StudentOf[e], c)')
<1> DEFINE counted == {f \in Counted(e) : (IF f = e THEN status ELSE seen[f]) \in Counter[c]}
<1>1. c \in DOMAIN Counter
  <2>1. \E d \in DOMAIN Counter : TRUE
    BY DEF Counter
  <2> QED BY <2>1, ColumnsOfKind
<1>2. ASSUME NEW f \in Entity, First[f] # First[e] PROVE rows'[f].status \notin Counter[c]
  <2>1. Kind(f) \cap Kind(e) = {}
    BY <1>2 DEF First, Kind
  <2>2. rows'[f].status \in Kind(f) \cup {"absent"}
    BY DEF RowEvent, Absent
  <2>3. "absent" \notin Counter[c] /\ Counter[c] \cap Kind(f) = {}
    <3>1. c \notin Columns(f)
      BY <1>2, KindAssumption DEF Columns, First, Entity
    <3> QED BY <1>1, <3>1, ColumnsOfKind
  <2> QED BY <2>2, <2>3
<1>3. counted = InColumn(StudentOf[e], c)'
  <2>1. ASSUME NEW f \in Counted(e)
        PROVE  (IF f = e THEN status ELSE seen[f]) = rows'[f].status
    OBVIOUS
  <2>2. counted = {f \in Counted(e) : rows'[f].status \in Counter[c]}
    BY <2>1
  <2>3. Counted(e) = {f \in Entity : StudentOf[f] = StudentOf[e] /\ First[f] = First[e]}
    BY DEF Counted
  <2>4. InColumn(StudentOf[e], c)' =
          {f \in Entity : StudentOf[f] = StudentOf[e] /\ rows'[f].status \in Counter[c]}
    BY DEF InColumn
  <2> HIDE DEF counted
  <2> QED BY <1>2, <2>2, <2>3, <2>4
<1> QED BY <1>3 DEF Count

LEMMA UpsertCounts ==
  ASSUME TypeInv, TypeInv', CountsExact, NEW e \in Entity, NEW event, NEW seen,
         ApplyEntityEvent(e, event, seen),
         rows'[e] = IF Fresher(event, rows[e]) THEN event ELSE rows[e],
         \A f \in Entity : f # e => rows'[f] = rows[f],
         \A f \in Counted(e) : seen[f] = rows[f].status
  PROVE  CountsExact'
<1> DEFINE status == IF Fresher(event, rows[e]) THEN event.status ELSE seen[e]
<1> PICK S : summary \in [Student -> [DOMAIN Counter -> S]]
  BY DEF TypeInv
<1>1. summary' = [summary EXCEPT ![StudentOf[e]] =
        [c \in DOMAIN Counter |->
           IF c \in Columns(e) THEN Count(e, seen, status, c) ELSE @[c]]]
  BY DEF ApplyEntityEvent
<1>2. status = rows'[e].status
  <2>1. e \in Counted(e)
    BY DEF Counted
  <2> QED BY <2>1
<1> HIDE DEF status
<1>3. \A f \in Entity : rows'[f] = Absent \/ rows'[f] \in RowEvent(f)
  BY DEF TypeInv
<1>4. \A f \in Counted(e) : f # e => seen[f] = rows'[f].status
  BY DEF Counted
<1>5. StudentOf[e] \in Student
  BY StudentAssumption
<1>6. ASSUME NEW s \in Student, NEW c \in DOMAIN Counter
      PROVE  summary'[s][c] = Cardinality(InColumn(s, c)')
  <2>1. CASE s = StudentOf[e] /\ c \in Columns(e)
    <3>1. summary'[s][c] = Count(e, seen, status, c)
      BY <1>1, <2>1
    <3> QED BY <1>2, <1>3, <1>4, <2>1, <3>1, RecountExact
  <2>2. CASE s # StudentOf[e] \/ c \notin Columns(e)
    <3>1. summary'[s][c] = summary[s][c]
      BY <1>1, <2>2
    <3>2. InColumn(s, c)' = InColumn(s, c)
      BY <1>3, <2>2, OthersColumns
    <3> QED BY <3>1, <3>2 DEF CountsExact
  <2> QED BY <2>1, <2>2
<1> QED BY <1>6 DEF CountsExact

LEMMA SameCounts ==
  ASSUME CountsExact, UNCHANGED <<rows, summary>>
  PROVE  CountsExact'
BY DEF CountsExact, InColumn

-----------------------------------------------------------------------------
(* The invariant.                                                          *)

ReportInv == TypeInv /\ RowsFreshest /\ overlapped \in BOOLEAN /\ InTurn

LEMMA PublishKeeps ==
  ASSUME ReportInv, NEW k \in Key, NEW event, Publish(k, event),
         k \in Entity => event \in RowEvent(k)
  PROVE  ReportInv'
<1>1. UNCHANGED <<rows, summary, handling, processed, overlapped>>
  BY DEF Publish, readModel
<1>2. TypeInv'
  BY PublishTypeInv DEF ReportInv
<1>3. \A e \in Entity : Applied(e)' = Applied(e)
  BY PublishApplied DEF ReportInv
<1>4. RowsFreshest'
  BY <1>1, <1>3 DEF ReportInv, RowsFreshest, Freshest
<1>5. InTurn'
  BY <1>1, SameCounts DEF ReportInv, InTurn, Alone, SeenIsNow
<1> QED BY <1>1, <1>2, <1>4, <1>5 DEF ReportInv

LEMMA BeginKeeps ==
  ASSUME ReportInv, NEW p \in Proc, NEW k \in Key, NEW i, Begin(p, k, i)
  PROVE  ReportInv'
<1>1. /\ UNCHANGED <<log, rows, summary, processed>>
      /\ overlapped' = (overlapped \/ Busy # {})
  BY DEF Begin, readModel
<1>2. /\ TypeInv'
      /\ handling'[p].stage = "statement" /\ handling'[p].key = k
      /\ k \in Entity => handling'[p].seen = [f \in Counted(k) |-> rows[f].status]
      /\ \A q \in Proc : q # p => handling'[q] = handling[q]
  BY BeginJob DEF ReportInv
<1>3. RowsFreshest'
  BY <1>1, SameApplied DEF ReportInv
<1>4. overlapped' \in BOOLEAN /\ (~overlapped' => ~overlapped /\ Busy = {})
  BY <1>1 DEF ReportInv
<1>5. ASSUME ~overlapped'
      PROVE  Alone' /\ (\A q \in Proc : SeenIsNow(q)') /\ CountsExact'
  <2>1. \A q \in Proc : q # p => handling'[q] = Idle
    BY <1>2, <1>4, <1>5 DEF Busy
  <2>2. Alone'
    BY <2>1 DEF Alone
  <2>3. ASSUME NEW q \in Proc PROVE SeenIsNow(q)'
    <3>1. CASE q = p
      BY <1>1, <1>2, <3>1 DEF SeenIsNow
    <3>2. CASE q # p
      BY <2>1, <3>2 DEF SeenIsNow, Idle
    <3> QED BY <3>1, <3>2
  <2>4. CountsExact'
    BY <1>1, <1>4, <1>5, SameCounts DEF ReportInv, InTurn
  <2> QED BY <2>2, <2>3, <2>4
<1> QED BY <1>2, <1>3, <1>4, <1>5 DEF ReportInv, InTurn

(* A replica that goes idle, or on to the refresh, without touching rows.  *)
LEMMA JobChangeKeeps ==
  ASSUME ReportInv, NEW p \in Proc, NEW job, handling' = [handling EXCEPT ![p] = job],
         UNCHANGED <<log, rows, summary, overlapped>>, JobTyped(job),
         job # Idle => handling[p] # Idle /\ job.stage = "refresh",
         RowsFreshest',
         \A x \in processed' : \E k \in Key : \E i \in DOMAIN log[k] : x = <<k, i>>
  PROVE  ReportInv'
<1>1. /\ \E S : handling' \in [Proc -> S]
      /\ \A q \in Proc : JobTyped(handling[q])'
      /\ handling'[p] = job /\ \A q \in Proc : q # p => handling'[q] = handling[q]
  BY JobChange DEF ReportInv
<1>2. TypeInv'
  BY <1>1 DEF ReportInv, TypeInv
<1>3. ASSUME ~overlapped
      PROVE  Alone' /\ (\A q \in Proc : SeenIsNow(q)') /\ CountsExact'
  <2>1. Alone /\ (\A q \in Proc : SeenIsNow(q)) /\ CountsExact
    BY <1>3 DEF ReportInv, InTurn
  <2>2. Alone'
    BY <1>1, <2>1 DEF Alone
  <2>3. \A q \in Proc : SeenIsNow(q)'
    BY <1>1, <2>1 DEF SeenIsNow, Idle
  <2> QED BY <2>1, <2>2, <2>3, SameCounts
<1> QED BY <1>2, <1>3 DEF ReportInv, InTurn

LEMMA IdleKeeps ==
  ASSUME ReportInv, NEW p \in Proc, handling' = [handling EXCEPT ![p] = Idle],
         UNCHANGED <<log, rows, summary, processed, overlapped>>
  PROVE  ReportInv'
<1>1. RowsFreshest'
  BY SameApplied DEF ReportInv
<1>2. JobTyped(Idle)
  BY DEF JobTyped
<1>3. \A x \in processed' : \E k \in Key : \E i \in DOMAIN log[k] : x = <<k, i>>
  BY DEF ReportInv, TypeInv
<1> QED BY <1>1, <1>2, <1>3, JobChangeKeeps

LEMMA ApplyKeeps ==
  ASSUME ReportInv, NEW p \in Proc, Apply(p)
  PROVE  ReportInv'
<1> DEFINE k == handling[p].key
           i == handling[p].index
           job == [stage |-> "refresh", key |-> k, index |-> i]
<1>1. /\ handling[p].stage = "statement" /\ UNCHANGED <<log, overlapped>>
      /\ handling[p] # Idle
  BY DEF Apply, Idle
<1>2. k \in Key /\ i \in DOMAIN log[k] /\ JobTyped(job)
  BY <1>1 DEF ReportInv, TypeInv, JobTyped
<1>3. CASE <<k, i>> \in processed
  BY <1>1, <1>3, IdleKeeps DEF Apply, readModel
<1>4. CASE <<k, i>> \notin processed
  <2>1. /\ processed' = processed \cup {<<k, i>>}
        /\ handling' = [handling EXCEPT ![p] = job]
        /\ k \in Entity => ApplyEntityEvent(k, log[k][i], handling[p].seen)
        /\ k \notin Entity => ApplyBalanceEvent(k, log[k][i])
    BY <1>4 DEF Apply
  <2>2. \A x \in processed' : \E j \in Key : \E n \in DOMAIN log[j] : x = <<j, n>>
    BY <1>2, <2>1 DEF ReportInv, TypeInv
  <2>3. job # Idle /\ job.stage = "refresh"
    BY DEF Idle
  <2>4. CASE k \notin Entity
    <3>1. UNCHANGED <<rows, summary>>
      BY <2>1, <2>4 DEF ApplyBalanceEvent
    <3>2. RowsFreshest'
      <4>1. \A e \in Entity : Applied(e)' = Applied(e)
        BY <1>1, <1>2, <2>1, <2>4, OneMoreApplied DEF ReportInv
      <4> QED BY <3>1, <4>1 DEF ReportInv, RowsFreshest, Freshest
    <3> HIDE DEF job, k, i
    <3> QED BY <1>1, <1>2, <2>1, <2>2, <2>3, <3>1, <3>2, JobChangeKeeps
  <2>5. CASE k \in Entity
    <3> DEFINE event == log[k][i]
    <3> HIDE DEF job, k, i
    <3>1. /\ RowsFreshest'
          /\ \E S : rows' \in [Entity -> S]
          /\ rows'[k] = IF Fresher(event, rows[k]) THEN event ELSE rows[k]
          /\ \A f \in Entity : f # k => rows'[f] = rows[f]
          /\ \A f \in Entity : rows'[f] = Absent \/ rows'[f] \in RowEvent(f)
      BY <1>1, <1>2, <2>1, <2>5, UpsertKeeps DEF ReportInv
    <3>2. /\ \E S : handling' \in [Proc -> S]
          /\ \A q \in Proc : JobTyped(handling[q])'
          /\ handling'[p] = job /\ \A q \in Proc : q # p => handling'[q] = handling[q]
      BY <1>1, <1>2, <2>1, JobChange DEF ReportInv
    <3>3. \E S : summary' \in [Student -> [DOMAIN Counter -> S]]
      <4> PICK S : summary \in [Student -> [DOMAIN Counter -> S]]
        BY DEF ReportInv, TypeInv
      <4> DEFINE row == [c \in DOMAIN Counter |->
                 IF c \in Columns(k)
                   THEN Count(k, handling[p].seen,
                          IF Fresher(event, rows[k]) THEN event.status ELSE handling[p].seen[k], c)
                   ELSE summary[StudentOf[k]][c]]
                 T == S \cup {row[c] : c \in DOMAIN Counter}
      <4>1. summary' = [summary EXCEPT ![StudentOf[k]] = row]
        BY <2>1, <2>5 DEF ApplyEntityEvent
      <4>2. row \in [DOMAIN Counter -> T]
        OBVIOUS
      <4> HIDE DEF row
      <4>3. summary \in [Student -> [DOMAIN Counter -> T]]
        OBVIOUS
      <4> HIDE DEF T
      <4> QED BY <4>1, <4>2, <4>3
    <3>4. TypeInv'
      BY <1>1, <2>2, <3>1, <3>2, <3>3 DEF ReportInv, TypeInv
    <3>5. ASSUME ~overlapped
          PROVE  Alone' /\ (\A q \in Proc : SeenIsNow(q)') /\ CountsExact'
      <4>1. Alone /\ SeenIsNow(p) /\ CountsExact
        BY <3>5 DEF ReportInv, InTurn
      <4>2. \A q \in Proc : q # p => handling'[q] = Idle
        BY <1>1, <3>2, <4>1 DEF Alone
      <4>3. Alone'
        BY <4>2 DEF Alone
      <4>4. \A q \in Proc : SeenIsNow(q)'
        BY <2>3, <3>2, <4>2 DEF SeenIsNow, Idle
      <4>5. \A f \in Counted(k) : handling[p].seen[f] = rows[f].status
        BY <1>1, <2>5, <4>1 DEF SeenIsNow, k
      <4>6. CountsExact'
        <5> HIDE DEF event
        <5> QED BY <2>1, <2>5, <3>1, <3>4, <4>1, <4>5, UpsertCounts DEF ReportInv, event
      <4> QED BY <4>3, <4>4, <4>6
    <3> QED BY <1>1, <3>1, <3>4, <3>5 DEF ReportInv, InTurn
  <2> QED BY <2>4, <2>5
<1> QED BY <1>3, <1>4

LEMMA NextReportInv == ReportInv /\ [Next]_vars => ReportInv'
<1> SUFFICES ASSUME ReportInv, [Next]_vars PROVE ReportInv'
  OBVIOUS
<1>1. ASSUME NEW e \in Entity, PublishTransition(e) PROVE ReportInv'
  <2>1. PICK event \in RowEvent(e) : Publish(e, event)
    BY <1>1, TransitionPublishes DEF ReportInv
  <2> QED BY <2>1, PublishKeeps DEF Key
<1>2. ASSUME NEW s \in Student, PublishBalance(s) PROVE ReportInv'
  <2>1. PICK amount \in Amount : Publish(s, [balance |-> amount])
    BY <1>2 DEF PublishBalance
  <2>2. s \in Key /\ s \notin Entity
    BY KindAssumption DEF Key
  <2> QED BY <2>1, <2>2, PublishKeeps
<1>3. ASSUME NEW k \in Key, DeliverNext(k) \/ Redeliver(k) PROVE ReportInv'
  BY <1>3, BeginKeeps DEF DeliverNext, Redeliver
<1>4. ASSUME NEW p \in Proc, Apply(p) PROVE ReportInv'
  BY <1>4, ApplyKeeps
<1>5. ASSUME NEW p \in Proc, RefreshTeacherSummary(p) \/ Kill(p) PROVE ReportInv'
  BY <1>5, IdleKeeps DEF RefreshTeacherSummary, Kill, readModel
<1>6. CASE UNCHANGED vars
  <2>1. UNCHANGED <<log, rows, summary, processed, handling, overlapped>>
    BY <1>6 DEF vars, readModel
  <2>2. TypeInv'
    BY <2>1 DEF ReportInv, TypeInv, JobTyped
  <2>3. RowsFreshest'
    BY <2>1, SameApplied DEF ReportInv
  <2>4. InTurn'
    BY <2>1, SameCounts DEF ReportInv, InTurn, Alone, SeenIsNow
  <2> QED BY <2>1, <2>2, <2>3, <2>4 DEF ReportInv
<1> QED BY <1>1, <1>2, <1>3, <1>4, <1>5, <1>6 DEF Next

LEMMA InitReportInv == Init => ReportInv
<1> SUFFICES ASSUME Init PROVE ReportInv
  OBVIOUS
<1>1. TypeInv
  BY InitTypeInv
<1>2. /\ rows = [e \in Entity |-> Absent] /\ processed = {} /\ overlapped = FALSE
      /\ summary = [s \in Student |-> [c \in DOMAIN Counter |-> 0]]
      /\ handling = [p \in Proc |-> Idle]
  BY DEF Init
<1>3. \A e \in Entity : Applied(e) = {}
  BY <1>2 DEF Applied
<1>4. RowsFreshest
  BY <1>2, <1>3 DEF RowsFreshest, Freshest
<1>5. ASSUME NEW s \in Student, NEW c \in DOMAIN Counter
      PROVE  summary[s][c] = Cardinality(InColumn(s, c))
  <2>1. ASSUME NEW e \in Entity PROVE rows[e].status \notin Counter[c]
    BY <1>2, ColumnsOfKind DEF Absent
  <2>2. InColumn(s, c) = {}
    BY <2>1 DEF InColumn
  <2> QED BY <1>2, <2>2, FS_EmptySet
<1>6. Alone /\ \A p \in Proc : SeenIsNow(p)
  BY <1>2 DEF Alone, SeenIsNow, Idle
<1> QED BY <1>1, <1>2, <1>4, <1>5, <1>6 DEF ReportInv, InTurn, CountsExact

(* The invariant behind the theorems below.                                *)
THEOREM ReportInvariant == Spec => []ReportInv
BY InitReportInv, NextReportInv, PTL DEF Spec

(* Whatever is delivered again, late or to two replicas at once, the row   *)
(* of an entity is the freshest event applied (the upserts of              *)
(* ApplyLessonEvent, ApplyAssignmentEvent and ApplyReceiptEvent).          *)
THEOREM RowsAreFreshest == Spec => []FreshestWins
<1>1. ReportInv => FreshestWins
  BY DEF ReportInv, RowsFreshest, Freshest, FreshestWins
<1> QED BY <1>1, ReportInvariant, PTL

(* Until two replicas have been at work at once, the counters of a student *)
(* are those of the rows, although each statement counts from a snapshot   *)
(* and adds its own row.                                                   *)
THEOREM CountersExactInTurn == Spec => []SummaryExactInTurn
<1>1. ReportInv => SummaryExactInTurn
  BY DEF ReportInv, InTurn, CountsExact, InColumn, SummaryExactInTurn
<1> QED BY <1>1, ReportInvariant, PTL
=============================================================================
