-------------------------------- MODULE File --------------------------------
(***************************************************************************)
(* file-service: the bytes of a file are an object of the storage (local   *)
(* disk or S3), what is known of it is a row of files.  An upload puts the *)
(* object, then inserts the row; if the insert fails it removes the object.*)
(*                                                                         *)
(* A key (storage_key, and with it the id of the row) is a random UUID, so *)
(* no two uploads share one.  Purpose, name and type ride along.           *)
(***************************************************************************)
EXTENDS Integers

CONSTANTS
  User,
  Key,   \* keys uploads may get
  Proc,  \* handler coroutines
  None

(* What the constants are asked for.                                       *)
NobodyIsUser == None \notin User

VARIABLES
  object,     \* keys of the objects in the storage
  row,        \* owner_user_id of each row of files
  upload,     \* uploads in progress
  result,     \* the status each handler has answered with, 0 until then
  issued,     \* keys given out
  uncertain,  \* history: keys of statements that failed though they took effect
  leaked      \* history: keys whose handler died or could not remove the object

vars == <<object, row, upload, result, issued, uncertain, leaked>>

NoUpload == [pc |-> "idle"]
UploadTask == [pc: {"put", "save", "cleanup"}, key: Key, owner: User]
Status == {0, 200, 400, 403, 404, 413, 500, 503, 504}

TypeOK ==
  /\ object \subseteq Key
  /\ row \in [Key -> User \cup {None}]
  /\ upload \in [Proc -> UploadTask \cup {NoUpload}]
  /\ issued \subseteq Key
  /\ uncertain \subseteq Key
  /\ leaked \subseteq Key

Init ==
  /\ object = {}
  /\ row = [k \in Key |-> None]
  /\ upload = [p \in Proc |-> NoUpload]
  /\ result = [p \in Proc |-> 0]
  /\ issued = {}
  /\ uncertain = {}
  /\ leaked = {}

-----------------------------------------------------------------------------

Running(p) == result[p] = 0 /\ upload[p] = NoUpload
Answer(p, status) == result' = [result EXCEPT ![p] = status]
EndUpload(p, status) ==
  /\ upload' = [upload EXCEPT ![p] = NoUpload]
  /\ Answer(p, status)

(* A form without purpose or file, or of another type.                     *)
ParseUploadRequest(p) ==
  /\ Running(p)
  /\ Answer(p, 400)
  /\ UNCHANGED <<object, row, upload, issued, uncertain, leaked>>

Upload(p, owner, fits) ==
  /\ Running(p)
  /\ IF fits
       THEN /\ issued # Key
            /\ LET k == CHOOSE k \in Key \ issued : TRUE
               IN  /\ upload' = [upload EXCEPT ![p] =
                                   [pc |-> "put", key |-> k, owner |-> owner]]
                   /\ issued' = issued \cup {k}
            /\ UNCHANGED result
       ELSE Answer(p, 413) /\ UNCHANGED <<upload, issued>>
  /\ UNCHANGED <<object, row, uncertain, leaked>>

At(p, pc) == result[p] = 0 /\ upload[p].pc = pc

PutFault(p) ==  \* the error of the storage is swallowed
  /\ At(p, "put")
  /\ \/ object' = object \cup {upload[p].key}
     \/ UNCHANGED object
  /\ upload' = [upload EXCEPT ![p].pc = "save"]
  /\ UNCHANGED <<row, result, issued, uncertain, leaked>>

Put(p) ==
  /\ At(p, "put")
  /\ object' = object \cup {upload[p].key}
  /\ upload' = [upload EXCEPT ![p].pc = "save"]
  /\ UNCHANGED <<row, result, issued, uncertain, leaked>>

(* The storage reports an error, with or without having stored the object. *)
(* Put is outside the try block: nothing removes the object.               *)
PutFails(p) ==
  /\ At(p, "put")
  /\ \/ UNCHANGED <<object, uncertain>>
     \/ /\ object' = object \cup {upload[p].key}
        /\ uncertain' = uncertain \cup {upload[p].key}
  /\ EndUpload(p, 500)
  /\ UNCHANGED <<row, issued, leaked>>

SaveFileMeta(p) ==
  /\ At(p, "save")
  /\ row' = [row EXCEPT ![upload[p].key] = upload[p].owner]
  /\ EndUpload(p, 200)
  /\ UNCHANGED <<object, issued, uncertain, leaked>>

(* The insert throws, with or without having been committed.               *)
SaveFails(p) ==
  /\ At(p, "save")
  /\ \/ UNCHANGED <<row, uncertain>>
     \/ /\ row' = [row EXCEPT ![upload[p].key] = upload[p].owner]
        /\ uncertain' = uncertain \cup {upload[p].key}
  /\ upload' = [upload EXCEPT ![p].pc = "cleanup"]
  /\ UNCHANGED <<object, result, issued, leaked>>

DeleteFault(p) ==  \* the object is left behind
  /\ At(p, "cleanup")
  /\ EndUpload(p, 500)
  /\ UNCHANGED <<object, row, issued, uncertain, leaked>>

Delete(p) ==
  /\ At(p, "cleanup")
  /\ object' = object \ {upload[p].key}
  /\ EndUpload(p, 500)
  /\ UNCHANGED <<row, issued, uncertain, leaked>>

(* A failed removal is only logged.                                        *)
DeleteFails(p) ==
  /\ At(p, "cleanup")
  /\ leaked' = leaked \cup {upload[p].key}
  /\ EndUpload(p, 500)
  /\ UNCHANGED <<object, row, issued, uncertain>>

(* The handler dies, or its process.                                       *)
Fail(p, status) ==
  /\ result[p] = 0
  /\ leaked' = IF upload[p] = NoUpload THEN leaked ELSE leaked \cup {upload[p].key}
  /\ EndUpload(p, status)
  /\ UNCHANGED <<object, row, issued, uncertain>>

(* CheckAccess of identity-service is asked with the requester on the side *)
(* of its role.                                                            *)
EnsureAccess(k, u, role, links) ==
  \/ row[k] = u
  \/ (IF role = "teacher" THEN <<u, row[k]>> ELSE <<row[k], u>>) \in links

(* GetMeta and, if content is asked for, Download.                         *)
Read(p, k, u, role, content, links) ==
  /\ Running(p)
  /\ Answer(p, IF row[k] = None THEN 404
               ELSE IF ~EnsureAccess(k, u, role, links) THEN 403
               ELSE IF content /\ k \notin object THEN 500
               ELSE 200)
  /\ UNCHANGED <<object, row, upload, issued, uncertain, leaked>>

Forget(p) ==
  /\ result[p] # 0
  /\ Answer(p, 0)
  /\ UNCHANGED <<object, row, upload, issued, uncertain, leaked>>

Next ==
  \E p \in Proc :
    \/ ParseUploadRequest(p)
    \/ Put(p) \/ PutFails(p) \/ SaveFileMeta(p) \/ SaveFails(p)
    \/ Delete(p) \/ DeleteFails(p) \/ Fail(p, 503) \/ Forget(p)
    \/ \E u \in User, fits \in BOOLEAN : Upload(p, u, fits)
    \/ \E u \in User, k \in Key, role \in {"teacher", "student"},
          content \in BOOLEAN, links \in SUBSET (User \X User) :
         Read(p, k, u, role, content, links)

Spec == Init /\ [][Next]_vars

-----------------------------------------------------------------------------
(* Properties.                                                             *)

(* A row has its object, unless the insert of the row failed after it had  *)
(* been committed: then the object is removed and the row stays.           *)
RowBackedInTurn ==
  \A k \in Key : row[k] # None => k \in object \cup uncertain

(* An object without a row belongs to an upload in progress, or the        *)
(* storage or the handler failed: no refusal and no handled error leaves   *)
(* bytes behind.                                                           *)
OrphansExplained ==
  \A k \in object :
    \/ row[k] # None
    \/ k \in uncertain \cup leaked
    \/ \E p \in Proc : upload[p] # NoUpload /\ upload[p].key = k

=============================================================================
