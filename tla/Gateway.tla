------------------------------ MODULE Gateway -------------------------------
(***************************************************************************)
(* A request's way: api-gateway authenticates it, calls the services of    *)
(* its route one after another (Routes) and answers.  identity-service and *)
(* file-service are modules Identity and File; an RPC of another service   *)
(* is carried out, refused or fails, and is all or nothing unless it is    *)
(* one of those Routes calls Untidy.                                       *)
(*                                                                         *)
(* A call sent runs in a handler of its service whether or not the gateway *)
(* still waits for it: when the deadline passes, the gateway gives up or   *)
(* sends the call again, and the first may still be carried out.           *)
(***************************************************************************)
EXTENDS Routes, FiniteSets

CONSTANTS
  Caller,        \* clients, each with one request at a time (browser tabs)
  Menu,          \* the routes each of them uses
  ArgsOf(_),     \* what requests name, by the first RPC of their route
  Email, Password, Key,
  SeedAccount,   \* the accounts to start with
  SeedSession,   \* the tokens to start with
  Handler,       \* handlers of the services
  MaxRequests,   \* bound on the requests of a behaviour
  MaxFaults,     \* bound on deadlines passed, dead handlers and failed statements
  None

ASSUME MenuAssumption == Menu \in [Caller -> SUBSET Routes] /\ None \notin Routes
ASSUME SessionAssumption ==
  /\ SeedSession \in [Caller -> Email \cup {None}]
  /\ \A c \in Caller : SeedSession[c] # None => SeedAccount[SeedSession[c]] # None

VARIABLES
  session,   \* whose token each client holds
  request,   \* the request of each client
  answer,    \* how its last request was answered
  carried,   \* history: how often the command of its last request took effect,
             \* if only in part
  call,      \* what each handler runs, for whom
  account, link, change,
  object, row, upload, issued, uncertain, leaked,
  result,    \* the status each handler has answered with
  requests, faults

Users == INSTANCE Identity WITH Proc <- Handler
Files == INSTANCE File WITH User <- Email, Proc <- Handler

ASSUME UserAssumption == Users!SeedIsAccounts /\ Files!NobodyIsUser

clientVars == <<session, request, answer>>
userVars == <<account, link, change>>
fileVars == <<object, row, upload, issued, uncertain, leaked>>
vars == <<clientVars, carried, call, userVars, fileVars, result, requests, faults>>

Idle == [route |-> None]
NoCall == [tie |-> "none"]

(* What a request names; a route uses part of it.                          *)
Arg == [email: Email, password: Password, new: Password, role: Users!Role]
ASSUME ArgAssumption == \A r \in Routes : ArgsOf(r.calls[1]) \subseteq Arg

Init ==
  /\ session = SeedSession
  /\ request = [c \in Caller |-> Idle]
  /\ answer = [c \in Caller |-> "none"]
  /\ carried = [c \in Caller |-> 0]
  /\ call = [p \in Handler |-> NoCall]
  /\ Users!Init
  /\ Files!Init
  /\ requests = 0
  /\ faults = 0

-----------------------------------------------------------------------------
(* The statuses of an answer on its way back.                              *)

(* ToGrpcCode and back: what gRPC has no code for comes out as 500.        *)
OverGrpc(status) == IF status \in {200, 400, 401, 403, 404, 409, 422} THEN status ELSE 500

Returned(method, status) ==
  IF method \in FileClient.once THEN status ELSE OverGrpc(status)

(* What the gateway makes of a call that gets no answer; 503, from HTTP or *)
(* an unreachable service, fares the same.                                 *)
Unanswered == 504

(* What the status of an answer tells the client.                          *)
Class(status) ==
  IF status < 400 THEN "done" ELSE IF status < 500 THEN "refused" ELSE "failed"

(* The refusal of an untidy command does not tell whether it left traces.  *)
Told(method, status) ==
  IF Class(status) = "refused" /\ method \in Untidy THEN "unclear" ELSE Class(status)

Attempts(method) == IF method \in Repeatable THEN 2 ELSE 1

-----------------------------------------------------------------------------
(* The gateway.                                                            *)

FreeHandler == CHOOSE p \in Handler : call[p] = NoCall
HandlerFree == \E p \in Handler : call[p] = NoCall
Method(r) == r.route.calls[r.step]

(* Client c's request goes on as r, whose next call is sent.               *)
Send(c, r, calls) ==
  /\ HandlerFree
  /\ request' = [request EXCEPT ![c] = r]
  /\ call' = [calls EXCEPT ![FreeHandler] =
       [tie |-> "awaited", caller |-> c, method |-> Method(r), arg |-> r.arg,
        user |-> r.user, role |-> r.role]]

(* Calls of earlier requests of c no longer count for its new one.         *)
Forgotten(c) ==
  [p \in Handler |->
     IF call[p] # NoCall /\ call[p].caller = c
       THEN [call[p] EXCEPT !.tie = "past"] ELSE call[p]]

RoleOf(u) == IF u = None THEN None ELSE account[u].role

(* Authenticate, and the first call of the route.                          *)
Begin(c, route, arg) ==
  /\ requests < MaxRequests
  /\ requests' = requests + 1
  /\ request[c] = Idle
  /\ carried' = [carried EXCEPT ![c] = 0]
  /\ ~route.open => session[c] # None
  /\ answer' = [answer EXCEPT ![c] = "none"]
  /\ LET user == IF route.open THEN None ELSE session[c]
     IN  Send(c, [route |-> route, arg |-> arg, step |-> 1, attempt |-> 1,
                  user |-> user, role |-> RoleOf(user)],
              Forgotten(c))
  /\ UNCHANGED <<session, userVars, fileVars, result, faults>>

(* No token, or one that has run out.                                      *)
Unauthorized(c) ==
  /\ requests < MaxRequests
  /\ requests' = requests + 1
  /\ request[c] = Idle
  /\ \E route \in Menu[c] : ~route.open
  /\ session' = [session EXCEPT ![c] = None]
  /\ answer' = [answer EXCEPT ![c] = Class(401)]
  /\ carried' = [carried EXCEPT ![c] = 0]
  /\ call' = Forgotten(c)
  /\ UNCHANGED <<request, userVars, fileVars, result, faults>>

(* A call of c has ended with a status, calls being what is left of the    *)
(* others.                                                                 *)
NextCall(c, status, calls) ==
  LET r == request[c]
  IN  /\ status = 200
      /\ r.step < Len(r.route.calls)
      /\ Send(c, [r EXCEPT !.step = @ + 1, !.attempt = 1], calls)
      /\ UNCHANGED <<session, answer>>

Retry(c, status, calls) ==
  LET r == request[c]
  IN  /\ status \in {500, 503, 504}
      /\ r.attempt < Attempts(Method(r))
      /\ Send(c, [r EXCEPT !.attempt = @ + 1], calls)
      /\ UNCHANGED <<session, answer>>

Respond(c, status, calls) ==
  LET r == request[c]
      last == r.step = Len(r.route.calls)
  IN  /\ status = 200 => last
      /\ answer' = [answer EXCEPT ![c] =
           Told(Method(r), IF status = 200 THEN r.route.status ELSE status)]
      /\ session' = [session EXCEPT ![c] =
           IF r.route.open /\ status = 200 THEN r.arg.email ELSE @]
      /\ request' = [request EXCEPT ![c] = Idle]
      /\ call' = calls

GoOn(c, status, calls) ==
  NextCall(c, status, calls) \/ Retry(c, status, calls) \/ Respond(c, status, calls)

Awaited(c, p) == call[p].tie = "awaited" /\ call[p].caller = c

Receive(c, p) ==
  /\ Awaited(c, p)
  /\ result[p] # 0
  /\ GoOn(c, Returned(call[p].method, result[p]), [call EXCEPT ![p] = NoCall])
  /\ result' = [result EXCEPT ![p] = 0]
  /\ UNCHANGED <<carried, userVars, fileVars, requests, faults>>

Deadline(c, p) ==
  /\ faults < MaxFaults
  /\ faults' = faults + 1
  /\ Awaited(c, p)
  /\ result[p] = 0
  /\ GoOn(c, Unanswered, [call EXCEPT ![p].tie = "abandoned"])
  /\ UNCHANGED <<carried, userVars, fileVars, result, requests>>

(* An answer nobody waits for.                                             *)
Discard(p) ==
  /\ call[p].tie \in {"abandoned", "past"}
  /\ result[p] # 0
  /\ result' = [result EXCEPT ![p] = 0]
  /\ call' = [call EXCEPT ![p] = NoCall]
  /\ UNCHANGED <<clientVars, carried, userVars, fileVars, requests, faults>>

-----------------------------------------------------------------------------
(* The services.                                                           *)

Runs(p, method) == call[p] # NoCall /\ call[p].method = method

(* The command of call p takes effect.                                     *)
CarryOut(p) ==
  carried' = IF call[p].tie = "past" THEN carried
             ELSE [carried EXCEPT ![call[p].caller] = @ + 1]
CarryOutIf(p, done) == IF done THEN CarryOut(p) ELSE UNCHANGED carried

Rejected(p) ==
  /\ call[p] # NoCall
  /\ call[p].method \in {"Register", "CreateStudent", "ChangePassword"}
  /\ MayCall(call[p].role, call[p].method)
  /\ Users!Reject(p)
  /\ UNCHANGED carried

Registering(p) ==
  /\ Runs(p, "Register")
  /\ LET a == call[p].arg IN Users!Register(p, a.email, a.role, a.password)
  /\ CarryOutIf(p, account' # account)

LoggingIn(p) ==
  /\ Runs(p, "Login")
  /\ LET a == call[p].arg IN Users!Login(p, a.email, a.password)
  /\ UNCHANGED carried

ChangingPassword(p) ==
  /\ Runs(p, "ChangePassword")
  /\ \/ /\ LET a == call[p].arg
           IN Users!ReadForChange(p, call[p].user, a.password, a.new)
        /\ UNCHANGED carried
     \/ Users!UpdatePasswordHash(p) /\ CarryOut(p)

CreatingStudent(p) ==
  /\ Runs(p, "CreateStudent")
  /\ IF MayCall(call[p].role, "CreateStudent")
       THEN /\ Users!CreateStudentWithLink(p, call[p].user, call[p].arg.email,
                                           call[p].arg.password)
            /\ CarryOutIf(p, account' # account)
       ELSE Users!Answer(p, 403) /\ result[p] = 0 /\ UNCHANGED <<userVars, carried>>

AskingIdentity(p) ==
  /\ \/ Runs(p, "GetUser") /\ Users!GetUser(p, call[p].user)
     \/ Runs(p, "GetStudent") /\ Users!GetStudentLink(p, call[p].arg.email)
     \/ Runs(p, "ListStudents") /\ Users!ListStudents(p)
  /\ UNCHANGED carried

IdentityStep(p) ==
  /\ \/ Rejected(p) \/ Registering(p) \/ LoggingIn(p) \/ ChangingPassword(p)
     \/ CreatingStudent(p) \/ AskingIdentity(p)
  /\ UNCHANGED <<clientVars, call, fileVars, requests, faults>>

Uploading(p) ==
  /\ Runs(p, "Upload")
  /\ \/ \E fits \in BOOLEAN : Files!Upload(p, call[p].user, fits)
     \/ Files!ParseUploadRequest(p)
     \/ Files!Put(p)
     \/ Files!SaveFileMeta(p)
     \/ Files!Delete(p)
  /\ CarryOutIf(p, row' # row)

(* The file is named in the path, any of them.                             *)
Reading(p) ==
  /\ \E k \in Key, content \in BOOLEAN :
       /\ Runs(p, IF content THEN "Download" ELSE "GetMeta")
       /\ Files!Read(p, k, call[p].user, call[p].role, content, link)
  /\ UNCHANGED carried

FileStep(p) ==
  /\ Uploading(p) \/ Reading(p)
  /\ UNCHANGED <<clientVars, call, userVars, requests, faults>>

(* A storage or a statement fails.                                         *)
FileFault(p) ==
  /\ faults < MaxFaults
  /\ faults' = faults + 1
  /\ Runs(p, "Upload")
  /\ Files!PutFails(p) \/ Files!SaveFails(p) \/ Files!DeleteFails(p)
  /\ CarryOutIf(p, row' # row)
  /\ UNCHANGED <<clientVars, call, userVars, requests>>

(* RPCs of the other services.                                             *)
Elsewhere(method) ==
  method \notin IdentityClient.repeats \cup IdentityClient.once \cup FileClient.once

Perform(p) ==
  /\ call[p] # NoCall
  /\ Elsewhere(call[p].method)
  /\ result[p] = 0
  /\ IF ~MayCall(call[p].role, call[p].method)
       THEN Users!Answer(p, 403) /\ UNCHANGED carried
       ELSE \/ Users!Answer(p, 200) /\ CarryOutIf(p, call[p].method \in Commands)
            \/ \E status \in {404, 409} :
                 /\ Users!Answer(p, status)
                 /\ \/ UNCHANGED carried
                    \/ call[p].method \in Untidy /\ CarryOut(p)
  /\ UNCHANGED <<clientVars, call, userVars, fileVars, requests, faults>>

(* The handler dies, its service is not there, or its database fails.      *)
Fail(p) ==
  /\ faults < MaxFaults
  /\ faults' = faults + 1
  /\ call[p] # NoCall
  /\ result[p] = 0
  /\ Users!Answer(p, 500)
  /\ change' = [change EXCEPT ![p] = Users!NoChange]
  /\ upload' = [upload EXCEPT ![p] = Files!NoUpload]
  /\ leaked' = IF upload[p] = Files!NoUpload THEN leaked
               ELSE leaked \cup {upload[p].key}
  /\ UNCHANGED <<clientVars, carried, call, account, link, object, row, issued,
                 uncertain, requests>>

HandlerStep(p) == IdentityStep(p) \/ FileStep(p) \/ Perform(p)

(* Every request has been answered and every call has ended.  Requests and *)
(* faults are bounded, so a behaviour ends here or in a deadlock.          *)
Rest ==
  /\ requests = MaxRequests
  /\ \A c \in Caller : request[c] = Idle
  /\ \A p \in Handler : call[p] = NoCall
  /\ UNCHANGED vars

Next ==
  \/ Rest
  \/ \E c \in Caller :
       \/ Unauthorized(c)
       \/ \E route \in Menu[c] : \E arg \in ArgsOf(route.calls[1]) : Begin(c, route, arg)
       \/ \E p \in Handler : Receive(c, p) \/ Deadline(c, p)
  \/ \E p \in Handler : HandlerStep(p) \/ FileFault(p) \/ Fail(p) \/ Discard(p)

Spec == Init /\ [][Next]_vars

-----------------------------------------------------------------------------
(* Properties.                                                             *)

(* A request answered with a refusal has not been carried out, not even in *)
(* part, and will not be: the client need not look whether its command     *)
(* took effect.  Of the untidy commands that cannot be said.               *)
RefusedUndone == \A c \in Caller : answer[c] = "refused" => carried[c] = 0

(* One request never makes its command take effect twice.                  *)
CarriedOutOnce == \A c \in Caller : carried[c] <= 1

PasswordInTurn == Users!PasswordInTurn
RowBackedInTurn == Files!RowBackedInTurn
OrphansExplained == Files!OrphansExplained
=============================================================================
