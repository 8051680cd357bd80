--------------------------- MODULE GatewayProofs ---------------------------
(* Theorems about module Gateway, for any clients, menus, handlers, bounds *)
(* and numbers of faults.                                                  *)
EXTENDS Gateway, TLAPS

-----------------------------------------------------------------------------
(* The tables.                                                             *)

(* A route makes at least one call, only the last may change anything, and *)
(* a route without a token makes the one call that needs none.             *)
WellFormed(r) ==
  /\ Len(r.calls) \in Nat \ {0}
  /\ \A i \in 1..(Len(r.calls) - 1) : r.calls[i] \in Repeatable
  /\ r.open => Len(r.calls) = 1 /\ r.calls[1] \in {"Register", "Login"}
  /\ r.status \in {200, 201}

LEMMA CallingWellFormed ==
  ASSUME NEW status \in {200, 201}, NEW table, NEW r \in Calling(status, table)
  PROVE  WellFormed(r)
<1>1. PICK entry \in table : r = Route(entry[1], <<entry[2]>>, status)
  BY DEF Calling
<1>2. r.status = status /\ r.open = FALSE /\ r.calls = <<entry[2]>>
  BY <1>1 DEF Route
<1>3. Len(r.calls) = 1
  BY <1>2
<1> QED BY <1>2, <1>3 DEF WellFormed

LEMMA Reads == \A table : \A r \in Calling(200, table) : WellFormed(r)
BY CallingWellFormed

LEMMA Creations == \A table : \A r \in Calling(201, table) : WellFormed(r)
BY CallingWellFormed

LEMMA OpenWellFormed ==
  ASSUME NEW name, NEW method, NEW status,
         method = "Register" \/ method = "Login", status = 200 \/ status = 201
  PROVE  WellFormed(OpenRoute(name, <<method>>, status))
<1> DEFINE r == OpenRoute(name, <<method>>, status)
<1>1. r.calls = <<method>> /\ r.open = TRUE /\ r.status = status
  BY DEF OpenRoute
<1>2. Len(r.calls) = 1 /\ r.calls[1] = method
  BY <1>1
<1> HIDE DEF r
<1>3. WellFormed(r)
  BY <1>1, <1>2 DEF WellFormed
<1> QED BY <1>3 DEF r

LEMMA DoubleCall ==
  ASSUME NEW name, NEW first, NEW second, first \in Repeatable
  PROVE  WellFormed(Route(name, <<first, second>>, 200))
<1> DEFINE r == Route(name, <<first, second>>, 200)
<1>1. r.calls = <<first, second>> /\ r.open = FALSE /\ r.status = 200
  BY DEF Route
<1>2. Len(r.calls) = 2 /\ r.calls[1] = first
  BY <1>1
<1>3. \A i \in 1..(2 - 1) : i = 1
  OBVIOUS
<1> HIDE DEF r
<1>4. \A i \in 1..(Len(r.calls) - 1) : r.calls[i] \in Repeatable
  BY <1>2, <1>3
<1>5. WellFormed(r)
  BY <1>1, <1>2, <1>4 DEF WellFormed
<1> QED BY <1>5 DEF r

LEMMA ReadsRepeat == {"ListStudents", "GetStudentDashboard", "GetStudent"} \subseteq Repeatable
<1>1. IdentityClient \in Clients /\ ReportClient \in Clients
  BY DEF Clients
<1>2. {"ListStudents", "GetStudent"} \subseteq IdentityClient.repeats
  BY DEF IdentityClient
<1>3. "GetStudentDashboard" \in ReportClient.repeats
  BY DEF ReportClient
<1> QED BY <1>1, <1>2, <1>3 DEF Repeatable

LEMMA RoutesWellFormed == \A r \in Routes : WellFormed(r)
<1>1. \A r \in IdentityRoutes : WellFormed(r)
  <2> DEFINE register == OpenRoute("POST /auth/register", <<"Register">>, 201)
             login == OpenRoute("POST /auth/login", <<"Login">>, 200)
  <2>1. \E t1, t2 : IdentityRoutes
                      = {register, login} \cup Calling(200, t1) \cup Calling(201, t2)
    BY Zenon DEF IdentityRoutes
  <2>2. WellFormed(register)
    BY OpenWellFormed
  <2>3. WellFormed(login)
    BY OpenWellFormed
  <2> HIDE DEF register, login
  <2> QED BY <2>1, <2>2, <2>3, Reads, Creations
<1>2. \A r \in BalanceRoutes \cup NotificationRoutes : WellFormed(r)
  <2>1. \E t1, t2 : BalanceRoutes \cup NotificationRoutes
                      = Calling(200, t1) \cup Calling(200, t2)
    BY Zenon DEF BalanceRoutes, NotificationRoutes
  <2> QED BY <2>1, Reads
<1>3. \A r \in LessonRoutes : WellFormed(r)
  <2>1. \E t1, t2 : LessonRoutes = Calling(200, t1) \cup Calling(201, t2)
    BY Zenon DEF LessonRoutes
  <2> QED BY <2>1, Reads, Creations
<1>4. \A r \in AssignmentRoutes : WellFormed(r)
  <2>1. \E t1, t2 : AssignmentRoutes = Calling(200, t1) \cup Calling(201, t2)
    BY Zenon DEF AssignmentRoutes
  <2> QED BY <2>1, Reads, Creations
<1>5. \A r \in FinanceRoutes : WellFormed(r)
  <2>1. \E t1, t2 : FinanceRoutes = Calling(200, t1) \cup Calling(201, t2)
    BY Zenon DEF FinanceRoutes
  <2> QED BY <2>1, Reads, Creations
<1>6. \A r \in ReportRoutes : WellFormed(r)
  <2>1. WellFormed(Route("GET /dashboard/teacher", <<"ListStudents", "GetTeacherDashboard">>, 200))
    BY ReadsRepeat, DoubleCall
  <2>2. WellFormed(Route("GET /dashboard/student", <<"GetStudentDashboard", "GetUser">>, 200))
    BY ReadsRepeat, DoubleCall
  <2>3. WellFormed(Route("GET /students/{id}/summary", <<"GetStudent", "GetStudentSummary">>, 200))
    BY ReadsRepeat, DoubleCall
  <2> QED BY <2>1, <2>2, <2>3, Zenon DEF ReportRoutes
<1>7. \A r \in FileRoutes : WellFormed(r)
  <2>1. \E t1, t2 : FileRoutes = Calling(200, t1) \cup Calling(201, t2)
    BY Zenon DEF FileRoutes
  <2> QED BY <2>1, Reads, Creations
<1>8. \A r \in ChatRoutes : WellFormed(r)
  <2>1. \E t1, t2 : ChatRoutes = Calling(200, t1) \cup Calling(201, t2)
    BY Zenon DEF ChatRoutes
  <2> QED BY <2>1, Reads, Creations
<1> QED BY <1>1, <1>2, <1>3, <1>4, <1>5, <1>6, <1>7, <1>8 DEF Routes

(* The commands of identity-service and the upload are sent once.          *)
LEMMA CommandsOnce ==
  \A method \in {"Register", "CreateStudent", "ChangePassword", "Upload"} :
    method \notin Repeatable
BY DEF Repeatable, Clients, IdentityClient, LessonClient, AssignmentClient, FinanceClient,
       NotificationClient, ReportClient, ChatClient, FileClient

(* No client repeats a command.                                            *)
LEMMA ReadsOnly == \A method \in Repeatable : method \notin Commands
<1>1. IdentityClient.repeats \subseteq IdentityServer.reads /\ IdentityServer \in Servers
  BY DEF IdentityClient, IdentityServer, Servers
<1>2. LessonClient.repeats \subseteq LessonServer.reads /\ LessonServer \in Servers
  BY DEF LessonClient, LessonServer, Servers
<1>3. AssignmentClient.repeats \subseteq AssignmentServer.reads /\ AssignmentServer \in Servers
  BY DEF AssignmentClient, AssignmentServer, Servers
<1>4. FinanceClient.repeats \subseteq FinanceServer.reads /\ FinanceServer \in Servers
  BY DEF FinanceClient, FinanceServer, Servers
<1>5. NotificationClient.repeats \subseteq NotificationServer.reads /\ NotificationServer \in Servers
  BY DEF NotificationClient, NotificationServer, Servers
<1>6. ReportClient.repeats \subseteq ReportServer.reads /\ ReportServer \in Servers
  BY DEF ReportClient, ReportServer, Servers
<1>7. ChatClient.repeats \subseteq ChatServer.reads /\ ChatServer \in Servers
  BY DEF ChatClient, ChatServer, Servers
<1>8. FileClient.repeats \subseteq FileServer.reads /\ FileServer \in Servers
  BY DEF FileClient, FileServer, Servers
<1>9. ASSUME NEW method \in Repeatable PROVE \E server \in Servers : method \in server.reads
  <2>1. PICK client \in Clients : method \in client.repeats
    BY DEF Repeatable
  <2> QED BY <2>1, <1>1, <1>2, <1>3, <1>4, <1>5, <1>6, <1>7, <1>8 DEF Clients
<1> QED BY <1>9 DEF Commands, ReadOnly

(* What may be refused untidily is a command.                              *)
LEMMA UntidyCommands == \A method \in Untidy : method \in Commands
<1>1. Untidy \subseteq LessonServer.teacher \cup AssignmentServer.teacher
  BY DEF Untidy, LessonServer, AssignmentServer
<1>2. LessonServer \in Servers /\ AssignmentServer \in Servers
  BY DEF Servers
<1>3. Untidy \subseteq Served
  BY <1>1, <1>2 DEF Served
<1>4. \A server \in Servers : \A method \in Untidy : method \notin server.reads
  BY DEF Servers, Untidy, IdentityServer, LessonServer, AssignmentServer, FinanceServer,
     NotificationServer, ReportServer, ChatServer, FileServer
<1> QED BY <1>3, <1>4 DEF Commands, ReadOnly

-----------------------------------------------------------------------------
(* Types.                                                                  *)

Rpc == UNION {{r.calls[i] : i \in 1..Len(r.calls)} : r \in Routes}
OptionalUser == Email \cup {None}
(* What RoleOf may give; that a token is one of an account is not needed.   *)
OptionalRole == {None} \cup {x.role : x \in Users!Account \cup {None}}

Request == [route: Routes, arg: Arg, step: Nat \ {0}, attempt: Nat \ {0},
            user: OptionalUser, role: OptionalRole]
Call == [tie: {"awaited", "abandoned", "past"}, caller: Caller, method: Rpc, arg: Arg,
         user: OptionalUser, role: OptionalRole]

ClientTypeOK ==
  /\ session \in [Caller -> OptionalUser]
  /\ request \in [Caller -> Request \cup {Idle}]
  /\ answer \in [Caller -> {"none", "done", "refused", "unclear", "failed"}]
  /\ call \in [Handler -> Call \cup {NoCall}]

TypeOK ==
  /\ ClientTypeOK
  /\ carried \in [Caller -> Int]
  /\ Users!TypeOK
  /\ Files!TypeOK

(* A request stands at a call of its route and names a user if its route   *)
(* asks for a token; so does every call but those of routes that do not.   *)
Placed(r) ==
  /\ r.step <= Len(r.route.calls)
  /\ ~r.route.open => r.user \in Email
Named(x) == x.method \notin {"Register", "Login"} => x.user \in Email

(* A client waits for at most one call, the one its request stands at.     *)
AwaitedCurrent ==
  /\ \A c \in Caller, p \in Handler :
       Awaited(c, p) => request[c] # Idle /\ call[p].method = Method(request[c])
  /\ \A c \in Caller, p, q \in Handler : Awaited(c, p) /\ Awaited(c, q) => p = q

PlaceInv ==
  /\ TypeOK
  /\ \A c \in Caller : request[c] # Idle => Placed(request[c])
  /\ \A p \in Handler : call[p] # NoCall => Named(call[p])
  /\ \A p \in Handler : change[p] # Users!NoChange => account[change[p].user] # None
  /\ AwaitedCurrent

LEMMA NotIdle == \A r \in Request : r # Idle
BY MenuAssumption DEF Request, Idle

LEMMA NotNoCall == \A x \in Call : x # NoCall /\ x.tie # "none"
BY DEF Call, NoCall

NewCall(c, r) ==
  [tie |-> "awaited", caller |-> c, method |-> Method(r), arg |-> r.arg,
   user |-> r.user, role |-> r.role]

LEMMA MethodOf ==
  ASSUME NEW r \in Request, Placed(r)
  PROVE  /\ r.step \in 1..Len(r.route.calls)
         /\ Method(r) \in Rpc
         /\ Method(r) \notin {"Register", "Login"} => r.user \in Email
         /\ r.step < Len(r.route.calls) => Method(r) \in Repeatable /\ ~r.route.open
<1>1. WellFormed(r.route) /\ r.route \in Routes
  BY RoutesWellFormed DEF Request
<1>2. r.step \in 1..Len(r.route.calls)
  BY <1>1 DEF WellFormed, Placed, Request
<1>3. Method(r) \in Rpc
  BY <1>1, <1>2 DEF Method, Rpc
<1>4. ASSUME r.route.open PROVE Method(r) \in {"Register", "Login"} /\ r.step = Len(r.route.calls)
  <2>1. Len(r.route.calls) = 1 /\ r.route.calls[1] \in {"Register", "Login"}
    BY <1>1, <1>4 DEF WellFormed
  <2>2. r.step = 1
    BY <1>2, <2>1
  <2> QED BY <2>1, <2>2 DEF Method
<1>5. r.step < Len(r.route.calls) => Method(r) \in Repeatable
  BY <1>1, <1>2 DEF WellFormed, Method
<1> QED BY <1>2, <1>3, <1>4, <1>5 DEF Placed

LEMMA SendType ==
  ASSUME TypeOK, NEW c \in Caller, NEW r \in Request, Placed(r), NEW calls,
         calls \in [Handler -> Call \cup {NoCall}], Send(c, r, calls)
  PROVE  /\ NewCall(c, r) \in Call /\ Named(NewCall(c, r))
         /\ request' = [request EXCEPT ![c] = r]
         /\ request' \in [Caller -> Request \cup {Idle}]
         /\ call' \in [Handler -> Call \cup {NoCall}]
         /\ \E q \in Handler : call[q] = NoCall /\ call' = [calls EXCEPT ![q] = NewCall(c, r)]
<1>1. NewCall(c, r) \in Call /\ Named(NewCall(c, r))
  BY MethodOf DEF NewCall, Call, Request, Named
<1>2. FreeHandler \in Handler /\ call[FreeHandler] = NoCall
  BY DEF Send, HandlerFree, FreeHandler
<1>3. call' = [calls EXCEPT ![FreeHandler] = NewCall(c, r)] /\ request' = [request EXCEPT ![c] = r]
  BY DEF Send, NewCall
<1>4. request' \in [Caller -> Request \cup {Idle}] /\ call' \in [Handler -> Call \cup {NoCall}]
  BY <1>1, <1>2, <1>3 DEF TypeOK, ClientTypeOK
<1> QED BY <1>1, <1>2, <1>3, <1>4

(* What a step of the gateway that goes on with a request of c does: it    *)
(* sends a call for r, or it answers.                                      *)
Sends(c, r, calls) ==
  \E q \in Handler :
    /\ call[q] = NoCall
    /\ request' = [request EXCEPT ![c] = r]
    /\ call' = [calls EXCEPT ![q] = NewCall(c, r)]

Next1(r) == [r EXCEPT !.step = @ + 1, !.attempt = 1]
Again(r) == [r EXCEPT !.attempt = @ + 1]

LEMMA Next1Type ==
  ASSUME NEW r \in Request, Placed(r), r.step < Len(r.route.calls)
  PROVE  Next1(r) \in Request /\ Placed(Next1(r))
<1>1. Next1(r) \in Request /\ Next1(r).step = r.step + 1 /\ Next1(r).route = r.route
      /\ Next1(r).user = r.user
  <2> DEFINE s == [r EXCEPT !.step = r.step + 1]
  <2>1. s \in Request /\ s.step = r.step + 1 /\ s.route = r.route /\ s.user = r.user
    BY DEF Request
  <2>2. Next1(r) = [s EXCEPT !.attempt = 1]
    BY DEF Next1, Request
  <2> HIDE DEF s
  <2> QED BY <2>1, <2>2 DEF Request
<1>2. Len(r.route.calls) \in Nat
  BY RoutesWellFormed DEF WellFormed, Request
<1> QED BY <1>1, <1>2 DEF Placed, Request

LEMMA AgainType ==
  ASSUME NEW r \in Request, Placed(r)
  PROVE  Again(r) \in Request /\ Placed(Again(r)) /\ Method(Again(r)) = Method(r)
<1>1. Again(r) \in Request /\ Again(r).step = r.step /\ Again(r).route = r.route
      /\ Again(r).user = r.user
  BY DEF Request, Again
<1> QED BY <1>1 DEF Placed, Method

(* The outcome of a call: the next call is sent after a read, a read is    *)
(* sent again, or the client is answered.                                  *)
LEMMA GoOnOutcome ==
  ASSUME PlaceInv, NEW c \in Caller, request[c] # Idle, NEW status \in Int,
         NEW calls, calls \in [Handler -> Call \cup {NoCall}], GoOn(c, status, calls)
  PROVE  /\ ClientTypeOK'
         /\ \/ /\ \E r \in Request :
                   /\ Placed(r) /\ NewCall(c, r) \in Call /\ Named(NewCall(c, r))
                   /\ Sends(c, r, calls)
              /\ Method(request[c]) \in Repeatable
              /\ UNCHANGED answer
            \/ /\ request' = [request EXCEPT ![c] = Idle]
               /\ call' = calls
               /\ answer'[c] = "refused" =>
                    Class(status) = "refused" /\ Method(request[c]) \notin Untidy
               /\ \A d \in Caller \ {c} : answer'[d] = answer[d]
<1> DEFINE r == request[c]
<1>1. r \in Request /\ Placed(r)
  BY DEF PlaceInv, TypeOK, ClientTypeOK
<1>2. CASE NextCall(c, status, calls)
  <2>1. r.step < Len(r.route.calls) /\ Send(c, Next1(r), calls) /\ UNCHANGED <<session, answer>>
    BY <1>2 DEF NextCall, Next1
  <2>2. Next1(r) \in Request /\ Placed(Next1(r)) /\ Method(r) \in Repeatable
    BY <1>1, <2>1, Next1Type, MethodOf
  <2>3. NewCall(c, Next1(r)) \in Call /\ Named(NewCall(c, Next1(r))) /\ Sends(c, Next1(r), calls)
    BY <2>1, <2>2, SendType DEF PlaceInv, Sends
  <2>4. ClientTypeOK'
    BY <2>1, <2>2, SendType DEF PlaceInv, TypeOK, ClientTypeOK
  <2> QED BY <2>1, <2>2, <2>3, <2>4
<1>3. CASE Retry(c, status, calls)
  <2>1. r.attempt < Attempts(Method(r)) /\ Send(c, Again(r), calls) /\ UNCHANGED <<session, answer>>
    BY <1>3 DEF Retry, Again
  <2>2. Again(r) \in Request /\ Placed(Again(r)) /\ Method(r) \in Repeatable
    BY <1>1, <2>1, AgainType DEF Attempts, Request
  <2> QED BY <1>1, <2>1, <2>2, SendType DEF PlaceInv, TypeOK, ClientTypeOK, Sends
<1>4. CASE Respond(c, status, calls)
  <2>1. /\ answer' = [answer EXCEPT ![c] =
                        Told(Method(r), IF status = 200 THEN r.route.status ELSE status)]
        /\ session' = [session EXCEPT ![c] =
                         IF r.route.open /\ status = 200 THEN r.arg.email ELSE session[c]]
        /\ request' = [request EXCEPT ![c] = Idle] /\ call' = calls
    BY <1>4 DEF Respond
  <2>2. r.arg.email \in Email /\ r.route.status \in {200, 201}
    BY <1>1, RoutesWellFormed DEF Request, Arg, WellFormed
  <2>3. session' \in [Caller -> OptionalUser] /\ request' \in [Caller -> Request \cup {Idle}]
    BY <2>1, <2>2 DEF PlaceInv, TypeOK, ClientTypeOK, OptionalUser
  <2>4. /\ answer' \in [Caller -> {"none", "done", "refused", "unclear", "failed"}]
        /\ answer'[c] = "refused" => Class(status) = "refused" /\ Method(r) \notin Untidy
        /\ \A d \in Caller \ {c} : answer'[d] = answer[d]
    BY <2>1, <2>2 DEF PlaceInv, TypeOK, ClientTypeOK, Class, Told
  <2> QED BY <2>1, <2>3, <2>4 DEF TypeOK, ClientTypeOK
<1> QED BY <1>2, <1>3, <1>4 DEF GoOn

(* What is left of the calls when c no longer waits for one.               *)
Relaxed(c, calls) ==
  /\ calls \in [Handler -> Call \cup {NoCall}]
  /\ \A q \in Handler : calls[q] # NoCall =>
       /\ call[q] # NoCall
       /\ calls[q].method = call[q].method
       /\ calls[q].user = call[q].user
       /\ calls[q].caller = call[q].caller
       /\ calls[q].tie # "past" => call[q].tie # "past"
       /\ calls[q].tie = "awaited" => call[q].tie = "awaited" /\ call[q].caller # c

LEMMA TieChanged ==
  ASSUME NEW x \in Call, NEW tie \in {"abandoned", "past"}
  PROVE  LET y == [x EXCEPT !.tie = tie]
         IN  /\ y \in Call /\ y.tie = tie /\ y.method = x.method
             /\ y.user = x.user /\ y.caller = x.caller
BY DEF Call

LEMMA ForgottenRelaxed ==
  ASSUME TypeOK, NEW c \in Caller
  PROVE  /\ Relaxed(c, Forgotten(c))
         /\ \A p \in Handler : Forgotten(c)[p] # NoCall /\ Forgotten(c)[p].caller = c
                                => Forgotten(c)[p].tie = "past"
<1> DEFINE calls == Forgotten(c)
<1>1. \A p \in Handler :
        calls[p] = IF call[p] # NoCall /\ call[p].caller = c
                     THEN [call[p] EXCEPT !.tie = "past"] ELSE call[p]
  BY DEF Forgotten
<1>2. calls = [p \in Handler |-> calls[p]]
  BY DEF Forgotten
<1>3. \A p \in Handler : call[p] \in Call \cup {NoCall}
  BY DEF TypeOK, ClientTypeOK
<1> HIDE DEF calls
<1>4. \A p \in Handler : calls[p] \in Call \cup {NoCall}
  BY <1>1, <1>3, TieChanged
<1>5. calls \in [Handler -> Call \cup {NoCall}]
  BY <1>2, <1>4
<1>6. ASSUME NEW p \in Handler, calls[p] # NoCall
      PROVE  /\ call[p] # NoCall
             /\ calls[p].method = call[p].method /\ calls[p].user = call[p].user
             /\ calls[p].caller = call[p].caller
             /\ calls[p].tie # "past" => call[p].tie # "past"
             /\ calls[p].tie = "awaited" => call[p].tie = "awaited" /\ call[p].caller # c
             /\ calls[p].caller = c => calls[p].tie = "past"
  <2>1. CASE call[p] # NoCall /\ call[p].caller = c
    <3>1. call[p] \in Call /\ calls[p] = [call[p] EXCEPT !.tie = "past"]
      BY <1>1, <1>3, <2>1
    <3> QED BY <2>1, <3>1, TieChanged
  <2>2. CASE ~(call[p] # NoCall /\ call[p].caller = c)
    BY <1>1, <1>6, <2>2
  <2> QED BY <2>1, <2>2
<1>7. Relaxed(c, calls)
  BY <1>5, <1>6 DEF Relaxed
<1> QED BY <1>6, <1>7 DEF calls

LEMMA ReceivedRelaxed ==
  ASSUME PlaceInv, NEW c \in Caller, NEW p \in Handler, Awaited(c, p)
  PROVE  Relaxed(c, [call EXCEPT ![p] = NoCall])
<1>1. [call EXCEPT ![p] = NoCall] \in [Handler -> Call \cup {NoCall}]
  BY DEF PlaceInv, TypeOK, ClientTypeOK
<1>2. \A q \in Handler : [call EXCEPT ![p] = NoCall][q] = IF q = p THEN NoCall ELSE call[q]
  BY DEF PlaceInv, TypeOK, ClientTypeOK
<1>3. \A q \in Handler : Awaited(c, q) => q = p
  BY DEF PlaceInv, AwaitedCurrent
<1> QED BY <1>1, <1>2, <1>3 DEF Relaxed, Awaited

LEMMA AbandonedRelaxed ==
  ASSUME PlaceInv, NEW c \in Caller, NEW p \in Handler, Awaited(c, p)
  PROVE  Relaxed(c, [call EXCEPT ![p].tie = "abandoned"])
<1> DEFINE calls == [call EXCEPT ![p].tie = "abandoned"]
<1>1. call[p] \in Call
  BY DEF PlaceInv, TypeOK, ClientTypeOK, Awaited, NoCall
<1>2. \A q \in Handler :
        calls[q] = IF q = p THEN [call[p] EXCEPT !.tie = "abandoned"] ELSE call[q]
  BY DEF PlaceInv, TypeOK, ClientTypeOK
<1>3. \A q \in Handler : Awaited(c, q) => q = p
  BY DEF PlaceInv, AwaitedCurrent
<1>4. LET y == [call[p] EXCEPT !.tie = "abandoned"]
      IN  /\ y \in Call /\ y.tie = "abandoned" /\ y.method = call[p].method
          /\ y.user = call[p].user /\ y.caller = call[p].caller
  BY <1>1, TieChanged
<1>5. calls \in [Handler -> Call \cup {NoCall}]
  BY <1>4 DEF PlaceInv, TypeOK, ClientTypeOK
<1>6. call[p] # NoCall /\ call[p].tie # "past"
  BY <1>1, NotNoCall DEF Awaited
<1> HIDE DEF calls
<1>7. Relaxed(c, calls)
  BY <1>2, <1>3, <1>4, <1>5, <1>6 DEF Relaxed, Awaited
<1> QED BY <1>7 DEF calls

(* The parts of PlaceInv about requests and calls, when a call is sent and *)
(* when a request is answered.                                             *)
CallsPlaced ==
  /\ \A c \in Caller : request[c] # Idle => Placed(request[c])
  /\ \A p \in Handler : call[p] # NoCall => Named(call[p])
  /\ AwaitedCurrent

LEMMA SendsPlaced ==
  ASSUME PlaceInv, NEW c \in Caller, NEW r \in Request, Placed(r),
         NewCall(c, r) \in Call, Named(NewCall(c, r)),
         NEW calls, Relaxed(c, calls), Sends(c, r, calls)
  PROVE  CallsPlaced'
<1>1. PICK q \in Handler : /\ call[q] = NoCall
                          /\ request' = [request EXCEPT ![c] = r]
                          /\ call' = [calls EXCEPT ![q] = NewCall(c, r)]
  BY DEF Sends
<1>2. request'[c] = r /\ \A d \in Caller \ {c} : request'[d] = request[d]
  BY <1>1 DEF PlaceInv, TypeOK, ClientTypeOK
<1>3. call'[q] = NewCall(c, r) /\ \A p \in Handler \ {q} : call'[p] = calls[p]
  BY <1>1 DEF Relaxed
<1>4. /\ NewCall(c, r).tie = "awaited" /\ NewCall(c, r).caller = c
      /\ NewCall(c, r).method = Method(r)
  BY DEF NewCall
<1>5. \A d \in Caller : request'[d] # Idle => Placed(request'[d])
  BY <1>2 DEF PlaceInv
<1>6. \A p \in Handler : call'[p] # NoCall => Named(call'[p])
  BY <1>3 DEF PlaceInv, Relaxed, Named
<1>7. ASSUME NEW d \in Caller, NEW p \in Handler, Awaited(d, p)'
      PROVE  \/ d = c /\ p = q
             \/ d # c /\ Awaited(d, p) /\ call'[p].method = call[p].method
  <2>1. CASE p = q
    BY <1>3, <1>4, <1>7, <2>1 DEF Awaited
  <2>2. CASE p # q
    <3>1. call'[p] = calls[p] /\ calls[p].tie = "awaited" /\ calls[p].caller = d
      BY <1>3, <1>7, <2>2 DEF Awaited
    <3>2. calls[p] # NoCall
      BY <3>1 DEF NoCall
    <3> QED BY <3>1, <3>2 DEF Relaxed, Awaited
  <2> QED BY <2>1, <2>2
<1>8. \A d \in Caller, p \in Handler :
        Awaited(d, p)' => request'[d] # Idle /\ call'[p].method = Method(request'[d])
  BY <1>2, <1>3, <1>4, <1>7, NotIdle DEF PlaceInv, AwaitedCurrent
<1>9. \A d \in Caller, p1, p2 \in Handler : Awaited(d, p1)' /\ Awaited(d, p2)' => p1 = p2
  BY <1>7 DEF PlaceInv, AwaitedCurrent
<1>10. AwaitedCurrent'
  BY <1>8, <1>9 DEF AwaitedCurrent, Method
<1> QED BY <1>5, <1>6, <1>10 DEF CallsPlaced

LEMMA AnswersPlaced ==
  ASSUME PlaceInv, NEW c \in Caller, NEW calls, Relaxed(c, calls), call' = calls,
         request' = [request EXCEPT ![c] = Idle]
  PROVE  CallsPlaced'
<1>1. request'[c] = Idle /\ \A d \in Caller \ {c} : request'[d] = request[d]
  BY DEF PlaceInv, TypeOK, ClientTypeOK
<1>2. ASSUME NEW d \in Caller, NEW p \in Handler, Awaited(d, p)'
      PROVE  d # c /\ Awaited(d, p) /\ call'[p].method = call[p].method
  <2>1. calls[p].tie = "awaited" /\ calls[p].caller = d
    BY <1>2 DEF Awaited
  <2>2. calls[p] # NoCall
    BY <2>1 DEF NoCall
  <2> QED BY <2>1, <2>2 DEF Relaxed, Awaited
<1>3. \A d \in Caller : request'[d] # Idle => Placed(request'[d])
  BY <1>1 DEF PlaceInv
<1>4. \A p \in Handler : call'[p] # NoCall => Named(call'[p])
  BY DEF PlaceInv, Relaxed, Named
<1>5. \A d \in Caller, p \in Handler :
        Awaited(d, p)' => request'[d] # Idle /\ call'[p].method = Method(request'[d])
  BY <1>1, <1>2 DEF PlaceInv, AwaitedCurrent
<1>6. \A d \in Caller, p1, p2 \in Handler : Awaited(d, p1)' /\ Awaited(d, p2)' => p1 = p2
  BY <1>2 DEF PlaceInv, AwaitedCurrent
<1>7. AwaitedCurrent'
  BY <1>5, <1>6 DEF AwaitedCurrent, Method
<1> QED BY <1>3, <1>4, <1>7 DEF CallsPlaced

-----------------------------------------------------------------------------
(* Every step keeps PlaceInv.                                              *)

KnownChange == \A p \in Handler : change[p] # Users!NoChange => account[change[p].user] # None

LEMMA CarriedType ==
  ASSUME TypeOK, NEW p \in Handler, call[p] # NoCall, CarryOut(p) \/ UNCHANGED carried
  PROVE  carried' \in [Caller -> Int]
<1>1. call[p].caller \in Caller
  BY DEF TypeOK, ClientTypeOK, Call
<1> QED BY <1>1 DEF CarryOut, TypeOK

LEMMA Answered ==
  ASSUME TypeOK, NEW p \in Handler, NEW status \in Users!Status, Users!Answer(p, status)
  PROVE  result' \in [Handler -> Users!Status] /\ result'[p] = status
         /\ \A q \in Handler \ {p} : result'[q] = result[q]
BY DEF TypeOK, Users!TypeOK, Users!Answer

LEMMA AccountAdded ==
  ASSUME TypeOK, KnownChange, NEW e \in Email, NEW role \in Users!Role,
         NEW password \in Password, UNCHANGED change,
         account' = [account EXCEPT ![e] = [role |-> role, password |-> password]]
  PROVE  account' \in [Email -> Users!Account \cup {None}] /\ KnownChange'
<1>1. [role |-> role, password |-> password] \in Users!Account
  BY DEF Users!Account
<1>2. [role |-> role, password |-> password] # None
  BY <1>1, UserAssumption DEF Users!SeedIsAccounts
<1>3. account' \in [Email -> Users!Account \cup {None}]
  BY <1>1 DEF TypeOK, Users!TypeOK
<1>4. \A u \in Email : account[u] # None => account'[u] # None
  BY <1>2 DEF TypeOK, Users!TypeOK
<1>5. \A q \in Handler : change[q] # Users!NoChange => change[q].user \in Email
  BY DEF TypeOK, Users!TypeOK, Users!Change
<1> QED BY <1>3, <1>4, <1>5 DEF KnownChange

LEMMA IdentityTypes ==
  ASSUME PlaceInv, NEW p \in Handler, IdentityStep(p)
  PROVE  Users!TypeOK' /\ KnownChange' /\ carried' \in [Caller -> Int]
<1> USE DEF PlaceInv
<1>1. KnownChange /\ TypeOK /\ Users!TypeOK
  BY DEF KnownChange, TypeOK
<1>2. call[p] # NoCall => call[p] \in Call /\ call[p].arg \in Arg
  BY DEF TypeOK, ClientTypeOK, Call
<1>3. {0, 200, 400, 401, 403, 404, 409, 500} \subseteq Users!Status
  BY DEF Users!Status
<1>4. CASE Rejected(p)
  <2>1. Users!Answer(p, 400) /\ UNCHANGED <<userVars, carried>>
    BY <1>4 DEF Rejected, Users!Reject, userVars
  <2> QED BY <1>1, <1>3, <2>1, Answered DEF Users!TypeOK, KnownChange, userVars, TypeOK
<1>5. CASE Registering(p)
  <2> DEFINE a == call[p].arg
  <2>1. call[p] # NoCall /\ Users!Register(p, a.email, a.role, a.password)
        /\ (CarryOut(p) \/ UNCHANGED carried)
    BY <1>5 DEF Registering, Runs, CarryOutIf
  <2>2. a.email \in Email /\ a.role \in Users!Role /\ a.password \in Password
    BY <1>2, <2>1 DEF Arg
  <2> HIDE DEF a
  <2>3. /\ UNCHANGED <<link, change>>
        /\ Users!Answer(p, 200) \/ Users!Answer(p, 500)
        /\ \/ UNCHANGED account
           \/ account' = [account EXCEPT ![a.email] = [role |-> a.role, password |-> a.password]]
    BY <2>1 DEF Users!Register
  <2>4. account' \in [Email -> Users!Account \cup {None}] /\ KnownChange'
    <3>1. CASE UNCHANGED account
      BY <1>1, <2>3, <3>1 DEF KnownChange, Users!TypeOK
    <3> QED BY <1>1, <2>2, <2>3, <3>1, AccountAdded
  <2>5. result' \in [Handler -> Users!Status]
    BY <1>1, <1>3, <2>3, Answered
  <2> QED BY <1>1, <2>1, <2>3, <2>4, <2>5, CarriedType DEF Users!TypeOK
<1>6. CASE LoggingIn(p)
  <2>1. (Users!Answer(p, 200) \/ Users!Answer(p, 401)) /\ UNCHANGED <<userVars, carried>>
    BY <1>6 DEF LoggingIn, Users!Login, userVars
  <2> QED BY <1>1, <1>3, <2>1, Answered DEF Users!TypeOK, KnownChange, userVars, TypeOK
<1>7. CASE ChangingPassword(p)
  <2>1. CASE Users!UpdatePasswordHash(p) /\ CarryOut(p)
    <3> DEFINE u == change[p].user
    <3>1. call[p] # NoCall /\ change[p] \in Users!Change /\ account[u] # None
      BY <1>1, <1>7, <2>1 DEF ChangingPassword, Runs, Users!UpdatePasswordHash, KnownChange,
         Users!TypeOK
    <3>2. u \in Email /\ account[u] \in Users!Account /\ change[p].new \in Password
      BY <1>1, <3>1 DEF Users!TypeOK, Users!Change
    <3>3. /\ account' = [account EXCEPT ![u].password = change[p].new]
          /\ change' = [change EXCEPT ![p] = Users!NoChange]
          /\ Users!Answer(p, 200) /\ UNCHANGED link
      BY <2>1 DEF Users!UpdatePasswordHash
    <3>4. [account[u] EXCEPT !.password = change[p].new] \in Users!Account
      BY <3>2 DEF Users!Account
    <3>5. account' = [account EXCEPT ![u] = [account[u] EXCEPT !.password = change[p].new]]
      BY <3>3
    <3>6. account' \in [Email -> Users!Account \cup {None}]
      BY <1>1, <3>2, <3>4, <3>5 DEF Users!TypeOK
    <3>7. \A e \in Email : account[e] # None => account'[e] # None
      BY <1>1, <3>2, <3>4, <3>5, UserAssumption DEF Users!TypeOK, Users!SeedIsAccounts
    <3>8. change' \in [Handler -> Users!Change \cup {Users!NoChange}]
          /\ \A q \in Handler : change'[q] = change[q] \/ change'[q] = Users!NoChange
      BY <1>1, <3>3 DEF Users!TypeOK
    <3>9. KnownChange'
      <4>1. \A q \in Handler : change[q] # Users!NoChange => change[q].user \in Email
        BY <1>1 DEF Users!TypeOK, Users!Change
      <4> QED BY <1>1, <3>7, <3>8, <4>1 DEF KnownChange
    <3>10. result' \in [Handler -> Users!Status]
      BY <1>1, <1>3, <3>3, Answered
    <3>11. carried' \in [Caller -> Int]
      BY <1>1, <2>1, <3>1, CarriedType
    <3> QED BY <1>1, <3>3, <3>6, <3>8, <3>9, <3>10, <3>11 DEF Users!TypeOK
  <2>2. CASE Users!ReadForChange(p, call[p].user, call[p].arg.password, call[p].arg.new)
             /\ UNCHANGED carried
    <3> DEFINE u == call[p].user
               old == call[p].arg.password
               new == call[p].arg.new
    <3>1. u \in Email /\ old \in Password /\ new \in Password
      BY <1>2, <1>7 DEF ChangingPassword, Runs, Named, Arg
    <3>2. UNCHANGED <<account, link, carried>>
      BY <2>2 DEF Users!ReadForChange
    <3>3. CASE Users!VerifyPassword(u, old)
      <4>1. UNCHANGED result /\ account[u] # None
        BY <2>2, <3>3 DEF Users!ReadForChange, Users!VerifyPassword, Users!Known
      <4>2. \A b \in BOOLEAN : [user |-> u, old |-> old, new |-> new, alone |-> b] \in Users!Change
        BY <3>1 DEF Users!Change
      <4>3. \A q \in Handler, b \in BOOLEAN :
              change[q].user = u /\ change[q] \in Users!Change =>
                 [change[q] EXCEPT !.alone = b] \in Users!Change
                 /\ [change[q] EXCEPT !.alone = b].user = change[q].user
        BY DEF Users!Change
      <4>4. \A q \in Handler : change[q].user = u => change[q] \in Users!Change
        BY <1>1, <3>1, UserAssumption DEF Users!TypeOK, Users!NoChange, Files!NobodyIsUser
      <4>5. change' = [q \in Handler |->
                  IF q = p
                    THEN [user |-> u, old |-> old, new |-> new,
                          alone |-> {r \in Handler : change[r].user = u} = {}]
                  ELSE IF q \in {r \in Handler : change[r].user = u}
                    THEN [change[q] EXCEPT !.alone = FALSE]
                  ELSE change[q]]
        BY <2>2, <3>3 DEF Users!ReadForChange
      <4>6. \A q \in Handler :
              /\ change'[q] \in Users!Change \cup {Users!NoChange}
              /\ change'[q].user = u \/ change'[q] = change[q]
        BY <1>1, <4>2, <4>3, <4>4, <4>5 DEF Users!TypeOK
      <4>7. change' \in [Handler -> Users!Change \cup {Users!NoChange}]
        BY <4>5, <4>6
      <4>8. KnownChange'
        BY <1>1, <3>2, <4>1, <4>6 DEF KnownChange
      <4> QED BY <1>1, <3>2, <4>1, <4>7, <4>8 DEF Users!TypeOK, TypeOK
    <3>4. CASE ~Users!VerifyPassword(u, old)
      <4>1. Users!Answer(p, 401) /\ UNCHANGED <<userVars, carried>>
        BY <2>2, <3>4 DEF Users!ReadForChange, userVars
      <4> QED BY <1>1, <1>3, <4>1, Answered DEF Users!TypeOK, KnownChange, userVars, TypeOK
    <3> QED BY <3>3, <3>4
  <2> QED BY <1>7, <2>1, <2>2 DEF ChangingPassword
<1>8. CASE CreatingStudent(p)
  <2>1. CASE Users!CreateStudentWithLink(p, call[p].user, call[p].arg.email,
                                         call[p].arg.password)
             /\ CarryOutIf(p, account' # account)
    <3> DEFINE t == call[p].user
               e == call[p].arg.email
               w == call[p].arg.password
    <3>1. call[p] # NoCall /\ t \in Email /\ e \in Email /\ w \in Password
          /\ (CarryOut(p) \/ UNCHANGED carried)
      BY <1>2, <1>8, <2>1 DEF CreatingStudent, Runs, Named, Arg, CarryOutIf
    <3>2. /\ UNCHANGED change
          /\ Users!Answer(p, 409) \/ Users!Answer(p, 200)
          /\ \/ UNCHANGED <<account, link>>
             \/ /\ account' = [account EXCEPT ![e] = [role |-> "student", password |-> w]]
                /\ link' = link \cup {<<t, e>>}
      BY <2>1 DEF Users!CreateStudentWithLink
    <3> HIDE DEF t, e, w
    <3>3. account' \in [Email -> Users!Account \cup {None}] /\ KnownChange'
          /\ link' \subseteq Email \X Email
      <4>1. CASE UNCHANGED <<account, link>>
        BY <1>1, <3>2, <4>1 DEF KnownChange, Users!TypeOK
      <4>2. CASE account' = [account EXCEPT ![e] = [role |-> "student", password |-> w]]
                 /\ link' = link \cup {<<t, e>>}
        <5>1. "student" \in Users!Role
          BY DEF Users!Role
        <5>2. link' \subseteq Email \X Email
          BY <1>1, <3>1, <4>2 DEF Users!TypeOK
        <5> QED BY <1>1, <3>1, <3>2, <4>2, <5>1, <5>2, AccountAdded
      <4> QED BY <3>2, <4>1, <4>2
    <3>4. result' \in [Handler -> Users!Status]
      BY <1>1, <1>3, <3>2, Answered
    <3> QED BY <1>1, <3>1, <3>2, <3>3, <3>4, CarriedType DEF Users!TypeOK
  <2>2. CASE Users!Answer(p, 403) /\ UNCHANGED <<userVars, carried>>
    BY <1>1, <1>3, <2>2, Answered DEF Users!TypeOK, KnownChange, userVars, TypeOK
  <2> QED BY <1>8, <2>1, <2>2 DEF CreatingStudent
<1>9. CASE AskingIdentity(p)
  <2>1. (Users!Answer(p, 200) \/ Users!Answer(p, 404)) /\ UNCHANGED <<userVars, carried>>
    BY <1>9 DEF AskingIdentity, Users!GetUser, Users!GetStudentLink, Users!ListStudents, userVars
  <2> QED BY <1>1, <1>3, <2>1, Answered DEF Users!TypeOK, KnownChange, userVars, TypeOK
<1> QED BY <1>4, <1>5, <1>6, <1>7, <1>8, <1>9 DEF IdentityStep

-----------------------------------------------------------------------------
(* The files: what an upload may count on at each of its steps.            *)

KeyFresh == \A p \in Handler : upload[p] # Files!NoUpload => upload[p].key \in issued
KeysApart ==
  \A p, q \in Handler :
    upload[p] # Files!NoUpload /\ upload[q] # Files!NoUpload /\ upload[p].key = upload[q].key
      => p = q
UploadOK(p) ==
  upload[p] # Files!NoUpload =>
    LET k == upload[p].key
    IN  /\ upload[p].pc = "put" => k \notin object /\ row[k] = None
        /\ upload[p].pc = "save" => k \in object /\ row[k] = None
        /\ upload[p].pc = "cleanup" /\ row[k] # None => k \in uncertain

FileInv ==
  /\ KeyFresh /\ KeysApart
  /\ object \subseteq issued
  /\ \A k \in Key : row[k] # None => k \in issued
  /\ \A p \in Handler : UploadOK(p)
  /\ RowBackedInTurn
  /\ OrphansExplained

(* A step of one upload leaves the keys of the others alone.               *)
LEMMA UploadStep ==
  ASSUME Files!TypeOK, FileInv, NEW p \in Handler, upload[p] # Files!NoUpload,
         NEW k \in Key, k = upload[p].key,
         Files!TypeOK',
         UNCHANGED issued,
         \A q \in Handler \ {p} : upload'[q] = upload[q],
         upload'[p] = Files!NoUpload \/ upload'[p].key = k,
         \A x \in Key \ {k} : (x \in object' <=> x \in object) /\ row'[x] = row[x],
         uncertain \subseteq uncertain', leaked \subseteq leaked',
         row'[k] # None => k \in object' \cup uncertain',
         k \in object' => \/ row'[k] # None
                          \/ k \in uncertain' \cup leaked'
                          \/ upload'[p] # Files!NoUpload,
         UploadOK(p)'
  PROVE  FileInv'
<1> USE DEF FileInv
<1>1. k \in issued
  BY DEF KeyFresh
<1>2. KeyFresh' /\ KeysApart'
  BY <1>1 DEF KeyFresh, KeysApart
<1>3. object' \subseteq issued'
  BY <1>1 DEF Files!TypeOK
<1>4. \A x \in Key : row'[x] # None => x \in issued'
  BY <1>1
<1>5. ASSUME NEW q \in Handler, q # p PROVE UploadOK(q)'
  <2>1. upload'[q] = upload[q] /\ UploadOK(q)
    BY <1>5
  <2>2. CASE upload[q] # Files!NoUpload
    <3>1. upload[q].key \in Key \ {k}
      BY <1>5, <2>2 DEF KeysApart, Files!TypeOK, Files!UploadTask
    <3> QED BY <2>1, <2>2, <3>1 DEF UploadOK
  <2> QED BY <2>1, <2>2 DEF UploadOK
<1>6. RowBackedInTurn'
  BY DEF RowBackedInTurn, Files!RowBackedInTurn
<1>7. ASSUME NEW x \in object'
      PROVE  \/ row'[x] # None
             \/ x \in uncertain' \cup leaked'
             \/ \E q \in Handler : upload'[q] # Files!NoUpload /\ upload'[q].key = x
  <2>1. CASE x = k
    BY <1>7, <2>1
  <2>2. CASE x # k
    <3>1. x \in Key /\ x \in object /\ row'[x] = row[x]
      BY <1>7, <2>2 DEF Files!TypeOK
    <3> QED BY <2>2, <3>1 DEF OrphansExplained, Files!OrphansExplained
  <2> QED BY <2>1, <2>2
<1>8. OrphansExplained'
  BY <1>7 DEF OrphansExplained, Files!OrphansExplained
<1> QED BY <1>2, <1>3, <1>4, <1>5, <1>6, <1>8

LEMMA FileKept ==
  ASSUME FileInv, UNCHANGED <<object, row, upload, issued, uncertain, leaked>>
  PROVE  FileInv'
BY DEF FileInv, KeyFresh, KeysApart, UploadOK, RowBackedInTurn, Files!RowBackedInTurn,
       OrphansExplained, Files!OrphansExplained

(* What a step of an upload does to it.                                    *)
LEMMA Advanced ==
  ASSUME Files!TypeOK, NEW p \in Handler, NEW pc \in {"put", "save", "cleanup"},
         Files!At(p, pc)
  PROVE  /\ upload[p] \in Files!UploadTask /\ upload[p] # Files!NoUpload
         /\ upload[p].pc = pc /\ upload[p].key \in Key /\ upload[p].owner \in Email
         /\ \A pc2 \in {"put", "save", "cleanup"} :
              upload' = [upload EXCEPT ![p].pc = pc2] =>
                /\ upload' \in [Handler -> Files!UploadTask \cup {Files!NoUpload}]
                /\ \A q \in Handler \ {p} : upload'[q] = upload[q]
                /\ upload'[p].key = upload[p].key /\ upload'[p].pc = pc2
                /\ upload'[p] # Files!NoUpload
         /\ upload' = [upload EXCEPT ![p] = Files!NoUpload] =>
              /\ upload' \in [Handler -> Files!UploadTask \cup {Files!NoUpload}]
              /\ \A q \in Handler \ {p} : upload'[q] = upload[q]
              /\ upload'[p] = Files!NoUpload
<1>1. upload[p].pc = pc /\ upload \in [Handler -> Files!UploadTask \cup {Files!NoUpload}]
  BY DEF Files!At, Files!TypeOK
<1>2. upload[p] # Files!NoUpload /\ upload[p] \in Files!UploadTask
  BY <1>1 DEF Files!NoUpload
<1>3. upload[p].key \in Key /\ upload[p].owner \in Email
  BY <1>2 DEF Files!UploadTask
<1>4. ASSUME NEW pc2 \in {"put", "save", "cleanup"}, upload' = [upload EXCEPT ![p].pc = pc2]
      PROVE  /\ upload' \in [Handler -> Files!UploadTask \cup {Files!NoUpload}]
             /\ \A q \in Handler \ {p} : upload'[q] = upload[q]
             /\ upload'[p].key = upload[p].key /\ upload'[p].pc = pc2
             /\ upload'[p] # Files!NoUpload
  <2> DEFINE x == [upload[p] EXCEPT !.pc = pc2]
  <2>1. x \in Files!UploadTask /\ x.key = upload[p].key /\ x.pc = pc2 /\ x # Files!NoUpload
    BY <1>2 DEF Files!UploadTask, Files!NoUpload
  <2>2. upload' = [upload EXCEPT ![p] = x]
    BY <1>4
  <2> HIDE DEF x
  <2> QED BY <1>1, <2>1, <2>2
<1> QED BY <1>1, <1>2, <1>3, <1>4

LEMMA PutKeeps ==
  ASSUME Files!TypeOK, FileInv, NEW p \in Handler, Files!Put(p) \/ Files!PutFails(p)
  PROVE  Files!TypeOK' /\ FileInv'
<1> DEFINE k == upload[p].key
<1>1. /\ upload[p] # Files!NoUpload /\ upload[p].pc = "put" /\ k \in Key
      /\ upload' = [upload EXCEPT ![p].pc = "save"] \/ upload' = [upload EXCEPT ![p] = Files!NoUpload]
      /\ UNCHANGED <<row, issued, leaked>>
      /\ object' = object \cup {k} \/ UNCHANGED object
      /\ UNCHANGED uncertain \/ uncertain' = uncertain \cup {k}
  BY Advanced DEF Files!Put, Files!PutFails, Files!EndUpload, Files!At
<1>2. /\ upload' \in [Handler -> Files!UploadTask \cup {Files!NoUpload}]
      /\ \A q \in Handler \ {p} : upload'[q] = upload[q]
      /\ upload'[p] = Files!NoUpload \/ upload'[p].key = k
  <2>1. Files!At(p, "put")
    BY DEF Files!Put, Files!PutFails
  <2> QED BY <1>1, <2>1, Advanced
<1>3. Files!TypeOK'
  BY <1>1, <1>2 DEF Files!TypeOK
<1>4. UploadOK(p)' /\ (k \in object' => k \in uncertain' \/ upload'[p] # Files!NoUpload)
  <2>1. CASE Files!Put(p)
    <3>1. upload'[p] # Files!NoUpload /\ upload'[p].key = k /\ upload'[p].pc = "save"
          /\ object' = object \cup {k} /\ row' = row
      BY <2>1, Advanced DEF Files!Put
    <3>2. row[k] = None
      BY <1>1 DEF FileInv, UploadOK
    <3> QED BY <3>1, <3>2 DEF UploadOK
  <2>2. CASE Files!PutFails(p)
    <3>1. upload'[p] = Files!NoUpload /\ (UNCHANGED object \/ k \in uncertain')
      BY <2>2, Advanced DEF Files!PutFails, Files!EndUpload
    <3>2. k \notin object
      BY <1>1 DEF FileInv, UploadOK
    <3> QED BY <3>1, <3>2 DEF UploadOK
  <2> QED BY <2>1, <2>2
<1>5. row[k] = None
  BY <1>1 DEF FileInv, UploadOK
<1> QED BY <1>1, <1>2, <1>3, <1>4, <1>5, UploadStep

LEMMA SaveKeeps ==
  ASSUME Files!TypeOK, FileInv, NEW p \in Handler, Files!SaveFileMeta(p) \/ Files!SaveFails(p)
  PROVE  Files!TypeOK' /\ FileInv'
<1> DEFINE k == upload[p].key
<1>1. /\ upload[p] # Files!NoUpload /\ upload[p].pc = "save" /\ k \in Key
      /\ upload[p].owner \in Email /\ upload[p].owner # None
      /\ UNCHANGED <<object, issued, leaked>>
      /\ row' = [row EXCEPT ![k] = upload[p].owner] \/ UNCHANGED row
      /\ UNCHANGED uncertain \/ uncertain' = uncertain \cup {k}
  BY Advanced, UserAssumption DEF Files!SaveFileMeta, Files!SaveFails, Files!NobodyIsUser
<1>2. /\ upload' \in [Handler -> Files!UploadTask \cup {Files!NoUpload}]
      /\ \A q \in Handler \ {p} : upload'[q] = upload[q]
      /\ upload'[p] = Files!NoUpload \/ upload'[p].key = k
  BY Advanced DEF Files!SaveFileMeta, Files!SaveFails, Files!EndUpload
<1>3. Files!TypeOK'
  BY <1>1, <1>2 DEF Files!TypeOK
<1>4. k \in object /\ row[k] = None
  BY <1>1 DEF FileInv, UploadOK
<1>5. UploadOK(p)' /\ (row'[k] # None \/ upload'[p] # Files!NoUpload)
  <2>1. CASE Files!SaveFileMeta(p)
    <3>1. upload'[p] = Files!NoUpload /\ row'[k] = upload[p].owner
      BY <1>1, <2>1, Advanced DEF Files!SaveFileMeta, Files!EndUpload, Files!TypeOK
    <3> QED BY <1>1, <3>1 DEF UploadOK
  <2>2. CASE Files!SaveFails(p)
    <3>1. upload'[p] # Files!NoUpload /\ upload'[p].key = k /\ upload'[p].pc = "cleanup"
      BY <2>2, Advanced DEF Files!SaveFails
    <3>2. row' = row \/ k \in uncertain'
      BY <2>2 DEF Files!SaveFails
    <3> QED BY <1>4, <3>1, <3>2 DEF UploadOK
  <2> QED BY <2>1, <2>2
<1>6. \A x \in Key \ {k} : row'[x] = row[x]
  BY <1>1 DEF Files!TypeOK
<1> HIDE DEF k
<1> QED BY <1>1, <1>2, <1>3, <1>4, <1>5, <1>6, UploadStep DEF k

LEMMA CleanupKeeps ==
  ASSUME Files!TypeOK, FileInv, NEW p \in Handler, Files!Delete(p) \/ Files!DeleteFails(p)
  PROVE  Files!TypeOK' /\ FileInv'
<1> DEFINE k == upload[p].key
<1>1. /\ upload[p] # Files!NoUpload /\ upload[p].pc = "cleanup" /\ k \in Key
      /\ UNCHANGED <<row, issued, uncertain>>
      /\ \/ object' = object \ {k} /\ UNCHANGED leaked
         \/ UNCHANGED object /\ leaked' = leaked \cup {k}
  BY Advanced DEF Files!Delete, Files!DeleteFails
<1>2. /\ upload' \in [Handler -> Files!UploadTask \cup {Files!NoUpload}]
      /\ \A q \in Handler \ {p} : upload'[q] = upload[q]
      /\ upload'[p] = Files!NoUpload
  BY Advanced DEF Files!Delete, Files!DeleteFails, Files!EndUpload
<1>3. Files!TypeOK'
  BY <1>1, <1>2 DEF Files!TypeOK
<1>4. row[k] # None => k \in uncertain
  BY <1>1 DEF FileInv, UploadOK
<1>5. UploadOK(p)'
  BY <1>2 DEF UploadOK
<1> QED BY <1>1, <1>2, <1>3, <1>4, <1>5, UploadStep

LEMMA AbortKeeps ==
  ASSUME Files!TypeOK, FileInv, NEW p \in Handler,
         upload' = [upload EXCEPT ![p] = Files!NoUpload],
         leaked' = IF upload[p] = Files!NoUpload THEN leaked ELSE leaked \cup {upload[p].key},
         UNCHANGED <<object, row, issued, uncertain>>
  PROVE  Files!TypeOK' /\ FileInv'
<1>1. /\ upload' \in [Handler -> Files!UploadTask \cup {Files!NoUpload}]
      /\ \A q \in Handler \ {p} : upload'[q] = upload[q]
      /\ upload'[p] = Files!NoUpload
  BY DEF Files!TypeOK
<1>2. CASE upload[p] = Files!NoUpload
  <2>1. upload' = upload /\ leaked' = leaked
    BY <1>2 DEF Files!TypeOK
  <2> QED BY <2>1, FileKept DEF Files!TypeOK
<1>3. CASE upload[p] # Files!NoUpload
  <2> DEFINE k == upload[p].key
  <2>1. k \in Key /\ leaked' = leaked \cup {k}
    BY <1>3 DEF Files!TypeOK, Files!UploadTask
  <2>2. Files!TypeOK'
    BY <1>1, <2>1 DEF Files!TypeOK
  <2>3. UploadOK(p)'
    BY <1>1 DEF UploadOK
  <2>4. row[k] # None => k \in object \cup uncertain
    BY <2>1 DEF FileInv, RowBackedInTurn, Files!RowBackedInTurn
  <2> QED BY <1>1, <1>3, <2>1, <2>2, <2>3, <2>4, UploadStep
<1> QED BY <1>2, <1>3

LEMMA UploadKeeps ==
  ASSUME Files!TypeOK, FileInv, NEW p \in Handler, NEW owner \in Email, NEW fits,
         Files!Upload(p, owner, fits)
  PROVE  Files!TypeOK' /\ FileInv'
<1>1. CASE fits
  <2> DEFINE k == CHOOSE k \in Key \ issued : TRUE
             x == [pc |-> "put", key |-> k, owner |-> owner]
  <2>1. issued # Key /\ upload' = [upload EXCEPT ![p] = x] /\ issued' = issued \cup {k}
        /\ upload[p] = Files!NoUpload /\ UNCHANGED <<object, row, uncertain, leaked>>
    BY <1>1 DEF Files!Upload, Files!Running
  <2>2. k \in Key /\ k \notin issued
    BY <2>1 DEF Files!TypeOK
  <2>3. x \in Files!UploadTask /\ x.key = k /\ x.pc = "put" /\ x # Files!NoUpload
    BY <2>2 DEF Files!UploadTask, Files!NoUpload
  <2> HIDE DEF x, k
  <2>4. upload'[p] = x /\ \A q \in Handler \ {p} : upload'[q] = upload[q]
    BY <2>1 DEF Files!TypeOK
  <2>5. Files!TypeOK'
    BY <2>1, <2>2, <2>3 DEF Files!TypeOK
  <2>6. KeyFresh' /\ KeysApart'
    BY <2>1, <2>2, <2>3, <2>4 DEF FileInv, KeyFresh, KeysApart
  <2>7. \A y \in Key : row'[y] # None => y \in issued'
    BY <2>1 DEF FileInv
  <2>8. ASSUME NEW q \in Handler PROVE UploadOK(q)'
    <3>1. CASE q = p
      <4>1. k \notin object /\ row[k] = None
        BY <2>2 DEF FileInv
      <4> QED BY <2>1, <2>3, <2>4, <3>1, <4>1 DEF UploadOK
    <3>2. CASE q # p
      BY <2>1, <2>4, <3>2 DEF FileInv, UploadOK
    <3> QED BY <3>1, <3>2
  <2>9. RowBackedInTurn'
    BY <2>1 DEF FileInv, RowBackedInTurn, Files!RowBackedInTurn
  <2>10. OrphansExplained'
    <3>1. \A q \in Handler : upload[q] # Files!NoUpload => upload'[q] = upload[q]
      BY <2>1, <2>4
    <3> QED BY <2>1, <3>1 DEF FileInv, OrphansExplained, Files!OrphansExplained
  <2> QED BY <2>1, <2>5, <2>6, <2>7, <2>8, <2>9, <2>10 DEF FileInv
<1>2. CASE ~fits
  BY <1>2, FileKept DEF Files!Upload, Files!TypeOK
<1> QED BY <1>1, <1>2

LEMMA FileStepKeeps ==
  ASSUME PlaceInv, FileInv, NEW p \in Handler, FileStep(p) \/ FileFault(p)
  PROVE  Files!TypeOK' /\ FileInv' /\ carried' \in [Caller -> Int]
         /\ result' \in [Handler -> Users!Status]
<1>1. Files!TypeOK /\ TypeOK /\ Users!TypeOK /\ call[p] # NoCall
  BY DEF PlaceInv, TypeOK, FileStep, FileFault, Uploading, Reading, Runs
<1>2. carried' \in [Caller -> Int]
  BY <1>1, CarriedType DEF FileStep, FileFault, Uploading, Reading, CarryOutIf
<1>3. Files!TypeOK' /\ FileInv'
  <2>1. CASE Reading(p)
    BY <1>1, <2>1, FileKept DEF Reading, Files!Read, Files!TypeOK
  <2>2. CASE Uploading(p)
    <3>1. CASE \E fits \in BOOLEAN : Files!Upload(p, call[p].user, fits)
      <4>1. call[p].user \in Email
        BY <2>2 DEF Uploading, Runs, PlaceInv, Named
      <4> QED BY <1>1, <3>1, <4>1, UploadKeeps
    <3>2. CASE Files!ParseUploadRequest(p)
      BY <1>1, <3>2, FileKept DEF Files!ParseUploadRequest, Files!TypeOK
    <3> QED BY <1>1, <2>2, <3>1, <3>2, PutKeeps, SaveKeeps, CleanupKeeps DEF Uploading
  <2>3. CASE FileFault(p)
    BY <1>1, <2>3, PutKeeps, SaveKeeps, CleanupKeeps DEF FileFault
  <2> QED BY <2>1, <2>2, <2>3 DEF FileStep
<1>4. \/ UNCHANGED result
      \/ \E status \in {200, 400, 403, 404, 413, 500} : Users!Answer(p, status)
  <2>1. CASE Reading(p)
    <3>1. PICK k \in Key, content \in BOOLEAN :
            Files!Read(p, k, call[p].user, call[p].role, content, link)
      BY <2>1 DEF Reading
    <3> DEFINE status == IF row[k] = None THEN 404
                         ELSE IF ~Files!EnsureAccess(k, call[p].user, call[p].role, link) THEN 403
                         ELSE IF content /\ k \notin object THEN 500
                         ELSE 200
    <3>2. Users!Answer(p, status)
      BY <3>1, Zenon DEF Files!Read, Files!Answer, Users!Answer
    <3>3. status \in {200, 400, 403, 404, 413, 500}
      OBVIOUS
    <3> HIDE DEF status
    <3> QED BY <3>2, <3>3
  <2>2. CASE Uploading(p)
    BY <2>2 DEF Uploading, Files!Upload, Files!ParseUploadRequest, Files!Put, Files!SaveFileMeta,
       Files!Delete, Files!EndUpload, Files!Answer, Users!Answer
  <2>3. CASE FileFault(p)
    BY <2>3 DEF FileFault, Files!PutFails, Files!SaveFails, Files!DeleteFails,
       Files!EndUpload, Files!Answer, Users!Answer
  <2> QED BY <2>1, <2>2, <2>3 DEF FileStep
<1>5. {200, 400, 403, 404, 413, 500} \subseteq Users!Status
  BY DEF Users!Status
<1>6. result' \in [Handler -> Users!Status]
  BY <1>1, <1>4, <1>5, Answered DEF Users!TypeOK
<1> QED BY <1>2, <1>3, <1>6

-----------------------------------------------------------------------------
(* The invariant of requests, calls and files.                             *)

BaseInv == PlaceInv /\ FileInv

LEMMA InitBase == Init => BaseInv
<1> SUFFICES ASSUME Init PROVE BaseInv
  OBVIOUS
<1> USE DEF Init
<1>1. ClientTypeOK
  BY SessionAssumption DEF ClientTypeOK, OptionalUser
<1>2. Users!TypeOK
  BY UserAssumption DEF Users!Init, Users!TypeOK, Users!SeedIsAccounts, Users!Status
<1>3. Files!TypeOK
  BY DEF Files!Init, Files!TypeOK
<1>4. CallsPlaced /\ \A p \in Handler : change[p] = Users!NoChange
  BY DEF CallsPlaced, AwaitedCurrent, Awaited, NoCall, Users!Init
<1>5. FileInv
  BY DEF Files!Init, FileInv, KeyFresh, KeysApart, UploadOK, RowBackedInTurn,
         Files!RowBackedInTurn, OrphansExplained, Files!OrphansExplained
<1> QED BY <1>1, <1>2, <1>3, <1>4, <1>5 DEF BaseInv, PlaceInv, TypeOK, CallsPlaced

LEMMA DataKept ==
  ASSUME BaseInv, UNCHANGED <<userVars, fileVars>>, ClientTypeOK', CallsPlaced',
         carried' \in [Caller -> Int], result' \in [Handler -> Users!Status]
  PROVE  BaseInv'
<1>1. UNCHANGED <<account, link, change, object, row, upload, issued, uncertain, leaked>>
  BY DEF userVars, fileVars
<1>2. Users!TypeOK' /\ Files!TypeOK'
  BY <1>1 DEF BaseInv, PlaceInv, TypeOK, Users!TypeOK, Files!TypeOK
<1>3. FileInv'
  BY <1>1, FileKept DEF BaseInv
<1> QED BY <1>1, <1>2, <1>3 DEF BaseInv, PlaceInv, TypeOK, CallsPlaced

LEMMA ClientsKept ==
  ASSUME BaseInv, UNCHANGED <<clientVars, call>>, KnownChange', Users!TypeOK', Files!TypeOK',
         FileInv', carried' \in [Caller -> Int]
  PROVE  BaseInv'
<1>1. UNCHANGED <<session, request, answer, call>>
  BY DEF clientVars
<1>2. ClientTypeOK'
  BY <1>1 DEF BaseInv, PlaceInv, TypeOK, ClientTypeOK
<1>3. AwaitedCurrent'
  BY <1>1 DEF BaseInv, PlaceInv, AwaitedCurrent, Awaited, Method
<1> QED BY <1>1, <1>2, <1>3 DEF BaseInv, PlaceInv, TypeOK, Placed, Named, KnownChange

(* The request a client begins with.                                       *)
First(c, route, arg) ==
  LET user == IF route.open THEN None ELSE session[c]
  IN  [route |-> route, arg |-> arg, step |-> 1, attempt |-> 1,
       user |-> user, role |-> RoleOf(user)]

LEMMA BeginSends ==
  ASSUME BaseInv, NEW c \in Caller, NEW route \in Menu[c], NEW arg \in ArgsOf(route.calls[1]),
         Begin(c, route, arg)
  PROVE  /\ \E r \in Request : /\ Placed(r) /\ r.step = 1 /\ NewCall(c, r) \in Call
                               /\ Named(NewCall(c, r)) /\ Sends(c, r, Forgotten(c))
         /\ ClientTypeOK'
<1> DEFINE r == First(c, route, arg)
<1>1. route \in Routes /\ arg \in Arg
  BY MenuAssumption, ArgAssumption
<1>2. (IF route.open THEN None ELSE session[c]) \in OptionalUser
      /\ (~route.open => session[c] \in Email)
  BY DEF Begin, BaseInv, PlaceInv, TypeOK, ClientTypeOK, OptionalUser
<1>3. \A u \in OptionalUser : RoleOf(u) \in OptionalRole
  BY DEF RoleOf, OptionalRole, OptionalUser, BaseInv, PlaceInv, TypeOK, Users!TypeOK
<1>4. r \in Request /\ r.step = 1 /\ r.route = route
      /\ (~route.open => r.user \in Email)
  BY <1>1, <1>2, <1>3 DEF First, Request
<1>5. Len(route.calls) >= 1
  BY <1>1, RoutesWellFormed DEF WellFormed
<1>6. Placed(r)
  BY <1>4, <1>5 DEF Placed
<1>7. Send(c, r, Forgotten(c)) /\ answer' = [answer EXCEPT ![c] = "none"] /\ UNCHANGED session
  BY DEF Begin, First
<1>8. Forgotten(c) \in [Handler -> Call \cup {NoCall}]
  BY ForgottenRelaxed DEF BaseInv, PlaceInv, Relaxed
<1> HIDE DEF r
<1>9. NewCall(c, r) \in Call /\ Named(NewCall(c, r)) /\ Sends(c, r, Forgotten(c))
      /\ request' \in [Caller -> Request \cup {Idle}] /\ call' \in [Handler -> Call \cup {NoCall}]
  BY <1>4, <1>6, <1>7, <1>8, SendType DEF BaseInv, PlaceInv, Sends
<1>10. ClientTypeOK'
  BY <1>7, <1>9 DEF BaseInv, PlaceInv, TypeOK, ClientTypeOK
<1> QED BY <1>4, <1>6, <1>9, <1>10

LEMMA BeginBase ==
  ASSUME BaseInv, NEW c \in Caller, NEW route \in Menu[c], NEW arg \in ArgsOf(route.calls[1]),
         Begin(c, route, arg)
  PROVE  BaseInv'
<1>1. ClientTypeOK' /\ CallsPlaced'
  BY BeginSends, SendsPlaced, ForgottenRelaxed DEF BaseInv, PlaceInv
<1>2. carried' \in [Caller -> Int] /\ UNCHANGED <<userVars, fileVars, result>>
  BY DEF Begin, BaseInv, PlaceInv, TypeOK
<1>3. result' \in [Handler -> Users!Status]
  BY <1>2 DEF BaseInv, PlaceInv, TypeOK, Users!TypeOK
<1> QED BY <1>1, <1>2, <1>3, DataKept

LEMMA UnauthorizedBase ==
  ASSUME BaseInv, NEW c \in Caller, Unauthorized(c)
  PROVE  BaseInv'
<1>1. /\ session' = [session EXCEPT ![c] = None] /\ answer' = [answer EXCEPT ![c] = "refused"]
      /\ carried' = [carried EXCEPT ![c] = 0] /\ call' = Forgotten(c) /\ request[c] = Idle
      /\ UNCHANGED <<request, userVars, fileVars, result>>
  BY DEF Unauthorized, Class
<1>2. Relaxed(c, Forgotten(c))
  BY ForgottenRelaxed DEF BaseInv, PlaceInv
<1>3. request' = [request EXCEPT ![c] = Idle]
  BY <1>1 DEF BaseInv, PlaceInv, TypeOK, ClientTypeOK
<1>4. CallsPlaced'
  BY <1>1, <1>2, <1>3, AnswersPlaced DEF BaseInv
<1>5. ClientTypeOK'
  BY <1>1, <1>2 DEF BaseInv, PlaceInv, TypeOK, ClientTypeOK, Relaxed, OptionalUser
<1>6. carried' \in [Caller -> Int] /\ result' \in [Handler -> Users!Status]
  BY <1>1 DEF BaseInv, PlaceInv, TypeOK, Users!TypeOK
<1> QED BY <1>1, <1>4, <1>5, <1>6, DataKept

(* What is left of the calls when the answer of p has been taken, or is    *)
(* not waited for any more.                                                *)
Left(p) == IF result[p] # 0 THEN [call EXCEPT ![p] = NoCall]
           ELSE [call EXCEPT ![p].tie = "abandoned"]

LEMMA OutcomeBase ==
  ASSUME BaseInv, NEW c \in Caller, NEW p \in Handler, Receive(c, p) \/ Deadline(c, p)
  PROVE  /\ BaseInv'
         /\ Relaxed(c, Left(p)) /\ Awaited(c, p)
         /\ \E status \in Int :
              /\ GoOn(c, status, Left(p))
              /\ Class(status) = "refused" =>
                   result[p] # 0 /\ Class(result[p]) = "refused"
<1>1. Awaited(c, p) /\ request[c] # Idle
  BY DEF Receive, Deadline, BaseInv, PlaceInv, AwaitedCurrent
<1>2. Relaxed(c, Left(p)) /\ Left(p) \in [Handler -> Call \cup {NoCall}]
  BY <1>1, ReceivedRelaxed, AbandonedRelaxed DEF BaseInv, Left, Relaxed
<1>3. result[p] \in Int
  BY DEF BaseInv, PlaceInv, TypeOK, Users!TypeOK, Users!Status
<1>4. \E status \in Int :
        /\ GoOn(c, status, Left(p))
        /\ Class(status) = "refused" => result[p] # 0 /\ Class(result[p]) = "refused"
  <2>1. CASE Receive(c, p)
    <3> DEFINE status == Returned(call[p].method, result[p])
    <3>1. status = result[p] \/ status = 500
      BY DEF Returned, OverGrpc
    <3>2. GoOn(c, status, Left(p)) /\ result[p] # 0
      BY <2>1 DEF Receive, Left
    <3> HIDE DEF status
    <3> QED BY <1>3, <3>1, <3>2 DEF Class
  <2>2. CASE Deadline(c, p)
    BY <2>2 DEF Deadline, Left, Unanswered, Class
  <2> QED BY <2>1, <2>2
<1>5. ClientTypeOK' /\ CallsPlaced'
  <2>1. PICK status \in Int : GoOn(c, status, Left(p))
    BY <1>4
  <2>2. PlaceInv
    BY DEF BaseInv
  <2> HIDE DEF Left
  <2> QED BY <1>1, <1>2, <2>1, <2>2, GoOnOutcome, SendsPlaced, AnswersPlaced
<1>6. /\ UNCHANGED <<carried, userVars, fileVars>>
      /\ result' = [result EXCEPT ![p] = 0] \/ UNCHANGED result
  BY DEF Receive, Deadline
<1>7. carried' \in [Caller -> Int] /\ result' \in [Handler -> Users!Status]
  BY <1>6 DEF BaseInv, PlaceInv, TypeOK, Users!TypeOK, Users!Status
<1> QED BY <1>1, <1>2, <1>4, <1>5, <1>6, <1>7, DataKept

LEMMA DiscardBase ==
  ASSUME BaseInv, NEW p \in Handler, Discard(p)
  PROVE  BaseInv'
<1>1. /\ call' = [call EXCEPT ![p] = NoCall] /\ result' = [result EXCEPT ![p] = 0]
      /\ UNCHANGED <<clientVars, carried, userVars, fileVars>>
  BY DEF Discard
<1>2. \A q \in Handler : call'[q] = NoCall \/ call'[q] = call[q]
  BY <1>1 DEF BaseInv, PlaceInv, TypeOK, ClientTypeOK
<1>3. \A c \in Caller, q \in Handler : Awaited(c, q)' => Awaited(c, q) /\ call'[q] = call[q]
  BY <1>2 DEF Awaited, NoCall
<1>4. UNCHANGED <<session, request, answer>>
  BY <1>1 DEF clientVars
<1>5. AwaitedCurrent'
  BY <1>3, <1>4 DEF BaseInv, PlaceInv, AwaitedCurrent, Method
<1>6. CallsPlaced'
  BY <1>2, <1>4, <1>5 DEF BaseInv, PlaceInv, CallsPlaced, Placed, Named
<1>7. ClientTypeOK'
  BY <1>1, <1>4 DEF BaseInv, PlaceInv, TypeOK, ClientTypeOK
<1>8. carried' \in [Caller -> Int] /\ result' \in [Handler -> Users!Status]
  BY <1>1 DEF BaseInv, PlaceInv, TypeOK, Users!TypeOK, Users!Status
<1> QED BY <1>1, <1>6, <1>7, <1>8, DataKept

ServiceStep(p) == IdentityStep(p) \/ FileStep(p) \/ FileFault(p) \/ Perform(p) \/ Fail(p)

LEMMA ServiceBase ==
  ASSUME BaseInv, NEW p \in Handler, ServiceStep(p)
  PROVE  BaseInv' /\ UNCHANGED <<clientVars, call>>
<1>1. UNCHANGED <<clientVars, call>>
  BY DEF ServiceStep, IdentityStep, FileStep, FileFault, Perform, Fail
<1>2. PlaceInv /\ FileInv /\ TypeOK /\ Users!TypeOK /\ Files!TypeOK /\ KnownChange
  BY DEF BaseInv, PlaceInv, TypeOK, KnownChange
<1>3. KnownChange' /\ Users!TypeOK' /\ Files!TypeOK' /\ FileInv' /\ carried' \in [Caller -> Int]
  <2>1. CASE IdentityStep(p)
    <3>1. UNCHANGED <<object, row, upload, issued, uncertain, leaked>>
      BY <2>1 DEF IdentityStep, fileVars
    <3> QED BY <1>2, <2>1, <3>1, IdentityTypes, FileKept DEF Files!TypeOK
  <2>2. CASE FileStep(p) \/ FileFault(p)
    <3>1. UNCHANGED <<account, link, change>>
      BY <2>2 DEF FileStep, FileFault, userVars
    <3> QED BY <1>2, <2>2, <3>1, FileStepKeeps DEF Users!TypeOK, KnownChange
  <2>3. CASE Perform(p)
    <3>1. UNCHANGED <<account, link, change, object, row, upload, issued, uncertain, leaked>>
          /\ call[p] # NoCall /\ (CarryOut(p) \/ UNCHANGED carried)
      BY <2>3 DEF Perform, userVars, fileVars, CarryOutIf
    <3>2. \E status \in {403, 200, 404, 409} : Users!Answer(p, status)
      BY <2>3 DEF Perform
    <3>3. {403, 200, 404, 409} \subseteq Users!Status
      BY DEF Users!Status
    <3>4. result' \in [Handler -> Users!Status]
      BY <1>2, <3>2, <3>3, Answered
    <3>5. carried' \in [Caller -> Int]
      BY <1>2, <3>1, CarriedType
    <3> QED BY <1>2, <3>1, <3>4, <3>5, FileKept DEF Users!TypeOK, Files!TypeOK, KnownChange
  <2>4. CASE Fail(p)
    <3>1. /\ Users!Answer(p, 500) /\ change' = [change EXCEPT ![p] = Users!NoChange]
          /\ upload' = [upload EXCEPT ![p] = Files!NoUpload]
          /\ leaked' = IF upload[p] = Files!NoUpload THEN leaked ELSE leaked \cup {upload[p].key}
          /\ UNCHANGED <<carried, account, link, object, row, issued, uncertain>>
      BY <2>4 DEF Fail
    <3>2. Files!TypeOK' /\ FileInv'
      BY <1>2, <3>1, AbortKeeps
    <3>3. change' \in [Handler -> Users!Change \cup {Users!NoChange}] /\ KnownChange'
      BY <1>2, <3>1 DEF Users!TypeOK, KnownChange
    <3>4. result' \in [Handler -> Users!Status]
      <4>1. 500 \in Users!Status
        BY DEF Users!Status
      <4> QED BY <1>2, <3>1, <4>1, Answered
    <3> QED BY <1>2, <3>1, <3>2, <3>3, <3>4 DEF Users!TypeOK, TypeOK
  <2> QED BY <2>1, <2>2, <2>3, <2>4 DEF ServiceStep
<1> QED BY <1>1, <1>3, ClientsKept

LEMMA StillBase == BaseInv /\ UNCHANGED vars => BaseInv'
<1> SUFFICES ASSUME BaseInv, UNCHANGED vars PROVE BaseInv'
  OBVIOUS
<1>1. UNCHANGED <<clientVars, call, carried, userVars, fileVars, result>>
  BY DEF vars
<1>2. KnownChange' /\ Users!TypeOK' /\ Files!TypeOK' /\ FileInv' /\ carried' \in [Caller -> Int]
  BY <1>1, FileKept DEF BaseInv, PlaceInv, TypeOK, Users!TypeOK, Files!TypeOK, KnownChange,
     userVars, fileVars
<1> QED BY <1>1, <1>2, ClientsKept

LEMMA NextBase == BaseInv /\ [Next]_vars => BaseInv'
<1> SUFFICES ASSUME BaseInv, [Next]_vars PROVE BaseInv'
  OBVIOUS
<1>1. CASE UNCHANGED vars
  BY <1>1, StillBase
<1>2. CASE Rest
  BY <1>2, StillBase DEF Rest
<1>3. ASSUME NEW c \in Caller, Unauthorized(c) PROVE BaseInv'
  BY <1>3, UnauthorizedBase
<1>4. ASSUME NEW c \in Caller, NEW route \in Menu[c], NEW arg \in ArgsOf(route.calls[1]),
             Begin(c, route, arg)
      PROVE BaseInv'
  BY <1>4, BeginBase
<1>5. ASSUME NEW c \in Caller, NEW p \in Handler, Receive(c, p) \/ Deadline(c, p) PROVE BaseInv'
  BY <1>5, OutcomeBase
<1>6. ASSUME NEW p \in Handler, Discard(p) PROVE BaseInv'
  BY <1>6, DiscardBase
<1>7. ASSUME NEW p \in Handler, ServiceStep(p) PROVE BaseInv'
  BY <1>7, ServiceBase
<1> QED BY <1>1, <1>2, <1>3, <1>4, <1>5, <1>6, <1>7 DEF Next, HandlerStep, ServiceStep

LEMMA Base == Spec => []BaseInv
BY InitBase, NextBase, PTL DEF Spec

(* Whatever handlers and statements fail and whichever deadlines pass: a   *)
(* row of files has its object, unless an insert that was committed has    *)
(* been reported as failed (file_service.cpp, UploadFile).                 *)
THEOREM RowsBacked == Spec => []RowBackedInTurn
<1>1. BaseInv => RowBackedInTurn
  BY DEF BaseInv, FileInv
<1> QED BY <1>1, Base, PTL

(* And an object without a row is of an upload in progress, or its storage *)
(* or handler has failed.                                                  *)
THEOREM OrphansAccountedFor == Spec => []OrphansExplained
<1>1. BaseInv => OrphansExplained
  BY DEF BaseInv, FileInv
<1> QED BY <1>1, Base, PTL

-----------------------------------------------------------------------------
(* Commands take effect once, and not behind a refusal.                    *)

(* A call that is sent once and still counts for the request of c.         *)
LiveOnce(c, p) ==
  /\ call[p] # NoCall /\ call[p].tie # "past" /\ call[p].caller = c
  /\ call[p].method \notin Repeatable

(* The call has not taken effect so far.                                   *)
Untouched(p) ==
  \/ result[p] = 0 /\ (upload[p] = Files!NoUpload \/ upload[p].pc # "cleanup")
  \/ Class(result[p]) = "refused" /\ call[p].method \notin Untidy

CallsOf(c) ==
  /\ carried[c] \in {0, 1}
  /\ \A p, q \in Handler : LiveOnce(c, p) /\ LiveOnce(c, q) => p = q
  /\ \A p \in Handler : LiveOnce(c, p) /\ Untouched(p) => carried[c] = 0
  /\ (request[c] # Idle /\ Method(request[c]) \in Repeatable) \/ answer[c] = "refused"
       => carried[c] = 0 /\ \A p \in Handler : ~LiveOnce(c, p)
  /\ answer[c] = "refused" => request[c] = Idle

HandlersInv ==
  \A p \in Handler :
    /\ upload[p] # Files!NoUpload => /\ call[p] # NoCall /\ call[p].method = "Upload"
                                     /\ result[p] = 0
    /\ result[p] # 0 => call[p] # NoCall

CallInv == HandlersInv /\ \A c \in Caller : CallsOf(c)

(* What a step of a service does with the call of p.                       *)
Effect(p) ==
  /\ call[p] # NoCall
  /\ result[p] = 0
  /\ \A q \in Handler \ {p} : result'[q] = result[q] /\ upload'[q] = upload[q]
  /\ upload'[p] # Files!NoUpload => call[p].method = "Upload" /\ result'[p] = 0
  /\ \/ /\ UNCHANGED carried
        /\ upload[p] # Files!NoUpload /\ upload[p].pc = "cleanup" => result'[p] = 500
     \/ /\ upload[p] = Files!NoUpload \/ upload[p].pc # "cleanup"
        /\ call[p].method \notin Repeatable
        /\ CarryOut(p)
        /\ \/ result'[p] = 200
           \/ /\ result'[p] = 0
              /\ upload'[p] # Files!NoUpload /\ upload'[p].pc = "cleanup"
           \/ result'[p] # 0 /\ call[p].method \in Untidy

LEMMA EffectKeeps ==
  ASSUME BaseInv, CallInv, NEW p \in Handler, Effect(p), UNCHANGED <<clientVars, call>>
  PROVE  CallInv'
<1>1. UNCHANGED <<request, answer, call>> /\ \A c \in Caller, q \in Handler : LiveOnce(c, q)' <=> LiveOnce(c, q)
  BY DEF clientVars, LiveOnce
<1>2. HandlersInv'
  BY <1>1 DEF Effect, CallInv, HandlersInv
<1>3. call[p].caller \in Caller /\ carried \in [Caller -> Int]
  BY DEF Effect, BaseInv, PlaceInv, TypeOK, ClientTypeOK, Call
<1>4. \A q \in Handler : q # p => (Untouched(q)' <=> Untouched(q))
  BY DEF Effect, Untouched
<1>5. ASSUME NEW c \in Caller PROVE CallsOf(c)'
  <2>1. CallsOf(c)
    BY DEF CallInv
  <2>2. CASE carried'[c] = carried[c] /\ ~LiveOnce(c, p)
    BY <1>1, <1>4, <2>1, <2>2 DEF CallsOf, Method
  <2>3. CASE UNCHANGED carried /\ LiveOnce(c, p)
    <3>1. Untouched(p)' => Untouched(p)
      BY <2>3 DEF Effect, Untouched, Class
    <3> QED BY <1>1, <1>4, <2>1, <2>3, <3>1 DEF CallsOf, Method
  <2>4. CASE LiveOnce(c, p) /\ ~UNCHANGED carried
    <3>1. Untouched(p) /\ CarryOut(p) /\ ~Untouched(p)'
      BY <2>4 DEF Effect, Untouched, Class
    <3>2. carried[c] = 0 /\ carried'[c] = 1
      BY <1>3, <2>1, <2>4, <3>1 DEF CallsOf, CarryOut, LiveOnce
    <3> QED BY <1>1, <1>4, <2>1, <2>4, <3>1, <3>2 DEF CallsOf, Method
  <2>5. LiveOnce(c, p) \/ carried'[c] = carried[c]
    BY <1>3 DEF Effect, CarryOut, LiveOnce
  <2> QED BY <2>2, <2>3, <2>4, <2>5
<1> QED BY <1>2, <1>5 DEF CallInv

(* The handlers that served calls which are gone have answered them.       *)
Freed(calls) ==
  \A q \in Handler :
    /\ result'[q] = result[q] \/ (result'[q] = 0 /\ calls[q] = NoCall)
    /\ calls[q] = NoCall => call[q] = NoCall \/ (result[q] # 0 /\ result'[q] = 0)

Live(c, calls, q) ==
  calls[q] # NoCall /\ calls[q].tie # "past" /\ calls[q].caller = c /\ calls[q].method \notin Repeatable

LEMMA RelaxedLive ==
  ASSUME BaseInv, NEW c \in Caller, NEW calls, Relaxed(c, calls)
  PROVE  \A d \in Caller, q \in Handler : Live(d, calls, q) => LiveOnce(d, q)
BY DEF Relaxed, Live, LiveOnce

LEMMA SendKeeps ==
  ASSUME BaseInv, CallInv, NEW c \in Caller, NEW r \in Request, NEW calls,
         Relaxed(c, calls), Freed(calls), Sends(c, r, calls), UNCHANGED upload,
         \A q \in Handler : ~Live(c, calls, q),
         carried'[c] = 0, answer'[c] # "refused",
         \A d \in Caller \ {c} : carried'[d] = carried[d] /\ answer'[d] = answer[d]
  PROVE  CallInv'
<1>1. PICK q \in Handler : /\ call[q] = NoCall
                          /\ request' = [request EXCEPT ![c] = r]
                          /\ call' = [calls EXCEPT ![q] = NewCall(c, r)]
  BY DEF Sends
<1>2. request'[c] = r /\ \A d \in Caller \ {c} : request'[d] = request[d]
  BY <1>1 DEF BaseInv, PlaceInv, TypeOK, ClientTypeOK
<1>3. call'[q] = NewCall(c, r) /\ \A p \in Handler \ {q} : call'[p] = calls[p]
  BY <1>1 DEF Relaxed
<1>4. /\ NewCall(c, r).tie = "awaited" /\ NewCall(c, r).caller = c
      /\ NewCall(c, r).method = Method(r) /\ NewCall(c, r) # NoCall
  BY DEF NewCall, NoCall
<1>5. /\ result[q] = 0 /\ upload[q] = Files!NoUpload /\ calls[q] = NoCall /\ result'[q] = 0
  BY <1>1 DEF CallInv, HandlersInv, Relaxed, Freed
<1>6. HandlersInv'
  <2> SUFFICES ASSUME NEW p \in Handler
               PROVE  /\ upload'[p] # Files!NoUpload =>
                           call'[p] # NoCall /\ call'[p].method = "Upload" /\ result'[p] = 0
                      /\ result'[p] # 0 => call'[p] # NoCall
    BY DEF HandlersInv
  <2>1. CASE p = q
    BY <1>5, <2>1
  <2>2. CASE p # q
    BY <1>3, <2>2 DEF CallInv, HandlersInv, Freed, Relaxed
  <2> QED BY <2>1, <2>2
<1>7. ASSUME NEW d \in Caller, NEW p \in Handler, LiveOnce(d, p)'
      PROVE  \/ d = c /\ p = q /\ Method(r) \notin Repeatable
             \/ d # c /\ LiveOnce(d, p) /\ (Untouched(p)' <=> Untouched(p))
  <2>1. CASE p = q
    BY <1>3, <1>4, <1>7, <2>1 DEF LiveOnce
  <2>2. CASE p # q
    <3>1. Live(d, calls, p)
      BY <1>3, <1>7, <2>2 DEF LiveOnce, Live
    <3>2. LiveOnce(d, p) /\ d # c
      BY <3>1, RelaxedLive
    <3>3. result'[p] = result[p] /\ call'[p].method = call[p].method
      BY <1>3, <2>2, <3>1 DEF Live, Freed, Relaxed
    <3> QED BY <3>2, <3>3 DEF Untouched
  <2> QED BY <2>1, <2>2
<1>8. CallsOf(c)'
  <2>1. \A p, p2 \in Handler : LiveOnce(c, p)' /\ LiveOnce(c, p2)' => p = p2
    BY <1>7
  <2>2. Method(r) \in Repeatable => \A p \in Handler : ~LiveOnce(c, p)'
    BY <1>7
  <2> QED BY <1>2, <2>1, <2>2 DEF CallsOf, Method
<1>9. ASSUME NEW d \in Caller \ {c} PROVE CallsOf(d)'
  <2>1. CallsOf(d) /\ request'[d] = request[d] /\ answer'[d] = answer[d] /\ carried'[d] = carried[d]
    BY <1>2 DEF CallInv
  <2>2. \A p \in Handler : LiveOnce(d, p)' => LiveOnce(d, p) /\ (Untouched(p)' <=> Untouched(p))
    BY <1>7
  <2> QED BY <2>1, <2>2 DEF CallsOf, Method
<1> QED BY <1>6, <1>8, <1>9 DEF CallInv

LEMMA AnswerKeeps ==
  ASSUME BaseInv, CallInv, NEW c \in Caller, NEW calls,
         Relaxed(c, calls), Freed(calls), call' = calls, UNCHANGED upload,
         request' = [request EXCEPT ![c] = Idle],
         carried'[c] = carried[c] \/ (carried'[c] = 0 /\ \A q \in Handler : ~Live(c, calls, q)),
         answer'[c] = "refused" => carried'[c] = 0 /\ \A q \in Handler : ~Live(c, calls, q),
         \A d \in Caller \ {c} : carried'[d] = carried[d] /\ answer'[d] = answer[d]
  PROVE  CallInv'
<1>1. request'[c] = Idle /\ \A d \in Caller \ {c} : request'[d] = request[d]
  BY DEF BaseInv, PlaceInv, TypeOK, ClientTypeOK
<1>2. HandlersInv'
  BY DEF CallInv, HandlersInv, Freed, Relaxed
<1>3. \A d \in Caller, p \in Handler : LiveOnce(d, p)' <=> Live(d, calls, p)
  BY DEF LiveOnce, Live
<1>4. \A d \in Caller, p \in Handler :
        LiveOnce(d, p)' => LiveOnce(d, p) /\ (Untouched(p)' <=> Untouched(p))
  <2>1. \A d \in Caller, p \in Handler :
          Live(d, calls, p) => result'[p] = result[p] /\ call'[p].method = call[p].method
    BY DEF Live, Freed, Relaxed
  <2> QED BY <1>3, <2>1, RelaxedLive DEF Untouched
<1>5. CallsOf(c)'
  <2>1. CallsOf(c)
    BY DEF CallInv
  <2>2. (\A q \in Handler : ~Live(c, calls, q)) => \A q \in Handler : ~LiveOnce(c, q)'
    BY <1>3
  <2> QED BY <1>1, <1>4, <2>1, <2>2 DEF CallsOf
<1>6. ASSUME NEW d \in Caller \ {c} PROVE CallsOf(d)'
  <2>1. CallsOf(d) /\ request'[d] = request[d] /\ answer'[d] = answer[d] /\ carried'[d] = carried[d]
    BY <1>1 DEF CallInv
  <2> QED BY <1>4, <2>1 DEF CallsOf, Method
<1> QED BY <1>2, <1>5, <1>6 DEF CallInv

LEMMA IdentityEffect ==
  ASSUME BaseInv, CallInv, NEW p \in Handler, IdentityStep(p)
  PROVE  Effect(p)
<1>1. call[p] # NoCall /\ result[p] = 0 /\ UNCHANGED upload
  BY DEF IdentityStep, Rejected, Registering, LoggingIn, ChangingPassword, CreatingStudent,
     AskingIdentity, Runs, Users!Reject, Users!Register, Users!Login, Users!ReadForChange,
     Users!UpdatePasswordHash, Users!CreateStudentWithLink, Users!GetUser,
     Users!GetStudentLink, Users!ListStudents, Users!Running, fileVars
<1>2. call[p].method # "Upload"
  BY DEF IdentityStep, Rejected, Registering, LoggingIn, ChangingPassword, CreatingStudent,
     AskingIdentity, Runs
<1>3. upload[p] = Files!NoUpload
  BY <1>2 DEF CallInv, HandlersInv
<1>4. \/ UNCHANGED carried
      \/ /\ call[p].method \notin Repeatable /\ CarryOut(p) /\ Users!Answer(p, 200)
  <2>1. CASE Registering(p)
    <3>1. account' = account \/ Users!Answer(p, 200)
      BY <2>1 DEF Registering, Users!Register
    <3> QED BY <2>1, <3>1, CommandsOnce DEF Registering, Runs, CarryOutIf
  <2>2. CASE ChangingPassword(p)
    BY <2>2, CommandsOnce DEF ChangingPassword, Runs, Users!UpdatePasswordHash
  <2>3. CASE CreatingStudent(p)
    <3>1. CASE ~MayCall(call[p].role, "CreateStudent")
      BY <2>3, <3>1 DEF CreatingStudent
    <3>2. CASE MayCall(call[p].role, "CreateStudent")
      <4>1. CarryOutIf(p, account' # account) /\ (account' = account \/ Users!Answer(p, 200))
        BY <2>3, <3>2 DEF CreatingStudent, Users!CreateStudentWithLink
      <4> QED BY <2>3, <4>1, CommandsOnce DEF CreatingStudent, Runs, CarryOutIf
    <3> QED BY <3>1, <3>2
  <2>4. CASE Rejected(p) \/ LoggingIn(p) \/ AskingIdentity(p)
    BY <2>4 DEF Rejected, LoggingIn, AskingIdentity
  <2> QED BY <2>1, <2>2, <2>3, <2>4 DEF IdentityStep
<1>5. UNCHANGED result \/ \E status : Users!Answer(p, status)
  <2>1. CASE Rejected(p) \/ Registering(p)
    BY <2>1 DEF Rejected, Users!Reject, Registering, Users!Register
  <2>2. CASE LoggingIn(p)
    BY <2>2, Zenon DEF LoggingIn, Users!Login
  <2>3. CASE ChangingPassword(p)
    BY <2>3 DEF ChangingPassword, Users!UpdatePasswordHash, Users!ReadForChange
  <2>4. CASE CreatingStudent(p)
    BY <2>4 DEF CreatingStudent, Users!CreateStudentWithLink
  <2>5. CASE AskingIdentity(p)
    BY <2>5, Zenon DEF AskingIdentity, Users!GetUser, Users!GetStudentLink, Users!ListStudents
  <2> QED BY <2>1, <2>2, <2>3, <2>4, <2>5 DEF IdentityStep
<1>6. \A q \in Handler \ {p} : result'[q] = result[q]
  BY <1>5 DEF Users!Answer, BaseInv, PlaceInv, TypeOK, Users!TypeOK
<1>7. Users!Answer(p, 200) => result'[p] = 200
  BY DEF Users!Answer, BaseInv, PlaceInv, TypeOK, Users!TypeOK
<1> QED BY <1>1, <1>3, <1>4, <1>6, <1>7 DEF Effect

LEMMA FileAnswered ==
  ASSUME BaseInv, NEW p \in Handler
  PROVE  /\ \A status : Files!Answer(p, status) =>
              result'[p] = status /\ \A q \in Handler \ {p} : result'[q] = result[q]
         /\ \A x : upload' = [upload EXCEPT ![p] = x] =>
              upload'[p] = x /\ \A q \in Handler \ {p} : upload'[q] = upload[q]
BY DEF Files!Answer, BaseInv, PlaceInv, TypeOK, Users!TypeOK, Files!TypeOK

LEMMA UploadEffect ==
  ASSUME BaseInv, CallInv, NEW p \in Handler, Runs(p, "Upload"),
         \/ \E fits \in BOOLEAN : Files!Upload(p, call[p].user, fits)
         \/ Files!ParseUploadRequest(p)
         \/ Files!Put(p) \/ Files!PutFails(p)
         \/ Files!SaveFileMeta(p) \/ Files!SaveFails(p)
         \/ Files!Delete(p) \/ Files!DeleteFails(p),
         CarryOutIf(p, row' # row)
  PROVE  Effect(p)
<1>1. call[p] # NoCall /\ call[p].method = "Upload" /\ call[p].method \notin Repeatable
  BY CommandsOnce DEF Runs
<1>2. Files!TypeOK
  BY DEF BaseInv, PlaceInv, TypeOK
<1>3. CASE Files!ParseUploadRequest(p)
  <2>1. result[p] = 0 /\ upload[p] = Files!NoUpload /\ Files!Answer(p, 400)
        /\ UNCHANGED <<row, upload>>
    BY <1>3 DEF Files!ParseUploadRequest, Files!Running
  <2>2. UNCHANGED carried
    BY <2>1 DEF CarryOutIf
  <2> QED BY <1>1, <2>1, <2>2, FileAnswered DEF Effect
<1>4. CASE \E fits \in BOOLEAN : Files!Upload(p, call[p].user, fits)
  <2>1. result[p] = 0 /\ upload[p] = Files!NoUpload /\ UNCHANGED row
        /\ \/ UNCHANGED result /\ \E x : upload' = [upload EXCEPT ![p] = x]
           \/ UNCHANGED upload /\ Files!Answer(p, 413)
    BY <1>4 DEF Files!Upload, Files!Running
  <2>2. UNCHANGED carried
    BY <2>1 DEF CarryOutIf
  <2> QED BY <1>1, <2>1, <2>2, FileAnswered DEF Effect
<1>5. CASE Files!Put(p) \/ Files!PutFails(p)
  <2>1. Files!At(p, "put") /\ UNCHANGED row
    BY <1>5 DEF Files!Put, Files!PutFails
  <2>2. result[p] = 0 /\ upload[p].pc = "put" /\ UNCHANGED carried
    BY <2>1 DEF Files!At, CarryOutIf
  <2>3. \A q \in Handler \ {p} : result'[q] = result[q] /\ upload'[q] = upload[q]
    BY <1>2, <1>5, <2>1, Advanced, FileAnswered DEF Files!Put, Files!PutFails, Files!EndUpload
  <2>4. upload'[p] # Files!NoUpload => result'[p] = 0
    BY <1>5, <2>2, FileAnswered DEF Files!Put, Files!PutFails, Files!EndUpload
  <2> QED BY <1>1, <2>2, <2>3, <2>4 DEF Effect
<1>6. CASE Files!SaveFileMeta(p)
  <2>1. result[p] = 0 /\ upload[p].pc = "save" /\ Files!Answer(p, 200)
        /\ upload' = [upload EXCEPT ![p] = Files!NoUpload]
    BY <1>6 DEF Files!SaveFileMeta, Files!At, Files!EndUpload
  <2>2. CarryOut(p) \/ UNCHANGED carried
    BY DEF CarryOutIf
  <2>3. upload'[p] = Files!NoUpload /\ \A q \in Handler \ {p} : upload'[q] = upload[q]
    BY <2>1, FileAnswered
  <2>4. result'[p] = 200 /\ \A q \in Handler \ {p} : result'[q] = result[q]
    BY <2>1, FileAnswered
  <2> QED BY <1>1, <2>1, <2>2, <2>3, <2>4 DEF Effect
<1>7. CASE Files!SaveFails(p)
  <2>1. Files!At(p, "save") /\ upload' = [upload EXCEPT ![p].pc = "cleanup"] /\ UNCHANGED result
    BY <1>7 DEF Files!SaveFails
  <2>2. result[p] = 0 /\ upload[p].pc = "save"
    BY <2>1 DEF Files!At
  <2>3. upload'[p].pc = "cleanup" /\ upload'[p] # Files!NoUpload
        /\ \A q \in Handler \ {p} : upload'[q] = upload[q]
    BY <1>2, <2>1, Advanced
  <2>4. CarryOut(p) \/ UNCHANGED carried
    BY DEF CarryOutIf
  <2> QED BY <1>1, <2>1, <2>2, <2>3, <2>4 DEF Effect
<1>8. CASE Files!Delete(p) \/ Files!DeleteFails(p)
  <2>1. result[p] = 0 /\ UNCHANGED row /\ Files!Answer(p, 500)
        /\ upload' = [upload EXCEPT ![p] = Files!NoUpload]
    BY <1>8 DEF Files!Delete, Files!DeleteFails, Files!At, Files!EndUpload
  <2>2. UNCHANGED carried
    BY <2>1 DEF CarryOutIf
  <2>3. upload'[p] = Files!NoUpload /\ \A q \in Handler \ {p} : upload'[q] = upload[q]
    BY <2>1, FileAnswered
  <2>4. result'[p] = 500 /\ \A q \in Handler \ {p} : result'[q] = result[q]
    BY <2>1, FileAnswered
  <2> QED BY <1>1, <2>1, <2>2, <2>3, <2>4 DEF Effect
<1> QED BY <1>3, <1>4, <1>5, <1>6, <1>7, <1>8

LEMMA ServiceEffect ==
  ASSUME BaseInv, CallInv, NEW p \in Handler, ServiceStep(p)
  PROVE  Effect(p)
<1>1. CASE IdentityStep(p)
  BY <1>1, IdentityEffect
<1>2. CASE FileStep(p) \/ FileFault(p)
  <2>1. CASE Reading(p)
    <3>1. call[p] # NoCall /\ call[p].method # "Upload" /\ UNCHANGED carried
      BY <2>1 DEF Reading, Runs
    <3>2. result[p] = 0 /\ UNCHANGED upload
      BY <2>1 DEF Reading, Files!Read, Files!Running
    <3>3. \E status : Files!Answer(p, status)
      BY <2>1, Zenon DEF Reading, Files!Read
    <3>4. upload[p] = Files!NoUpload
      BY <3>1 DEF CallInv, HandlersInv
    <3> QED BY <3>1, <3>2, <3>3, <3>4, FileAnswered DEF Effect
  <2>2. CASE Uploading(p)
    BY <2>2, UploadEffect DEF Uploading
  <2>3. CASE FileFault(p)
    BY <2>3, UploadEffect DEF FileFault
  <2> QED BY <1>2, <2>1, <2>2, <2>3 DEF FileStep
<1>3. CASE Perform(p)
  <2>1. call[p] # NoCall /\ Elsewhere(call[p].method) /\ result[p] = 0 /\ UNCHANGED upload
    BY <1>3 DEF Perform, fileVars
  <2>2. call[p].method # "Upload"
    BY <2>1 DEF Elsewhere, FileClient
  <2>3. upload[p] = Files!NoUpload
    BY <2>2 DEF CallInv, HandlersInv
  <2>4. \/ UNCHANGED carried
        \/ call[p].method \in Commands /\ CarryOut(p) /\ Users!Answer(p, 200)
        \/ /\ call[p].method \in Untidy /\ CarryOut(p)
           /\ \E status \in {404, 409} : Users!Answer(p, status)
    BY <1>3 DEF Perform, CarryOutIf
  <2>8. call[p].method \in Untidy => call[p].method \in Commands
    BY UntidyCommands
  <2>5. \E status \in {200, 403, 404, 409} : Users!Answer(p, status)
    BY <1>3 DEF Perform
  <2>6. \A status : Users!Answer(p, status) =>
          result'[p] = status /\ \A q \in Handler \ {p} : result'[q] = result[q]
    BY DEF Users!Answer, BaseInv, PlaceInv, TypeOK, Users!TypeOK
  <2>7. call[p].method \in Commands => call[p].method \notin Repeatable
    BY ReadsOnly
  <2> QED BY <2>1, <2>3, <2>4, <2>5, <2>6, <2>7, <2>8 DEF Effect
<1>4. CASE Fail(p)
  <2>1. /\ call[p] # NoCall /\ result[p] = 0 /\ UNCHANGED carried
        /\ result' = [result EXCEPT ![p] = 500] /\ upload' = [upload EXCEPT ![p] = Files!NoUpload]
    BY <1>4 DEF Fail, Users!Answer
  <2>2. result'[p] = 500 /\ \A q \in Handler \ {p} : result'[q] = result[q]
    BY <2>1 DEF BaseInv, PlaceInv, TypeOK, Users!TypeOK
  <2>3. upload'[p] = Files!NoUpload /\ \A q \in Handler \ {p} : upload'[q] = upload[q]
    BY <2>1, FileAnswered
  <2> QED BY <2>1, <2>2, <2>3 DEF Effect
<1> QED BY <1>1, <1>2, <1>3, <1>4 DEF ServiceStep

LEMMA BeginKeeps ==
  ASSUME BaseInv, CallInv, NEW c \in Caller, NEW route \in Menu[c],
         NEW arg \in ArgsOf(route.calls[1]), Begin(c, route, arg)
  PROVE  CallInv'
<1>1. PICK r \in Request : Sends(c, r, Forgotten(c))
  BY BeginSends
<1>2. /\ carried' = [carried EXCEPT ![c] = 0] /\ answer' = [answer EXCEPT ![c] = "none"]
      /\ UNCHANGED <<result, upload>>
  BY DEF Begin, fileVars
<1>3. /\ carried'[c] = 0 /\ answer'[c] # "refused"
      /\ \A d \in Caller \ {c} : carried'[d] = carried[d] /\ answer'[d] = answer[d]
  BY <1>2 DEF BaseInv, PlaceInv, TypeOK, ClientTypeOK
<1>4. Relaxed(c, Forgotten(c)) /\ \A q \in Handler : ~Live(c, Forgotten(c), q)
  BY ForgottenRelaxed DEF BaseInv, PlaceInv, Live
<1>5. Freed(Forgotten(c))
  <2>1. \A x \in Call : [x EXCEPT !.tie = "past"] # NoCall
    BY TieChanged, NotNoCall
  <2> QED BY <1>2, <2>1 DEF Freed, Forgotten, BaseInv, PlaceInv, TypeOK, ClientTypeOK
<1> QED BY <1>1, <1>2, <1>3, <1>4, <1>5, SendKeeps

LEMMA UnauthorizedKeeps ==
  ASSUME BaseInv, CallInv, NEW c \in Caller, Unauthorized(c)
  PROVE  CallInv'
<1>1. /\ carried' = [carried EXCEPT ![c] = 0] /\ answer' = [answer EXCEPT ![c] = "refused"]
      /\ call' = Forgotten(c) /\ request[c] = Idle
      /\ UNCHANGED <<request, result, upload>>
  BY DEF Unauthorized, Class, fileVars
<1>2. /\ carried'[c] = 0
      /\ \A d \in Caller \ {c} : carried'[d] = carried[d] /\ answer'[d] = answer[d]
  BY <1>1 DEF BaseInv, PlaceInv, TypeOK, ClientTypeOK
<1>3. Relaxed(c, Forgotten(c)) /\ \A q \in Handler : ~Live(c, Forgotten(c), q)
  BY ForgottenRelaxed DEF BaseInv, PlaceInv, Live
<1>4. Freed(Forgotten(c))
  <2>1. \A x \in Call : [x EXCEPT !.tie = "past"] # NoCall
    BY TieChanged, NotNoCall
  <2> QED BY <1>1, <2>1 DEF Freed, Forgotten, BaseInv, PlaceInv, TypeOK, ClientTypeOK
<1>5. request' = [request EXCEPT ![c] = Idle]
  BY <1>1 DEF BaseInv, PlaceInv, TypeOK, ClientTypeOK
<1> QED BY <1>1, <1>2, <1>3, <1>4, <1>5, AnswerKeeps

LEMMA OutcomeKeeps ==
  ASSUME BaseInv, CallInv, NEW c \in Caller, NEW p \in Handler, Receive(c, p) \/ Deadline(c, p)
  PROVE  CallInv'
<1>1. /\ Relaxed(c, Left(p)) /\ Awaited(c, p) /\ UNCHANGED <<carried, upload>>
      /\ \/ result[p] # 0 /\ result' = [result EXCEPT ![p] = 0]
         \/ result[p] = 0 /\ UNCHANGED result
  <2>1. Relaxed(c, Left(p)) /\ Awaited(c, p)
    BY OutcomeBase
  <2>2. CASE Receive(c, p)
    <3>1. UNCHANGED <<carried, fileVars>> /\ result[p] # 0 /\ result' = [result EXCEPT ![p] = 0]
      BY <2>2 DEF Receive
    <3> QED BY <2>1, <3>1 DEF fileVars
  <2>3. CASE Deadline(c, p)
    <3>1. UNCHANGED <<carried, fileVars, result>> /\ result[p] = 0
      BY <2>3 DEF Deadline
    <3> QED BY <2>1, <3>1 DEF fileVars
  <2> QED BY <2>2, <2>3
<1>2. PICK status \in Int :
        /\ GoOn(c, status, Left(p))
        /\ Class(status) = "refused" => result[p] # 0 /\ Class(result[p]) = "refused"
  BY OutcomeBase
<1>3. /\ request[c] # Idle /\ call[p].method = Method(request[c])
      /\ call[p] \in Call /\ call[p].tie = "awaited" /\ call[p].caller = c /\ CallsOf(c)
  BY <1>1, NotNoCall DEF BaseInv, PlaceInv, AwaitedCurrent, TypeOK, ClientTypeOK, Awaited,
     CallInv, NoCall
<1>4. Freed(Left(p))
  <2>1. \A q \in Handler : result'[q] = IF q = p /\ result[p] # 0 THEN 0 ELSE result[q]
    BY <1>1 DEF BaseInv, PlaceInv, TypeOK, Users!TypeOK
  <2>2. CASE result[p] # 0
    <3>1. \A q \in Handler : Left(p)[q] = IF q = p THEN NoCall ELSE call[q]
      BY <2>2 DEF Left, BaseInv, PlaceInv, TypeOK, ClientTypeOK
    <3> QED BY <2>1, <2>2, <3>1 DEF Freed
  <2>3. CASE result[p] = 0
    <3>1. \A q \in Handler :
            Left(p)[q] = IF q = p THEN [call[p] EXCEPT !.tie = "abandoned"] ELSE call[q]
      BY <2>3 DEF Left, BaseInv, PlaceInv, TypeOK, ClientTypeOK
    <3>2. [call[p] EXCEPT !.tie = "abandoned"] # NoCall
      BY <1>3, TieChanged, NotNoCall
    <3> QED BY <2>1, <2>3, <3>1, <3>2 DEF Freed
  <2> QED BY <2>2, <2>3
<1>5. \A q \in Handler : Live(c, Left(p), q) => LiveOnce(c, q)
  BY <1>1, RelaxedLive
<1>6. answer[c] # "refused"
  BY <1>3 DEF CallsOf
<1>7. Left(p) \in [Handler -> Call \cup {NoCall}] /\ PlaceInv
  BY <1>1 DEF Relaxed, BaseInv
<1>8. CASE /\ \E r \in Request : Sends(c, r, Left(p))
           /\ Method(request[c]) \in Repeatable
           /\ UNCHANGED answer
  <2>1. carried[c] = 0 /\ \A q \in Handler : ~Live(c, Left(p), q)
    BY <1>3, <1>5, <1>8 DEF CallsOf
  <2> HIDE DEF Left
  <2> QED BY <1>1, <1>4, <1>6, <1>8, <2>1, SendKeeps
<1>9. CASE /\ request' = [request EXCEPT ![c] = Idle] /\ call' = Left(p)
           /\ answer'[c] = "refused" =>
                Class(status) = "refused" /\ Method(request[c]) \notin Untidy
           /\ \A d \in Caller \ {c} : answer'[d] = answer[d]
  <2>1. ASSUME answer'[c] = "refused"
        PROVE  carried[c] = 0 /\ \A q \in Handler : ~Live(c, Left(p), q)
    <3>1. result[p] # 0 /\ Untouched(p)
      BY <1>2, <1>3, <1>9, <2>1 DEF Untouched
    <3>2. CASE Method(request[c]) \in Repeatable
      BY <1>3, <1>5, <3>2 DEF CallsOf
    <3>3. CASE Method(request[c]) \notin Repeatable
      <4>1. LiveOnce(c, p)
        BY <1>3, <3>3, NotNoCall DEF LiveOnce
      <4>2. carried[c] = 0 /\ \A q \in Handler : LiveOnce(c, q) => q = p
        BY <1>3, <3>1, <4>1 DEF CallsOf
      <4>3. Left(p)[p] = NoCall
        BY <3>1 DEF Left, BaseInv, PlaceInv, TypeOK, ClientTypeOK
      <4> QED BY <1>5, <4>2, <4>3 DEF Live
    <3> QED BY <3>2, <3>3
  <2> HIDE DEF Left
  <2> QED BY <1>1, <1>4, <1>9, <2>1, AnswerKeeps
<1> QED BY <1>2, <1>3, <1>7, <1>8, <1>9, GoOnOutcome

LEMMA DiscardKeeps ==
  ASSUME BaseInv, CallInv, NEW p \in Handler, Discard(p)
  PROVE  CallInv'
<1>1. /\ call' = [call EXCEPT ![p] = NoCall] /\ result' = [result EXCEPT ![p] = 0]
      /\ result[p] # 0
      /\ UNCHANGED <<request, answer, carried, upload>>
  BY DEF Discard, clientVars, fileVars
<1>2. /\ call'[p] = NoCall /\ result'[p] = 0
      /\ \A q \in Handler \ {p} : call'[q] = call[q] /\ result'[q] = result[q]
  BY <1>1 DEF BaseInv, PlaceInv, TypeOK, ClientTypeOK, Users!TypeOK
<1>3. upload[p] = Files!NoUpload
  BY <1>1 DEF CallInv, HandlersInv
<1>4. HandlersInv'
  BY <1>1, <1>2, <1>3 DEF CallInv, HandlersInv
<1>5. \A c \in Caller, q \in Handler :
        LiveOnce(c, q)' => LiveOnce(c, q) /\ (Untouched(q)' <=> Untouched(q))
  BY <1>1, <1>2 DEF LiveOnce, Untouched
<1>6. ASSUME NEW c \in Caller PROVE CallsOf(c)'
  BY <1>1, <1>5 DEF CallInv, CallsOf, Method
<1> QED BY <1>4, <1>6 DEF CallInv

LEMMA StillCalls == CallInv /\ UNCHANGED vars => CallInv'
BY DEF CallInv, HandlersInv, CallsOf, LiveOnce, Untouched, Method, vars, clientVars, fileVars

LEMMA InitCalls == Init => CallInv
BY DEF Init, Users!Init, Files!Init, CallInv, HandlersInv, CallsOf, LiveOnce, Untouched

LEMMA NextCalls == BaseInv /\ CallInv /\ [Next]_vars => CallInv'
<1> SUFFICES ASSUME BaseInv, CallInv, [Next]_vars PROVE CallInv'
  OBVIOUS
<1>1. CASE UNCHANGED vars
  BY <1>1, StillCalls
<1>2. CASE Rest
  BY <1>2, StillCalls DEF Rest
<1>3. ASSUME NEW c \in Caller, Unauthorized(c) PROVE CallInv'
  BY <1>3, UnauthorizedKeeps
<1>4. ASSUME NEW c \in Caller, NEW route \in Menu[c], NEW arg \in ArgsOf(route.calls[1]),
             Begin(c, route, arg)
      PROVE CallInv'
  BY <1>4, BeginKeeps
<1>5. ASSUME NEW c \in Caller, NEW p \in Handler, Receive(c, p) \/ Deadline(c, p) PROVE CallInv'
  BY <1>5, OutcomeKeeps
<1>6. ASSUME NEW p \in Handler, Discard(p) PROVE CallInv'
  BY <1>6, DiscardKeeps
<1>7. ASSUME NEW p \in Handler, ServiceStep(p) PROVE CallInv'
  BY <1>7, ServiceBase, ServiceEffect, EffectKeeps
<1> QED BY <1>1, <1>2, <1>3, <1>4, <1>5, <1>6, <1>7 DEF Next, HandlerStep, ServiceStep

LEMMA Calls == Spec => []CallInv
BY Base, InitCalls, NextCalls, PTL DEF Spec

(* Whatever is timed out, abandoned and sent again, a request makes its    *)
(* command take effect at most once (MakeGrpcCallOptions of libs/common).  *)
THEOREM AtMostOnce == Spec => []CarriedOutOnce
<1>1. CallInv => CarriedOutOnce
  BY DEF CallInv, CallsOf, CarriedOutOnce
<1> QED BY <1>1, Calls, PTL

(* And what the gateway answers with a 4xx has not happened, also not in a *)
(* handler the gateway has given up - if the command is not untidy, its    *)
(* services carrying out a command as a whole or not at all.               *)
THEOREM RefusedIsUndone == Spec => []RefusedUndone
<1>1. CallInv => RefusedUndone
  BY DEF CallInv, CallsOf, RefusedUndone
<1> QED BY <1>1, Calls, PTL

-----------------------------------------------------------------------------
(* Changes of passwords.                                                   *)

Changing(p) == change[p] # Users!NoChange

TurnInv ==
  \A p \in Handler : Changing(p) /\ change[p].alone =>
    /\ account[change[p].user].password = change[p].old
    /\ \A q \in Handler : Changing(q) /\ change[q].user = change[p].user => q = p

LEMMA ChangesTyped ==
  ASSUME BaseInv
  PROVE  \A p \in Handler : Changing(p) =>
           change[p] \in Users!Change /\ change[p].user \in Email /\ account[change[p].user] # None
BY DEF Changing, BaseInv, PlaceInv, TypeOK, Users!TypeOK, Users!Change

(* New accounts, and changes given up, are in nobody's way.                *)
LEMMA FewerChanges ==
  ASSUME BaseInv, TurnInv,
         \A e \in Email : account[e] # None => account'[e] = account[e],
         \A p \in Handler : change'[p] = change[p] \/ change'[p] = Users!NoChange
  PROVE  TurnInv'
BY ChangesTyped DEF TurnInv, Changing

LEMMA UpdateTurn ==
  ASSUME BaseInv, TurnInv, NEW p \in Handler, Users!UpdatePasswordHash(p)
  PROVE  TurnInv'
<1> DEFINE u == change[p].user
<1>1. /\ Changing(p) /\ u \in Email
      /\ account' = [account EXCEPT ![u].password = change[p].new]
      /\ change' = [change EXCEPT ![p] = Users!NoChange]
  BY ChangesTyped DEF Users!UpdatePasswordHash, Changing
<1>2. \A e \in Email \ {u} : account'[e] = account[e]
  BY <1>1 DEF BaseInv, PlaceInv, TypeOK, Users!TypeOK
<1>3. change'[p] = Users!NoChange /\ \A q \in Handler \ {p} : change'[q] = change[q]
  BY <1>1 DEF BaseInv, PlaceInv, TypeOK, Users!TypeOK
<1>4. \A q \in Handler \ {p} : Changing(q) /\ change[q].alone => change[q].user \in Email \ {u}
  BY <1>1, ChangesTyped DEF TurnInv
<1> QED BY <1>2, <1>3, <1>4 DEF TurnInv, Changing

LEMMA ReadTurn ==
  ASSUME BaseInv, TurnInv, NEW p \in Handler, NEW u \in Email, NEW old \in Password,
         NEW new \in Password, Users!ReadForChange(p, u, old, new)
  PROVE  TurnInv'
<1>1. CASE ~Users!VerifyPassword(u, old)
  BY <1>1, FewerChanges DEF Users!ReadForChange
<1>2. CASE Users!VerifyPassword(u, old)
  <2> DEFINE others == {q \in Handler : change[q].user = u}
             mine == [user |-> u, old |-> old, new |-> new, alone |-> others = {}]
  <2>1. /\ UNCHANGED account
        /\ change' = [q \in Handler |->
             IF q = p THEN mine
             ELSE IF q \in others THEN [change[q] EXCEPT !.alone = FALSE]
             ELSE change[q]]
    BY <1>2 DEF Users!ReadForChange
  <2>2. \A q \in Handler : change[q].user = u => Changing(q)
    BY UserAssumption DEF Changing, Users!NoChange, Files!NobodyIsUser
  <2>3. \A q \in Handler \ {p} : change[q].user = u =>
          change'[q].alone = FALSE /\ change'[q].user = u
    <3>1. ASSUME NEW q \in Handler \ {p}, change[q].user = u
          PROVE  change'[q].alone = FALSE /\ change'[q].user = u
      <4>1. change[q] \in Users!Change
        BY <2>2, <3>1, ChangesTyped
      <4>2. change'[q] = [change[q] EXCEPT !.alone = FALSE]
        BY <2>1, <3>1
      <4> QED BY <3>1, <4>1, <4>2 DEF Users!Change
    <3> QED BY <3>1
  <2>4. \A q \in Handler \ {p} : change[q].user # u => change'[q] = change[q]
    BY <2>1
  <2>5. change'[p] = mine
    BY <2>1
  <2>6. mine.user = u /\ mine.old = old /\ (mine.alone => \A q \in Handler : change[q].user # u)
    OBVIOUS
  <2> HIDE DEF mine, others
  <2>7. account[u].password = old
    BY <1>2 DEF Users!VerifyPassword
  <2> QED
    <3> SUFFICES ASSUME NEW r \in Handler, Changing(r)', change'[r].alone
                 PROVE  /\ account'[change'[r].user].password = change'[r].old
                        /\ \A q \in Handler :
                             Changing(q)' /\ change'[q].user = change'[r].user => q = r
      BY DEF TurnInv
    <3>1. CASE r = p
      <4>1. \A q \in Handler \ {p} : change'[q] = change[q] /\ change[q].user # u
        BY <2>4, <2>5, <2>6, <3>1
      <4> QED BY <2>1, <2>5, <2>6, <2>7, <3>1, <4>1
    <3>2. CASE r # p
      <4>1. change[r].user # u /\ change'[r] = change[r] /\ Changing(r)
        BY <2>3, <2>4, <3>2 DEF Changing
      <4>2. \A q \in Handler : Changing(q) /\ change[q].user = change[r].user => q = r
        BY <4>1 DEF TurnInv
      <4> QED BY <2>1, <2>3, <2>4, <2>5, <2>6, <4>1, <4>2 DEF TurnInv, Changing
    <3> QED BY <3>1, <3>2
<1> QED BY <1>1, <1>2

LEMMA IdentityTurn ==
  ASSUME BaseInv, TurnInv, NEW p \in Handler, IdentityStep(p)
  PROVE  TurnInv'
<1>1. CASE Rejected(p) \/ LoggingIn(p) \/ AskingIdentity(p)
  <2>1. UNCHANGED <<account, change>>
    BY <1>1 DEF Rejected, LoggingIn, AskingIdentity, Users!Reject, Users!Login, Users!GetUser,
       Users!GetStudentLink, Users!ListStudents
  <2> QED BY <2>1, FewerChanges
<1>2. CASE Registering(p)
  <2>1. Users!Register(p, call[p].arg.email, call[p].arg.role, call[p].arg.password)
    BY <1>2 DEF Registering
  <2>2. UNCHANGED change /\ \A e \in Email : account[e] # None => account'[e] = account[e]
    BY <2>1 DEF Users!Register, Users!Known, BaseInv, PlaceInv, TypeOK, Users!TypeOK
  <2> QED BY <2>2, FewerChanges
<1>3. CASE CreatingStudent(p)
  <2>1. \/ Users!CreateStudentWithLink(p, call[p].user, call[p].arg.email, call[p].arg.password)
        \/ UNCHANGED <<account, change>>
    BY <1>3 DEF CreatingStudent, userVars
  <2>2. UNCHANGED change /\ \A e \in Email : account[e] # None => account'[e] = account[e]
    BY <2>1 DEF Users!CreateStudentWithLink, Users!Known, BaseInv, PlaceInv, TypeOK, Users!TypeOK
  <2> QED BY <2>2, FewerChanges
<1>4. CASE ChangingPassword(p)
  <2>1. CASE Users!UpdatePasswordHash(p)
    BY <2>1, UpdateTurn
  <2>2. CASE Users!ReadForChange(p, call[p].user, call[p].arg.password, call[p].arg.new)
    <3>1. call[p].user \in Email /\ call[p].arg \in Arg
      BY <1>4 DEF ChangingPassword, Runs, BaseInv, PlaceInv, Named, TypeOK, ClientTypeOK, Call
    <3> QED BY <2>2, <3>1, ReadTurn DEF Arg
  <2> QED BY <1>4, <2>1, <2>2 DEF ChangingPassword
<1> QED BY <1>1, <1>2, <1>3, <1>4 DEF IdentityStep

LEMMA NextTurn == BaseInv /\ TurnInv /\ [Next]_vars => TurnInv'
<1> SUFFICES ASSUME BaseInv, TurnInv, [Next]_vars PROVE TurnInv'
  OBVIOUS
<1>1. CASE UNCHANGED <<account, change>>
  BY <1>1, FewerChanges
<1>2. ASSUME NEW p \in Handler, IdentityStep(p) PROVE TurnInv'
  BY <1>2, IdentityTurn
<1>3. ASSUME NEW p \in Handler, Fail(p) PROVE TurnInv'
  <2>1. UNCHANGED account /\ \A q \in Handler : change'[q] = change[q] \/ change'[q] = Users!NoChange
    BY <1>3 DEF Fail, BaseInv, PlaceInv, TypeOK, Users!TypeOK
  <2> QED BY <2>1, FewerChanges
<1>4. ASSUME NEW c \in Caller,
             \/ Unauthorized(c)
             \/ \E route \in Menu[c] : \E arg \in ArgsOf(route.calls[1]) : Begin(c, route, arg)
             \/ \E p \in Handler : Receive(c, p) \/ Deadline(c, p)
      PROVE  UNCHANGED <<account, change>>
  BY <1>4 DEF Unauthorized, Begin, Receive, Deadline, userVars
<1>5. ASSUME NEW p \in Handler, FileStep(p) \/ FileFault(p) \/ Perform(p) \/ Discard(p)
      PROVE  UNCHANGED <<account, change>>
  BY <1>5 DEF FileStep, FileFault, Perform, Discard, userVars
<1>6. CASE Rest \/ UNCHANGED vars
  BY <1>1, <1>6 DEF Rest, vars, userVars
<1> QED BY <1>1, <1>2, <1>3, <1>4, <1>5, <1>6 DEF Next, HandlerStep

(* A password is replaced by somebody who named it, unless two changes of  *)
(* the account overlapped (identity_service.cpp, ChangePassword).          *)
THEOREM PasswordsInTurn == Spec => []PasswordInTurn
<1>1. Init => TurnInv
  BY DEF Init, Users!Init, TurnInv, Changing
<1>2. BaseInv /\ TurnInv => PasswordInTurn
  BY ChangesTyped DEF TurnInv, Changing, PasswordInTurn, Users!PasswordInTurn,
     Users!VerifyPassword, Users!Known
<1> QED BY <1>1, <1>2, NextTurn, Base, PTL DEF Spec
=============================================================================
