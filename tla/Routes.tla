------------------------------- MODULE Routes -------------------------------
(***************************************************************************)
(* The tables of the request path: for each route of api-gateway the RPCs  *)
(* its handler makes, in order; for each gRPC client of the gateway which  *)
(* RPCs it may repeat; for each service which RPCs look at who calls.      *)
(*                                                                         *)
(* A route that answers a list of teachers' names asks identity once per   *)
(* teacher; one teacher stands for them.                                   *)
(***************************************************************************)
EXTENDS Integers, Sequences

Route(name, calls, status) ==
  [name |-> name, open |-> FALSE, calls |-> calls, status |-> status]

(* No bearer token is asked for.                                           *)
OpenRoute(name, calls, status) ==
  [name |-> name, open |-> TRUE, calls |-> calls, status |-> status]

(* Routes that lead to one RPC each.                                       *)
Calling(status, table) == {Route(entry[1], <<entry[2]>>, status) : entry \in table}

IdentityRoutes ==
  {OpenRoute("POST /auth/register", <<"Register">>, 201),
   OpenRoute("POST /auth/login", <<"Login">>, 200)}
  \cup Calling(200, {
    <<"POST /auth/change-password", "ChangePassword">>,
    <<"GET /me", "GetUser">>,
    <<"GET /students", "ListStudents">>,
    <<"GET /students/{id}", "GetStudent">>})
  \cup Calling(201, {
    <<"POST /students", "CreateStudent">>})

BalanceRoutes ==
  Calling(200, {
    <<"GET /students/{id}/balance", "GetBalance">>,
    <<"GET /students/{id}/transactions", "ListTransactions">>})

LessonRoutes ==
  Calling(200, {
    <<"GET /availability", "ListAvailability">>,
    <<"GET /lessons", "ListLessons">>,
    <<"GET /lessons/{id}", "GetLesson">>,
    <<"POST /lessons/{id}/complete", "CompleteLesson">>,
    <<"POST /lessons/{id}/reschedule", "RescheduleLesson">>,
    <<"POST /lessons/{id}/reactivate", "ReactivateLesson">>,
    <<"POST /lessons/{id}/cancel", "CancelLesson">>})
  \cup Calling(201, {
    <<"POST /availability", "CreateAvailability">>,
    <<"POST /lessons", "CreateLesson">>})

AssignmentRoutes ==
  Calling(200, {
    <<"GET /assignments", "ListAssignments">>,
    <<"GET /assignments/{id}", "GetAssignment">>,
    <<"POST /assignments/{id}/review", "ReviewAssignment">>})
  \cup Calling(201, {
    <<"POST /assignments", "CreateAssignment">>,
    <<"POST /assignments/{id}/submit", "SubmitAssignment">>,
    <<"POST /assignments/{id}/comments", "AddComment">>})

FinanceRoutes ==
  Calling(200, {
    <<"GET /payments/receipts", "ListPaymentReceipts">>,
    <<"POST /payments/receipts/{id}/confirm", "ConfirmPaymentReceipt">>,
    <<"POST /payments/receipts/{id}/reject", "RejectPaymentReceipt">>})
  \cup Calling(201, {
    <<"POST /payments/receipts", "CreatePaymentReceipt">>,
    <<"POST /students/{id}/corrections", "CreateCorrection">>})

NotificationRoutes ==
  Calling(200, {
    <<"GET /notifications", "ListNotifications">>,
    <<"POST /notifications/{id}/read", "MarkAsRead">>})

ReportRoutes == {
  Route("GET /dashboard/teacher", <<"ListStudents", "GetTeacherDashboard">>, 200),
  Route("GET /dashboard/student", <<"GetStudentDashboard", "GetUser">>, 200),
  Route("GET /students/{id}/summary", <<"GetStudent", "GetStudentSummary">>, 200) }

FileRoutes ==
  Calling(200, {
    <<"GET /files/{id}", "GetMeta">>,
    <<"GET /files/{id}/download", "Download">>})
  \cup Calling(201, {
    <<"POST /files", "Upload">>})

ChatRoutes ==
  Calling(200, {
    <<"GET /chats", "ListDialogs">>,
    <<"GET /chats/{id}/messages", "ListMessages">>,
    <<"POST /chats/{id}/read", "MarkRead">>})
  \cup Calling(201, {
    <<"POST /chats", "CreateDialog">>,
    <<"POST /chats/{id}/messages", "SendMessage">>})

Routes ==
  IdentityRoutes \cup BalanceRoutes \cup LessonRoutes \cup AssignmentRoutes
    \cup FinanceRoutes \cup NotificationRoutes \cup ReportRoutes
    \cup FileRoutes \cup ChatRoutes

-----------------------------------------------------------------------------
(* The RPCs each client of the gateway declares idempotent, and those it   *)
(* sends once.                                                             *)

IdentityClientFault == [  \* CreateStudent declared idempotent
  repeats |-> {"ValidateToken", "GetUser", "GetStudent", "ListStudents",
               "CreateStudent"},
  once |-> {"Register", "Login", "ChangePassword"}]

IdentityClient == [
  repeats |-> {"ValidateToken", "GetUser", "GetStudent", "ListStudents"},
  once |-> {"Register", "Login", "ChangePassword", "CreateStudent"}]

LessonClientFault == [  \* CreateAvailability declared idempotent
  repeats |-> {"ListAvailability", "ListLessons", "GetLesson", "CreateAvailability"},
  once |-> {"CreateLesson", "CompleteLesson", "RescheduleLesson",
            "ReactivateLesson", "CancelLesson"}]

LessonClient == [
  repeats |-> {"ListAvailability", "ListLessons", "GetLesson"},
  once |-> {"CreateAvailability", "CreateLesson", "CompleteLesson",
            "RescheduleLesson", "ReactivateLesson", "CancelLesson"}]

AssignmentClient == [
  repeats |-> {"ListAssignments", "GetAssignment"},
  once |-> {"CreateAssignment", "SubmitAssignment", "ReviewAssignment", "AddComment"}]

FinanceClient == [
  repeats |-> {"GetBalance", "ListTransactions", "ListPaymentReceipts"},
  once |-> {"CreatePaymentReceipt", "ConfirmPaymentReceipt",
            "RejectPaymentReceipt", "CreateCorrection"}]

NotificationClient == [repeats |-> {"ListNotifications"}, once |-> {"MarkAsRead"}]

ReportClient == [
  repeats |-> {"GetTeacherDashboard", "GetStudentDashboard", "GetStudentSummary"},
  once |-> {}]

ChatClient == [
  repeats |-> {"ListDialogs", "ListMessages"},
  once |-> {"CreateDialog", "SendMessage", "MarkRead"}]

(* Requests for files are passed on over HTTP, once.                       *)
FileClient == [repeats |-> {}, once |-> {"Upload", "GetMeta", "Download"}]

Clients == {IdentityClient, LessonClient, AssignmentClient, FinanceClient,
            NotificationClient, ReportClient, ChatClient, FileClient}
Repeatable == UNION {client.repeats : client \in Clients}

-----------------------------------------------------------------------------
(* The RPCs each service serves: for anyone, without asking who calls, for *)
(* the user the call names, or for users of one role; and those that only  *)
(* read.                                                                   *)

IdentityServer == [
  anyone |-> {"Register", "Login", "ValidateToken", "GetUser", "GetStudent",
              "CheckTeacherStudentAccess"},
  user |-> {"ChangePassword", "ListStudents"},
  teacher |-> {"CreateStudent"}, student |-> {},
  reads |-> {"Login", "ValidateToken", "GetUser", "GetStudent", "ListStudents",
            "CheckTeacherStudentAccess"}]

LessonServer == [
  anyone |-> {"GetLesson"},
  user |-> {"ListAvailability", "ListLessons", "CompleteLesson", "CancelLesson"},
  teacher |-> {"CreateAvailability", "CreateLesson", "RescheduleLesson",
               "ReactivateLesson"},
  student |-> {},
  reads |-> {"ListAvailability", "ListLessons", "GetLesson"}]

AssignmentServer == [
  anyone |-> {},
  user |-> {"ListAssignments", "GetAssignment", "AddComment"},
  teacher |-> {"CreateAssignment", "ReviewAssignment"},
  student |-> {"SubmitAssignment"},
  reads |-> {"ListAssignments", "GetAssignment"}]

FinanceServer == [
  anyone |-> {"CreateCharge"},
  user |-> {"GetBalance", "ListTransactions", "CreatePaymentReceipt",
            "ListPaymentReceipts", "ConfirmPaymentReceipt", "RejectPaymentReceipt"},
  teacher |-> {"CreateCorrection"}, student |-> {},
  reads |-> {"GetBalance", "ListTransactions", "ListPaymentReceipts"}]

NotificationServer == [
  anyone |-> {}, user |-> {"ListNotifications", "MarkAsRead"},
  teacher |-> {}, student |-> {},
  reads |-> {"ListNotifications"}]

ReportServer == [
  anyone |-> {}, user |-> {},
  teacher |-> {"GetTeacherDashboard", "GetStudentSummary"},
  student |-> {"GetStudentDashboard"},
  reads |-> {"GetTeacherDashboard", "GetStudentSummary", "GetStudentDashboard"}]

ChatServer == [
  anyone |-> {},
  user |-> {"CreateDialog", "ListDialogs", "SendMessage", "ListMessages", "MarkRead"},
  teacher |-> {}, student |-> {},
  reads |-> {"ListDialogs", "ListMessages"}]

FileServer == [
  anyone |-> {}, user |-> {"Upload", "GetMeta", "Download"},
  teacher |-> {}, student |-> {},
  reads |-> {"GetMeta", "Download"}]

Servers == {IdentityServer, LessonServer, AssignmentServer, FinanceServer,
            NotificationServer, ReportServer, ChatServer, FileServer}

ForTeacher == UNION {server.teacher : server \in Servers}
ForStudent == UNION {server.student : server \in Servers}

Served ==
  UNION {server.anyone \cup server.user \cup server.teacher \cup server.student
           : server \in Servers}
ReadOnly == UNION {server.reads : server \in Servers}
Commands == Served \ ReadOnly

(* Commands that may be refused and leave something behind: part of their  *)
(* statement acts although the rest finds nothing to change.  The lesson   *)
(* commands book or reopen a slot (module Lesson); a review of an          *)
(* assignment without a submission leaves its comment.                     *)
Untidy == {"CreateLesson", "RescheduleLesson", "ReactivateLesson", "ReviewAssignment"}

(* RequireTeacher, RequireStudent                                          *)
MayCall(role, method) ==
  /\ method \in ForTeacher => role = "teacher"
  /\ method \in ForStudent => role = "student"
=============================================================================
