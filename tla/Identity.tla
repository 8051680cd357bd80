------------------------------ MODULE Identity ------------------------------
(***************************************************************************)
(* identity-service: accounts, the links of teachers and students, and the *)
(* RPCs of the gateway and of the other services.                          *)
(*                                                                         *)
(* E-mails are unique and accounts are never removed, so an account is     *)
(* known by its e-mail.  A password stands for its hash: VerifyPassword    *)
(* compares passwords.  Profiles, rates and the status of a link (nothing  *)
(* reads it) ride along and are left out.  Reads go to a replica; as the   *)
(* deployment has one PostgreSQL host, they see the last commit.           *)
(***************************************************************************)
EXTENDS Integers

CONSTANTS
  Email, Password,
  Proc,         \* handler coroutines of the RPCs
  SeedAccount,  \* the accounts to start with
  None

Role == {"teacher", "student"}
Account == [role: Role, password: Password]

(* What the constants are asked for.                                       *)
SeedIsAccounts == SeedAccount \in [Email -> Account \cup {None}] /\ None \notin Account
(* Status 0 is a handler that has not answered.                            *)
Status == {0, 200, 400, 401, 403, 404, 409, 413, 500, 503, 504}

VARIABLES
  account,  \* users, by e-mail
  link,     \* teacher_student_links
  change,   \* changes of a password between their read and their update
  result    \* the status each handler has answered with

vars == <<account, link, change, result>>

(* alone is a history flag: no other change of the account has been in     *)
(* progress at the same time.                                              *)
Change == [user: Email, old: Password, new: Password, alone: BOOLEAN]
NoChange == [user |-> None]

TypeOK ==
  /\ account \in [Email -> Account \cup {None}]
  /\ link \subseteq Email \X Email
  /\ change \in [Proc -> Change \cup {NoChange}]
  /\ result \in [Proc -> Status]

Init ==
  /\ account = SeedAccount
  /\ link = {}
  /\ change = [p \in Proc |-> NoChange]
  /\ result = [p \in Proc |-> 0]

-----------------------------------------------------------------------------

Known(e) == account[e] # None
Running(p) == result[p] = 0 /\ change[p] = NoChange
Answer(p, status) == result' = [result EXCEPT ![p] = status]

(* A request without a field it needs: Validation.                         *)
Reject(p) ==
  /\ Running(p)
  /\ Answer(p, 400)
  /\ UNCHANGED <<account, link, change>>

(* A taken e-mail violates users_email_key, which nobody catches here.     *)
Register(p, e, role, password) ==
  /\ Running(p)
  /\ IF Known(e)
       THEN Answer(p, 500) /\ UNCHANGED account
       ELSE /\ account' = [account EXCEPT ![e] = [role |-> role, password |-> password]]
            /\ Answer(p, 200)
  /\ UNCHANGED <<link, change>>

VerifyPassword(e, password) == Known(e) /\ account[e].password = password

Login(p, e, password) ==
  /\ Running(p)
  /\ Answer(p, IF VerifyPassword(e, password) THEN 200 ELSE 401)
  /\ UNCHANGED <<account, link, change>>

ReadForChangeFault(p, u, old, new) ==  \* the current password is not verified
  /\ Running(p)
  /\ LET others == {q \in Proc : change[q].user = u}
     IN  change' = [q \in Proc |->
           IF q = p THEN [user |-> u, old |-> old, new |-> new, alone |-> others = {}]
           ELSE IF q \in others THEN [change[q] EXCEPT !.alone = FALSE]
           ELSE change[q]]
  /\ UNCHANGED <<account, link, result>>

(* ChangePassword up to the check of the current password.                 *)
ReadForChange(p, u, old, new) ==
  LET others == {q \in Proc : change[q].user = u}
  IN  /\ Running(p)
      /\ IF VerifyPassword(u, old)
           THEN /\ change' = [q \in Proc |->
                     IF q = p
                       THEN [user |-> u, old |-> old, new |-> new,
                             alone |-> others = {}]
                     ELSE IF q \in others THEN [change[q] EXCEPT !.alone = FALSE]
                     ELSE change[q]]
                /\ UNCHANGED result
           ELSE Answer(p, 401) /\ UNCHANGED change
      /\ UNCHANGED <<account, link>>

(* The update takes no notice of the password it replaces.                 *)
UpdatePasswordHash(p) ==
  /\ result[p] = 0
  /\ change[p] # NoChange
  /\ account' = [account EXCEPT ![change[p].user].password = change[p].new]
  /\ change' = [change EXCEPT ![p] = NoChange]
  /\ Answer(p, 200)
  /\ UNCHANGED link

(* Account, profile and link in one statement.                             *)
CreateStudentWithLink(p, teacher, e, password) ==
  /\ Running(p)
  /\ IF Known(e)
       THEN Answer(p, 409) /\ UNCHANGED <<account, link>>
       ELSE /\ account' = [account EXCEPT ![e] =
                            [role |-> "student", password |-> password]]
            /\ link' = link \cup {<<teacher, e>>}
            /\ Answer(p, 200)
  /\ UNCHANGED change

GetUser(p, u) ==
  /\ Running(p)
  /\ Answer(p, IF Known(u) THEN 200 ELSE 404)
  /\ UNCHANGED <<account, link, change>>

GetStudentLink(p, s) ==
  /\ Running(p)
  /\ Answer(p, IF \E t \in Email : <<t, s>> \in link THEN 200 ELSE 404)
  /\ UNCHANGED <<account, link, change>>

ListStudents(p) ==
  /\ Running(p)
  /\ Answer(p, 200)
  /\ UNCHANGED <<account, link, change>>

(* CheckTeacherStudentAccess, whatever the status of the link.             *)
CheckAccess(teacher, student) == <<teacher, student>> \in link

(* The database fails, or the handler is gone.                             *)
Fail(p, status) ==
  /\ result[p] = 0
  /\ change' = [change EXCEPT ![p] = NoChange]
  /\ Answer(p, status)
  /\ UNCHANGED <<account, link>>

(* The answer has been taken and the handler serves another call.          *)
Forget(p) ==
  /\ result[p] # 0
  /\ Answer(p, 0)
  /\ UNCHANGED <<account, link, change>>

Next ==
  \E p \in Proc :
    \/ Reject(p) \/ UpdatePasswordHash(p) \/ ListStudents(p) \/ Forget(p)
    \/ \E status \in {500, 503} : Fail(p, status)
    \/ \E e \in Email : GetUser(p, e) \/ GetStudentLink(p, e)
    \/ \E e \in Email, password \in Password :
         \/ Login(p, e, password)
         \/ \E role \in Role : Register(p, e, role, password)
         \/ \E new \in Password : ReadForChange(p, e, password, new)
         \/ \E teacher \in Email :
              /\ Known(teacher) /\ account[teacher].role = "teacher"
              /\ CreateStudentWithLink(p, teacher, e, password)

Spec == Init /\ [][Next]_vars

-----------------------------------------------------------------------------
(* Properties.                                                             *)

(* An update of a password replaces the very password its request named,   *)
(* unless two changes of the account were in progress at once.             *)
PasswordInTurn ==
  \A p \in Proc :
    change[p] # NoChange /\ change[p].alone
      => VerifyPassword(change[p].user, change[p].old)
=============================================================================
