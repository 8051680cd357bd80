----------------------------- MODULE MCGateway -----------------------------
(* Instances of Gateway for model checking.                                *)
EXTENDS Gateway, TLC

CONSTANTS c1, c2, t, s, n, pa, pb

KnownPair ==
  [e \in Email |->
     CASE e = t -> [role |-> "teacher", password |-> pa]
       [] e = s -> [role |-> "student", password |-> pa]
       [] OTHER -> None]
LoggedIn == (c1 :> t) @@ (c2 :> s)

Named(names) == {r \in Routes : r.name \in names}

(* A teacher in c1; a student in c2, who may log in as somebody else.      *)
Menus ==
  (c1 :> Named({"POST /auth/change-password", "POST /students", "POST /files",
                "POST /availability", "POST /lessons", "GET /dashboard/teacher"}))
  @@
  (c2 :> Named({"POST /auth/register", "POST /auth/login",
                "POST /auth/change-password", "POST /students",
                "GET /files/{id}/download"}))

Plain == [email |-> s, password |-> pa, new |-> pb, role |-> "student"]
FewArgs(method) ==
  CASE method = "Register" ->
         {[Plain EXCEPT !.email = n, !.role = "teacher"], Plain}
    [] method = "CreateStudent" -> {Plain, [Plain EXCEPT !.email = n]}
    [] method = "Login" ->
         {[Plain EXCEPT !.email = t, !.password = pw] : pw \in Password}
    [] method = "ChangePassword" ->
         {Plain, [Plain EXCEPT !.password = pb, !.new = pa]}
    [] OTHER -> {Plain}
=============================================================================
