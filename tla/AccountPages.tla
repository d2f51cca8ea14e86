---------------------------- MODULE AccountPages ----------------------------
(***************************************************************************)
(* What the pages about employees and users show, and how Supabase and the *)
(* table of users answer together when somebody signs in, over the state   *)
(* of Accounts.  Passwords are left out: whoever signs in knows the one of *)
(* the identity.  Pages are taken whole, without their offset and limit.   *)
(***************************************************************************)
EXTENDS Accounts

(***************************************************************************)
(* Employees.                                                              *)
(***************************************************************************)
ListAll(all)       == {e \in Employee : employee[e].there /\ (all \/ Live(e))}
ListPaginated(all) == [items |-> [e \in ListAll(all) |-> employee[e]],
                       total |-> Cardinality(ListAll(all))]
ListActive         == {e \in Employee : Live(e) /\ employee[e].active}

(* The rows the id finds; none is a 404. *)
GetEmployee(e) == {d \in ListAll(FALSE) : d = e}

(***************************************************************************)
(* Accounts: the join by users.employee_id, the filter by it, all rows.    *)
(***************************************************************************)

(* Faulty variant: joined by employees.user_id, which one of the three     *)
(* ways to a login writes.                                                 *)
AllWithEmployeesByUserId ==
  {p \in User \X Employee : Row(p[1]) /\ employee[p[2]].user = p[1] /\ Live(p[2])}

AllWithEmployees == {p \in User \X Employee : Row(p[1]) /\ user[p[1]].emp = p[2] /\ Live(p[2])}
ListAccounts     == {[user |-> p[1], emp |-> p[2], name |-> user[p[1]].name,
                      active |-> user[p[1]].active] : p \in AllWithEmployees}
UsersOf(e)       == {u \in User : Row(u) /\ user[u].emp = e}

(* A filter that is not given is NULL. *)
ListUsers(a) == {u \in User : Row(u) /\ (a = None \/ user[u].active = a)}
UsersPage(a) == [data |-> [u \in ListUsers(a) |-> user[u]], total |-> Cardinality(ListUsers(a))]
GetUser(u)   == {v \in User : Row(v) /\ v = u}

(***************************************************************************)
(* Signing in.                                                             *)
(***************************************************************************)
IdentityOf(n) == {i \in Identity : identity[i] = n}
UserByUid(i)  == {u \in User : Row(u) /\ user[u].uid = i}

(* Supabase knows the e-mail, then the table the identity.  Whether the    *)
(* account is active is asked with the first use of the token only.        *)
Tokens(found, known) ==
  IF found = {} THEN [answer |-> "invalid", user |-> {}]
  ELSE IF known = {} THEN [answer |-> "noLocalIdentity", user |-> {}]
  ELSE [answer |-> "tokens", user |-> known]

LogIn(n)        == Tokens(IdentityOf(n), UNION {UserByUid(i) : i \in IdentityOf(n)})
RefreshToken(i) == Tokens({i} \cap {j \in Identity : Standing(j)}, UserByUid(i))

(* Nobody learns whether the mail with the link was sent. *)
ForgotPassword(n) == [answer |-> "sentIfItExists", mailed |-> IdentityOf(n)]

ForceReset(u) ==
  CASE ~Row(u)                                        -> "notFound"
    [] Row(u) /\ ~user[u].active                      -> "refused"
    [] Row(u) /\ user[u].active /\ user[u].uid # None /\ Standing(user[u].uid) -> "reset"
    [] OTHER                                          -> "error"

(* The current password is tried with the username for an e-mail, the new  *)
(* one is set for the identity.                                            *)
ChangePassword(u) ==
  IF user[u].uid \in IdentityOf(user[u].name) THEN "changed" ELSE "incorrect"

(***************************************************************************)
(* Properties.                                                             *)
(***************************************************************************)

(* The links read from either side tell the same: the account an           *)
(* employee's row knows is on the staff list, and an account the staff     *)
(* list omits is nobody's or a deleted employee's.                         *)
ListsAgree ==
  /\ \A all \in BOOLEAN : \A e \in DOMAIN ListPaginated(all).items :
       all \/ GetEmployee(e) = {e}
  /\ \A e \in ListActive : GetEmployee(e) = {e} /\ e \in DOMAIN ListPaginated(FALSE).items
  /\ \A e \in ListAll(FALSE) : employee[e].user # None =>
       /\ employee[e].user \in UsersOf(e)
       /\ \E a \in ListAccounts : a.user = employee[e].user /\ a.emp = e
  /\ \A u \in ListUsers(None) : (\A a \in ListAccounts : a.user # u) =>
       user[u].emp = None \/ user[u].emp \in ListAll(TRUE) \ ListAll(FALSE)
  /\ \A a \in ListAccounts : GetUser(a.user) = {a.user} /\ a.user \in DOMAIN UsersPage(a.active).data

(* An e-mail signs in one user.  It signs in nobody although Supabase      *)
(* knows it only when a fault has left the identity behind, or while a     *)
(* request is about to write the user or to compensate.                    *)
SignInsAgree ==
  \A n \in Name :
    /\ \A u, v \in LogIn(n).user : u = v
    /\ LogIn(n).answer = "noLocalIdentity" =>
         \A i \in ForgotPassword(n).mailed :
           i \in stranded \/ \E r \in Request : req[r].step \in {"commit", "compensate"} /\ req[r].uid = i
    /\ \A i \in IdentityOf(n) : RefreshToken(i) = LogIn(n)

(* An active account gets in with the e-mail of its identity and its       *)
(* password can be reset, unless the invitation was never used or the      *)
(* identity was lost by a deletion under way or failed half-way.           *)
AccountsWork ==
  \A u \in User : Row(u) /\ user[u].active =>
    \/ user[u].uid = None /\ ForceReset(u) = "error"
    \/ u \in halfDone \/ \E r \in Request : req[r].step = "deleteRow" /\ req[r].user = u
    \/ ForceReset(u) = "reset" /\ \E n \in Name : LogIn(n).user = {u}

(* As long as nothing fails and nobody edits a profile, each user changes  *)
(* the password and signs in under one name: the username is the e-mail.   *)
NamesAgree ==
  events = 0 => \A u \in User : SignsIn(u) =>
    ChangePassword(u) = "changed" /\ LogIn(user[u].name).user = {u}

(* The link an employee's row holds is answered by the user's row however  *)
(* creations and deletions of accounts interleave, and the pages of        *)
(* employees, staff accounts and users and the answers to who signs in     *)
(* tell the same but for the traces of known faults.                       *)
AccountPagesAgree ==
  /\ LinksAgree /\ ListsAgree
  /\ SignInsAgree /\ AccountsWork /\ NamesAgree
=============================================================================
