------------------------------ MODULE Accounts ------------------------------
(***************************************************************************)
(* Who can sign in: the rows of employees (employee_crud_service.py), the  *)
(* rows of users (auth_service.py, staff_account_service.py) and the       *)
(* identities at Supabase Auth that carry the e-mails and passwords.       *)
(*                                                                         *)
(* The handlers that also call Supabase are a step per call and per        *)
(* commit, with the answers lost, the compensation and the crashes in      *)
(* between; those that take the access of an employee are a step per row   *)
(* they read and one for the commit (READ COMMITTED).  Of the others the   *)
(* commit alone decides: they are one step.                                *)
(* Every caller is an administrator; roles are left out.                   *)
(***************************************************************************)
EXTENDS Naturals, FiniteSets

CONSTANTS
  Employee,   \* ids of employees, each given to one row only
  User,       \* ids of users, likewise
  Identity,   \* uids of Supabase Auth, likewise
  Name,       \* e-mails, which are the usernames as well
  Person,     \* who an employee is: national id, phone and e-mail together
  Request,    \* requests of several steps that run at the same time
  None,       \* NULL
  Root,       \* the administrator who is there at the start,
  RootUid,    \* with this identity
  RootName,   \* and this e-mail
  MaxEvents   \* bound: faults (of Supabase, of the database, crashes), and
              \* changes of rows other than those that take access away

ASSUME ConstantsAssumption ==
  /\ Root \in User /\ RootUid \in Identity /\ RootName \in Name
  /\ None \notin Employee \cup User \cup Identity \cup Name \cup Person
  /\ {"unused", "gone"} \cap Name = {}
  /\ MaxEvents \in Nat

VARIABLES
  employee,    \* the rows of employees
  user,        \* the rows of users
  identity,    \* the e-mail of each identity, "unused" or "gone"
  req,         \* where each request with a call to Supabase is, what it has read
  desk,        \* the same of the requests that update or delete an employee
  late,        \* users with access given while their employee was leaving or gone
  stranded,    \* identities a fault has left behind
  halfDone,    \* users whose deletion failed after their identity had gone, or
               \* whose creation was taken for a failure after it had committed
  events

vars   == <<employee, user, identity, req, desk, late, stranded, halfDone, events>>
ghosts == <<late, stranded, halfDone>>

Unused == "unused"
Gone   == "gone"

Staff    == [there : BOOLEAN, deleted : BOOLEAN, by : User \cup {None},
             person : Person \cup {None}, active : BOOLEAN, user : User \cup {None}]
Login    == [state : {Unused, "row", Gone}, name : Name \cup {None},
             uid : Identity \cup {None}, emp : Employee \cup {None},
             active : BOOLEAN, invited : BOOLEAN]
Call     == [step : {"idle", "remote", "commit", "compensate", "deleteRemote", "deleteRow"},
             how : {"account", "login", "invite", "delete", "none"},
             name : Name \cup {None}, emp : Employee \cup {None},
             user : User \cup {None}, uid : Identity \cup {None}]
StaffCall == [step : {"idle", "look up", "write"},
              how : {"activate", "deactivate", "block", "delete", "none"},
              emp : Employee \cup {None}, user : User \cup {None}, by : User \cup {None}]

NoStaff == [there |-> FALSE, deleted |-> FALSE, by |-> None, person |-> None,
            active |-> FALSE, user |-> None]
NoLogin == [state |-> Unused, name |-> None, uid |-> None, emp |-> None,
            active |-> FALSE, invited |-> FALSE]
Idle    == [step |-> "idle", how |-> "none", name |-> None, emp |-> None,
            user |-> None, uid |-> None]
AtRest  == [step |-> "idle", how |-> "none", emp |-> None, user |-> None, by |-> None]

TablesOK ==
  /\ employee \in [Employee -> Staff] /\ user \in [User -> Login]
  /\ identity \in [Identity -> Name \cup {Unused, Gone}]
  /\ req \in [Request -> Call]
  /\ stranded \subseteq Identity /\ halfDone \subseteq User
  /\ events \in 0 .. MaxEvents

TypeOK == TablesOK /\ desk \in [Request -> StaffCall] /\ late \subseteq User

Init ==
  /\ employee = [e \in Employee |-> NoStaff]
  /\ user = [u \in User |->
       IF u = Root THEN [NoLogin EXCEPT !.state = "row", !.name = RootName,
                                        !.uid = RootUid, !.active = TRUE]
       ELSE NoLogin]
  /\ identity = [i \in Identity |-> IF i = RootUid THEN RootName ELSE Unused]
  /\ req = [r \in Request |-> Idle] /\ desk = [r \in Request |-> AtRest]
  /\ late = {} /\ stranded = {} /\ halfDone = {} /\ events = 0

Row(u)      == user[u].state = "row"
Live(e)     == employee[e].there /\ ~employee[e].deleted
Free(n)     == ~\E u \in User : Row(u) /\ user[u].name = n
TakenByOther(n, u) == \E v \in User \ {u} : Row(v) /\ user[v].name = n
Standing(i) == identity[i] \notin {Unused, Gone}
Taken(n)    == \E i \in Identity : identity[i] = n

(* get_current_user: a token of Supabase, mapped to an active row. *)
SignsIn(u) == Row(u) /\ user[u].active /\ user[u].uid # None /\ Standing(user[u].uid)

Fault == events < MaxEvents /\ events' = events + 1
Edit  == events < MaxEvents /\ events' = events + 1

(* Access is given late when the employee does not work any more, or when  *)
(* a request that blocks the employee's login has begun.                   *)
Works(e)    == Live(e) /\ employee[e].active
Leaving(e)  ==
  ~Works(e) \/ \E r \in Request : desk[r].emp = e /\ desk[r].how # "activate"
Latecomers ==
  {u \in User : user'[u].active /\
     IF user[u].active THEN u \in late
     ELSE \E e \in Employee : user'[u].emp = e /\ Leaving(e)}

(***************************************************************************)
(* EmployeeCrudService.                                                    *)
(***************************************************************************)

(* _validate_unique_fields, and the partial unique indexes behind it. *)
NoDuplicate(e, p) == \A d \in Employee \ {e} : Live(d) => employee[d].person # p

Hire(e, p) ==
  /\ ~employee[e].there /\ NoDuplicate(e, p)
  /\ employee' = [employee EXCEPT ![e] =
       [NoStaff EXCEPT !.there = TRUE, !.person = p, !.active = TRUE]]
  /\ UNCHANGED <<user, identity, req, desk, ghosts, events>>

(* The row of the employee is read once: the login is the one it refers to *)
(* by then, and is_active is written only if it is to change.              *)
StaffRead(r, e, how, by, login) ==
  /\ req[r] = Idle /\ desk[r] = AtRest /\ Live(e)
  /\ desk' = [desk EXCEPT ![r] =
       [step |-> IF login = None THEN "write" ELSE "look up",
        how |-> how, emp |-> e, user |-> login, by |-> by]]
  /\ UNCHANGED <<employee, user, identity, req, ghosts>>

(* update with is_active: deactivating blocks the linked login, and        *)
(* activating leaves it as it is.                                          *)
Activate(r, e) ==
  /\ Edit /\ ~employee[e].active
  /\ StaffRead(r, e, "activate", None, None)

Deactivate(r, e) ==
  /\ StaffRead(r, e, IF employee[e].active THEN "deactivate" ELSE "block",
                None, employee[e].user)
  /\ UNCHANGED events

DeleteEmployee(r, e, by) ==
  /\ SignsIn(by)
  /\ StaffRead(r, e, "delete", by, employee[e].user)
  /\ UNCHANGED events

(* Faulty variant: a login that is found is left as it is. *)
SetUserActiveForgotten(r) ==
  /\ desk[r].step = "look up" /\ Row(desk[r].user)
  /\ desk' = [desk EXCEPT ![r].step = "write", ![r].user = None]
  /\ UNCHANGED <<employee, user, identity, req, ghosts, events>>

(* set_user_active on the login that was read: nothing is written of one   *)
(* that is blocked.                                                        *)
SetUserActive(r) ==
  /\ desk[r].step = "look up" /\ Row(desk[r].user)
  /\ desk' = [desk EXCEPT ![r].step = "write",
                          ![r].user = IF user[@].active THEN @ ELSE None]
  /\ UNCHANGED <<employee, user, identity, req, ghosts, events>>

(* What is written of an employee's row: the columns that are to change.   *)
Written(s, call) ==
  CASE call.how = "activate"   -> [s EXCEPT !.active = TRUE]
    [] call.how = "deactivate" -> [s EXCEPT !.active = FALSE]
    [] call.how = "block"      -> s
    [] call.how = "delete"     -> [s EXCEPT !.deleted = TRUE, !.by = call.by]

(* flush and commit: every row that is written, and who deletes, is there. *)
StaffCommit(r) ==
  LET call == desk[r] IN
  /\ call.step = "write"
  /\ call.user # None => Row(call.user)
  /\ call.how = "delete" => Row(call.by)
  /\ employee' = [employee EXCEPT ![call.emp] = Written(@, call)]
  /\ user' = IF call.user = None THEN user ELSE [user EXCEPT ![call.user].active = FALSE]
  /\ desk' = [desk EXCEPT ![r] = AtRest]
  /\ late' = Latecomers
  /\ UNCHANGED <<identity, req, stranded, halfDone, events>>

(* A row is gone by then, or the database fails: nothing is written.       *)
StaffFails(r) ==
  /\ desk[r] # AtRest
  /\ desk' = [desk EXCEPT ![r] = AtRest]
  /\ UNCHANGED <<employee, user, identity, req, ghosts, events>>

RestoreEmployee(e) ==
  /\ Edit /\ employee[e].there /\ employee[e].deleted /\ NoDuplicate(e, employee[e].person)
  /\ employee' = [employee EXCEPT ![e].deleted = FALSE, ![e].by = None]
  /\ UNCHANGED <<user, identity, req, desk, ghosts>>

(***************************************************************************)
(* The handlers of AuthService that stay in the database or make a single  *)
(* call to Supabase.                                                       *)
(***************************************************************************)

(* update_user: nobody takes the access from himself. *)
UpdateUser(u, a, by) ==
  /\ Edit /\ Row(u) /\ SignsIn(by) /\ (a \/ u # by)
  /\ user' = [user EXCEPT ![u].active = a]
  /\ late' = Latecomers
  /\ UNCHANGED <<employee, identity, req, desk, stranded, halfDone>>

(* invite_user: the employee is looked up, not whether it has a login. *)
InviteUser(u, n, e) ==
  /\ user[u].state = Unused /\ Free(n) /\ (e # None => Live(e))
  /\ user' = [user EXCEPT ![u] =
       [NoLogin EXCEPT !.state = "row", !.name = n, !.emp = e, !.invited = TRUE]]
  /\ UNCHANGED <<employee, identity, req, desk, ghosts, events>>

(* update_profile and change_email, the two halves of PATCH /auth/me. *)
UpdateProfile(u, n) ==
  /\ Edit /\ SignsIn(u) /\ Free(n)
  /\ user' = [user EXCEPT ![u].name = n]
  /\ UNCHANGED <<employee, identity, req, desk, ghosts>>

ChangeEmail(u, n) ==
  /\ Edit /\ SignsIn(u) /\ ~Taken(n)
  /\ identity' = [identity EXCEPT ![user[u].uid] = n]
  /\ UNCHANGED <<employee, user, req, desk, ghosts>>

(***************************************************************************)
(* The three ways to a new login: StaffAccountService.create_account       *)
(* ("account"), link_employee_to_new_user ("login"), register_with_invite  *)
(* ("invite").  Each checks, creates the identity and commits the row.     *)
(***************************************************************************)
Begin(r, call) ==
  /\ req[r] = Idle /\ desk[r] = AtRest /\ req' = [req EXCEPT ![r] = call]
  /\ UNCHANGED <<employee, user, identity, desk, ghosts, events>>

End(r) == req' = [req EXCEPT ![r] = Idle]

(* _validate_account_creation: the account is looked for on the employee. *)
CreateAccount(r, e, n) ==
  /\ Live(e) /\ employee[e].user = None
  /\ Begin(r, [Idle EXCEPT !.step = "remote", !.how = "account", !.emp = e, !.name = n])

(* The account is looked for on the users, and the name as well. *)
LinkNewUser(r, e, n) ==
  /\ e # None => Live(e) /\ ~\E u \in User : Row(u) /\ user[u].emp = e
  /\ Free(n)
  /\ Begin(r, [Idle EXCEPT !.step = "remote", !.how = "login", !.emp = e, !.name = n])

(* The username must be free of all rows, the invited one included. *)
RegisterWithInvite(r, u, n) ==
  /\ Row(u) /\ user[u].invited /\ Free(n)
  /\ Begin(r, [Idle EXCEPT !.step = "remote", !.how = "invite", !.user = u, !.name = n])

RemoteCreates(r, i) ==
  /\ req[r].step = "remote" /\ identity[i] = Unused /\ ~Taken(req[r].name)
  /\ identity' = [identity EXCEPT ![i] = req[r].name]
  /\ req' = [req EXCEPT ![r].step = "commit", ![r].uid = i]
  /\ UNCHANGED <<employee, user, desk, ghosts, events>>

(* The e-mail is taken, or Supabase cannot be reached. *)
RemoteRefuses(r) ==
  /\ req[r].step = "remote"
  /\ \/ Taken(req[r].name) /\ UNCHANGED events
     \/ Fault
  /\ End(r)
  /\ UNCHANGED <<employee, user, identity, desk, ghosts>>

(* Supabase creates the identity and the answer is lost: to the handler    *)
(* this is a failure like any other.                                       *)
RemoteAnswerLost(r, i) ==
  /\ req[r].step = "remote" /\ identity[i] = Unused /\ ~Taken(req[r].name)
  /\ Fault
  /\ identity' = [identity EXCEPT ![i] = req[r].name]
  /\ stranded' = stranded \cup {i}
  /\ End(r)
  /\ UNCHANGED <<employee, user, desk, halfDone, late>>

(* create_linked_account writes both sides of the link. *)
CommitAccount(r, u) ==
  /\ req[r].step = "commit" /\ req[r].how = "account"
  /\ user[u].state = Unused /\ Free(req[r].name)
  /\ user' = [user EXCEPT ![u] =
       [NoLogin EXCEPT !.state = "row", !.name = req[r].name, !.uid = req[r].uid,
                       !.emp = req[r].emp, !.active = TRUE]]
  /\ employee' = [employee EXCEPT ![req[r].emp].user = u]
  /\ End(r)
  /\ late' = Latecomers
  /\ UNCHANGED <<identity, desk, stranded, halfDone, events>>

CommitLogin(r, u) ==
  /\ req[r].step = "commit" /\ req[r].how = "login"
  /\ user[u].state = Unused /\ Free(req[r].name)
  /\ user' = [user EXCEPT ![u] =
       [NoLogin EXCEPT !.state = "row", !.name = req[r].name, !.uid = req[r].uid,
                       !.emp = req[r].emp, !.active = TRUE]]
  /\ End(r)
  /\ late' = Latecomers
  /\ UNCHANGED <<employee, identity, desk, stranded, halfDone, events>>

(* The transaction stands, and the handler sees an error: the answer to    *)
(* the commit is lost, or the row cannot be read back after it (the        *)
(* refresh of link_employee_to_new_user, inside the same try).             *)
CommitUnseen(r, u) ==
  /\ req[r].step = "commit" /\ req[r].how \in {"account", "login"} /\ Fault
  /\ user[u].state = Unused /\ Free(req[r].name)
  /\ user' = [user EXCEPT ![u] =
       [NoLogin EXCEPT !.state = "row", !.name = req[r].name, !.uid = req[r].uid,
                       !.emp = req[r].emp, !.active = TRUE]]
  /\ employee' = IF req[r].how = "login" THEN employee
                 ELSE [employee EXCEPT ![req[r].emp].user = u]
  /\ halfDone' = halfDone \cup {u}
  /\ req' = [req EXCEPT ![r].step = "compensate"]
  /\ late' = Latecomers
  /\ UNCHANGED <<identity, desk, stranded>>

(* The row of the invitation as it was read: another registration with     *)
(* the same token may have been there first, and its identity is replaced. *)
CommitInvite(r) ==
  LET u == req[r].user IN
  /\ req[r].step = "commit" /\ req[r].how = "invite"
  /\ Row(u) /\ ~TakenByOther(req[r].name, u)
  /\ user' = [user EXCEPT ![u].name = req[r].name, ![u].uid = req[r].uid,
                          ![u].active = TRUE, ![u].invited = FALSE]
  /\ stranded' = stranded \cup ({user[u].uid} \ {None})
  /\ End(r)
  /\ late' = Latecomers
  /\ UNCHANGED <<employee, identity, desk, halfDone, events>>

(* The username is a duplicate by now, the row is gone, or the database    *)
(* fails.                                                                  *)
CannotCommit(r) ==
  \/ req[r].how # "invite" /\ ~Free(req[r].name)
  \/ req[r].how = "invite" /\ (~Row(req[r].user) \/ TakenByOther(req[r].name, req[r].user))

(* Faulty variant: nothing is done about the identity. *)
CommitFailsUncompensated(r) ==
  /\ req[r].step = "commit"
  /\ \/ CannotCommit(r) /\ UNCHANGED events
     \/ Fault
  /\ End(r)
  /\ UNCHANGED <<employee, user, identity, desk, ghosts>>

(* The registration with an invitation has no compensation. *)
CommitFails(r) ==
  /\ req[r].step = "commit"
  /\ \/ CannotCommit(r) /\ UNCHANGED events
     \/ Fault
  /\ IF req[r].how = "invite"
     THEN End(r) /\ stranded' = stranded \cup {req[r].uid}
     ELSE req' = [req EXCEPT ![r].step = "compensate"] /\ UNCHANGED stranded
  /\ UNCHANGED <<employee, user, identity, desk, halfDone, late>>

Compensate(r) ==
  /\ req[r].step = "compensate"
  /\ identity' = [identity EXCEPT ![req[r].uid] = Gone]
  /\ End(r)
  /\ UNCHANGED <<employee, user, desk, ghosts, events>>

(* The failure is logged for a manual clean-up. *)
CompensationFails(r) ==
  /\ req[r].step = "compensate" /\ Fault
  /\ stranded' = stranded \cup {req[r].uid}
  /\ End(r)
  /\ UNCHANGED <<employee, user, identity, desk, halfDone, late>>

(***************************************************************************)
(* AuthService.delete_user: the identity first, then the row.              *)
(***************************************************************************)
DeleteUser(r, u, by) ==
  /\ Row(u) /\ SignsIn(by) /\ u # by
  /\ Begin(r, [Idle EXCEPT !.step = IF user[u].uid = None THEN "deleteRow"
                                    ELSE "deleteRemote",
                           !.how = "delete", !.user = u, !.uid = user[u].uid])

DeleteIdentity(r) ==
  /\ req[r].step = "deleteRemote"
  /\ identity' = [identity EXCEPT ![req[r].uid] = Gone]
  /\ req' = [req EXCEPT ![r].step = "deleteRow"]
  /\ UNCHANGED <<employee, user, desk, ghosts, events>>

(* The failure is logged and swallowed. *)
DeleteIdentityFails(r) ==
  /\ req[r].step = "deleteRemote" /\ Fault
  /\ req' = [req EXCEPT ![r].step = "deleteRow"]
  /\ UNCHANGED <<employee, user, identity, desk, ghosts>>

(* employees.deleted_by has no ON DELETE: who has deleted an employee is   *)
(* kept by it.  employees.user_id is set to NULL.                          *)
Protected(u) == \E e \in Employee : employee[e].by = u

DeleteRow(r) ==
  LET u == req[r].user IN
  /\ req[r].step = "deleteRow" /\ Row(u) /\ ~Protected(u)
  /\ user' = [user EXCEPT ![u] = [NoLogin EXCEPT !.state = Gone]]
  /\ employee' = [e \in Employee |->
       IF employee[e].user = u THEN [employee[e] EXCEPT !.user = None] ELSE employee[e]]
  /\ stranded' = stranded \cup {i \in Identity : user[u].uid = i /\ Standing(i)}
  /\ halfDone' = halfDone \ {u}
  /\ End(r)
  /\ late' = Latecomers
  /\ UNCHANGED <<identity, desk, events>>

(* The row is gone already, the foreign key protects it, or the database   *)
(* fails: the request ends, and what Supabase has deleted stays deleted.   *)
DeleteRowEnds(r) ==
  LET u == req[r].user IN
  /\ req[r].step = "deleteRow"
  /\ \/ (~Row(u) \/ Protected(u)) /\ UNCHANGED events
     \/ Row(u) /\ ~Protected(u) /\ Fault
  /\ halfDone' = IF Row(u) THEN halfDone \cup {u} ELSE halfDone
  /\ End(r)
  /\ UNCHANGED <<employee, user, identity, desk, stranded, late>>

(* The process ends: all its requests do, and their transactions with them. *)
Crash ==
  /\ Fault /\ \E r \in Request : req[r] # Idle \/ desk[r] # AtRest
  /\ stranded' = stranded \cup
       {i \in Identity : \E r \in Request :
          req[r].step \in {"commit", "compensate"} /\ req[r].uid = i}
  /\ halfDone' = halfDone \cup
       {u \in User : \E r \in Request : req[r].step = "deleteRow" /\ req[r].user = u}
  /\ req' = [r \in Request |-> Idle] /\ desk' = [r \in Request |-> AtRest]
  /\ UNCHANGED <<employee, user, identity, late>>

Staffing ==
  \E e \in Employee : RestoreEmployee(e) \/ \E p \in Person : Hire(e, p)

StaffUpdate(r) ==
  \/ \E e \in Employee :
       Activate(r, e) \/ Deactivate(r, e) \/ \E by \in User : DeleteEmployee(r, e, by)
  \/ SetUserActive(r) \/ StaffCommit(r) \/ StaffFails(r)

Administration ==
  \E u \in User :
    \/ \E a \in BOOLEAN, by \in User : UpdateUser(u, a, by)
    \/ \E n \in Name, e \in Employee \cup {None} : InviteUser(u, n, e)
    \/ \E n \in Name : UpdateProfile(u, n) \/ ChangeEmail(u, n)

Provisioning(r) ==
  \/ \E e \in Employee, n \in Name : CreateAccount(r, e, n)
  \/ \E e \in Employee \cup {None}, n \in Name : LinkNewUser(r, e, n)
  \/ \E u \in User, n \in Name : RegisterWithInvite(r, u, n)
  \/ \E i \in Identity : RemoteCreates(r, i) \/ RemoteAnswerLost(r, i)
  \/ \E u \in User : CommitAccount(r, u) \/ CommitLogin(r, u) \/ CommitUnseen(r, u)
  \/ RemoteRefuses(r) \/ CommitInvite(r) \/ CommitFails(r)
  \/ Compensate(r) \/ CompensationFails(r)

Removal(r) ==
  \/ \E u, by \in User : DeleteUser(r, u, by)
  \/ DeleteIdentity(r) \/ DeleteIdentityFails(r) \/ DeleteRow(r) \/ DeleteRowEnds(r)

Next ==
  \/ Staffing \/ Administration \/ Crash
  \/ \E r \in Request : StaffUpdate(r) \/ Provisioning(r) \/ Removal(r)

Spec == Init /\ [][Next]_vars

(***************************************************************************)
(* Properties                                                              *)
(***************************************************************************)

(* FR-002 of specs/039: provisioning leaves no partial state.  An identity *)
(* at Supabase belongs to a row of users, or to a request that is about to *)
(* write the row or to compensate, unless a fault the code only logs, a    *)
(* failed registration or an interrupted request has left it behind.       *)
IdentitiesAreOwned ==
  \A i \in Identity : Standing(i) =>
    \/ i \in stranded
    \/ \E u \in User : Row(u) /\ user[u].uid = i
    \/ \E r \in Request : req[r].step \in {"commit", "compensate"} /\ req[r].uid = i

(* The other way round: a row whose identity is gone, with which nobody    *)
(* can sign in and no login be made again, is one whose deletion is under  *)
(* way or has failed half-way, or one whose commit was taken for a         *)
(* failure.  No other compensation takes a row's identity.                 *)
RowsHaveIdentities ==
  \A u \in User : Row(u) /\ user[u].uid # None /\ identity[user[u].uid] = Gone =>
    \/ u \in halfDone
    \/ \E r \in Request : req[r].step = "deleteRow" /\ req[r].user = u

(* Both ways, the provider and the table agree but for what is under way   *)
(* and for the faults that are known to leave a trace.                     *)
IdentitiesMatchRows == IdentitiesAreOwned /\ RowsHaveIdentities

(* The link an employee's row holds is answered by the user's row, however *)
(* the creations and deletions of accounts interleave: what goes by the    *)
(* employee and what goes by the user then speak of the same login.        *)
LinksAgree ==
  \A e \in Employee : employee[e].user # None =>
    Row(employee[e].user) /\ user[employee[e].user].emp = e

(* FR-003 of specs/040 and FR-011 of specs/039, for the login an           *)
(* employee's row knows of: while an employee is deleted or deactivated it *)
(* is active only if it was given access late, by an account or an         *)
(* administrator that came in after the request that took it had read, or  *)
(* after the commit; and what brings an employee back gives access to      *)
(* nobody.                                                                 *)
NoAccessLeft ==
  \A e \in Employee :
    ~Works(e) /\ employee[e].user # None /\ user[employee[e].user].active =>
      employee[e].user \in late

NobodyLetIn ==
  \A e \in Employee :
    ~Works(e) /\ Works(e)' => \A u \in User : user'[u].active => user[u].active

AccessFollowsStaff == [][NoAccessLeft' /\ NobodyLetIn]_vars
=============================================================================
