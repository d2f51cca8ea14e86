--------------------------- MODULE AccountsProofs ---------------------------
(***************************************************************************)
(* The properties of Accounts for any number of employees, users,          *)
(* identities, concurrent requests and faults.                             *)
(***************************************************************************)
EXTENDS AccountPages, TLAPS

(* What a request carries by the time it needs it. *)
WholeCalls ==
  \A r \in Request :
    /\ req[r].step \in {"remote", "commit"} => req[r].name \in Name
    /\ req[r].how = "account" => req[r].emp \in Employee
    /\ req[r].how = "invite" => req[r].user \in User
    /\ req[r].step \in {"commit", "compensate", "deleteRemote"} => req[r].uid \in Identity
    /\ req[r].step \in {"deleteRemote", "deleteRow"} => req[r].user \in User

(* What a request that updates or deletes an employee has read. *)
WholeDesks ==
  \A r \in Request :
    /\ desk[r].step = "idle" => desk[r] = AtRest
    /\ desk[r].step # "idle" => desk[r].emp \in Employee /\ desk[r].how # "none"
    /\ desk[r].step = "look up" => desk[r].user \in User
    /\ desk[r].how = "delete" => desk[r].by \in User

DesksOK == desk \in [Request -> StaffCall] /\ late \subseteq User
Desks   == DesksOK /\ WholeDesks

(* A row that is not there lets nobody in.  The login a pending request    *)
(* takes away is the one it has read, or came in while it was under way.   *)
OnlyRowsAreActive == \A u \in User : user[u].active => Row(u)

Watched ==
  \A r \in Request : \A u \in User :
    /\ desk[r].step # "idle" /\ desk[r].how # "activate"
    /\ u = employee[desk[r].emp].user /\ user[u].active
    => u = desk[r].user \/ u \in late

(* An identity belongs to one row or one request that is about to write    *)
(* it; a request that deletes an identity takes it from the row it deletes *)
(* (or from nobody), a compensation from a row that is half done.          *)
RowUids ==
  /\ \A u \in User : Row(u) /\ user[u].uid # None => identity[user[u].uid] # Unused
  /\ \A u, v \in User :
       Row(u) /\ Row(v) /\ user[u].uid = user[v].uid /\ user[u].uid # None => u = v

CommitUids ==
  \A r \in Request : req[r].step = "commit" =>
    /\ Standing(req[r].uid)
    /\ \A u \in User : Row(u) => user[u].uid # req[r].uid
    /\ \A s \in Request \ {r} :
         req[s].step \in {"commit", "compensate", "deleteRemote"} => req[s].uid # req[r].uid

CompensateUids ==
  \A r \in Request : req[r].step = "compensate" =>
    /\ identity[req[r].uid] # Unused
    /\ \A u \in User : Row(u) /\ user[u].uid = req[r].uid => u \in halfDone

DeleteUids ==
  \A r \in Request : req[r].step = "deleteRemote" =>
    /\ identity[req[r].uid] # Unused
    /\ \A u \in User : Row(u) /\ user[u].uid = req[r].uid => u = req[r].user

IInv ==
  /\ TablesOK /\ Desks /\ WholeCalls
  /\ OnlyRowsAreActive /\ Watched /\ NoAccessLeft
  /\ RowUids /\ CommitUids /\ CompensateUids /\ DeleteUids
  /\ LinksAgree /\ IdentitiesAreOwned /\ RowsHaveIdentities

(***************************************************************************)
(* Type correctness.  The records that are written, then the actions.      *)
(***************************************************************************)
LEMMA StaffRecords ==
  ASSUME NEW s \in Staff
  PROVE  /\ \A b \in BOOLEAN : [s EXCEPT !.active = b] \in Staff
         /\ \A u \in User \cup {None} : [s EXCEPT !.user = u] \in Staff
         /\ \A u \in User \cup {None}, b \in BOOLEAN : [s EXCEPT !.deleted = b, !.by = u] \in Staff
         /\ \A p \in Person : [NoStaff EXCEPT !.there = TRUE, !.person = p, !.active = TRUE] \in Staff
BY DEF Staff, NoStaff

LEMMA LoginRecords ==
  ASSUME NEW l \in Login
  PROVE  /\ \A b \in BOOLEAN : [l EXCEPT !.active = b] \in Login
         /\ \A n \in Name : [l EXCEPT !.name = n] \in Login
         /\ \A n \in Name, i \in Identity :
              [l EXCEPT !.name = n, !.uid = i, !.active = TRUE, !.invited = FALSE] \in Login
         /\ \A n \in Name, i \in Identity, e \in Employee \cup {None} :
              [NoLogin EXCEPT !.state = "row", !.name = n, !.uid = i,
                              !.emp = e, !.active = TRUE] \in Login
         /\ \A n \in Name, e \in Employee \cup {None} :
              [NoLogin EXCEPT !.state = "row", !.name = n, !.emp = e, !.invited = TRUE] \in Login
         /\ [NoLogin EXCEPT !.state = Gone] \in Login
BY DEF Login, NoLogin, Gone, Unused

LEMMA CallRecords ==
  ASSUME NEW c \in Call
  PROVE  /\ Idle \in Call
         /\ \A x \in {"compensate", "deleteRow"} : [c EXCEPT !.step = x] \in Call
         /\ \A i \in Identity : [c EXCEPT !.step = "commit", !.uid = i] \in Call
         /\ \A n \in Name, e \in Employee \cup {None}, h \in {"account", "login"} :
              [Idle EXCEPT !.step = "remote", !.how = h, !.emp = e, !.name = n] \in Call
         /\ \A n \in Name, u \in User :
              [Idle EXCEPT !.step = "remote", !.how = "invite", !.user = u, !.name = n] \in Call
         /\ \A u \in User, i \in Identity \cup {None}, x \in {"deleteRow", "deleteRemote"} :
              [Idle EXCEPT !.step = x, !.how = "delete", !.user = u, !.uid = i] \in Call
BY ZenonT(60) DEF Call, Idle

LEMMA Fields ==
  ASSUME TablesOK
  PROVE  /\ \A e \in Employee : employee[e].user \in User \cup {None}
         /\ \A u \in User : user[u].uid \in Identity \cup {None}
         /\ \A r \in Request : /\ req[r].emp \in Employee \cup {None}
                               /\ req[r].uid \in Identity \cup {None}
                               /\ req[r].user \in User \cup {None}
BY DEF TablesOK, Staff, Login, Call

LEMMA Counted == ASSUME TablesOK, Fault \/ Edit PROVE events' \in 0 .. MaxEvents
BY ConstantsAssumption DEF TablesOK, Fault, Edit

(* What a request reads of employees and users changes none of the tables. *)
LEMMA StaffReads ==
  ASSUME TablesOK, NEW r \in Request, StaffUpdate(r), ~StaffCommit(r)
  PROVE  /\ UNCHANGED <<employee, user, identity, req, late, stranded, halfDone>>
         /\ UNCHANGED events \/ Edit
<1> USE DEF StaffRead, ghosts
<1>1. ASSUME NEW e \in Employee, Activate(r, e)
      PROVE  UNCHANGED <<employee, user, identity, req, late, stranded, halfDone>> /\ Edit
  BY <1>1 DEF Activate
<1>2. ASSUME NEW e \in Employee, Deactivate(r, e) \/ \E by \in User : DeleteEmployee(r, e, by)
      PROVE  UNCHANGED <<employee, user, identity, req, late, stranded, halfDone, events>>
  BY <1>2 DEF Deactivate, DeleteEmployee
<1>3. ASSUME SetUserActive(r) \/ StaffFails(r)
      PROVE  UNCHANGED <<employee, user, identity, req, late, stranded, halfDone, events>>
  BY <1>3 DEF SetUserActive, StaffFails
<1> QED BY <1>1, <1>2, <1>3 DEF StaffUpdate

(* The commit writes one row of employees, and blocks one login at most.   *)
LEMMA StaffWritten ==
  ASSUME TablesOK, Desks, NEW r \in Request, StaffCommit(r)
  PROVE  /\ employee' \in [Employee -> Staff]
         /\ \A e \in Employee : /\ employee'[e].there = employee[e].there
                               /\ employee'[e].user = employee[e].user
         /\ \A e \in Employee \ {desk[r].emp} : employee'[e] = employee[e]
         /\ \A u \in User :
              /\ user'[u].state = user[u].state /\ user'[u].name = user[u].name
              /\ user'[u].uid = user[u].uid /\ user'[u].emp = user[u].emp
              /\ user'[u].active => user[u].active /\ u # desk[r].user
         /\ UNCHANGED <<identity, req, stranded, halfDone, events>>
<1> DEFINE call == desk[r]
<1>1. /\ call.emp \in Employee /\ call.how \in {"activate", "deactivate", "block", "delete"}
      /\ call.how = "delete" => call.by \in User
  BY DEF StaffCommit, Desks, DesksOK, WholeDesks, StaffCall
<1>2. /\ Written(employee[call.emp], call) \in Staff
      /\ Written(employee[call.emp], call).there = employee[call.emp].there
      /\ Written(employee[call.emp], call).user = employee[call.emp].user
  <2> DEFINE s == employee[call.emp]
  <2>1. s \in Staff
    BY <1>1 DEF TablesOK
  <2>2. CASE call.how = "activate"
    BY <2>1, <2>2 DEF Written, Staff
  <2>3. CASE call.how = "deactivate"
    BY <2>1, <2>3 DEF Written, Staff
  <2>4. CASE call.how = "block"
    BY <2>1, <2>4 DEF Written, Staff
  <2>5. CASE call.how = "delete"
    <3>1. call.by \in User /\ Written(s, call) = [s EXCEPT !.deleted = TRUE, !.by = call.by]
      BY <1>1, <2>5 DEF Written
    <3>2. /\ [s EXCEPT !.deleted = TRUE, !.by = call.by] \in Staff
          /\ [s EXCEPT !.deleted = TRUE, !.by = call.by].there = s.there
          /\ [s EXCEPT !.deleted = TRUE, !.by = call.by].user = s.user
      <4> HIDE DEF call, s
      <4> QED BY <2>1, <3>1 DEF Staff
    <3> QED BY <3>1, <3>2
  <2> QED BY <1>1, <2>2, <2>3, <2>4, <2>5
<1>3. employee' = [employee EXCEPT ![call.emp] = Written(employee[call.emp], call)]
  BY DEF StaffCommit
<1>4. \A u \in User :
        /\ user'[u].state = user[u].state /\ user'[u].name = user[u].name
        /\ user'[u].uid = user[u].uid /\ user'[u].emp = user[u].emp
        /\ user'[u].active => user[u].active /\ u # call.user
  BY ConstantsAssumption DEF StaffCommit, TablesOK, Login
<1>5. UNCHANGED <<identity, req, stranded, halfDone, events>>
  BY DEF StaffCommit
<1> HIDE DEF call
<1>6. /\ employee' \in [Employee -> Staff]
      /\ \A e \in Employee : /\ employee'[e].there = employee[e].there
                            /\ employee'[e].user = employee[e].user
      /\ \A e \in Employee \ {call.emp} : employee'[e] = employee[e]
  BY <1>1, <1>2, <1>3 DEF TablesOK
<1> QED BY <1>4, <1>5, <1>6 DEF call

LEMMA TypeStep ==
 ASSUME TablesOK, Desks, WholeCalls, Next
 PROVE  TablesOK'
<1> USE Fields
<1>1. ASSUME NEW e \in Employee, NEW p \in Person, Hire(e, p)
      PROVE  TablesOK'
  BY <1>1, StaffRecords DEF Hire, TablesOK, WholeCalls, ghosts, Row
<1>2. ASSUME NEW r \in Request, StaffCommit(r)
      PROVE  TablesOK'
  <2>1. employee' \in [Employee -> Staff]
    BY <1>2, StaffWritten DEF TablesOK
  <2>2. user' \in [User -> Login]
    BY <1>2, LoginRecords DEF StaffCommit, TablesOK
  <2> QED BY <1>2, <2>1, <2>2 DEF StaffCommit, TablesOK
<1>3. ASSUME NEW r \in Request, StaffUpdate(r), ~StaffCommit(r)
      PROVE  TablesOK'
  BY <1>3, StaffReads, Counted DEF TablesOK
<1>5. ASSUME NEW e \in Employee, RestoreEmployee(e)
      PROVE  TablesOK'
  BY <1>5, StaffRecords, Counted DEF RestoreEmployee, TablesOK, WholeCalls, ghosts, Row
<1>6. ASSUME NEW u \in User, NEW a \in BOOLEAN, NEW by \in User, UpdateUser(u, a, by)
      PROVE  TablesOK'
  BY <1>6, LoginRecords, Counted DEF UpdateUser, TablesOK, WholeCalls, ghosts, Row
<1>7. ASSUME NEW u \in User, NEW n \in Name, UpdateProfile(u, n)
      PROVE  TablesOK'
  BY <1>7, LoginRecords, Counted DEF UpdateProfile, TablesOK, WholeCalls, ghosts, Row
<1>8. ASSUME NEW u \in User, NEW n \in Name, NEW e \in Employee \cup {None}, InviteUser(u, n, e)
      PROVE  TablesOK'
  BY <1>8, LoginRecords DEF InviteUser, TablesOK, WholeCalls, ghosts, Row
<1>9. ASSUME NEW u \in User, NEW n \in Name, ChangeEmail(u, n)
      PROVE  TablesOK'
  BY <1>9, Counted DEF ChangeEmail, TablesOK, WholeCalls, ghosts, Row, SignsIn, Gone
<1>10. ASSUME NEW r \in Request, NEW e \in Employee, NEW n \in Name, CreateAccount(r, e, n)
      PROVE  TablesOK'
  BY <1>10, CallRecords DEF CreateAccount, Begin, TablesOK, WholeCalls, ghosts, Row
<1>11. ASSUME NEW r \in Request, NEW e \in Employee \cup {None}, NEW n \in Name, LinkNewUser(r, e, n)
      PROVE  TablesOK'
  BY <1>11, CallRecords DEF LinkNewUser, Begin, TablesOK, WholeCalls, ghosts, Row
<1>12. ASSUME NEW r \in Request, NEW u \in User, NEW n \in Name, RegisterWithInvite(r, u, n)
      PROVE  TablesOK'
  BY <1>12, CallRecords DEF RegisterWithInvite, Begin, TablesOK, WholeCalls, ghosts, Row
<1>13. ASSUME NEW r \in Request, NEW i \in Identity, RemoteCreates(r, i)
      PROVE  TablesOK'
  BY <1>13, CallRecords DEF RemoteCreates, TablesOK, WholeCalls, ghosts, Row, Unused
<1>14. ASSUME NEW r \in Request, NEW i \in Identity, RemoteAnswerLost(r, i)
      PROVE  TablesOK'
  BY <1>14, CallRecords, Counted DEF RemoteAnswerLost, End, TablesOK, WholeCalls, ghosts, Row, Unused
<1>15. ASSUME NEW r \in Request, RemoteRefuses(r)
      PROVE  TablesOK'
  BY <1>15, CallRecords, Counted DEF RemoteRefuses, End, TablesOK, WholeCalls, ghosts, Row
<1>16. ASSUME NEW r \in Request, NEW u \in User, CommitAccount(r, u)
      PROVE  TablesOK'
  BY <1>16, StaffRecords, LoginRecords, CallRecords DEF CommitAccount, End, TablesOK, WholeCalls, ghosts, Row
<1>17. ASSUME NEW r \in Request, NEW u \in User, CommitLogin(r, u)
      PROVE  TablesOK'
  BY <1>17, LoginRecords, CallRecords DEF CommitLogin, End, TablesOK, WholeCalls, ghosts, Row
<1>18. ASSUME NEW r \in Request, NEW u \in User, CommitUnseen(r, u)
      PROVE  TablesOK'
  BY <1>18, StaffRecords, LoginRecords, CallRecords, Counted DEF CommitUnseen, TablesOK, WholeCalls, ghosts, Row
<1>19. ASSUME NEW r \in Request, CommitInvite(r)
      PROVE  TablesOK'
  BY <1>19, LoginRecords, CallRecords DEF CommitInvite, End, TablesOK, WholeCalls, ghosts, Row
<1>20. ASSUME NEW r \in Request, CommitFails(r)
      PROVE  TablesOK'
  <2>1. events' \in 0 .. MaxEvents
    BY <1>20, Counted DEF CommitFails, TablesOK
  <2>2. req' \in [Request -> Call]
    BY <1>20, CallRecords, ZenonT(60) DEF CommitFails, End, TablesOK
  <2>3. stranded' \subseteq Identity
    BY <1>20 DEF CommitFails, TablesOK, WholeCalls
  <2> QED BY <1>20, <2>1, <2>2, <2>3 DEF CommitFails, TablesOK
<1>21. ASSUME NEW r \in Request, Compensate(r)
      PROVE  TablesOK'
  BY <1>21, CallRecords DEF Compensate, End, TablesOK, WholeCalls, ghosts, Row, SignsIn, Gone
<1>22. ASSUME NEW r \in Request, CompensationFails(r)
      PROVE  TablesOK'
  BY <1>22, CallRecords, Counted DEF CompensationFails, End, TablesOK, WholeCalls, ghosts, Row
<1>23. ASSUME NEW r \in Request, NEW u \in User, NEW by \in User, DeleteUser(r, u, by)
      PROVE  TablesOK'
  BY <1>23, CallRecords DEF DeleteUser, Begin, TablesOK, WholeCalls, ghosts, Row
<1>24. ASSUME NEW r \in Request, DeleteIdentity(r)
      PROVE  TablesOK'
  BY <1>24, CallRecords DEF DeleteIdentity, TablesOK, WholeCalls, ghosts, Row, SignsIn, Gone
<1>25. ASSUME NEW r \in Request, DeleteIdentityFails(r)
      PROVE  TablesOK'
  BY <1>25, CallRecords, Counted DEF DeleteIdentityFails, TablesOK, WholeCalls, ghosts, Row
<1>26. ASSUME NEW r \in Request, DeleteRow(r)
      PROVE  TablesOK'
  BY <1>26, StaffRecords, LoginRecords, CallRecords DEF DeleteRow, End, TablesOK, WholeCalls, ghosts, Row
<1>27. ASSUME NEW r \in Request, DeleteRowEnds(r)
      PROVE  TablesOK'
  BY <1>27, CallRecords, Counted DEF DeleteRowEnds, End, TablesOK, WholeCalls, ghosts, Row
<1>28. CASE Crash
  BY <1>28, CallRecords, Counted DEF Crash, TablesOK, WholeCalls, ghosts, Row
<1> QED BY <1>1, <1>2, <1>3, <1>5, <1>6, <1>7, <1>8, <1>9, <1>10, <1>11, <1>12, <1>13, <1>14, <1>15, <1>16, <1>17, <1>18, <1>19, <1>20, <1>21, <1>22, <1>23, <1>24, <1>25, <1>26, <1>27, <1>28 DEF Next, Staffing, Administration, Provisioning, Removal

(***************************************************************************)
(* Most handlers leave alone what the other invariants speak of.           *)
(***************************************************************************)
Quiet ==
  /\ UNCHANGED <<identity, req, stranded, halfDone>>
  /\ \A u \in User : /\ user'[u].state = user[u].state
                     /\ user'[u].uid = user[u].uid /\ user'[u].emp = user[u].emp

Begins(r) ==
  /\ req[r] = Idle /\ req'[r].step = "remote"
  /\ \A s \in Request : s # r => req'[s] = req[s]
  /\ UNCHANGED <<employee, user, identity, stranded, halfDone>>

(* The identities, the requests and the fields of users stay as they are.  *)
LEMMA QuietActions ==
  ASSUME TablesOK, Desks,
         \/ Staffing \/ \E r \in Request : StaffUpdate(r)
         \/ \E u, by \in User, a \in BOOLEAN : UpdateUser(u, a, by)
         \/ \E u \in User, n \in Name : UpdateProfile(u, n)
  PROVE  Quiet
<1> USE DEF TablesOK, Login, Quiet, ghosts
<1>1. ASSUME NEW e \in Employee, RestoreEmployee(e) PROVE Quiet
  BY <1>1 DEF RestoreEmployee
<1>2. ASSUME NEW e \in Employee, NEW p \in Person, Hire(e, p) PROVE Quiet
  BY <1>2 DEF Hire
<1>3. ASSUME NEW r \in Request, StaffUpdate(r) PROVE Quiet
  <2>1. CASE StaffCommit(r)
    BY <2>1, StaffWritten
  <2>2. CASE ~StaffCommit(r)
    BY <1>3, <2>2, StaffReads
  <2> QED BY <2>1, <2>2
<1>4. ASSUME NEW u \in User, NEW a \in BOOLEAN, NEW by \in User, UpdateUser(u, a, by)
      PROVE  Quiet
  BY <1>4 DEF UpdateUser
<1>5. ASSUME NEW u \in User, NEW n \in Name, UpdateProfile(u, n) PROVE Quiet
  BY <1>5 DEF UpdateProfile
<1> QED BY <1>1, <1>2, <1>3, <1>4, <1>5 DEF Staffing

LEMMA BeginActions ==
  ASSUME TablesOK, NEW r \in Request,
         \/ \E e \in Employee, n \in Name : CreateAccount(r, e, n)
         \/ \E e \in Employee \cup {None}, n \in Name : LinkNewUser(r, e, n)
         \/ \E u \in User, n \in Name : RegisterWithInvite(r, u, n)
  PROVE  Begins(r)
<1> USE DEF TablesOK, Begin, Begins, ghosts
<1>1. ASSUME NEW e \in Employee, NEW n \in Name, CreateAccount(r, e, n) PROVE Begins(r)
  BY <1>1 DEF CreateAccount, Idle
<1>2. ASSUME NEW e \in Employee \cup {None}, NEW n \in Name, LinkNewUser(r, e, n) PROVE Begins(r)
  BY <1>2 DEF LinkNewUser, Idle
<1>3. ASSUME NEW u \in User, NEW n \in Name, RegisterWithInvite(r, u, n) PROVE Begins(r)
  BY <1>3 DEF RegisterWithInvite, Idle
<1> QED BY <1>1, <1>2, <1>3

(***************************************************************************)
(* The inductive invariant, conjunct by conjunct and action by action.     *)
(***************************************************************************)
(* Every request has what its next step needs.                             *)
LEMMA WholeCallsStep ==
 ASSUME TablesOK, Desks, WholeCalls, Next
 PROVE  WholeCalls'
<1> USE ConstantsAssumption DEF TablesOK, WholeCalls, Call, Login, Idle, NoLogin, Row, Standing, Unused, Gone, ghosts
<1>1. CASE \/ Staffing \/ \E r \in Request : StaffUpdate(r)
           \/ \E u, by \in User, a \in BOOLEAN : UpdateUser(u, a, by)
           \/ \E u \in User, n \in Name : UpdateProfile(u, n)
  <2>1. Quiet
    BY <1>1, QuietActions
  <2> QED BY <2>1 DEF Quiet
<1>2. ASSUME NEW r \in Request, NEW e \in Employee, NEW n \in Name, CreateAccount(r, e, n)
      PROVE  WholeCalls'
  BY <1>2 DEF CreateAccount, Begin
<1>3. ASSUME NEW r \in Request, NEW e \in Employee \cup {None}, NEW n \in Name, LinkNewUser(r, e, n)
      PROVE  WholeCalls'
  BY <1>3 DEF LinkNewUser, Begin
<1>4. ASSUME NEW r \in Request, NEW u \in User, NEW n \in Name, RegisterWithInvite(r, u, n)
      PROVE  WholeCalls'
  BY <1>4 DEF RegisterWithInvite, Begin
<1>5. ASSUME NEW u \in User, NEW n \in Name, NEW e \in Employee \cup {None}, InviteUser(u, n, e)
      PROVE  WholeCalls'
  BY <1>5 DEF InviteUser
<1>6. ASSUME NEW u \in User, NEW n \in Name, ChangeEmail(u, n)
      PROVE  WholeCalls'
  BY <1>6 DEF ChangeEmail, SignsIn
<1>7. ASSUME NEW r \in Request, NEW i \in Identity, RemoteCreates(r, i)
      PROVE  WholeCalls'
  BY <1>7 DEF RemoteCreates
<1>8. ASSUME NEW r \in Request, NEW i \in Identity, RemoteAnswerLost(r, i)
      PROVE  WholeCalls'
  BY <1>8 DEF RemoteAnswerLost, End
<1>9. ASSUME NEW r \in Request, RemoteRefuses(r)
      PROVE  WholeCalls'
  BY <1>9 DEF RemoteRefuses, End
<1>10. ASSUME NEW r \in Request, NEW u \in User, CommitAccount(r, u)
      PROVE  WholeCalls'
  BY <1>10 DEF CommitAccount, End
<1>11. ASSUME NEW r \in Request, NEW u \in User, CommitLogin(r, u)
      PROVE  WholeCalls'
  BY <1>11 DEF CommitLogin, End
<1>12. ASSUME NEW r \in Request, NEW u \in User, CommitUnseen(r, u)
      PROVE  WholeCalls'
  BY <1>12 DEF CommitUnseen
<1>13. ASSUME NEW r \in Request, CommitInvite(r)
      PROVE  WholeCalls'
  BY <1>13 DEF CommitInvite, End
<1>14. ASSUME NEW r \in Request, CommitFails(r)
      PROVE  WholeCalls'
  BY <1>14 DEF CommitFails, End
<1>15. ASSUME NEW r \in Request, Compensate(r)
      PROVE  WholeCalls'
  BY <1>15 DEF Compensate, End
<1>16. ASSUME NEW r \in Request, CompensationFails(r)
      PROVE  WholeCalls'
  BY <1>16 DEF CompensationFails, End
<1>17. ASSUME NEW r \in Request, NEW u \in User, NEW by \in User, DeleteUser(r, u, by)
      PROVE  WholeCalls'
  BY <1>17 DEF DeleteUser, Begin
<1>18. ASSUME NEW r \in Request, DeleteIdentity(r)
      PROVE  WholeCalls'
  BY <1>18 DEF DeleteIdentity
<1>19. ASSUME NEW r \in Request, DeleteIdentityFails(r)
      PROVE  WholeCalls'
  BY <1>19 DEF DeleteIdentityFails
<1>20. ASSUME NEW r \in Request, DeleteRow(r)
      PROVE  WholeCalls'
  BY <1>20 DEF DeleteRow, End
<1>21. ASSUME NEW r \in Request, DeleteRowEnds(r)
      PROVE  WholeCalls'
  BY <1>21 DEF DeleteRowEnds, End
<1>22. CASE Crash
  BY <1>22 DEF Crash
<1> QED BY <1>1, <1>2, <1>3, <1>4, <1>5, <1>6, <1>7, <1>8, <1>9, <1>10, <1>11, <1>12, <1>13, <1>14, <1>15, <1>16, <1>17, <1>18, <1>19, <1>20, <1>21, <1>22 DEF Next, Staffing, Administration, Provisioning, Removal

(* What the commit of an invitation changes. *)
LEMMA InviteWritten ==
  ASSUME TablesOK, WholeCalls, NEW r \in Request, CommitInvite(r)
  PROVE  /\ req[r].step = "commit" /\ req[r].user \in User /\ req[r].uid \in Identity
         /\ Row(req[r].user)
         /\ user' \in [User -> Login]
         /\ user'[req[r].user].state = "row" /\ user'[req[r].user].uid = req[r].uid
         /\ \A v \in User \ {req[r].user} : user'[v] = user[v]
         /\ req'[r].step = "idle" /\ \A s \in Request \ {r} : req'[s] = req[s]
         /\ identity' = identity /\ halfDone' = halfDone
<1>1. /\ req[r].step = "commit" /\ req[r].user \in User /\ req[r].uid \in Identity
      /\ Row(req[r].user) /\ req[r].name \in Name
  BY DEF CommitInvite, WholeCalls
<1>2. user' = [user EXCEPT ![req[r].user] =
                 [user[req[r].user] EXCEPT !.name = req[r].name, !.uid = req[r].uid,
                                           !.active = TRUE, !.invited = FALSE]]
  BY DEF CommitInvite
<1>3. user[req[r].user] \in Login /\ user[req[r].user].state = "row"
  BY <1>1 DEF TablesOK, Row
<1>4. [user[req[r].user] EXCEPT !.name = req[r].name, !.uid = req[r].uid,
                                !.active = TRUE, !.invited = FALSE] \in Login
  BY <1>1, <1>3 DEF Login
<1>5. /\ user' \in [User -> Login]
      /\ \A v \in User \ {req[r].user} : user'[v] = user[v]
      /\ user'[req[r].user].state = "row" /\ user'[req[r].user].uid = req[r].uid
  BY <1>1, <1>2, <1>3, <1>4 DEF TablesOK, Login
<1>6. req'[r].step = "idle" /\ \A s \in Request \ {r} : req'[s] = req[s]
  BY DEF CommitInvite, End, Idle, TablesOK
<1> QED BY <1>1, <1>5, <1>6 DEF CommitInvite

(* No row refers to an identity that was never made, and no two to the same.*)
LEMMA RowUidsStep ==
 ASSUME TablesOK, Desks, WholeCalls, RowUids, CommitUids, Next
 PROVE  RowUids'
<1> USE ConstantsAssumption DEF TablesOK, WholeCalls, RowUids, CommitUids, Call, Login, Idle, NoLogin, Row, Standing, Unused, Gone, ghosts
<1>1. CASE \/ Staffing \/ \E r \in Request : StaffUpdate(r)
           \/ \E u, by \in User, a \in BOOLEAN : UpdateUser(u, a, by)
           \/ \E u \in User, n \in Name : UpdateProfile(u, n)
  <2>1. Quiet
    BY <1>1, QuietActions
  <2> QED BY <2>1 DEF Quiet
<1>2. ASSUME NEW r \in Request,
             \/ \E e \in Employee, n \in Name : CreateAccount(r, e, n)
             \/ \E e \in Employee \cup {None}, n \in Name : LinkNewUser(r, e, n)
             \/ \E u \in User, n \in Name : RegisterWithInvite(r, u, n)
      PROVE  RowUids'
  <2>1. Begins(r)
    BY <1>2, BeginActions
  <2>2. \A s \in Request : req'[s].step # "remote" => s # r /\ req'[s] = req[s]
    BY <2>1 DEF Begins
  <2> QED BY <2>1, <2>2 DEF Begins
<1>3. ASSUME NEW u \in User, NEW n \in Name, NEW e \in Employee \cup {None}, InviteUser(u, n, e)
      PROVE  RowUids'
  BY <1>3 DEF InviteUser
<1>4. ASSUME NEW u \in User, NEW n \in Name, ChangeEmail(u, n)
      PROVE  RowUids'
  BY <1>4 DEF ChangeEmail, SignsIn
<1>5. ASSUME NEW r \in Request, NEW i \in Identity, RemoteCreates(r, i)
      PROVE  RowUids'
  BY <1>5 DEF RemoteCreates
<1>6. ASSUME NEW r \in Request, NEW i \in Identity, RemoteAnswerLost(r, i)
      PROVE  RowUids'
  BY <1>6 DEF RemoteAnswerLost, End
<1>7. ASSUME NEW r \in Request, RemoteRefuses(r)
      PROVE  RowUids'
  BY <1>7 DEF RemoteRefuses, End
<1>8. ASSUME NEW r \in Request, NEW u \in User, CommitAccount(r, u)
      PROVE  RowUids'
  BY <1>8 DEF CommitAccount, End
<1>9. ASSUME NEW r \in Request, NEW u \in User, CommitLogin(r, u)
      PROVE  RowUids'
  BY <1>9 DEF CommitLogin, End
<1>10. ASSUME NEW r \in Request, NEW u \in User, CommitUnseen(r, u)
      PROVE  RowUids'
  BY <1>10 DEF CommitUnseen
<1>11. ASSUME NEW r \in Request, CommitInvite(r)
      PROVE  RowUids'
  <2>1. /\ req[r].step = "commit" /\ req[r].user \in User /\ identity' = identity
        /\ user'[req[r].user].uid = req[r].uid
        /\ \A v \in User \ {req[r].user} : user'[v] = user[v]
    BY <1>11, InviteWritten
  <2>2. Standing(req[r].uid) /\ \A v \in User : Row(v) => user[v].uid # req[r].uid
    BY <2>1
  <2>3. \A v \in User : user'[v].state = "row" /\ user'[v].uid # None =>
          identity'[user'[v].uid] # "unused"
    BY <2>1, <2>2
  <2>4. \A v, x \in User :
          user'[v].state = "row" /\ user'[x].state = "row" /\ user'[v].uid = user'[x].uid
            /\ user'[v].uid # None => v = x
    BY <2>1, <2>2
  <2> QED BY <2>3, <2>4
<1>12. ASSUME NEW r \in Request, CommitFails(r)
      PROVE  RowUids'
  BY <1>12 DEF CommitFails, End
<1>13. ASSUME NEW r \in Request, Compensate(r)
      PROVE  RowUids'
  BY <1>13 DEF Compensate, End
<1>14. ASSUME NEW r \in Request, CompensationFails(r)
      PROVE  RowUids'
  BY <1>14 DEF CompensationFails, End
<1>15. ASSUME NEW r \in Request, NEW u \in User, NEW by \in User, DeleteUser(r, u, by)
      PROVE  RowUids'
  BY <1>15 DEF DeleteUser, Begin
<1>16. ASSUME NEW r \in Request, DeleteIdentity(r)
      PROVE  RowUids'
  BY <1>16 DEF DeleteIdentity
<1>17. ASSUME NEW r \in Request, DeleteIdentityFails(r)
      PROVE  RowUids'
  BY <1>17 DEF DeleteIdentityFails
<1>18. ASSUME NEW r \in Request, DeleteRow(r)
      PROVE  RowUids'
  BY <1>18 DEF DeleteRow, End
<1>19. ASSUME NEW r \in Request, DeleteRowEnds(r)
      PROVE  RowUids'
  BY <1>19 DEF DeleteRowEnds, End
<1>20. CASE Crash
  BY <1>20 DEF Crash
<1> QED BY <1>1, <1>2, <1>3, <1>4, <1>5, <1>6, <1>7, <1>8, <1>9, <1>10, <1>11, <1>12, <1>13, <1>14, <1>15, <1>16, <1>17, <1>18, <1>19, <1>20 DEF Next, Staffing, Administration, Provisioning, Removal

(* The identity a request is about to commit is there and nobody else's.   *)
LEMMA CommitUidsStep ==
 ASSUME TablesOK, Desks, WholeCalls, RowUids, CommitUids, CompensateUids, DeleteUids, Next
 PROVE  CommitUids'
<1> USE ConstantsAssumption DEF TablesOK, WholeCalls, RowUids, CommitUids, CompensateUids, DeleteUids, Call, Login, Idle, NoLogin, Row, Standing, Unused, Gone, ghosts
<1>1. CASE \/ Staffing \/ \E r \in Request : StaffUpdate(r)
           \/ \E u, by \in User, a \in BOOLEAN : UpdateUser(u, a, by)
           \/ \E u \in User, n \in Name : UpdateProfile(u, n)
  <2>1. Quiet
    BY <1>1, QuietActions
  <2> QED BY <2>1 DEF Quiet
<1>2. ASSUME NEW r \in Request,
             \/ \E e \in Employee, n \in Name : CreateAccount(r, e, n)
             \/ \E e \in Employee \cup {None}, n \in Name : LinkNewUser(r, e, n)
             \/ \E u \in User, n \in Name : RegisterWithInvite(r, u, n)
      PROVE  CommitUids'
  <2>1. Begins(r)
    BY <1>2, BeginActions
  <2>2. \A s \in Request : req'[s].step # "remote" => s # r /\ req'[s] = req[s]
    BY <2>1 DEF Begins
  <2> QED BY <2>1, <2>2 DEF Begins
<1>3. ASSUME NEW u \in User, NEW n \in Name, NEW e \in Employee \cup {None}, InviteUser(u, n, e)
      PROVE  CommitUids'
  BY <1>3 DEF InviteUser
<1>4. ASSUME NEW u \in User, NEW n \in Name, ChangeEmail(u, n)
      PROVE  CommitUids'
  BY <1>4 DEF ChangeEmail, SignsIn
<1>5. ASSUME NEW r \in Request, NEW i \in Identity, RemoteCreates(r, i)
      PROVE  CommitUids'
  BY <1>5 DEF RemoteCreates
<1>6. ASSUME NEW r \in Request, NEW i \in Identity, RemoteAnswerLost(r, i)
      PROVE  CommitUids'
  BY <1>6 DEF RemoteAnswerLost, End
<1>7. ASSUME NEW r \in Request, RemoteRefuses(r)
      PROVE  CommitUids'
  BY <1>7 DEF RemoteRefuses, End
<1>8. ASSUME NEW r \in Request, NEW u \in User, CommitAccount(r, u)
      PROVE  CommitUids'
  BY <1>8 DEF CommitAccount, End
<1>9. ASSUME NEW r \in Request, NEW u \in User, CommitLogin(r, u)
      PROVE  CommitUids'
  BY <1>9 DEF CommitLogin, End
<1>10. ASSUME NEW r \in Request, NEW u \in User, CommitUnseen(r, u)
      PROVE  CommitUids'
  BY <1>10 DEF CommitUnseen
<1>11. ASSUME NEW r \in Request, CommitInvite(r)
      PROVE  CommitUids'
  <2>1. ASSUME NEW s \in Request, req'[s].step = "commit"
        PROVE  s # r /\ req'[s] = req[s] /\ req[s].step = "commit" /\ identity' = identity
    BY <1>11, <2>1, InviteWritten
  <2>2. ASSUME NEW s \in Request, req'[s].step = "commit", NEW v \in User, user'[v].state = "row"
        PROVE  user'[v].uid # req'[s].uid
    <3>1. req[r].step = "commit" /\ req[r].uid # req[s].uid
      BY <1>11, <2>1, <2>2, InviteWritten
    <3> QED BY <1>11, <2>1, <2>2, <3>1, InviteWritten
  <2>3. ASSUME NEW s \in Request, req'[s].step = "commit", NEW t \in Request \ {s},
               req'[t].step \in {"commit", "compensate", "deleteRemote"}
        PROVE  req'[t].uid # req'[s].uid
    <3>1. req'[t] = req[t]
      BY <1>11, <2>3, InviteWritten
    <3> QED BY <2>1, <2>3, <3>1
  <2> QED BY <2>1, <2>2, <2>3
<1>12. ASSUME NEW r \in Request, CommitFails(r)
      PROVE  CommitUids'
  <2>1. \A s \in Request : req'[s].step \in {"commit", "deleteRemote", "compensate"} =>
          /\ req[s].step = req'[s].step \/ req[s].step = "commit"
          /\ req'[s].uid = req[s].uid
    BY <1>12, SMTT(60) DEF CommitFails, End
  <2>2. \A s \in Request : req'[s].step = "commit" => req[s].step = "commit"
    BY <1>12 DEF CommitFails, End
  <2> QED BY <1>12, <2>1, <2>2 DEF CommitFails
<1>13. ASSUME NEW r \in Request, Compensate(r)
      PROVE  CommitUids'
  BY <1>13 DEF Compensate, End
<1>14. ASSUME NEW r \in Request, CompensationFails(r)
      PROVE  CommitUids'
  BY <1>14 DEF CompensationFails, End
<1>15. ASSUME NEW r \in Request, NEW u \in User, NEW by \in User, DeleteUser(r, u, by)
      PROVE  CommitUids'
  BY <1>15 DEF DeleteUser, Begin
<1>16. ASSUME NEW r \in Request, DeleteIdentity(r)
      PROVE  CommitUids'
  BY <1>16 DEF DeleteIdentity
<1>17. ASSUME NEW r \in Request, DeleteIdentityFails(r)
      PROVE  CommitUids'
  BY <1>17 DEF DeleteIdentityFails
<1>18. ASSUME NEW r \in Request, DeleteRow(r)
      PROVE  CommitUids'
  BY <1>18 DEF DeleteRow, End
<1>19. ASSUME NEW r \in Request, DeleteRowEnds(r)
      PROVE  CommitUids'
  BY <1>19 DEF DeleteRowEnds, End
<1>20. CASE Crash
  BY <1>20 DEF Crash
<1> QED BY <1>1, <1>2, <1>3, <1>4, <1>5, <1>6, <1>7, <1>8, <1>9, <1>10, <1>11, <1>12, <1>13, <1>14, <1>15, <1>16, <1>17, <1>18, <1>19, <1>20 DEF Next, Staffing, Administration, Provisioning, Removal

(* A compensation takes the identity of no row that was seen to commit.    *)
LEMMA CompensateUidsStep ==
 ASSUME TablesOK, Desks, WholeCalls, RowUids, CommitUids, CompensateUids, Next
 PROVE  CompensateUids'
<1> USE ConstantsAssumption DEF TablesOK, WholeCalls, RowUids, CommitUids, CompensateUids, Call, Login, Idle, NoLogin, Row, Standing, Unused, Gone, ghosts
<1>1. CASE \/ Staffing \/ \E r \in Request : StaffUpdate(r)
           \/ \E u, by \in User, a \in BOOLEAN : UpdateUser(u, a, by)
           \/ \E u \in User, n \in Name : UpdateProfile(u, n)
  <2>1. Quiet
    BY <1>1, QuietActions
  <2> QED BY <2>1 DEF Quiet
<1>2. ASSUME NEW r \in Request,
             \/ \E e \in Employee, n \in Name : CreateAccount(r, e, n)
             \/ \E e \in Employee \cup {None}, n \in Name : LinkNewUser(r, e, n)
             \/ \E u \in User, n \in Name : RegisterWithInvite(r, u, n)
      PROVE  CompensateUids'
  <2>1. Begins(r)
    BY <1>2, BeginActions
  <2>2. \A s \in Request : req'[s].step # "remote" => s # r /\ req'[s] = req[s]
    BY <2>1 DEF Begins
  <2> QED BY <2>1, <2>2 DEF Begins
<1>3. ASSUME NEW u \in User, NEW n \in Name, NEW e \in Employee \cup {None}, InviteUser(u, n, e)
      PROVE  CompensateUids'
  BY <1>3 DEF InviteUser
<1>4. ASSUME NEW u \in User, NEW n \in Name, ChangeEmail(u, n)
      PROVE  CompensateUids'
  BY <1>4 DEF ChangeEmail, SignsIn
<1>5. ASSUME NEW r \in Request, NEW i \in Identity, RemoteCreates(r, i)
      PROVE  CompensateUids'
  BY <1>5 DEF RemoteCreates
<1>6. ASSUME NEW r \in Request, NEW i \in Identity, RemoteAnswerLost(r, i)
      PROVE  CompensateUids'
  BY <1>6 DEF RemoteAnswerLost, End
<1>7. ASSUME NEW r \in Request, RemoteRefuses(r)
      PROVE  CompensateUids'
  BY <1>7 DEF RemoteRefuses, End
<1>8. ASSUME NEW r \in Request, NEW u \in User, CommitAccount(r, u)
      PROVE  CompensateUids'
  BY <1>8 DEF CommitAccount, End
<1>9. ASSUME NEW r \in Request, NEW u \in User, CommitLogin(r, u)
      PROVE  CompensateUids'
  BY <1>9 DEF CommitLogin, End
<1>10. ASSUME NEW r \in Request, NEW u \in User, CommitUnseen(r, u)
      PROVE  CompensateUids'
  BY <1>10 DEF CommitUnseen
<1>11. ASSUME NEW r \in Request, CommitInvite(r)
      PROVE  CompensateUids'
  BY <1>11 DEF CommitInvite, End
<1>12. ASSUME NEW r \in Request, CommitFails(r)
      PROVE  CompensateUids'
  <2>1. \A s \in Request : req'[s].step = "compensate" =>
          /\ req[s].step = req'[s].step \/ s = r
          /\ req'[s].uid = req[s].uid
    BY <1>12 DEF CommitFails, End
  <2>2. req[r].step = "commit" /\ UNCHANGED <<user, identity, halfDone>>
    BY <1>12 DEF CommitFails
  <2> QED BY <2>1, <2>2
<1>13. ASSUME NEW r \in Request, Compensate(r)
      PROVE  CompensateUids'
  BY <1>13 DEF Compensate, End
<1>14. ASSUME NEW r \in Request, CompensationFails(r)
      PROVE  CompensateUids'
  BY <1>14 DEF CompensationFails, End
<1>15. ASSUME NEW r \in Request, NEW u \in User, NEW by \in User, DeleteUser(r, u, by)
      PROVE  CompensateUids'
  BY <1>15 DEF DeleteUser, Begin
<1>16. ASSUME NEW r \in Request, DeleteIdentity(r)
      PROVE  CompensateUids'
  BY <1>16 DEF DeleteIdentity
<1>17. ASSUME NEW r \in Request, DeleteIdentityFails(r)
      PROVE  CompensateUids'
  BY <1>17 DEF DeleteIdentityFails
<1>18. ASSUME NEW r \in Request, DeleteRow(r)
      PROVE  CompensateUids'
  BY <1>18 DEF DeleteRow, End
<1>19. ASSUME NEW r \in Request, DeleteRowEnds(r)
      PROVE  CompensateUids'
  BY <1>19 DEF DeleteRowEnds, End
<1>20. CASE Crash
  BY <1>20 DEF Crash
<1> QED BY <1>1, <1>2, <1>3, <1>4, <1>5, <1>6, <1>7, <1>8, <1>9, <1>10, <1>11, <1>12, <1>13, <1>14, <1>15, <1>16, <1>17, <1>18, <1>19, <1>20 DEF Next, Staffing, Administration, Provisioning, Removal

(* A deletion takes the identity of no other row.                          *)
LEMMA DeleteUidsStep ==
 ASSUME TablesOK, Desks, WholeCalls, RowUids, CommitUids, DeleteUids, Next
 PROVE  DeleteUids'
<1> USE ConstantsAssumption DEF TablesOK, WholeCalls, RowUids, CommitUids, DeleteUids, Call, Login, Idle, NoLogin, Row, Standing, Unused, Gone, ghosts
<1>1. CASE \/ Staffing \/ \E r \in Request : StaffUpdate(r)
           \/ \E u, by \in User, a \in BOOLEAN : UpdateUser(u, a, by)
           \/ \E u \in User, n \in Name : UpdateProfile(u, n)
  <2>1. Quiet
    BY <1>1, QuietActions
  <2> QED BY <2>1 DEF Quiet
<1>2. ASSUME NEW r \in Request,
             \/ \E e \in Employee, n \in Name : CreateAccount(r, e, n)
             \/ \E e \in Employee \cup {None}, n \in Name : LinkNewUser(r, e, n)
             \/ \E u \in User, n \in Name : RegisterWithInvite(r, u, n)
      PROVE  DeleteUids'
  <2>1. Begins(r)
    BY <1>2, BeginActions
  <2>2. \A s \in Request : req'[s].step # "remote" => s # r /\ req'[s] = req[s]
    BY <2>1 DEF Begins
  <2> QED BY <2>1, <2>2 DEF Begins
<1>3. ASSUME NEW u \in User, NEW n \in Name, NEW e \in Employee \cup {None}, InviteUser(u, n, e)
      PROVE  DeleteUids'
  BY <1>3 DEF InviteUser
<1>4. ASSUME NEW u \in User, NEW n \in Name, ChangeEmail(u, n)
      PROVE  DeleteUids'
  BY <1>4 DEF ChangeEmail, SignsIn
<1>5. ASSUME NEW r \in Request, NEW i \in Identity, RemoteCreates(r, i)
      PROVE  DeleteUids'
  BY <1>5 DEF RemoteCreates
<1>6. ASSUME NEW r \in Request, NEW i \in Identity, RemoteAnswerLost(r, i)
      PROVE  DeleteUids'
  BY <1>6 DEF RemoteAnswerLost, End
<1>7. ASSUME NEW r \in Request, RemoteRefuses(r)
      PROVE  DeleteUids'
  BY <1>7 DEF RemoteRefuses, End
<1>8. ASSUME NEW r \in Request, NEW u \in User, CommitAccount(r, u)
      PROVE  DeleteUids'
  BY <1>8 DEF CommitAccount, End
<1>9. ASSUME NEW r \in Request, NEW u \in User, CommitLogin(r, u)
      PROVE  DeleteUids'
  BY <1>9 DEF CommitLogin, End
<1>10. ASSUME NEW r \in Request, NEW u \in User, CommitUnseen(r, u)
      PROVE  DeleteUids'
  BY <1>10 DEF CommitUnseen
<1>11. ASSUME NEW r \in Request, CommitInvite(r)
      PROVE  DeleteUids'
  BY <1>11 DEF CommitInvite, End
<1>12. ASSUME NEW r \in Request, CommitFails(r)
      PROVE  DeleteUids'
  BY <1>12 DEF CommitFails, End
<1>13. ASSUME NEW r \in Request, Compensate(r)
      PROVE  DeleteUids'
  BY <1>13 DEF Compensate, End
<1>14. ASSUME NEW r \in Request, CompensationFails(r)
      PROVE  DeleteUids'
  BY <1>14 DEF CompensationFails, End
<1>15. ASSUME NEW r \in Request, NEW u \in User, NEW by \in User, DeleteUser(r, u, by)
      PROVE  DeleteUids'
  BY <1>15 DEF DeleteUser, Begin
<1>16. ASSUME NEW r \in Request, DeleteIdentity(r)
      PROVE  DeleteUids'
  BY <1>16 DEF DeleteIdentity
<1>17. ASSUME NEW r \in Request, DeleteIdentityFails(r)
      PROVE  DeleteUids'
  BY <1>17 DEF DeleteIdentityFails
<1>18. ASSUME NEW r \in Request, DeleteRow(r)
      PROVE  DeleteUids'
  BY <1>18 DEF DeleteRow, End
<1>19. ASSUME NEW r \in Request, DeleteRowEnds(r)
      PROVE  DeleteUids'
  BY <1>19 DEF DeleteRowEnds, End
<1>20. CASE Crash
  BY <1>20 DEF Crash
<1> QED BY <1>1, <1>2, <1>3, <1>4, <1>5, <1>6, <1>7, <1>8, <1>9, <1>10, <1>11, <1>12, <1>13, <1>14, <1>15, <1>16, <1>17, <1>18, <1>19, <1>20 DEF Next, Staffing, Administration, Provisioning, Removal

(* Both sides of a link are written, and cleared, together.                *)
LEMMA LinksAgreeStep ==
 ASSUME TablesOK, Desks, WholeCalls, LinksAgree, Next
 PROVE  LinksAgree'
<1> USE ConstantsAssumption DEF TablesOK, WholeCalls, LinksAgree, Call, Login, Idle, NoLogin, Row, Standing, Unused, Gone, ghosts
<1>1. ASSUME NEW e \in Employee, RestoreEmployee(e)
      PROVE  LinksAgree'
  <2>1. \A d \in Employee : employee'[d].user = employee[d].user
    BY <1>1 DEF RestoreEmployee, Staff
  <2> QED BY <1>1, <2>1, QuietActions, Fields DEF Quiet, Staffing
<1>2. ASSUME NEW e \in Employee, NEW p \in Person, Hire(e, p)
      PROVE  LinksAgree'
  BY <1>2 DEF Hire, NoStaff, Staff
<1>3. ASSUME NEW r \in Request, StaffUpdate(r)
      PROVE  LinksAgree'
  <2>1. \A d \in Employee : employee'[d].user = employee[d].user
    BY <1>3, StaffWritten, StaffReads
  <2>2. Quiet
    BY <1>3, QuietActions
  <2> QED BY <2>1, <2>2, Fields DEF Quiet
<1>4. CASE \/ \E u, by \in User, a \in BOOLEAN : UpdateUser(u, a, by)
           \/ \E u \in User, n \in Name : UpdateProfile(u, n)
  <2>1. Quiet /\ UNCHANGED employee
    BY <1>4, QuietActions DEF UpdateUser, UpdateProfile
  <2> QED BY <2>1, Fields DEF Quiet
<1>5. ASSUME NEW r \in Request,
             \/ \E e \in Employee, n \in Name : CreateAccount(r, e, n)
             \/ \E e \in Employee \cup {None}, n \in Name : LinkNewUser(r, e, n)
             \/ \E u \in User, n \in Name : RegisterWithInvite(r, u, n)
      PROVE  LinksAgree'
  <2>1. Begins(r)
    BY <1>5, BeginActions
  <2>2. \A s \in Request : req'[s].step # "remote" => s # r /\ req'[s] = req[s]
    BY <2>1 DEF Begins
  <2> QED BY <2>1, <2>2 DEF Begins
<1>6. ASSUME NEW u \in User, NEW n \in Name, NEW e \in Employee \cup {None}, InviteUser(u, n, e)
      PROVE  LinksAgree'
  BY <1>6 DEF InviteUser
<1>7. ASSUME NEW u \in User, NEW n \in Name, ChangeEmail(u, n)
      PROVE  LinksAgree'
  BY <1>7 DEF ChangeEmail, SignsIn
<1>8. ASSUME NEW r \in Request, NEW i \in Identity, RemoteCreates(r, i)
      PROVE  LinksAgree'
  BY <1>8 DEF RemoteCreates
<1>9. ASSUME NEW r \in Request, NEW i \in Identity, RemoteAnswerLost(r, i)
      PROVE  LinksAgree'
  BY <1>9 DEF RemoteAnswerLost, End
<1>10. ASSUME NEW r \in Request, RemoteRefuses(r)
      PROVE  LinksAgree'
  BY <1>10 DEF RemoteRefuses, End
<1>11. ASSUME NEW r \in Request, NEW u \in User, CommitAccount(r, u)
      PROVE  LinksAgree'
  BY <1>11 DEF CommitAccount, End
<1>12. ASSUME NEW r \in Request, NEW u \in User, CommitLogin(r, u)
      PROVE  LinksAgree'
  BY <1>12 DEF CommitLogin, End
<1>13. ASSUME NEW r \in Request, NEW u \in User, CommitUnseen(r, u)
      PROVE  LinksAgree'
  BY <1>13 DEF CommitUnseen
<1>14. ASSUME NEW r \in Request, CommitInvite(r)
      PROVE  LinksAgree'
  <2>1. \A u \in User : user'[u].state = user[u].state /\ user'[u].emp = user[u].emp
    BY <1>14 DEF CommitInvite
  <2>2. UNCHANGED employee
    BY <1>14 DEF CommitInvite
  <2> QED BY <2>1, <2>2, Fields
<1>15. ASSUME NEW r \in Request, CommitFails(r)
      PROVE  LinksAgree'
  BY <1>15 DEF CommitFails, End
<1>16. ASSUME NEW r \in Request, Compensate(r)
      PROVE  LinksAgree'
  BY <1>16 DEF Compensate, End
<1>17. ASSUME NEW r \in Request, CompensationFails(r)
      PROVE  LinksAgree'
  BY <1>17 DEF CompensationFails, End
<1>18. ASSUME NEW r \in Request, NEW u \in User, NEW by \in User, DeleteUser(r, u, by)
      PROVE  LinksAgree'
  BY <1>18 DEF DeleteUser, Begin
<1>19. ASSUME NEW r \in Request, DeleteIdentity(r)
      PROVE  LinksAgree'
  BY <1>19 DEF DeleteIdentity
<1>20. ASSUME NEW r \in Request, DeleteIdentityFails(r)
      PROVE  LinksAgree'
  BY <1>20 DEF DeleteIdentityFails
<1>21. ASSUME NEW r \in Request, DeleteRow(r)
      PROVE  LinksAgree'
  BY <1>21 DEF DeleteRow, End
<1>22. ASSUME NEW r \in Request, DeleteRowEnds(r)
      PROVE  LinksAgree'
  BY <1>22 DEF DeleteRowEnds, End
<1>23. CASE Crash
  BY <1>23 DEF Crash
<1> QED BY <1>1, <1>2, <1>3, <1>4, <1>5, <1>6, <1>7, <1>8, <1>9, <1>10, <1>11, <1>12, <1>13, <1>14, <1>15, <1>16, <1>17, <1>18, <1>19, <1>20, <1>21, <1>22, <1>23, SMTT(60) DEF Next, Staffing, Administration, Provisioning, Removal

(* What loses its owner is stranded.                                       *)
LEMMA IdentitiesAreOwnedStep ==
 ASSUME TablesOK, Desks, WholeCalls, RowUids, IdentitiesAreOwned, Next
 PROVE  IdentitiesAreOwned'
<1> USE ConstantsAssumption DEF TablesOK, WholeCalls, RowUids, IdentitiesAreOwned, Call, Login, Idle, NoLogin, Row, Standing, Unused, Gone, ghosts
<1>1. CASE \/ Staffing \/ \E r \in Request : StaffUpdate(r)
           \/ \E u, by \in User, a \in BOOLEAN : UpdateUser(u, a, by)
           \/ \E u \in User, n \in Name : UpdateProfile(u, n)
  <2>1. Quiet
    BY <1>1, QuietActions
  <2> QED BY <2>1 DEF Quiet
<1>2. ASSUME NEW r \in Request,
             \/ \E e \in Employee, n \in Name : CreateAccount(r, e, n)
             \/ \E e \in Employee \cup {None}, n \in Name : LinkNewUser(r, e, n)
             \/ \E u \in User, n \in Name : RegisterWithInvite(r, u, n)
      PROVE  IdentitiesAreOwned'
  <2>1. Begins(r)
    BY <1>2, BeginActions
  <2>2. \A s \in Request : req'[s].step # "remote" => s # r /\ req'[s] = req[s]
    BY <2>1 DEF Begins
  <2> QED BY <2>1, <2>2, SMTT(60) DEF Begins
<1>3. ASSUME NEW u \in User, NEW n \in Name, NEW e \in Employee \cup {None}, InviteUser(u, n, e)
      PROVE  IdentitiesAreOwned'
  BY <1>3 DEF InviteUser
<1>4. ASSUME NEW u \in User, NEW n \in Name, ChangeEmail(u, n)
      PROVE  IdentitiesAreOwned'
  BY <1>4 DEF ChangeEmail, SignsIn
<1>5. ASSUME NEW r \in Request, NEW i \in Identity, RemoteCreates(r, i)
      PROVE  IdentitiesAreOwned'
  <2>1. \A s \in Request : req[s].step \in {"commit", "compensate"} => s # r /\ req'[s] = req[s]
    BY <1>5 DEF RemoteCreates
  <2>2. req'[r].step = "commit" /\ req'[r].uid = i
    BY <1>5 DEF RemoteCreates
  <2>3. \A j \in Identity \ {i} : identity'[j] = identity[j]
    BY <1>5 DEF RemoteCreates
  <2> QED BY <1>5, <2>1, <2>2, <2>3 DEF RemoteCreates
<1>6. ASSUME NEW r \in Request, NEW i \in Identity, RemoteAnswerLost(r, i)
      PROVE  IdentitiesAreOwned'
  BY <1>6 DEF RemoteAnswerLost, End
<1>7. ASSUME NEW r \in Request, RemoteRefuses(r)
      PROVE  IdentitiesAreOwned'
  BY <1>7 DEF RemoteRefuses, End
<1>8. ASSUME NEW r \in Request, NEW u \in User, CommitAccount(r, u)
      PROVE  IdentitiesAreOwned'
  BY <1>8 DEF CommitAccount, End
<1>9. ASSUME NEW r \in Request, NEW u \in User, CommitLogin(r, u)
      PROVE  IdentitiesAreOwned'
  BY <1>9 DEF CommitLogin, End
<1>10. ASSUME NEW r \in Request, NEW u \in User, CommitUnseen(r, u)
      PROVE  IdentitiesAreOwned'
  BY <1>10 DEF CommitUnseen
<1>11. ASSUME NEW r \in Request, CommitInvite(r)
      PROVE  IdentitiesAreOwned'
  <2>1. \A v \in User \ {req[r].user} : user'[v] = user[v]
    BY <1>11 DEF CommitInvite
  <2>2. user'[req[r].user].state = "row" /\ user'[req[r].user].uid = req[r].uid
    BY <1>11 DEF CommitInvite
  <2>3. \A s \in Request \ {r} : req'[s] = req[s]
    BY <1>11 DEF CommitInvite, End
  <2>4. user[req[r].user].uid \in Identity => user[req[r].user].uid \in stranded'
    BY <1>11 DEF CommitInvite
  <2>5. identity' = identity /\ stranded \subseteq stranded'
    BY <1>11 DEF CommitInvite
  <2>6. ASSUME NEW i \in Identity, Standing(i)
        PROVE  \/ i \in stranded'
               \/ \E u \in User : user'[u].state = "row" /\ user'[u].uid = i
               \/ \E s \in Request : req'[s].step \in {"commit", "compensate"} /\ req'[s].uid = i
    <3>1. CASE i \in stranded
      BY <3>1, <2>5
    <3>2. CASE \E u \in User : Row(u) /\ user[u].uid = i
      BY <3>2, <2>1, <2>4
    <3>3. CASE \E s \in Request : req[s].step \in {"commit", "compensate"} /\ req[s].uid = i
      <4>1. PICK s \in Request : req[s].step \in {"commit", "compensate"} /\ req[s].uid = i
        BY <3>3
      <4>2. req[r].step = "commit" /\ req[r].user \in User
        BY <1>11, InviteWritten
      <4>3. CASE s = r
        BY <2>2, <4>1, <4>2, <4>3
      <4>4. CASE s # r
        BY <2>3, <4>1, <4>4
      <4> QED BY <4>3, <4>4
    <3> QED BY <2>6, <3>1, <3>2, <3>3
  <2> QED BY <2>5, <2>6
<1>12. ASSUME NEW r \in Request, CommitFails(r)
      PROVE  IdentitiesAreOwned'
  BY <1>12 DEF CommitFails, End
<1>13. ASSUME NEW r \in Request, Compensate(r)
      PROVE  IdentitiesAreOwned'
  BY <1>13 DEF Compensate, End
<1>14. ASSUME NEW r \in Request, CompensationFails(r)
      PROVE  IdentitiesAreOwned'
  BY <1>14 DEF CompensationFails, End
<1>15. ASSUME NEW r \in Request, NEW u \in User, NEW by \in User, DeleteUser(r, u, by)
      PROVE  IdentitiesAreOwned'
  BY <1>15 DEF DeleteUser, Begin
<1>16. ASSUME NEW r \in Request, DeleteIdentity(r)
      PROVE  IdentitiesAreOwned'
  BY <1>16 DEF DeleteIdentity
<1>17. ASSUME NEW r \in Request, DeleteIdentityFails(r)
      PROVE  IdentitiesAreOwned'
  BY <1>17 DEF DeleteIdentityFails
<1>18. ASSUME NEW r \in Request, DeleteRow(r)
      PROVE  IdentitiesAreOwned'
  BY <1>18 DEF DeleteRow, End
<1>19. ASSUME NEW r \in Request, DeleteRowEnds(r)
      PROVE  IdentitiesAreOwned'
  BY <1>19 DEF DeleteRowEnds, End
<1>20. CASE Crash
  BY <1>20 DEF Crash
<1> QED BY <1>1, <1>2, <1>3, <1>4, <1>5, <1>6, <1>7, <1>8, <1>9, <1>10, <1>11, <1>12, <1>13, <1>14, <1>15, <1>16, <1>17, <1>18, <1>19, <1>20 DEF Next, Staffing, Administration, Provisioning, Removal

(* What loses its identity is half done.                                   *)
LEMMA RowsHaveIdentitiesStep ==
 ASSUME TablesOK, Desks, WholeCalls, RowUids, CommitUids, CompensateUids, DeleteUids, RowsHaveIdentities, Next
 PROVE  RowsHaveIdentities'
<1> USE ConstantsAssumption DEF TablesOK, WholeCalls, RowUids, CommitUids, CompensateUids, DeleteUids, RowsHaveIdentities, Call, Login, Idle, NoLogin, Row, Standing, Unused, Gone, ghosts
<1>1. CASE \/ Staffing \/ \E r \in Request : StaffUpdate(r)
           \/ \E u, by \in User, a \in BOOLEAN : UpdateUser(u, a, by)
           \/ \E u \in User, n \in Name : UpdateProfile(u, n)
  <2>1. Quiet
    BY <1>1, QuietActions
  <2> QED BY <2>1 DEF Quiet
<1>2. ASSUME NEW r \in Request,
             \/ \E e \in Employee, n \in Name : CreateAccount(r, e, n)
             \/ \E e \in Employee \cup {None}, n \in Name : LinkNewUser(r, e, n)
             \/ \E u \in User, n \in Name : RegisterWithInvite(r, u, n)
      PROVE  RowsHaveIdentities'
  <2>1. Begins(r)
    BY <1>2, BeginActions
  <2>2. \A s \in Request : req'[s].step # "remote" => s # r /\ req'[s] = req[s]
    BY <2>1 DEF Begins
  <2> QED BY <2>1, <2>2 DEF Begins
<1>3. ASSUME NEW u \in User, NEW n \in Name, NEW e \in Employee \cup {None}, InviteUser(u, n, e)
      PROVE  RowsHaveIdentities'
  BY <1>3 DEF InviteUser
<1>4. ASSUME NEW u \in User, NEW n \in Name, ChangeEmail(u, n)
      PROVE  RowsHaveIdentities'
  BY <1>4 DEF ChangeEmail, SignsIn
<1>5. ASSUME NEW r \in Request, NEW i \in Identity, RemoteCreates(r, i)
      PROVE  RowsHaveIdentities'
  BY <1>5 DEF RemoteCreates
<1>6. ASSUME NEW r \in Request, NEW i \in Identity, RemoteAnswerLost(r, i)
      PROVE  RowsHaveIdentities'
  BY <1>6 DEF RemoteAnswerLost, End
<1>7. ASSUME NEW r \in Request, RemoteRefuses(r)
      PROVE  RowsHaveIdentities'
  BY <1>7 DEF RemoteRefuses, End
<1>8. ASSUME NEW r \in Request, NEW u \in User, CommitAccount(r, u)
      PROVE  RowsHaveIdentities'
  BY <1>8 DEF CommitAccount, End
<1>9. ASSUME NEW r \in Request, NEW u \in User, CommitLogin(r, u)
      PROVE  RowsHaveIdentities'
  BY <1>9 DEF CommitLogin, End
<1>10. ASSUME NEW r \in Request, NEW u \in User, CommitUnseen(r, u)
      PROVE  RowsHaveIdentities'
  BY <1>10 DEF CommitUnseen
<1>11. ASSUME NEW r \in Request, CommitInvite(r)
      PROVE  RowsHaveIdentities'
  <2>1. ASSUME NEW v \in User, user'[v].state = "row", user'[v].uid # None,
               identity'[user'[v].uid] = "gone"
        PROVE  v # req[r].user /\ user'[v] = user[v] /\ identity[user[v].uid] = "gone"
    BY <1>11, <2>1, InviteWritten
  <2>2. ASSUME NEW s \in Request, req[s].step = "deleteRow" PROVE req'[s] = req[s]
    BY <1>11, <2>2, InviteWritten
  <2>3. halfDone' = halfDone
    BY <1>11, InviteWritten
  <2> QED BY <2>1, <2>2, <2>3
<1>12. ASSUME NEW r \in Request, CommitFails(r)
      PROVE  RowsHaveIdentities'
  BY <1>12 DEF CommitFails, End
<1>13. ASSUME NEW r \in Request, Compensate(r)
      PROVE  RowsHaveIdentities'
  BY <1>13 DEF Compensate, End
<1>14. ASSUME NEW r \in Request, CompensationFails(r)
      PROVE  RowsHaveIdentities'
  BY <1>14 DEF CompensationFails, End
<1>15. ASSUME NEW r \in Request, NEW u \in User, NEW by \in User, DeleteUser(r, u, by)
      PROVE  RowsHaveIdentities'
  BY <1>15 DEF DeleteUser, Begin
<1>16. ASSUME NEW r \in Request, DeleteIdentity(r)
      PROVE  RowsHaveIdentities'
  BY <1>16 DEF DeleteIdentity
<1>17. ASSUME NEW r \in Request, DeleteIdentityFails(r)
      PROVE  RowsHaveIdentities'
  BY <1>17 DEF DeleteIdentityFails
<1>18. ASSUME NEW r \in Request, DeleteRow(r)
      PROVE  RowsHaveIdentities'
  BY <1>18 DEF DeleteRow, End
<1>19. ASSUME NEW r \in Request, DeleteRowEnds(r)
      PROVE  RowsHaveIdentities'
  BY <1>19 DEF DeleteRowEnds, End
<1>20. CASE Crash
  BY <1>20 DEF Crash
<1> QED BY <1>1, <1>2, <1>3, <1>4, <1>5, <1>6, <1>7, <1>8, <1>9, <1>10, <1>11, <1>12, <1>13, <1>14, <1>15, <1>16, <1>17, <1>18, <1>19, <1>20 DEF Next, Staffing, Administration, Provisioning, Removal

(***************************************************************************)
(* The access of the staff.                                                *)
(***************************************************************************)
(* The requests that update or delete an employee have what they need.     *)
LEMMA DesksStep ==
 ASSUME TablesOK, Desks, Next
 PROVE  Desks'
<1> USE DEF Desks, DesksOK, WholeDesks
<1>1. ASSUME UNCHANGED desk, late' \subseteq User PROVE Desks'
  BY <1>1
<1>2. Latecomers \subseteq User
  BY DEF Latecomers
<1>3. CASE Staffing \/ Administration
  BY <1>1, <1>2, <1>3 DEF Staffing, Administration, RestoreEmployee, Hire, UpdateUser, InviteUser,
     UpdateProfile, ChangeEmail, ghosts
<1>4. CASE Crash
  BY <1>4 DEF Crash, AtRest, StaffCall
<1>5. ASSUME NEW r \in Request, Provisioning(r) \/ Removal(r)
      PROVE  UNCHANGED desk /\ late' \subseteq User
  BY <1>2, <1>5 DEF Provisioning, Removal, CreateAccount, LinkNewUser, RegisterWithInvite, Begin,
     RemoteCreates, RemoteAnswerLost, RemoteRefuses, CommitAccount, CommitLogin, CommitUnseen,
     CommitInvite, CommitFails, Compensate, CompensationFails, DeleteUser, DeleteIdentity,
     DeleteIdentityFails, DeleteRow, DeleteRowEnds, ghosts
<1>6. ASSUME NEW r \in Request, NEW c \in StaffCall, desk' = [desk EXCEPT ![r] = c],
             late' \subseteq User,
             c.step = "idle" => c = AtRest,
             c.step # "idle" => c.emp \in Employee /\ c.how # "none",
             c.step = "look up" => c.user \in User,
             c.how = "delete" => c.by \in User
      PROVE  Desks'
  BY <1>6
<1>7. AtRest \in StaffCall
  BY DEF AtRest, StaffCall
<1>8. ASSUME NEW r \in Request, StaffCommit(r) \/ StaffFails(r) PROVE Desks'
  <2>1. desk' = [desk EXCEPT ![r] = AtRest] /\ late' \subseteq User
    BY <1>2, <1>8 DEF StaffCommit, StaffFails, ghosts
  <2> QED BY <1>6, <1>7, <2>1 DEF AtRest
<1>9. ASSUME NEW r \in Request, SetUserActive(r) PROVE Desks'
  <2> DEFINE c == [desk[r] EXCEPT !.step = "write",
                     !.user = IF user[desk[r].user].active THEN desk[r].user ELSE None]
  <2>1. desk' = [desk EXCEPT ![r] = c] /\ late' \subseteq User
    BY <1>9 DEF SetUserActive, ghosts
  <2>2. c \in StaffCall /\ c.step = "write" /\ c.emp \in Employee /\ c.how = desk[r].how
        /\ c.how # "none" /\ (c.how = "delete" => c.by \in User)
    BY <1>9 DEF SetUserActive, StaffCall
  <2> HIDE DEF c
  <2> QED BY <1>6, <2>1, <2>2
<1>10. ASSUME NEW r \in Request, NEW e \in Employee, NEW by \in User \cup {None},
              NEW how \in {"activate", "deactivate", "block", "delete"},
              NEW login \in User \cup {None}, how = "delete" => by \in User,
              StaffRead(r, e, how, by, login)
       PROVE  Desks'
  <2> DEFINE c == [step |-> IF login = None THEN "write" ELSE "look up",
                   how |-> how, emp |-> e, user |-> login, by |-> by]
  <2>1. desk' = [desk EXCEPT ![r] = c] /\ late' \subseteq User
    BY <1>10 DEF StaffRead, ghosts
  <2>2. /\ c \in StaffCall /\ c.step \in {"write", "look up"} /\ c.emp \in Employee
        /\ c.how # "none" /\ (c.step = "look up" => c.user \in User)
        /\ (c.how = "delete" => c.by \in User)
    BY <1>10 DEF StaffCall
  <2> HIDE DEF c
  <2> QED BY <1>6, <2>1, <2>2
<1>11. ASSUME NEW r \in Request, NEW e \in Employee,
              \/ Activate(r, e) \/ Deactivate(r, e)
              \/ \E by \in User : DeleteEmployee(r, e, by)
       PROVE  Desks'
  <2>1. CASE Activate(r, e)
    BY <1>10, <2>1 DEF Activate
  <2>2. CASE Deactivate(r, e)
    <3>1. PICK how \in {"deactivate", "block"} : StaffRead(r, e, how, None, employee[e].user)
      BY <2>2 DEF Deactivate
    <3>2. employee[e].user \in User \cup {None} /\ how # "delete"
      BY Fields
    <3> HIDE DEF Desks
    <3> QED BY <1>10, <3>1, <3>2
  <2>3. ASSUME NEW by \in User, DeleteEmployee(r, e, by) PROVE Desks'
    <3>1. StaffRead(r, e, "delete", by, employee[e].user)
      BY <2>3 DEF DeleteEmployee
    <3>2. employee[e].user \in User \cup {None}
      BY Fields
    <3> HIDE DEF Desks
    <3> QED BY <1>10, <3>1, <3>2
  <2> QED BY <1>11, <2>1, <2>2, <2>3
<1>12. ASSUME NEW r \in Request, StaffUpdate(r) PROVE Desks'
  BY <1>8, <1>9, <1>11, <1>12 DEF StaffUpdate
<1> HIDE DEF Desks
<1> QED BY <1>1, <1>3, <1>4, <1>5, <1>12 DEF Next

(* What the access of the staff rests on, in one conjunct.                 *)
StaffInv == OnlyRowsAreActive /\ Watched /\ NoAccessLeft

(* A step that leaves the employees alone and lets nobody in.              *)
LEMMA AccessStays ==
  ASSUME TablesOK, Desks, StaffInv, UNCHANGED <<employee, desk, late>>,
         \A u \in User : user'[u].active => user[u].active /\ user'[u].state = user[u].state
  PROVE  StaffInv' /\ NobodyLetIn
BY Fields, ConstantsAssumption DEF Desks, WholeDesks, StaffInv, OnlyRowsAreActive, Watched, NoAccessLeft, NobodyLetIn, Works, Live, Row

(* A step that gives access: whoever it lets in is late if the employee is *)
(* leaving, and nobody's standing changes.                                 *)
LEMMA AccessGiven ==
  ASSUME TablesOK, TablesOK', Desks, LinksAgree', StaffInv, late' = Latecomers, UNCHANGED desk,
         OnlyRowsAreActive',
         \A e \in Employee : /\ Works(e)' = Works(e)
                             /\ \/ employee'[e].user \in {employee[e].user, None}
                                \/ ~user[employee'[e].user].active
  PROVE  StaffInv' /\ NobodyLetIn
<1> USE DEF StaffInv
<1>1. NobodyLetIn
  BY DEF NobodyLetIn
<1>2. ASSUME NEW e \in Employee, NEW u \in User, u = employee'[e].user, user'[u].active,
             ~user[u].active, Leaving(e)
      PROVE  u \in late'
  <2>1. user'[u].emp = e
    BY <1>2, ConstantsAssumption DEF LinksAgree
  <2> QED BY <1>2, <2>1 DEF Latecomers
<1>3. ASSUME NEW u \in User, user'[u].active, user[u].active, u \in late PROVE u \in late'
  BY <1>3 DEF Latecomers
<1>4. Watched'
  <2> SUFFICES ASSUME NEW r \in Request, NEW u \in User,
                      desk[r].step # "idle", desk[r].how # "activate",
                      u = employee'[desk[r].emp].user, user'[u].active
               PROVE  u = desk[r].user \/ u \in late'
    BY DEF Watched
  <2>1. desk[r].emp \in Employee /\ Leaving(desk[r].emp)
    BY DEF Desks, WholeDesks, Leaving
  <2>2. CASE ~user[u].active
    BY <1>2, <2>1, <2>2
  <2>3. CASE user[u].active
    BY <1>3, <2>1, <2>3, ConstantsAssumption DEF Watched
  <2> QED BY <2>2, <2>3
<1>5. NoAccessLeft'
  <2> SUFFICES ASSUME NEW e \in Employee, ~Works(e), employee'[e].user # None,
                      user'[employee'[e].user].active
               PROVE  employee'[e].user \in late'
    BY DEF NoAccessLeft
  <2>1. employee'[e].user \in User /\ Leaving(e)
    BY DEF TablesOK, Staff, Leaving
  <2>2. CASE ~user[employee'[e].user].active
    BY <1>2, <2>1, <2>2
  <2>3. CASE user[employee'[e].user].active
    BY <1>3, <2>1, <2>3 DEF NoAccessLeft
  <2> QED BY <2>2, <2>3
<1> QED BY <1>1, <1>4, <1>5

(* The commit of an update or a deletion blocks the login it has read.     *)
LEMMA AccessTaken ==
  ASSUME TablesOK, Desks, StaffInv, NEW r \in Request, StaffCommit(r)
  PROVE  StaffInv' /\ NobodyLetIn
<1> USE DEF StaffInv
<1>1. /\ \A u \in User : /\ user'[u].state = user[u].state
                         /\ user'[u].active => user[u].active /\ u # desk[r].user
      /\ \A e \in Employee : employee'[e].user = employee[e].user
      /\ \A e \in Employee \ {desk[r].emp} : employee'[e] = employee[e]
  BY StaffWritten
<1>2. late' = Latecomers /\ desk' = [desk EXCEPT ![r] = AtRest] /\ desk[r].step = "write"
  BY DEF StaffCommit
<1>3. \A u \in User : user'[u].active /\ u \in late => u \in late'
  BY <1>1, <1>2 DEF Latecomers
<1>4. NobodyLetIn
  BY <1>1 DEF NobodyLetIn
<1>5. OnlyRowsAreActive'
  BY <1>1 DEF OnlyRowsAreActive, Row
<1>6. Watched'
  <2> SUFFICES ASSUME NEW s \in Request, NEW u \in User,
                      desk'[s].step # "idle", desk'[s].how # "activate",
                      u = employee'[desk'[s].emp].user, user'[u].active
               PROVE  u = desk'[s].user \/ u \in late'
    BY DEF Watched
  <2>1. desk'[s] = desk[s] /\ desk[s].emp \in Employee
    BY <1>2 DEF Desks, DesksOK, WholeDesks, AtRest
  <2> QED BY <1>1, <1>3, <2>1 DEF Watched
<1>7. ASSUME NEW e \in Employee, ~Works(e)', employee'[e].user # None,
             user'[employee'[e].user].active
      PROVE  employee'[e].user \in late'
  <2>1. employee'[e].user \in User /\ employee'[e].user = employee[e].user
    BY <1>1, <1>7, Fields
  <2>2. CASE ~Works(e)
    BY <1>1, <1>3, <1>7, <2>1, <2>2 DEF NoAccessLeft
  <2>3. CASE Works(e) /\ e = desk[r].emp
    <3>1. desk[r].how # "activate"
      <4>1. SUFFICES ASSUME desk[r].how = "activate" PROVE Works(e)'
        BY <1>7
      <4>2. employee'[e] = [employee[e] EXCEPT !.active = TRUE]
        BY <2>3, <4>1 DEF StaffCommit, Written, TablesOK
      <4> QED BY <2>3, <4>2 DEF Works, Live, TablesOK, Staff
    <3> QED BY <1>1, <1>2, <1>3, <1>7, <2>1, <2>3, <3>1 DEF Watched
  <2>4. CASE Works(e) /\ e # desk[r].emp
    BY <1>1, <1>7, <2>4 DEF Works, Live
  <2> QED BY <2>2, <2>3, <2>4
<1>8. NoAccessLeft'
  BY <1>7 DEF NoAccessLeft
<1> QED BY <1>4, <1>5, <1>6, <1>8

(* What a request has read of the employee it takes the access from.       *)
LEMMA AccessRead ==
  ASSUME TablesOK, Desks, StaffInv, NEW r \in Request, StaffUpdate(r), ~StaffCommit(r)
  PROVE  StaffInv' /\ NobodyLetIn
<1> USE DEF StaffInv
<1>1. UNCHANGED <<employee, user, late>>
  BY StaffReads
<1>2. OnlyRowsAreActive' /\ NoAccessLeft' /\ NobodyLetIn
  BY <1>1 DEF OnlyRowsAreActive, NoAccessLeft, NobodyLetIn, Works, Live, Row
<1> DEFINE Read == /\ \A s \in Request \ {r} : desk'[s] = desk[s]
                   /\ \/ desk'[r].step = "idle" \/ desk'[r].how = "activate"
                      \/ desk'[r].user = employee[desk'[r].emp].user
                      \/ /\ desk'[r].emp = desk[r].emp /\ desk'[r].how = desk[r].how
                         /\ desk[r].step # "idle"
                         /\ desk'[r].user = desk[r].user \/ ~user[desk[r].user].active
<1>3. Read
  <2> USE DEF StaffRead, Desks, DesksOK
  <2>1. ASSUME NEW e \in Employee, Activate(r, e) PROVE Read
    BY <2>1 DEF Activate
  <2>2. ASSUME NEW e \in Employee, Deactivate(r, e) PROVE Read
    BY <2>2 DEF Deactivate
  <2>3. ASSUME NEW e \in Employee, NEW by \in User, DeleteEmployee(r, e, by) PROVE Read
    BY <2>3 DEF DeleteEmployee
  <2>4. CASE SetUserActive(r)
    BY <2>4 DEF SetUserActive, StaffCall
  <2>5. CASE StaffFails(r)
    BY <2>5 DEF StaffFails, AtRest
  <2> HIDE DEF Read
  <2> QED BY <2>1, <2>2, <2>3, <2>4, <2>5 DEF StaffUpdate
<1>4. Watched'
  <2> SUFFICES ASSUME NEW s \in Request, NEW u \in User,
                      desk'[s].step # "idle", desk'[s].how # "activate",
                      u = employee[desk'[s].emp].user, user[u].active
               PROVE  u = desk'[s].user \/ u \in late
    BY <1>1 DEF Watched
  <2> QED BY <1>3 DEF Watched
<1> QED BY <1>2, <1>4

(* The access of the staff, action by action.                              *)
LEMMA AccessStep ==
 ASSUME TablesOK, TablesOK', Desks, WholeCalls, LinksAgree, LinksAgree', StaffInv, Next
 PROVE  StaffInv' /\ NobodyLetIn
<1> DEFINE Kept == StaffInv' /\ NobodyLetIn
           Stays == /\ UNCHANGED <<employee, desk, late>>
                    /\ \A u \in User : user'[u].active =>
                         user[u].active /\ user'[u].state = user[u].state
<1> USE DEF ghosts
<1>1. ASSUME NEW e \in Employee, RestoreEmployee(e) \/ \E p \in Person : Hire(e, p)
      PROVE  Kept
  <2>1. /\ UNCHANGED <<user, desk, late>>
        /\ \A d \in Employee : /\ employee'[d].user \in {employee[d].user, None}
                               /\ ~Works(d)' /\ employee'[d].user # None => ~Works(d)
    <3>1. CASE RestoreEmployee(e)
      BY <3>1 DEF RestoreEmployee, TablesOK, Staff, Works, Live
    <3>2. ASSUME NEW p \in Person, Hire(e, p)
          PROVE  /\ UNCHANGED <<user, desk, late>>
                 /\ \A d \in Employee : /\ employee'[d].user \in {employee[d].user, None}
                                        /\ ~Works(d)' /\ employee'[d].user # None => ~Works(d)
      BY <3>2 DEF Hire, TablesOK, Staff, NoStaff, Works, Live
    <3> QED BY <1>1, <3>1, <3>2
  <2>2. NobodyLetIn /\ OnlyRowsAreActive'
    BY <2>1 DEF NobodyLetIn, OnlyRowsAreActive, StaffInv, Row
  <2>3. Watched'
    BY <2>1, ConstantsAssumption DEF Watched, StaffInv, Desks, WholeDesks
  <2>4. NoAccessLeft'
    BY <2>1 DEF NoAccessLeft, StaffInv
  <2> QED BY <2>2, <2>3, <2>4 DEF StaffInv
<1>2. ASSUME Stays PROVE Kept
  BY <1>2, AccessStays
<1>3. ASSUME Crash PROVE Kept
  <2>1. UNCHANGED <<employee, user, late>> /\ \A r \in Request : desk'[r].step = "idle"
    BY <1>3 DEF Crash, AtRest
  <2> QED BY <2>1 DEF StaffInv, OnlyRowsAreActive, Watched, NoAccessLeft, NobodyLetIn, Works, Live, Row
<1>4. ASSUME NEW u \in User, NEW a \in BOOLEAN, NEW by \in User, UpdateUser(u, a, by)
      PROVE  Kept
  <2>1. OnlyRowsAreActive'
    BY <1>4 DEF UpdateUser, StaffInv, OnlyRowsAreActive, Row, TablesOK, Login
  <2> QED BY <1>4, <2>1, AccessGiven DEF UpdateUser, Works, Live
<1>5. ASSUME NEW u \in User,
             \/ \E n \in Name, e \in Employee \cup {None} : InviteUser(u, n, e)
             \/ \E n \in Name : UpdateProfile(u, n) \/ ChangeEmail(u, n)
      PROVE  Stays
  <2>1. ASSUME NEW n \in Name, NEW e \in Employee \cup {None}, InviteUser(u, n, e) PROVE Stays
    BY <2>1 DEF InviteUser, TablesOK, Login, NoLogin
  <2>2. ASSUME NEW n \in Name, UpdateProfile(u, n) PROVE Stays
    BY <2>2 DEF UpdateProfile, TablesOK, Login
  <2>3. ASSUME NEW n \in Name, ChangeEmail(u, n) PROVE Stays
    BY <2>3 DEF ChangeEmail
  <2> HIDE DEF Stays
  <2> QED BY <1>5, <2>1, <2>2, <2>3
<1>6. ASSUME NEW r \in Request,
             \/ \E e \in Employee, n \in Name : CreateAccount(r, e, n)
             \/ \E e \in Employee \cup {None}, n \in Name : LinkNewUser(r, e, n)
             \/ \E u \in User, n \in Name : RegisterWithInvite(r, u, n)
             \/ \E i \in Identity : RemoteCreates(r, i) \/ RemoteAnswerLost(r, i)
             \/ RemoteRefuses(r) \/ CommitFails(r) \/ Compensate(r) \/ CompensationFails(r)
             \/ \E u, by \in User : DeleteUser(r, u, by)
             \/ DeleteIdentity(r) \/ DeleteIdentityFails(r) \/ DeleteRowEnds(r)
      PROVE  Stays
  <2>1. UNCHANGED <<employee, user, desk, late>>
    BY <1>6 DEF CreateAccount, LinkNewUser, RegisterWithInvite, Begin, RemoteCreates,
       RemoteAnswerLost, RemoteRefuses, CommitFails, Compensate, CompensationFails,
       DeleteUser, DeleteIdentity, DeleteIdentityFails, DeleteRowEnds
  <2> QED BY <2>1
<1>7. ASSUME NEW r \in Request, NEW u \in User,
             \/ CommitAccount(r, u) \/ CommitLogin(r, u) \/ CommitUnseen(r, u)
      PROVE  Kept
  <2>1. /\ user[u].state = Unused /\ late' = Latecomers /\ UNCHANGED desk
        /\ \A v \in User \ {u} : user'[v] = user[v]
        /\ user'[u].state = "row"
        /\ \/ UNCHANGED employee
           \/ \E e \in Employee : employee' = [employee EXCEPT ![e].user = u]
    <3>1. /\ user[u].state = Unused /\ late' = Latecomers /\ UNCHANGED desk
          /\ user' = [user EXCEPT ![u] =
               [NoLogin EXCEPT !.state = "row", !.name = req[r].name, !.uid = req[r].uid,
                               !.emp = req[r].emp, !.active = TRUE]]
      BY <1>7 DEF CommitAccount, CommitLogin, CommitUnseen
    <3>2. (\A v \in User \ {u} : user'[v] = user[v]) /\ user'[u].state = "row"
      BY <3>1 DEF TablesOK, NoLogin
    <3>3. \/ UNCHANGED employee
          \/ req[r].emp \in Employee /\ employee' = [employee EXCEPT ![req[r].emp].user = u]
      BY <1>7 DEF CommitAccount, CommitLogin, CommitUnseen, WholeCalls
    <3> QED BY <3>1, <3>2, <3>3
  <2>2. ~user[u].active
    BY <2>1 DEF StaffInv, OnlyRowsAreActive, Row, Unused
  <2>3. OnlyRowsAreActive'
    BY <2>1 DEF StaffInv, OnlyRowsAreActive, Row
  <2>4. \A e \in Employee : /\ Works(e)' = Works(e)
                            /\ employee'[e].user \in {employee[e].user, u}
    BY <2>1 DEF Works, Live, TablesOK, Staff
  <2>5. \A e \in Employee : \/ employee'[e].user \in {employee[e].user, None}
                            \/ ~user[employee'[e].user].active
    BY <2>2, <2>4
  <2> QED BY <2>1, <2>3, <2>4, <2>5, AccessGiven
<1>8. ASSUME NEW r \in Request, CommitInvite(r) PROVE Kept
  <2>1. /\ late' = Latecomers /\ UNCHANGED <<desk, employee>>
        /\ \A v \in User : user'[v].state = user[v].state
        /\ Row(req[r].user) /\ \A v \in User \ {req[r].user} : user'[v] = user[v]
    BY <1>8, InviteWritten DEF CommitInvite, Row
  <2>2. OnlyRowsAreActive'
    BY <2>1 DEF StaffInv, OnlyRowsAreActive, Row
  <2> QED BY <2>1, <2>2, AccessGiven DEF Works, Live
<1>9. ASSUME NEW r \in Request, DeleteRow(r) PROVE Kept
  <2>1. /\ late' = Latecomers /\ UNCHANGED desk
        /\ \A v \in User : user'[v].active => user'[v] = user[v]
        /\ \A e \in Employee : /\ Works(e)' = Works(e)
                               /\ employee'[e].user \in {employee[e].user, None}
    BY <1>9 DEF DeleteRow, NoLogin, Works, Live, TablesOK, Staff
  <2>2. OnlyRowsAreActive'
    BY <2>1 DEF StaffInv, OnlyRowsAreActive, Row
  <2> QED BY <2>1, <2>2, AccessGiven
<1>10. ASSUME NEW r \in Request, StaffUpdate(r) PROVE Kept
  BY <1>10, AccessTaken, AccessRead
<1> HIDE DEF Kept, Stays
<1>11. ASSUME Staffing \/ Administration PROVE Kept
  <2>1. ASSUME Staffing PROVE Kept
    BY <1>1, <2>1 DEF Staffing
  <2>2. ASSUME NEW u \in User, NEW a \in BOOLEAN, NEW by \in User, UpdateUser(u, a, by)
        PROVE  Kept
    BY <1>4, <2>2
  <2>3. ASSUME NEW u \in User,
               \/ \E n \in Name, e \in Employee \cup {None} : InviteUser(u, n, e)
               \/ \E n \in Name : UpdateProfile(u, n) \/ ChangeEmail(u, n)
        PROVE  Kept
    BY <1>2, <1>5, <2>3
  <2> QED BY <1>11, <2>1, <2>2, <2>3 DEF Administration
<1>12. ASSUME NEW r \in Request, Provisioning(r) \/ Removal(r) PROVE Kept
  BY <1>2, <1>6, <1>7, <1>8, <1>9, <1>12 DEF Provisioning, Removal
<1>13. Kept
  BY <1>3, <1>10, <1>11, <1>12 DEF Next, Kept
<1> QED BY <1>13 DEF Kept

(***************************************************************************)
(* The theorems.                                                           *)
(***************************************************************************)
LEMMA Initially == Init => IInv
<1> SUFFICES ASSUME Init PROVE IInv
  OBVIOUS
<1> USE ConstantsAssumption DEF Init
<1>1. TablesOK
  <2>1. NoStaff \in Staff /\ NoLogin \in Login /\ Idle \in Call
    BY DEF NoStaff, NoLogin, Idle, Staff, Login, Call
  <2>2. [NoLogin EXCEPT !.state = "row", !.name = RootName, !.uid = RootUid, !.active = TRUE] \in Login
    BY DEF NoLogin, Login
  <2>3. 0 \in 0 .. MaxEvents
    OBVIOUS
  <2> QED BY <2>1, <2>2, <2>3 DEF TablesOK
<1>2. WholeCalls /\ CommitUids /\ CompensateUids /\ DeleteUids
  BY DEF WholeCalls, CommitUids, CompensateUids, DeleteUids, Idle
<1>3. \A u \in User : Row(u) => u = Root /\ user[u].uid = RootUid
  BY DEF Row, NoLogin, Unused
<1>4. \A i \in Identity : identity[i] # Gone /\ (Standing(i) => i = RootUid)
  BY DEF Standing, Unused, Gone
<1>5. Row(Root) /\ user[Root].uid = RootUid /\ identity[RootUid] # Unused
  BY DEF Row, NoLogin, Unused
<1>6. RowUids /\ IdentitiesAreOwned /\ RowsHaveIdentities
  BY <1>3, <1>4, <1>5 DEF RowUids, IdentitiesAreOwned, RowsHaveIdentities
<1>7. LinksAgree /\ NoAccessLeft
  BY DEF LinksAgree, NoAccessLeft, NoStaff
<1>8. Desks /\ Watched
  BY DEF Desks, DesksOK, WholeDesks, Watched, AtRest, StaffCall
<1>9. OnlyRowsAreActive
  BY DEF OnlyRowsAreActive, Row, NoLogin
<1> QED BY <1>1, <1>2, <1>6, <1>7, <1>8, <1>9 DEF IInv

LEMMA Inductive == IInv /\ [Next]_vars => IInv'
<1>1. ASSUME IInv, Next PROVE IInv'
  <2>1. TablesOK' /\ Desks' /\ LinksAgree'
    BY <1>1, TypeStep, DesksStep, LinksAgreeStep DEF IInv
  <2>2. StaffInv'
    BY <1>1, <2>1, AccessStep DEF IInv, StaffInv
  <2> QED
  BY <1>1, <2>1, <2>2, WholeCallsStep, RowUidsStep, CommitUidsStep, CompensateUidsStep, DeleteUidsStep,
     IdentitiesAreOwnedStep, RowsHaveIdentitiesStep DEF IInv, StaffInv
<1>2. ASSUME IInv, UNCHANGED vars PROVE IInv'
  <2>1. UNCHANGED <<employee, user, identity, req, desk, late, stranded, halfDone, events>>
    BY <1>2 DEF vars
  <2>2. TablesOK' /\ Desks' /\ WholeCalls'
    BY <1>2, <2>1 DEF IInv, TablesOK, Desks, DesksOK, WholeDesks, WholeCalls
  <2>3. OnlyRowsAreActive' /\ Watched' /\ NoAccessLeft'
    BY <1>2, <2>1 DEF IInv, OnlyRowsAreActive, Watched, NoAccessLeft, Works, Live, Row
  <2>4. RowUids' /\ CommitUids' /\ CompensateUids' /\ DeleteUids'
    BY <1>2, <2>1 DEF IInv, RowUids, CommitUids, CompensateUids, DeleteUids, Row, Standing
  <2>5. LinksAgree' /\ IdentitiesAreOwned' /\ RowsHaveIdentities'
    BY <1>2, <2>1 DEF IInv, LinksAgree, IdentitiesAreOwned, RowsHaveIdentities, Row, Standing
  <2> QED BY <2>2, <2>3, <2>4, <2>5 DEF IInv
<1> QED BY <1>1, <1>2

(* The inductive invariant: an identity is held by one row or by one       *)
(* request that is about to write it, and a request that takes an identity *)
(* away takes nobody else's.                                               *)
THEOREM Safety == Spec => []IInv
<1> QED BY Initially, Inductive, PTL DEF Spec

(* The rows of employees and users and the requests are well typed.        *)
THEOREM TypeCorrect == Spec => []TypeOK
<1>1. IInv => TypeOK BY DEF IInv, Desks, DesksOK, TypeOK
<1> QED BY <1>1, Safety, PTL

(* create_account and register_with_invite leave no identity behind that   *)
(* no fault explains.                                                      *)
THEOREM NoIdentityIsLost == Spec => []IdentitiesAreOwned
<1>1. IInv => IdentitiesAreOwned BY DEF IInv
<1> QED BY <1>1, Safety, PTL

(* No compensation and no deletion takes the identity of another row.      *)
THEOREM NoIdentityIsTaken == Spec => []RowsHaveIdentities
<1>1. IInv => RowsHaveIdentities BY DEF IInv
<1> QED BY <1>1, Safety, PTL

(* The provider and the table of users agree but for known faults.         *)
THEOREM IdentitiesMatch == Spec => []IdentitiesMatchRows
<1>1. IInv => IdentitiesMatchRows BY DEF IInv, IdentitiesMatchRows
<1> QED BY <1>1, Safety, PTL

(* The account on an employee's row refers back to the employee.           *)
THEOREM LinksAlwaysAgree == Spec => []LinksAgree
<1>1. IInv => LinksAgree BY DEF IInv
<1> QED BY <1>1, Safety, PTL

(* Nobody has access by the account on the row of an employee who is       *)
(* deleted or not active, but whoever was let in while or after it was     *)
(* taken away; and bringing an employee back lets nobody in.               *)
THEOREM StaffAccess == Spec => AccessFollowsStaff
<1>1. IInv /\ IInv' /\ [Next]_vars => [NoAccessLeft' /\ NobodyLetIn]_vars
  <2>1. ASSUME IInv, IInv', Next PROVE NoAccessLeft' /\ NobodyLetIn
    BY <2>1, AccessStep DEF IInv, StaffInv
  <2> QED BY <2>1 DEF IInv
<1> QED BY <1>1, Safety, PTL DEF Spec, AccessFollowsStaff

(***************************************************************************)
(* The pages.  What they need besides: an e-mail belongs to one identity,  *)
(* an employee's row outlives its accounts, and names and e-mails are the  *)
(* same until something fails or a profile is edited.                      *)
(***************************************************************************)
OneIdentityPerName ==
  \A i, j \in Identity : Standing(i) /\ identity[i] = identity[j] => i = j

EmployeesStay ==
  /\ \A u \in User : Row(u) /\ user[u].emp # None => employee[user[u].emp].there
  /\ \A r \in Request : req[r].emp # None => employee[req[r].emp].there

NamesUntouched ==
  events = 0 =>
    /\ \A u \in User : Row(u) /\ user[u].uid # None /\ Standing(user[u].uid) =>
         identity[user[u].uid] = user[u].name
    /\ \A r \in Request : req[r].step = "commit" => identity[req[r].uid] = req[r].name

(* Supabase refuses an e-mail that another identity has.                   *)
LEMMA OneIdentityPerNameStep ==
 ASSUME TablesOK, Desks, WholeCalls, OneIdentityPerName, Next
 PROVE  OneIdentityPerName'
<1> USE ConstantsAssumption DEF TablesOK, WholeCalls, OneIdentityPerName, Taken, Call, Login, Idle, NoLogin, Row, Standing, Unused, Gone, ghosts
<1>1. CASE \/ Staffing \/ \E r \in Request : StaffUpdate(r)
           \/ \E u, by \in User, a \in BOOLEAN : UpdateUser(u, a, by)
           \/ \E u \in User, n \in Name : UpdateProfile(u, n)
  <2>1. Quiet
    BY <1>1, QuietActions
  <2> QED BY <2>1 DEF Quiet
<1>2. ASSUME NEW r \in Request,
             \/ \E e \in Employee, n \in Name : CreateAccount(r, e, n)
             \/ \E e \in Employee \cup {None}, n \in Name : LinkNewUser(r, e, n)
             \/ \E u \in User, n \in Name : RegisterWithInvite(r, u, n)
      PROVE  OneIdentityPerName'
  <2>1. Begins(r)
    BY <1>2, BeginActions
  <2>2. \A s \in Request : req'[s].step # "remote" => s # r /\ req'[s] = req[s]
    BY <2>1 DEF Begins
  <2> QED BY <2>1, <2>2 DEF Begins
<1>3. ASSUME NEW u \in User, NEW n \in Name, NEW e \in Employee \cup {None}, InviteUser(u, n, e)
      PROVE  OneIdentityPerName'
  BY <1>3 DEF InviteUser
<1>4. ASSUME NEW u \in User, NEW n \in Name, ChangeEmail(u, n)
      PROVE  OneIdentityPerName'
  BY <1>4 DEF ChangeEmail, SignsIn
<1>5. ASSUME NEW r \in Request, NEW i \in Identity, RemoteCreates(r, i)
      PROVE  OneIdentityPerName'
  BY <1>5 DEF RemoteCreates
<1>6. ASSUME NEW r \in Request, NEW i \in Identity, RemoteAnswerLost(r, i)
      PROVE  OneIdentityPerName'
  BY <1>6 DEF RemoteAnswerLost, End
<1>7. ASSUME NEW r \in Request, RemoteRefuses(r)
      PROVE  OneIdentityPerName'
  BY <1>7 DEF RemoteRefuses, End
<1>8. ASSUME NEW r \in Request, NEW u \in User, CommitAccount(r, u)
      PROVE  OneIdentityPerName'
  BY <1>8 DEF CommitAccount, End
<1>9. ASSUME NEW r \in Request, NEW u \in User, CommitLogin(r, u)
      PROVE  OneIdentityPerName'
  BY <1>9 DEF CommitLogin, End
<1>10. ASSUME NEW r \in Request, NEW u \in User, CommitUnseen(r, u)
      PROVE  OneIdentityPerName'
  BY <1>10 DEF CommitUnseen
<1>11. ASSUME NEW r \in Request, CommitInvite(r)
      PROVE  OneIdentityPerName'
  BY <1>11 DEF CommitInvite, End
<1>12. ASSUME NEW r \in Request, CommitFails(r)
      PROVE  OneIdentityPerName'
  BY <1>12 DEF CommitFails, End
<1>13. ASSUME NEW r \in Request, Compensate(r)
      PROVE  OneIdentityPerName'
  BY <1>13 DEF Compensate, End
<1>14. ASSUME NEW r \in Request, CompensationFails(r)
      PROVE  OneIdentityPerName'
  BY <1>14 DEF CompensationFails, End
<1>15. ASSUME NEW r \in Request, NEW u \in User, NEW by \in User, DeleteUser(r, u, by)
      PROVE  OneIdentityPerName'
  BY <1>15 DEF DeleteUser, Begin
<1>16. ASSUME NEW r \in Request, DeleteIdentity(r)
      PROVE  OneIdentityPerName'
  BY <1>16 DEF DeleteIdentity
<1>17. ASSUME NEW r \in Request, DeleteIdentityFails(r)
      PROVE  OneIdentityPerName'
  BY <1>17 DEF DeleteIdentityFails
<1>18. ASSUME NEW r \in Request, DeleteRow(r)
      PROVE  OneIdentityPerName'
  BY <1>18 DEF DeleteRow, End
<1>19. ASSUME NEW r \in Request, DeleteRowEnds(r)
      PROVE  OneIdentityPerName'
  BY <1>19 DEF DeleteRowEnds, End
<1>20. CASE Crash
  BY <1>20 DEF Crash
<1> QED BY <1>1, <1>2, <1>3, <1>4, <1>5, <1>6, <1>7, <1>8, <1>9, <1>10, <1>11, <1>12, <1>13, <1>14, <1>15, <1>16, <1>17, <1>18, <1>19, <1>20 DEF Next, Staffing, Administration, Provisioning, Removal

(* An employee is deleted softly.                                          *)
LEMMA EmployeesStayStep ==
 ASSUME TablesOK, Desks, WholeCalls, EmployeesStay, Next
 PROVE  EmployeesStay'
<1> USE ConstantsAssumption DEF TablesOK, WholeCalls, EmployeesStay, Live, Call, Login, Idle, NoLogin, Row, Standing, Unused, Gone, ghosts
<1>1. CASE \/ Staffing \/ \E r \in Request : StaffUpdate(r)
           \/ \E u, by \in User, a \in BOOLEAN : UpdateUser(u, a, by)
           \/ \E u \in User, n \in Name : UpdateProfile(u, n)
  <2>1. Quiet
    BY <1>1, QuietActions
  <2>2. \A e \in Employee : employee[e].there => employee'[e].there
    <3>1. ASSUME NEW d \in Employee, RestoreEmployee(d) \/ \E p \in Person : Hire(d, p)
          PROVE  \A e \in Employee : employee[e].there => employee'[e].there
      <4>1. CASE RestoreEmployee(d)   BY <4>1 DEF RestoreEmployee, Staff
      <4>2. CASE \E p \in Person : Hire(d, p)   BY <4>2 DEF Hire, Staff, NoStaff
      <4> QED BY <3>1, <4>1, <4>2
    <3>2. ASSUME NEW r \in Request, StaffUpdate(r)
          PROVE  \A e \in Employee : employee[e].there => employee'[e].there
      BY <3>2, StaffWritten, StaffReads
    <3> QED BY <1>1, <3>1, <3>2 DEF Staffing, UpdateUser, UpdateProfile
  <2>3. \A u \in User : user'[u].emp \in Employee \cup {None}
    BY <2>1 DEF Quiet
  <2>4. \A r \in Request : req[r].emp \in Employee \cup {None}
    OBVIOUS
  <2> QED BY <2>1, <2>2, <2>3, <2>4 DEF Quiet
<1>2. ASSUME NEW r \in Request,
             \/ \E e \in Employee, n \in Name : CreateAccount(r, e, n)
             \/ \E e \in Employee \cup {None}, n \in Name : LinkNewUser(r, e, n)
             \/ \E u \in User, n \in Name : RegisterWithInvite(r, u, n)
      PROVE  EmployeesStay'
  <2>1. Begins(r)
    BY <1>2, BeginActions
  <2>2. \A s \in Request \ {r} : req'[s] = req[s]
    BY <2>1 DEF Begins
  <2>3. req'[r].emp # None => employee[req'[r].emp].there
    <3>1. ASSUME NEW e \in Employee, NEW n \in Name, CreateAccount(r, e, n)
          PROVE  req'[r].emp # None => employee[req'[r].emp].there
      BY <3>1 DEF CreateAccount, Begin
    <3>2. ASSUME NEW e \in Employee \cup {None}, NEW n \in Name, LinkNewUser(r, e, n)
          PROVE  req'[r].emp # None => employee[req'[r].emp].there
      BY <3>2 DEF LinkNewUser, Begin
    <3>3. ASSUME NEW u \in User, NEW n \in Name, RegisterWithInvite(r, u, n)
          PROVE  req'[r].emp # None => employee[req'[r].emp].there
      BY <3>3 DEF RegisterWithInvite, Begin
    <3> QED BY <1>2, <3>1, <3>2, <3>3
  <2> QED BY <2>1, <2>2, <2>3 DEF Begins
<1>3. ASSUME NEW u \in User, NEW n \in Name, NEW e \in Employee \cup {None}, InviteUser(u, n, e)
      PROVE  EmployeesStay'
  BY <1>3 DEF InviteUser
<1>4. ASSUME NEW u \in User, NEW n \in Name, ChangeEmail(u, n)
      PROVE  EmployeesStay'
  BY <1>4 DEF ChangeEmail, SignsIn
<1>5. ASSUME NEW r \in Request, NEW i \in Identity, RemoteCreates(r, i)
      PROVE  EmployeesStay'
  BY <1>5 DEF RemoteCreates
<1>6. ASSUME NEW r \in Request, NEW i \in Identity, RemoteAnswerLost(r, i)
      PROVE  EmployeesStay'
  BY <1>6 DEF RemoteAnswerLost, End
<1>7. ASSUME NEW r \in Request, RemoteRefuses(r)
      PROVE  EmployeesStay'
  BY <1>7 DEF RemoteRefuses, End
<1>8. ASSUME NEW r \in Request, NEW u \in User, CommitAccount(r, u)
      PROVE  EmployeesStay'
  BY <1>8 DEF CommitAccount, End
<1>9. ASSUME NEW r \in Request, NEW u \in User, CommitLogin(r, u)
      PROVE  EmployeesStay'
  BY <1>9 DEF CommitLogin, End
<1>10. ASSUME NEW r \in Request, NEW u \in User, CommitUnseen(r, u)
      PROVE  EmployeesStay'
  BY <1>10 DEF CommitUnseen
<1>11. ASSUME NEW r \in Request, CommitInvite(r)
      PROVE  EmployeesStay'
  BY <1>11 DEF CommitInvite, End
<1>12. ASSUME NEW r \in Request, CommitFails(r)
      PROVE  EmployeesStay'
  BY <1>12 DEF CommitFails, End
<1>13. ASSUME NEW r \in Request, Compensate(r)
      PROVE  EmployeesStay'
  BY <1>13 DEF Compensate, End
<1>14. ASSUME NEW r \in Request, CompensationFails(r)
      PROVE  EmployeesStay'
  BY <1>14 DEF CompensationFails, End
<1>15. ASSUME NEW r \in Request, NEW u \in User, NEW by \in User, DeleteUser(r, u, by)
      PROVE  EmployeesStay'
  BY <1>15 DEF DeleteUser, Begin
<1>16. ASSUME NEW r \in Request, DeleteIdentity(r)
      PROVE  EmployeesStay'
  BY <1>16 DEF DeleteIdentity
<1>17. ASSUME NEW r \in Request, DeleteIdentityFails(r)
      PROVE  EmployeesStay'
  BY <1>17 DEF DeleteIdentityFails
<1>18. ASSUME NEW r \in Request, DeleteRow(r)
      PROVE  EmployeesStay'
  BY <1>18 DEF DeleteRow, End
<1>19. ASSUME NEW r \in Request, DeleteRowEnds(r)
      PROVE  EmployeesStay'
  BY <1>19 DEF DeleteRowEnds, End
<1>20. CASE Crash
  BY <1>20 DEF Crash
<1> QED BY <1>1, <1>2, <1>3, <1>4, <1>5, <1>6, <1>7, <1>8, <1>9, <1>10, <1>11, <1>12, <1>13, <1>14, <1>15, <1>16, <1>17, <1>18, <1>19, <1>20 DEF Next, Staffing, Administration, Provisioning, Removal

(* The row and its identity are given one name.                            *)
LEMMA NamesUntouchedStep ==
 ASSUME TablesOK, Desks, WholeCalls, RowUids, CommitUids, NamesUntouched, Next
 PROVE  NamesUntouched'
<1> USE ConstantsAssumption DEF TablesOK, WholeCalls, RowUids, CommitUids, NamesUntouched, Edit, Fault, Call, Login, Idle, NoLogin, Row, Standing, Unused, Gone, ghosts
<1>1. CASE \/ Staffing \/ \E r \in Request : StaffUpdate(r)
           \/ \E u, by \in User, a \in BOOLEAN : UpdateUser(u, a, by)
           \/ \E u \in User, n \in Name : UpdateProfile(u, n)
  <2>1. Quiet
    BY <1>1, QuietActions
  <2>2. events' = 0 => events = 0 /\ \A u \in User : user'[u].name = user[u].name
    <3>1. ASSUME NEW e \in Employee, events' = 0,
                 RestoreEmployee(e) \/ \E p \in Person : Hire(e, p)
          PROVE  events = 0 /\ \A u \in User : user'[u].name = user[u].name
      <4>1. CASE RestoreEmployee(e)   BY <3>1, <4>1 DEF RestoreEmployee
      <4>2. CASE \E p \in Person : Hire(e, p)
        BY <3>1, <4>2, Zenon DEF Hire
      <4> QED BY <3>1, <4>1, <4>2
    <3>4. ASSUME NEW r \in Request, events' = 0, StaffUpdate(r)
          PROVE  events = 0 /\ \A u \in User : user'[u].name = user[u].name
      <4>1. CASE StaffCommit(r)
        BY <3>4, <4>1, StaffWritten
      <4>2. CASE ~StaffCommit(r)
        BY <3>4, <4>2, StaffReads
      <4> QED BY <4>1, <4>2
    <3>2. ASSUME NEW u \in User, NEW by \in User, NEW a \in BOOLEAN, UpdateUser(u, a, by)
          PROVE  events' # 0
      BY <3>2 DEF UpdateUser
    <3>3. ASSUME NEW u \in User, NEW m \in Name, UpdateProfile(u, m)
          PROVE  events' # 0
      BY <3>3 DEF UpdateProfile
    <3> QED BY <1>1, <3>1, <3>2, <3>3, <3>4 DEF Staffing
  <2> QED BY <2>1, <2>2 DEF Quiet
<1>2. ASSUME NEW r \in Request,
             \/ \E e \in Employee, n \in Name : CreateAccount(r, e, n)
             \/ \E e \in Employee \cup {None}, n \in Name : LinkNewUser(r, e, n)
             \/ \E u \in User, n \in Name : RegisterWithInvite(r, u, n)
      PROVE  NamesUntouched'
  <2>1. Begins(r) /\ UNCHANGED events
    BY <1>2, BeginActions DEF CreateAccount, LinkNewUser, RegisterWithInvite, Begin
  <2>2. \A s \in Request : req'[s].step # "remote" => s # r /\ req'[s] = req[s]
    BY <2>1 DEF Begins
  <2> QED BY <2>1, <2>2 DEF Begins
<1>3. ASSUME NEW u \in User, NEW n \in Name, NEW e \in Employee \cup {None}, InviteUser(u, n, e)
      PROVE  NamesUntouched'
  BY <1>3 DEF InviteUser
<1>4. ASSUME NEW u \in User, NEW n \in Name, ChangeEmail(u, n)
      PROVE  NamesUntouched'
  BY <1>4 DEF ChangeEmail, SignsIn
<1>5. ASSUME NEW r \in Request, NEW i \in Identity, RemoteCreates(r, i)
      PROVE  NamesUntouched'
  BY <1>5 DEF RemoteCreates
<1>6. ASSUME NEW r \in Request, NEW i \in Identity, RemoteAnswerLost(r, i)
      PROVE  NamesUntouched'
  BY <1>6 DEF RemoteAnswerLost, End
<1>7. ASSUME NEW r \in Request, RemoteRefuses(r)
      PROVE  NamesUntouched'
  BY <1>7 DEF RemoteRefuses, End
<1>8. ASSUME NEW r \in Request, NEW u \in User, CommitAccount(r, u)
      PROVE  NamesUntouched'
  BY <1>8 DEF CommitAccount, End
<1>9. ASSUME NEW r \in Request, NEW u \in User, CommitLogin(r, u)
      PROVE  NamesUntouched'
  BY <1>9 DEF CommitLogin, End
<1>10. ASSUME NEW r \in Request, NEW u \in User, CommitUnseen(r, u)
      PROVE  NamesUntouched'
  BY <1>10 DEF CommitUnseen
<1>11. ASSUME NEW r \in Request, CommitInvite(r)
      PROVE  NamesUntouched'
  BY <1>11 DEF CommitInvite, End
<1>12. ASSUME NEW r \in Request, CommitFails(r)
      PROVE  NamesUntouched'
  BY <1>12 DEF CommitFails, End
<1>13. ASSUME NEW r \in Request, Compensate(r)
      PROVE  NamesUntouched'
  BY <1>13 DEF Compensate, End
<1>14. ASSUME NEW r \in Request, CompensationFails(r)
      PROVE  NamesUntouched'
  BY <1>14 DEF CompensationFails, End
<1>15. ASSUME NEW r \in Request, NEW u \in User, NEW by \in User, DeleteUser(r, u, by)
      PROVE  NamesUntouched'
  BY <1>15 DEF DeleteUser, Begin
<1>16. ASSUME NEW r \in Request, DeleteIdentity(r)
      PROVE  NamesUntouched'
  BY <1>16 DEF DeleteIdentity
<1>17. ASSUME NEW r \in Request, DeleteIdentityFails(r)
      PROVE  NamesUntouched'
  BY <1>17 DEF DeleteIdentityFails
<1>18. ASSUME NEW r \in Request, DeleteRow(r)
      PROVE  NamesUntouched'
  BY <1>18 DEF DeleteRow, End
<1>19. ASSUME NEW r \in Request, DeleteRowEnds(r)
      PROVE  NamesUntouched'
  BY <1>19 DEF DeleteRowEnds, End
<1>20. CASE Crash
  BY <1>20 DEF Crash
<1> QED BY <1>1, <1>2, <1>3, <1>4, <1>5, <1>6, <1>7, <1>8, <1>9, <1>10, <1>11, <1>12, <1>13, <1>14, <1>15, <1>16, <1>17, <1>18, <1>19, <1>20 DEF Next, Staffing, Administration, Provisioning, Removal

PInv == IInv /\ OneIdentityPerName /\ EmployeesStay /\ NamesUntouched

LEMMA PagesInitially == Init => PInv
<1> SUFFICES ASSUME Init PROVE PInv
  OBVIOUS
<1>1. IInv
  BY Initially
<1>2. /\ \A u \in User : Row(u) => u = Root /\ user[u].uid = RootUid /\ user[u].emp = None
                                  /\ user[u].name = RootName
      /\ identity[RootUid] = RootName /\ \A i \in Identity \ {RootUid} : identity[i] = Unused
      /\ \A r \in Request : req[r].emp = None /\ req[r].step = "idle"
  BY ConstantsAssumption DEF Init, Row, NoLogin, Idle, Unused
<1>3. OneIdentityPerName
  BY <1>2, ConstantsAssumption DEF OneIdentityPerName, Standing
<1>4. EmployeesStay
  BY <1>2 DEF EmployeesStay
<1>5. NamesUntouched
  BY <1>2 DEF NamesUntouched
<1> QED BY <1>1, <1>3, <1>4, <1>5 DEF PInv

LEMMA PagesInductive == PInv /\ [Next]_vars => PInv'
<1> SUFFICES ASSUME PInv, [Next]_vars PROVE PInv'
  OBVIOUS
<1>1. CASE Next
  <2>1. IInv'
    BY <1>1, Inductive DEF PInv
  <2> QED BY <1>1, <2>1, OneIdentityPerNameStep, EmployeesStayStep, NamesUntouchedStep DEF PInv, IInv
<1>2. CASE UNCHANGED vars
  <2>1. IInv'
    BY <1>2, Inductive DEF PInv
  <2> QED BY <1>2, <2>1 DEF PInv, OneIdentityPerName, EmployeesStay, NamesUntouched, Row, Standing, vars
<1> QED BY <1>1, <1>2

(***************************************************************************)
(* From the invariant to the pages.                                        *)
(***************************************************************************)
LEMMA ListsFollow == ASSUME PInv PROVE ListsAgree
<1> USE DEF PInv, IInv, TablesOK, Live
<1>1. \A all \in BOOLEAN : \A e \in DOMAIN ListPaginated(all).items : all \/ GetEmployee(e) = {e}
  BY DEF ListPaginated, ListAll, GetEmployee
<1>2. \A e \in ListActive : GetEmployee(e) = {e} /\ e \in DOMAIN ListPaginated(FALSE).items
  BY DEF ListActive, ListPaginated, ListAll, GetEmployee
<1>3. ASSUME NEW e \in ListAll(FALSE), employee[e].user # None
      PROVE  /\ employee[e].user \in UsersOf(e)
             /\ \E a \in ListAccounts : a.user = employee[e].user /\ a.emp = e
  <2>1. e \in Employee /\ Live(e)
    BY <1>3 DEF ListAll
  <2>2. employee[e].user \in User /\ Row(employee[e].user) /\ user[employee[e].user].emp = e
    BY <1>3, <2>1, Fields DEF LinksAgree
  <2>3. <<employee[e].user, e>> \in AllWithEmployees
    BY <2>1, <2>2 DEF AllWithEmployees
  <2>4. [user |-> employee[e].user, emp |-> e, name |-> user[employee[e].user].name,
         active |-> user[employee[e].user].active] \in ListAccounts
    BY <2>3 DEF ListAccounts
  <2> QED BY <2>2, <2>4 DEF UsersOf
<1>4. ASSUME NEW u \in ListUsers(None), \A a \in ListAccounts : a.user # u
      PROVE  user[u].emp = None \/ user[u].emp \in ListAll(TRUE) \ ListAll(FALSE)
  <2>1. u \in User /\ Row(u)
    BY DEF ListUsers
  <2>2. SUFFICES ASSUME user[u].emp # None PROVE user[u].emp \in ListAll(TRUE) \ ListAll(FALSE)
    OBVIOUS
  <2>3. user[u].emp \in Employee /\ employee[user[u].emp].there
    BY <2>1, <2>2 DEF EmployeesStay, Login
  <2>4. ASSUME <<u, user[u].emp>> \in AllWithEmployees PROVE FALSE
    <3>1. [user |-> u, emp |-> user[u].emp, name |-> user[u].name, active |-> user[u].active]
            \in ListAccounts
      BY <2>4 DEF ListAccounts
    <3> QED BY <1>4, <3>1
  <2>5. ~Live(user[u].emp)
    BY <2>1, <2>3, <2>4 DEF AllWithEmployees
  <2> QED BY <2>3, <2>5 DEF ListAll
<1>5. ASSUME NEW a \in ListAccounts
      PROVE  GetUser(a.user) = {a.user} /\ a.user \in DOMAIN UsersPage(a.active).data
  <2>1. a.user \in User /\ Row(a.user) /\ a.active = user[a.user].active
    BY DEF ListAccounts, AllWithEmployees
  <2> QED BY <2>1 DEF GetUser, UsersPage, ListUsers
<1> QED BY <1>1, <1>2, <1>3, <1>4, <1>5 DEF ListsAgree

LEMMA TokensFields ==
  ASSUME NEW F, NEW K
  PROVE  /\ F # {} => Tokens(F, K).user = K
         /\ Tokens(F, K).user \subseteq K
         /\ F # {} /\ Tokens(F, K).answer = "noLocalIdentity" => K = {}
<1>1. CASE F = {}
  <2>1. Tokens(F, K) = [answer |-> "invalid", user |-> {}]
    BY <1>1 DEF Tokens
  <2> QED BY <1>1, <2>1
<1>2. CASE F # {} /\ K = {}
  <2>1. Tokens(F, K) = [answer |-> "noLocalIdentity", user |-> {}]
    BY <1>2 DEF Tokens
  <2> QED BY <1>2, <2>1
<1>3. CASE F # {} /\ K # {}
  <2>1. Tokens(F, K) = [answer |-> "tokens", user |-> K]
    BY <1>3 DEF Tokens
  <2> QED BY <1>3, <2>1
<1> QED BY <1>1, <1>2, <1>3

(* Of an e-mail there is one identity, and of an identity one row.         *)
LEMMA OneUser ==
  ASSUME PInv, NEW n \in Name, NEW i \in IdentityOf(n)
  PROVE  /\ IdentityOf(n) = {i} /\ i \in Identity /\ Standing(i) /\ identity[i] = n
         /\ UNION {UserByUid(j) : j \in IdentityOf(n)} = UserByUid(i)
         /\ \A u, v \in UserByUid(i) : u = v
<1>1. i \in Identity /\ identity[i] = n /\ Standing(i)
  BY ConstantsAssumption DEF IdentityOf, Standing, Unused, Gone
<1>2. IdentityOf(n) = {i}
  BY <1>1 DEF PInv, OneIdentityPerName, IdentityOf
<1>3. \A u, v \in UserByUid(i) : u = v
  BY <1>1, ConstantsAssumption DEF PInv, IInv, RowUids, UserByUid
<1> QED BY <1>1, <1>2, <1>3

LEMMA SignInsFollow == ASSUME PInv PROVE SignInsAgree
<1> SUFFICES ASSUME NEW n \in Name
             PROVE  /\ \A u, v \in LogIn(n).user : u = v
                    /\ LogIn(n).answer = "noLocalIdentity" =>
                         \A i \in ForgotPassword(n).mailed :
                           \/ i \in stranded
                           \/ \E r \in Request : req[r].step \in {"commit", "compensate"} /\ req[r].uid = i
                    /\ \A i \in IdentityOf(n) : RefreshToken(i) = LogIn(n)
  BY DEF SignInsAgree
<1>1. CASE IdentityOf(n) = {}
  BY <1>1 DEF LogIn, Tokens, ForgotPassword
<1>2. ASSUME NEW i \in IdentityOf(n)
      PROVE  /\ LogIn(n) = Tokens({i}, UserByUid(i)) /\ RefreshToken(i) = LogIn(n)
             /\ \A u, v \in LogIn(n).user : u = v
             /\ LogIn(n).answer = "noLocalIdentity" => UserByUid(i) = {}
  <2>1. LogIn(n) = Tokens({i}, UserByUid(i))
    BY OneUser DEF LogIn
  <2>2. {i} \cap {j \in Identity : Standing(j)} = {i}
    BY OneUser
  <2>3. RefreshToken(i) = LogIn(n)
    BY <2>1, <2>2 DEF RefreshToken
  <2>4. LogIn(n).user \subseteq UserByUid(i)
    BY <2>1, TokensFields
  <2>5. LogIn(n).answer = "noLocalIdentity" => UserByUid(i) = {}
    BY <2>1, TokensFields
  <2> QED BY <2>1, <2>3, <2>4, <2>5, OneUser
<1>3. ASSUME NEW i \in IdentityOf(n), UserByUid(i) = {}
      PROVE  \/ i \in stranded
             \/ \E r \in Request : req[r].step \in {"commit", "compensate"} /\ req[r].uid = i
  <2>1. i \in Identity /\ Standing(i)
    BY OneUser
  <2>2. ~\E u \in User : Row(u) /\ user[u].uid = i
    BY <1>3 DEF UserByUid
  <2> QED BY <2>1, <2>2 DEF PInv, IInv, IdentitiesAreOwned
<1> QED BY <1>1, <1>2, <1>3 DEF ForgotPassword

(* A row's identity that stands signs in the row's user.                   *)
LEMMA RowSignsIn ==
  ASSUME PInv, NEW u \in User, Row(u), user[u].uid # None, Standing(user[u].uid)
  PROVE  /\ identity[user[u].uid] \in Name /\ user[u].uid \in IdentityOf(identity[user[u].uid])
         /\ LogIn(identity[user[u].uid]).user = {u}
<1> DEFINE i == user[u].uid
<1>1. i \in Identity
  BY Fields DEF PInv, IInv
<1>2. identity[i] \in Name /\ i \in IdentityOf(identity[i])
  BY <1>1 DEF PInv, IInv, TablesOK, Standing, IdentityOf
<1>3. u \in UserByUid(i)
  BY DEF UserByUid
<1>4. UserByUid(i) = {u}
  BY <1>2, <1>3, OneUser
<1>5. IdentityOf(identity[i]) = {i}
  BY <1>2, OneUser
<1>6. LogIn(identity[i]) = Tokens({i}, {u})
  BY <1>4, <1>5 DEF LogIn
<1>7. LogIn(identity[i]).user = {u}
  <2>1. {i} # {}
    OBVIOUS
  <2>2. Tokens({i}, {u}).user = {u}
    BY <2>1, TokensFields
  <2> QED BY <1>6, <2>2
<1> QED BY <1>2, <1>7

LEMMA AccountsFollow == ASSUME PInv PROVE AccountsWork
<1> SUFFICES ASSUME NEW u \in User, Row(u), user[u].active,
                    u \notin halfDone, ~\E r \in Request : req[r].step = "deleteRow" /\ req[r].user = u
             PROVE  \/ user[u].uid = None /\ ForceReset(u) = "error"
                    \/ ForceReset(u) = "reset" /\ \E n \in Name : LogIn(n).user = {u}
  BY DEF AccountsWork
<1>1. CASE user[u].uid = None
  BY <1>1 DEF ForceReset
<1>2. CASE user[u].uid # None
  <2>1. Standing(user[u].uid)
    BY <1>2 DEF PInv, IInv, RowUids, RowsHaveIdentities, Standing
  <2>2. ForceReset(u) = "reset"
    BY <1>2, <2>1 DEF ForceReset
  <2> QED BY <1>2, <2>1, <2>2, RowSignsIn
<1> QED BY <1>1, <1>2

LEMMA NamesFollow == ASSUME PInv PROVE NamesAgree
<1> SUFFICES ASSUME events = 0, NEW u \in User, SignsIn(u)
             PROVE  ChangePassword(u) = "changed" /\ LogIn(user[u].name).user = {u}
  BY DEF NamesAgree
<1>1. Row(u) /\ user[u].uid # None /\ Standing(user[u].uid)
  BY DEF SignsIn
<1>2. identity[user[u].uid] = user[u].name
  BY <1>1 DEF PInv, NamesUntouched
<1> QED BY <1>1, <1>2, RowSignsIn DEF ChangePassword

(* What the pages about employees and accounts show and the answers to     *)
(* whoever signs in agree, but for the traces of known faults.             *)
THEOREM PagesAlwaysAgree == Spec => []AccountPagesAgree
<1>1. PInv => AccountPagesAgree
  BY ListsFollow, SignInsFollow, AccountsFollow, NamesFollow DEF AccountPagesAgree, PInv, IInv
<1> QED BY <1>1, PagesInitially, PagesInductive, PTL DEF Spec
=============================================================================
