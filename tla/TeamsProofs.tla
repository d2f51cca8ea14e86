----------------------------- MODULE TeamsProofs -----------------------------
(***************************************************************************)
(* The safety properties of Teams for any number of competitions, teams,   *)
(* students and overlapping requests.                                      *)
(***************************************************************************)
EXTENDS TeamPages, FiniteSetTheorems, TLAPS

(* What a request carries by the time it needs it. *)
WholeRequests ==
  \A q \in Request :
    /\ req[q].step = "register" => req[q].draft \in TeamRow
    /\ req[q].step = "deleteComp" => req[q].comp \in Competition
    /\ req[q].step \notin {"idle", "register", "deleteComp"} => req[q].team \in TeamId

(* Serial ids: a team that has not been given its id has no row. *)
SerialIds == \A t \in TeamId : t > ids => t \notin There

(* Between its two commits a payment has its row, and a request about to    *)
(* queue notices has committed what they tell.                              *)
CarriedIsCommitted ==
  \A q \in Request : \A s \in req[q].who :
    /\ req[q].step = "paid" => <<req[q].team, s>> \in ledger
    /\ req[q].step \in {"registered", "placed"} => <<req[q].team, s>> \in joined
    /\ req[q].step = "placed" => req[q].team \in ranked

MembersJoined == \A t \in TeamId, s \in Student : s \in Roster(t) => <<t, s>> \in joined

IInv ==
  /\ TypeOK /\ WholeRequests /\ SerialIds /\ CarriedIsCommitted /\ MembersJoined
  /\ TeamsHaveCompetitions /\ PaymentsKeepTheirMembers /\ ToldIsTrue

(***************************************************************************)
(* Type correctness.  The requests that are written, then the actions.     *)
(***************************************************************************)
LEMMA NewRecords ==
  /\ Idle \in Req
  /\ \A d \in TeamRow, S \in SUBSET Student, W \in SUBSET Student :
       [Idle EXCEPT !.step = "register", !.draft = d, !.who = S, !.warn = W] \in Req
  /\ \A t \in TeamId, x \in Steps : [Idle EXCEPT !.step = x, !.team = t] \in Req
  /\ \A t \in TeamId, x \in Steps, S \in SUBSET Student :
       /\ [Idle EXCEPT !.step = x, !.team = t, !.who = S] \in Req
       /\ [Idle EXCEPT !.step = x, !.who = S, !.team = t] \in Req
  /\ \A c \in Competition : [Idle EXCEPT !.step = "deleteComp", !.comp = c] \in Req
<1>1. 0 \in 0 .. MaxTeams /\ \A t \in TeamId : t \in 0 .. MaxTeams
  BY ConstantsAssumption DEF TeamId
<1> QED BY <1>1, ZenonT(60) DEF Req, Idle, Steps

LEMMA RequestRecords ==
  ASSUME NEW r \in Req
  PROVE  /\ \A t \in TeamId : [r EXCEPT !.since = @ \cup {t}] \in Req
         /\ \A x \in Steps : [r EXCEPT !.step = x] \in Req
         /\ \A x \in Steps, S \in SUBSET Student : [r EXCEPT !.step = x, !.who = S] \in Req
BY DEF Req

LEMMA Fields ==
  ASSUME TypeOK, NEW q \in Request
  PROVE  /\ req[q] \in Req
         /\ req[q].team \in 0 .. MaxTeams
         /\ req[q].who \in SUBSET Student /\ req[q].warn \in SUBSET Student
         /\ req[q].since \in SUBSET TeamId /\ req[q].draft \in TeamRow \cup {NoTeam}
BY DEF TypeOK, Req

LEMMA Counted == ASSUME TypeOK, Op PROVE ops' \in 0 .. MaxOps
BY ConstantsAssumption DEF TypeOK, Op

LEMMA NextId ==
  ASSUME TypeOK, ids < MaxTeams
  PROVE  ids + 1 \in TeamId /\ ids + 1 \in 0 .. MaxTeams /\ ids + 1 > ids
BY ConstantsAssumption DEF TypeOK, TeamId

(* A request that begins reads the tables and writes none. *)
Begins(q, r) ==
  /\ req' = [req EXCEPT ![q] = r]
  /\ r \in Req
  /\ r.step \in {"register", "place", "remove", "deleteTeam", "pay", "deleteComp"}
  /\ r.step = "register" => r.draft \in TeamRow
  /\ r.step = "deleteComp" => r.comp \in Competition
  /\ r.step \notin {"register", "deleteComp"} => r.team \in TeamId
  /\ ops' \in 0 .. MaxOps
  /\ UNCHANGED <<rows, told, ghost>>

LEMMA AsksBegin ==
  ASSUME TypeOK, NEW q \in Request, Asks(q)
  PROVE  \E r : Begins(q, r)
<1> USE NewRecords, Counted
<1>1. ASSUME NEW d \in TeamRow, NEW S \in SUBSET Student, Register(q, d, S)
      PROVE  \E r : Begins(q, r)
  <2> DEFINE r == [Idle EXCEPT !.step = "register", !.draft = d, !.who = S,
                               !.warn = {s \in S : AlreadyEntered(d, s)}]
  <2>1. r \in Req OBVIOUS
  <2>2. r.step = "register" /\ r.draft = d BY DEF Idle
  <2> HIDE DEF r
  <2>3. req' = [req EXCEPT ![q] = r] BY <1>1 DEF Register, r
  <2> QED BY <1>1, <2>1, <2>2, <2>3 DEF Register, Begins
<1>2. ASSUME NEW t \in TeamId, NEW x \in {"place", "deleteTeam"}, Op,
             req' = [req EXCEPT ![q] = [Idle EXCEPT !.step = x, !.team = t]],
             UNCHANGED <<rows, told, ghost>>
      PROVE  \E r : Begins(q, r)
  <2> DEFINE r == [Idle EXCEPT !.step = x, !.team = t]
  <2>1. r \in Req BY DEF Steps
  <2>2. r.step = x /\ r.team = t BY DEF Idle
  <2>3. req' = [req EXCEPT ![q] = r] BY <1>2
  <2> HIDE DEF r
  <2> QED BY <1>2, <2>1, <2>2, <2>3 DEF Begins
<1>3. ASSUME NEW t \in TeamId, NEW s \in Student, NEW x \in {"remove", "pay"}, Op,
             req' = [req EXCEPT ![q] = [Idle EXCEPT !.step = x, !.team = t, !.who = {s}]],
             UNCHANGED <<rows, told, ghost>>
      PROVE  \E r : Begins(q, r)
  <2> DEFINE r == [Idle EXCEPT !.step = x, !.team = t, !.who = {s}]
  <2>1. r \in Req BY ZenonT(60) DEF Steps
  <2>2. r.step = x /\ r.team = t BY DEF Idle
  <2>3. req' = [req EXCEPT ![q] = r] BY <1>3
  <2> HIDE DEF r
  <2> QED BY <1>3, <2>1, <2>2, <2>3 DEF Begins
<1>4. ASSUME NEW c \in Competition, DeleteCompetition(q, c)
      PROVE  \E r : Begins(q, r)
  <2> DEFINE r == [Idle EXCEPT !.step = "deleteComp", !.comp = c]
  <2>1. r \in Req OBVIOUS
  <2>2. r.step = "deleteComp" /\ r.comp = c BY DEF Idle
  <2> HIDE DEF r
  <2>3. req' = [req EXCEPT ![q] = r] BY <1>4 DEF DeleteCompetition, r
  <2> QED BY <1>4, <2>1, <2>2, <2>3 DEF DeleteCompetition, Begins
<1> QED BY <1>1, <1>2, <1>3, <1>4 DEF Asks, Place, DeleteTeam, Remove, Pay

(* After the insert of team t every request is what it was, but that those *)
(* between their reads and their insert learn of t.                        *)
LEMMA InsertRecords ==
  ASSUME TypeOK, NEW q \in Request, RegisterCommit(q), comp[req[q].draft.comp] = "there"
  PROVE  /\ req' \in [Request -> Req]
         /\ Insert(q, ids + 1)
         /\ req'[q].step = "registered" /\ req'[q].team = ids + 1 /\ req'[q].who = req[q].who
         /\ \A p \in Request \ {q} :
              /\ req'[p].step = req[p].step /\ req'[p].team = req[p].team
              /\ req'[p].who = req[p].who /\ req'[p].draft = req[p].draft
              /\ req'[p].comp = req[p].comp
<1> DEFINE r == [Idle EXCEPT !.step = "registered", !.who = req[q].who, !.team = ids + 1]
<1>1. req' = [Missed(ids + 1) EXCEPT ![q] = r]
  BY DEF RegisterCommit
<1>2. ids + 1 \in TeamId /\ Insert(q, ids + 1)
  BY NextId DEF RegisterCommit
<1>3. r \in Req /\ r.step = "registered" /\ r.team = ids + 1 /\ r.who = req[q].who
  BY <1>2, NewRecords, Fields DEF Steps, Idle
<1>4. ASSUME NEW p \in Request
      PROVE  /\ Missed(ids + 1)[p] \in Req
             /\ Missed(ids + 1)[p].step = req[p].step /\ Missed(ids + 1)[p].team = req[p].team
             /\ Missed(ids + 1)[p].who = req[p].who /\ Missed(ids + 1)[p].draft = req[p].draft
             /\ Missed(ids + 1)[p].comp = req[p].comp
  <2>1. req[p] \in Req
    BY Fields
  <2>2. [req[p] EXCEPT !.since = @ \cup {ids + 1}] \in Req
    BY <2>1, <1>2, RequestRecords
  <2>3. CASE req[p].step = "register"
    <3>1. Missed(ids + 1)[p] = [req[p] EXCEPT !.since = @ \cup {ids + 1}]
      BY <2>3 DEF Missed
    <3> QED BY <3>1, <2>1, <2>2 DEF Req
  <2>4. CASE req[p].step # "register"
    <3>1. Missed(ids + 1)[p] = req[p]
      BY <2>4 DEF Missed
    <3> QED BY <3>1, <2>1
  <2> QED BY <2>3, <2>4
<1>5. Missed(ids + 1) \in [Request -> Req]
  <2>1. Missed(ids + 1) = [p \in Request |-> Missed(ids + 1)[p]]
    BY DEF Missed
  <2> QED BY <2>1, <1>4
<1> HIDE DEF r
<1> QED BY <1>1, <1>2, <1>3, <1>4, <1>5

LEMMA RowTypes ==
  ASSUME TypeOK
  PROVE  /\ \A t \in TeamId : /\ team[t] \in TeamRow \cup {NoTeam}
                              /\ member[t] \in [Student -> {"absent", "unpaid", "paid"}]
         /\ NoMembers \in [Student -> {"absent", "unpaid", "paid"}]
         /\ \A S \in SUBSET Student :
              [s \in Student |-> IF s \in S THEN "unpaid" ELSE "absent"]
                \in [Student -> {"absent", "unpaid", "paid"}]
         /\ \A t \in TeamId, S \in SUBSET Student, x \in {"absent", "paid"} :
              [s \in Student |-> IF s \in S THEN x ELSE member[t][s]]
                \in [Student -> {"absent", "unpaid", "paid"}]
         /\ \A t \in TeamId : Roster(t) \subseteq Student
BY DEF TypeOK, NoMembers, Roster

LEMMA TypeStep ==
  ASSUME TypeOK, WholeRequests, Next
  PROVE  TypeOK'
<1> USE Fields
<1>1. ASSUME NEW q \in Request, Asks(q) PROVE TypeOK'
  <2>1. PICK r : Begins(q, r)
    BY <1>1, AsksBegin
  <2> QED BY <2>1 DEF Begins, TypeOK, rows, ghost
<1>2. ASSUME NEW q \in Request, RegisterCommit(q) PROVE TypeOK'
  <2>1. CASE comp[req[q].draft.comp] = "there"
    <3>1. req' \in [Request -> Req] /\ Insert(q, ids + 1)
      BY <1>2, <2>1, InsertRecords
    <3>2. ids + 1 \in TeamId /\ ids + 1 \in 0 .. MaxTeams
      BY <1>2, NextId DEF RegisterCommit
    <3>3. req[q].draft \in TeamRow
      BY <1>2 DEF RegisterCommit, WholeRequests
    <3>4. UNCHANGED <<told, ops>>
      BY <1>2 DEF RegisterCommit
    <3>5. /\ ids' \in 0 .. MaxTeams
          /\ team' \in [TeamId -> TeamRow \cup {NoTeam}]
          /\ member' \in [TeamId -> [Student -> {"absent", "unpaid", "paid"}]]
      BY <3>1, <3>2, <3>3, RowTypes DEF Insert, TypeOK
    <3>6. joined' \subseteq Pair /\ warned' \subseteq Pair /\ raced' \subseteq TeamId \X TeamId
      BY <3>1, <3>2 DEF Insert, TypeOK, Pair
    <3> QED BY <3>1, <3>4, <3>5, <3>6 DEF Insert, TypeOK
  <2>2. CASE comp[req[q].draft.comp] # "there"
    BY <1>2, <2>2, NewRecords DEF RegisterCommit, Ends, TypeOK, rows, ghost
  <2> QED BY <2>1, <2>2
<1>3. ASSUME NEW q \in Request, NEW what \in {"registered", "placed"}, Notify(q, what) PROVE TypeOK'
  <2>1. told' \subseteq {"registered", "placed"} \X TeamId \X Student
    BY <1>3 DEF Notify, TypeOK, There
  <2> QED BY <1>3, <2>1, NewRecords DEF Notify, Ends, TypeOK, rows, ghost
<1>4. ASSUME NEW q \in Request, PlaceCommit(q) PROVE TypeOK'
  <2>1. CASE req[q].team \in There
    <3>1. req' \in [Request -> Req]
      <4> DEFINE r == [req[q] EXCEPT !.step = "placed", !.who = Roster(req[q].team)]
      <4>1. r \in Req
        BY <2>1, RequestRecords, RowTypes DEF There, Steps
      <4>2. req' = [req EXCEPT ![q] = r]
        BY <1>4, <2>1 DEF PlaceCommit, TypeOK
      <4> HIDE DEF r
      <4> QED BY <4>1, <4>2 DEF TypeOK
    <3>2. ranked' \subseteq TeamId
      BY <1>4, <2>1 DEF PlaceCommit, TypeOK, There
    <3> QED BY <1>4, <3>1, <3>2 DEF PlaceCommit, TypeOK, ghost
  <2>2. CASE req[q].team \notin There
    BY <1>4, <2>2, NewRecords DEF PlaceCommit, Ends, TypeOK, ghost
  <2> QED BY <2>1, <2>2
<1>5. ASSUME NEW q \in Request, RemoveCommit(q) PROVE TypeOK'
  <2> DEFINE f == [s \in Student |-> IF s \in req[q].who THEN "absent" ELSE member[req[q].team][s]]
  <2>1. req[q].team \in TeamId
    BY <1>5 DEF RemoveCommit, WholeRequests
  <2>2. f \in [Student -> {"absent", "unpaid", "paid"}]
    BY <2>1, RowTypes
  <2>3. member' = member \/ member' = [member EXCEPT ![req[q].team] = f]
    BY <1>5, <2>1 DEF RemoveCommit, TypeOK
  <2> HIDE DEF f
  <2>4. member' \in [TeamId -> [Student -> {"absent", "unpaid", "paid"}]]
    BY <2>2, <2>3 DEF TypeOK
  <2> QED BY <1>5, <2>4, NewRecords DEF RemoveCommit, Ends, TypeOK, ghost
<1>6. ASSUME NEW q \in Request, DeleteTeamCommit(q) PROVE TypeOK'
  <2>1. team' \in [TeamId -> TeamRow \cup {NoTeam}]
    BY <1>6 DEF DeleteTeamCommit, TypeOK
  <2>2. member' \in [TeamId -> [Student -> {"absent", "unpaid", "paid"}]]
    <3>1. member' = member \/ member' = [member EXCEPT ![req[q].team] = NoMembers]
      BY <1>6 DEF DeleteTeamCommit
    <3>2. NoMembers \in [Student -> {"absent", "unpaid", "paid"}]
      BY RowTypes
    <3> QED BY <3>1, <3>2 DEF TypeOK
  <2> QED BY <1>6, <2>1, <2>2, NewRecords DEF DeleteTeamCommit, Ends, TypeOK, ghost
<1>7. ASSUME NEW q \in Request, PayReceipt(q) PROVE TypeOK'
  <2>1. CASE req[q].who \subseteq Roster(req[q].team)
    <3>1. req' \in [Request -> Req]
      <4> DEFINE r == [req[q] EXCEPT !.step = "paid"]
      <4>1. r \in Req
        BY RequestRecords DEF Steps
      <4>2. req' = [req EXCEPT ![q] = r]
        BY <1>7, <2>1 DEF PayReceipt, TypeOK
      <4> HIDE DEF r
      <4> QED BY <4>1, <4>2 DEF TypeOK
    <3>2. ledger' \subseteq Pair
      BY <1>7, <2>1 DEF PayReceipt, WholeRequests, TypeOK, Pair
    <3> QED BY <1>7, <3>1, <3>2 DEF PayReceipt, TypeOK, ghost
  <2>2. CASE ~(req[q].who \subseteq Roster(req[q].team))
    BY <1>7, <2>2, NewRecords DEF PayReceipt, Ends, TypeOK, ghost
  <2> QED BY <2>1, <2>2
<1>8. ASSUME NEW q \in Request, RecordPayment(q) PROVE TypeOK'
  <2> DEFINE f == [s \in Student |-> IF s \in req[q].who THEN "paid" ELSE member[req[q].team][s]]
  <2>1. req[q].team \in TeamId
    BY <1>8 DEF RecordPayment, WholeRequests
  <2>2. f \in [Student -> {"absent", "unpaid", "paid"}]
    BY <2>1, RowTypes
  <2>3. member' = [member EXCEPT ![req[q].team] = f]
    BY <1>8, <2>1 DEF RecordPayment, TypeOK
  <2> HIDE DEF f
  <2>4. member' \in [TeamId -> [Student -> {"absent", "unpaid", "paid"}]]
    BY <2>2, <2>3 DEF TypeOK
  <2> QED BY <1>8, <2>4, NewRecords DEF RecordPayment, Ends, TypeOK, ghost
<1>9. ASSUME NEW q \in Request, DeleteCompetitionCommit(q) PROVE TypeOK'
  BY <1>9, NewRecords DEF DeleteCompetitionCommit, Ends, TypeOK, ghost
<1>10. ASSUME NEW t \in TeamId, NEW s \in Student, Refund(t, s) PROVE TypeOK'
  <2>1. [member[t] EXCEPT ![s] = "unpaid"] \in [Student -> {"absent", "unpaid", "paid"}]
    BY RowTypes
  <2>2. member' = [member EXCEPT ![t] = [member[t] EXCEPT ![s] = "unpaid"]]
    BY <1>10 DEF Refund, TypeOK
  <2> QED BY <1>10, <2>1, <2>2, Counted DEF Refund, TypeOK, ghost
<1>11. ASSUME NEW t \in TeamId, NEW d \in TeamRow, UpdateTeam(t, d) PROVE TypeOK'
  BY <1>11, Counted DEF UpdateTeam, TypeOK
<1>12. ASSUME NEW c \in Competition, CreateCompetition(c) PROVE TypeOK'
  BY <1>12, Counted DEF CreateCompetition, TypeOK, ghost
<1>13. ASSUME NEW c \in Competition, NEW p \in {"before", "open", "closed"}, MoveDate(c, p) PROVE TypeOK'
  BY <1>13, Counted DEF MoveDate, TypeOK, ghost
<1>14. ASSUME NEW s \in Student, SetStatus(s) PROVE TypeOK'
  BY <1>14, Counted DEF SetStatus, TypeOK, ghost
<1>15. ASSUME Crash PROVE TypeOK'
  BY <1>15, NewRecords DEF Crash, TypeOK, rows, ghost
<1>16. ASSUME NEW q \in Request, Goes(q) PROVE TypeOK'
  BY <1>2, <1>3, <1>4, <1>5, <1>6, <1>7, <1>8, <1>9, <1>16 DEF Goes, RegisterNotify, PlaceNotify
<1>17. ASSUME Edits PROVE TypeOK'
  BY <1>10, <1>11, <1>12, <1>13, <1>14, <1>17 DEF Edits
<1> QED BY <1>1, <1>15, <1>16, <1>17 DEF Next

(***************************************************************************)
(* What requests carry.                                                    *)
(***************************************************************************)

(* A step that only ends request q, or leaves all requests alone. *)
Quiet == \A q \in Request : req'[q] = req[q] \/ req'[q].step = "idle"

LEMMA QuietSteps ==
  ASSUME TypeOK,
         (\E q \in Request : Ends(q)) \/ req' = req \/ Crash
  PROVE  Quiet
BY DEF TypeOK, Ends, Crash, Quiet, Idle

LEMMA CarriedStep ==
  ASSUME TypeOK, TypeOK', WholeRequests, SerialIds, CarriedIsCommitted, MembersJoined,
         PaymentsKeepTheirMembers, Next
  PROVE  WholeRequests' /\ SerialIds' /\ CarriedIsCommitted' /\ MembersJoined'
<1> DEFINE Carried == WholeRequests' /\ CarriedIsCommitted'
           Joined  == SerialIds' /\ MembersJoined'
<1>1. ASSUME Quiet, ledger \subseteq ledger', joined \subseteq joined', ranked \subseteq ranked'
      PROVE  Carried
  BY <1>1 DEF Quiet, WholeRequests, CarriedIsCommitted
<1>2. ASSUME UNCHANGED <<ids, team, member, joined>>
      PROVE  Joined
  BY <1>2 DEF SerialIds, MembersJoined, There, Roster
<1>3. ASSUME NEW q \in Request, Asks(q) PROVE Carried /\ Joined
  <2>1. PICK r : Begins(q, r)
    BY <1>3, AsksBegin
  <2>2. WholeRequests'
    BY <2>1 DEF Begins, WholeRequests, TypeOK
  <2>3. CarriedIsCommitted'
    BY <2>1 DEF Begins, CarriedIsCommitted, TypeOK, rows, ghost
  <2>4. Joined
    BY <1>2, <2>1 DEF Begins, rows, ghost
  <2> QED BY <2>2, <2>3, <2>4
<1>4. ASSUME NEW q \in Request, RegisterCommit(q) PROVE Carried /\ Joined
  <2>1. CASE comp[req[q].draft.comp] = "there"
    <3> DEFINE t == ids + 1
    <3>1. /\ Insert(q, t) /\ t \in TeamId /\ t > ids
          /\ req'[q].step = "registered" /\ req'[q].team = t /\ req'[q].who = req[q].who
          /\ \A p \in Request \ {q} :
              /\ req'[p].step = req[p].step /\ req'[p].team = req[p].team
              /\ req'[p].who = req[p].who /\ req'[p].draft = req[p].draft
              /\ req'[p].comp = req[p].comp
      BY <1>4, <2>1, InsertRecords, NextId DEF RegisterCommit
    <3>2. ids \in Nat
      BY ConstantsAssumption DEF TypeOK
    <3>3. req[q].who \subseteq Student
      BY Fields
    <3>4. /\ ids' = t /\ team' = [team EXCEPT ![t] = req[q].draft]
          /\ member' = [member EXCEPT ![t] = [s \in Student |-> IF s \in req[q].who THEN "unpaid" ELSE "absent"]]
          /\ joined' = joined \cup ({t} \X req[q].who)
          /\ UNCHANGED <<ledger, ranked>>
      BY <3>1 DEF Insert
    <3>5. SerialIds'
      <4>1. ASSUME NEW u \in TeamId, u > ids' PROVE team'[u] = NoTeam
        <5>1. u # t /\ u > ids
          BY <4>1, <3>2, <3>4 DEF TypeOK, TeamId
        <5>2. team[u] = NoTeam
          BY <5>1 DEF SerialIds, There
        <5> QED BY <5>1, <5>2, <3>4 DEF TypeOK
      <4> QED BY <4>1 DEF SerialIds, There
    <3> HIDE DEF t
    <3>6. WholeRequests'
      BY <3>1 DEF WholeRequests
    <3>7. CarriedIsCommitted'
      BY <3>1, <3>4 DEF CarriedIsCommitted
    <3>8. MembersJoined'
      BY <3>1, <3>3, <3>4 DEF MembersJoined, Roster, TypeOK
    <3> QED BY <3>5, <3>6, <3>7, <3>8
  <2>2. CASE comp[req[q].draft.comp] # "there"
    <3>1. Ends(q) /\ UNCHANGED <<rows, ghost>>
      BY <1>4, <2>2 DEF RegisterCommit
    <3> QED BY <3>1, <1>1, <1>2, QuietSteps DEF rows, ghost
  <2> QED BY <2>1, <2>2
<1>5. ASSUME NEW q \in Request, NEW what, Notify(q, what) PROVE Carried /\ Joined
  BY <1>5, <1>1, <1>2, QuietSteps DEF Notify, rows, ghost
<1>6. ASSUME NEW q \in Request, PlaceCommit(q) PROVE Carried /\ Joined
  <2>1. Joined
    BY <1>6, <1>2 DEF PlaceCommit, ghost
  <2>2. CASE req[q].team \in There
    <3>1. /\ req'[q].step = "placed" /\ req'[q].who = Roster(req[q].team) /\ req'[q].team = req[q].team
          /\ \A p \in Request \ {q} : req'[p] = req[p]
          /\ ranked' = ranked \cup {req[q].team}
          /\ UNCHANGED <<ledger, joined>>
      BY <1>6, <2>2, Fields DEF PlaceCommit, TypeOK, Req, ghost
    <3>2. req[q].team \in TeamId /\ \A s \in Roster(req[q].team) : <<req[q].team, s>> \in joined
      BY <2>2 DEF There, MembersJoined, Roster
    <3>3. WholeRequests'
      BY <3>1, <3>2 DEF WholeRequests
    <3>4. CarriedIsCommitted'
      BY <3>1, <3>2 DEF CarriedIsCommitted
    <3> QED BY <2>1, <3>3, <3>4
  <2>3. CASE req[q].team \notin There
    <3>1. Ends(q) /\ UNCHANGED <<ledger, joined, ranked>>
      BY <1>6, <2>3 DEF PlaceCommit, ghost
    <3> QED BY <2>1, <3>1, <1>1, QuietSteps
  <2> QED BY <2>2, <2>3
<1>7. ASSUME NEW q \in Request, RemoveCommit(q) PROVE Carried /\ Joined
  <2>1. Carried
    BY <1>7, <1>1, QuietSteps DEF RemoveCommit, ghost
  <2>2. \A t \in TeamId, s \in Student : s \in Roster(t)' => s \in Roster(t)
    BY <1>7 DEF RemoveCommit, Roster, TypeOK
  <2>3. UNCHANGED <<ids, team, joined>>
    BY <1>7 DEF RemoveCommit, ghost
  <2> QED BY <2>1, <2>2, <2>3 DEF SerialIds, MembersJoined, There
<1>8. ASSUME NEW q \in Request, DeleteTeamCommit(q) PROVE Carried /\ Joined
  <2>1. Carried
    BY <1>8, <1>1, QuietSteps DEF DeleteTeamCommit, ghost
  <2>2. \A t \in TeamId, s \in Student : s \in Roster(t)' => s \in Roster(t)
    BY <1>8 DEF DeleteTeamCommit, Roster, NoMembers, TypeOK
  <2>3. \A t \in TeamId : t \in There' => t \in There
    BY <1>8 DEF DeleteTeamCommit, There, TypeOK
  <2>4. UNCHANGED <<ids, joined>>
    BY <1>8 DEF DeleteTeamCommit, ghost
  <2> QED BY <2>1, <2>2, <2>3, <2>4 DEF SerialIds, MembersJoined
<1>9. ASSUME NEW q \in Request, PayReceipt(q) PROVE Carried /\ Joined
  <2>1. Joined
    BY <1>9, <1>2 DEF PayReceipt, ghost
  <2>2. CASE req[q].who \subseteq Roster(req[q].team)
    <3>1. /\ req'[q].step = "paid" /\ req'[q].who = req[q].who /\ req'[q].team = req[q].team
          /\ \A p \in Request \ {q} : req'[p] = req[p]
          /\ ledger' = ledger \cup ({req[q].team} \X req[q].who)
          /\ req[q].step = "pay"
          /\ UNCHANGED <<ranked, joined>>
      BY <1>9, <2>2, Fields DEF PayReceipt, TypeOK, Req, ghost
    <3>2. WholeRequests'
      BY <3>1 DEF WholeRequests
    <3>3. CarriedIsCommitted'
      BY <3>1 DEF CarriedIsCommitted
    <3> QED BY <2>1, <3>2, <3>3
  <2>3. CASE ~(req[q].who \subseteq Roster(req[q].team))
    <3>1. Ends(q) /\ UNCHANGED <<ledger, joined, ranked>>
      BY <1>9, <2>3 DEF PayReceipt, ghost
    <3> QED BY <2>1, <3>1, <1>1, QuietSteps
  <2> QED BY <2>2, <2>3
<1>10. ASSUME NEW q \in Request, RecordPayment(q) PROVE Carried /\ Joined
  <2>1. Carried
    BY <1>10, <1>1, QuietSteps DEF RecordPayment, ghost
  <2>2. \A t \in TeamId, s \in Student : s \in Roster(t)' => s \in Roster(t)
    BY <1>10, Fields DEF RecordPayment, Roster, TypeOK, CarriedIsCommitted, PaymentsKeepTheirMembers
  <2>3. UNCHANGED <<ids, team, joined>>
    BY <1>10 DEF RecordPayment, ghost
  <2> QED BY <2>1, <2>2, <2>3 DEF SerialIds, MembersJoined, There
<1>11. ASSUME NEW q \in Request, DeleteCompetitionCommit(q) PROVE Carried /\ Joined
  BY <1>11, <1>1, <1>2, QuietSteps DEF DeleteCompetitionCommit, ghost
<1>12. ASSUME NEW t \in TeamId, NEW s \in Student, Refund(t, s) PROVE Carried /\ Joined
  <2>1. Carried
    BY <1>12, <1>1, QuietSteps DEF Refund, ghost
  <2>2. \A u \in TeamId, x \in Student : x \in Roster(u)' => x \in Roster(u)
    BY <1>12 DEF Refund, Roster, TypeOK
  <2>3. UNCHANGED <<ids, team, joined>>
    BY <1>12 DEF Refund, ghost
  <2> QED BY <2>1, <2>2, <2>3 DEF SerialIds, MembersJoined, There
<1>13. ASSUME NEW t \in TeamId, NEW d \in TeamRow, UpdateTeam(t, d) PROVE Carried /\ Joined
  <2>1. Carried
    BY <1>13, <1>1, QuietSteps DEF UpdateTeam
  <2>2. UNCHANGED <<ids, member, joined>> /\ \A u \in TeamId : u \in There' => u \in There
    BY <1>13 DEF UpdateTeam, There, TypeOK
  <2> QED BY <2>1, <2>2 DEF SerialIds, MembersJoined, Roster
<1>14. ASSUME NEW c \in Competition, CreateCompetition(c) PROVE Carried /\ Joined
  BY <1>14, <1>1, <1>2, QuietSteps DEF CreateCompetition, ghost
<1>15. ASSUME NEW c \in Competition, NEW p, MoveDate(c, p) PROVE Carried /\ Joined
  BY <1>15, <1>1, <1>2, QuietSteps DEF MoveDate, ghost
<1>16. ASSUME NEW s \in Student, SetStatus(s) PROVE Carried /\ Joined
  BY <1>16, <1>1, <1>2, QuietSteps DEF SetStatus, ghost
<1>17. ASSUME Crash PROVE Carried /\ Joined
  BY <1>17, <1>1, <1>2, QuietSteps DEF Crash, rows, ghost
<1>18. ASSUME NEW q \in Request, Goes(q) PROVE Carried /\ Joined
  BY <1>4, <1>5, <1>6, <1>7, <1>8, <1>9, <1>10, <1>11, <1>18 DEF Goes, RegisterNotify, PlaceNotify
<1>19. ASSUME Edits PROVE Carried /\ Joined
  BY <1>12, <1>13, <1>14, <1>15, <1>16, <1>19 DEF Edits
<1> QED BY <1>3, <1>17, <1>18, <1>19 DEF Next

(***************************************************************************)
(* Teams and their competitions, payments and their members.               *)
(***************************************************************************)
LEMMA OwnersStep ==
  ASSUME TypeOK, WholeRequests, SerialIds, CarriedIsCommitted,
         TeamsHaveCompetitions, PaymentsKeepTheirMembers, Next
  PROVE  TeamsHaveCompetitions' /\ PaymentsKeepTheirMembers'
<1> DEFINE Owned == TeamsHaveCompetitions' /\ PaymentsKeepTheirMembers'
<1>0. /\ \A t \in There : team[t] \in TeamRow /\ team[t].comp \in Competition
      /\ \A d \in TeamRow : d # NoTeam
  BY NoTeamAssumption DEF There, TypeOK, TeamRow
<1>1. ASSUME UNCHANGED <<comp, team, member, ledger>> PROVE Owned
  BY <1>1 DEF TeamsHaveCompetitions, PaymentsKeepTheirMembers, There, Roster
<1>2. ASSUME NEW q \in Request, Asks(q) PROVE Owned
  <2>1. PICK r : Begins(q, r)
    BY <1>2, AsksBegin
  <2> QED BY <1>1, <2>1 DEF Begins, rows
<1>3. ASSUME NEW q \in Request, RegisterCommit(q) PROVE Owned
  <2>1. CASE comp[req[q].draft.comp] = "there"
    <3> DEFINE t == ids + 1
    <3>1. Insert(q, t) /\ t \in TeamId /\ t \notin There
      BY <1>3, <2>1, NextId DEF RegisterCommit, SerialIds
    <3>2. req[q].draft \in TeamRow /\ req[q].who \subseteq Student
      BY <1>3, Fields DEF RegisterCommit, WholeRequests
    <3> HIDE DEF t
    <3>3. /\ team' = [team EXCEPT ![t] = req[q].draft]
          /\ member' = [member EXCEPT ![t] = [s \in Student |-> IF s \in req[q].who THEN "unpaid" ELSE "absent"]]
          /\ UNCHANGED <<comp, ledger>>
      BY <3>1 DEF Insert
    <3>4. \A u \in TeamId \ {t} : team'[u] = team[u] /\ member'[u] = member[u]
      BY <3>3 DEF TypeOK
    <3>5. team'[t] = req[q].draft /\ req[q].draft # NoTeam
      BY <1>0, <3>1, <3>2, <3>3 DEF TypeOK
    <3>6. \A s \in Student : member'[t][s] \in {"unpaid", "absent"} /\ <<t, s>> \notin ledger
      BY <3>1, <3>3 DEF TypeOK, TeamsHaveCompetitions, PaymentsKeepTheirMembers
    <3>7. TeamsHaveCompetitions'
      BY <2>1, <3>1, <3>3, <3>4, <3>5 DEF TeamsHaveCompetitions, There, Roster
    <3>8. PaymentsKeepTheirMembers'
      BY <3>3, <3>4, <3>6, ZenonT(60) DEF PaymentsKeepTheirMembers, Roster
    <3> QED BY <3>7, <3>8
  <2>2. CASE comp[req[q].draft.comp] # "there"
    BY <1>1, <1>3, <2>2 DEF RegisterCommit, rows
  <2> QED BY <2>1, <2>2
<1>4. ASSUME NEW q \in Request, NEW what, Notify(q, what) PROVE Owned
  BY <1>1, <1>4 DEF Notify, rows
<1>5. ASSUME NEW q \in Request, PlaceCommit(q) PROVE Owned
  BY <1>1, <1>5 DEF PlaceCommit
<1>6. ASSUME NEW q \in Request, RemoveCommit(q) PROVE Owned
  <2> DEFINE t == req[q].team
  <2>1. t \in TeamId /\ req[q].who \subseteq Student /\ UNCHANGED <<comp, team, ledger>>
    BY <1>6, Fields DEF RemoveCommit, WholeRequests
  <2>2. \A u \in TeamId, s \in Student :
          \/ member'[u][s] = member[u][s]
          \/ member'[u][s] = "absent" /\ <<u, s>> \notin ledger
    <3>1. CASE ledger \cap ({t} \X req[q].who) # {}
      BY <1>6, <3>1 DEF RemoveCommit
    <3>2. CASE ledger \cap ({t} \X req[q].who) = {}
      BY <1>6, <2>1, <3>2 DEF RemoveCommit, TypeOK
    <3> QED BY <3>1, <3>2
  <2> HIDE DEF t
  <2>3. \A u \in TeamId : Roster(u)' \subseteq Roster(u)
    BY <2>2 DEF Roster
  <2>4. TeamsHaveCompetitions'
    BY <2>1, <2>3 DEF TeamsHaveCompetitions, There
  <2>5. PaymentsKeepTheirMembers'
    BY <2>1, <2>2 DEF PaymentsKeepTheirMembers, Roster
  <2> QED BY <2>4, <2>5
<1>7. ASSUME NEW q \in Request, DeleteTeamCommit(q) PROVE Owned
  <2> DEFINE t == req[q].team
  <2>1. t \in TeamId /\ UNCHANGED <<comp, ledger>>
    BY <1>7 DEF DeleteTeamCommit, WholeRequests
  <2>2. CASE ledger \cap ({t} \X Student) # {}
    BY <1>1, <1>7, <2>2 DEF DeleteTeamCommit
  <2>3. CASE ledger \cap ({t} \X Student) = {}
    <3>1. /\ \A u \in TeamId \ {t} : team'[u] = team[u] /\ member'[u] = member[u]
          /\ team'[t] = NoTeam /\ \A s \in Student : member'[t][s] = "absent" /\ <<t, s>> \notin ledger
      BY <1>7, <2>1, <2>3 DEF DeleteTeamCommit, NoMembers, TypeOK
    <3> HIDE DEF t
    <3>2. TeamsHaveCompetitions'
      <4>1. \A u \in TeamId : Roster(u)' = IF u = t THEN {} ELSE Roster(u)
        BY <3>1 DEF Roster
      <4>2. There' = There \ {t}
        BY <3>1 DEF There
      <4>3. There \subseteq TeamId
        BY DEF There
      <4> QED BY <2>1, <3>1, <4>1, <4>2, <4>3 DEF TeamsHaveCompetitions
    <3>3. PaymentsKeepTheirMembers'
      BY <2>1, <3>1 DEF PaymentsKeepTheirMembers, Roster
    <3> QED BY <3>2, <3>3
  <2> QED BY <2>2, <2>3
<1>8. ASSUME NEW q \in Request, PayReceipt(q) PROVE Owned
  <2>1. CASE req[q].who \subseteq Roster(req[q].team)
    <3>1. ledger' = ledger \cup ({req[q].team} \X req[q].who) /\ UNCHANGED <<comp, team, member>>
      BY <1>8, <2>1 DEF PayReceipt
    <3>2. TeamsHaveCompetitions'
      BY <3>1 DEF TeamsHaveCompetitions, There, Roster
    <3>3. PaymentsKeepTheirMembers'
      BY <2>1, <3>1 DEF PaymentsKeepTheirMembers, Roster
    <3> QED BY <3>2, <3>3
  <2>2. CASE ~(req[q].who \subseteq Roster(req[q].team))
    BY <1>1, <1>8, <2>2 DEF PayReceipt
  <2> QED BY <2>1, <2>2
<1>9. ASSUME NEW q \in Request, RecordPayment(q) PROVE Owned
  <2> DEFINE t == req[q].team
  <2>1. t \in TeamId /\ req[q].who \subseteq Student /\ UNCHANGED <<comp, team, ledger>>
    BY <1>9, Fields DEF RecordPayment, WholeRequests
  <2>2. \A s \in req[q].who : <<t, s>> \in ledger
    BY <1>9 DEF RecordPayment, CarriedIsCommitted
  <2>3. \A u \in TeamId, s \in Student :
          \/ member'[u][s] = member[u][s]
          \/ member'[u][s] = "paid" /\ <<u, s>> \in ledger
    BY <1>9, <2>1, <2>2 DEF RecordPayment, TypeOK
  <2> HIDE DEF t
  <2>4. \A u \in TeamId : Roster(u)' \subseteq Roster(u)
    BY <2>3 DEF Roster, PaymentsKeepTheirMembers
  <2>5. TeamsHaveCompetitions'
    BY <2>1, <2>4 DEF TeamsHaveCompetitions, There
  <2>6. PaymentsKeepTheirMembers'
    BY <2>1, <2>3 DEF PaymentsKeepTheirMembers, Roster
  <2> QED BY <2>5, <2>6
<1>10. ASSUME NEW q \in Request, DeleteCompetitionCommit(q) PROVE Owned
  <2> DEFINE c == req[q].comp
  <2>1. UNCHANGED <<team, member, ledger>> /\ c \in Competition
    BY <1>10 DEF DeleteCompetitionCommit, WholeRequests
  <2>2. \A t \in There : comp'[team[t].comp] = "there"
    <3>1. CASE Of(c) # {}
      BY <1>10, <3>1 DEF DeleteCompetitionCommit, TeamsHaveCompetitions
    <3>2. CASE Of(c) = {}
      <4>1. comp' = [comp EXCEPT ![c] = "gone"]
        BY <1>10, <3>2 DEF DeleteCompetitionCommit
      <4>2. \A t \in There : team[t].comp # c
        BY <3>2 DEF Of
      <4> QED BY <1>0, <4>1, <4>2 DEF TeamsHaveCompetitions, TypeOK
    <3> QED BY <3>1, <3>2
  <2> HIDE DEF c
  <2> QED BY <2>1, <2>2 DEF TeamsHaveCompetitions, PaymentsKeepTheirMembers, There, Roster
<1>11. ASSUME NEW t \in TeamId, NEW s \in Student, Refund(t, s) PROVE Owned
  <2>1. \A u \in TeamId, x \in Student :
          \/ member'[u][x] = member[u][x]
          \/ member[u][x] = "paid" /\ member'[u][x] = "unpaid"
    BY <1>11 DEF Refund, TypeOK
  <2>2. UNCHANGED <<comp, team, ledger>>
    BY <1>11 DEF Refund
  <2> QED BY <2>1, <2>2 DEF TeamsHaveCompetitions, PaymentsKeepTheirMembers, There, Roster
<1>12. ASSUME NEW t \in TeamId, NEW d \in TeamRow, UpdateTeam(t, d) PROVE Owned
  <2>1. team' = [team EXCEPT ![t] = d] /\ t \in There /\ d.comp = team[t].comp
        /\ UNCHANGED <<comp, member, ledger>>
    BY <1>12 DEF UpdateTeam
  <2>2. /\ \A u \in TeamId \ {t} : team'[u] = team[u]
        /\ team'[t] = d /\ d # NoTeam
    BY <1>0, <2>1 DEF TypeOK
  <2> QED BY <2>1, <2>2 DEF TeamsHaveCompetitions, PaymentsKeepTheirMembers, There, Roster
<1>13. ASSUME NEW c \in Competition, CreateCompetition(c) PROVE Owned
  <2>1. \A t \in There : comp'[team[t].comp] = "there"
    BY <1>0, <1>13 DEF CreateCompetition, TeamsHaveCompetitions, TypeOK
  <2>2. UNCHANGED <<team, member, ledger>>
    BY <1>13 DEF CreateCompetition
  <2> QED BY <2>1, <2>2 DEF TeamsHaveCompetitions, PaymentsKeepTheirMembers, There, Roster
<1>14. ASSUME NEW c, NEW p, MoveDate(c, p) PROVE Owned
  BY <1>1, <1>14 DEF MoveDate
<1>15. ASSUME NEW s, SetStatus(s) PROVE Owned
  BY <1>1, <1>15 DEF SetStatus
<1>16. ASSUME Crash PROVE Owned
  BY <1>1, <1>16 DEF Crash, rows
<1>17. ASSUME NEW q \in Request, Goes(q) PROVE Owned
  BY <1>3, <1>4, <1>5, <1>6, <1>7, <1>8, <1>9, <1>10, <1>17 DEF Goes, RegisterNotify, PlaceNotify
<1>18. ASSUME Edits PROVE Owned
  BY <1>11, <1>12, <1>13, <1>14, <1>15, <1>18 DEF Edits
<1> QED BY <1>2, <1>16, <1>17, <1>18 DEF Next

(***************************************************************************)
(* Notices.                                                                *)
(***************************************************************************)
LEMMA ToldStep ==
  ASSUME TypeOK, CarriedIsCommitted, ToldIsTrue, Next
  PROVE  ToldIsTrue'
<1>1. ASSUME UNCHANGED told, joined \subseteq joined', ranked \subseteq ranked'
      PROVE  ToldIsTrue'
  BY <1>1 DEF ToldIsTrue
<1>2. ASSUME NEW q \in Request, Asks(q) PROVE ToldIsTrue'
  <2>1. PICK r : Begins(q, r)
    BY <1>2, AsksBegin
  <2> QED BY <1>1, <2>1 DEF Begins, rows, ghost
<1>3. ASSUME NEW q \in Request, RegisterNotify(q) PROVE ToldIsTrue'
  BY <1>3 DEF RegisterNotify, Notify, CarriedIsCommitted, ToldIsTrue, rows, ghost
<1>4. ASSUME NEW q \in Request, PlaceNotify(q) PROVE ToldIsTrue'
  BY <1>4 DEF PlaceNotify, Notify, CarriedIsCommitted, ToldIsTrue, rows, ghost
<1>5. ASSUME NEW q \in Request,
             RegisterCommit(q) \/ PlaceCommit(q) \/ RemoveCommit(q) \/ DeleteTeamCommit(q)
               \/ PayReceipt(q) \/ RecordPayment(q) \/ DeleteCompetitionCommit(q)
      PROVE  ToldIsTrue'
  <2>1. UNCHANGED told /\ joined \subseteq joined' /\ ranked \subseteq ranked'
    BY <1>5 DEF RegisterCommit, Insert, PlaceCommit, RemoveCommit, DeleteTeamCommit,
                PayReceipt, RecordPayment, DeleteCompetitionCommit, rows, ghost
  <2> QED BY <1>1, <2>1
<1>6. ASSUME Edits \/ Crash PROVE ToldIsTrue'
  <2>1. UNCHANGED told /\ joined \subseteq joined' /\ ranked \subseteq ranked'
    BY <1>6 DEF Edits, Refund, UpdateTeam, CreateCompetition, MoveDate, SetStatus, Crash, rows, ghost
  <2> QED BY <1>1, <2>1
<1> QED BY <1>2, <1>3, <1>4, <1>5, <1>6 DEF Next, Goes

(***************************************************************************)
(* The theorems.                                                           *)
(***************************************************************************)

LEMMA Initially == Init => IInv
<1> SUFFICES ASSUME Init PROVE IInv
  OBVIOUS
<1>1. TypeOK
  <2>1. req \in [Request -> Req]
    BY NewRecords DEF Init
  <2>2. member \in [TeamId -> [Student -> {"absent", "unpaid", "paid"}]]
    BY DEF Init, NoMembers
  <2>3. ids \in 0 .. MaxTeams /\ ops \in 0 .. MaxOps
    BY ConstantsAssumption DEF Init
  <2> QED BY <2>1, <2>2, <2>3 DEF Init, TypeOK
<1>2. There = {} /\ \A t \in TeamId : Roster(t) = {}
  BY DEF Init, There, Roster, NoMembers
<1>3. \A q \in Request : req[q].step = "idle"
  BY DEF Init, Idle
<1> QED BY <1>1, <1>2, <1>3 DEF Init, IInv, WholeRequests, SerialIds, CarriedIsCommitted,
            MembersJoined, TeamsHaveCompetitions, PaymentsKeepTheirMembers, ToldIsTrue, NoMembers

LEMMA Inductive == IInv /\ [Next]_vars => IInv'
<1> SUFFICES ASSUME IInv, [Next]_vars PROVE IInv'
  OBVIOUS
<1>1. CASE Next
  BY <1>1, TypeStep, CarriedStep, OwnersStep, ToldStep DEF IInv
<1>2. CASE UNCHANGED vars
  BY <1>2 DEF IInv, vars, rows, ghost, TypeOK, WholeRequests, SerialIds, CarriedIsCommitted,
              MembersJoined, TeamsHaveCompetitions, PaymentsKeepTheirMembers, ToldIsTrue, There, Roster
<1> QED BY <1>1, <1>2

LEMMA Invariance == Spec => []IInv
BY Initially, Inductive, PTL DEF Spec

(***************************************************************************)
(* Duplicates and clashes.                                                 *)
(***************************************************************************)

(* Until it inserts its team, a registration knows of every other team that *)
(* shares a student or the name with it: it read of it, or was told since. *)
Foreseen ==
  \A p \in Request : req[p].step = "register" =>
    \A u \in There \ req[p].since :
      /\ team[u].comp = req[p].draft.comp => req[p].who \cap Roster(u) \subseteq req[p].warn
      /\ team[u] = req[p].draft => u \in edited

FInv == IInv /\ Foreseen /\ DuplicatesAreWarned /\ NameClashesAreExplained

(* What every step does but the reads and the insert of a registration.    *)
AddsNoTeam ==
  /\ \A p \in Request : req'[p].step = "register" => req'[p] = req[p]
  /\ \A t \in TeamId : team'[t] # NoTeam =>
       /\ team[t] # NoTeam /\ team'[t].comp = team[t].comp
       /\ team'[t] = team[t] \/ t \in edited'
  /\ \A t \in TeamId, s \in Student : member'[t][s] # "absent" => member[t][s] # "absent"
  /\ warned \subseteq warned' /\ raced \subseteq raced' /\ edited \subseteq edited'

LEMMA StepsAddNoTeam ==
  ASSUME IInv, Next
  PROVE  \/ AddsNoTeam
         \/ \E q \in Request, d \in TeamRow, S \in SUBSET Student : Register(q, d, S)
         \/ \E q \in Request : RegisterCommit(q) /\ comp[req[q].draft.comp] = "there"
<1> USE DEF IInv
<1>1. ASSUME UNCHANGED <<team, member, warned, raced, edited>>,
             \A p \in Request : req'[p].step = "register" => req'[p] = req[p]
      PROVE  AddsNoTeam
  BY <1>1 DEF AddsNoTeam
<1>2. ASSUME Quiet PROVE \A p \in Request : req'[p].step = "register" => req'[p] = req[p]
  BY <1>2 DEF Quiet
<1>3. ASSUME NEW q \in Request, Asks(q),
             ~ (\E d \in TeamRow, S \in SUBSET Student : Register(q, d, S))
      PROVE  AddsNoTeam
  <2>1. UNCHANGED <<rows, ghost>>
    BY <1>3 DEF Asks, Place, DeleteTeam, Remove, Pay, DeleteCompetition
  <2>3. req'[q].step # "register"
    <3>1. ASSUME NEW t \in TeamId, Place(q, t) \/ DeleteTeam(q, t) PROVE req'[q].step # "register"
      BY <3>1 DEF Place, DeleteTeam, TypeOK, Idle
    <3>2. ASSUME NEW t \in TeamId, NEW s \in Student, Remove(q, t, s)
          PROVE  req'[q].step # "register"
      BY <3>2 DEF Remove, TypeOK, Idle
    <3>3. ASSUME NEW t \in TeamId, NEW s \in Student, Pay(q, t, s)
          PROVE  req'[q].step # "register"
      BY <3>3 DEF Pay, TypeOK, Idle
    <3>4. ASSUME NEW c \in Competition, DeleteCompetition(q, c) PROVE req'[q].step # "register"
      BY <3>4 DEF DeleteCompetition, TypeOK, Idle
    <3> QED BY <1>3, <3>1, <3>2, <3>3, <3>4 DEF Asks
  <2>2. \A p \in Request \ {q} : req'[p] = req[p]
    BY <1>3 DEF Asks, Place, DeleteTeam, Remove, Pay, DeleteCompetition, TypeOK
  <2> QED BY <1>1, <2>1, <2>2, <2>3 DEF rows, ghost
<1>4. ASSUME NEW q \in Request, RegisterCommit(q), comp[req[q].draft.comp] # "there"
      PROVE  AddsNoTeam
  <2>1. Ends(q) /\ UNCHANGED <<rows, ghost>>
    BY <1>4 DEF RegisterCommit
  <2> QED BY <1>1, <1>2, <2>1, QuietSteps DEF rows, ghost
<1>5. ASSUME NEW q \in Request, NEW what, Notify(q, what) PROVE AddsNoTeam
  BY <1>1, <1>2, <1>5, QuietSteps DEF Notify, rows, ghost
<1>6. ASSUME NEW q \in Request, PlaceCommit(q) \/ PayReceipt(q) PROVE AddsNoTeam
  <2>1. req'[q].step # "register" /\ \A p \in Request \ {q} : req'[p] = req[p]
    BY <1>6, Fields DEF PlaceCommit, PayReceipt, Ends, Idle, TypeOK, Req
  <2>2. UNCHANGED <<team, member, warned, raced, edited>>
    BY <1>6 DEF PlaceCommit, PayReceipt, ghost
  <2> QED BY <1>1, <2>1, <2>2
<1>7. ASSUME NEW q \in Request, RemoveCommit(q) PROVE AddsNoTeam
  <2>1. Quiet
    BY <1>7, QuietSteps DEF RemoveCommit
  <2>2. \A t \in TeamId, s \in Student : member'[t][s] # "absent" => member[t][s] # "absent"
    BY <1>7 DEF RemoveCommit, TypeOK
  <2> QED BY <1>2, <1>7, <2>1, <2>2 DEF RemoveCommit, AddsNoTeam, ghost
<1>8. ASSUME NEW q \in Request, DeleteTeamCommit(q) PROVE AddsNoTeam
  <2>1. Quiet
    BY <1>8, QuietSteps DEF DeleteTeamCommit
  <2>2. \A t \in TeamId, s \in Student : member'[t][s] # "absent" => member[t][s] # "absent"
    BY <1>8 DEF DeleteTeamCommit, TypeOK, NoMembers
  <2>3. \A t \in TeamId : team'[t] # NoTeam => team'[t] = team[t]
    BY <1>8 DEF DeleteTeamCommit, TypeOK
  <2> QED BY <1>2, <1>8, <2>1, <2>2, <2>3 DEF DeleteTeamCommit, AddsNoTeam, ghost
<1>9. ASSUME NEW q \in Request, RecordPayment(q) PROVE AddsNoTeam
  <2>1. Quiet
    BY <1>9, QuietSteps DEF RecordPayment
  <2>2. req[q].team \in TeamId
    BY <1>9 DEF RecordPayment, WholeRequests
  <2>3. \A s \in Student : s \in req[q].who => member[req[q].team][s] # "absent"
    BY <1>9, <2>2 DEF RecordPayment, CarriedIsCommitted, PaymentsKeepTheirMembers, Roster
  <2>4. \A t \in TeamId, s \in Student : member'[t][s] # "absent" => member[t][s] # "absent"
    BY <1>9, <2>2, <2>3 DEF RecordPayment, TypeOK
  <2> QED BY <1>2, <1>9, <2>1, <2>4 DEF RecordPayment, AddsNoTeam, ghost
<1>10. ASSUME NEW q \in Request, DeleteCompetitionCommit(q) PROVE AddsNoTeam
  BY <1>1, <1>2, <1>10, QuietSteps DEF DeleteCompetitionCommit, ghost
<1>11. ASSUME NEW t \in TeamId, NEW s \in Student, Refund(t, s) PROVE AddsNoTeam
  <2>1. \A u \in TeamId, v \in Student : member'[u][v] # "absent" => member[u][v] # "absent"
    BY <1>11 DEF Refund, TypeOK
  <2> QED BY <1>11, <2>1 DEF Refund, AddsNoTeam, ghost
<1>12. ASSUME NEW t \in TeamId, NEW d \in TeamRow, UpdateTeam(t, d) PROVE AddsNoTeam
  <2>1. \A u \in TeamId : team'[u] # NoTeam =>
          /\ team[u] # NoTeam /\ team'[u].comp = team[u].comp
          /\ team'[u] = team[u] \/ u \in edited'
    BY <1>12 DEF UpdateTeam, There, TypeOK
  <2> QED BY <1>12, <2>1 DEF UpdateTeam, AddsNoTeam
<1>13. ASSUME \/ \E c \in Competition : CreateCompetition(c) \/ \E p : MoveDate(c, p)
              \/ \E s \in Student : SetStatus(s)
       PROVE  AddsNoTeam
  BY <1>1, <1>13 DEF CreateCompetition, MoveDate, SetStatus, ghost
<1>14. ASSUME Crash PROVE AddsNoTeam
  BY <1>1, <1>2, <1>14, QuietSteps DEF Crash, rows, ghost
<1>15. ASSUME NEW q \in Request, Goes(q),
              ~ (RegisterCommit(q) /\ comp[req[q].draft.comp] = "there")
       PROVE  AddsNoTeam
  BY <1>4, <1>5, <1>6, <1>7, <1>8, <1>9, <1>10, <1>15 DEF Goes, RegisterNotify, PlaceNotify
<1>16. ASSUME Edits PROVE AddsNoTeam
  BY <1>11, <1>12, <1>13, <1>16 DEF Edits
<1> QED
  BY <1>3, <1>14, <1>15, <1>16 DEF Next

LEMMA ForeseenKept ==
  ASSUME IInv, Foreseen, DuplicatesAreWarned, NameClashesAreExplained, AddsNoTeam
  PROVE  Foreseen' /\ DuplicatesAreWarned' /\ NameClashesAreExplained'
<1> USE DEF AddsNoTeam
<1>1. ASSUME NEW t \in There' PROVE t \in There /\ t \in TeamId /\ Roster(t)' \subseteq Roster(t)
  BY <1>1 DEF There, Roster
<1>2. Foreseen'
  BY <1>1 DEF Foreseen, There
<1>3. DuplicatesAreWarned'
  BY <1>1 DEF DuplicatesAreWarned, There, Overlapped
<1>4. NameClashesAreExplained'
  BY <1>1 DEF NameClashesAreExplained, There, Overlapped
<1> QED BY <1>2, <1>3, <1>4

LEMMA ForeseenRead ==
  ASSUME IInv, Foreseen, DuplicatesAreWarned, NameClashesAreExplained,
         NEW q \in Request, NEW d \in TeamRow, NEW S \in SUBSET Student, Register(q, d, S)
  PROVE  Foreseen' /\ DuplicatesAreWarned' /\ NameClashesAreExplained'
<1> USE DEF IInv
<1>1. UNCHANGED <<team, member, warned, raced, edited>>
  BY DEF Register, rows, ghost
<1>2. /\ \A p \in Request \ {q} : req'[p] = req[p]
      /\ req'[q].draft = d /\ req'[q].who = S /\ req'[q].since = {}
      /\ req'[q].warn = {s \in S : AlreadyEntered(d, s)}
  BY DEF Register, TypeOK, Idle
<1>3. ASSUME NEW u \in There
      PROVE  /\ team[u].comp = d.comp => S \cap Roster(u) \subseteq {s \in S : AlreadyEntered(d, s)}
             /\ team[u] # d
  <2>1. team[u] # d
    <3>1. SUFFICES ASSUME team[u] = d PROVE FALSE
      OBVIOUS
    <3>2. u \in Listing(d) /\ team[u].name = d.name
      BY <3>1 DEF Listing, Of
    <3> QED BY <3>2 DEF Register, NameTaken
  <2> QED BY <2>1 DEF AlreadyEntered, Of
<1>4. Foreseen'
  <2> SUFFICES ASSUME NEW p \in Request, req'[p].step = "register", NEW u \in There' \ req'[p].since
               PROVE  /\ team'[u].comp = req'[p].draft.comp
                           => req'[p].who \cap Roster(u)' \subseteq req'[p].warn
                      /\ team'[u] = req'[p].draft => u \in edited'
    BY DEF Foreseen
  <2>1. u \in There /\ Roster(u)' = Roster(u)
    BY <1>1 DEF There, Roster
  <2>2. CASE p = q
    BY <1>1, <1>2, <1>3, <2>1, <2>2
  <2>3. CASE p # q
    <3>1. req'[p] = req[p]
      BY <1>2, <2>3
    <3> QED BY <1>1, <2>1, <3>1 DEF Foreseen
  <2> QED BY <2>2, <2>3
<1>5. DuplicatesAreWarned' /\ NameClashesAreExplained'
  BY <1>1 DEF DuplicatesAreWarned, NameClashesAreExplained, There, Roster, Overlapped
<1> QED BY <1>4, <1>5

LEMMA ForeseenInsert ==
  ASSUME IInv, Foreseen, DuplicatesAreWarned, NameClashesAreExplained,
         NEW q \in Request, RegisterCommit(q), comp[req[q].draft.comp] = "there"
  PROVE  Foreseen' /\ DuplicatesAreWarned' /\ NameClashesAreExplained'
<1> USE DEF IInv
<1> DEFINE r == req[q]
<1>0. PICK t \in TeamId : t = ids + 1
  BY NextId DEF RegisterCommit
<1>1. Insert(q, t) /\ \A u \in There : u \in TeamId /\ u < t
  <2>1. Insert(q, t)
    BY <1>0, InsertRecords
  <2>2. ASSUME NEW u \in There PROVE u \in TeamId /\ u < t
    <3>1. u \in TeamId /\ ids \in Nat /\ ~ (u > ids)
      BY ConstantsAssumption DEF There, SerialIds, TypeOK
    <3> QED BY <1>0, <3>1 DEF TeamId
  <2> QED BY <2>1, <2>2
<1>2. /\ team' = [team EXCEPT ![t] = r.draft]
      /\ member' = [member EXCEPT ![t] = [s \in Student |-> IF s \in r.who THEN "unpaid" ELSE "absent"]]
      /\ warned' = warned \cup ({t} \X r.warn) /\ raced' = raced \cup ({t} \X r.since)
      /\ edited' = edited
  BY <1>1 DEF Insert
<1>3. r.step = "register" /\ r.draft \in TeamRow /\ r.draft # NoTeam /\ r.who \subseteq Student
  BY Fields, NoTeamAssumption DEF RegisterCommit, WholeRequests
<1>4. /\ There' = There \cup {t} /\ t \notin There
      /\ team'[t] = r.draft /\ Roster(t)' = r.who
      /\ \A u \in There : team'[u] = team[u] /\ Roster(u)' = Roster(u)
  <2>1. t \notin There
    BY <1>1 DEF TeamId
  <2>2. \A u \in TeamId : team'[u] = IF u = t THEN r.draft ELSE team[u]
    BY <1>1, <1>2 DEF TypeOK
  <2>3. There' = There \cup {t}
    BY <1>1, <1>3, <2>2 DEF There
  <2>4. \A u \in TeamId, s \in Student :
          member'[u][s] = IF u = t THEN IF s \in r.who THEN "unpaid" ELSE "absent"
                          ELSE member[u][s]
    BY <1>1, <1>2 DEF TypeOK
  <2>5. Roster(t)' = r.who /\ \A u \in TeamId \ {t} : Roster(u)' = Roster(u)
    BY <1>1, <1>3, <2>4 DEF Roster
  <2> QED BY <1>1, <2>1, <2>2, <2>3, <2>5
<1>5. ASSUME NEW u \in There
      PROVE  /\ <<t, u>> \in raced' \/ (team[u].comp = r.draft.comp => r.who \cap Roster(u) \subseteq r.warn)
             /\ <<t, u>> \in raced' \/ (team[u] = r.draft => u \in edited)
  BY <1>2, <1>3, <1>5 DEF Foreseen
<1>6. Foreseen'
  <2> SUFFICES ASSUME NEW p \in Request, req'[p].step = "register", NEW u \in There' \ req'[p].since
               PROVE  /\ team'[u].comp = req'[p].draft.comp
                           => req'[p].who \cap Roster(u)' \subseteq req'[p].warn
                      /\ team'[u] = req'[p].draft => u \in edited'
    BY DEF Foreseen
  <2>1. p # q
    BY InsertRecords
  <2>2. req'[p] = Missed(t)[p]
    BY <1>0, <2>1 DEF RegisterCommit, Missed
  <2>3. req[p].step = "register" /\ req[p] \in Req
    BY <2>1, InsertRecords, Fields
  <2>4. req'[p] = [req[p] EXCEPT !.since = @ \cup {t}]
    BY <2>2, <2>3 DEF Missed
  <2>5. /\ req'[p].since = req[p].since \cup {t} /\ req'[p].draft = req[p].draft
        /\ req'[p].who = req[p].who /\ req'[p].warn = req[p].warn
    BY <2>3, <2>4 DEF Req
  <2>6. u \in There \ req[p].since
    BY <1>4, <2>5
  <2> QED BY <1>2, <1>4, <2>3, <2>5, <2>6 DEF Foreseen
<1>7. DuplicatesAreWarned'
  <2> SUFFICES ASSUME NEW a \in There', NEW b \in There', NEW s \in Student, a < b,
                      team'[a].comp = team'[b].comp, s \in Roster(a)', s \in Roster(b)'
               PROVE  <<b, s>> \in warned' \/ <<a, b>> \in raced' \/ <<b, a>> \in raced'
    BY DEF DuplicatesAreWarned, Overlapped
  <2>1. CASE a \in There /\ b \in There
    BY <1>2, <1>4, <2>1 DEF DuplicatesAreWarned, Overlapped
  <2>2. CASE b = t
    <3>1. a \in There /\ a # t
      BY <1>1, <1>4, <2>2 DEF TeamId
    <3>2. team[a].comp = r.draft.comp /\ s \in r.who \cap Roster(a)
      BY <1>4, <2>2, <3>1
    <3>3. <<t, a>> \in raced' \/ s \in r.warn
      BY <1>5, <3>1, <3>2
    <3> QED BY <1>2, <2>2, <3>3
  <2>3. CASE a = t
    <3>1. b \in There => b < t
      BY <1>1
    <3> QED BY <1>1, <1>4, <2>2, <2>3, <3>1 DEF TeamId
  <2> QED BY <1>4, <2>1, <2>2, <2>3
<1>8. NameClashesAreExplained'
  <2> SUFFICES ASSUME NEW a \in There', NEW b \in There', a # b, team'[a] = team'[b]
               PROVE  a \in edited' \/ b \in edited' \/ <<a, b>> \in raced' \/ <<b, a>> \in raced'
    BY DEF NameClashesAreExplained, Overlapped
  <2>1. CASE a \in There /\ b \in There
    BY <1>2, <1>4, <2>1 DEF NameClashesAreExplained, Overlapped
  <2>2. CASE a = t
    BY <1>2, <1>4, <1>5, <2>2
  <2>3. CASE b = t
    BY <1>2, <1>4, <1>5, <2>3
  <2> QED BY <1>4, <2>1, <2>2, <2>3
<1> QED BY <1>6, <1>7, <1>8

LEMMA Foresight == Spec => []FInv
<1>1. Init => Foreseen /\ DuplicatesAreWarned /\ NameClashesAreExplained
  BY DEF Init, Foreseen, DuplicatesAreWarned, NameClashesAreExplained, There, Idle
<1>2. ASSUME FInv, [Next]_vars
      PROVE  Foreseen' /\ DuplicatesAreWarned' /\ NameClashesAreExplained'
  <2>1. CASE AddsNoTeam
    BY <1>2, <2>1, ForeseenKept DEF FInv
  <2>2. CASE Next
    BY <1>2, <2>1, <2>2, StepsAddNoTeam, ForeseenRead, ForeseenInsert DEF FInv
  <2>3. CASE UNCHANGED vars
    BY <1>2, <2>1, <2>3 DEF vars, rows, ghost, AddsNoTeam
  <2> QED BY <1>2, <2>2, <2>3
<1>3. FInv /\ [Next]_vars => FInv'
  BY <1>2, Inductive DEF FInv
<1> QED BY <1>1, <1>3, Initially, PTL DEF Spec, FInv

(***************************************************************************)
(* The pages.  They follow from what the tables hold whatever they went    *)
(* through.                                                                *)
(***************************************************************************)
LEMMA TeamsRows ==
  ASSUME TypeOK
  PROVE  \A t \in There : t \in TeamId /\ team[t] \in TeamRow
BY DEF TypeOK, There

LEMMA ListsAlwaysAgree ==
  ASSUME TypeOK, NEW c \in Competition, NEW k \in Anything, NEW u \in Sub \cup {NoSub}
  PROVE  ListsAgree(c, k, u)
<1>1. \A t \in Of(c) : {p[2] : p \in {q \in MembersOf(Of(c)) : q[1] = t}} = Roster(t)
  <2> SUFFICES ASSUME NEW t \in Of(c)
               PROVE  {p[2] : p \in {q \in MembersOf(Of(c)) : q[1] = t}} = Roster(t)
    OBVIOUS
  <2>1. ASSUME NEW s \in Roster(t)
        PROVE  s \in {p[2] : p \in {q \in MembersOf(Of(c)) : q[1] = t}}
    <3>1. <<t, s>> \in {q \in MembersOf(Of(c)) : q[1] = t}
      BY <2>1 DEF MembersOf, Roster
    <3> QED BY <3>1
  <2>2. ASSUME NEW p \in MembersOf(Of(c)), p[1] = t PROVE p[2] \in Roster(t)
    BY <2>2 DEF MembersOf
  <2> QED BY <2>1, <2>2
<1>2. WithMembers(c, k, u) = [t \in ListTeams(c, k, u) |-> Roster(t)]
  BY <1>1 DEF WithMembers, Batch, ListTeams
<1>3. ASSUME NEW w \in User
      PROVE  LET seen == MembersForUser(w, c, k, u) IN
             /\ \A t \in DOMAIN seen : seen[t] = WithMembers(c, k, u)[t]
             /\ w.role = "admin" \/ w.linked =>
                  DOMAIN seen = {t \in ListTeams(c, k, u) : Opens(w, t)}
             /\ ~(w.role = "admin" \/ w.linked) => \A t \in DOMAIN seen : ~Opens(w, t)
  <2> DEFINE seen == ListForUser(w, c, k, u)
  <2>1. seen \subseteq ListTeams(c, k, u)
    BY DEF ListForUser, ListTeams, ListForCoach
  <2>2. MembersForUser(w, c, k, u) = [t \in seen |-> Roster(t)]
    BY DEF MembersForUser
  <2>3. w.role = "admin" \/ w.linked => seen = {t \in ListTeams(c, k, u) : Opens(w, t)}
    BY DEF ListForUser, ListTeams, ListForCoach, Opens, Of
  <2>4. ~(w.role = "admin" \/ w.linked) => \A t \in seen : ~Opens(w, t)
    BY DEF Opens
  <2> HIDE DEF seen
  <2> QED BY <1>2, <2>1, <2>2, <2>3, <2>4
<1> QED BY <1>2, <1>3 DEF ListsAgree

LEMMA CategoriesAlwaysFind ==
  ASSUME TypeOK, NEW c \in Competition
  PROVE  CategoriesFind(c)
<1> DEFINE K == DOMAIN Categories(c)
<1>1. K = {g[1] : g \in DOMAIN Summary(c)}
  BY DEF Categories, Summary
<1>2. \A t \in Of(c) : /\ team[t].cat \in Category /\ team[t].sub \in AnySub
                       /\ <<team[t].cat, team[t].sub>> \in DistinctCategories(c)
  BY TeamsRows DEF Of, TeamRow, DistinctCategories
<1>3. \A g \in DistinctCategories(c) : \E t \in Of(c) : g = <<team[t].cat, team[t].sub>>
  BY DEF DistinctCategories
<1>4. \A k \in K : \A u \in Sub :
        u \in Categories(c)[k] <=> \E t \in Of(c) : team[t].cat = k /\ team[t].sub = u
  <2> SUFFICES ASSUME NEW k \in K, NEW u \in Sub
               PROVE  <<k, u>> \in DistinctCategories(c)
                        <=> \E t \in Of(c) : team[t].cat = k /\ team[t].sub = u
    BY DEF Categories
  <2> QED BY <1>2, <1>3
<1>5. \A k \in K : Categories(c)[k] \subseteq Sub
  BY DEF Categories
<1> HIDE DEF K
<1>6. ASSUME NEW k \in K, NEW u \in Categories(c)[k]
      PROVE  ListTeams(c, k, u) # {}
  BY <1>2, <1>4, <1>5, <1>6 DEF ListTeams, Passes
<1>7. ASSUME NEW k \in K, NEW t \in ListTeams(c, k, NoSub)
      PROVE  \/ \E u \in Categories(c)[k] : t \in ListTeams(c, k, u)
             \/ team[t].sub \notin Sub /\ \A u \in Sub : t \notin ListTeams(c, k, u)
  <2>1. t \in Of(c) BY DEF ListTeams
  <2>2. k \in Category
    <3>1. PICK g \in DistinctCategories(c) : k = g[1]
      BY DEF K, Categories
    <3> QED BY <1>2, <1>3, <3>1
  <2>3. team[t].cat = k BY <2>2 DEF ListTeams, Passes
  <2>4. CASE team[t].sub \in Sub
    BY <1>4, <2>1, <2>3, <2>4 DEF ListTeams, Passes
  <2>5. CASE team[t].sub \notin Sub
    BY <2>5 DEF ListTeams, Passes
  <2> QED BY <2>4, <2>5
<1>8. ASSUME NEW k \in K, NEW d \in TeamRow, d.comp = c, d.cat = k, HasSubs(d)
      PROVE  Categories(c)[k] # {} \/ \E t \in Of(c) : team[t].sub = Blank
  <2>1. PICK t \in Of(c) : team[t].cat = k /\ team[t].sub # NoSub
    BY <1>8 DEF HasSubs
  <2>2. CASE team[t].sub \in Sub
    BY <1>4, <2>1, <2>2
  <2>3. team[t].sub \in Sub \cup {Blank} BY <1>2, <2>1 DEF AnySub
  <2> QED BY <2>1, <2>2, <2>3
<1> QED BY <1>1, <1>6, <1>7, <1>8 DEF CategoriesFind, K

(* A team of the competition stands in the summary under its own category. *)
LEMMA SummaryShows ==
  ASSUME NEW c \in Competition
  PROVE  Shown(c) = {[team |-> t, members |-> Roster(t)] : t \in Of(c)}
<1> DEFINE M(t) == UNION {r[2] : r \in {r \in SummaryRows(c) : r[1] = t}}
           G(g) == {t \in {t \in Of(c) : <<team[t].cat, team[t].sub>> = g} : TRUE}
<1>1. \A t \in Of(c) : M(t) = Roster(t)
  <2> SUFFICES ASSUME NEW t \in Of(c) PROVE M(t) = Roster(t)
    OBVIOUS
  <2>1. ASSUME NEW s \in Roster(t) PROVE s \in M(t)
    <3>1. <<t, s>> \in MembersOf(Of(c)) BY <2>1 DEF MembersOf, Roster
    <3>2. <<t, {s}>> \in SummaryRows(c) BY <3>1 DEF SummaryRows
    <3> QED BY <3>2
  <2>2. ASSUME NEW r \in SummaryRows(c), r[1] = t, NEW s \in r[2] PROVE s \in Roster(t)
    <3>1. CASE \E p \in MembersOf(Of(c)) : r = <<p[1], {p[2]}>>
      BY <2>2, <3>1 DEF MembersOf
    <3>2. CASE r[2] = {} BY <2>2, <3>2
    <3> QED BY <3>1, <3>2 DEF SummaryRows
  <2> QED BY <2>1, <2>2
<1> DEFINE T(g) == {[team |-> t, members |-> M(t)] :
                      t \in {t \in Of(c) : <<team[t].cat, team[t].sub>> = g}}
<1>2. Summary(c) = [g \in DistinctCategories(c) |-> T(g)]
  BY DEF Summary
<1> HIDE DEF M
<1>3. Shown(c) = UNION {T(g) : g \in DistinctCategories(c)}
  <2> HIDE DEF T
  <2> QED BY <1>2 DEF Shown
<1>4. ASSUME NEW x \in Shown(c)
      PROVE  x \in {[team |-> t, members |-> Roster(t)] : t \in Of(c)}
  <2>1. PICK g \in DistinctCategories(c) : x \in T(g) BY <1>3
  <2> QED BY <1>1, <2>1
<1>5. ASSUME NEW t \in Of(c)
      PROVE  [team |-> t, members |-> Roster(t)] \in Shown(c)
  <2>1. <<team[t].cat, team[t].sub>> \in DistinctCategories(c) BY DEF DistinctCategories
  <2>2. [team |-> t, members |-> Roster(t)] \in T(<<team[t].cat, team[t].sub>>) BY <1>1
  <2> QED BY <1>3, <2>1, <2>2
<1> QED BY <1>4, <1>5

LEMMA TeamsAreFinite == \A c \in Competition : IsFiniteSet(Of(c))
<1>1. IsFiniteSet(TeamId) BY ConstantsAssumption, FS_Interval DEF TeamId
<1> QED BY <1>1, FS_Subset DEF Of, There

LEMMA TotalsCount ==
  ASSUME IsFiniteSet(Student), NEW c \in Competition
  PROVE  /\ Totals(c).teams = Cardinality(Of(c))
         /\ Totals(c).participants = Cardinality(MembersOf(Of(c)))
<1> DEFINE f == [t \in Of(c) |-> [team |-> t, members |-> Roster(t)]]
<1>1. f \in Bijection(Of(c), Shown(c))
  BY SummaryShows DEF Bijection, Injection, Surjection, IsInjective
<1>2. Cardinality(Shown(c)) = Cardinality(Of(c))
  BY <1>1, TeamsAreFinite, FS_Bijection DEF ExistsBijection
<1>3. UNION {{x.team} \X x.members : x \in Shown(c)} = MembersOf(Of(c))
  <2>1. ASSUME NEW x \in Shown(c), NEW p \in {x.team} \X x.members
        PROVE  p \in MembersOf(Of(c))
    <3>1. PICK t \in Of(c) : x = [team |-> t, members |-> Roster(t)] BY SummaryShows
    <3> QED BY <3>1 DEF MembersOf, Roster
  <2>2. ASSUME NEW p \in MembersOf(Of(c))
        PROVE  \E x \in Shown(c) : p \in {x.team} \X x.members
    <3>1. p[1] \in Of(c) /\ p[2] \in Roster(p[1]) /\ p = <<p[1], p[2]>> BY DEF MembersOf
    <3>2. [team |-> p[1], members |-> Roster(p[1])] \in Shown(c) BY <3>1, SummaryShows
    <3>3. p \in {[team |-> p[1], members |-> Roster(p[1])].team} \X
                  [team |-> p[1], members |-> Roster(p[1])].members
      BY <3>1
    <3> QED BY <3>2, <3>3
  <2> QED BY <2>1, <2>2
<1> QED BY <1>2, <1>3 DEF Totals

(* More memberships than members: some student is in two teams. *)
LEMMA SummaryAlwaysAgrees ==
  ASSUME IsFiniteSet(Student), TypeOK, DuplicatesAreWarned, NEW c \in Competition
  PROVE  SummaryAgrees(c)
<1> DEFINE students == UNION {Roster(t) : t \in Of(c)}
           P == MembersOf(Of(c))
           f == [p \in P |-> p[2]]
<1>1. IsFiniteSet(students)
  BY FS_Subset DEF Roster
<1>2. Cardinality(students) \in Nat BY <1>1, FS_CardinalityType
<1>3. f \in [P -> students] BY DEF MembersOf
<1>4. ASSUME Cardinality(P) > Cardinality(students)
      PROVE  \E t, u \in Of(c) : t < u /\ \E s \in Roster(t) \cap Roster(u) :
               <<u, s>> \in warned \/ Overlapped(t, u)
  <2>1. PICK p, q \in P : p # q /\ p[2] = q[2]
    <3>1. CASE f \in Injection(P, students)
      <4>1. IsFiniteSet(P) /\ Cardinality(P) <= Cardinality(students)
        BY <1>1, <3>1, FS_Injection
      <4>2. Cardinality(P) \in Nat BY <4>1, FS_CardinalityType
      <4> QED BY <1>2, <1>4, <4>1, <4>2
    <3>2. CASE f \notin Injection(P, students)
      BY <1>3, <3>2 DEF Injection, IsInjective
    <3> QED BY <3>1, <3>2
  <2>2. /\ p[1] \in Of(c) /\ p[2] \in Roster(p[1]) /\ p = <<p[1], p[2]>>
        /\ q[1] \in Of(c) /\ q[2] \in Roster(q[1]) /\ q = <<q[1], q[2]>>
    BY DEF MembersOf
  <2>3. p[1] # q[1] BY <2>1, <2>2
  <2>4. PICK t, u \in Of(c) : t < u /\ p[2] \in Roster(t) \cap Roster(u)
    <3>1. p[1] \in Nat /\ q[1] \in Nat BY <2>2, ConstantsAssumption DEF Of, There, TeamId
    <3>2. p[1] < q[1] \/ q[1] < p[1] BY <2>3, <3>1
    <3> QED BY <2>1, <2>2, <3>2
  <2>5. <<u, p[2]>> \in warned \/ Overlapped(t, u)
    BY <2>4 DEF DuplicatesAreWarned, Of, Roster
  <2> QED BY <2>4, <2>5
<1> HIDE DEF students, P, f
<1>5. Totals(c).teams = Cardinality(Of(c)) /\ Totals(c).participants = Cardinality(P)
  BY TotalsCount DEF P
<1> QED BY <1>4, <1>5, SummaryShows DEF SummaryAgrees, students

LEMMA StudentsPagesAlwaysAgree ==
  ASSUME TypeOK, TeamsHaveCompetitions, PaymentsKeepTheirMembers, NEW s \in Student
  PROVE  StudentsPagesAgree(s)
<1> DEFINE R(t) == [team |-> t, cat |-> team[t].cat, comp |-> {team[t].comp}]
<1>1. StudentCompetitions(s) = {R(t) : t \in {t \in There : s \in Roster(t)}}
  <2>1. Memberships(s) = {[team |-> t, comp |-> {team[t].comp}] : t \in {t \in There : s \in Roster(t)}}
    BY DEF Memberships, TeamsHaveCompetitions
  <2>2. ASSUME NEW x \in StudentCompetitions(s)
        PROVE  x \in {R(t) : t \in {t \in There : s \in Roster(t)}}
    BY <2>1 DEF StudentCompetitions
  <2>3. ASSUME NEW t \in There, s \in Roster(t) PROVE R(t) \in StudentCompetitions(s)
    <3> DEFINE m == [team |-> t, comp |-> {team[t].comp}]
    <3>1. m \in Memberships(s) BY <2>1, <2>3
    <3>2. m.team = t /\ m.comp = {team[t].comp} OBVIOUS
    <3> HIDE DEF m
    <3>3. [team |-> m.team, cat |-> team[m.team].cat, comp |-> m.comp] = R(t) BY <3>2
    <3> QED BY <3>1, <3>3 DEF StudentCompetitions
  <2> QED BY <2>2, <2>3
<1>2. {x.team : x \in StudentCompetitions(s)} = {t \in There : s \in RosterPage(t).rows}
  <2>1. \A t \in There : R(t).team = t OBVIOUS
  <2> HIDE DEF R
  <2> QED BY <1>1, <2>1 DEF RosterPage
<1>3. \A x \in StudentCompetitions(s) : x.comp = {team[x.team].comp}
  BY <1>1
<1>4. ASSUME NEW t \in TeamId, <<t, s>> \in ledger, LoggedTeam(s) # {t}
      PROVE  Cardinality(StudentCompetitions(s)) > 1
  <2> DEFINE S == StudentCompetitions(s)
  <2>1. t \in LoggedTeam(s)
    BY <1>4 DEF PaymentsKeepTheirMembers, LoggedTeam
  <2>2. PICK u \in LoggedTeam(s) : u # t BY <1>4, <2>1
  <2>3. /\ t \in There /\ s \in Roster(t) /\ u \in There /\ s \in Roster(u)
    BY <2>1, <2>2 DEF LoggedTeam, TeamsHaveCompetitions
  <2>4. R(t) \in S /\ R(u) \in S BY <1>1, <2>3
  <2>5. R(t) # R(u) BY <2>2
  <2>6. IsFiniteSet(S)
    <3> DEFINE D == {v \in There : s \in Roster(v)}
               g == [v \in D |-> R(v)]
    <3>1. IsFiniteSet(TeamId) BY ConstantsAssumption, FS_Interval DEF TeamId
    <3>2. D \in SUBSET TeamId BY DEF There
    <3>3. IsFiniteSet(D) BY <3>1, <3>2, FS_Subset
    <3>4. g \in Surjection(D, S) BY <1>1 DEF Surjection
    <3> QED BY <3>3, <3>4, FS_Surjection
  <2> HIDE DEF R, S
  <2>7. Cardinality({R(t)}) = 1 /\ IsFiniteSet({R(t)}) BY FS_Singleton
  <2>8. Cardinality({R(t)} \cup {R(u)}) = 2 BY <2>5, <2>7, FS_AddElement
  <2>9. {R(t)} \cup {R(u)} \in SUBSET S BY <2>4
  <2>10. 2 <= Cardinality(S) BY <2>6, <2>8, <2>9, FS_Subset
  <2>11. Cardinality(S) \in Nat BY <2>6, FS_CardinalityType
  <2> QED BY <2>10, <2>11 DEF S
<1> QED BY <1>2, <1>3, <1>4 DEF StudentsPagesAgree

LEMMA PagesFollow ==
  ASSUME IsFiniteSet(Student), TypeOK, TeamsHaveCompetitions, PaymentsKeepTheirMembers,
         DuplicatesAreWarned
  PROVE  TeamPagesAgree
<1>1. ASSUME NEW c \in Competition, comp[c] # "there" PROVE Shown(c) = {}
  <2>1. Of(c) = {} BY <1>1 DEF TeamsHaveCompetitions, Of
  <2> QED BY <2>1, SummaryShows
<1> QED BY <1>1, ListsAlwaysAgree, CategoriesAlwaysFind, SummaryAlwaysAgrees,
           StudentsPagesAlwaysAgree DEF TeamPagesAgree

(***************************************************************************)
(* The theorems.                                                           *)
(***************************************************************************)
(* Every reachable state of the competitions is well formed. *)
THEOREM TypeCorrect == Spec => []TypeOK
BY Invariance, PTL DEF IInv

(* The foreign keys keep every team in a competition and every member in a *)
(* team, however requests to register and to delete overlap.               *)
THEOREM TeamsStayOwned == Spec => []TeamsHaveCompetitions
BY Invariance, PTL DEF IInv

(* A fee payment keeps the member it was made for, and no member counts as *)
(* paid without one.                                                       *)
THEOREM PaymentsStayOwned == Spec => []PaymentsKeepTheirMembers
BY Invariance, PTL DEF IInv

(* No notice tells of a registration or a placement that was rolled back. *)
THEOREM NoticesAreTrue == Spec => []ToldIsTrue
BY Invariance, PTL DEF IInv

(* However requests to register, edit, remove and delete overlap: a student *)
(* is in two teams of a competition only if the later one was registered   *)
(* with a warning, or while the other one was.                             *)
THEOREM DuplicatesStayWarned == Spec => []DuplicatesAreWarned
BY Foresight, PTL DEF FInv

(* However they overlap, two teams have the same name, category and         *)
(* subcategory only after an edit, or if they were registered together.    *)
THEOREM NameClashesStayExplained == Spec => []NameClashesAreExplained
BY Foresight, PTL DEF FInv

(* For any finite number of students: the pages of competitions, teams and *)
(* students agree with one another and with what was warned of, whatever   *)
(* requests overlapped and wherever a crash cut them off.                  *)
THEOREM PagesStayInAgreement == ASSUME IsFiniteSet(Student) PROVE Spec => []TeamPagesAgree
<1>1. FInv => TeamPagesAgree
  BY PagesFollow DEF FInv, IInv
<1> QED BY <1>1, Foresight, PTL
=============================================================================
