-------------------------------- MODULE Teams --------------------------------
(***************************************************************************)
(* Competitions, teams and their members (app/modules/competitions).       *)
(* A request reads and validates first and writes in a transaction that    *)
(* commits later; nothing is locked in between, so requests of several     *)
(* administrators interleave, and only the constraints of the database     *)
(* (foreign keys, serial ids) hold whatever they do.                       *)
(*                                                                         *)
(* add_team_member_to_existing has no action: it reads is_active of the    *)
(* student, an attribute no Student has, and raises before it writes.      *)
(***************************************************************************)
EXTENDS Naturals, FiniteSets

CONSTANTS
  Competition, Category, Name, Student,
  Sub,        \* subcategories that have a name
  NoSub,      \* NULL
  Blank,      \* the empty string, which the API lets through
  Request,    \* requests in progress at the same time
  NoTeam,     \* no row
  MaxTeams,   \* bound: teams ever registered
  MaxOps      \* bound: requests that change something

ASSUME ConstantsAssumption ==
  /\ NoSub \notin Sub /\ Blank \notin Sub /\ NoSub # Blank
  /\ MaxTeams \in Nat /\ MaxOps \in Nat

VARIABLES
  comp,     \* competitions: "absent", "there" or "gone"
  phase,    \* today is "before" the day of the competition, in the 30 days
            \* after it ("open"; also without a date) or later ("closed")
  team,     \* teams, by serial id
  ids,      \* the last id given
  member,   \* team_members: "absent", "unpaid" (amount_paid = 0) or "paid"
  ledger,   \* members some payment row refers to
  active,   \* students with status active
  ranked,   \* teams whose placement was ever committed
  told,     \* notices queued for the members of a team
  req,      \* requests between their reads and their writes
  ops,
  joined, warned, raced, edited   \* history: see the properties

rows  == <<comp, phase, team, ids, member, ledger, active, ranked>>
ghost == <<joined, warned, raced, edited>>
vars  == <<rows, told, req, ops, ghost>>

TeamId  == 1 .. MaxTeams
AnySub  == Sub \cup {NoSub, Blank}
TeamRow == [comp : Competition, cat : Category, sub : AnySub, name : Name]
Pair    == TeamId \X Student

ASSUME NoTeamAssumption == NoTeam \notin TeamRow

Steps   == {"idle", "register", "registered", "remove", "deleteTeam", "deleteComp",
            "pay", "paid", "place", "placed"}

(* What a request carries from its reads to its writes: the row to insert, *)
(* the team and the students it is about, those to warn of, and the teams  *)
(* that were inserted since it read.                                       *)
Req == [step : Steps, comp : Competition \cup {NoTeam}, draft : TeamRow \cup {NoTeam},
        team : 0 .. MaxTeams, who : SUBSET Student, warn : SUBSET Student,
        since : SUBSET TeamId]

Idle == [step |-> "idle", comp |-> NoTeam, draft |-> NoTeam,
         team |-> 0, who |-> {}, warn |-> {}, since |-> {}]

TypeOK ==
  /\ comp \in [Competition -> {"absent", "there", "gone"}]
  /\ phase \in [Competition -> {"before", "open", "closed"}]
  /\ team \in [TeamId -> TeamRow \cup {NoTeam}]
  /\ ids \in 0 .. MaxTeams
  /\ member \in [TeamId -> [Student -> {"absent", "unpaid", "paid"}]]
  /\ ledger \subseteq Pair /\ active \subseteq Student /\ ranked \subseteq TeamId
  /\ told \subseteq {"registered", "placed"} \X TeamId \X Student
  /\ req \in [Request -> Req] /\ ops \in 0 .. MaxOps
  /\ joined \subseteq Pair /\ warned \subseteq Pair
  /\ raced \subseteq TeamId \X TeamId /\ edited \subseteq TeamId

NoMembers == [s \in Student |-> "absent"]

Init ==
  /\ comp \in [Competition -> {"absent", "there"}]
  /\ phase \in [Competition -> {"before", "open"}]
  /\ team = [t \in TeamId |-> NoTeam] /\ ids = 0
  /\ member = [t \in TeamId |-> NoMembers] /\ ledger = {}
  /\ active \in SUBSET Student /\ ranked = {} /\ told = {}
  /\ req = [q \in Request |-> Idle] /\ ops = 0
  /\ joined = {} /\ warned = {} /\ raced = {} /\ edited = {}

There     == {t \in TeamId : team[t] # NoTeam}
Of(c)     == {t \in There : team[t].comp = c}
Roster(t) == {s \in Student : member[t][s] # "absent"}

Op      == ops < MaxOps /\ ops' = ops + 1
Ends(q) == req' = [req EXCEPT ![q] = Idle]

(***************************************************************************)
(* register_team.                                                          *)
(***************************************************************************)

HasSubs(d) == \E t \in Of(d.comp) : team[t].cat = d.cat /\ team[t].sub # NoSub

(* Faulty variant: subcategory = NULL, which no row satisfies. *)
ListingEqual(d) ==
  {t \in Of(d.comp) : team[t].cat = d.cat /\ team[t].sub = d.sub /\ d.sub # NoSub}

(* list_teams filters by the subcategory only if there is one to filter by. *)
Listing(d) ==
  {t \in Of(d.comp) : team[t].cat = d.cat /\ (d.sub \in Sub => team[t].sub = d.sub)}

NameTaken(d) == \E t \in Listing(d) : team[t].name = d.name

(* Faulty variant: the search stops at the subcategory. *)
AlreadyEnteredHere(d, s) == \E t \in Of(d.comp) : team[t].sub = d.sub /\ s \in Roster(t)

AlreadyEntered(d, s) == \E t \in Of(d.comp) : s \in Roster(t)

(* The reads: the competition stands, a subcategory is given if the category *)
(* has any, the name is free, every student is active.  Who is in another    *)
(* team of the competition is warned of, not refused.                        *)
Register(q, d, S) ==
  /\ req[q].step = "idle" /\ Op
  /\ comp[d.comp] = "there"
  /\ d.sub = NoSub => ~HasSubs(d)
  /\ ~NameTaken(d)
  /\ S # {} /\ S \subseteq active
  /\ req' = [req EXCEPT ![q] =
       [Idle EXCEPT !.step = "register", !.draft = d, !.who = S,
                    !.warn = {s \in S : AlreadyEntered(d, s)}]]
  /\ UNCHANGED <<rows, told, ghost>>

(* Requests still between their reads and their insert learn of team t. *)
Missed(t) == [p \in Request |-> IF req[p].step = "register"
                                THEN [req[p] EXCEPT !.since = @ \cup {t}] ELSE req[p]]

(* The insert of the row into teams and of its rows into team_members: the  *)
(* commit of the first activity log commits them all.                       *)
Insert(q, t) ==
  LET r == req[q] IN
  /\ ids' = t
  /\ team' = [team EXCEPT ![t] = r.draft]
  /\ member' = [member EXCEPT ![t] = [s \in Student |-> IF s \in r.who THEN "unpaid" ELSE "absent"]]
  /\ joined' = joined \cup ({t} \X r.who)
  /\ warned' = warned \cup ({t} \X r.warn)
  /\ raced' = raced \cup ({t} \X r.since)
  /\ UNCHANGED <<comp, phase, ledger, active, ranked, edited>>

(* The foreign key of competition_id refuses a competition that is gone. *)
RegisterCommit(q) ==
  /\ req[q].step = "register" /\ ids < MaxTeams
  /\ IF comp[req[q].draft.comp] = "there"
     THEN /\ Insert(q, ids + 1)
          /\ req' = [Missed(ids + 1) EXCEPT ![q] =
               [Idle EXCEPT !.step = "registered", !.who = req[q].who, !.team = ids + 1]]
     ELSE Ends(q) /\ UNCHANGED <<rows, ghost>>
  /\ UNCHANGED <<told, ops>>

(* The refresh of the row fails if the team is gone by then; otherwise a    *)
(* notice per student is queued.                                            *)
Notify(q, what) ==
  /\ told' = IF req[q].team \notin There THEN told
             ELSE told \cup {<<what, req[q].team, s>> : s \in req[q].who}
  /\ Ends(q)
  /\ UNCHANGED <<rows, ops, ghost>>

RegisterNotify(q) == req[q].step = "registered" /\ Notify(q, "registered")

(***************************************************************************)
(* update_placement.                                                       *)
(***************************************************************************)

(* Faulty variant: the notices are queued before the commit. *)
PlaceTold(q, t) ==
  /\ req[q].step = "idle" /\ Op
  /\ t \in There /\ phase[team[t].comp] = "open"
  /\ req' = [req EXCEPT ![q] = [Idle EXCEPT !.step = "place", !.team = t]]
  /\ told' = told \cup {<<"placed", t, s>> : s \in Roster(t)}
  /\ UNCHANGED <<rows, ghost>>

(* The competition has been held, at most 30 days ago, or has no date. *)
Place(q, t) ==
  /\ req[q].step = "idle" /\ Op
  /\ t \in There /\ phase[team[t].comp] = "open"
  /\ req' = [req EXCEPT ![q] = [Idle EXCEPT !.step = "place", !.team = t]]
  /\ UNCHANGED <<rows, told, ghost>>

(* The update of a row that is gone fails; the members are those there now. *)
PlaceCommit(q) ==
  /\ req[q].step = "place"
  /\ IF req[q].team \in There
     THEN /\ ranked' = ranked \cup {req[q].team}
          /\ req' = [req EXCEPT ![q].step = "placed", ![q].who = Roster(req[q].team)]
     ELSE Ends(q) /\ UNCHANGED ranked
  /\ UNCHANGED <<comp, phase, team, ids, member, ledger, active, told, ops, ghost>>

PlaceNotify(q) == req[q].step = "placed" /\ Notify(q, "placed")

(***************************************************************************)
(* remove_team_member and delete_team: nobody whose amount_paid is above   *)
(* zero, by their reads; nobody a payment refers to, by the foreign key.   *)
(***************************************************************************)
Remove(q, t, s) ==
  /\ req[q].step = "idle" /\ Op
  /\ t \in There /\ member[t][s] = "unpaid"
  /\ req' = [req EXCEPT ![q] = [Idle EXCEPT !.step = "remove", !.team = t, !.who = {s}]]
  /\ UNCHANGED <<rows, told, ghost>>

RemoveCommit(q) ==
  LET t == req[q].team IN
  /\ req[q].step = "remove"
  /\ member' = IF ledger \cap ({t} \X req[q].who) # {} THEN member
               ELSE [member EXCEPT ![t] = [s \in Student |-> IF s \in req[q].who THEN "absent" ELSE @[s]]]
  /\ Ends(q)
  /\ UNCHANGED <<comp, phase, team, ids, ledger, active, ranked, told, ops, ghost>>

DeleteTeam(q, t) ==
  /\ req[q].step = "idle" /\ Op
  /\ t \in There /\ \A s \in Student : member[t][s] # "paid"
  /\ req' = [req EXCEPT ![q] = [Idle EXCEPT !.step = "deleteTeam", !.team = t]]
  /\ UNCHANGED <<rows, told, ghost>>

(* Faulty variant: the members are trusted to be those that were read. *)
DeleteTeamCommitUnchecked(q) ==
  LET t == req[q].team IN
  /\ req[q].step = "deleteTeam"
  /\ team' = [team EXCEPT ![t] = NoTeam] /\ member' = [member EXCEPT ![t] = NoMembers]
  /\ Ends(q)
  /\ UNCHANGED <<comp, phase, ids, ledger, active, ranked, told, ops, ghost>>

(* The members go with their team, unless a payment refers to one. *)
DeleteTeamCommit(q) ==
  LET t == req[q].team IN
  /\ req[q].step = "deleteTeam"
  /\ IF ledger \cap ({t} \X Student) # {} THEN UNCHANGED <<team, member>>
     ELSE team' = [team EXCEPT ![t] = NoTeam] /\ member' = [member EXCEPT ![t] = NoMembers]
  /\ Ends(q)
  /\ UNCHANGED <<comp, phase, ids, ledger, active, ranked, told, ops, ghost>>

(***************************************************************************)
(* pay_competition_fee and refund_competition_fee.                         *)
(***************************************************************************)
Pay(q, t, s) ==
  /\ req[q].step = "idle" /\ Op
  /\ t \in There /\ s \in Roster(t)
  /\ req' = [req EXCEPT ![q] = [Idle EXCEPT !.step = "pay", !.team = t, !.who = {s}]]
  /\ UNCHANGED <<rows, told, ghost>>

(* The receipt and its payment row are committed, if the member stands. *)
PayReceipt(q) ==
  LET t == req[q].team IN
  /\ req[q].step = "pay"
  /\ IF req[q].who \subseteq Roster(t)
     THEN /\ ledger' = ledger \cup ({t} \X req[q].who)
          /\ req' = [req EXCEPT ![q].step = "paid"]
     ELSE Ends(q) /\ UNCHANGED ledger
  /\ UNCHANGED <<comp, phase, team, ids, member, active, ranked, told, ops, ghost>>

(* Only then amount_paid is written. *)
RecordPayment(q) ==
  LET t == req[q].team IN
  /\ req[q].step = "paid"
  /\ member' = [member EXCEPT ![t] = [s \in Student |-> IF s \in req[q].who THEN "paid" ELSE @[s]]]
  /\ Ends(q)
  /\ UNCHANGED <<comp, phase, team, ids, ledger, active, ranked, told, ops, ghost>>

(* The whole of what was paid is refunded; less than that leaves it "paid". *)
Refund(t, s) ==
  /\ Op /\ member[t][s] = "paid"
  /\ member' = [member EXCEPT ![t][s] = "unpaid"]
  /\ UNCHANGED <<comp, phase, team, ids, ledger, active, ranked, told, req, ghost>>

(***************************************************************************)
(* Edits of one row: no validation stands between the read and the write.  *)
(***************************************************************************)

(* update_team: any of name, category and subcategory, but none to NULL. *)
UpdateTeam(t, d) ==
  /\ Op /\ t \in There /\ d.comp = team[t].comp /\ d # team[t]
  /\ d.sub = NoSub => team[t].sub = NoSub
  /\ team' = [team EXCEPT ![t] = d]
  /\ edited' = edited \cup {t}
  /\ UNCHANGED <<comp, phase, ids, member, ledger, active, ranked, told, req, joined, warned, raced>>

CreateCompetition(c) ==
  /\ Op /\ comp[c] = "absent" /\ comp' = [comp EXCEPT ![c] = "there"]
  /\ UNCHANGED <<phase, team, ids, member, ledger, active, ranked, told, req, ghost>>

(* Days pass, and update_competition moves the date either way. *)
MoveDate(c, p) ==
  /\ Op /\ p # phase[c] /\ phase' = [phase EXCEPT ![c] = p]
  /\ UNCHANGED <<comp, team, ids, member, ledger, active, ranked, told, req, ghost>>

DeleteCompetition(q, c) ==
  /\ req[q].step = "idle" /\ Op
  /\ comp[c] = "there" /\ Of(c) = {}
  /\ req' = [req EXCEPT ![q] = [Idle EXCEPT !.step = "deleteComp", !.comp = c]]
  /\ UNCHANGED <<rows, told, ghost>>

(* Faulty variant: the teams are trusted to be none still. *)
DeleteCompetitionCommitUnchecked(q) ==
  /\ req[q].step = "deleteComp"
  /\ comp' = [comp EXCEPT ![req[q].comp] = "gone"]
  /\ Ends(q)
  /\ UNCHANGED <<phase, team, ids, member, ledger, active, ranked, told, ops, ghost>>

(* The foreign key refuses it if a team was registered since. *)
DeleteCompetitionCommit(q) ==
  LET c == req[q].comp IN
  /\ req[q].step = "deleteComp"
  /\ comp' = IF Of(c) # {} THEN comp ELSE [comp EXCEPT ![c] = "gone"]
  /\ Ends(q)
  /\ UNCHANGED <<phase, team, ids, member, ledger, active, ranked, told, ops, ghost>>

(* A student becomes active or stops to be. *)
SetStatus(s) ==
  /\ Op /\ active' = IF s \in active THEN active \ {s} ELSE active \cup {s}
  /\ UNCHANGED <<comp, phase, team, ids, member, ledger, ranked, told, req, ghost>>

(* The process ends with the requests it serves. *)
Crash ==
  /\ req' = [q \in Request |-> Idle] /\ req' # req
  /\ UNCHANGED <<rows, told, ops, ghost>>

(***************************************************************************)
(* The specification.                                                      *)
(***************************************************************************)
Asks(q) ==
  \/ \E d \in TeamRow, S \in SUBSET Student : Register(q, d, S)
  \/ \E t \in TeamId : \/ Place(q, t) \/ DeleteTeam(q, t)
                       \/ \E s \in Student : Remove(q, t, s) \/ Pay(q, t, s)
  \/ \E c \in Competition : DeleteCompetition(q, c)

Goes(q) ==
  \/ RegisterCommit(q) \/ RegisterNotify(q) \/ PlaceCommit(q) \/ PlaceNotify(q)
  \/ RemoveCommit(q) \/ DeleteTeamCommit(q) \/ PayReceipt(q) \/ RecordPayment(q)
  \/ DeleteCompetitionCommit(q)

Edits ==
  \/ \E t \in TeamId : \/ \E s \in Student : Refund(t, s)
                       \/ \E d \in TeamRow : UpdateTeam(t, d)
  \/ \E c \in Competition : \/ CreateCompetition(c)
                            \/ \E p \in {"before", "open", "closed"} : MoveDate(c, p)
  \/ \E s \in Student : SetStatus(s)

Next == (\E q \in Request : Asks(q) \/ Goes(q)) \/ Edits \/ Crash

Spec == Init /\ [][Next]_vars

(***************************************************************************)
(* Properties.                                                             *)
(***************************************************************************)

(* A team never loses its competition, nor a member its team, although the   *)
(* deletions look for teams and members before the deleting transaction.     *)
TeamsHaveCompetitions ==
  /\ \A t \in There : comp[team[t].comp] = "there"
  /\ \A t \in TeamId \ There : Roster(t) = {}

(* A payment never loses the member it was made for, refunded or not, and no *)
(* member counts as paid without one, whatever requests to pay, to remove    *)
(* and to delete overlap.                                                    *)
PaymentsKeepTheirMembers ==
  \A t \in TeamId, s \in Student :
    /\ <<t, s>> \in ledger => s \in Roster(t)
    /\ member[t][s] = "paid" => <<t, s>> \in ledger

(* Nobody is told of a registration or of a placement that was not committed. *)
ToldIsTrue ==
  \A t \in TeamId, s \in Student :
    /\ <<"registered", t, s>> \in told => <<t, s>> \in joined
    /\ <<"placed", t, s>> \in told => <<t, s>> \in joined /\ t \in ranked

Overlapped(t, u) == <<t, u>> \in raced \/ <<u, t>> \in raced

(* Two teams of a competition share a student only if the administrator was  *)
(* warned of it, or if the two were registered by overlapping requests.      *)
DuplicatesAreWarned ==
  \A t, u \in There, s \in Student :
    /\ t < u /\ team[t].comp = team[u].comp /\ s \in Roster(t) \cap Roster(u)
    => <<u, s>> \in warned \/ Overlapped(t, u)

(* Two teams share name, category and subcategory only if one of them was    *)
(* renamed or moved, or if overlapping requests registered them.             *)
NameClashesAreExplained ==
  \A t, u \in There :
    t # u /\ team[t] = team[u] => t \in edited \/ u \in edited \/ Overlapped(t, u)
=============================================================================
