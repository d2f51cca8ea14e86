------------------------------ MODULE TeamPages ------------------------------
(***************************************************************************)
(* What the pages of competitions and teams show: one operator per query   *)
(* of competition_service.py, team_service.py and their repositories, over *)
(* the tables of Teams.  Names, dates and the order of the rows are left   *)
(* out; which teams somebody coaches, which no other column depends on, is *)
(* a parameter.                                                            *)
(***************************************************************************)
EXTENDS Teams

(***************************************************************************)
(* Lists of teams.                                                         *)
(***************************************************************************)

(* Filters: NoSub stands for none given, and the empty string filters as   *)
(* little (`if category:`).                                                *)
Passes(t, k, u) == (k \in Category => team[t].cat = k) /\ (u \in Sub => team[t].sub = u)

ListTeams(c, k, u)         == {t \in Of(c) : Passes(t, k, u)}
ListForCoach(C, c, k, u)   == {t \in Of(c) \cap C : Passes(t, k, u)}

(* A user is an administrator, or a coach who is linked to an employee (of *)
(* the teams C) or to none.                                                *)
User == [role : {"admin"}, linked : BOOLEAN, coaches : {{}}]
          \cup [role : {"coach"}, linked : {TRUE}, coaches : SUBSET TeamId]
          \cup [role : {"coach"}, linked : {FALSE}, coaches : {{}}]

ListForUser(w, c, k, u) ==
  IF w.role # "admin" /\ w.linked THEN ListForCoach(w.coaches, c, k, u) ELSE ListTeams(c, k, u)

MembersForUser(w, c, k, u) == [t \in ListForUser(w, c, k, u) |-> Roster(t)]

(* get_team_for_user *)
Opens(w, t) == t \in There /\ (w.role = "admin" \/ (w.linked /\ t \in w.coaches))

(* One query for the members of all the teams of a competition. *)
MembersOf(T)        == {p \in T \X Student : p[2] \in Roster(p[1])}
Batch(c)            == [teams |-> Of(c), members |-> MembersOf(Of(c))]
WithMembers(c, k, u) ==
  [t \in {t \in Batch(c).teams : Passes(t, k, u)} |-> {p[2] : p \in {q \in Batch(c).members : q[1] = t}}]

(* The roster of a team; the page takes the name of the team from it. *)
RosterPage(t) == [name |-> IF Roster(t) = {} THEN "Unknown" ELSE team[t].name, rows |-> Roster(t)]

(***************************************************************************)
(* Competitions.                                                           *)
(***************************************************************************)
DistinctCategories(c) == {<<team[t].cat, team[t].sub>> : t \in Of(c)}
Categories(c) ==
  [k \in {r[1] : r \in DistinctCategories(c)} |->
     {u \in Sub : <<k, u>> \in DistinctCategories(c)}]

(* The rows of the outer join of teams with members: a team without members *)
(* has one row.                                                             *)
SummaryRows(c) == {<<p[1], {p[2]}>> : p \in MembersOf(Of(c))}
                    \cup {<<t, {}>> : t \in {t \in Of(c) : Roster(t) = {}}}

(* Teams by category and subcategory, each with its members. *)
Summary(c) ==
  [g \in DistinctCategories(c) |->
     {[team |-> t, members |-> UNION {r[2] : r \in {r \in SummaryRows(c) : r[1] = t}}] :
        t \in {t \in Of(c) : <<team[t].cat, team[t].sub>> = g}}]

Shown(c) == UNION {Summary(c)[g] : g \in DOMAIN Summary(c)}

Totals(c) == [teams        |-> Cardinality(Shown(c)),
              participants |-> Cardinality(UNION {{x.team} \X x.members : x \in Shown(c)})]

(***************************************************************************)
(* A student.                                                              *)
(***************************************************************************)

(* Memberships, each with its team and, if it stands, its competition.     *)
Memberships(s) == {[team |-> t, comp |-> IF comp[team[t].comp] = "there" THEN {team[t].comp} ELSE {}] :
                     t \in {t \in There : s \in Roster(t)}}

StudentCompetitions(s) == {[team |-> m.team, cat |-> team[m.team].cat, comp |-> m.comp] :
                             m \in Memberships(s)}

(* The log of a fee names the first membership the database returns for    *)
(* the student, which is any of them.                                      *)
LoggedTeam(s) == {t \in TeamId : s \in Roster(t)}

(***************************************************************************)
(* Properties.                                                             *)
(***************************************************************************)
Anything == Category \cup {NoSub}

(* Each way to list the teams of a competition tells the same.  A coach's  *)
(* list holds the teams the coach may open; only a user linked to nobody   *)
(* is shown teams that the same user may not open.                         *)
ListsAgree(c, k, u) ==
  /\ WithMembers(c, k, u) = [t \in ListTeams(c, k, u) |-> Roster(t)]
  /\ \A w \in User : LET seen == MembersForUser(w, c, k, u) IN
       /\ \A t \in DOMAIN seen : seen[t] = WithMembers(c, k, u)[t]
       /\ w.role = "admin" \/ w.linked =>
            DOMAIN seen = {t \in ListTeams(c, k, u) : Opens(w, t)}
       /\ ~(w.role = "admin" \/ w.linked) => \A t \in DOMAIN seen : ~Opens(w, t)

(* The categories offered find every team that has one, and those without  *)
(* a named subcategory are found by their category alone.  A registration  *)
(* that must give a subcategory where none is offered has a team with an   *)
(* empty one to blame.                                                     *)
CategoriesFind(c) ==
  /\ DOMAIN Categories(c) = {g[1] : g \in DOMAIN Summary(c)}
  /\ \A k \in DOMAIN Categories(c) :
       /\ \A u \in Categories(c)[k] : ListTeams(c, k, u) # {}
       /\ \A t \in ListTeams(c, k, NoSub) :
            \/ \E u \in Categories(c)[k] : t \in ListTeams(c, k, u)
            \/ team[t].sub \notin Sub /\ \A u \in Sub : t \notin ListTeams(c, k, u)
       /\ \A d \in TeamRow : d.comp = c /\ d.cat = k /\ HasSubs(d) =>
            Categories(c)[k] # {} \/ \E t \in Of(c) : team[t].sub = Blank

(* The summary shows every team once with its roster.  It counts           *)
(* memberships: a student in two of its teams counts twice, after a        *)
(* warning or because two registrations overlapped.                        *)
SummaryAgrees(c) ==
  LET students == UNION {Roster(t) : t \in Of(c)} IN
  /\ Shown(c) = {[team |-> t, members |-> Roster(t)] : t \in Of(c)}
  /\ Totals(c).teams = Cardinality(Of(c))
  /\ Totals(c).participants > Cardinality(students) =>
       \E t, u \in Of(c) : t < u /\ \E s \in Roster(t) \cap Roster(u) :
         <<u, s>> \in warned \/ Overlapped(t, u)

(* A student's page shows the teams whose rosters show the student, and    *)
(* none has lost its competition.  The log of a fee names the team it was  *)
(* paid for, unless the student is in other teams as well.                 *)
StudentsPagesAgree(s) ==
  /\ {x.team : x \in StudentCompetitions(s)} = {t \in There : s \in RosterPage(t).rows}
  /\ \A x \in StudentCompetitions(s) : x.comp = {team[x.team].comp}
  /\ \A t \in TeamId : <<t, s>> \in ledger =>
       LoggedTeam(s) = {t} \/ Cardinality(StudentCompetitions(s)) > 1

(* The pages agree.  They are looked at while no request is in progress:   *)
(* whatever is committed stays when the requests in progress are cut off.  *)
TeamPagesAgree ==
  (\A q \in Request : req[q].step = "idle") =>
    /\ \A c \in Competition :
         /\ \A k \in Anything, u \in Sub \cup {NoSub} : ListsAgree(c, k, u)
         /\ CategoriesFind(c) /\ SummaryAgrees(c)
         /\ comp[c] # "there" => Shown(c) = {}
    /\ \A s \in Student : StudentsPagesAgree(s)
=============================================================================
