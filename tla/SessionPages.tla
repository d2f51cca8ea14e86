---------------------------- MODULE SessionPages ----------------------------
(***************************************************************************)
(* What the pages, statistics and reports tell of the sessions of a level  *)
(* and the attendance of its students: one operator per query, over the    *)
(* tables of SessionSchedule.  Students of the level are marked together   *)
(* (mark_session_attendance takes the whole list), so each has the status  *)
(* attendance[s].  A report is about a set D of sessions, those dated on   *)
(* its day or in its period.                                               *)
(***************************************************************************)
EXTENDS SessionSchedule

CONSTANTS
  Students,   \* how many students the level has
  Today       \* the sessions that have the day of the report

ASSUME StudentsAssumption == Students \in Nat \ {0} /\ Today \subseteq SessionId

Stored    == {s \in SessionId : Exists(s)}
In(st)    == {s \in Stored : status[s] = st}
Marked(a) == {s \in Stored : attendance[s] = a}
AnyMark   == {s \in Stored : attendance[s] # "none"}

(***************************************************************************)
(* Lists of sessions.                                                      *)
(***************************************************************************)
ListByGroup(cancelled) == IF cancelled THEN Stored ELSE {s \in Stored : status[s] # "cancelled"}
ListByLevel            == Stored
CountSessions          == Cardinality(Held)
LevelComplete          == CountSessions >= PerLevel

(* The rows in the order the level is shown in: by number. *)
ShownBefore(s, t) == number[s] <= number[t]

(* filter_groups_query by session number, over sessions of any status. *)
AtNumber(n)        == {s \in Stored : number[s] = n}
BetweenNumbers(lo, hi) ==
  (\E s \in Stored : number[s] >= lo) /\ (\E s \in Stored : number[s] <= hi)

(* v_group_session_count counts rows of any status. *)
TotalSessions == Cardinality(Stored)

(* The dashboard of a day: the groups with a session of any status, the    *)
(* sessions it may show as today's, and the attendance of the level.       *)
ScheduledOn(D)    == D \cap Stored
TodaySession(D)   == ScheduledOn(D)
DashboardSessions == [s \in Stored |-> status[s]]
DashboardMarks    == [s \in DOMAIN DashboardSessions |->
                        IF attendance[s] = "none" THEN 0 ELSE Students]

(* get_daily_overview: a group is on it with all the sessions of its level *)
(* as soon as one of any status is dated on the day.                       *)
Overview(D, withAttendance) ==
  LET shown == IF TodaySession(D) = {} THEN {} ELSE DOMAIN DashboardSessions IN
  [groups |-> IF shown = {} THEN 0 ELSE 1,
   today  |-> TodaySession(D),
   shown  |-> shown,
   marks  |-> [s \in shown |-> IF withAttendance THEN DashboardMarks[s] ELSE 0]]

(***************************************************************************)
(* The attendance of one student in the level.                             *)
(***************************************************************************)

(* v_enrollment_attendance *)
View == [attended  |-> Cardinality(Marked("present")),
         missed    |-> Cardinality(Marked("absent")),
         cancelled |-> Cardinality(Marked("cancelled")),
         total     |-> Cardinality(AnyMark)]

(* The profile of a student: per enrollment, with the list of sessions. *)
Profile == [present |-> Cardinality(Marked("present")),
            absent  |-> Cardinality(Marked("absent")),
            listed  |-> AnyMark]

(* get_attendance_stats: a rate over the rows that are not cancelled. *)
Stats == [attended |-> Cardinality(Marked("present")),
          of       |-> Cardinality(AnyMark) - Cardinality(Marked("cancelled"))]

(* The group's page: attended of the rows there are. *)
GroupPage == [attended |-> Cardinality(Marked("present")), of |-> Cardinality(AnyMark)]

(* The summary of a group: attended of the sessions planned. *)
Summary == [attended |-> View.attended, of |-> PerLevel]

(* The progress page: attended of all the sessions there are. *)
Progress == [attended |-> View.attended, of |-> TotalSessions]

ProgressStatus ==
  IF Progress.attended * 10 >= Progress.of * 8 THEN "on_track"
  ELSE IF Progress.attended * 10 >= Progress.of * 6 THEN "at_risk"
  ELSE "behind"

(* The heat map and the attendance grid: a cell per session. *)
Heatmap == [s \in Stored |-> IF attendance[s] = "none" THEN "unmarked" ELSE attendance[s]]
Grid    == [s \in ListByLevel |-> attendance[s]]

FlightRisk == View.missed > 0

(***************************************************************************)
(* The reports, over the sessions D.                                       *)
(***************************************************************************)

(* The daily report counts attendance of sessions of any status. *)
Daily(D) == [held      |-> Cardinality(D \cap In("completed")),
             present   |-> Students * Cardinality(D \cap Marked("present")),
             absent    |-> Students * Cardinality(D \cap Marked("absent")),
             cancelled |-> Students * Cardinality(D \cap Marked("cancelled"))]

DailyRate(D) == [present |-> Daily(D).present,
                 of      |-> Daily(D).present + Daily(D).absent + Daily(D).cancelled]

(* Its details and the table of instructors are about completed sessions. *)
Details(D) == [s \in D \cap In("completed") |->
                 [present   |-> IF attendance[s] = "present" THEN Students ELSE 0,
                  absent    |-> IF attendance[s] = "absent" THEN Students ELSE 0,
                  cancelled |-> IF attendance[s] = "cancelled" THEN Students ELSE 0]]
InstructorsOn(D) == ScheduledOn(D) # {}
Taught(D)        == Cardinality(D \cap In("completed"))

(* The weekly and the monthly report count completed sessions only. *)
PeriodDetails(D) ==
  [s \in D \cap In("completed") |->
     [present   |-> IF attendance[s] = "present" THEN 1 .. Students ELSE {},
      absent    |-> IF attendance[s] = "absent" THEN 1 .. Students ELSE {},
      cancelled |-> IF attendance[s] = "cancelled" THEN Students ELSE 0]]
PeriodSessions(D) == Cardinality(D \cap In("completed"))
PeriodRate(D) == [present |-> Students * Cardinality(D \cap In("completed") \cap Marked("present")),
                  of      |-> Students * Cardinality(D \cap In("completed") \cap AnyMark)]

(* The monthly table of instructors joins sessions with attendance before  *)
(* it counts sessions: a row per student who was present, or one without.  *)
JoinPresent(s) == {s} \X (IF attendance[s] = "present" THEN 1 .. Students ELSE {0})
MonthTaught(D) == Cardinality(UNION {JoinPresent(s) : s \in D \cap In("completed")})

(* The list of debtors at the third session: the sessions it is made for.  *)
ThirdSession(D) == {s \in D \cap Stored : number[s] = 3 /\ status[s] \in {"completed", "scheduled"}}

(* The preview of tomorrow. *)
Preview(D) == LET S == D \cap In("scheduled") IN
  [sessions |-> Cardinality(S), students |-> IF S = {} THEN 0 ELSE Students]

(* v_bi_attendance_rate *)
BIRows(a) == Students * Cardinality(Marked(a))

(***************************************************************************)
(* Properties.                                                             *)
(***************************************************************************)
AnyDeleted == \E s \in SessionId : status[s] = "deleted"

(* With requests one at a time: the lists without cancelled sessions and   *)
(* the searches by number, which look at sessions of any status, find the  *)
(* same sessions, one for a number, and cancelled ones are shown first.    *)
(* The overview of a day shows each of them or none, and its marks are     *)
(* those of the level.                                                     *)
NumbersFind ==
  /\ ListByGroup(FALSE) = UNION {AtNumber(n) : n \in 1 .. MaxSessions}
  /\ \A n \in 1 .. MaxSessions : Cardinality(AtNumber(n)) <= 1
  /\ \A s \in In("cancelled"), t \in Held : ShownBefore(s, t) /\ ~ ShownBefore(t, s)
  /\ \A n \in 1 .. MaxSessions : AtNumber(n) # {} => BetweenNumbers(n, n)
  /\ \A s \in TodaySession(Today) : DashboardSessions[s] = "cancelled" <=> s \in AtNumber(0)
  /\ LET page == Overview(Today, TRUE) IN
     /\ page.groups = 1 <=> InstructorsOn(Today)
     /\ page.groups = 1 =>
          /\ page.shown = ListByGroup(TRUE) /\ page.today \subseteq page.shown
          /\ {s \in page.shown : page.marks[s] > 0} = AnyMark
     /\ Overview(Today, FALSE).shown = page.shown

(* Unless a session was deleted, whatever was cancelled, reactivated and   *)
(* added: the level is complete, and the report on the debtors of the      *)
(* third session is made exactly once for a level that gets so far.        *)
LevelIsTold ==
  /\ LevelComplete \/ AnyDeleted
  /\ Cardinality(ThirdSession(SessionId)) = (IF CountSessions >= 3 THEN 1 ELSE 0) \/ AnyDeleted
  /\ Cardinality(ThirdSession(SessionId)) <= 1

(* The six ways to tell a student's attendance agree on what was attended, *)
(* and their totals differ by what is cancelled, unmarked or unplanned.  A *)
(* student who was at every lesson is behind or at risk on the progress    *)
(* page only because it counts cancelled sessions.                         *)
AttendanceAgrees ==
  /\ View.total = View.attended + View.missed + View.cancelled
  /\ Stats.of = Profile.present + Profile.absent
  /\ GroupPage.of = Stats.of + View.cancelled
  /\ Cardinality(Profile.listed) + Cardinality({s \in Stored : Heatmap[s] = "unmarked"})
       = Progress.of
  /\ \A s \in Stored : Grid[s] = Heatmap[s] \/ Heatmap[s] = "unmarked"
  /\ \A s \in Stored : DashboardMarks[s] = 0 <=> Heatmap[s] = "unmarked"
  /\ Progress.of = CountSessions + Cardinality(In("cancelled"))
  /\ Held \subseteq Marked("present") /\ ProgressStatus # "on_track" => In("cancelled") # {}
  /\ Summary.of # CountSessions => AnyDeleted \/ \E s \in Stored : s > PerLevel
  /\ FlightRisk <=> Stats.attended # Stats.of

(* The reports of the days of a period add up to the report of the period, *)
(* except that a day counts attendance of sessions not completed, and that *)
(* the monthly table of instructors counts a session once per student who  *)
(* was present.                                                            *)
ReportsAgree ==
  LET All == SessionId
      Day == Today
      Rest == SessionId \ Today
  IN
  /\ Daily(Day).held + Daily(Rest).held = PeriodSessions(All)
  /\ DailyRate(Day).of + DailyRate(Rest).of
       = PeriodRate(All).of + Students * Cardinality(AnyMark \ In("completed"))
  /\ Students * Cardinality({s \in In("completed") : Details(All)[s].present > 0})
       = PeriodRate(All).present
  /\ \A s \in In("completed") :
       /\ Cardinality(PeriodDetails(All)[s].present) = Details(All)[s].present
       /\ Cardinality(PeriodDetails(All)[s].absent) = Details(All)[s].absent
       /\ PeriodDetails(All)[s].cancelled = Details(All)[s].cancelled
  /\ MonthTaught(All) = Taught(Day) + Taught(Rest)
       + (Students - 1) * Cardinality(In("completed") \cap Marked("present"))
  /\ Preview(All).sessions + PeriodSessions(All) = CountSessions
  /\ Taught(Day) > 0 \/ Preview(Day).sessions > 0 => InstructorsOn(Day)
  /\ BIRows("present") = DailyRate(Day).present + DailyRate(Rest).present

(* The pages agree.  They are looked at between requests: a request that   *)
(* has not committed can still roll back, and leaves the tables it found.  *)
Looking == \A w \in Request : tx[w].step = "idle"
SessionPagesAgree ==
  Looking => NumbersFind /\ LevelIsTold /\ AttendanceAgrees /\ ReportsAgree
=============================================================================
