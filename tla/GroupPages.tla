----------------------------- MODULE GroupPages -----------------------------
(***************************************************************************)
(* What the pages, reports and audits over the tables of GroupLevels tell: *)
(* the directory of groups, the tabs of a group, the dashboard of a day,   *)
(* the counts by course, instructor and slot, and the audit views.  Each   *)
(* is a query of its own with its own filters; an operator here is one of  *)
(* them.  No student is deleted, and every group has a course, an          *)
(* instructor, a day and a time.                                           *)
(***************************************************************************)
EXTENDS GroupLevels

CONSTANTS
  Course, CourseOf,   \* courses, and that of a group
  ActiveCourse,       \* the courses whose is_active is set
  Teacher, TeacherOf, \* employees who teach, and that of a group
  InstructorUser,     \* those of them with a user whose role is instructor
  Slot, SlotOf,       \* a day and a time, and those of a group
  Weekday, DayOf,     \* days of the week, and that of a slot
  Evening,            \* the slots from 17:00
  Capacity            \* groups.max_capacity

ASSUME PagesAssumption ==
  /\ IsFiniteSet(Student) /\ IsFiniteSet(Group)
  /\ IsFiniteSet(Course) /\ IsFiniteSet(Teacher) /\ IsFiniteSet(Slot)
  /\ CourseOf  \in [Group -> Course]  /\ ActiveCourse \subseteq Course
  /\ TeacherOf \in [Group -> Teacher] /\ InstructorUser \subseteq Teacher
  /\ SlotOf    \in [Group -> Slot]    /\ Evening \subseteq Slot
  /\ DayOf     \in [Slot -> Weekday]
  /\ Capacity  \in [Group -> Nat \ {0}]

Listed        == {i \in DOMAIN rows : rows[i].status # "deleted"}
Having(R, ss) == {i \in R : rows[i].status \in ss}
StudentsOf(R) == {rows[i].student : i \in R}
Positive(n)   == IF n > 0 THEN n ELSE 0
AtLeast1(n)   == IF n < 1 THEN 1 ELSE n
Taught(c)     == {g \in Group : CourseOf[g] = c}
RowsIn(G)     == UNION {RowsOf(g) : g \in G}

(* A sum of counts: as many pairs. *)
Sum(count) == Cardinality(UNION {{x} \X (1 .. count[x]) : x \in DOMAIN count})

(***************************************************************************)
(* The directory.                                                          *)
(***************************************************************************)

(* current_student_count, of every query of the directory. *)
CurrentCount(g) == Cardinality(RowsAt(g, current[g]) \cap Enrolled(g))

EnrichedGroups == [g \in open |-> CurrentCount(g)]

(* filter_groups_query, by level_numbers.                                  *)
FilterGroups(levels) ==
  [g \in {h \in open : levels # {} => current[h] \in levels} |-> CurrentCount(g)]

(* The page of a filter: a date or time that is none refuses it whole.     *)
FilterPage(levels, wellFormed) ==
  IF ~ wellFormed THEN [answer |-> "invalid"]
  ELSE [answer |-> "ok", total |-> Cardinality(DOMAIN FilterGroups(levels)),
        groups |-> DOMAIN FilterGroups(levels)]

(* get_groups_grouped, by a field of the group: only active groups are     *)
(* grouped, by status as well.                                             *)
GroupedBy(F) ==
  [k \in {F[g] : g \in DOMAIN EnrichedGroups} |-> {g \in DOMAIN EnrichedGroups : F[g] = k}]
GroupedByCourse == GroupedBy(CourseOf)
GroupedPage(field) ==
  LET P == CASE field = "course"     -> GroupedByCourse
             [] field = "instructor" -> GroupedBy(TeacherOf)
             [] field = "day"        -> GroupedBy([g \in Group |-> DayOf[SlotOf[g]]])
             [] field = "status"     -> GroupedBy([g \in Group |-> g \in open]) IN
  [groups |-> P, total |-> Cardinality(DOMAIN P)]

(* get_enriched_group: of a closed group as well. *)
EnrichedGroup(g) == [open |-> g \in open, level |-> current[g], count |-> CurrentCount(g)]

(* The groups a student of g may be moved to, and their free places. *)
Places(g)          == Positive(Capacity[g] - CurrentCount(g))
TransferOptions(g) == [h \in open \ {g} |-> Places(h)]

(***************************************************************************)
(* The tabs of a group: by level, for the levels that have a row.          *)
(***************************************************************************)

(* get_current_group_level: where a progression starts and what the list   *)
(* of sessions shows; 0 when no level is active.                           *)
ActiveLevels(g) == {l \in Level : level[g][l] = "active"}
CurrentLevel(g) == IF ActiveLevels(g) = {} THEN 0 ELSE Largest(ActiveLevels(g))

LevelPage(g, l) ==
  LET R == RowsAt(g, l) IN
  [total     |-> Cardinality(R),
   completed |-> Cardinality(Having(R, {"completed"})),
   dropped   |-> Cardinality(Having(R, {"dropped"}))]

LevelsDetailed(g) == [l \in Existing(g) |-> LevelPage(g, l)]

Counts(R) ==
  [total     |-> Cardinality(R),
   active    |-> Cardinality(Having(R, {"active"})),
   completed |-> Cardinality(Having(R, {"completed"})),
   dropped   |-> Cardinality(Having(R, {"dropped"}))]

EnrollmentsTab(g) ==
  [l \in Existing(g) |-> Counts(RowsAt(g, l))]

(* total_students of the payments tab, and the roster of an attendance     *)
(* grid.                                                                   *)
GridRoster(g, l) == Having(RowsAt(g, l), {"active", "completed"})
PaymentsTab(g)   == [l \in Existing(g) |-> Cardinality(GridRoster(g, l))]

(* get_enrollments_summary_by_group, without a level. *)
SummaryByGroup(g) ==
  {i \in RowsAt(g, current[g]) : rows[i].status # "dropped"}

(* get_group_enrollment_stats: no level is asked for. *)
EnrollmentHistory(g) == Counts(RowsOf(g))

(* The rows of the history, of one status or of all: what it counts above  *)
(* them is of all.                                                         *)
EnrollmentRows(g, ss) == Having(RowsOf(g), ss)
HistoryPage(g, ss)    == [counts |-> EnrollmentHistory(g), rows |-> EnrollmentRows(g, ss)]

(* get_group_instructors_summary: a level has the instructor of its group. *)
InstructorSummary(g) ==
  [t \in {TeacherOf[g]} |-> [levels  |-> Cardinality(Existing(g)),
                             current |-> ActiveLevels(g) # {}]]
InstructorHistory(g) ==
  LET I == InstructorSummary(g) IN
  [total |-> Cardinality(DOMAIN I), current |-> {t \in DOMAIN I : I[t].current}]

(* The enrollments of a student, whatever their status. *)
StudentEnrollments(s) == {i \in Listed : rows[i].student = s}

(***************************************************************************)
(* The requests about one level, by what they answer.                      *)
(***************************************************************************)
GetLevel(g, l) == IF level[g][l] = "none" THEN "not found" ELSE level[g][l]

EditAnswer(g, l) ==
  CASE GetLevel(g, l) = "not found" -> "not found"
    [] level[g][l] = "active"       -> "updated"
    [] OTHER                        -> "refused"

CancelAnswer(g, l) ==
  CASE GetLevel(g, l) = "not found"              -> "not found"
    [] level[g][l] \in {"completed", "cancelled"} -> "refused"
    [] OTHER                                     -> "cancelled"

(* Payments and attendance of the level do not refuse it, although the     *)
(* description of the request and two tests expect 409 for them            *)
(* (group_details_router.py:63,69, test_group_levels.py:109,141): payments *)
(* are voided and attendance deleted (lifecycle/service.py:458-504).       *)
DeleteAnswer(g, l) ==
  CASE GetLevel(g, l) = "not found"           -> "not found"
    [] l # Largest(Existing(g)) \/ l = 1      -> "refused"
    [] OTHER                                  -> "deleted"

(* To the level asked for, or to the next one. *)
ProgressAnswer(g, asked) ==
  LET from == CurrentLevel(g)
      to   == IF asked = 0 THEN from + 1 ELSE asked IN
  IF from = 0 \/ to <= from \/ to \in Existing(g) THEN "refused" ELSE "progressed"

(***************************************************************************)
(* The dashboard of a day: the count is of the group, the roster of its    *)
(* current level.                                                          *)
(***************************************************************************)
StudentCount(g)    == Cardinality(Enrolled(g))
DashboardRoster(g) == RowsAt(g, current[g]) \cap Enrolled(g)

(***************************************************************************)
(* Counts by course, instructor and slot.                                  *)
(***************************************************************************)

(* get_active_enrollment_count. *)
ActiveEnrollments == Cardinality(Having(Listed, {"active"}))

(* get_course_completion, get_retention_metrics. *)
Completion(c) ==
  LET R == RowsIn(Taught(c)) IN
  [started   |-> Cardinality(Having(R, {"active", "completed"})),
   completed |-> Cardinality(Having(R, {"completed"})),
   dropped   |-> Cardinality(Having(R, {"dropped"})),
   active    |-> Cardinality(Having(R, {"active"}))]
Retention(c) ==
  LET R == RowsIn(Taught(c)) IN
  [active |-> Cardinality(Having(R, {"active"})),
   dropped |-> Cardinality(Having(R, {"dropped"})), total |-> Cardinality(R)]

(* get_level_retention_funnel: a row counts at its level until it is       *)
(* dropped, transferred or not.                                            *)
Funnel(c, l) ==
  Cardinality({i \in RowsIn(Taught(c)) : rows[i].level = l /\ rows[i].status # "dropped"})

(* v_course_stats, of the courses that are active; "ever" leaves out who   *)
(* was only ever transferred.                                              *)
CourseStats ==
  [c \in ActiveCourse |->
     LET R == RowsIn(Taught(c)) IN
     [groups   |-> Taught(c), active |-> Taught(c) \cap open,
      ever     |-> StudentsOf(Having(R, {"active", "completed", "dropped"})),
      students |-> StudentsOf(Having(R, {"active"}))]]

TaughtBy(t) == {g \in open : TeacherOf[g] = t}
HeldAt(u)   == {g \in open : SlotOf[g] = u}
HeldOn(d)   == {g \in open : DayOf[SlotOf[g]] = d}

(* get_instructor_performance: of the employees who have a user with the   *)
(* role instructor, with or without a group, by enrollment.                *)
Performance ==
  [t \in InstructorUser |->
     [groups   |-> Cardinality(TaughtBy(t)),
      students |-> Cardinality(Having(RowsIn(TaughtBy(t)), {"active"}))]]

(* v_bi_instructor_load: of the employees with an active group, by student.*)
InstructorLoad ==
  [t \in {TeacherOf[g] : g \in open} |->
     [groups   |-> Cardinality(TaughtBy(t)),
      students |-> Cardinality(StudentsOf(Having(RowsIn(TaughtBy(t)), {"active"})))]]

(* get_schedule_utilization, by day and time: max_capacity is summed once  *)
(* for each student.                                                       *)
Utilization ==
  [u \in {SlotOf[g] : g \in open} |->
     [enrolled |-> Cardinality(Having(RowsIn(HeldAt(u)), {"active"})),
      capacity |-> Sum([g \in HeldAt(u) |-> Capacity[g] * AtLeast1(StudentCount(g))])]]

(* v_bi_weekly_schedule, by day: a group is counted once for each student. *)
CountedIn(G) == Sum([g \in G |-> AtLeast1(StudentCount(g))])
WeeklySchedule ==
  [d \in {DayOf[SlotOf[g]] : g \in open} |->
     [afternoon |-> CountedIn({g \in HeldOn(d) : SlotOf[g] \notin Evening}),
      evening   |-> CountedIn({g \in HeldOn(d) : SlotOf[g] \in Evening}),
      total     |-> CountedIn(HeldOn(d)),
      students  |-> Cardinality(StudentsOf(Having(RowsIn(HeldOn(d)), {"active"})))]]

(* v_bi_groups_over_capacity. *)
OverCapacity == {g \in Group : Cardinality(StudentsOf(Enrolled(g))) > Capacity[g]}

(* v_bi_enrollment_status. *)
StatusBreakdown == [st \in RowStatus |-> Cardinality(Having(Listed, {st}))]

(***************************************************************************)
(* The audit views, which look for what should not be there.               *)
(***************************************************************************)
DuplicateEnrollments ==
  {p \in Student \X Group :
     Cardinality({i \in Enrolled(p[2]) : rows[i].student = p[1]}) > 1}
LevelMismatch == {i \in Listed : rows[i].level \notin Existing(rows[i].group)}
DeadGroupEnrollments == {i \in Having(Listed, {"active"}) : rows[i].group \notin open}

(***************************************************************************)
(* Properties.                                                             *)
(***************************************************************************)
(* A request changes the tables when it commits: what a query tells while  *)
(* one has only read, it tells when there is none as well.                 *)
Looking == \A w \in Request : tx[w] = Idle

(* The level that is shown: while no level of a group is cancelled, its    *)
(* level_number is the level that a progression starts from and whose      *)
(* sessions are listed.  Once one is, the group may fall back to a level   *)
(* that is completed, or stay at the cancelled one, and the next           *)
(* progression starts elsewhere or nowhere.                                *)
ShownLevels ==
  \A g \in Group :
    \/ current[g] = CurrentLevel(g)
    \/ /\ \E l \in Level : level[g][l] = "cancelled"
       /\ level[g][current[g]] = "active" => current[g] < CurrentLevel(g)

(* The tabs list level by level what the history counts at once: nothing   *)
(* but the code keeps every enrollment at a level that has a row.          *)
TabsAreComplete ==
  /\ LevelMismatch = {} /\ DuplicateEnrollments = {}
  /\ \A g \in Group :
       LET tab      == EnrollmentsTab(g)
           detailed == LevelsDetailed(g)
           payments == PaymentsTab(g)
           history  == EnrollmentHistory(g) IN
       /\ \A f \in DOMAIN history : Sum([l \in DOMAIN tab |-> tab[l][f]]) = history[f]
       /\ DOMAIN detailed = DOMAIN tab
       /\ \A l \in DOMAIN tab :
            LET row == tab[l]
                page == detailed[l] IN
            \A f \in DOMAIN page : page[f] = row[f]
       /\ Sum(payments) = history.active + history.completed
       /\ DashboardRoster(g) = Having(SummaryByGroup(g), {"active"})
       /\ tab[current[g]].active = CurrentCount(g)

(* The counts of the directory are of the current level, those of the      *)
(* dashboard and the courses of all: they are one as long as everyone is   *)
(* at the current level.  A group with places may be over its capacity,    *)
(* and a slot never looks fuller than a group with one student.  The       *)
(* performance of the instructors leaves out the groups of an employee who *)
(* has no user for it; the load has them, and counts a student of two      *)
(* groups once.  The slots of a day have the enrollments of its students,  *)
(* and the day counts a group at least as often.                           *)
CountsAgree ==
  /\ \A g \in Group :
       LET behind == {i \in Enrolled(g) : rows[i].level # current[g]} IN
       /\ StudentCount(g) - CurrentCount(g) = Cardinality(behind)
       /\ g \in OverCapacity /\ behind = {} => Places(g) = 0
       /\ \A h \in DOMAIN TransferOptions(g) :
            TransferOptions(g)[h] = 0 => StudentCount(h) >= Capacity[h]
  /\ LET listed == EnrichedGroups
         shelf  == GroupedByCourse IN
     Sum([c \in DOMAIN shelf |-> Sum([g \in shelf[c] |-> listed[g]])])
       = Sum([l \in Level |-> Sum(FilterGroups({l}))])
  /\ ActiveEnrollments = Sum([g \in Group |-> StudentCount(g)])
  /\ LET perf   == Performance
         load   == InstructorLoad
         userless == {i \in Having(Listed, {"active"}) :
                      rows[i].group \in open /\ TeacherOf[rows[i].group] \notin InstructorUser} IN
     /\ ActiveEnrollments - Cardinality(DeadGroupEnrollments)
          = Sum([t \in DOMAIN perf |-> perf[t].students]) + Cardinality(userless)
     /\ \A t \in DOMAIN perf :
          IF t \in DOMAIN load
          THEN load[t].groups = perf[t].groups /\ load[t].students <= perf[t].students
          ELSE perf[t].students = 0
  /\ LET use  == Utilization
         week == WeeklySchedule IN
     \A d \in DOMAIN week :
       LET slots == {u \in DOMAIN use : DayOf[u] = d} IN
       /\ \A u \in slots : use[u].enrolled <= use[u].capacity
       /\ week[d].students <= Sum([u \in slots |-> use[u].enrolled])
       /\ Sum([u \in slots |-> use[u].enrolled]) <= week[d].total
       /\ week[d].total = week[d].afternoon + week[d].evening

(* The counts of a course: the levels of the funnel add up to who was not  *)
(* dropped.  A student is lost to the "ever" of the courses only with      *)
(* courses that are not active any more, or when the enrollment the        *)
(* student was transferred to went with a level that was deleted.          *)
CoursesAgree ==
  /\ Sum([c \in Course |-> Retention(c).total]) = Sum(StatusBreakdown)
  /\ \A c \in Course :
       LET done  == Completion(c) IN
       /\ Retention(c).active = done.active
       /\ Sum([l \in UNION {Existing(g) : g \in Taught(c)} |-> Funnel(c, l)])
            = done.started + Cardinality(Having(RowsIn(Taught(c)), {"transferred"}))
  /\ \A c \in DOMAIN CourseStats :
       LET stats == CourseStats[c] IN
       /\ stats.students \subseteq stats.ever
       /\ Cardinality(stats.students) <= Completion(c).active
       /\ Cardinality(stats.groups) = 1 => Cardinality(stats.students) = Completion(c).active
  /\ \A s \in StudentsOf(Listed) :
       \/ \E c \in DOMAIN CourseStats : s \in CourseStats[c].ever
       \/ \E i \in Listed : rows[i].student = s /\ CourseOf[rows[i].group] \notin ActiveCourse
       \/ \E i \in Having(Listed, {"transferred"}) :
            rows[i].student = s /\ ~ \E j \in Listed : rows[j].source = i

(* What may be asked next is what the pages suggest.  While no level is    *)
(* cancelled, the level that is shown can be edited and cancelled, and the *)
(* next one can be started.  Once one is, the group may be left without a  *)
(* level to progress from or an instructor: deleting its last level, which *)
(* the code does but at level 1 (and not only without payments and         *)
(* attendance, as its description says), is then the way back, unless      *)
(* level 1 is cancelled itself.                                            *)
RequestsAgree ==
  \A g \in Group :
    LET cancelled == {l \in Level : level[g][l] = "cancelled"}
        deletable == {l \in Level : DeleteAnswer(g, l) = "deleted"}
        stuck     == \A k \in 0 .. MaxLevel + 1 : ProgressAnswer(g, k) = "refused" IN
    /\ stuck <=> InstructorHistory(g).current = {}
    /\ cancelled = {} =>
         /\ EditAnswer(g, current[g]) = "updated"
         /\ CancelAnswer(g, current[g]) = "cancelled"
         /\ ProgressAnswer(g, 0) = "progressed"
         /\ deletable = {current[g]} \ {1}
    /\ stuck => 1 \in cancelled \/ deletable # {}
    /\ \A l \in deletable : l > 1 /\ GetLevel(g, l - 1) # "not found"

(* Every enrollment is told of once, wherever it is asked for.  The        *)
(* history counts a transferred one in its total alone.                    *)
ListsAgree ==
  /\ Listed = UNION {StudentEnrollments(s) : s \in Student}
  /\ \A g \in Group :
       LET page   == HistoryPage(g, {"transferred"})
           counts == page.counts IN
       /\ counts.total = Cardinality(page.rows)
                           + counts.active + counts.completed + counts.dropped
       /\ EnrichedGroup(g).count <= counts.active
       /\ g \in open => g \in FilterPage({EnrichedGroup(g).level}, TRUE).groups
  /\ \A f \in {"course", "instructor", "day", "status"} :
       LET P == GroupedPage(f).groups IN
       /\ UNION {P[k] : k \in DOMAIN P} = open
       /\ \A j, k \in DOMAIN P : j # k => P[j] \cap P[k] = {}

(* When requests come one at a time and levels are not skipped, whichever  *)
(* page, count or audit is asked, the levels and enrollments it tells of   *)
(* are the same but for the differences that the parts name, and what it   *)
(* shows can be asked for.                                                 *)
PagesAgree ==
  Looking => /\ ShownLevels /\ TabsAreComplete /\ CountsAgree /\ CoursesAgree
             /\ RequestsAgree /\ ListsAgree
=============================================================================
