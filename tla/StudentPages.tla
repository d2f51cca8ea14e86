---------------------------- MODULE StudentPages ----------------------------
(***************************************************************************)
(* What the lists, profiles, histories, reports and audits over the tables *)
(* of Students tell.  Each is a query of its own: some leave out deleted   *)
(* students, some count enrollments for students.  An operator here is one *)
(* of them.  Pages of a list, ages, genders and dates are left out.        *)
(***************************************************************************)
EXTENDS Students

(* Groups are finitely many, and not found is none of the other answers. *)
ASSUME PagesAssumption ==
  /\ IsFiniteSet(Group)
  /\ NoRow \notin Parent \cup Status
  /\ NoRow \notin {"set", "error", "deleted", "restored", "soft_deleted", "permanently_deleted"}
  /\ \A S \in SUBSET StudentId : S # NoRow
  /\ NoRow \notin [row : [status : Status, groups : SUBSET Group],
                   parents : SUBSET Parent, siblings : SUBSET StudentId]

With(st)  == {s \in Live : student[s].status = st}
Groups(s) == {g \in Group : <<s, g>> \in enrolled}
Row(s)    == [status |-> student[s].status, groups |-> Groups(s)]

(***************************************************************************)
(* Lists: GET /students, its counts and its filters.  A row shows one of   *)
(* the groups, the one of the last enrollment.                             *)
(***************************************************************************)
ListAll   == [s \in Live |-> Row(s)]
Search(W) == [s \in {t \in Live : student[t].who \in W} |-> Row(s)]

Count(activeOnly) == Cardinality(IF activeOnly THEN With("active") ELSE Live)

(* The total that is told with the list of all is svc.count(), and that    *)
(* counts active students only.                                            *)
ListTotal == Count(TRUE)

CountByStatus(st) == Cardinality(With(st))

(* The inactive of the summary are all that are not active. *)
StatusSummary ==
  LET inactive == Count(FALSE) - Count(TRUE) IN
  [total |-> Count(TRUE) + inactive, active |-> Count(TRUE), inactive |-> inactive,
   waiting |-> CountByStatus("waiting")]

WaitingList == With("waiting")

Enriched(includeInactive) ==
  [s \in {t \in Live : includeInactive \/ student[t].status = "active"} |-> Row(s)]

Grouped(includeInactive) ==
  LET rowOf == Enriched(includeInactive) IN
  [st \in {rowOf[s].status : s \in DOMAIN rowOf} |-> {s \in DOMAIN rowOf : rowOf[s].status = st}]

(* The type an entry of the log has. *)
Words  == {"registered", "deleted", "enrolled"} \cup Status
TypeOf == [word \in Words |-> CASE word = "registered" -> "registration"
                               [] word = "deleted"    -> "deletion"
                               [] word = "enrolled"   -> "enrollment"
                               [] OTHER               -> "status_change"]
Types  == {TypeOf[word] : word \in Words}

(* What can be asked of the filter; meets are the students whom the criteria *)
(* on age, gender, course, day, instructor, balance and dates let through.   *)
Filters == [statuses : SUBSET Status, types : SUBSET Types, atLeast : 0 .. MaxOps,
            meets : SUBSET StudentId]

ActivityCount(s, types) ==
  Cardinality({e \in log : e[2] = s /\ (types # {} => TypeOf[e[1]] \in types)})

(* The types narrow what is counted; with no bound on the count they filter *)
(* nothing.                                                                 *)
FilterStudents(f) ==
  [s \in {t \in Live \cap f.meets : /\ f.statuses # {} => student[t].status \in f.statuses
                                   /\ ActivityCount(t, f.types) >= f.atLeast} |-> Row(s)]

(* By a status that there is none of, a bad request. *)
ByStatus(st) == IF st \in Status THEN With(st) ELSE NoRow

ListDeleted == There \ Live

(***************************************************************************)
(* Profiles: parents, siblings and payments of a student.                  *)
(***************************************************************************)
ParentsOf(s) == {m \in Parent : <<s, m>> \in link}

(* get_student_siblings_with_details: deleted siblings are among them. *)
Siblings(s) == {t \in There \ {s} : ParentsOf(t) \cap ParentsOf(s) # {}}

(* find_siblings, which decides on a discount: they are not. *)
FindSiblings(s) == {t \in Live \ {s} : \E m \in ParentsOf(s) : <<t, m>> \in link}

(* v_siblings: neither of the two is deleted. *)
SiblingPairs == {x \in Live \X Live : x[1] # x[2] /\ ParentsOf(x[1]) \cap ParentsOf(x[2]) # {}}

(* get_student_details, for a student that is not deleted. *)
Details(s) ==
  [row |-> Row(s), parents |-> ParentsOf(s), siblings |-> Siblings(s)]

(* list_student_payments: whether the student is deleted is not asked. *)
PaymentsPage(s) == PaidBy(s) \ VoidOf(PaidBy(s))

(***************************************************************************)
(* What the endpoints of one student answer, NoRow for not found.  Parents *)
(* and payments are listed of any id; a plain delete of a student that is  *)
(* there fails, and says of any other that it was deleted.                 *)
(***************************************************************************)
IfLive(s, page) == IF s \in Live THEN page ELSE NoRow

GetStudent(s)  == IfLive(s, student[s])
GetDetails(s)  == IfLive(s, Details(s))
GetSiblings(s) == IfLive(s, Siblings(s))
GetParents(s)  == {m \in ParentsOf(s) : m \in parent}
GetPayments(s) == [data |-> PaymentsPage(s), total |-> Cardinality(PaymentsPage(s))]
GetParent(m)   == IF m \in parent THEN m ELSE NoRow

DeleteAnswer(s)     == IF s \in Live THEN "error" ELSE "deleted"
SoftDeleteAnswer(s) == IfLive(s, "soft_deleted")
RestoreAnswer(s)    == IF s \in ListDeleted THEN "restored" ELSE NoRow
HardDeleteAnswer(s) == IF s \in There THEN "permanently_deleted" ELSE NoRow

(* PATCH status: a value that is no status is a bad request of any id.     *)
StatusAnswer(s, st) == IF st \notin Status THEN "400" ELSE IfLive(s, st)

(* POST status/toggle: "between active and waiting" (students_router.py:364)*)
(* is between active and inactive; who waits becomes active.               *)
ToggleAnswer(s) == IfLive(s, IF student[s].status = "active" THEN "inactive" ELSE "active")

(* PATCH waiting-priority: also of a student who is not on the waiting     *)
(* list, whom the 404 says not to find.                                    *)
PriorityAnswer(s) == IfLive(s, "set")

ActivePayments  == Paid \ VoidOf(Paid)
DeletedPayments == VoidOf(Paid)

(***************************************************************************)
(* Histories, of the activity log.                                         *)
(***************************************************************************)
Timeline(s)          == {e \in log : e[2] = s}
OfType(s, types)     == {e \in Timeline(s) : TypeOf[e[1]] \in types}
StatusHistory(s)     == OfType(s, {"status_change"})
EnrollmentHistory(s) == OfType(s, {"enrollment", "enrollment_change"})
ActivitySummary(s)   == [type \in {TypeOf[e[1]] : e \in Timeline(s)} |->
                           Cardinality(OfType(s, {type}))]

(* GET history takes the types to show, and shows all. *)
HistoryPage(s, types) == Timeline(s)
SummaryPage(s)        == {<<type, ActivitySummary(s)[type]>> : type \in DOMAIN ActivitySummary(s)}
StatusPage(s)         == [data |-> StatusHistory(s), total |-> Cardinality(StatusHistory(s))]
EnrollmentPage(s)     == [data  |-> EnrollmentHistory(s),
                          total |-> Cardinality(EnrollmentHistory(s))]

(* Of all students, the deleted among them; 0 stands for no student asked. *)
RecentActivities == log
SearchActivities(types, s) ==
  {e \in log : (types # {} => TypeOf[e[1]] \in types) /\ (s # 0 => e[2] = s)}

(* v_student_activity_timeline: a row without its student is left out. *)
TimelineView == {e \in log : e[2] \in There}

(***************************************************************************)
(* Reports and audits.                                                     *)
(***************************************************************************)

(* active_students: of the KPI header the students, of the weekly and the  *)
(* monthly report the enrollments, those of deleted students among them.   *)
KpiActive    == Cardinality(With("active"))
ReportActive == Cardinality(enrolled)

WaitingSummary    == Cardinality(With("waiting"))
FoundingCohort(C) == [st \in Status |-> Cardinality(With(st) \cap C)]
NewStudents       == Cardinality(Live)
MissingBirthDates == Cardinality({s \in Live : student[s].who \in Undated})

(* v_audit_ghost_payments, one of the errors that business metrics count. *)
GhostPayments == {p \in ActivePayments : payment[p].by \in There \ Live}

(* v_audit_orphaned_payments; C is the payments of payment_type            *)
(* course_level.                                                           *)
OrphanedPayments(C) ==
  {p \in ActivePayments \cap C : payment[p].by \in Live /\ payment[p].for = {}}

(***************************************************************************)
(* Properties.                                                             *)
(***************************************************************************)
(* A sum of counts: as many pairs. *)
Sum(count) == Cardinality(UNION {{x} \X (1 .. count[x]) : x \in DOMAIN count})

Sizes(set) == [x \in DOMAIN set |-> Cardinality(set[x])]

AllPass == [statuses |-> {}, types |-> {}, atLeast |-> 0, meets |-> StudentId]

(* Every student is listed or can be recovered, once; the total that comes *)
(* with the list falls short of it by those that wait or are inactive, and *)
(* the summary counts those that wait among the inactive.                  *)
ListsAgree ==
  /\ There = DOMAIN ListAll \cup ListDeleted
  /\ Cardinality(DOMAIN ListAll) - ListTotal = StatusSummary.inactive
  /\ StatusSummary.inactive = CountByStatus("inactive") + StatusSummary.waiting
  /\ StatusSummary.total = Sum(Sizes(Grouped(TRUE)))
  /\ DOMAIN Grouped(FALSE) \subseteq {"active"} /\ WaitingSummary = CountByStatus("waiting")
  /\ \A w \in Person \ Undated : Known(w) <=> DOMAIN Search({w}) # {}
  /\ NewStudents - MissingBirthDates = Cardinality(DOMAIN Search(Person \ Undated))
  /\ \A C \in SUBSET StudentId :
       Sum(FoundingCohort(C))
         = Cardinality(DOMAIN FilterStudents([AllPass EXCEPT !.meets = C]))

(* Whoever waits and is shown with a group was put back on the waiting     *)
(* list; the enrollments a report counts beyond those of the lists are of  *)
(* deleted students, and no list or audit tells of them.                   *)
GroupsAgree ==
  LET shown == Enriched(TRUE) IN
  /\ \A s \in WaitingList : Row(s).groups # {} => s \in rewaited
  /\ ReportActive - Sum([s \in DOMAIN shown |-> Cardinality(ListAll[s].groups)])
       = Sum([s \in ListDeleted |-> Cardinality(Groups(s))])

(* A profile shows the siblings a discount is decided on and the deleted   *)
(* ones; whoever is a sibling has this one for a sibling.                  *)
SiblingsAgree ==
  /\ \A s \in Live :
       /\ Details(s).siblings \ FindSiblings(s) = Details(s).siblings \cap ListDeleted
       /\ FindSiblings(s) = {t \in Live : <<s, t>> \in SiblingPairs}
  /\ \A x \in SiblingPairs : <<x[2], x[1]>> \in SiblingPairs

(* A payment that its student's page does not show went with a level; one  *)
(* that came back when the student was restored belongs to no enrollment.  *)
(* A deleted student has a payment on the page only if it came later, and  *)
(* the audit finds it.  Overlapping requests excepted.                     *)
PaymentsAgree ==
  \A s \in There :
    /\ PaymentsPage(s) \cup (DeletedPayments \cap PaidBy(s)) = PaidBy(s)
    /\ s \in Live => PaymentsPage(s) \cap undone \subseteq OrphanedPayments(undone)
    /\ s \in torn \/ IF s \in Live THEN PaidBy(s) \ PaymentsPage(s) \subseteq undone
                      ELSE PaymentsPage(s) \subseteq late \cap GhostPayments

(* The histories of a student divide what was logged of the student, and   *)
(* the view of all leaves nothing out.  A search by type finds what the    *)
(* histories hold, which stay when the student is deleted, and the filter  *)
(* finds the students that have one.                                       *)
HistoriesAgree ==
  /\ TimelineView = RecentActivities
  /\ \A s \in There :
       /\ Sum(ActivitySummary(s)) = Cardinality(HistoryPage(s, {}))
       /\ \A x \in SummaryPage(s) : x[1] = "enrollment" => x[2] = EnrollmentPage(s).total
       /\ StatusPage(s).data \cup EnrollmentPage(s).data
            = SearchActivities({"status_change", "enrollment"}, s)
       /\ \A types \in SUBSET Types : SearchActivities(types, s) \subseteq HistoryPage(s, types)
  /\ SearchActivities({}, 0) = UNION {HistoryPage(s, {}) : s \in DOMAIN ListAll \cup ListDeleted}
  /\ \A types \in {{}, {"enrollment"}}, least \in 0 .. 1 :
       DOMAIN FilterStudents([AllPass EXCEPT !.types = types, !.atLeast = least])
         = {s \in Live : least = 1 => SearchActivities(types, s) # {}}

(* Whoever is listed can be opened and deleted, whoever is in the list of  *)
(* deleted ones restored, and no one else; a plain delete says it deleted  *)
(* whoever cannot be opened.  What is left of a deleted student is parents,*)
(* payments and history, and of one that is gone nothing.                  *)
AnswersAgree ==
  \A s \in StudentId :
    /\ GetStudent(s) # NoRow <=> s \in UNION {ByStatus(st) : st \in Status}
    /\ GetDetails(s) # NoRow <=> GetStudent(s) # NoRow
    /\ GetSiblings(s) # NoRow =>
         \A t \in GetSiblings(s) : t \in ListDeleted \/ GetStudent(t) # NoRow
    /\ SoftDeleteAnswer(s) # NoRow <=> DeleteAnswer(s) = "error"
    /\ \A st \in Status : StatusAnswer(s, st) = NoRow <=> PriorityAnswer(s) = NoRow
    /\ ToggleAnswer(s) # NoRow => ToggleAnswer(s) # GetStudent(s).status
    /\ HardDeleteAnswer(s) # NoRow <=> SoftDeleteAnswer(s) # NoRow \/ RestoreAnswer(s) # NoRow
    /\ HardDeleteAnswer(s) = NoRow =>
         GetParents(s) = {} /\ GetPayments(s).total = 0 /\ HistoryPage(s, {}) = {}
    /\ GetParents(s) = ParentsOf(s) /\ \A m \in GetParents(s) : GetParent(m) # NoRow

(* Whichever list, profile, history or report is asked, the students,      *)
(* groups, siblings and payments it tells of are the same but for the      *)
(* differences that the parts name.  They are looked at while no request   *)
(* is in progress: what is committed stays when one is cut off.            *)
StudentPagesAgree ==
  (\A q \in Request : req[q].step = "idle") =>
    ListsAgree /\ GroupsAgree /\ SiblingsAgree /\ PaymentsAgree /\ HistoriesAgree
    /\ AnswersAgree
=============================================================================
