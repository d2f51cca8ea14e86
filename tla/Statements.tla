----------------------------- MODULE Statements -----------------------------
(***************************************************************************)
(* What the queries over the tables of Payments tell: the balance view and *)
(* the views over it, the lists of debtors, the rosters, the statements of *)
(* a student, and the takings of a day, a method, a group or a type.  Each *)
(* is a query of its own over the same rows, with its own joins and its    *)
(* own filters; an operator here is one of them.                           *)
(*                                                                         *)
(* No student is deleted, every receipt has paid_at, and no row is a       *)
(* 'charge' (nothing writes one).  A member is one whose row is there.     *)
(***************************************************************************)
EXTENDS Payments, FiniteSets

CONSTANTS
  Student, StudentOf,  \* whose an account is
  Open,                \* the levels whose group is active
  Old,                 \* enrollments of more than 30 days ago
  Lessons,             \* how many sessions of its level an enrollment has tomorrow
  FeeDue,              \* team_members.amount_due
  Day, DayOf,          \* days, and the day of the receipt of each row
  Method, MethodOf     \* payment methods, and that of the receipt of each row

ASSUME StatementsAssumption ==
  /\ IsFiniteSet(Account) /\ IsFiniteSet(Student) /\ IsFiniteSet(Day) /\ IsFiniteSet(Method)
  /\ StudentOf \in [Account -> Student]
  /\ \A e \in Enrollment : \E l \in Level : e \in l
  /\ \A l, k \in Level : l = k \/ l \cap k = {}
  /\ Open \subseteq Level /\ Old \subseteq Enrollment
  /\ Lessons \in [Enrollment -> Nat] /\ FeeDue \in [Member -> Nat]
  /\ Day \subseteq Nat /\ DayOf \in [PaymentId -> Day]
  /\ MethodOf \in [PaymentId -> Method]

Enrolled     == Enrollment \ gone
Having(ss)   == {e \in Enrolled : Status[e] \in ss}
Of(s)        == {e \in Enrolled : StudentOf[e] = s}
Memberships(s) == {m \in Member : roster[m] = "in" /\ StudentOf[m] = s}

Positive(n)  == IF n > 0 THEN n ELSE 0
AtLeast1(n)  == IF n < 1 THEN 1 ELSE n

(* SUM over the rows in the domain of f, in pairs: those of the positive   *)
(* amounts less those of the negative ones.                                *)
Units(f) == UNION {{x} \X (1 .. f[x]) : x \in DOMAIN f}
Sum(f)   == Cardinality(Units(f)) - Cardinality(Units([x \in DOMAIN f |-> - f[x]]))

(* SUM(amount) over rows, by the kinds that are counted.                   *)
Amounts(rows, kinds) ==
  Sum([p \in {q \in rows : payments[q].kind \in kinds} |-> payments[p].amount])

Rows    == DOMAIN payments
Live    == Rows \ voided
RowsOf(e) == {p \in Rows : payments[p].account = e}
Net(rows) == Amounts(rows, {"payment"}) - Amounts(rows, {"refund"})

(***************************************************************************)
(* Debts.                                                                  *)
(***************************************************************************)

(* v_enrollment_balance.payment_status. *)
PaymentStatus(e) ==
  LET paid == Amounts(RowsOf(e), {"payment"}) IN
  CASE paid = 0                                             -> "not_paid"
    [] paid # 0 /\ netDue[e] <= Net(RowsOf(e))              -> "paid"
    [] OTHER                                                -> "partially_paid"

(* v_unpaid_enrollments: GREATEST(net_due - total_paid, 0) > 0.  As in the *)
(* schema, with the rows that are voided; migration 080 leaves them out,   *)
(* as BalanceOwed does, and UnpaidListsAreOne says that it is all one.     *)
UnpaidEnrollments ==
  {e \in Having({"active"}) : Positive(netDue[e] - Net(RowsOf(e))) > 0}

BalanceOwed(e) == netDue[e] - Net(RowsOf(e) \cap Live)

(* v_finance_outstanding_balances, v_finance_high_risk_balances. *)
Outstanding == {e \in Having({"active"}) : BalanceOwed(e) > 0}
HighRisk    == {e \in Having({"active"}) \cap Old : BalanceOwed(e) > 0}

(* v_audit_overpaid_enrollments. *)
Overpaid == {e \in Enrolled : Net(RowsOf(e) \cap Live) > netDue[e]}

(* v_finance_summary: what is owed. *)
Summary ==
  [revenue  |-> Net(Live),
   owed     |-> Sum([e \in Outstanding |-> BalanceOwed(e)]),
   highRisk |-> Sum([e \in HighRisk |-> BalanceOwed(e)])]

(* Faulty variant: credits are set off against debts. *)
DebtWithCredits(es) == Sum([e \in es |-> - Balance(e)])

(* SUM(-balance) WHERE balance < 0. *)
Debt(es) == Sum([e \in {x \in es : Balance(x) < 0} |-> - Balance(e)])

(* get_outstanding_by_group, get_top_debtors. *)
OutstandingByGroup == [l \in Open |-> Debt(l \cap Enrolled)]
TopDebtors         == [s \in Student |-> Debt(Of(s))]

(* The line of a receipt that tells what is left to pay. *)
BalanceRemaining(s) == Positive(- Sum([e \in Of(s) |-> Balance(e)]))

(* fetch_tomorrow_preview and fetch_session3_unpaid join every session of  *)
(* a student with every debt of the student before they sum.               *)
OwedTomorrow(s) ==
  Sum([e \in Of(s) |-> Lessons[e]]) * Debt(Of(s))
OwedAfterThird(s) ==
  Sum([e \in Of(s) \cap Having({"active"}) |-> Lessons[e]]) * Debt(Of(s))

(***************************************************************************)
(* Rosters: SUM(amount) of the rows, whatever their kind.                  *)
(***************************************************************************)
TotalPaid(e) == Amounts(RowsOf(e) \cap Live, {"payment", "refund"})

RosterBalance(e) == netDue[e] - TotalPaid(e)

(* get_roster_for_group_level, of the dashboard and of enrollments. *)
DashboardRoster(l) ==
  [e \in l \cap Having({"active"}) |-> IF RosterBalance(e) > 0 THEN "due" ELSE "paid"]
GroupRoster(l) ==
  [e \in l \cap Having({"active", "completed"}) |->
     IF RosterBalance(e) > 0 THEN "due" ELSE "paid"]

(* get_enrollments_by_group_with_students. *)
GroupEnrollments(l) ==
  [e \in l \cap Enrolled |->
     CASE RosterBalance(e) <= 0                       -> "paid"
       [] RosterBalance(e) > 0 /\ TotalPaid(e) > 0    -> "partial"
       [] OTHER                                       -> "due"]

(* get_payment_stats_by_levels. *)
LevelStats(l) ==
  LET es == l \cap Having({"active", "completed"}) IN
  [expected |-> Sum([e \in es |-> netDue[e]]),
   due      |-> Sum([e \in es |-> Positive(RosterBalance(e))]),
   unpaid   |-> Cardinality({e \in es : RosterBalance(e) > 0})]

(***************************************************************************)
(* Queries that join enrollments with payments before they sum: what is    *)
(* due is counted once for each row of the enrollment.                     *)
(***************************************************************************)
BilledByRow(es) ==
  Sum([e \in es |-> netDue[e] * AtLeast1(Cardinality(RowsOf(e) \cap Live))])

CollectedOf(es) == Sum([e \in es |-> Net(RowsOf(e) \cap Live)])

(* v_finance_collection_rate_by_group, v_finance_group_revenue_summary. *)
CollectionByGroup(l) ==
  LET es == l \cap Having({"active"}) IN BilledByRow(es) - CollectedOf(es)
GroupRevenue(l) == BilledByRow(l \cap Enrolled) - CollectedOf(l \cap Enrolled)

(* v_finance_revenue_by_course, for a course of the levels ls. *)
RevenueByCourse(ls) ==
  LET es == (UNION ls) \cap Enrolled IN BilledByRow(es) - CollectedOf(es)

(* get_group_payments: an enrollment without rows is not counted at all. *)
PaymentsTab(l) ==
  LET rows     == {p \in Live : payments[p].account \in l \cap Enrolled}
      expected == Sum([p \in rows |-> netDue[payments[p].account]])
  IN  [expected |-> expected, collected |-> Net(rows), due |-> Positive(expected - Net(rows))]

(***************************************************************************)
(* The statements of a student.                                            *)
(***************************************************************************)
FeesBalance(s) == Sum([m \in Memberships(s) |-> amountPaid[m] - FeeDue[m]])
FeesUnpaid(s)  == {m \in Memberships(s) : FeeDue[m] > amountPaid[m]}

(* BalanceService.get_student_balance_summary. *)
FinanceSummary(s) ==
  LET es == Of(s) \cap Having({"active"}) IN
  [net    |-> Sum([e \in es |-> Balance(e)]) + FeesBalance(s),
   unpaid |-> {e \in es : Balance(e) < 0} \cup FeesUnpaid(s)]

(* StudentRepository.get_student_balance_summary: only payments count. *)
CrmSummary(s) ==
  LET es      == Of(s) \cap Having({"active", "completed"})
      paid(e) == Amounts(RowsOf(e), {"payment"})
  IN  [net    |-> Sum([e \in es |-> paid(e) - netDue[e]]) + FeesBalance(s),
       unpaid |-> {e \in es : netDue[e] - paid(e) > 0} \cup FeesUnpaid(s)]

(* v_bi_payment_completeness. *)
Completeness(e) ==
  LET paid == Amounts(RowsOf(e) \cap Live, {"payment"}) IN
  CASE netDue[e] <= 0                                     -> "no_charge"
    [] netDue[e] > 0 /\ paid = 0                          -> "unpaid"
    [] netDue[e] > 0 /\ paid # 0 /\ paid >= netDue[e]     -> "fully_paid"
    [] OTHER                                              -> "partially_paid"

(***************************************************************************)
(* Takings.                                                                *)
(***************************************************************************)
On(rows, ds) == {p \in rows : DayOf[p] \in ds}

Type(p)  == IF payments[p].account \in Member THEN "competition" ELSE "course_level"
Types    == {"competition", "course_level"}

(* get_revenue_by_date, get_revenue_by_method: voided rows count. *)
RevenueByDate(ds)   == [d \in ds |-> Net(On(Rows, {d}))]
RevenueByMethod(ds) == [c \in Method |-> Net({p \in On(Rows, ds) : MethodOf[p] = c})]

(* get_revenue_metrics, for the days up to the last. *)
RevenueMetrics(start) ==
  [total    |-> Sum(RevenueByDate({d \in Day : d >= start})),
   previous |-> Sum(RevenueByDate({d \in Day : d < start}))]

(* get_daily_collections. *)
DailyCollections(d) ==
  [c \in Method |-> Amounts({p \in On(Rows, {d}) : MethodOf[p] = c}, {"payment"})]

(* v_daily_collections. *)
CollectionsOn(d) ==
  [collected |-> Amounts(On(Live, {d}), {"payment"}),
   refunded  |-> Amounts(On(Live, {d}), {"refund"}),
   net       |-> Net(On(Live, {d}))]

(* The daily report: _fetch_revenue and _fetch_payments. *)
DailyRevenue(d)   == Net(On(Rows, {d}))
DailySubtotals(d) ==
  [t \in Types |-> Amounts({p \in On(Live, {d}) : Type(p) = t}, {"payment", "refund"})]

(* Faulty variant: the refunds of the week are left out. *)
WeeklyGross(ds) ==
  [revenue |-> Amounts(On(Live, ds), {"payment"}),
   debt    |-> Debt(Enrolled),
   groups  |-> [l \in Level |-> Amounts({p \in On(Live, ds) :
                  payments[p].account \in l \cap Enrolled}, {"payment"})]]

(* _fetch_weekly_aggregates. *)
WeeklyReport(ds) ==
  [revenue |-> Net(On(Live, ds)),
   debt    |-> Debt(Enrolled),
   groups  |-> [l \in Level |-> Amounts({p \in On(Live, ds) :
                  payments[p].account \in l \cap Enrolled}, {"payment"})]]

(* _fetch_monthly_aggregates; the matrix of courses counts voided rows. *)
MonthlyReport(ds) == [revenue |-> Net(On(Live, ds)), debt |-> Debt(Enrolled)]
RevenueByType(ds) ==
  [t \in Types |-> Amounts({p \in On(Live, ds) : Type(p) = t}, {"payment"})]
CourseMatrix(ds) ==
  [l \in Level |-> Amounts({p \in On(Rows, ds) : payments[p].account \in l \cap Enrolled},
                           {"payment"})]

(* v_finance_monthly_revenue. *)
MonthlyRevenue(ds) ==
  [gross    |-> Amounts(On(Live, ds), {"payment"}),
   refunded |-> Amounts(On(Live, ds), {"refund"}),
   net      |-> Net(On(Live, ds))]

(* v_finance_payment_method_breakdown, v_bi_payment_method_mix. *)
MethodMix(ds) ==
  [c \in Method |-> Amounts({p \in On(Live, ds) : MethodOf[p] = c}, {"payment"})]

(* v_bi_kpi_header.revenue_all_time, v_bi_billed_vs_collected. *)
RevenueAllTime == Amounts(Live, {"payment"})
Billed         == Sum([e \in Enrolled |-> netDue[e]])

(***************************************************************************)
(* Properties.                                                             *)
(***************************************************************************)

(* A query reads the tables, not the requests: what it tells while a       *)
(* request has only read, it tells when there is none as well.             *)
Looking == \A w \in Request : tx[w].step \in {"idle", "record"}

(* The lists of debts are one list: v_unpaid_enrollments, the accounts     *)
(* receivable and its "subset" of high risk, the debtors of the dashboard, *)
(* of the reports and of the groups, the note on a receipt.  The note sets *)
(* a credit off against the debts of the student, the lists do not; a      *)
(* student with several lessons is listed with a multiple of the debt.     *)
ListsAgree ==
  /\ UnpaidEnrollments = Outstanding /\ HighRisk \subseteq Outstanding
  /\ \A e \in UnpaidEnrollments : PaymentStatus(e) # "paid"
  /\ Summary.owed = Debt(Having({"active"}))
  /\ LET total == WeeklyReport(Day).debt IN
     /\ total = MonthlyReport(Day).debt
     /\ total = Sum(TopDebtors)
     /\ total = Sum(OutstandingByGroup) + Debt((UNION (Level \ Open)) \cap Enrolled)
     /\ total - Sum([e \in Overpaid |-> Balance(e)])
          = Billed - Sum([e \in Enrolled |-> received[e] - returned[e]])
  /\ \A s \in Student :
       /\ BalanceRemaining(s) <= TopDebtors[s]
       /\ Of(s) \cap Overpaid = {} => BalanceRemaining(s) = TopDebtors[s]
       /\ OwedTomorrow(s) >= OwedAfterThird(s)
       /\ Sum([e \in Of(s) |-> Lessons[e]]) = 1 => OwedTomorrow(s) = TopDebtors[s]

(* Rosters and statements that ignore the kind of a row, or the refunds,   *)
(* never ask for money that is not owed; they tell the balance exactly as  *)
(* long as nothing was refunded.                                           *)
RostersAgree ==
  \A l \in Level :
    /\ \A e \in l \cap Enrolled :
         /\ RosterBalance(e) = - Balance(e) - 2 * returned[e]
         /\ returned[e] = 0 /\ received[e] > 0 /\ netDue[e] > 0 =>
              <<PaymentStatus(e), GroupEnrollments(l)[e], Completeness(e)>> \in
                {<<"paid", "paid", "fully_paid">>,
                 <<"partially_paid", "partial", "partially_paid">>}
    /\ \A e \in DOMAIN DashboardRoster(l) :
         /\ DashboardRoster(l)[e] = GroupRoster(l)[e]
         /\ DashboardRoster(l)[e] = "due" => e \in UnpaidEnrollments
    /\ LevelStats(l).due <= Debt(l \cap Enrolled)
    /\ LevelStats(l).unpaid = Cardinality({e \in DOMAIN GroupRoster(l) : GroupRoster(l)[e] = "due"})

(* The two statements of a student differ by what was refunded and by the  *)
(* enrollments that are completed, which only one of them counts.          *)
StudentsAgree ==
  \A s \in Student :
    LET active == Of(s) \cap Having({"active"})
        done   == Of(s) \cap Having({"completed"}) IN
    /\ CrmSummary(s).unpaid \subseteq FinanceSummary(s).unpaid \cup done
    /\ CrmSummary(s).net - FinanceSummary(s).net
         = Sum([e \in done |-> Balance(e)]) + Sum([e \in active \cup done |-> returned[e]])

(* What is due is counted once for each row of payments: a group looks     *)
(* worse than it is, and is right when no enrollment has two rows.  The    *)
(* payments tab leaves out the enrollments without a row besides.          *)
GroupsAgree ==
  /\ RevenueByCourse(Level) = Sum([l \in Level |-> GroupRevenue(l)])
  /\ \A l \in Level :
    LET es   == l \cap Enrolled
        owed == Sum([e \in es |-> - Balance(e)])
        one  == \A e \in es : Cardinality(RowsOf(e)) <= 1 IN
    /\ GroupRevenue(l) >= owed
    /\ one => GroupRevenue(l) = owed
    /\ es \subseteq Having({"active"}) => CollectionByGroup(l) = GroupRevenue(l)
    /\ PaymentsTab(l).expected <= GroupRevenue(l) + PaymentsTab(l).collected
    /\ one => PaymentsTab(l).due <= Debt(es)

(* Whoever asks who owes what, in whichever list, roster or statement, is  *)
(* told the same but for the differences that the four parts name.         *)
DebtsAgree == Looking => ListsAgree /\ RostersAgree /\ StudentsAgree /\ GroupsAgree

(* The takings are one sum, split by day, by method, by account or by      *)
(* group, once it is said which rows are counted: the analytics and the    *)
(* daily report count voided rows, the weekly and monthly reports and the  *)
(* views do not ("exclude voided payments"), the BI views and collections  *)
(* leave refunds out, the subtotals of a report add them.  A refund of a   *)
(* voided row, which the code allows, counts although its payment does not.*)
TakingsAgree ==
  Looking =>
  LET weekly == WeeklyReport(Day)
      late   == {p \in Live : payments[p].account \in gone} IN
  /\ Sum([a \in Account |-> received[a] - returned[a]]) = Net(Rows)
  /\ Sum(RevenueByDate(Day)) = Net(Rows)
  /\ Sum(RevenueByMethod(Day)) = Net(Rows)
  /\ \A d \in Day : RevenueMetrics(d).total + RevenueMetrics(d).previous = Net(Rows)
  /\ \A d \in Day :
       /\ DailyRevenue(d) - CollectionsOn(d).net = Net(On(voided, {d}))
       /\ Sum(DailySubtotals(d))
            = CollectionsOn(d).net + 2 * CollectionsOn(d).refunded
       /\ Sum(DailyCollections(d))
            = CollectionsOn(d).collected + Amounts(On(voided, {d}), {"payment"})
  /\ Sum([d \in Day |-> CollectionsOn(d).net]) = weekly.revenue
  /\ weekly.revenue = MonthlyReport(Day).revenue /\ weekly.revenue = Summary.revenue
  /\ weekly.revenue = MonthlyRevenue(Day).net
  /\ RevenueAllTime - MonthlyRevenue(Day).refunded = weekly.revenue
  /\ Sum(MethodMix(Day)) = RevenueAllTime
  /\ Sum(RevenueByType(Day)) = RevenueAllTime
  /\ weekly.groups = CourseMatrix(Day)
  /\ Sum(weekly.groups) = RevenueByType(Day)["course_level"]
  /\ weekly.revenue = Sum([a \in Account \ gone |-> received[a] - returned[a]]) + Net(late)
  /\ \A p \in late : payments[p].kind = "refund"
=============================================================================
