---------------------------- MODULE ReceiptPages ----------------------------
(***************************************************************************)
(* What is told of single receipts, rows, accounts and rounds: the pages   *)
(* and papers of a receipt, the lists of payments, the assessment before a *)
(* payment, the audit views, and the views that turn takings into costs.   *)
(* Operators over the tables of Payments; the module adds no state.        *)
(*                                                                         *)
(* Every receipt has one line here, and is known by it.  No line has a     *)
(* discount of its own.                                                    *)
(***************************************************************************)
EXTENDS Statements

CONSTANTS
  Started,     \* the day a round starts: effective_from of a level
  Own          \* levels with an instructor of their own, not that of the group

ASSUME PagesAssumption ==
  /\ \A lines \in Receipts : Len(lines) = 1
  /\ Started \in [Level -> Day] /\ Own \subseteq Level
  /\ "none" \notin Account

Nothing == "none"

(* Who a row is of; of a row that has lost its enrollment as well.         *)
StudentOfRow(p) == StudentOf[payments[p].account]

(* The enrollment a row refers to, NULL for a fee or a deleted enrollment. *)
EnrollmentOf(p) ==
  IF payments[p].account \in Enrolled THEN payments[p].account ELSE Nothing

(***************************************************************************)
(* Receipts.  All their pages show voided rows.                            *)
(***************************************************************************)

(* get_total. *)
ReceiptTotal(p) == Net({p})

(* get_detail, with the lines of get_with_lines. *)
ReceiptDetail(p) == [lines |-> {p}, total |-> ReceiptTotal(p)]

(* list_by_date. *)
DailyReceipts(d) == [p \in On(Rows, {d}) |-> ReceiptTotal(p)]

(* search, with its range of days and the student of some line. *)
SearchReceipts(from, to, s) ==
  IF to < from THEN {} ELSE {p \in On(Rows, from .. to) : StudentOfRow(p) = s}

(* generate_receipt_text: a sum over lines whatever their kind. *)
TextTotal(p) == Amounts({p}, {"payment", "refund"})

(* _build_description: a line is a refund by its payment_type, which the   *)
(* schema never lets be one; what has no enrollment is just a payment.     *)
Description(p) ==
  CASE EnrollmentOf(p) # Nothing                              -> "course fee"
    [] EnrollmentOf(p) = Nothing /\ Type(p) = "competition"   -> "competition fee"
    [] OTHER                                                  -> "payment"

(* The papers of generate_receipt_text: the same sum and the same note on  *)
(* what is left to pay, the detailed one with a net amount for each line.  *)
Note(s)          == {BalanceRemaining(s)} \ {0}
StandardPaper(p) ==
  [line  |-> [description |-> Description(p), amount |-> payments[p].amount],
   total |-> TextTotal(p), left |-> Note(StudentOfRow(p))]
DetailedPaper(p) ==
  [item  |-> [description |-> Description(p), amount |-> payments[p].amount,
              net         |-> payments[p].amount],
   total |-> TextTotal(p), left |-> Note(StudentOfRow(p))]

(* generate_batch_receipts: one that is not there does not stop the others.*)
BatchReceipts(ps) ==
  [p \in ps |-> IF p \in Rows THEN [success |-> TRUE, content |-> StandardPaper(p)]
                ELSE [success |-> FALSE, error |-> "not_found"]]

(* _build_enhanced_lines, for the line of the PDF: the status it asks for  *)
(* is not spelt as in the view, and the balance DTO has no remaining.      *)
PdfLine(p) ==
  LET status == IF EnrollmentOf(p) = Nothing THEN "unknown" ELSE PaymentStatus(EnrollmentOf(p))
  IN  [amount |-> payments[p].amount, partial |-> status \in {"partial", "unpaid"}, status |-> status]

(* generate_pdf and build_receipt_pdf: the lines add up to one sum, the    *)
(* total is another.                                                       *)
Pdf(p) == [subtotal |-> Sum([q \in ReceiptDetail(p).lines |-> PdfLine(q).amount]),
           total    |-> ReceiptDetail(p).total]

(***************************************************************************)
(* Payments.  Their pages leave voided rows out.                           *)
(***************************************************************************)

(* get_payments_by_student, with the total of the pages. *)
StudentPayments(s) ==
  LET rows == {p \in Live : StudentOfRow(p) = s} IN [rows |-> rows, total |-> Cardinality(rows)]

(* get_payment_with_details, and the 404 without it. *)
PaymentDetails(p) ==
  IF p \in Live THEN [found |-> TRUE, enrollment |-> EnrollmentOf(p)] ELSE [found |-> FALSE]

(* GET /finance/payments/{id}. *)
PaymentAnswer(p) ==
  IF PaymentDetails(p).found THEN [code |-> 200, amount |-> payments[p].amount] ELSE [code |-> 404]

(* get_payments_by_group_with_levels. *)
GroupPayments(l) == {p \in Live : EnrollmentOf(p) \in l}

(* send_receipt: the notice is queued before the method is looked at. *)
SendReceipt(p, hasParent, hasPhone, method) ==
  LET found == PaymentDetails(p).found IN
  [found   |-> found,
   queued  |-> found /\ hasParent,
   success |-> /\ found /\ hasParent
               /\ method \in {"whatsapp", "email"}
               /\ method = "whatsapp" => hasPhone]

(* POST /finance/payments/{id}/send-receipt: what was not sent is a 200.   *)
SendAnswer(p, hasParent, hasPhone, method) ==
  LET sent == SendReceipt(p, hasParent, hasPhone, method) IN
  IF sent.found THEN [code |-> 200, success |-> sent.success] ELSE [code |-> 404]

(***************************************************************************)
(* Accounts.                                                               *)
(***************************************************************************)

(* get_enrollment_balance, of the repository and of the service. *)
EnrollmentBalance(e) ==
  [paid |-> Net(RowsOf(e)), balance |-> Balance(e), status |-> PaymentStatus(e)]

(* get_student_balances, and GET /students/{id}/balance.                   *)
StudentBalances(s) == [e \in Of(s) \cap Having({"active"}) |-> EnrollmentBalance(e)]
BalanceAnswer(s)   ==
  [net    |-> FinanceSummary(s).net,
   isPaid |-> [e \in DOMAIN StudentBalances(s) |-> StudentBalances(s)[e].balance >= 0]]

(* new_balance in the answer to a refund: a balance of 0 is told as none.  *)
NewBalance(p) ==
  {EnrollmentBalance(e).balance : e \in {EnrollmentOf(p)} \ {Nothing}} \ {0}

(* fetch_cumulative_unpaid, es being the enrollments with three lessons    *)
(* attended.                                                               *)
CumulativeUnpaid(es) == {e \in es \cap Having({"active"}) : EnrollmentBalance(e).balance < 0}

(* get_unpaid_enrollments of a group, or of all: a page and its total. *)
UnpaidPage(es) ==
  LET items == UnpaidEnrollments \cap es IN
  [items     |-> items, total |-> Cardinality(items),
   remaining |-> [e \in items |-> Positive(netDue[e] - EnrollmentBalance(e).paid)]]

(* assess_overpayment_risk of BalanceService: the lines that would make    *)
(* credit, each against the balance of the table.                          *)
Risk(lines) ==
  LET now(i)  == EnrollmentBalance(lines[i].account).balance
      debt(i) == Positive(- now(i)) IN
  [i \in {j \in DOMAIN lines : /\ lines[j].account \in Enrolled
                               /\ now(j) + lines[j].amount > 0} |->
     [debt |-> debt(i), projected |-> now(i) + lines[i].amount,
      excess |-> Positive(lines[i].amount - debt(i))]]

(* get_unpaid_competition_fees. *)
UnpaidFees(s) ==
  [m \in {n \in Memberships(s) : FeeDue[n] > amountPaid[n]} |-> Positive(FeeDue[m] - amountPaid[m])]

(***************************************************************************)
(* Audit.                                                                  *)
(***************************************************************************)

(* v_audit_orphaned_payments. *)
Orphaned == {p \in Live : EnrollmentOf(p) = Nothing /\ Type(p) = "course_level"}

(* v_audit_overdiscounted_enrollments: discount_applied >= amount_due. *)
OverDiscounted == {e \in Enrolled : netDue[e] <= 0}

(* v_audit_summary, its queries B, C and I over these tables. *)
AuditSummary ==
  [B |-> Cardinality({e \in Enrolled : Net(RowsOf(e) \cap Live) > netDue[e]}),
   C |-> Cardinality({p \in Live : EnrollmentOf(p) = Nothing /\ Type(p) = "course_level"}),
   I |-> Cardinality({e \in Enrolled : netDue[e] <= 0})]

(***************************************************************************)
(* Takings and costs of a round, a level of a group.  The share of an      *)
(* instructor on contract is a percentage of what is given here; ls are    *)
(* the levels whose instructor is, those of the others are part-time.      *)
(***************************************************************************)

(* Faulty variant: what was refunded counts twice. *)
RoundRevenueGross(l) ==
  Amounts({p \in Live : EnrollmentOf(p) \in l}, {"payment", "refund"})

(* level_revenue of v_finance_contract_instructor_costs, and the lateral   *)
(* sum of v_finance_total_payroll_vs_revenue.                              *)
RoundRevenue(l) == Amounts({p \in Live : EnrollmentOf(p) \in l}, {"payment"})

(* v_finance_contract_instructor_costs. *)
ContractRounds(ls) == [l \in ls |-> RoundRevenue(l)]

(* v_finance_part_time_group_allocation: of the level's own instructors. *)
PartTimeRounds(ls) ==
  [l \in Own \ ls |->
     [enrolled |-> Cardinality(l \cap Enrolled), revenue |-> RoundRevenue(l)]]

(* v_finance_total_payroll_vs_revenue: the months with a row, each with    *)
(* the rounds of own instructors that start in it.                         *)
PayrollVsRevenue(ls) ==
  [d \in {x \in Day : On(Live, {x}) # {}} |->
     [revenue |-> Net(On(Live, {d})),
      cost    |-> Sum([l \in {k \in Own \cap ls : Started[k] = d} |-> RoundRevenue(l)])]]

(* The trend of get_revenue_metrics: by more than 5 % of the days before.  *)
Trend(start) ==
  LET now    == RevenueMetrics(start).total
      before == RevenueMetrics(start).previous
      change == IF before > 0 THEN (now - before) * 100
                ELSE IF now > 0 THEN 100 ELSE 0
      five   == IF before > 0 THEN 5 * before ELSE 5 IN
  CASE change > five   -> "up"
    [] change < - five -> "down"
    [] OTHER           -> "stable"

(* v_bi_monthly_revenue, by created_at. *)
BiMonthlyRevenue(ds) == Amounts(On(Live, ds), {"payment"})

(* v_bi_avg_revenue_per_student. *)
AvgRevenue ==
  [students |-> Cardinality({StudentOfRow(p) : p \in {q \in Live : payments[q].kind = "payment"}}),
   revenue  |-> Amounts(Live, {"payment"})]

(* v_bi_course_performance: joined with every row, summed over the live.   *)
CoursePerformance(ls) ==
  LET es == (UNION ls) \cap Enrolled IN
  [revenue |-> Amounts({p \in Live : EnrollmentOf(p) \in es}, {"payment"}),
   billed  |-> Sum([e \in es |-> netDue[e] * AtLeast1(Cardinality(RowsOf(e)))])]

(***************************************************************************)
(* Properties.                                                             *)
(***************************************************************************)

(* The day's receipts add up to the day's revenue.  A paper tells the      *)
(* money that has come in, but a refund looks like a payment on it: the    *)
(* text and the lines of the PDF add what the totals subtract, and the     *)
(* badge for a partial payment is never printed.  A paper asks for money   *)
(* only when the student is on a list of debtors.                          *)
PapersAgree ==
  /\ \A d \in Day :
       Sum(DailyReceipts(d)) = DailyRevenue(d)
  /\ \A p \in Rows :
       /\ TextTotal(p) = Pdf(p).subtotal
       /\ payments[p].kind = "payment" <=> Pdf(p).subtotal = Pdf(p).total
       /\ ~ PdfLine(p).partial
       /\ Description(p) = "payment" <=> payments[p].account \in gone
       /\ LET paper == StandardPaper(p) IN
          /\ \A n \in paper.left : 0 < n /\ n <= TopDebtors[StudentOfRow(p)]
          /\ <<paper.total, paper.left>> = <<DetailedPaper(p).total, DetailedPaper(p).left>>
          /\ DetailedPaper(p).item.net = paper.line.amount
  /\ {p \in PaymentId : BatchReceipts(PaymentId)[p].success} = UNION {DOMAIN DailyReceipts(d) : d \in Day}

(* A receipt that is found may hold a row no page of payments knows, and   *)
(* those are the rows of deleted levels.  What the student's list shows    *)
(* opens, and belongs to one group's tab unless it is a fee or an orphan;  *)
(* an orphan is a refund, made of a row that was voided before.            *)
PaymentsFound ==
  /\ \A s \in Student :
       LET found == UNION {SearchReceipts(d, d, s) : d \in Day}
           shown == StudentPayments(s).rows IN
       /\ \A d, c \in Day : SearchReceipts(d, c, s) \subseteq found
       /\ shown = {p \in found : PaymentDetails(p).found}
       /\ \A p \in found \ shown : payments[p].account \in gone
       /\ \A p \in shown :
            \/ \E l \in Level : p \in GroupPayments(l) /\ PaymentDetails(p).enrollment \in l
            \/ Description(p) = "competition fee"
            \/ p \in Orphaned /\ payments[p].kind = "refund"
  /\ \A p \in PaymentId, method \in {"whatsapp", "email", "sms"}, par, ph \in BOOLEAN :
       p \in Rows =>
         /\ SendReceipt(p, par, ph, method).success => SendReceipt(p, par, ph, method).queued
         /\ SendReceipt(p, par, ph, method).queued <=> p \in Live /\ par
         /\ SendAnswer(p, par, ph, method).code = PaymentAnswer(p).code
  /\ \A l \in Level : PaymentsTab(l).collected = Net(GroupPayments(l))

(* What is asked for is what is owed, and what the assessment calls credit *)
(* is by how much the credit of the account would grow.                    *)
AssessmentsAgree ==
  /\ UnpaidPage(Enrollment).total = Cardinality(Outstanding)
  /\ \A l \in Level :
       LET page == UnpaidPage(l) IN
       Sum([e \in page.items |-> page.remaining[e]]) = Debt(l \cap Having({"active"}))
  /\ \A lines \in Receipts :
       /\ Risk(lines) = <<>> <=> \A i \in DOMAIN lines :
            lines[i].account \in gone \/ ~ Overpays(lines[i])
       /\ \A i \in DOMAIN Risk(lines) :
            LET e == lines[i].account IN
            Risk(lines)[i].excess = Positive(Balance(e) + lines[i].amount) - Positive(Balance(e))
  /\ CumulativeUnpaid(Enrollment) = UnpaidEnrollments
  /\ \A p \in Rows : NewBalance(p) = {} => EnrollmentOf(p) \notin UnpaidEnrollments
  /\ \A s \in Student :
       LET fees == UnpaidFees(s)
           told == BalanceAnswer(s) IN
       /\ {e \in DOMAIN told.isPaid : ~ told.isPaid[e]} = UnpaidPage(Of(s)).items
       /\ told.net = FeesBalance(s) + Sum([e \in DOMAIN told.isPaid |-> StudentBalances(s)[e].balance])
       /\ DOMAIN fees = FeesUnpaid(s)
       /\ Sum(fees) >= - FeesBalance(s)
  /\ AuditSummary = [B |-> Cardinality(Overpaid), C |-> Cardinality(Orphaned),
                     I |-> Cardinality(OverDiscounted)]

(* Rounds, courses and months split the same payments.  A share is of what *)
(* was paid in, refunded or not; the profit of the months leaves out what  *)
(* the instructors of groups cost, and rounds that start in a month        *)
(* without a row of payments; the courses bill an enrollment once a row.   *)
(* The trend points the way the money went.                                *)
CostsAgree ==
  LET courses == RevenueByType(Day)["course_level"] IN
  /\ \A ls \in SUBSET Level :
       LET payroll  == PayrollVsRevenue(ls)
           contract == ContractRounds(ls)
           partTime == PartTimeRounds(ls)
           unseen   == {l \in Own \cap ls : Started[l] \notin DOMAIN payroll} IN
       /\ Sum(contract) + Sum([l \in Level \ ls |-> RoundRevenue(l)]) = courses
       /\ Sum([d \in DOMAIN payroll |-> payroll[d].revenue]) = Summary.revenue
       /\ Sum([d \in DOMAIN payroll |-> payroll[d].cost])
            + Sum([l \in DOMAIN partTime |-> partTime[l].revenue])
            + Sum([l \in (Level \ Own) \cup unseen |-> RoundRevenue(l)]) = courses
  /\ \A l \in Level : RoundRevenue(l) - CollectedOf(l \cap Enrolled)
                        = Sum([e \in l \cap Enrolled |-> returned[e]])
  /\ \A d \in Day :
       LET m == RevenueMetrics(d) IN
       /\ Trend(d) = "up" => m.total > m.previous
       /\ Trend(d) = "down" => m.total < m.previous
       /\ m.total = 0 /\ m.previous > 0 => Trend(d) = "down"
  /\ BiMonthlyRevenue(Day) = RevenueAllTime /\ AvgRevenue.revenue = RevenueAllTime
  /\ AvgRevenue.students <= Cardinality(Student)
  /\ CoursePerformance(Level).revenue = courses
  /\ \A l \in Level :
       CoursePerformance({l}).billed = GroupRevenue(l) + CollectedOf(l \cap Enrolled)

(* Whatever is told of the money, row by row and account by account, adds  *)
(* up to the takings of Statements.                                        *)
MoneyAgrees ==
  /\ TakingsAgree
  /\ Looking => PapersAgree /\ PaymentsFound /\ AssessmentsAgree /\ CostsAgree
=============================================================================
