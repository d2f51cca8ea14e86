------------------------------ MODULE Payments ------------------------------
(***************************************************************************)
(* Money: receipts (receipt_service.py), refunds (refund_service.py) and   *)
(* the competition fees of the members of one team (team_service.py), over *)
(* the tables payments and team_members.                                   *)
(*                                                                         *)
(* A request is one PostgreSQL session at READ COMMITTED that takes no     *)
(* lock before it writes.  It checks what it has read, then writes and     *)
(* commits; only pay_competition_fee commits twice.  A step of the model   *)
(* is the reading half or a committing half of a request.                  *)
(***************************************************************************)
EXTENDS Integers, Sequences

CONSTANTS
  Request,       \* requests that can run at the same time
  Enrollment,    \* enrollments, which have a balance
  Member,        \* rows of team_members that one team may be registered with
  Status,        \* the status of each enrollment
  Level,         \* the levels of groups, each the set of its enrollments
  Price,         \* what an enrollment may cost: amount_due - discount_applied,
                 \* negative when the discount exceeds the amount
  Receipts,      \* the lists of lines sent to POST /finance/receipts
  Amount,        \* the amounts of fees and refunds
  RefundableKind,\* the kinds of row refunds are asked for
  Unwraps,       \* what Session.exec of SQLModel gives for a select that was
                 \* imported from sqlalchemy: FALSE, a row that holds the
                 \* entity, as the releases of SQLModel do; TRUE, the entity,
                 \* to check the code behind it as well
  MaxPayments,   \* bound: rows of payments
  MaxCrashes     \* bound: requests cut off

Account   == Enrollment \cup Member
PaymentId == 1 .. MaxPayments
Line      == [account : Account, amount : Amount]

ASSUME ConstantsAssumption ==
  /\ Enrollment \cap Member = {} /\ Account \cap PaymentId = {}
  /\ Status \in [Enrollment -> {"active", "completed", "transferred", "dropped"}]
  /\ Level \subseteq SUBSET Enrollment
  /\ Price \subseteq Int
  /\ Amount \subseteq Nat \ {0}
  /\ Receipts \subseteq Seq(Line) \ {<<>>}
  /\ RefundableKind \subseteq {"payment", "refund"}
  /\ Unwraps \subseteq BOOLEAN
  /\ MaxPayments \in Nat /\ MaxCrashes \in Nat

VARIABLES
  payments,   \* the rows of payments, in the order of their ids
  refunded,   \* get_total_refunded of each row: the SUM kept as a running total
  received,   \* SUM(amount) of the payments of an account
  returned,   \* SUM(amount) of the refunds of an account
  roster,     \* whether a row of team_members is to come, there or removed
  amountPaid, \* team_members.amount_paid
  consented,  \* enrollments paid with allow_credit
  netDue,     \* net_due of the balance view, for each enrollment
  lowered,    \* ghost: enrollments whose price has been lowered
  gone,       \* enrollments deleted with their level
  voided,     \* the rows of payments with deleted_at
  raced,      \* ghost: rows and accounts that a request has written while
              \* another went by what it had read of them
  tx,         \* where each request is and what it has read
  crashes     \* requests cut off so far

money  == <<payments, refunded, received, returned>>
team   == <<roster, amountPaid>>
price  == <<netDue, lowered>>
levels == <<gone, voided>>
vars   == <<payments, refunded, received, returned, roster, amountPaid, consented,
            netDue, lowered, gone, voided, raced, tx, crashes>>

Idle == [step |-> "idle"]

(* v_enrollment_balance.balance: negative is a debt, positive a credit. *)
Balance(e) == received[e] - returned[e] - netDue[e]

(* A row may refer to an enrollment or to a member who is still there.     *)
(* The rows of a deleted enrollment lose their reference; here they keep   *)
(* its name, which belongs to no enrollment any more.                      *)
Referable(a) == IF a \in Member THEN roster[a] = "in" ELSE a \notin gone

Init ==
  /\ payments   = <<>>
  /\ refunded   = [p \in PaymentId |-> 0]
  /\ received   = [a \in Account |-> 0]
  /\ returned   = [a \in Account |-> 0]
  /\ roster     = [m \in Member |-> "new"]
  /\ amountPaid = [m \in Member |-> 0]
  /\ consented  = {}
  /\ netDue     \in [Enrollment -> Price]
  /\ lowered    = {}
  /\ gone       = {}
  /\ voided     = {}
  /\ raced      = {}
  /\ tx         = [w \in Request |-> Idle]
  /\ crashes    = 0

Begin(w, t) == tx[w] = Idle /\ tx' = [tx EXCEPT ![w] = t]
End(w)      == tx' = [tx EXCEPT ![w] = Idle]

(* What a request goes by: the accounts its receipt was compared with, the *)
(* row it refunds, the member whose amount_paid it changes.                *)
Concerns(w) ==
  CASE tx[w].step = "receipt" -> {tx[w].lines[i].account : i \in DOMAIN tx[w].lines}
    [] tx[w].step = "refund"  -> {tx[w].id} \cup ({payments[tx[w].id].account} \cap Member)
    [] tx[w].step \in {"pay", "record"} -> {tx[w].member}
    [] OTHER -> {}

(* The commit of a request that others do not see.                         *)
Race(w) ==
  raced' = raced \cup (Concerns(w) \cap UNION {Concerns(v) : v \in Request \ {w}})

(* SUM over a sequence of amounts. *)
Total(s) ==
  LET upTo[i \in 0 .. Len(s)] == IF i = 0 THEN 0 ELSE upTo[i - 1] + s[i]
  IN  upTo[Len(s)]

(* What a receipt pays to an account. *)
Paid(a, lines) ==
  Total([i \in DOMAIN lines |-> IF lines[i].account = a THEN lines[i].amount ELSE 0])

(* PaymentRepository.add_line for each line of a receipt. *)
AddPayments(lines) ==
  /\ Len(payments) + Len(lines) <= MaxPayments
  /\ \A i \in DOMAIN lines : Referable(lines[i].account)
  /\ payments' = payments \o [i \in DOMAIN lines |->
       [kind |-> "payment", account |-> lines[i].account, amount |-> lines[i].amount]]
  /\ received' = [a \in Account |->
       IF \E i \in DOMAIN lines : lines[i].account = a
       THEN received[a] + Paid(a, lines) ELSE received[a]]
  /\ UNCHANGED <<refunded, returned>>

AddRefund(p, n) ==
  LET a == payments[p].account IN
  /\ Len(payments) < MaxPayments
  /\ payments' = Append(payments, [kind |-> "refund", account |-> a, amount |-> n])
  /\ refunded' = [refunded EXCEPT ![p] = @ + n]
  /\ returned' = [returned EXCEPT ![a] = @ + n]
  /\ UNCHANGED received

(***************************************************************************)
(* ReceiptService.create.                                                  *)
(***************************************************************************)

(* Faulty variant: a payment of exactly the debt plus one goes through. *)
OverpaysByTwo(line) ==
  line.account \in Enrollment /\ Balance(line.account) + line.amount > 1

(* _assess_overpayment_risk: each line against the balance of the table,   *)
(* the other lines of the receipt are not counted.                         *)
Overpays(line) ==
  line.account \in Enrollment /\ Balance(line.account) + line.amount > 0

ReceiptCheck(w, lines, credit) ==
  /\ credit \/ \A i \in DOMAIN lines : ~ Overpays(lines[i])
  /\ Begin(w, [step |-> "receipt", lines |-> lines, credit |-> credit])
  /\ UNCHANGED <<money, team, consented, price, levels, crashes, raced>>

ReceiptCommit(w) ==
  /\ tx[w].step = "receipt"
  /\ AddPayments(tx[w].lines)
  /\ consented' = IF tx[w].credit
                  THEN consented \cup
                       {e \in Enrollment : \E i \in DOMAIN tx[w].lines :
                                             tx[w].lines[i].account = e}
                  ELSE consented
  /\ End(w)
  /\ Race(w)
  /\ UNCHANGED <<team, price, levels, crashes>>

(***************************************************************************)
(* RefundService.issue, called by POST /finance/refunds for any row of     *)
(* payments, or for a competition fee by refund_competition_fee.           *)
(***************************************************************************)

(* Faulty variant: earlier refunds are not taken into account. *)
AvailableGross(p) == payments[p].amount

Available(p) == payments[p].amount - refunded[p]

(* issue: the original is found by its id, voided or not.  The refund will *)
(* refer to the enrollment the original refers to now.                     *)
RefundCheck(w, p, n) ==
  /\ p \in DOMAIN payments
  /\ payments[p].kind \in RefundableKind
  /\ n <= Available(p)
  /\ Begin(w, [step |-> "refund", id |-> p, amount |-> n, loaded |-> FALSE,
               orphan |-> payments[p].account \in gone])
  /\ UNCHANGED <<money, team, consented, price, levels, crashes, raced>>

(* _get_refundable_competition_payment_id: the newest payment that covers  *)
(* the amount.                                                             *)
Covers(m, p, n) ==
  payments[p].kind = "payment" /\ payments[p].account = m /\ n <= Available(p)

(* refund_competition_fee, after the endpoint has compared the amount with *)
(* amount_paid.  The member is loaded here, and not read again.            *)
FeeRefundCheck(w, m, p, n) ==
  /\ roster[m] = "in"
  /\ n <= amountPaid[m]
  /\ p \in DOMAIN payments
  /\ Covers(m, p, n)
  /\ \A q \in (p + 1) .. Len(payments) : ~ Covers(m, q, n)
  /\ Begin(w, [step |-> "refund", id |-> p, amount |-> n, loaded |-> TRUE,
               orphan |-> FALSE, paid |-> amountPaid[m]])
  /\ UNCHANGED <<money, team, consented, price, levels, crashes, raced>>

(* Faulty variant: the difference is not clamped. *)
Least0Unclamped(n) == n

Least0(n) == IF n < 0 THEN 0 ELSE n

(* Faulty variant: the fee is not unmarked. *)
UnlinkNothing(w, m) == UNCHANGED team

(* _unlink_competition_payment, when it reaches the member.  The endpoint  *)
(* of finance loads the member here, the one of teams has it loaded.       *)
Unlink(w, m) ==
  /\ amountPaid' = [amountPaid EXCEPT ![m] =
                      Least0((IF tx[w].loaded THEN tx[w].paid ELSE @) - tx[w].amount)]
  /\ UNCHANGED roster

Dangling(w) == payments[tx[w].id].account \in gone /\ ~ tx[w].orphan

RefundCommit(w) ==
  /\ tx[w].step = "refund" /\ ~ Dangling(w)
  /\ AddRefund(tx[w].id, tx[w].amount)
  /\ LET a == payments[tx[w].id].account IN
       \/ a \in Enrollment /\ UNCHANGED team
       \/ a \in Member /\ TRUE \in Unwraps /\ Unlink(w, a)
  /\ End(w)
  /\ Race(w)
  /\ UNCHANGED <<consented, price, levels, crashes>>

(* _unlink_competition_payment asks the row for a column of the entity:    *)
(* AttributeError, and get_session rolls back.                             *)
RefundRaises(w) ==
  /\ tx[w].step = "refund"
  /\ payments[tx[w].id].account \in Member
  /\ FALSE \in Unwraps
  /\ End(w)
  /\ UNCHANGED <<money, team, consented, price, levels, crashes, raced>>

(***************************************************************************)
(* pay_competition_fee.                                                    *)
(***************************************************************************)
PayLoad(w, m, n) ==
  /\ roster[m] = "in"
  /\ Begin(w, [step |-> "pay", member |-> m, amount |-> n, paid |-> amountPaid[m]])
  /\ UNCHANGED <<money, team, consented, price, levels, crashes, raced>>

(* ReceiptService.create commits the session it was given.                 *)
PayReceipt(w) ==
  /\ tx[w].step = "pay"
  /\ AddPayments(<<[account |-> tx[w].member, amount |-> tx[w].amount]>>)
  /\ tx' = [tx EXCEPT ![w].step = "record"]
  /\ Race(w)
  /\ UNCHANGED <<team, consented, price, levels, crashes>>

(* record_payment: the member is in the identity map, loaded by PayLoad    *)
(* (expire_on_commit is off), so what is added to is what PayLoad read.    *)
Record(w) ==
  amountPaid' = [amountPaid EXCEPT ![tx[w].member] = tx[w].paid + tx[w].amount]

PayRecord(w) ==
  /\ tx[w].step = "record"
  /\ Record(w)
  /\ End(w)
  /\ Race(w)
  /\ UNCHANGED <<money, roster, consented, price, levels, crashes>>

(***************************************************************************)
(* The members of the team.                                                *)
(***************************************************************************)
(* register_team: the team and all its members are committed at once.  No   *)
(* one joins a team that exists (add_team_member_to_existing raises before *)
(* it writes).                                                             *)
RegisterTeam(ms) ==
  /\ ms # {} /\ \A m \in Member : roster[m] = "new"
  /\ roster' = [m \in Member |-> IF m \in ms THEN "in" ELSE "new"]
  /\ UNCHANGED <<money, amountPaid, consented, tx, price, levels, crashes, raced>>

(* Faulty variant: payments.team_member_id without its foreign key. *)
ReferencedNever(m) == FALSE

(* payments_team_member_id_fkey: a row of payments keeps its member. *)
Referenced(m) == \E i \in DOMAIN payments : payments[i].account = m

RemoveMember(m) ==
  /\ roster[m] = "in"
  /\ amountPaid[m] = 0
  /\ ~ Referenced(m)
  /\ roster' = [roster EXCEPT ![m] = "removed"]
  /\ UNCHANGED <<money, amountPaid, consented, tx, price, levels, crashes, raced>>

(* delete_team: the members go with it (ON DELETE CASCADE). *)
DeleteTeam ==
  LET there == {m \in Member : roster[m] = "in"} IN
  /\ there # {}
  /\ \A m \in there : amountPaid[m] = 0 /\ ~ Referenced(m)
  /\ roster' = [m \in Member |-> IF m \in there THEN "removed" ELSE roster[m]]
  /\ UNCHANGED <<money, amountPaid, consented, tx, price, levels, crashes, raced>>

(***************************************************************************)
(* The price of an enrollment.                                             *)
(***************************************************************************)

(* update_enrollment, or a sibling discount.  Payments that exist are only *)
(* warned about, and a receipt that has been checked is not known of.      *)
ChangePrice(e, n) ==
  /\ e \notin gone /\ Status[e] \notin {"dropped", "transferred"}
  /\ n # netDue[e]
  /\ netDue'  = [netDue EXCEPT ![e] = n]
  /\ lowered' = IF n < netDue[e] THEN lowered \cup {e} ELSE lowered
  /\ UNCHANGED <<money, team, consented, tx, levels, crashes, raced>>

(***************************************************************************)
(* The level of a group.                                                   *)
(***************************************************************************)

(* delete_level, for its part in the money (GroupLevels has the rest):     *)
(* every row of the enrollments of the level is voided, the enrollments    *)
(* are deleted, and their rows refer to none (ON DELETE SET NULL).         *)
DeleteLevel(l) ==
  LET rows == {p \in DOMAIN payments : payments[p].account \in l} IN
  /\ l # {} /\ l \cap gone = {}
  /\ gone'   = gone \cup l
  /\ voided' = voided \cup rows
  /\ UNCHANGED <<money, team, consented, price, tx, crashes, raced>>

(* An insert whose enrollment or member is not there any more violates its *)
(* foreign key: the request rolls back.                                    *)
Refused(w) ==
  /\ \/ tx[w].step = "receipt" /\ \E i \in DOMAIN tx[w].lines : ~ Referable(tx[w].lines[i].account)
     \/ tx[w].step = "pay" /\ ~ Referable(tx[w].member)
     \/ tx[w].step = "refund" /\ Dangling(w)
  /\ End(w)
  /\ UNCHANGED <<money, team, consented, price, levels, crashes, raced>>

(* The process dies, a statement fails, or the activity log makes the      *)
(* second transaction of pay_competition_fee fail: what is not committed   *)
(* is lost.                                                                *)
Crash(w) ==
  /\ tx[w] # Idle
  /\ crashes < MaxCrashes
  /\ crashes' = crashes + 1
  /\ End(w)
  /\ UNCHANGED <<money, team, consented, price, levels, raced>>

Next ==
  \/ \E w \in Request :
       \/ \E r \in Receipts : \E credit \in BOOLEAN : ReceiptCheck(w, r, credit)
       \/ \E p \in PaymentId : \E n \in Amount : RefundCheck(w, p, n)
       \/ \E m \in Member : \E p \in PaymentId : \E n \in Amount :
            FeeRefundCheck(w, m, p, n)
       \/ \E m \in Member : \E n \in Amount : PayLoad(w, m, n)
       \/ ReceiptCommit(w) \/ RefundCommit(w) \/ RefundRaises(w)
       \/ PayReceipt(w) \/ PayRecord(w) \/ Refused(w) \/ Crash(w)
  \/ \E ms \in SUBSET Member : RegisterTeam(ms)
  \/ \E m \in Member : RemoveMember(m)
  \/ DeleteTeam
  \/ \E e \in Enrollment : \E n \in Price : ChangePrice(e, n)
  \/ \E l \in Level : DeleteLevel(l)

Spec == Init /\ [][Next]_vars

(***************************************************************************)
(* Properties.                                                             *)
(***************************************************************************)

Row == [kind : {"payment", "refund"}, account : Account, amount : Amount]

Transaction ==
  {Idle}
  \cup [step : {"receipt"}, lines : Receipts, credit : BOOLEAN]
  \cup [step : {"refund"}, id : PaymentId, amount : Amount, loaded : {FALSE},
          orphan : BOOLEAN]
  \cup [step : {"refund"}, id : PaymentId, amount : Amount, loaded : {TRUE},
          orphan : {FALSE}, paid : Nat]
  \cup [step : {"pay", "record"}, member : Member, amount : Amount, paid : Nat]

(* Every variable has its type. *)
TypeOK ==
  /\ payments   \in Seq(Row)
  /\ Len(payments) <= MaxPayments
  /\ refunded   \in [PaymentId -> Nat]
  /\ received   \in [Account -> Nat]
  /\ returned   \in [Account -> Nat]
  /\ roster     \in [Member -> {"new", "in", "removed"}]
  /\ amountPaid \in [Member -> Nat]
  /\ consented  \subseteq Enrollment
  /\ netDue     \in [Enrollment -> Price]
  /\ lowered    \subseteq Enrollment
  /\ gone       \subseteq Enrollment
  /\ voided     \subseteq PaymentId
  /\ raced      \subseteq PaymentId \cup Account
  /\ tx         \in [Request -> Transaction]
  /\ crashes    \in 0 .. MaxCrashes

(* The refunds of a row never exceed it (refund_service.py:27, "Validating *)
(* refund amounts don't exceed original"), but for a row of which two      *)
(* refunds overlapped: issue() compares with a SUM that it does not lock.  *)
(* Nothing else exceeds it, whatever happens between the check and the     *)
(* insert and from whichever endpoint the refunds of the row come.         *)
RefundsWithinOriginal ==
  \A p \in DOMAIN payments \ raced : refunded[p] <= payments[p].amount

(* Between requests, amount_paid of a member is the balance of the         *)
(* member's rows ("Single atomic transaction: validation + receipt         *)
(* creation + fee recording", pay_competition_fee).                        *)
Recording(m)      == \E w \in Request : tx[w].step = "record" /\ tx[w].member = m
FeesMatchPayments ==
  \A m \in Member \ raced : ~ Recording(m) => amountPaid[m] = received[m] - returned[m]

(* What is left of it when requests may be cut off: amount_paid never runs *)
(* ahead of the rows, whatever is refunded, and disagrees only after a     *)
(* payment was cut between its two commits; but for a member one request   *)
(* paid for or refunded while another had amount_paid loaded.              *)
FeesAreCovered ==
  /\ \A m \in Member \ raced : amountPaid[m] <= received[m] - returned[m]
  /\ crashes = 0 => FeesMatchPayments

(* An enrollment has credit only when one of its receipts allowed it       *)
(* ("Validates for overpayment risk unless allow_credit=True.", create),   *)
(* when its price was lowered, before the payment was committed or after,  *)
(* or when two of its receipts overlapped: neither refunds, in whatever    *)
(* order they come, nor a price that is raised can make any.               *)
CreditIsAllowed ==
  \A e \in Enrollment \ gone : Balance(e) > 0 => e \in consented \cup lowered \cup raced

(* A member who has paid is never removed, not even between the receipt    *)
(* and the recording of the first fee, when amount_paid still says 0.      *)
PayersStay == \A m \in Member : roster[m] = "removed" => received[m] = 0
=============================================================================
