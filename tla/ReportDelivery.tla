--------------------------- MODULE ReportDelivery ---------------------------
(***************************************************************************)
(* Delivery of the scheduled business reports.  pg_cron, or an operator,   *)
(* calls a trigger endpoint (internal_scheduler_router.py); the request    *)
(* runs the whole report: for every recipient it claims the delivery in    *)
(* the ledger (SqlReportDeliveryLedger.claim, two commits), sends the mail *)
(* and marks the claim (SqlReportDeliveryLedger.mark).  Requests run       *)
(* concurrently, on one replica or on several, and share only the table    *)
(* notification_logs, whose partial unique index allows one PENDING or     *)
(* SENT row for each (template, period, recipient).                        *)
(*                                                                         *)
(* A step of a request is one database transaction, one read, or the       *)
(* answer of the mail server.                                              *)
(***************************************************************************)
EXTENDS Naturals, Sequences

CONSTANTS
  Request,         \* trigger requests that can run at the same time
  Report,          \* a report type for one report period: (template_id, period_start)
  Contact,         \* recipient e-mail addresses
  RecipientLists,  \* what _resolve_notification_recipients may return (non-empty)
  Fault,           \* the kinds of fault that happen, a subset of FaultKind
  MaxFaults        \* bound: the number of faults in a behaviour

FaultKind == {"crash",       \* the process dies, or the platform cuts the request
              "refusal",     \* the mail server refuses the message
              "lost_answer", \* it accepts the message, the send reports an error
              "slow_send"}   \* a send outlasts the 15 minutes of a claim

ASSUME ConstantsAssumption ==
  /\ Fault \subseteq FaultKind
  /\ MaxFaults \in Nat
  /\ RecipientLists \subseteq Seq(Contact) \ {<<>>}

Key     == Report \X Contact          \* what the unique index is over
Attempt == 1 .. (MaxFaults + 1)       \* the claims ever inserted for a key
LogId   == Key \X Attempt             \* rows of notification_logs with a period

VARIABLES
  status,   \* status column of each row; "absent" before its insert
  aged,     \* rows whose created_at is more than 15 minutes ago
  smtp,     \* what the mail server did with the message sent for a row
  expired,  \* rows some request failed as "abandoned claim (stale PENDING)"
  pc,       \* where each request is
  report,   \* the report it delivers
  list,     \* its recipients
  next,     \* the index of the recipient it is working on
  stale,    \* stale_claims, as read by the SELECT of claim()
  claim,    \* the attempt it inserted for this recipient (log_id)
  results,  \* which of sent, failed, skipped are positive
  answer,   \* the outcome it answered with last
  faults    \* faults so far

table == <<status, expired>>
local == <<pc, report, list, next, stale, claim, results, answer>>
vars  == <<status, aged, smtp, expired, pc, report, list, next, stale, claim,
           results, answer, faults>>

(* Faulty variant: an index without its WHERE clause. *)
LiveAnyStatus(i) == status[i] # "absent"

Live(i)      == status[i] \in {"PENDING", "SENT"}
Delivered(k) == \E n \in Attempt : status[<<k, n>>] = "SENT"
KeyOf(q)     == <<report[q], list[q][next[q]]>>
RowOf(q)     == <<KeyOf(q), claim[q]>>
Holds(q, i)  == pc[q] \in {"send", "mark"} /\ RowOf(q) = i

(* Every fault uses up one unit of the bound. *)
Charge(f) == f \in Fault /\ faults < MaxFaults /\ faults' = faults + 1

Init ==
  /\ status  = [i \in LogId |-> "absent"]
  /\ aged    = {}
  /\ smtp    = [i \in LogId |-> "none"]
  /\ expired = {}
  /\ pc      = [q \in Request |-> "idle"]
  /\ report  \in [Request -> Report]
  /\ list    = [q \in Request |-> <<>>]
  /\ next    = [q \in Request |-> 1]
  /\ stale   = [q \in Request |-> {}]
  /\ claim   = [q \in Request |-> 1]
  /\ results = [q \in Request |-> {}]
  /\ answer  = [q \in Request |-> "none"]
  /\ faults  = 0

(***************************************************************************)
(* The request.                                                            *)
(***************************************************************************)

(* send_*_report with an active template and at least one recipient.  The  *)
(* template and the recipients are read once; any list may come back, so   *)
(* every change of the settings between two requests is covered.           *)
Start(q, r) ==
  /\ pc[q] = "idle"
  /\ \E rs \in RecipientLists : list' = [list EXCEPT ![q] = rs]
  /\ report'  = [report EXCEPT ![q] = r]
  /\ pc'      = [pc EXCEPT ![q] = "select"]
  /\ next'    = [next EXCEPT ![q] = 1]
  /\ results' = [results EXCEPT ![q] = {}]
  /\ answer'  = [answer EXCEPT ![q] = "none"]
  /\ UNCHANGED <<status, aged, smtp, expired, stale, claim, faults>>

(* The early returns: no template, or inactive or without recipients.      *)
Decline(q) ==
  /\ pc[q] = "idle"
  /\ \E o \in {"not_configured", "disabled"} : answer' = [answer EXCEPT ![q] = o]
  /\ UNCHANGED <<status, aged, smtp, expired, pc, report, list, next, stale,
                 claim, results, faults>>

(* claim(): the SELECT of the stale claims of this key. *)
SelectStale(q) ==
  /\ pc[q] = "select"
  /\ next[q] <= Len(list[q])
  /\ stale' = [stale EXCEPT ![q] =
                 {i \in aged : i[1] = KeyOf(q) /\ status[i] = "PENDING"}]
  /\ pc' = [pc EXCEPT ![q] = "expire"]
  /\ UNCHANGED <<status, aged, smtp, expired, report, list, next, claim,
                 results, answer, faults>>

(* claim(), first commit: UPDATE ... WHERE id = ..., whatever the rows hold *)
(* by now.                                                                  *)
ExpireStale(q) ==
  /\ pc[q] = "expire"
  /\ status'  = [i \in LogId |-> IF i \in stale[q] THEN "FAILED" ELSE status[i]]
  /\ expired' = expired \cup stale[q]
  /\ stale'   = [stale EXCEPT ![q] = {}]
  /\ pc'      = [pc EXCEPT ![q] = "insert"]
  /\ UNCHANGED <<aged, smtp, report, list, next, claim, results, answer, faults>>

(* The end of one turn of the loop over the recipients. *)
NextRecipient(q, result) ==
  /\ pc'      = [pc EXCEPT ![q] = "select"]
  /\ next'    = [next EXCEPT ![q] = @ + 1]
  /\ results' = [results EXCEPT ![q] = @ \cup {result}]

(* Faulty variant: no unique index. *)
InsertClaimUnindexed(q) ==
  /\ pc[q] = "insert"
  /\ \E n \in Attempt :
       /\ status[<<KeyOf(q), n>>] = "absent"
       /\ \A m \in 1 .. (n - 1) : status[<<KeyOf(q), m>>] # "absent"
       /\ status' = [status EXCEPT ![<<KeyOf(q), n>>] = "PENDING"]
       /\ claim'  = [claim EXCEPT ![q] = n]
  /\ pc' = [pc EXCEPT ![q] = "send"]
  /\ UNCHANGED <<aged, smtp, expired, report, list, next, stale, results, answer,
                 faults>>

(* claim(), second commit: the INSERT of the PENDING row.  Rows of a key   *)
(* are numbered in the order of their inserts.                             *)
InsertClaim(q) ==
  /\ pc[q] = "insert"
  /\ \A n \in Attempt : ~ Live(<<KeyOf(q), n>>)
  /\ \E n \in Attempt :
       /\ status[<<KeyOf(q), n>>] = "absent"
       /\ \A m \in 1 .. (n - 1) : status[<<KeyOf(q), m>>] # "absent"
       /\ status' = [status EXCEPT ![<<KeyOf(q), n>>] = "PENDING"]
       /\ claim'  = [claim EXCEPT ![q] = n]
  /\ pc' = [pc EXCEPT ![q] = "send"]
  /\ UNCHANGED <<aged, smtp, expired, report, list, next, stale, results, answer,
                 faults>>

(* claim() returns None: the insert violates the unique index. *)
SkipClaimed(q) ==
  /\ pc[q] = "insert"
  /\ \E n \in Attempt : Live(<<KeyOf(q), n>>)
  /\ NextRecipient(q, "skipped")
  /\ UNCHANGED <<status, aged, smtp, expired, report, list, stale, claim, answer,
                 faults>>

(* GmailEmailDispatcher.send: it never raises, and reports what it was told. *)
Send(q) ==
  /\ pc[q] = "send"
  /\ \/ /\ smtp' = [smtp EXCEPT ![RowOf(q)] = "accepted"]
        /\ UNCHANGED faults
     \/ /\ smtp' = [smtp EXCEPT ![RowOf(q)] = "refused"]
        /\ Charge("refusal")
     \/ /\ smtp' = [smtp EXCEPT ![RowOf(q)] = "unanswered"]
        /\ Charge("lost_answer")
  /\ pc' = [pc EXCEPT ![q] = "mark"]
  /\ UNCHANGED <<status, aged, expired, report, list, next, stale, claim, results,
                 answer>>

(* Whether another row of the key holds the unique index. *)
Conflict(q) == \E n \in Attempt \ {claim[q]} : Live(<<KeyOf(q), n>>)

(* mark(): unconditional, it does not ask whether the claim is still PENDING. *)
MarkSent(q) ==
  /\ pc[q] = "mark"
  /\ smtp[RowOf(q)] = "accepted"
  /\ ~ Conflict(q)
  /\ status' = [status EXCEPT ![RowOf(q)] = "SENT"]
  /\ NextRecipient(q, "sent")
  /\ UNCHANGED <<aged, smtp, expired, report, list, stale, claim, answer, faults>>

(* Faulty variants: the result of the send is ignored by mark(), or by the *)
(* counters of the loop.                                                   *)
MarkRefused(q, st, result) ==
  /\ pc[q] = "mark"
  /\ smtp[RowOf(q)] # "accepted"
  /\ status' = [status EXCEPT ![RowOf(q)] = st]
  /\ NextRecipient(q, result)
  /\ UNCHANGED <<aged, smtp, expired, report, list, stale, claim, answer, faults>>
MarkRefusedSent(q)    == MarkRefused(q, "SENT", "sent")
MarkFailedCounted(q)  == MarkRefused(q, "FAILED", "sent")

MarkFailed(q) ==
  /\ pc[q] = "mark"
  /\ smtp[RowOf(q)] # "accepted"
  /\ status' = [status EXCEPT ![RowOf(q)] = "FAILED"]
  /\ NextRecipient(q, "failed")
  /\ UNCHANGED <<aged, smtp, expired, report, list, stale, claim, answer, faults>>

(* A request that ends without going through the end of its loop. *)
Leave(q, o) ==
  /\ pc'     = [pc EXCEPT ![q] = "idle"]
  /\ list'   = [list EXCEPT ![q] = <<>>]
  /\ next'   = [next EXCEPT ![q] = 1]
  /\ stale'  = [stale EXCEPT ![q] = {}]
  /\ claim'  = [claim EXCEPT ![q] = 1]
  /\ results' = [results EXCEPT ![q] = {}]
  /\ answer' = [answer EXCEPT ![q] = o]
  /\ UNCHANGED report

(* mark() raises IntegrityError: the claim was expired and the recipient   *)
(* claimed again.  Nothing catches it, the request is aborted.             *)
MarkConflict(q) ==
  /\ pc[q] = "mark"
  /\ smtp[RowOf(q)] = "accepted"
  /\ Conflict(q)
  /\ Leave(q, "aborted")
  /\ UNCHANGED <<status, aged, smtp, expired, faults>>

Outcome(rs) ==
  CASE {"sent", "failed"} \subseteq rs -> "partial"
    [] "sent" \in rs /\ "failed" \notin rs -> "delivered"
    [] "failed" \in rs /\ "sent" \notin rs -> "failed"
    [] OTHER -> "nothing_to_send"

Answer(q) ==
  /\ pc[q] = "select"
  /\ next[q] > Len(list[q])
  /\ Leave(q, Outcome(results[q]))
  /\ UNCHANGED <<status, aged, smtp, expired, faults>>

(***************************************************************************)
(* The environment.                                                        *)
(***************************************************************************)

(* The process dies or the platform cuts the request; a database error     *)
(* outside the unique index ends it in the same way.                       *)
Crash(q) ==
  /\ pc[q] # "idle"
  /\ Charge("crash")
  /\ Leave(q, "aborted")
  /\ UNCHANGED <<status, aged, smtp, expired>>

(* Fifteen minutes have gone by since the insert of row i.  When a request *)
(* is still sending for it, that is a slow send.                           *)
Age(i) ==
  /\ status[i] = "PENDING"
  /\ i \notin aged
  /\ \/ /\ \A q \in Request : ~ Holds(q, i)
        /\ UNCHANGED faults
     \/ /\ \E q \in Request : Holds(q, i)
        /\ Charge("slow_send")
  /\ aged' = aged \cup {i}
  /\ UNCHANGED <<status, smtp, expired, local>>

Step(q) ==
  \/ SelectStale(q) \/ ExpireStale(q) \/ InsertClaim(q) \/ SkipClaimed(q)
  \/ Send(q) \/ MarkSent(q) \/ MarkFailed(q) \/ MarkConflict(q) \/ Answer(q)

Next ==
  \/ \E q \in Request : \E r \in Report : Start(q, r)
  \/ \E q \in Request : Decline(q)
  \/ \E q \in Request : Step(q)
  \/ \E q \in Request : Crash(q)
  \/ \E i \in LogId : Age(i)

Spec == Init /\ [][Next]_vars

(***************************************************************************)
(* Fairness.  A request that has started goes on: the event loop runs its  *)
(* next step and the mail server answers.  Time passes, so an unanswered   *)
(* claim ages.  That a report keeps being triggered is the operator's part *)
(* (pg_cron calls each period once, and target_date is there for the       *)
(* retries); no test or fairness of the code makes it true.                *)
(***************************************************************************)
Fairness ==
  /\ \A q \in Request : WF_vars(Step(q))
  /\ \A i \in LogId : WF_vars(Age(i))
  /\ \A r \in Report : SF_vars(\E q \in Request : Start(q, r))

FairSpec == Spec /\ Fairness

(***************************************************************************)
(* Properties.                                                             *)
(***************************************************************************)

(* Every variable has its type; a row in a request's hands is a real row. *)
TypeOK ==
  /\ status  \in [LogId -> {"absent", "PENDING", "SENT", "FAILED"}]
  /\ aged    \subseteq LogId
  /\ smtp    \in [LogId -> {"none", "accepted", "refused", "unanswered"}]
  /\ expired \subseteq LogId
  /\ pc      \in [Request -> {"idle", "select", "expire", "insert", "send", "mark"}]
  /\ report  \in [Request -> Report]
  /\ list    \in [Request -> Seq(Contact)]
  /\ next    \in [Request -> Nat \ {0}]
  /\ \A q \in Request : pc[q] \notin {"idle", "select"} => next[q] <= Len(list[q])
  /\ stale   \in [Request -> SUBSET LogId]
  /\ claim   \in [Request -> Attempt]
  /\ results \in [Request -> SUBSET {"sent", "failed", "skipped"}]
  /\ answer  \in [Request -> {"none", "aborted", "delivered", "partial", "failed",
                              "nothing_to_send", "disabled", "not_configured"}]
  /\ faults  \in 0 .. MaxFaults

(* A delivery is recorded SENT only when the mail server took its message  *)
(* ("It counts as delivered only when its send succeeded", CONTEXT.md):    *)
(* mark() is unconditional, so nothing in the ledger itself ensures this.  *)
SentMeansAccepted ==
  \A i \in LogId : status[i] = "SENT" => smtp[i] = "accepted"

(* A recipient is mailed a report twice only after a claim was abandoned:  *)
(* of two claims of a key whose sends both succeeded, one was expired.     *)
(* This is what the claim made before the send is for.                     *)
RepeatNeedsAbandonment ==
  \A k \in Key : \A m, n \in Attempt :
    /\ smtp[<<k, m>>] = "accepted"
    /\ smtp[<<k, n>>] = "accepted"
    /\ m # n
    => <<k, m>> \in expired \/ <<k, n>> \in expired

(* Two requests that are sending the same report to the same recipient at  *)
(* the same moment: the claim of one of them was taken over as stale.      *)
SendersExclusive ==
  \A p, q \in Request :
    /\ p # q
    /\ pc[p] \in {"send", "mark"}
    /\ pc[q] \in {"send", "mark"}
    /\ KeyOf(p) = KeyOf(q)
    => RowOf(p) \in expired \/ RowOf(q) \in expired

(* When no send outlasts its claim, a row that says SENT says so for ever: *)
(* neither the takeover of stale claims nor a late mark() rewrites it.     *)
SentIsFinal ==
  [][\A i \in LogId : status[i] = "SENT" => status'[i] = "SENT"]_vars

(* A request that has neither failed nor skipped a recipient, and answers  *)
(* "delivered", leaves a SENT row for each recipient it has gone through.  *)
ReportedSent ==
  \A q \in Request :
    pc[q] # "idle" /\ results[q] \cap {"failed", "skipped"} = {}
      => \A n \in 1 .. (next[q] - 1) : Delivered(<<report[q], list[q][n]>>)

(* The claim of two requests never holds: a late message is a second one.  *)
(* "a trigger inserts a PENDING row before sending, so two overlapping     *)
(* triggers can never both send to the same recipient for the same period" *)
(* (db/migrations/081_notification_logs_report_period.sql).                *)
NeverBothSend ==
  \A k \in Key : \A m, n \in Attempt :
    smtp[<<k, m>>] = "accepted" /\ smtp[<<k, n>>] = "accepted" => m = n

(* The unique index leaves a delivery unclaimed for no longer than it      *)
(* takes: whatever the faults, when a report goes on being triggered every *)
(* recipient has a SENT row in the end, and keeps it.                      *)
EventuallyDelivered == \A k \in Key : <>[]Delivered(k)

(***************************************************************************)
(* The inductive invariant behind the safety properties.                   *)
(***************************************************************************)

(* The row a request sends for exists; until it is expired it is PENDING;  *)
(* its message has been handed to the mail server once the send is over.   *)
RowsInHand ==
  \A q \in Request : pc[q] \in {"send", "mark"} =>
    /\ status[RowOf(q)] # "absent"
    /\ RowOf(q) \notin expired => status[RowOf(q)] = "PENDING"
    /\ pc[q] = "send" <=> smtp[RowOf(q)] = "none"

(* No row is in the hands of two requests. *)
OneHolder ==
  \A p, q \in Request :
    p # q /\ pc[p] \in {"send", "mark"} /\ pc[q] \in {"send", "mark"}
      => RowOf(p) # RowOf(q)

(* Nothing has happened to a row that is not inserted yet. *)
Untouched ==
  \A i \in LogId : status[i] = "absent" => smtp[i] = "none" /\ i \notin aged \cup expired

(* The stale claims a request has read are inserted rows of its key. *)
StaleRows ==
  \A q \in Request : \A i \in stale[q] :
    pc[q] = "expire" /\ i[1] = KeyOf(q) /\ status[i] # "absent"

(* The partial unique index uq_notification_logs_report_delivery. *)
LiveUnique ==
  \A k \in Key : \A m, n \in Attempt : Live(<<k, m>>) /\ Live(<<k, n>>) => m = n

(* A claim whose send succeeded keeps its key claimed until it is expired. *)
AcceptedIsLive ==
  \A i \in LogId : smtp[i] = "accepted" /\ i \notin expired => Live(i)

Safe ==
  /\ RowsInHand
  /\ OneHolder
  /\ Untouched
  /\ StaleRows
  /\ LiveUnique
  /\ AcceptedIsLive
  /\ SentMeansAccepted

(* What holds besides when no send outlasts its claim: an aged row belongs *)
(* to nobody and will never be SENT, and only aged rows are taken over.    *)
AgedIsAbandoned ==
  /\ \A i \in aged : status[i] # "SENT"
  /\ \A i \in aged : \A q \in Request : ~ Holds(q, i)
  /\ \A q \in Request : stale[q] \subseteq aged
  /\ expired \subseteq aged

(***************************************************************************)
(* The ledger implements the abstract Delivery when no send outlasts its   *)
(* claim.                                                                  *)
(***************************************************************************)
KeyState(k) ==
  IF Delivered(k) THEN "delivered"
  ELSE IF \E n \in Attempt : status[<<k, n>>] = "PENDING" THEN "claimed"
  ELSE "open"

Mailed(k) == \E n \in Attempt : smtp[<<k, n>>] \in {"accepted", "unanswered"}

D == INSTANCE Delivery WITH
       Deliveries <- Key,
       state      <- [k \in Key |-> KeyState(k)],
       mailed     <- [k \in Key |-> Mailed(k)]

ImplementsDelivery == D!DSpec
=============================================================================
