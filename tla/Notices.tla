------------------------------- MODULE Notices -------------------------------
(***************************************************************************)
(* Template notifications (app/modules/notifications/services): a request  *)
(* commits its business change and queues background jobs, which run after *)
(* the response, one after another.  A job reads its template, asks who is *)
(* to be told, and then logs, mails and settles one address after another. *)
(* Every query has a session of its own, so administrators may edit the    *)
(* settings and the recipients between any two of them.                    *)
(***************************************************************************)
EXTENDS Naturals, FiniteSets, Sequences

CONSTANTS
  Request,       \* requests that notify
  Kind,          \* notification types, each with its template
  Direct,        \* those resolved inside the request: login alert, absence, bulk
  Receipt,       \* payment_received: names who took the payment
  Staff,         \* the task notifications: name who changed the task
  Unset,         \* those without a row among the default settings
  Filters,       \* the sets of types recipients are registered for
  Address,       \* e-mail addresses
  ValidAddress,  \* those that pass _is_valid_email
  Fallback,      \* settings.fallback_email
  Nobody,        \* no address
  MaxJobs,       \* bound: jobs one request queues (a job per team member)
  MaxEdits,      \* bound: edits of templates, settings and recipients
  MaxFaults      \* bound: failing queries and commits, and crashes

ASSUME ConstantsAssumption ==
  /\ Direct \cup Receipt \cup Staff \subseteq Kind
  /\ Direct \cap (Receipt \cup Staff) = {} /\ Receipt \cap Staff = {}
  /\ Unset \subseteq Kind /\ Filters \subseteq SUBSET Kind /\ Kind \in Filters
  /\ ValidAddress \subseteq Address
  /\ Nobody \notin Address \cup {Fallback} /\ Fallback \notin Address
  /\ MaxJobs \in Nat \ {0} /\ MaxEdits \in Nat /\ MaxFaults \in Nat

VARIABLES
  active,      \* templates: is_active
  setting,     \* admin_notification_settings: "none" (no row), "on" or "off"
  recipient,   \* notification_additional_recipients, by address
  wants,       \* the types a recipient is registered for
  pc, kind, job, \* where each request is, what it notifies, the jobs left
  todo, cur,   \* addresses still to be told, and the one being told
  answer,      \* what the SMTP conversation returned
  log,         \* notification_logs: the status of each notice
  alertRows,   \* notification_logs: the fallback alerts, oldest first
  alerts,      \* running tasks that mail such an alert
  mails,       \* notices the SMTP server has accepted
  tried,       \* notices whose dispatch has begun
  seen,        \* what held while the job resolved its recipients
  edits, faults

tables == <<active, setting, recipient, wants>>
work   == <<pc, kind, job, todo, cur, answer>>
vars   == <<tables, work, log, alertRows, alerts, mails, tried, seen, edits, faults>>

Notice == [req : Request, job : 1 .. MaxJobs, to : Address \cup {Fallback}]
AlertRow == [req : Request, kind : Kind, state : {"held", "PENDING", "SENT", "lost"}]
Status == {"none", "PENDING", "SENT", "FAILED"}
Steps  == {"idle", "template", "query", "check", "alert", "lookup", "log", "send",
           "settle", "done", "dropped", "crashed"}
Over   == {"done", "dropped", "crashed"}

(* While a job resolves its recipients: the addresses that were eligible at *)
(* some moment, those that were all the time, whether there was a moment    *)
(* with nobody, and one with the type not switched off, and whether every   *)
(* query was answered.                                                      *)
Window == [ever : SUBSET Address, always : SUBSET Address,
           nobody : BOOLEAN, allowed : BOOLEAN, clean : BOOLEAN]

TypeOK ==
  /\ active \in [Kind -> BOOLEAN]
  /\ setting \in [Kind -> {"none", "on", "off"}]
  /\ recipient \in [Address -> {"absent", "active", "inactive"}]
  /\ wants \in [Address -> Filters]
  /\ pc \in [Request -> Steps] /\ kind \in [Request -> Kind]
  /\ job \in [Request -> 0 .. MaxJobs]
  /\ todo \in [Request -> SUBSET (Address \cup {Fallback})]
  /\ cur \in [Request -> Address \cup {Fallback, Nobody}]
  /\ answer \in [Request -> BOOLEAN]
  /\ log \in [Notice -> Status]
  /\ alertRows \in Seq(AlertRow)
  /\ alerts \subseteq [req : Request, job : 1 .. MaxJobs]
  /\ mails \subseteq Notice /\ tried \subseteq Notice
  /\ seen \in [Request -> Window]
  /\ edits \in 0 .. MaxEdits /\ faults \in 0 .. MaxFaults

NoWindow == [ever |-> {}, always |-> {}, nobody |-> FALSE, allowed |-> FALSE, clean |-> TRUE]

Init ==
  /\ active = [k \in Kind |-> TRUE]
  /\ setting = [k \in Kind |-> IF k \in Unset THEN "none" ELSE "on"]
  /\ recipient \in [Address -> {"absent", "active"}]
  /\ wants = [a \in Address |-> Kind]
  /\ pc = [q \in Request |-> "idle"] /\ kind \in [Request -> Kind]
  /\ job = [q \in Request |-> 0]
  /\ todo = [q \in Request |-> {}] /\ cur = [q \in Request |-> Nobody]
  /\ answer = [q \in Request |-> FALSE]
  /\ log = [n \in Notice |-> "none"]
  /\ alertRows = <<>> /\ alerts = {} /\ mails = {} /\ tried = {}
  /\ seen = [q \in Request |-> NoWindow]
  /\ edits = 0 /\ faults = 0

Fault   == faults < MaxFaults /\ faults' = faults + 1
NoFault == UNCHANGED faults
Goes(q, step) == pc' = [pc EXCEPT ![q] = step]

This(q) == [req |-> q, job |-> job[q], to |-> cur[q]]

(***************************************************************************)
(* Who is to be told: _resolve_notification_recipients.                    *)
(***************************************************************************)

(* The join of recipients and settings, and _is_valid_email. *)
Eligible(k) ==
  {a \in ValidAddress : setting[k] = "on" /\ recipient[a] = "active" /\ k \in wants[a]}

(* What the windows see of a step: the tables as the step leaves them. *)
Opened(k) == [ever |-> Eligible(k)', always |-> Eligible(k)', nobody |-> Eligible(k)' = {},
              allowed |-> setting'[k] # "off", clean |-> TRUE]
Extended(w, k) ==
  [w EXCEPT !.ever = @ \cup Eligible(k)', !.always = @ \cap Eligible(k)',
            !.nobody = @ \/ Eligible(k)' = {}, !.allowed = @ \/ setting'[k] # "off"]
Resolving == {"template", "query", "check"}

Watch ==
  seen' = [q \in Request |->
    IF pc'[q] \in {"idle"} \cup Over THEN NoWindow
    ELSE IF pc'[q] # pc[q] /\ (pc'[q] = "template" \/ pc[q] = "idle") THEN Opened(kind[q])
    ELSE IF pc'[q] # pc[q] /\ pc[q] \in Resolving /\ faults' # faults THEN [seen[q] EXCEPT !.clean = FALSE]
    ELSE IF pc'[q] \in Resolving THEN Extended(seen[q], kind[q])
    ELSE seen[q]]

(* A job reads more of what it tells about, a request has read it before. *)
Resolved(q) == IF kind[q] \in Direct THEN "log" ELSE "lookup"

(* The first query: the recipients themselves. *)
QueryRecipients(q) ==
  /\ pc[q] = "query"
  /\ todo' = [todo EXCEPT ![q] = Eligible(kind[q])]
  /\ Goes(q, IF Eligible(kind[q]) = {} THEN "check" ELSE Resolved(q))
  /\ NoFault
  /\ UNCHANGED <<tables, kind, job, cur, answer, log, alertRows, alerts, mails, tried, edits>>

(* It fails: caught, and taken for no recipients. *)
QueryFails(q) ==
  /\ pc[q] = "query" /\ Goes(q, "check") /\ Fault
  /\ UNCHANGED <<tables, kind, job, todo, cur, answer, log, alertRows, alerts, mails,
                 tried, edits>>

(* The fallback address is told instead, and alerted: the row of the alert  *)
(* is flushed to the session of the request, which commits later or never.  *)
(* In a request the alert is awaited; in a job it is a task of its own.     *)
FallBack(q) ==
  /\ todo' = [todo EXCEPT ![q] = {Fallback}]
  /\ alertRows' = Append(alertRows, [req |-> q, kind |-> kind[q], state |-> "held"])
  /\ alerts' = alerts \cup {[req |-> q, job |-> job[q]]}
  /\ Goes(q, IF kind[q] \in Direct THEN "alert" ELSE "lookup")

(* The second query: a type switched off has no fallback. *)
CheckDisabled(q) ==
  /\ pc[q] = "check" /\ NoFault
  /\ IF setting[kind[q]] = "off"
     THEN Goes(q, Resolved(q)) /\ UNCHANGED <<todo, alertRows, alerts>>
     ELSE FallBack(q)
  /\ UNCHANGED <<tables, kind, job, cur, answer, log, mails, tried, edits>>

(* It fails: caught, and the fallback is used. *)
CheckFails(q) ==
  /\ pc[q] = "check" /\ Fault /\ FallBack(q)
  /\ UNCHANGED <<tables, kind, job, cur, answer, log, mails, tried, edits>>

(***************************************************************************)
(* The alert about a fallback: _send_fallback_alert.                       *)
(***************************************************************************)
AlertOf(q) == {t \in alerts : t.req = q}

Committed == {i \in DOMAIN alertRows : alertRows[i].state \in {"PENDING", "SENT"}}

(* The alert is mailed, accepted or not (what send returns is not looked at), *)
(* and the newest alert row that is committed becomes SENT, whosever it is.   *)
SendAlert(t) ==
  /\ alerts' = alerts \ {t}
  /\ alertRows' = [i \in DOMAIN alertRows |->
       IF i \in Committed /\ \A j \in Committed : j <= i
       THEN [alertRows[i] EXCEPT !.state = "SENT"] ELSE alertRows[i]]
  /\ UNCHANGED <<tables, work, log, mails, tried, edits, faults>>

(* What the session of the request did not commit by its end is lost. *)
Release(q, state) ==
  alertRows' = [i \in DOMAIN alertRows |->
    IF alertRows[i].req = q /\ alertRows[i].state = "held"
    THEN [alertRows[i] EXCEPT !.state = state] ELSE alertRows[i]]

(* A request has awaited its alert.  Its session is closed by get_db before *)
(* the jobs run or after them, as the version of FastAPI has it.            *)
AlertOver(q) ==
  /\ pc[q] = "alert" /\ AlertOf(q) = {} /\ Goes(q, "log")
  /\ Release(q, "PENDING") \/ UNCHANGED alertRows
  /\ UNCHANGED <<tables, kind, job, todo, cur, answer, log, alerts, mails, tried, edits, faults>>

(***************************************************************************)
(* A request and its jobs.                                                 *)
(***************************************************************************)

(* A request commits its business change and queues n jobs of one kind; a   *)
(* login alert, an absence or a bulk mail resolves its recipients at once.  *)
Handle(q, n) ==
  /\ pc[q] = "idle"
  /\ kind[q] \in Direct => n = 1
  /\ job' = [job EXCEPT ![q] = n]
  /\ Goes(q, IF kind[q] \in Direct THEN "query" ELSE "template")
  /\ UNCHANGED <<tables, kind, todo, cur, answer, log, alertRows, alerts, mails, tried,
                 edits, faults>>

(* The next job, or the end of the request and of its session. *)
EndJob(q) ==
  /\ job' = [job EXCEPT ![q] = @ - 1]
  /\ todo' = [todo EXCEPT ![q] = {}]
  /\ IF job[q] > 1 THEN Goes(q, "template") /\ UNCHANGED alertRows
     ELSE Goes(q, "done") /\ \E s \in {"PENDING", "lost"} : Release(q, s)

(* An exception leaves a job: the jobs behind it are dropped with it. *)
Raise(q) ==
  /\ Goes(q, "dropped") /\ Release(q, "lost")
  /\ todo' = [todo EXCEPT ![q] = {}]
  /\ UNCHANGED job

ReadTemplate(q) ==
  /\ pc[q] = "template" /\ NoFault
  /\ IF active[kind[q]]
     THEN /\ Goes(q, IF kind[q] \in Staff THEN "lookup" ELSE "query")
          /\ UNCHANGED <<job, todo, alertRows>>
     ELSE EndJob(q)
  /\ UNCHANGED <<tables, kind, cur, answer, log, alerts, mails, tried, edits>>

(* The job reads the rows it tells about.  A payment or task job that finds *)
(* the user they name reads user.email, an attribute a User does not have.  *)
NamesUser(q) == kind[q] \in Receipt \cup Staff

LookUp(q) ==
  /\ pc[q] = "lookup" /\ NoFault
  /\ \/ kind[q] \notin Staff /\ Goes(q, "log") /\ UNCHANGED <<job, todo, alertRows>>
     \/ NamesUser(q) /\ Raise(q)
     \/ kind[q] \in Staff /\ EndJob(q)      \* the task or its employee has gone
  /\ UNCHANGED <<tables, kind, cur, answer, log, alerts, mails, tried, edits>>

(* A query outside any try of its own fails. *)
QueryRaises(q) ==
  /\ pc[q] \in {"template", "lookup"} /\ Fault /\ Raise(q)
  /\ UNCHANGED <<tables, kind, cur, answer, log, alerts, mails, tried, edits>>

(***************************************************************************)
(* _dispatch: log, mail and settle one notice.                             *)
(***************************************************************************)
Begin(q, a) ==
  /\ pc[q] = "log" /\ a \in todo[q]
  /\ cur' = [cur EXCEPT ![q] = a]
  /\ todo' = [todo EXCEPT ![q] = @ \ {a}]
  /\ tried' = tried \cup {[req |-> q, job |-> job[q], to |-> a]}
  /\ Goes(q, "send")
  /\ UNCHANGED <<tables, kind, job, answer, alertRows, alerts, mails, edits>>

LogPending(q, a) ==
  /\ Begin(q, a) /\ NoFault
  /\ log' = [log EXCEPT ![[req |-> q, job |-> job[q], to |-> a]] = "PENDING"]

(* The row cannot be written: the mail is sent all the same. *)
LogFails(q, a) == Begin(q, a) /\ Fault /\ UNCHANGED log

(* The SMTP server takes the mail or does not, and its answer may be lost. *)
Send(q) ==
  /\ pc[q] = "send" /\ Goes(q, "settle")
  /\ \E taken, told \in BOOLEAN :
       /\ told => taken
       /\ mails' = IF taken THEN mails \cup {This(q)} ELSE mails
       /\ answer' = [answer EXCEPT ![q] = told]
  /\ UNCHANGED <<tables, kind, job, todo, cur, log, alertRows, alerts, tried, edits, faults>>

(* Faulty variant: only an exception counts as a failure. *)
OutcomeIgnored(q) == "SENT"

Outcome(q) == IF answer[q] THEN "SENT" ELSE "FAILED"

(* Faulty variant: a failure ends the job. *)
SettleStops(q) ==
  /\ pc[q] = "settle" /\ Goes(q, "log") /\ NoFault
  /\ log' = IF log[This(q)] = "none" THEN log ELSE [log EXCEPT ![This(q)] = Outcome(q)]
  /\ cur' = [cur EXCEPT ![q] = Nobody]
  /\ answer' = [answer EXCEPT ![q] = FALSE]
  /\ todo' = IF answer[q] THEN todo ELSE [todo EXCEPT ![q] = {}]
  /\ UNCHANGED <<tables, kind, job, alertRows, alerts, mails, tried, edits>>

(* Faulty variant: a failure is tried again. *)
SettleRetries(q) ==
  /\ pc[q] = "settle" /\ Goes(q, "log") /\ NoFault
  /\ log' = IF log[This(q)] = "none" THEN log ELSE [log EXCEPT ![This(q)] = Outcome(q)]
  /\ cur' = [cur EXCEPT ![q] = Nobody]
  /\ answer' = [answer EXCEPT ![q] = FALSE]
  /\ todo' = IF answer[q] THEN todo ELSE [todo EXCEPT ![q] = @ \cup {cur[q]}]
  /\ UNCHANGED <<tables, kind, job, alertRows, alerts, mails, tried, edits>>

(* Faulty variant: the row is awaited also when it could not be written. *)
SettleAwaitsRow(q) ==
  /\ pc[q] = "settle" /\ Goes(q, "log") /\ NoFault
  /\ log[This(q)] # "none" /\ log' = [log EXCEPT ![This(q)] = Outcome(q)]
  /\ cur' = [cur EXCEPT ![q] = Nobody]
  /\ answer' = [answer EXCEPT ![q] = FALSE]
  /\ UNCHANGED <<tables, kind, job, todo, alertRows, alerts, mails, tried, edits>>

Settle(q) ==
  /\ pc[q] = "settle" /\ Goes(q, "log") /\ NoFault
  /\ log' = IF log[This(q)] = "none" THEN log ELSE [log EXCEPT ![This(q)] = Outcome(q)]
  /\ cur' = [cur EXCEPT ![q] = Nobody]
  /\ answer' = [answer EXCEPT ![q] = FALSE]
  /\ UNCHANGED <<tables, kind, job, todo, alertRows, alerts, mails, tried, edits>>

(* The status cannot be written: the row stays PENDING. *)
SettleFails(q) ==
  /\ pc[q] = "settle" /\ Goes(q, "log") /\ Fault
  /\ cur' = [cur EXCEPT ![q] = Nobody]
  /\ answer' = [answer EXCEPT ![q] = FALSE]
  /\ UNCHANGED <<tables, kind, job, todo, log, alertRows, alerts, mails, tried, edits>>

JobOver(q) ==
  /\ pc[q] = "log" /\ todo[q] = {} /\ NoFault /\ EndJob(q)
  /\ UNCHANGED <<tables, kind, cur, answer, log, alerts, mails, tried, edits>>

(* The process ends: requests, queued jobs and alerts go with it. *)
Crash ==
  /\ Fault
  /\ pc' = [q \in Request |-> IF pc[q] \in {"idle"} \cup Over THEN pc[q] ELSE "crashed"]
  /\ pc' # pc
  /\ alerts' = {}
  /\ alertRows' = [i \in DOMAIN alertRows |->
       IF alertRows[i].state = "held" THEN [alertRows[i] EXCEPT !.state = "lost"]
       ELSE alertRows[i]]
  /\ todo' = [q \in Request |-> {}] /\ cur' = [q \in Request |-> Nobody]
  /\ answer' = [q \in Request |-> FALSE]
  /\ UNCHANGED <<tables, kind, job, log, mails, tried, edits>>

(***************************************************************************)
(* Administrators: admin_settings_router.py and templates_router.py.       *)
(***************************************************************************)
Edit == edits < MaxEdits /\ edits' = edits + 1
         /\ UNCHANGED <<work, log, alertRows, alerts, mails, tried, faults>>

SetTemplate(k) ==
  /\ Edit /\ active' = [active EXCEPT ![k] = ~@]
  /\ UNCHANGED <<setting, recipient, wants>>

SetSetting(k, s) ==
  /\ Edit /\ s \in {"on", "off"} /\ setting' = [setting EXCEPT ![k] = s]
  /\ UNCHANGED <<active, recipient, wants>>

AddRecipient(a, ks) ==
  /\ Edit /\ recipient[a] = "absent"
  /\ recipient' = [recipient EXCEPT ![a] = "active"]
  /\ wants' = [wants EXCEPT ![a] = ks]
  /\ UNCHANGED <<active, setting>>

(* Another address (unique), other types, another is_active. *)
UpdateRecipient(a, b, ks, s) ==
  /\ Edit /\ recipient[a] # "absent" /\ (b # a => recipient[b] = "absent")
  /\ recipient' = [recipient EXCEPT ![a] = "absent", ![b] = s]
  /\ wants' = [wants EXCEPT ![b] = ks]
  /\ s \in {"active", "inactive"}
  /\ UNCHANGED <<active, setting>>

DeleteRecipient(a) ==
  /\ Edit /\ recipient[a] # "absent"
  /\ recipient' = [recipient EXCEPT ![a] = "absent"]
  /\ UNCHANGED <<active, setting, wants>>

(***************************************************************************)
(* The specification.                                                      *)
(***************************************************************************)
Step(q) ==
  \/ ReadTemplate(q) \/ QueryRaises(q)
  \/ QueryRecipients(q) \/ QueryFails(q) \/ CheckDisabled(q) \/ CheckFails(q)
  \/ AlertOver(q) \/ LookUp(q)
  \/ \E a \in todo[q] : LogPending(q, a) \/ LogFails(q, a)
  \/ Send(q) \/ Settle(q) \/ SettleFails(q) \/ JobOver(q)

Alerts == \E t \in alerts : SendAlert(t)

Admin ==
  \/ \E k \in Kind : SetTemplate(k) \/ \E s \in {"on", "off"} : SetSetting(k, s)
  \/ \E a \in Address : \/ DeleteRecipient(a)
                        \/ \E ks \in Filters :
                             \/ AddRecipient(a, ks)
                             \/ \E b \in Address, s \in {"active", "inactive"} :
                                  UpdateRecipient(a, b, ks, s)

Next ==
  /\ \/ \E q \in Request : Step(q) \/ \E n \in 1 .. MaxJobs : Handle(q, n)
     \/ Alerts \/ Crash \/ Admin
  /\ Watch

(* The event loop runs every job and every task that can go on. *)
Fairness ==
  /\ \A q \in Request : WF_vars(Step(q) /\ Watch)
  /\ WF_vars(Alerts /\ Watch)

Spec == Init /\ [][Next]_vars /\ Fairness

(***************************************************************************)
(* Properties.                                                             *)
(***************************************************************************)

(* A row says SENT only of a notice the SMTP server has accepted, although  *)
(* answers get lost, rows fail to be written and the process may end.       *)
SentWasAccepted == \A n \in Notice : log[n] = "SENT" => n \in mails

(* Whatever administrators edit meanwhile: an address that is being told was *)
(* eligible at some moment while the job resolved its recipients, and the    *)
(* fallback is told only if there was a moment with nobody to tell and one   *)
(* with the type not switched off, unless a query failed.                    *)
ToldWereEligible ==
  \A q \in Request :
    /\ cur[q] \in Address => cur[q] \in seen[q].ever
    /\ cur[q] = Fallback /\ seen[q].clean => seen[q].nobody /\ seen[q].allowed

(* When a job is over, everybody who was eligible all the time it resolved   *)
(* its recipients has been tried, whatever became of the others' mails.      *)
EligibleAreTold ==
  \A q \in Request :
    pc[q] = "log" /\ todo[q] = {} /\ seen[q].clean =>
      \A a \in seen[q].always : [req |-> q, job |-> job[q], to |-> a] \in tried

(* Nobody is told who should not be, and nobody is left out who should.      *)
RightPeopleAreTold == ToldWereEligible /\ EligibleAreTold

(* A notice is never mailed a second time, also when the first answer was lost. *)
MailedOnce == [][\A n \in mails : \A q \in Request : cur'[q] = n.to /\ pc'[q] = "send"
                  => n.req # q \/ n.job # job[q]]_vars

(* Every request that has queued its jobs comes to their end, or is lost to an *)
(* exception or a crash.                                                       *)
JobsEnd == \A q \in Request : pc[q] # "idle" ~> pc[q] \in Over

(* No job is dropped unless a query failed (payment_notifications.py:206:     *)
(* "Send to all enabled recipients").                                         *)
NoJobIsDropped == \A q \in Request : pc[q] = "dropped" => faults > 0
=============================================================================
