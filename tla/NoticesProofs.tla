---------------------------- MODULE NoticesProofs ----------------------------
(***************************************************************************)
(* The safety properties of Notices for any number of requests, types,     *)
(* addresses, jobs, edits and faults.                                      *)
(***************************************************************************)
EXTENDS NoticePages, TLAPS

Busy == Steps \ ({"idle"} \cup Over)

(* A request at work has a job, and an address while it mails. *)
AtWork ==
  \A q \in Request :
    /\ pc[q] \in Busy => job[q] \in 1 .. MaxJobs
    /\ pc[q] \in {"send", "settle"} => cur[q] \in Address \cup {Fallback}

(***************************************************************************)
(* Type correctness.                                                       *)
(***************************************************************************)
LEMMA MappedSequence ==
  ASSUME NEW S, NEW s \in Seq(S), NEW g, g = [i \in DOMAIN s |-> g[i]],
         \A i \in DOMAIN s : g[i] \in S
  PROVE  g \in Seq(S)
<1>1. Len(s) \in Nat /\ DOMAIN s = 1 .. Len(s)
  OBVIOUS
<1>2. g \in [1 .. Len(s) -> S]
  BY <1>1
<1> QED BY <1>1, <1>2

LEMMA RowRecords ==
  ASSUME NEW r \in AlertRow, NEW x \in {"PENDING", "SENT", "lost"}
  PROVE  [r EXCEPT !.state = x] \in AlertRow
BY DEF AlertRow

LEMMA AlertRowTypes ==
  ASSUME alertRows \in Seq(AlertRow), NEW q \in Request, kind[q] \in Kind
  PROVE  /\ Append(alertRows, [req |-> q, kind |-> kind[q], state |-> "held"]) \in Seq(AlertRow)
         /\ \A x \in {"PENDING", "lost"} : Release(q, x) => alertRows' \in Seq(AlertRow)
<1>1. [req |-> q, kind |-> kind[q], state |-> "held"] \in AlertRow
  BY DEF AlertRow
<1>2. ASSUME NEW x \in {"PENDING", "lost"}, Release(q, x) PROVE alertRows' \in Seq(AlertRow)
  <2>1. \A i \in DOMAIN alertRows : alertRows[i] \in AlertRow
    OBVIOUS
  <2>2. \A i \in DOMAIN alertRows : alertRows'[i] \in AlertRow
    BY <1>2, <2>1, RowRecords DEF Release
  <2>3. alertRows' = [i \in DOMAIN alertRows |-> alertRows'[i]]
    BY <1>2 DEF Release
  <2> QED BY <2>2, <2>3, MappedSequence
<1> QED BY <1>1, <1>2

LEMMA NoticeRecords ==
  ASSUME TypeOK, NEW q \in Request, job[q] \in 1 .. MaxJobs
  PROVE  /\ \A a \in Address \cup {Fallback} : [req |-> q, job |-> job[q], to |-> a] \in Notice
         /\ cur[q] \in Address \cup {Fallback} => This(q) \in Notice
         /\ [req |-> q, job |-> job[q]] \in [req : Request, job : 1 .. MaxJobs]
BY DEF Notice, This

LEMMA EligibleTypes == \A k : Eligible(k) \in SUBSET Address
BY ConstantsAssumption DEF Eligible

LEMMA WatchTypes ==
  ASSUME seen \in [Request -> Window], Watch
  PROVE  seen' \in [Request -> Window]
<1>1. NoWindow \in Window
  BY DEF NoWindow, Window
<1>2. \A k : Eligible(k)' \in SUBSET Address
  BY ConstantsAssumption DEF Eligible
<1>3. ASSUME NEW k PROVE Opened(k) \in Window
  BY <1>2 DEF Opened, Window
<1>4. ASSUME NEW k, NEW w \in Window PROVE Extended(w, k) \in Window
  BY <1>2 DEF Extended, Window
<1>5. ASSUME NEW w \in Window PROVE [w EXCEPT !.clean = FALSE] \in Window
  BY DEF Window
<1> QED BY <1>1, <1>3, <1>4, <1>5 DEF Watch

LEMMA EndJobTypes ==
  ASSUME TypeOK, AtWork, NEW q \in Request, pc[q] \in Busy, EndJob(q) \/ Raise(q)
  PROVE  /\ job' \in [Request -> 0 .. MaxJobs]
         /\ todo' \in [Request -> SUBSET (Address \cup {Fallback})]
         /\ alertRows' \in Seq(AlertRow)
         /\ pc' \in [Request -> Steps]
         /\ \A p \in Request \ {q} : pc'[p] = pc[p] /\ job'[p] = job[p] /\ todo'[p] = todo[p]
         /\ \/ pc'[q] \in Over
            \/ pc'[q] = "template" /\ job[q] > 1 /\ job'[q] = job[q] - 1
         /\ todo'[q] = {}
<1>1. job[q] \in 1 .. MaxJobs /\ MaxJobs \in Nat /\ kind[q] \in Kind
  BY ConstantsAssumption DEF AtWork, TypeOK
<1>2. CASE EndJob(q)
  <2>1. job' = [job EXCEPT ![q] = job[q] - 1] /\ job[q] - 1 \in 0 .. MaxJobs
    BY <1>1, <1>2 DEF EndJob, TypeOK
  <2>2. \/ Goes(q, "template") /\ UNCHANGED alertRows /\ job[q] > 1
        \/ Goes(q, "done") /\ \E s \in {"PENDING", "lost"} : Release(q, s)
    BY <1>2 DEF EndJob
  <2>3. alertRows' \in Seq(AlertRow)
    BY <1>1, <2>2, AlertRowTypes DEF TypeOK
  <2>4. todo' = [todo EXCEPT ![q] = {}]
    BY <1>2 DEF EndJob
  <2>5. /\ pc' \in [Request -> Steps] /\ \A p \in Request \ {q} : pc'[p] = pc[p]
        /\ pc'[q] \in Over \/ (pc'[q] = "template" /\ job[q] > 1)
    <3>1. \/ pc' = [pc EXCEPT ![q] = "template"] /\ job[q] > 1
          \/ pc' = [pc EXCEPT ![q] = "done"]
      BY <2>2 DEF Goes
    <3> QED BY <3>1 DEF TypeOK, Steps, Over
  <2>6. /\ job' \in [Request -> 0 .. MaxJobs] /\ job'[q] = job[q] - 1
        /\ \A p \in Request \ {q} : job'[p] = job[p]
    BY <2>1 DEF TypeOK
  <2>7. /\ todo' \in [Request -> SUBSET (Address \cup {Fallback})] /\ todo'[q] = {}
        /\ \A p \in Request \ {q} : todo'[p] = todo[p]
    BY <2>4 DEF TypeOK
  <2> QED BY <2>3, <2>5, <2>6, <2>7
<1>3. CASE Raise(q)
  <2>1. alertRows' \in Seq(AlertRow)
    BY <1>1, <1>3, AlertRowTypes DEF Raise, TypeOK
  <2>2. /\ pc' = [pc EXCEPT ![q] = "dropped"] /\ todo' = [todo EXCEPT ![q] = {}] /\ job' = job
    BY <1>3 DEF Raise, Goes
  <2>3. /\ pc' \in [Request -> Steps] /\ pc'[q] \in Over
        /\ \A p \in Request \ {q} : pc'[p] = pc[p]
    BY <2>2 DEF TypeOK, Steps, Over
  <2>4. /\ todo' \in [Request -> SUBSET (Address \cup {Fallback})] /\ todo'[q] = {}
        /\ \A p \in Request \ {q} : todo'[p] = todo[p]
    BY <2>2 DEF TypeOK
  <2>5. job' \in [Request -> 0 .. MaxJobs] /\ \A p \in Request \ {q} : job'[p] = job[p]
    BY <2>2 DEF TypeOK
  <2> QED BY <2>1, <2>3, <2>4, <2>5
<1> QED BY <1>2, <1>3

LEMMA FallBackTypes ==
  ASSUME TypeOK, AtWork, NEW q \in Request, pc[q] \in Busy, FallBack(q)
  PROVE  /\ todo' \in [Request -> SUBSET (Address \cup {Fallback})]
         /\ alertRows' \in Seq(AlertRow)
         /\ alerts' \subseteq [req : Request, job : 1 .. MaxJobs]
         /\ pc' \in [Request -> Steps]
         /\ \A p \in Request \ {q} : pc'[p] = pc[p] /\ todo'[p] = todo[p]
         /\ pc'[q] \in {"alert", "lookup"} /\ todo'[q] = {Fallback}
<1>1. job[q] \in 1 .. MaxJobs /\ kind[q] \in Kind /\ alertRows \in Seq(AlertRow)
  BY DEF AtWork, TypeOK
<1>2. alertRows' \in Seq(AlertRow)
  BY <1>1, AlertRowTypes DEF FallBack
<1>3. alerts' \subseteq [req : Request, job : 1 .. MaxJobs]
  BY <1>1, NoticeRecords DEF FallBack, TypeOK
<1> QED BY <1>2, <1>3 DEF FallBack, Goes, TypeOK, Steps

LEMMA Counted ==
  ASSUME TypeOK
  PROVE  /\ Fault => faults' \in 0 .. MaxFaults
         /\ NoFault => faults' \in 0 .. MaxFaults
         /\ Edit => edits' \in 0 .. MaxEdits
BY ConstantsAssumption DEF TypeOK, Fault, NoFault, Edit

(* What a step of request q leaves alone, and the types of what it writes. *)
Local(q) ==
  /\ TypeOK' /\ AtWork' /\ UNCHANGED <<tables, kind, edits>>
  /\ \A p \in Request \ {q} :
       /\ pc'[p] = pc[p] /\ job'[p] = job[p] /\ todo'[p] = todo[p]
       /\ cur'[p] = cur[p] /\ answer'[p] = answer[p]

LEMMA JobEnds ==
  ASSUME TypeOK, AtWork, NEW q \in Request, pc[q] \in Busy, EndJob(q) \/ Raise(q), Watch,
         NoFault \/ Fault, UNCHANGED <<tables, kind, cur, answer, log, alerts, mails, tried, edits>>
  PROVE  Local(q)
<1>1. /\ job' \in [Request -> 0 .. MaxJobs]
      /\ todo' \in [Request -> SUBSET (Address \cup {Fallback})]
      /\ alertRows' \in Seq(AlertRow)
      /\ pc' \in [Request -> Steps]
      /\ \A p \in Request \ {q} : pc'[p] = pc[p] /\ job'[p] = job[p] /\ todo'[p] = todo[p]
      /\ \/ pc'[q] \in Over
         \/ pc'[q] = "template" /\ job[q] > 1 /\ job'[q] = job[q] - 1
  BY EndJobTypes
<1>2. seen' \in [Request -> Window] /\ faults' \in 0 .. MaxFaults
  BY WatchTypes, Counted DEF TypeOK
<1>3. TypeOK'
  BY <1>1, <1>2 DEF TypeOK, tables
<1>4. job[q] \in 1 .. MaxJobs /\ MaxJobs \in Nat
  BY ConstantsAssumption DEF AtWork
<1>5. /\ pc'[q] \in Busy => job'[q] \in 1 .. MaxJobs
      /\ pc'[q] \notin {"send", "settle"}
  BY <1>1, <1>4 DEF Busy, Over
<1>6. AtWork'
  BY <1>1, <1>5 DEF AtWork
<1> QED BY <1>1, <1>3, <1>6 DEF Local

LEMMA StepTypes ==
  ASSUME TypeOK, AtWork, NEW q \in Request, Step(q), Watch
  PROVE  Local(q)
<1>0. seen' \in [Request -> Window]
  BY WatchTypes DEF TypeOK
<1>a. kind[q] \in Kind /\ alertRows \in Seq(AlertRow)
  BY DEF TypeOK
<1>b. Resolved(q) \in {"log", "lookup"} /\ Resolved(q) \in Steps
  BY DEF Resolved, Steps
<1> USE <1>0, Counted
<1>1. CASE ReadTemplate(q)
  <2>1. CASE active[kind[q]]
    BY <1>1, <2>1, ZenonT(60) DEF ReadTemplate, Local, AtWork, TypeOK, tables, Goes, NoFault, Busy, Steps, Over
  <2>2. CASE ~active[kind[q]]
    <3>1. pc[q] \in Busy /\ EndJob(q)
      BY <1>1, <2>2 DEF ReadTemplate, Busy, Steps, Over
    <3> QED BY <1>1, <3>1, JobEnds DEF ReadTemplate
  <2> QED BY <2>1, <2>2
<1>2. CASE QueryRaises(q)
  <2>1. pc[q] \in Busy /\ Raise(q)
    BY <1>2 DEF QueryRaises, Busy, Steps, Over
  <2> QED BY <1>2, <2>1, JobEnds DEF QueryRaises
<1>3. CASE QueryRecipients(q)
  BY <1>3, <1>b, EligibleTypes DEF QueryRecipients, Local, AtWork, TypeOK, tables, Goes, NoFault, Busy, Steps, Over
<1>4. CASE QueryFails(q)
  BY <1>4 DEF QueryFails, Local, AtWork, TypeOK, tables, Goes, Busy, Steps, Over
<1>5. CASE CheckDisabled(q)
  <2>1. CASE setting[kind[q]] = "off"
    BY <1>5, <2>1, <1>b, ZenonT(60) DEF CheckDisabled, Local, AtWork, TypeOK, tables, Goes, NoFault, Busy, Steps, Over
  <2>2. CASE setting[kind[q]] # "off"
    <3>1. pc[q] \in Busy /\ FallBack(q)
      BY <1>5, <2>2 DEF CheckDisabled, Busy, Steps, Over
    <3> QED BY <1>5, <3>1, FallBackTypes DEF CheckDisabled, Local, AtWork, TypeOK, tables, NoFault, Busy
  <2> QED BY <2>1, <2>2
<1>6. CASE CheckFails(q)
  <2>1. pc[q] \in Busy /\ FallBack(q)
    BY <1>6 DEF CheckFails, Busy, Steps, Over
  <2> QED BY <1>6, <2>1, FallBackTypes DEF CheckFails, Local, AtWork, TypeOK, tables, Busy
<1>7. CASE AlertOver(q)
  <2>1. alertRows' \in Seq(AlertRow)
    BY <1>7, <1>a, AlertRowTypes DEF AlertOver
  <2> QED BY <1>7, <2>1 DEF AlertOver, Local, AtWork, TypeOK, tables, Goes, Busy, Steps, Over
<1>8. CASE LookUp(q)
  <2>1. CASE Raise(q) \/ EndJob(q)
    <3>1. pc[q] \in Busy
      BY <1>8 DEF LookUp, Busy, Steps, Over
    <3> QED BY <1>8, <2>1, <3>1, JobEnds DEF LookUp
  <2>2. CASE Goes(q, "log") /\ UNCHANGED <<job, todo, alertRows>>
    BY <1>8, <2>2 DEF LookUp, Local, AtWork, TypeOK, tables, Goes, NoFault, Busy, Steps, Over
  <2> QED BY <1>8, <2>1, <2>2 DEF LookUp
<1>9. ASSUME NEW a \in todo[q], LogPending(q, a) \/ LogFails(q, a) PROVE Local(q)
  <2>1. /\ pc[q] = "log" /\ pc' = [pc EXCEPT ![q] = "send"]
        /\ cur' = [cur EXCEPT ![q] = a] /\ todo' = [todo EXCEPT ![q] = todo[q] \ {a}]
        /\ tried' = tried \cup {[req |-> q, job |-> job[q], to |-> a]}
        /\ UNCHANGED <<tables, kind, job, answer, alertRows, alerts, mails, edits>>
    BY <1>9 DEF LogPending, LogFails, Begin, Goes, TypeOK
  <2>2. a \in Address \cup {Fallback} /\ job[q] \in 1 .. MaxJobs
    BY <2>1 DEF TypeOK, AtWork, Busy, Steps, Over
  <2>3. [req |-> q, job |-> job[q], to |-> a] \in Notice
    BY <2>2, NoticeRecords
  <2>4. log' \in [Notice -> Status]
    BY <1>9, <2>3 DEF LogPending, LogFails, TypeOK, Status
  <2>5. faults' \in 0 .. MaxFaults
    BY <1>9 DEF LogPending, LogFails
  <2> QED BY <2>1, <2>2, <2>3, <2>4, <2>5 DEF Local, AtWork, TypeOK, tables, Busy, Steps, Over
<1>10. CASE Send(q)
  <2>1. cur[q] \in Address \cup {Fallback} /\ job[q] \in 1 .. MaxJobs
    BY <1>10 DEF Send, AtWork, Busy, Steps, Over
  <2>2. mails' \subseteq Notice
    BY <1>10, <2>1, NoticeRecords DEF Send, TypeOK
  <2>3. answer' \in [Request -> BOOLEAN] /\ \A p \in Request \ {q} : answer'[p] = answer[p]
    BY <1>10 DEF Send, TypeOK
  <2> QED BY <1>10, <2>1, <2>2, <2>3 DEF Send, Local, AtWork, TypeOK, tables, Goes, Busy, Steps, Over
<1>11. CASE Settle(q)
  <2>1. cur[q] \in Address \cup {Fallback} /\ job[q] \in 1 .. MaxJobs
    BY <1>11 DEF Settle, AtWork, Busy, Steps, Over
  <2>2. log' \in [Notice -> Status]
    BY <1>11, <2>1, NoticeRecords DEF Settle, TypeOK, Outcome, Status
  <2> QED BY <1>11, <2>1, <2>2 DEF Settle, Local, AtWork, TypeOK, tables, Goes, NoFault, Busy, Steps, Over
<1>12. CASE SettleFails(q)
  BY <1>12 DEF SettleFails, Local, AtWork, TypeOK, tables, Goes, Busy, Steps, Over
<1>13. CASE JobOver(q)
  <2>1. pc[q] \in Busy /\ EndJob(q)
    BY <1>13 DEF JobOver, Busy, Steps, Over
  <2> QED BY <1>13, <2>1, JobEnds DEF JobOver
<1> QED BY <1>1, <1>2, <1>3, <1>4, <1>5, <1>6, <1>7, <1>8, <1>9, <1>10, <1>11, <1>12, <1>13 DEF Step

(* The steps of the alerts, of administrators, and the crash. *)
LEMMA OtherTypes ==
  ASSUME TypeOK, AtWork, Alerts \/ Admin \/ Crash, Watch
  PROVE  TypeOK' /\ AtWork'
<1>0. seen' \in [Request -> Window]
  BY WatchTypes DEF TypeOK
<1> USE <1>0, Counted
<1>1. CASE Alerts
  <2>1. PICK t \in alerts : SendAlert(t)
    BY <1>1 DEF Alerts
  <2>2. alertRows \in Seq(AlertRow) /\ \A i \in DOMAIN alertRows : alertRows[i] \in AlertRow
    BY DEF TypeOK
  <2>3. /\ alertRows' = [i \in DOMAIN alertRows |-> alertRows'[i]]
        /\ \A i \in DOMAIN alertRows :
             \/ alertRows'[i] = alertRows[i]
             \/ alertRows'[i] = [alertRows[i] EXCEPT !.state = "SENT"]
    BY <2>1 DEF SendAlert
  <2>4. alertRows' \in Seq(AlertRow)
    <3>1. \A i \in DOMAIN alertRows : alertRows'[i] \in AlertRow
      BY <2>2, <2>3, RowRecords, ZenonT(60)
    <3> QED BY <2>2, <2>3, <3>1, MappedSequence
  <2> QED BY <2>1, <2>4 DEF SendAlert, TypeOK, AtWork, tables, work
<1>2. CASE Crash
  <2>2. alertRows \in Seq(AlertRow) /\ \A i \in DOMAIN alertRows : alertRows[i] \in AlertRow
    BY DEF TypeOK
  <2>3. /\ alertRows' = [i \in DOMAIN alertRows |-> alertRows'[i]]
        /\ \A i \in DOMAIN alertRows :
             \/ alertRows'[i] = alertRows[i]
             \/ alertRows'[i] = [alertRows[i] EXCEPT !.state = "lost"]
    BY <1>2 DEF Crash
  <2>4. alertRows' \in Seq(AlertRow)
    <3>1. \A i \in DOMAIN alertRows : alertRows'[i] \in AlertRow
      BY <2>2, <2>3, RowRecords, ZenonT(60)
    <3> QED BY <2>2, <2>3, <3>1, MappedSequence
  <2>5. pc' \in [Request -> Steps] /\ \A q \in Request : pc'[q] \notin Busy
    BY <1>2 DEF Crash, TypeOK, Busy, Steps, Over
  <2> QED BY <1>2, <2>4, <2>5 DEF Crash, TypeOK, AtWork, tables, Busy, Steps, Over
<1>3. ASSUME Edit, active' \in [Kind -> BOOLEAN], setting' \in [Kind -> {"none", "on", "off"}],
             recipient' \in [Address -> {"absent", "active", "inactive"}],
             wants' \in [Address -> Filters]
      PROVE  TypeOK' /\ AtWork'
  <2>1. UNCHANGED <<work, log, alertRows, alerts, mails, tried, faults>> /\ edits' \in 0 .. MaxEdits
    BY <1>3 DEF Edit
  <2> QED BY <1>3, <2>1 DEF TypeOK, AtWork, work
<1>4. CASE Admin
  <2>1. ASSUME NEW k \in Kind, SetTemplate(k) PROVE TypeOK' /\ AtWork'
    BY <2>1, <1>3 DEF SetTemplate, TypeOK
  <2>2. ASSUME NEW k \in Kind, NEW s \in {"on", "off"}, SetSetting(k, s) PROVE TypeOK' /\ AtWork'
    BY <2>2, <1>3 DEF SetSetting, TypeOK
  <2>3. ASSUME NEW a \in Address, DeleteRecipient(a) PROVE TypeOK' /\ AtWork'
    BY <2>3, <1>3 DEF DeleteRecipient, TypeOK
  <2>4. ASSUME NEW a \in Address, NEW ks \in Filters, AddRecipient(a, ks) PROVE TypeOK' /\ AtWork'
    BY <2>4, <1>3 DEF AddRecipient, TypeOK
  <2>5. ASSUME NEW a \in Address, NEW ks \in Filters, NEW b \in Address,
               NEW s \in {"active", "inactive"}, UpdateRecipient(a, b, ks, s)
        PROVE  TypeOK' /\ AtWork'
    BY <2>5, <1>3 DEF UpdateRecipient, TypeOK
  <2> QED BY <1>4, <2>1, <2>2, <2>3, <2>4, <2>5 DEF Admin
<1> QED BY <1>1, <1>2, <1>4

LEMMA HandleTypes ==
  ASSUME TypeOK, AtWork, NEW q \in Request, NEW n \in 1 .. MaxJobs, Handle(q, n), Watch
  PROVE  /\ TypeOK' /\ AtWork'
         /\ pc[q] = "idle" /\ pc'[q] \in {"query", "template"} /\ job'[q] = n
         /\ UNCHANGED <<tables, kind, todo, cur, answer, log, mails, tried, faults>>
         /\ \A p \in Request \ {q} : pc'[p] = pc[p] /\ job'[p] = job[p]
<1>0. seen' \in [Request -> Window]
  BY WatchTypes DEF TypeOK
<1>1. n \in 0 .. MaxJobs
  BY ConstantsAssumption
<1>2. /\ job' = [job EXCEPT ![q] = n]
      /\ pc' = [pc EXCEPT ![q] = "query"] \/ pc' = [pc EXCEPT ![q] = "template"]
      /\ UNCHANGED <<tables, kind, todo, cur, answer, log, alertRows, alerts, mails, tried,
                     edits, faults>>
      /\ pc[q] = "idle"
  BY DEF Handle, Goes
<1>3. /\ pc' \in [Request -> Steps] /\ pc'[q] \in {"query", "template"}
      /\ \A p \in Request \ {q} : pc'[p] = pc[p]
  BY <1>2 DEF TypeOK, Steps, Over
<1> QED BY <1>0, <1>1, <1>2, <1>3 DEF TypeOK, AtWork, tables, Busy

(***************************************************************************)
(* Every notice is tried once and mailed once.                             *)
(***************************************************************************)

(* The jobs of a request count down: what it has tried belongs to the jobs *)
(* behind it, or to this job and an address it no longer has to do.        *)
Tries(q) ==
  /\ pc[q] = "idle" => \A n \in tried : n.req # q
  /\ pc[q] \in {"template", "query", "check", "alert", "lookup"} =>
       \A n \in tried : n.req = q => n.job > job[q]
  /\ pc[q] \in {"log", "send", "settle"} =>
       \A n \in tried : n.req = q =>
         n.job >= job[q] /\ (n.job = job[q] => n.to \notin todo[q])
  /\ pc[q] = "send" => This(q) \in tried \ mails
  /\ pc[q] = "settle" /\ answer[q] => This(q) \in mails

Mailing ==
  /\ \A q \in Request : Tries(q)
  /\ mails \subseteq tried
  /\ SentWasAccepted

(* Nothing is logged, mailed or tried, and no request is anywhere new but at *)
(* a place where it has nothing to mail.                                     *)
LEMMA NothingMailed ==
  ASSUME TypeOK, Mailing, UNCHANGED <<log, mails, tried>>,
         \A q \in Request :
           \/ /\ pc'[q] = pc[q] /\ job'[q] = job[q] /\ todo'[q] = todo[q]
              /\ cur'[q] = cur[q] /\ answer'[q] = answer[q]
           \/ pc'[q] \in Over
  PROVE  Mailing'
<1>1. ASSUME NEW q \in Request PROVE Tries(q)'
  BY <1>1 DEF Mailing, Tries, This, Over
<1> QED BY <1>1 DEF Mailing, SentWasAccepted

LEMMA OthersTry ==
  ASSUME TypeOK, Mailing, NEW q \in Request, NEW p \in Request \ {q}, Local(q),
         tried \subseteq tried', \A n \in tried' \ tried : n.req = q, \A n \in (mails' \ mails) \cup (mails \ mails') : n.req = q
  PROVE  Tries(p)'
<1>1. pc'[p] = pc[p] /\ job'[p] = job[p] /\ todo'[p] = todo[p] /\ cur'[p] = cur[p] /\ answer'[p] = answer[p]
  BY DEF Local
<1>2. This(p).req = p /\ This(p)' = This(p)
  BY <1>1 DEF This
<1>3. This(p) \in mails' <=> This(p) \in mails
  BY <1>2
<1> QED BY <1>1, <1>2, <1>3 DEF Mailing, Tries

(* A step of q that tries and mails nothing. *)
LEMMA QuietTry ==
  ASSUME TypeOK, AtWork, Mailing, NEW q \in Request, Local(q), UNCHANGED <<log, mails, tried>>,
         \/ pc'[q] \in Over
         \/ /\ pc[q] \in {"template", "query", "check", "alert", "lookup"} /\ job'[q] = job[q]
            /\ pc'[q] \in {"template", "query", "check", "alert", "lookup", "log"}
         \/ /\ pc[q] \in {"template", "query", "check", "alert", "lookup", "log"}
            /\ pc'[q] = "template" /\ job'[q] = job[q] - 1
         \/ /\ pc[q] = "settle" /\ pc'[q] = "log"
            /\ job'[q] = job[q] /\ todo'[q] = todo[q]
  PROVE  Mailing'
<1>1. Tries(q)
  BY DEF Mailing
<1>2. job[q] \in Nat /\ \A n \in tried : n.job \in Nat
  BY DEF TypeOK, Notice
<1>3. Tries(q)'
  BY <1>1, <1>2 DEF Tries, Over
<1>4. \A p \in Request \ {q} : Tries(p)'
  BY OthersTry
<1> QED BY <1>3, <1>4 DEF Mailing, SentWasAccepted

LEMMA TryStep ==
  ASSUME TypeOK, AtWork, Mailing, NEW q \in Request, Step(q), Watch
  PROVE  Mailing'
<1>0. Local(q) /\ Tries(q)
  BY StepTypes DEF Mailing
<1>j. job[q] \in Nat /\ \A n \in tried : n.job \in Nat
  BY DEF TypeOK, Notice
<1>e. ASSUME pc[q] \in Busy, EndJob(q) \/ Raise(q), UNCHANGED <<log, mails, tried>>,
             pc[q] \in {"template", "query", "check", "alert", "lookup", "log"}
      PROVE  Mailing'
  BY <1>0, <1>e, EndJobTypes, QuietTry
<1>f. ASSUME FallBack(q), pc[q] = "check", job' = job, UNCHANGED <<log, mails, tried>>
      PROVE  Mailing'
  <2>1. pc'[q] \in {"alert", "lookup"}
    BY <1>f, FallBackTypes DEF Busy, Steps, Over
  <2> QED BY <1>0, <1>f, <2>1, QuietTry
<1>g. ASSUME NEW x, Goes(q, x) PROVE pc'[q] = x
  BY <1>g DEF Goes, TypeOK
<1>1. CASE ReadTemplate(q)
  <2>1. CASE active[kind[q]]
    BY <1>0, <1>1, <1>g, <2>1, QuietTry DEF ReadTemplate
  <2>2. CASE ~active[kind[q]]
    BY <1>1, <1>e, <2>2 DEF ReadTemplate, Busy, Steps, Over
  <2> QED BY <2>1, <2>2
<1>2. CASE QueryRaises(q)
  BY <1>2, <1>e DEF QueryRaises, Busy, Steps, Over
<1>3. CASE QueryRecipients(q)
  BY <1>0, <1>3, <1>g, QuietTry DEF QueryRecipients, Resolved
<1>4. CASE QueryFails(q)
  BY <1>0, <1>4, <1>g, QuietTry DEF QueryFails
<1>5. CASE CheckDisabled(q)
  <2>1. CASE setting[kind[q]] = "off"
    BY <1>0, <1>5, <1>g, <2>1, QuietTry DEF CheckDisabled, Resolved
  <2>2. CASE setting[kind[q]] # "off"
    BY <1>5, <1>f, <2>2 DEF CheckDisabled
  <2> QED BY <2>1, <2>2
<1>6. CASE CheckFails(q)
  BY <1>6, <1>f DEF CheckFails
<1>7. CASE AlertOver(q)
  BY <1>0, <1>7, <1>g, QuietTry DEF AlertOver
<1>8. CASE LookUp(q)
  <2>1. CASE Raise(q) \/ EndJob(q)
    BY <1>8, <1>e, <2>1 DEF LookUp, Busy, Steps, Over
  <2>2. CASE Goes(q, "log") /\ UNCHANGED <<job, todo, alertRows>>
    BY <1>0, <1>8, <1>g, <2>2, QuietTry DEF LookUp
  <2> QED BY <1>8, <2>1, <2>2 DEF LookUp
<1>9. ASSUME NEW a \in todo[q], LogPending(q, a) \/ LogFails(q, a) PROVE Mailing'
  <2> DEFINE m == [req |-> q, job |-> job[q], to |-> a]
  <2>1. /\ pc[q] = "log" /\ pc'[q] = "send" /\ cur'[q] = a /\ todo'[q] = todo[q] \ {a}
        /\ tried' = tried \cup {m} /\ job'[q] = job[q] /\ mails' = mails
    BY <1>9 DEF LogPending, LogFails, Begin, Goes, TypeOK
  <2>2. m \notin tried
    BY <1>0, <2>1 DEF Tries
  <2>3. This(q)' = m
    BY <2>1 DEF This
  <2>4. Tries(q)'
    <3>1. m.job = job[q] /\ m.to = a
      OBVIOUS
    <3>2. m \notin mails'
      BY <2>1, <2>2 DEF Mailing
    <3> HIDE DEF m
    <3> QED BY <1>0, <1>j, <2>1, <2>3, <3>1, <3>2 DEF Tries
  <2>5. \A p \in Request \ {q} : Tries(p)'
    BY <1>0, <2>1, OthersTry
  <2>6. SentWasAccepted'
    <3>1. UNCHANGED log \/ log' = [log EXCEPT ![m] = "PENDING"]
      BY <1>9 DEF LogPending, LogFails
    <3> HIDE DEF m
    <3> QED BY <2>1, <3>1 DEF Mailing, SentWasAccepted, TypeOK
  <2> QED BY <2>1, <2>4, <2>5, <2>6 DEF Mailing
<1>10. CASE Send(q)
  <2>1. This(q).req = q
    BY DEF This
  <2>2. PICK taken \in BOOLEAN, told \in BOOLEAN :
          /\ told => taken
          /\ mails' = IF taken THEN mails \cup {This(q)} ELSE mails
          /\ answer' = [answer EXCEPT ![q] = told]
    BY <1>10 DEF Send
  <2>3. /\ pc[q] = "send" /\ pc'[q] = "settle" /\ answer'[q] = told
        /\ UNCHANGED <<job, todo, cur, log, tried>>
    BY <1>10, <1>g, <2>2 DEF Send, TypeOK
  <2>4. This(q)' = This(q)
    BY <2>3 DEF This
  <2>5. Tries(q)'
    BY <1>0, <2>2, <2>3, <2>4 DEF Tries
  <2>6. \A p \in Request \ {q} : Tries(p)'
    BY <1>0, <2>1, <2>2, <2>3, OthersTry
  <2>7. mails' \subseteq tried' /\ SentWasAccepted'
    BY <1>0, <2>2, <2>3 DEF Tries, Mailing, SentWasAccepted
  <2> QED BY <2>5, <2>6, <2>7 DEF Mailing
<1>11. CASE Settle(q)
  <2>1. /\ pc[q] = "settle" /\ pc'[q] = "log" /\ UNCHANGED <<job, todo, mails, tried>>
        /\ log' = log \/ log' = [log EXCEPT ![This(q)] = IF answer[q] THEN "SENT" ELSE "FAILED"]
    BY <1>11, <1>g DEF Settle, Outcome
  <2>2. Tries(q)'
    BY <1>0, <2>1 DEF Tries
  <2>3. \A p \in Request \ {q} : Tries(p)'
    BY <1>0, <2>1, OthersTry
  <2>4. SentWasAccepted'
    BY <1>0, <2>1 DEF Tries, Mailing, SentWasAccepted, TypeOK
  <2> QED BY <2>1, <2>2, <2>3, <2>4 DEF Mailing
<1>12. CASE SettleFails(q)
  BY <1>0, <1>12, <1>g, QuietTry DEF SettleFails
<1>13. CASE JobOver(q)
  BY <1>13, <1>e DEF JobOver, Busy, Steps, Over
<1> QED BY <1>1, <1>2, <1>3, <1>4, <1>5, <1>6, <1>7, <1>8, <1>9, <1>10, <1>11, <1>12, <1>13 DEF Step

LEMMA MailingStep ==
  ASSUME TypeOK, AtWork, Mailing, Next
  PROVE  Mailing'
<1>0. Watch
  BY DEF Next
<1>1. ASSUME NEW q \in Request, Step(q) PROVE Mailing'
  BY <1>0, <1>1, TryStep
<1>2. ASSUME NEW q \in Request, NEW n \in 1 .. MaxJobs, Handle(q, n) PROVE Mailing'
  <2>1. /\ pc[q] = "idle" /\ pc'[q] \in {"query", "template"} /\ job'[q] = n
        /\ UNCHANGED <<tables, kind, todo, cur, answer, log, mails, tried, faults>>
        /\ \A p \in Request \ {q} : pc'[p] = pc[p] /\ job'[p] = job[p]
    BY <1>0, <1>2, HandleTypes
  <2>2. Tries(q)'
    BY <2>1 DEF Mailing, Tries
  <2>3. ASSUME NEW p \in Request \ {q} PROVE Tries(p)'
    BY <2>1, <2>3 DEF Mailing, Tries, This
  <2> QED BY <2>1, <2>2, <2>3 DEF Mailing, SentWasAccepted
<1>3. CASE Alerts \/ Admin
  <2>1. UNCHANGED <<work, log, mails, tried>>
    BY <1>3 DEF Alerts, SendAlert, Admin, SetTemplate, SetSetting, AddRecipient, UpdateRecipient,
                DeleteRecipient, Edit
  <2> QED BY <2>1, NothingMailed DEF work
<1>4. CASE Crash
  <2>1. UNCHANGED <<log, mails, tried>>
    BY <1>4 DEF Crash
  <2>2. ASSUME NEW q \in Request PROVE Tries(q)'
    <3>1. \/ pc[q] = "idle" /\ pc'[q] = "idle"
          \/ pc'[q] \in Over
      BY <1>4 DEF Crash, Over
    <3> QED BY <2>1, <3>1 DEF Mailing, Tries, Over
  <2> QED BY <2>1, <2>2 DEF Mailing, SentWasAccepted
<1> QED BY <1>1, <1>2, <1>3, <1>4 DEF Next

(* A request that is about to mail, or stays so, has the job it had. *)
LEMMA SendingKeepsJob ==
  ASSUME TypeOK, AtWork, Next, NEW q \in Request, pc'[q] = "send"
  PROVE  job'[q] = job[q] /\ mails \subseteq mails'
<1>0. Watch
  BY DEF Next
<1>1. ASSUME NEW p \in Request, Step(p) PROVE job'[q] = job[q] /\ mails \subseteq mails'
  <2>1. Local(p)
    BY <1>0, <1>1, StepTypes
  <2>2. ASSUME EndJob(q) PROVE FALSE
    BY <2>2 DEF EndJob, Goes, TypeOK
  <2>3. ASSUME Raise(q) PROVE FALSE
    BY <2>3 DEF Raise, Goes, TypeOK
  <2>4. UNCHANGED job \/ EndJob(p) \/ Raise(p)
    BY <1>1 DEF Step, ReadTemplate, QueryRaises, QueryRecipients, QueryFails, CheckDisabled,
                CheckFails, AlertOver, LookUp, LogPending, LogFails, Begin, Send, Settle,
                SettleFails, JobOver
  <2>5. mails \subseteq mails'
    BY <1>1 DEF Step, ReadTemplate, QueryRaises, QueryRecipients, QueryFails, CheckDisabled,
                CheckFails, AlertOver, LookUp, LogPending, LogFails, Begin, Send, Settle,
                SettleFails, JobOver
  <2> QED BY <2>1, <2>2, <2>3, <2>4, <2>5 DEF Local
<1>2. ASSUME NEW p \in Request, NEW n \in 1 .. MaxJobs, Handle(p, n)
      PROVE  job'[q] = job[q] /\ mails \subseteq mails'
  BY <1>0, <1>2, HandleTypes
<1>3. CASE Alerts \/ Admin \/ Crash
  BY <1>3 DEF Alerts, SendAlert, Admin, SetTemplate, SetSetting, AddRecipient, UpdateRecipient,
              DeleteRecipient, Edit, Crash, work
<1> QED BY <1>1, <1>2, <1>3 DEF Next

LEMMA MailedOnceStep ==
  ASSUME TypeOK, AtWork, Mailing, Mailing', Next,
         NEW n \in mails, NEW q \in Request, cur'[q] = n.to, pc'[q] = "send"
  PROVE  n.req # q \/ n.job # job[q]
<1>1. job'[q] = job[q] /\ mails \subseteq mails'
  BY SendingKeepsJob
<1>2. This(q)' \notin mails'
  BY DEF Mailing, Tries
<1>3. n = [req |-> n.req, job |-> n.job, to |-> n.to]
  BY DEF TypeOK, Notice
<1> QED BY <1>1, <1>2, <1>3 DEF This

(***************************************************************************)
(* Who is told.                                                            *)
(***************************************************************************)
Telling == {"alert", "lookup", "log", "send", "settle"}

(* While a job resolves, its window contains what is eligible now; once it  *)
(* has resolved, what is left to do and what was tried came out of it.      *)
Windows(q) ==
  LET w == seen[q] IN
  /\ pc[q] \in {"template", "query", "check"} =>
       /\ Eligible(kind[q]) \subseteq w.ever
       /\ w.always \subseteq Eligible(kind[q])
       /\ setting[kind[q]] # "off" => w.allowed
  /\ pc[q] \notin Telling => todo[q] = {}
  /\ pc[q] \notin {"send", "settle"} => cur[q] = Nobody
  /\ w.nobody => w.always = {}
  /\ pc[q] = "check" /\ w.clean => w.nobody
  /\ kind[q] \in Staff => pc[q] \in {"idle", "template", "lookup"} \cup Over /\ todo[q] = {}
  /\ pc[q] \in Telling =>
       /\ todo[q] \cap Address \subseteq w.ever
       /\ cur[q] \in Address => cur[q] \in w.ever
       /\ w.clean /\ (Fallback \in todo[q] \/ cur[q] = Fallback) => w.nobody /\ w.allowed
       /\ w.clean /\ kind[q] \notin Staff =>
            \A a \in w.always : a \in todo[q] \/ [req |-> q, job |-> job[q], to |-> a] \in tried

LEMMA WatchCases ==
  ASSUME TypeOK, Watch, NEW q \in Request
  PROVE  /\ pc'[q] \in {"idle"} \cup Over => seen'[q] = NoWindow
         /\ pc'[q] = "template" /\ pc[q] # "template" => seen'[q] = Opened(kind[q])
         /\ pc'[q] = "query" /\ pc[q] = "idle" => seen'[q] = Opened(kind[q])
         /\ pc'[q] \in Busy /\ pc'[q] # "template" /\ pc'[q] # pc[q]
              /\ pc[q] \in Resolving /\ faults' # faults
              => seen'[q] = [seen[q] EXCEPT !.clean = FALSE]
         /\ pc'[q] \in Resolving /\ pc'[q] = pc[q] => seen'[q] = Extended(seen[q], kind[q])
         /\ pc'[q] \in {"query", "check"} /\ pc[q] \in Resolving /\ faults' = faults
              => seen'[q] = Extended(seen[q], kind[q])
         /\ pc'[q] \in Telling /\ (pc[q] \in Telling \/ (faults' = faults /\ pc[q] \in Resolving))
              => seen'[q] = seen[q]
BY DEF Watch, Telling, Resolving, Over, Busy, Steps

LEMMA WindowFields ==
  ASSUME TypeOK, NEW q \in Request, NEW k
  PROVE  /\ seen[q].ever \subseteq Address /\ seen[q].always \subseteq Address
         /\ [seen[q] EXCEPT !.clean = FALSE].ever = seen[q].ever
         /\ [seen[q] EXCEPT !.clean = FALSE].always = seen[q].always
         /\ [seen[q] EXCEPT !.clean = FALSE].nobody = seen[q].nobody
         /\ [seen[q] EXCEPT !.clean = FALSE].allowed = seen[q].allowed
         /\ ~[seen[q] EXCEPT !.clean = FALSE].clean
         /\ Extended(seen[q], k).ever = seen[q].ever \cup Eligible(k)'
         /\ Extended(seen[q], k).always = seen[q].always \cap Eligible(k)'
         /\ Extended(seen[q], k).nobody <=> (seen[q].nobody \/ Eligible(k)' = {})
         /\ Extended(seen[q], k).allowed <=> (seen[q].allowed \/ setting'[k] # "off")
         /\ Extended(seen[q], k).clean = seen[q].clean
         /\ Opened(k).ever = Eligible(k)' /\ Opened(k).always = Eligible(k)'
         /\ Opened(k).nobody <=> Eligible(k)' = {}
         /\ Opened(k).allowed <=> setting'[k] # "off"
         /\ ~NoWindow.nobody
<1>1. seen[q] \in Window
  BY DEF TypeOK
<1> QED BY <1>1 DEF Window, Extended, Opened, NoWindow

(* Whatever happens to the tables while request q stays where it is. *)
LEMMA WindowsKept ==
  ASSUME TypeOK, TypeOK', Watch, NEW q \in Request, Windows(q), UNCHANGED kind,
         pc'[q] = pc[q], job'[q] = job[q], todo'[q] = todo[q], cur'[q] = cur[q],
         tried \subseteq tried'
  PROVE  Windows(q)'
<1>0. pc[q] \in Steps
  BY DEF TypeOK
<1>1. CASE pc[q] \in Resolving
  <2>1. seen'[q] = Extended(seen[q], kind[q])
    BY <1>1, WatchCases
  <2>2. pc[q] \notin Telling
    BY <1>1 DEF Resolving, Telling
  <2> DEFINE w == seen[q]  v == seen'[q]  k == kind[q]
  <2>3. /\ v.ever = w.ever \cup Eligible(k)' /\ v.always = w.always \cap Eligible(k)'
        /\ v.nobody <=> (w.nobody \/ Eligible(k)' = {})
        /\ v.allowed <=> (w.allowed \/ setting'[k] # "off")
        /\ v.clean <=> w.clean
    BY <2>1, WindowFields, SMTT(60)
  <2>4. /\ Eligible(k)' \subseteq v.ever /\ v.always \subseteq Eligible(k)'
        /\ setting'[k] # "off" => v.allowed
        /\ v.nobody => v.always = {}
        /\ pc[q] = "check" /\ v.clean => v.nobody
    BY <2>3 DEF Windows
  <2>5. Eligible(kind[q])' = Eligible(k)'
    BY DEF Eligible
  <2>6. /\ todo'[q] = {} /\ cur'[q] = Nobody
        /\ kind[q] \in Staff => pc[q] \in {"idle", "template", "lookup"} \cup Over /\ todo[q] = {}
    BY <1>1, <2>2 DEF Windows, Resolving
  <2> HIDE DEF w, v, k
  <2> QED BY <2>2, <2>4, <2>5, <2>6 DEF Windows, w, v, k
<1>2. CASE pc[q] \in Telling
  <2>1. seen'[q] = seen[q]
    BY <1>2, WatchCases
  <2>2. pc[q] \notin {"template", "query", "check"}
    BY <1>2 DEF Telling
  <2> QED BY <1>2, <2>1, <2>2 DEF Windows
<1>3. CASE pc[q] \in {"idle"} \cup Over
  <2>1. seen'[q] = NoWindow
    BY <1>3, WatchCases
  <2>2. pc[q] \notin Telling /\ pc[q] \notin {"template", "query", "check"}
    BY <1>3 DEF Telling, Over
  <2> QED BY <2>1, <2>2, WindowFields DEF Windows
<1> QED BY <1>0, <1>1, <1>2, <1>3 DEF Steps, Over, Telling, Resolving

(* The job is over, or the next begins. *)
LEMMA WindowsOver ==
  ASSUME TypeOK, TypeOK', Watch, NEW q \in Request, UNCHANGED kind,
         pc'[q] \in Over \/ (pc'[q] = "template" /\ pc[q] # "template")
           \/ (pc'[q] = "query" /\ pc[q] = "idle" /\ kind[q] \notin Staff),
         todo'[q] = {}, cur'[q] = Nobody
  PROVE  Windows(q)'
<1>1. CASE pc'[q] \in Over
  <2>1. seen'[q] = NoWindow
    BY <1>1, WatchCases
  <2>2. pc'[q] \notin Telling /\ pc'[q] \notin {"template", "query", "check"}
    BY <1>1 DEF Telling, Over
  <2> QED BY <1>1, <2>1, <2>2, WindowFields DEF Windows
<1>2. CASE (pc'[q] = "template" /\ pc[q] # "template")
           \/ (pc'[q] = "query" /\ pc[q] = "idle" /\ kind[q] \notin Staff)
  <2> DEFINE v == seen'[q]  k == kind[q]
  <2>1. v = Opened(k)
    BY <1>2, WatchCases
  <2>2. /\ v.ever = Eligible(k)' /\ v.always = Eligible(k)'
        /\ v.nobody <=> Eligible(k)' = {}
        /\ v.allowed <=> setting'[k] # "off"
    BY <2>1, WindowFields
  <2>3. pc'[q] \notin Telling /\ pc'[q] # "check" /\ Eligible(kind[q])' = Eligible(k)'
    BY <1>2 DEF Telling, Eligible
  <2>4. k \in Staff => pc'[q] \in {"idle", "template", "lookup"} \cup Over
    BY <1>2
  <2> HIDE DEF v, k
  <2> QED BY <2>2, <2>3, <2>4 DEF Windows, v, k
<1> QED BY <1>1, <1>2

(* The recipients are known: the addresses that are eligible now, nobody,  *)
(* or the fallback.                                                        *)
LEMMA WindowsResolved ==
  ASSUME TypeOK, TypeOK', AtWork, Watch, NEW q \in Request, Windows(q), UNCHANGED <<tables, kind>>,
         pc[q] \in {"query", "check"}, pc'[q] \in {"alert", "lookup", "log"}, cur'[q] = cur[q],
         \/ pc[q] = "query" /\ faults' = faults /\ todo'[q] = Eligible(kind[q])
         \/ /\ pc[q] = "check" /\ faults' = faults /\ setting[kind[q]] = "off" /\ todo'[q] = {}
         \/ /\ pc[q] = "check" /\ todo'[q] = {Fallback}
            /\ faults' # faults \/ setting[kind[q]] # "off"
  PROVE  Windows(q)'
<1> DEFINE w == seen[q]  v == seen'[q]  k == kind[q]
<1>1. /\ Eligible(k) \subseteq w.ever /\ w.always \subseteq Eligible(k)
      /\ setting[k] # "off" => w.allowed
      /\ w.nobody => w.always = {}
      /\ pc[q] = "check" /\ w.clean => w.nobody
      /\ cur'[q] = Nobody /\ k \notin Staff
  BY DEF Windows, Over
<1>2. /\ v.ever = w.ever /\ v.always = w.always /\ (v.nobody <=> w.nobody) /\ (v.allowed <=> w.allowed)
      /\ IF faults' = faults THEN v.clean <=> w.clean ELSE ~v.clean
  <2>1. pc[q] \in Resolving /\ pc'[q] \in Telling /\ pc'[q] \in Busy /\ pc'[q] # "template" /\ pc'[q] # pc[q]
    BY DEF Resolving, Telling, Busy, Steps, Over
  <2>2. v = IF faults' = faults THEN w ELSE [w EXCEPT !.clean = FALSE]
    BY <2>1, WatchCases
  <2> QED BY <2>2, WindowFields
<1>3. Fallback \notin Address /\ Nobody \notin Address \cup {Fallback} /\ Eligible(k) \subseteq Address
  BY ConstantsAssumption, EligibleTypes
<1>4. /\ todo'[q] \cap Address \subseteq v.ever
      /\ v.clean /\ Fallback \in todo'[q] => v.nobody /\ v.allowed
      /\ v.clean => \A a \in v.always : a \in todo'[q]
  BY <1>1, <1>2, <1>3
<1>5. pc'[q] \notin {"template", "query", "check", "send", "settle"} /\ pc'[q] \in Telling
  BY DEF Telling
<1> HIDE DEF w, v, k
<1> QED BY <1>1, <1>2, <1>3, <1>4, <1>5 DEF Windows, w, v, k

(* The recipients are being asked for. *)
LEMMA WindowsAsking ==
  ASSUME TypeOK, TypeOK', Watch, NEW q \in Request, Windows(q), UNCHANGED <<tables, kind>>,
         pc[q] \in {"template", "query"}, pc'[q] \in {"query", "check"}, pc'[q] # pc[q],
         todo'[q] = {}, cur'[q] = cur[q], kind[q] \notin Staff,
         pc[q] = "query" => Eligible(kind[q]) = {} \/ faults' # faults,
         pc[q] = "template" => faults' = faults /\ pc'[q] = "query"
  PROVE  Windows(q)'
<1> DEFINE w == seen[q]  v == seen'[q]
<1>0. PICK k : k = kind[q]
  OBVIOUS
<1>1. /\ Eligible(k) \subseteq w.ever /\ w.always \subseteq Eligible(k)
      /\ setting[k] # "off" => w.allowed
      /\ w.nobody => w.always = {}
      /\ cur'[q] = Nobody
  BY <1>0 DEF Windows
<1>2. Eligible(k)' = Eligible(k) /\ setting'[k] = setting[k] /\ Eligible(kind[q])' = Eligible(k) /\ kind'[q] = k
  BY <1>0 DEF Eligible, tables
<1>3. /\ Eligible(k) \subseteq v.ever /\ v.always \subseteq Eligible(k)
      /\ setting[k] # "off" => v.allowed
      /\ v.nobody => v.always = {}
      /\ pc'[q] = "check" /\ v.clean => v.nobody
  <2>1. pc[q] \in Resolving /\ pc'[q] \in Busy /\ pc'[q] # "template" /\ pc'[q] \in Resolving
    BY DEF Resolving, Busy, Steps, Over
  <2>2. CASE faults' = faults
    <3>1. v = Extended(w, k)
      BY <1>0, <2>1, <2>2, WatchCases
    <3>2. /\ v.ever = w.ever \cup Eligible(k)' /\ v.always = w.always \cap Eligible(k)'
          /\ v.nobody <=> (w.nobody \/ Eligible(k)' = {})
          /\ v.allowed <=> (w.allowed \/ setting'[k] # "off")
          /\ v.clean <=> w.clean
      <4>1. /\ Extended(w, k).ever = w.ever \cup Eligible(k)'
            /\ Extended(w, k).always = w.always \cap Eligible(k)'
            /\ Extended(w, k).nobody <=> (w.nobody \/ Eligible(k)' = {})
            /\ Extended(w, k).allowed <=> (w.allowed \/ setting'[k] # "off")
            /\ Extended(w, k).clean = w.clean
        BY WindowFields
      <4> HIDE DEF v
      <4> QED BY <3>1, <4>1
    <3> QED BY <1>1, <1>2, <2>2, <3>2
  <2>3. CASE faults' # faults
    <3>1. v = [w EXCEPT !.clean = FALSE]
      BY <2>1, <2>3, WatchCases
    <3>2. v.ever = w.ever /\ v.always = w.always /\ (v.nobody <=> w.nobody) /\ (v.allowed <=> w.allowed) /\ ~v.clean
      BY <3>1, WindowFields
    <3> QED BY <1>1, <3>2
  <2> QED BY <2>2, <2>3
<1>4. pc'[q] \notin Telling /\ pc'[q] \notin {"send", "settle"}
  BY DEF Telling
<1> HIDE DEF w, v
<1> QED BY <1>0, <1>1, <1>2, <1>3, <1>4 DEF Windows, w, v, tables

(* The recipients are told one after another. *)
LEMMA WindowsTelling ==
  ASSUME TypeOK, TypeOK', Watch, NEW q \in Request, Windows(q), UNCHANGED kind,
         kind[q] \notin Staff, pc[q] \in Telling, pc'[q] \in Telling, job'[q] = job[q],
         pc'[q] \notin {"send", "settle"} => cur'[q] = Nobody,
         cur'[q] \in {Nobody, cur[q]} \cup todo[q],
         todo'[q] \subseteq todo[q], tried \subseteq tried',
         \A a \in todo[q] \ todo'[q] : [req |-> q, job |-> job[q], to |-> a] \in tried'
  PROVE  Windows(q)'
<1>1. seen'[q] = seen[q]
  BY WatchCases
<1>2. pc'[q] \notin {"template", "query", "check"} /\ pc[q] \notin {"template", "query", "check"}
  BY DEF Telling
<1>3. Fallback \notin Address /\ Nobody \notin Address \cup {Fallback}
  BY ConstantsAssumption
<1>4. seen[q].always \subseteq Address
  BY WindowFields
<1> QED BY <1>1, <1>2, <1>3, <1>4 DEF Windows

(* The template is inactive and the next job reads it too: the window goes on. *)
LEMMA WindowsTemplate ==
  ASSUME TypeOK, TypeOK', NEW q \in Request, Windows(q), UNCHANGED kind,
         pc[q] = "template", pc'[q] = "template", todo'[q] = {}, cur'[q] = cur[q],
         seen'[q] = Extended(seen[q], kind[q])
  PROVE  Windows(q)'
<1> DEFINE w == seen[q]  v == seen'[q]
<1>0. PICK k : k = kind[q]
  OBVIOUS
<1>1. /\ v.ever = w.ever \cup Eligible(k)' /\ v.always = w.always \cap Eligible(k)'
      /\ v.nobody <=> (w.nobody \/ Eligible(k)' = {})
      /\ v.allowed <=> (w.allowed \/ setting'[k] # "off")
      /\ v.clean <=> w.clean
  <2>1. v = Extended(w, k)
    BY <1>0
  <2>2. /\ Extended(w, k).ever = w.ever \cup Eligible(k)'
        /\ Extended(w, k).always = w.always \cap Eligible(k)'
        /\ Extended(w, k).nobody <=> (w.nobody \/ Eligible(k)' = {})
        /\ Extended(w, k).allowed <=> (w.allowed \/ setting'[k] # "off")
        /\ Extended(w, k).clean = w.clean
    BY WindowFields
  <2> HIDE DEF v
  <2> QED BY <2>1, <2>2
<1>2. /\ Eligible(k)' \subseteq v.ever /\ v.always \subseteq Eligible(k)'
      /\ setting'[k] # "off" => v.allowed
      /\ v.nobody => v.always = {}
      /\ cur'[q] = Nobody
  BY <1>0, <1>1 DEF Windows
<1>3. Eligible(kind[q])' = Eligible(k)' /\ kind'[q] = k /\ pc'[q] \notin Telling
  BY <1>0 DEF Eligible, Telling
<1> HIDE DEF w, v
<1> QED BY <1>0, <1>2, <1>3 DEF Windows, w, v

LEMMA WindowsStep ==
  ASSUME TypeOK, AtWork, NEW q \in Request, Windows(q), Step(q), Watch
  PROVE  Windows(q)'
<1>0. Local(q) /\ TypeOK' /\ UNCHANGED <<tables, kind>>
  BY StepTypes DEF Local
<1>c. /\ pc[q] \notin {"send", "settle"} => cur[q] = Nobody
      /\ pc[q] \notin Telling => todo[q] = {}
      /\ kind[q] \in Staff => pc[q] \in {"idle", "template", "lookup"} \cup Over
  BY DEF Windows
<1>e. ASSUME pc[q] \in {"template", "lookup", "log"}, EndJob(q) \/ Raise(q), UNCHANGED cur,
             pc[q] # "template" \/ pc'[q] \in Over \/ EndJob(q)
      PROVE  Windows(q)' \/ (pc[q] = "template" /\ pc'[q] = "template")
  BY <1>0, <1>c, <1>e, EndJobTypes, WindowsOver DEF Busy, Steps, Over
<1>g. ASSUME NEW x, Goes(q, x) PROVE pc'[q] = x
  BY <1>g DEF Goes, TypeOK
<1>1. CASE ReadTemplate(q)
  <2>1. CASE active[kind[q]] /\ kind[q] \in Staff
    <3>1. /\ pc[q] = "template" /\ pc'[q] = "lookup" /\ todo'[q] = {} /\ cur'[q] = Nobody
          /\ faults' = faults /\ todo[q] = {}
      BY <1>1, <1>c, <1>g, <2>1 DEF ReadTemplate, NoFault, Telling
    <3>2. seen'[q] = seen[q]
      BY <3>1, WatchCases DEF Telling, Resolving
    <3> QED BY <1>0, <2>1, <3>1, <3>2, ConstantsAssumption DEF Windows, Telling
  <2>2. CASE active[kind[q]] /\ kind[q] \notin Staff
    <3>1. /\ pc[q] = "template" /\ pc'[q] = "query" /\ todo'[q] = {} /\ cur'[q] = cur[q]
          /\ faults' = faults
      BY <1>1, <1>c, <1>g, <2>2 DEF ReadTemplate, NoFault, Telling
    <3> QED BY <1>0, <2>2, <3>1, WindowsAsking
  <2>3. CASE ~active[kind[q]]
    <3>1. pc[q] = "template" /\ EndJob(q) /\ UNCHANGED <<cur, tried>>
      BY <1>1, <2>3 DEF ReadTemplate
    <3>2. CASE pc'[q] = "template"
      \* the next job: the window goes on
      <4>1. todo'[q] = {} /\ todo[q] = {} /\ cur'[q] = cur[q]
        BY <1>c, <3>1, EndJobTypes DEF Busy, Steps, Over, Telling
      <4>2. seen'[q] = Extended(seen[q], kind[q])
        BY <3>1, <3>2, WatchCases DEF Resolving
      <4> QED BY <1>0, <3>1, <3>2, <4>1, <4>2, WindowsTemplate
    <3>3. CASE pc'[q] # "template"
      BY <1>0, <1>e, <3>1, <3>3
    <3> QED BY <3>2, <3>3
  <2> QED BY <2>1, <2>2, <2>3
<1>2. CASE QueryRaises(q)
  <2>1. pc[q] \in {"template", "lookup"} /\ Raise(q) /\ UNCHANGED cur /\ pc'[q] = "dropped"
    BY <1>2, <1>g DEF QueryRaises, Raise
  <2> QED BY <1>e, <2>1 DEF Over
<1>3. CASE QueryRecipients(q)
  <2>1. /\ pc[q] = "query" /\ todo'[q] = Eligible(kind[q]) /\ cur'[q] = cur[q] /\ faults' = faults
        /\ IF Eligible(kind[q]) = {} THEN pc'[q] = "check" ELSE pc'[q] \in {"lookup", "log"}
    BY <1>3, <1>g DEF QueryRecipients, NoFault, Resolved, TypeOK
  <2>2. kind[q] \notin Staff
    BY <1>c, <2>1 DEF Over
  <2> QED BY <1>0, <2>1, <2>2, WindowsAsking, WindowsResolved
<1>4. CASE QueryFails(q)
  <2>1. /\ pc[q] = "query" /\ pc'[q] = "check" /\ todo'[q] = {} /\ cur'[q] = cur[q] /\ faults' # faults
    BY <1>4, <1>c, <1>g DEF QueryFails, Fault, Telling, TypeOK
  <2>2. kind[q] \notin Staff
    BY <1>c, <2>1 DEF Over
  <2> QED BY <1>0, <2>1, <2>2, WindowsAsking
<1>5. CASE CheckDisabled(q)
  <2>1. CASE setting[kind[q]] = "off"
    <3>1. /\ pc[q] = "check" /\ pc'[q] \in {"lookup", "log"} /\ todo'[q] = {} /\ cur'[q] = cur[q]
          /\ faults' = faults
      BY <1>5, <1>c, <1>g, <2>1 DEF CheckDisabled, NoFault, Resolved, Telling
    <3> QED BY <1>0, <2>1, <3>1, WindowsResolved
  <2>2. CASE setting[kind[q]] # "off"
    <3>1. pc[q] = "check" /\ FallBack(q) /\ cur'[q] = cur[q]
      BY <1>5, <2>2 DEF CheckDisabled
    <3>2. pc'[q] \in {"alert", "lookup"} /\ todo'[q] = {Fallback}
      BY <3>1, FallBackTypes DEF Busy, Steps, Over
    <3> QED BY <1>0, <2>2, <3>1, <3>2, WindowsResolved
  <2> QED BY <2>1, <2>2
<1>6. CASE CheckFails(q)
  <2>1. pc[q] = "check" /\ FallBack(q) /\ cur'[q] = cur[q] /\ faults' # faults
    BY <1>6 DEF CheckFails, Fault, TypeOK
  <2>2. pc'[q] \in {"alert", "lookup"} /\ todo'[q] = {Fallback}
    BY <2>1, FallBackTypes DEF Busy, Steps, Over
  <2> QED BY <1>0, <2>1, <2>2, WindowsResolved
<1>t. ASSUME pc[q] \in Telling, kind[q] \notin Staff, pc'[q] \in Telling, UNCHANGED <<job, todo>>,
             tried \subseteq tried', cur'[q] \in {Nobody, cur[q]},
             pc'[q] \notin {"send", "settle"} => cur'[q] = Nobody
      PROVE  Windows(q)'
  BY <1>0, <1>t, WindowsTelling
<1>7. CASE AlertOver(q)
  <2>1. pc[q] = "alert" /\ pc'[q] = "log" /\ UNCHANGED <<job, todo, cur, tried>>
    BY <1>7, <1>g DEF AlertOver
  <2>2. cur[q] = Nobody /\ kind[q] \notin Staff
    BY <1>c, <2>1 DEF Over
  <2> QED BY <1>t, <2>1, <2>2 DEF Telling
<1>8. CASE LookUp(q)
  <2>1. CASE Raise(q) \/ EndJob(q)
    BY <1>8, <1>e, <2>1 DEF LookUp
  <2>2. CASE kind[q] \notin Staff /\ Goes(q, "log") /\ UNCHANGED <<job, todo, alertRows>>
    <3>1. pc[q] = "lookup" /\ pc'[q] = "log" /\ UNCHANGED <<job, todo, cur, tried>>
      BY <1>8, <1>g, <2>2 DEF LookUp
    <3>2. cur[q] = Nobody
      BY <1>c, <3>1
    <3> QED BY <1>t, <2>2, <3>1, <3>2 DEF Telling
  <2> QED BY <1>8, <2>1, <2>2 DEF LookUp
<1>9. ASSUME NEW a \in todo[q], LogPending(q, a) \/ LogFails(q, a) PROVE Windows(q)'
  <2>1. /\ pc[q] = "log" /\ pc'[q] = "send" /\ cur'[q] = a /\ todo'[q] = todo[q] \ {a}
        /\ tried' = tried \cup {[req |-> q, job |-> job[q], to |-> a]} /\ job'[q] = job[q]
    BY <1>9 DEF LogPending, LogFails, Begin, Goes, TypeOK
  <2>2. kind[q] \notin Staff
    BY <1>c, <2>1 DEF Over
  <2> QED BY <1>0, <2>1, <2>2, WindowsTelling DEF Telling
<1>10. CASE Send(q)
  <2>1. pc[q] = "send" /\ pc'[q] = "settle" /\ UNCHANGED <<job, todo, cur, tried>>
    BY <1>10, <1>g DEF Send
  <2>2. kind[q] \notin Staff
    BY <1>c, <2>1 DEF Over
  <2> QED BY <1>t, <2>1, <2>2 DEF Telling
<1>11. CASE Settle(q) \/ SettleFails(q)
  <2>1. pc[q] = "settle" /\ pc'[q] = "log" /\ cur'[q] = Nobody /\ UNCHANGED <<job, todo, tried>>
    BY <1>11, <1>g DEF Settle, SettleFails, TypeOK
  <2>2. kind[q] \notin Staff
    BY <1>c, <2>1 DEF Over
  <2> QED BY <1>t, <2>1, <2>2 DEF Telling
<1>13. CASE JobOver(q)
  BY <1>13, <1>e DEF JobOver
<1> QED BY <1>1, <1>2, <1>3, <1>4, <1>5, <1>6, <1>7, <1>8, <1>9, <1>10, <1>11, <1>13 DEF Step

LEMMA WindowsNext ==
  ASSUME TypeOK, TypeOK', AtWork, \A q \in Request : Windows(q), Next
  PROVE  \A q \in Request : Windows(q)'
<1>0. Watch
  BY DEF Next
<1>1. ASSUME NEW q \in Request, Step(q), NEW p \in Request PROVE Windows(p)'
  <2>1. Local(q)
    BY <1>0, <1>1, StepTypes
  <2>2. tried \subseteq tried'
    BY <1>1 DEF Step, ReadTemplate, QueryRaises, QueryRecipients, QueryFails, CheckDisabled,
                CheckFails, AlertOver, LookUp, LogPending, LogFails, Begin, Send, Settle,
                SettleFails, JobOver
  <2>3. CASE p = q
    BY <1>0, <1>1, <2>3, WindowsStep
  <2>4. CASE p # q
    BY <1>0, <2>1, <2>2, <2>4, WindowsKept DEF Local
  <2> QED BY <2>3, <2>4
<1>2. ASSUME NEW q \in Request, NEW n \in 1 .. MaxJobs, Handle(q, n), NEW p \in Request
      PROVE  Windows(p)'
  <2>1. /\ pc[q] = "idle" /\ pc'[q] \in {"query", "template"}
        /\ UNCHANGED <<tables, kind, todo, cur, answer, log, mails, tried, faults>>
        /\ \A r \in Request \ {q} : pc'[r] = pc[r] /\ job'[r] = job[r]
    BY <1>0, <1>2, HandleTypes
  <2>2. CASE p = q
    <3>1. todo'[q] = {} /\ cur'[q] = Nobody
      BY <2>1 DEF Windows, Telling
    <3>2. pc'[q] = "query" => kind[q] \notin Staff
      BY <1>2, ConstantsAssumption DEF Handle, Goes, TypeOK
    <3> QED BY <1>0, <2>1, <2>2, <3>1, <3>2, WindowsOver
  <2>3. CASE p # q
    BY <1>0, <2>1, <2>3, WindowsKept
  <2> QED BY <2>2, <2>3
<1>3. ASSUME Alerts \/ Admin, NEW p \in Request PROVE Windows(p)'
  <2>1. UNCHANGED <<work, tried>>
    BY <1>3 DEF Alerts, SendAlert, Admin, SetTemplate, SetSetting, AddRecipient, UpdateRecipient,
                DeleteRecipient, Edit
  <2> QED BY <1>0, <2>1, WindowsKept DEF work
<1>4. ASSUME Crash, NEW p \in Request PROVE Windows(p)'
  <2>1. UNCHANGED <<kind, job, tried>> /\ todo'[p] = {} /\ cur'[p] = Nobody
    BY <1>4 DEF Crash
  <2>2. CASE pc[p] \in {"idle"} \cup Over
    <3>1. pc'[p] = pc[p]
      BY <1>4, <2>2 DEF Crash
    <3>2. todo[p] = {} /\ cur[p] = Nobody
      BY <2>2 DEF Windows, Over, Telling
    <3> QED BY <1>0, <2>1, <3>1, <3>2, WindowsKept
  <2>3. CASE pc[p] \notin {"idle"} \cup Over
    <3>1. pc'[p] \in Over
      BY <1>4, <2>3 DEF Crash, Over
    <3> QED BY <1>0, <2>1, <3>1, WindowsOver
  <2> QED BY <2>2, <2>3
<1> QED BY <1>1, <1>2, <1>3, <1>4 DEF Next

(***************************************************************************)
(* The theorems.                                                           *)
(***************************************************************************)
IInv == TypeOK /\ AtWork /\ Mailing /\ \A q \in Request : Windows(q)

LEMMA Initially == Init => IInv
<1> SUFFICES ASSUME Init PROVE IInv
  OBVIOUS
<1>1. NoWindow \in Window /\ ~NoWindow.nobody
  BY DEF NoWindow, Window
<1>2. edits \in 0 .. MaxEdits /\ faults \in 0 .. MaxFaults /\ \A q \in Request : 0 \in 0 .. MaxJobs
  BY ConstantsAssumption DEF Init
<1>3. alertRows \in Seq(AlertRow)
  BY DEF Init
<1>4. Kind \in Filters
  BY ConstantsAssumption
<1>5. TypeOK
  BY <1>1, <1>2, <1>3, <1>4 DEF Init, TypeOK, Steps, Status
<1>6. AtWork /\ Mailing
  BY DEF Init, AtWork, Mailing, Tries, SentWasAccepted, Busy
<1>7. \A q \in Request : Windows(q)
  BY <1>1 DEF Init, Windows, Telling
<1> QED BY <1>5, <1>6, <1>7 DEF IInv

LEMMA TypesNext ==
  ASSUME TypeOK, AtWork, Next
  PROVE  TypeOK' /\ AtWork'
BY StepTypes, HandleTypes, OtherTypes DEF Next, Local

LEMMA Inductive == IInv /\ [Next]_vars => IInv'
<1> SUFFICES ASSUME IInv, [Next]_vars PROVE IInv'
  OBVIOUS
<1>1. CASE Next
  BY <1>1, TypesNext, MailingStep, WindowsNext DEF IInv
<1>2. CASE UNCHANGED vars
  <2>1. TypeOK' /\ AtWork'
    BY <1>2 DEF IInv, TypeOK, AtWork, vars, tables, work
  <2>2. Mailing'
    BY <1>2 DEF IInv, Mailing, Tries, SentWasAccepted, This, vars, work
  <2>3. \A q \in Request : Windows(q)'
    BY <1>2 DEF IInv, Windows, Eligible, vars, tables, work
  <2> QED BY <2>1, <2>2, <2>3 DEF IInv
<1> QED BY <1>1, <1>2

LEMMA Invariance == Spec => []IInv
BY Initially, Inductive, PTL DEF Spec

(* Every reachable state of the notifications is well formed. *)
THEOREM TypeCorrect == Spec => []TypeOK
BY Invariance, PTL DEF IInv

(* SENT is logged only of a notice the server accepted, whatever fails. *)
THEOREM SentIsTrue == Spec => []SentWasAccepted
<1>1. IInv => SentWasAccepted
  BY DEF IInv, Mailing
<1> QED BY <1>1, Invariance, PTL

(***************************************************************************)
(* What the log pages show.                                                *)
(***************************************************************************)

(* The notice a request is mailing is logged PENDING, and no other one.     *)
Rows ==
  faults = 0 =>
    /\ \A n \in Notice : log[n] = "PENDING" => pc[n.req] \in {"send", "settle"} /\ n = This(n.req)
    /\ \A q \in Request : pc[q] \in {"send", "settle"} => log[This(q)] = "PENDING"
    /\ \A n \in mails : log[n] # "none"

(* Of a type without a setting nobody registered is in turn, or has been.   *)
Unlisted ==
  /\ \A q \in Request : setting[kind[q]] = "none" => todo[q] \cap Address = {}
  /\ \A n \in tried : setting[kind[n.req]] = "none" => n.to = Fallback

LEMMA FaultsStay == ASSUME TypeOK, Next, faults' = 0 PROVE faults = 0 /\ ~Fault
<1>1. faults \in Nat
  BY ConstantsAssumption DEF TypeOK
<1>2. ~Fault
  BY <1>1 DEF Fault
<1>3. Fault \/ faults' = faults
  BY DEF Next, Step, ReadTemplate, QueryRaises, QueryRecipients, QueryFails, CheckDisabled,
         CheckFails, AlertOver, LookUp, LogPending, LogFails, Begin, Send, Settle, SettleFails,
         JobOver, Handle, Alerts, SendAlert, Crash, Admin, SetTemplate, SetSetting, AddRecipient,
         UpdateRecipient, DeleteRecipient, Edit, NoFault
<1> QED BY <1>2, <1>3

(* A step that logs and mails nothing. *)
LEMMA RowsQuiet ==
  ASSUME TypeOK, Rows, faults' = 0 => faults = 0, UNCHANGED <<log, mails>>,
         \A p \in Request :
           \/ pc'[p] = pc[p] /\ job'[p] = job[p] /\ cur'[p] = cur[p]
           \/ pc[p] \notin {"send", "settle"} /\ pc'[p] \notin {"send", "settle"}
  PROVE  Rows'
<1> SUFFICES ASSUME faults' = 0 PROVE Rows'
  BY DEF Rows
<1>1. ASSUME NEW p \in Request, pc[p] \in {"send", "settle"} \/ pc'[p] \in {"send", "settle"}
      PROVE  pc'[p] = pc[p] /\ This(p)' = This(p)
  BY <1>1 DEF This
<1>2. \A n \in Notice : n.req \in Request
  BY DEF Notice
<1> QED BY <1>1, <1>2 DEF Rows

LEMMA RowsStep ==
  ASSUME TypeOK, AtWork, Rows, NEW q \in Request, Step(q), Watch, faults' = 0, faults = 0, ~Fault
  PROVE  Rows'
<1>0. Local(q)
  BY StepTypes
<1>g. ASSUME NEW x, Goes(q, x) PROVE pc'[q] = x
  BY <1>g DEF Goes, TypeOK
<1>m. \A p \in Request : pc[p] \in {"send", "settle"} => This(p) \in Notice
  BY DEF TypeOK, AtWork, This, Notice, Busy, Steps, Over
<1>o. \A p \in Request \ {q} : pc'[p] = pc[p] /\ This(p)' = This(p) /\ This(p) # This(q)
  BY <1>0 DEF Local, This
<1>n. \A n \in Notice : n.req \in Request
  BY DEF Notice
<1>1. ASSUME NEW a \in todo[q], LogPending(q, a) PROVE Rows'
  <2> DEFINE m == [req |-> q, job |-> job[q], to |-> a]
  <2>1. /\ pc[q] = "log" /\ pc'[q] = "send" /\ This(q)' = m /\ mails' = mails
        /\ log' = [log EXCEPT ![m] = "PENDING"]
    BY <1>1 DEF LogPending, Begin, Goes, TypeOK, This
  <2>2. m \in Notice /\ m.req = q
    BY <2>1 DEF TypeOK, AtWork, Notice, Busy, Steps, Over
  <2>3. log'[m] = "PENDING" /\ \A n \in Notice \ {m} : log'[n] = log[n]
    BY <2>1, <2>2 DEF TypeOK
  <2>4. mails \subseteq Notice
    BY DEF TypeOK
  <2>5. \A p \in Request \ {q} : This(p) # m
    BY DEF This
  <2> HIDE DEF m
  <2> QED BY <1>o, <1>n, <1>m, <2>1, <2>2, <2>3, <2>4, <2>5 DEF Rows
<1>2. CASE Send(q)
  <2>1. /\ pc[q] = "send" /\ pc'[q] = "settle" /\ This(q)' = This(q) /\ log' = log
        /\ mails' \subseteq mails \cup {This(q)}
    BY <1>2, <1>g DEF Send, This
  <2>2. log[This(q)] = "PENDING"
    BY <2>1 DEF Rows
  <2> QED BY <1>o, <1>n, <2>1, <2>2 DEF Rows
<1>3. CASE Settle(q)
  <2>1. /\ pc[q] = "settle" /\ pc'[q] = "log" /\ mails' = mails /\ log[This(q)] = "PENDING"
    BY <1>3, <1>g DEF Settle, Rows
  <2>2. log' = [log EXCEPT ![This(q)] = Outcome(q)] /\ Outcome(q) \in {"SENT", "FAILED"}
    BY <1>3, <2>1 DEF Settle, Outcome
  <2>3. This(q) \in Notice /\ This(q).req = q
    BY <1>m, <2>1 DEF This
  <2>4. log'[This(q)] \in {"SENT", "FAILED"} /\ \A n \in Notice \ {This(q)} : log'[n] = log[n]
    BY <2>2, <2>3 DEF TypeOK
  <2>5. mails \subseteq Notice
    BY DEF TypeOK
  <2> HIDE DEF This
  <2> QED BY <1>o, <1>n, <1>m, <2>1, <2>3, <2>4, <2>5 DEF Rows
<1>4. CASE ~Send(q) /\ ~Settle(q) /\ \A a \in todo[q] : ~LogPending(q, a)
  <2>1. ASSUME EndJob(q) \/ Raise(q) PROVE pc'[q] \in {"template", "done", "dropped"}
    BY <2>1, <1>g DEF EndJob, Raise
  <2>2. ASSUME FallBack(q) PROVE pc'[q] \in {"alert", "lookup"}
    BY <2>2, <1>g DEF FallBack
  <2>3. Resolved(q) \in {"log", "lookup"}
    BY DEF Resolved
  <2>4. /\ UNCHANGED <<log, mails>>
        /\ pc[q] \in {"template", "lookup", "query", "check", "alert", "log"}
        /\ \/ EndJob(q) \/ Raise(q) \/ FallBack(q) \/ Goes(q, Resolved(q))
           \/ \E x \in {"lookup", "query", "check", "log"} : Goes(q, x)
    BY <1>4, ZenonT(60) DEF Step, ReadTemplate, QueryRaises, QueryRecipients, QueryFails, CheckDisabled,
           CheckFails, AlertOver, LookUp, LogFails, SettleFails, JobOver
  <2>5. pc'[q] \notin {"send", "settle"}
    BY <1>g, <2>1, <2>2, <2>3, <2>4
  <2> QED BY <1>0, <2>4, <2>5, RowsQuiet DEF Local
<1> QED BY <1>1, <1>2, <1>3, <1>4

LEMMA RowsNext ==
  ASSUME TypeOK, AtWork, Rows, Next
  PROVE  Rows'
<1> SUFFICES ASSUME faults' = 0 PROVE Rows'
  BY DEF Rows
<1>0. faults = 0 /\ ~Fault /\ Watch
  BY FaultsStay DEF Next
<1>1. ASSUME NEW q \in Request, Step(q) PROVE Rows'
  BY <1>0, <1>1, RowsStep
<1>2. ASSUME NEW q \in Request, NEW n \in 1 .. MaxJobs, Handle(q, n) PROVE Rows'
  <2>1. /\ pc[q] = "idle" /\ pc'[q] \in {"query", "template"}
        /\ UNCHANGED <<cur, log, mails>>
        /\ \A p \in Request \ {q} : pc'[p] = pc[p] /\ job'[p] = job[p]
    BY <1>0, <1>2, HandleTypes
  <2> QED BY <1>0, <2>1, RowsQuiet
<1>3. CASE Alerts \/ Admin
  <2>1. UNCHANGED <<work, log, mails>>
    BY <1>3 DEF Alerts, SendAlert, Admin, SetTemplate, SetSetting, AddRecipient, UpdateRecipient,
                DeleteRecipient, Edit
  <2> QED BY <1>0, <2>1, RowsQuiet DEF work
<1>4. ~Crash
  BY <1>0 DEF Crash
<1> QED BY <1>1, <1>2, <1>3, <1>4 DEF Next

(* Settings are switched on or off, never removed; what a job has to do for *)
(* a type without one is to tell the fallback.                              *)
LEMMA UnlistedNext ==
  ASSUME TypeOK, AtWork, Unlisted, Next
  PROVE  Unlisted'
<1>0. Watch /\ Fallback \notin Address
  BY ConstantsAssumption DEF Next
<1>t. tried \subseteq Notice /\ \A n \in Notice : n.req \in Request
  BY DEF TypeOK, Notice
<1>1. ASSUME NEW q \in Request, Step(q) PROVE Unlisted'
  <2>1. Local(q) /\ setting' = setting /\ kind' = kind
    BY <1>0, <1>1, StepTypes DEF Local, tables
  <2>2. ASSUME setting[kind[q]] = "none" PROVE Eligible(kind[q]) = {}
    BY <2>2 DEF Eligible
  <2>3. \/ todo'[q] \subseteq todo[q] \/ todo'[q] = {Fallback} \/ todo'[q] = Eligible(kind[q])
    <3>1. ASSUME EndJob(q) \/ Raise(q) PROVE todo'[q] = {}
      BY <3>1 DEF EndJob, Raise, TypeOK
    <3>2. ASSUME FallBack(q) PROVE todo'[q] = {Fallback}
      BY <3>2 DEF FallBack, TypeOK
    <3>3. ASSUME QueryRecipients(q) PROVE todo'[q] = Eligible(kind[q])
      BY <3>3 DEF QueryRecipients, TypeOK
    <3>4. ASSUME NEW a \in todo[q], Begin(q, a) PROVE todo'[q] \subseteq todo[q]
      BY <3>4 DEF Begin, TypeOK
    <3>5. \/ EndJob(q) \/ Raise(q) \/ FallBack(q) \/ QueryRecipients(q) \/ todo' = todo
          \/ \E a \in todo[q] : Begin(q, a)
      BY <1>1 DEF Step, ReadTemplate, QueryRaises, QueryFails, CheckDisabled, CheckFails,
                  AlertOver, LookUp, LogPending, LogFails, Send, Settle, SettleFails, JobOver
    <3> QED BY <3>1, <3>2, <3>3, <3>4, <3>5
  <2>4. \A n \in tried' \ tried : n.req = q /\ n.to \in todo[q]
    <3>1. tried' = tried \/ \E a \in todo[q] : Begin(q, a)
      BY <1>1 DEF Step, ReadTemplate, QueryRaises, QueryRecipients, QueryFails, CheckDisabled,
                  CheckFails, AlertOver, LookUp, LogPending, LogFails, Send, Settle, SettleFails,
                  JobOver
    <3>2. ASSUME NEW a \in todo[q], Begin(q, a)
          PROVE  tried' = tried \cup {[req |-> q, job |-> job[q], to |-> a]}
      BY <3>2 DEF Begin
    <3> QED BY <3>1, <3>2
  <2>5. todo[q] \subseteq Address \cup {Fallback}
    BY DEF TypeOK
  <2> QED BY <1>0, <1>t, <2>1, <2>2, <2>3, <2>4, <2>5 DEF Unlisted, Local
<1>2. ASSUME NEW q \in Request, NEW n \in 1 .. MaxJobs, Handle(q, n) PROVE Unlisted'
  <2>1. UNCHANGED <<setting, kind, todo, tried>>
    BY <1>2 DEF Handle, tables
  <2> QED BY <2>1 DEF Unlisted
<1>3. CASE Alerts \/ Admin
  <2>1. UNCHANGED <<kind, todo, tried>>
    BY <1>3 DEF Alerts, SendAlert, Admin, SetTemplate, SetSetting, AddRecipient, UpdateRecipient,
                DeleteRecipient, Edit, work
  <2>2. \A k \in Kind : setting'[k] = "none" => setting[k] = "none"
    BY <1>3 DEF Alerts, SendAlert, Admin, SetTemplate, SetSetting, AddRecipient, UpdateRecipient,
                DeleteRecipient, Edit, tables, TypeOK
  <2>3. \A q \in Request : kind[q] \in Kind
    BY DEF TypeOK
  <2> QED BY <1>t, <2>1, <2>2, <2>3 DEF Unlisted
<1>4. CASE Crash
  <2>1. UNCHANGED <<setting, kind, tried>> /\ \A q \in Request : todo'[q] = {}
    BY <1>4 DEF Crash, tables
  <2> QED BY <2>1 DEF Unlisted
<1> QED BY <1>1, <1>2, <1>3, <1>4 DEF Next

LEMMA RowsAlways == Spec => [](Rows /\ Unlisted)
<1>1. Init => Rows /\ Unlisted
  BY DEF Init, Rows, Unlisted
<1>2. IInv /\ Rows /\ Unlisted /\ [Next]_vars => (Rows /\ Unlisted)'
  <2>1. ASSUME IInv, Rows, Unlisted, Next PROVE (Rows /\ Unlisted)'
    BY <2>1, RowsNext, UnlistedNext DEF IInv
  <2>2. ASSUME Rows, Unlisted, UNCHANGED vars PROVE (Rows /\ Unlisted)'
    BY <2>2 DEF Rows, Unlisted, This, vars, work, tables
  <2> QED BY <2>1, <2>2
<1> QED BY <1>1, <1>2, Invariance, PTL DEF Spec

(* What the templates as delivered ask for the services fill in, but for   *)
(* the {{parent_name}} of the absence alert.                               *)
THEOREM TemplatesAreFilled == OneBlankIsLeft
<1>1. RenderTemplate(EnrollmentCreated) = {} /\ EnrollmentCreated # Absence
  BY DEF RenderTemplate, Asks, Absence, EnrollmentCreated, Performed, OnEnrollment
<1>2. RenderTemplate(EnrollmentUpdated) = {} /\ EnrollmentUpdated # Absence
  BY DEF RenderTemplate, Asks, Absence, EnrollmentUpdated, Performed, OnEnrollment
<1>3. RenderTemplate(EnrollmentCompleted) = {} /\ EnrollmentCompleted # Absence
  BY DEF RenderTemplate, Asks, Absence, EnrollmentCompleted, Performed, OnEnrollment
<1>4. RenderTemplate(EnrollmentDropped) = {} /\ EnrollmentDropped # Absence
  BY DEF RenderTemplate, Asks, Absence, EnrollmentDropped, Performed, OnEnrollment
<1>5. RenderTemplate(EnrollmentTransferred) = {} /\ EnrollmentTransferred # Absence
  BY DEF RenderTemplate, Asks, Absence, EnrollmentTransferred, Performed, OnEnrollment
<1>6. RenderTemplate(LevelProgression) = {} /\ LevelProgression # Absence
  BY DEF RenderTemplate, Asks, Absence, LevelProgression, Performed, OnEnrollment
<1>7. RenderTemplate(TeamRegistration) = {} /\ TeamRegistration # Absence
  BY DEF RenderTemplate, Asks, Absence, TeamRegistration, OnTeam
<1>8. RenderTemplate(FeePayment) = {} /\ FeePayment # Absence
  BY DEF RenderTemplate, Asks, Absence, FeePayment, OnTeam
<1>9. RenderTemplate(Placement) = {} /\ Placement # Absence
  BY DEF RenderTemplate, Asks, Absence, Placement, OnTeam
<1>10. RenderTemplate(PaymentReceived) = {} /\ PaymentReceived # Absence
  BY DEF RenderTemplate, Asks, Absence, PaymentReceived
<1>11. RenderTemplate(PaymentReminder) = {} /\ PaymentReminder # Absence
  BY DEF RenderTemplate, Asks, Absence, PaymentReminder
<1>12. RenderTemplate(AdminLogin) = {} /\ AdminLogin # Absence
  BY DEF RenderTemplate, Asks, Absence, AdminLogin
<1>13. RenderTemplate(Absence) = {"parent_name"}
  BY DEF RenderTemplate, Asks, Absence
<1>14. TaskAssigned.template \notin DOMAIN Asks
  BY DEF Asks, TaskAssigned
<1>15. TaskStatusChanged.template \notin DOMAIN Asks
  BY DEF Asks, TaskStatusChanged
<1>16. TaskCommentAdded.template \notin DOMAIN Asks
  BY DEF Asks, TaskCommentAdded
<1>17. TaskDueReminder.template \notin DOMAIN Asks
  BY DEF Asks, TaskDueReminder
<1> QED
  BY <1>1, <1>2, <1>3, <1>4, <1>5, <1>6, <1>7, <1>8, <1>9, <1>10, <1>11, <1>12, <1>13, <1>14, <1>15, <1>16, <1>17
     DEF OneBlankIsLeft, Announcements

(* What administrators read of the notices is what became of them, for any *)
(* number of requests, jobs, edits and faults.                             *)
THEOREM LogIsTrue == Spec => []LogsTellTruth
<1>1. ASSUME IInv, Rows, Unlisted PROVE LogsTellTruth
  <2>1. SentWasAccepted
    BY <1>1 DEF IInv, Mailing
  <2>2. PendingIsUnderWay
    <3> SUFFICES ASSUME faults = 0, NEW k \in Kind
                 PROVE  GetLogs("PENDING", k) =
                          {This(q) : q \in {r \in Request : kind[r] = k /\ pc[r] \in {"send", "settle"}}}
      BY DEF PendingIsUnderWay
    <3>1. \A q \in Request : pc[q] \in {"send", "settle"} => This(q) \in Notice /\ This(q).req = q
      BY <1>1 DEF IInv, TypeOK, AtWork, This, Notice, Busy, Steps, Over
    <3>2. \A n \in Notice : n.req \in Request
      BY DEF Notice
    <3>3. "PENDING" # "none"
      OBVIOUS
    <3> HIDE DEF This
    <3> QED BY <1>1, <3>1, <3>2, <3>3 DEF Rows, GetLogs, LogRows
  <2>3. MailsAreLogged
    BY <1>1 DEF Rows, MailsAreLogged, LogRows, IInv, TypeOK
  <2>4. UnlistedReachNobody
    <3>1. \A n \in tried : kind[n.req] \in Kind
      BY <1>1 DEF IInv, TypeOK, Notice
    <3>2. \A k \in Kind : setting[k] \in {"none", "on", "off"}
      BY <1>1 DEF IInv, TypeOK
    <3>3. \A k \in Kind : GetSetting(k) = "404" => setting[k] = "none"
      BY <3>2 DEF GetSetting, GetAdminSettings
    <3> QED BY <1>1, <3>1, <3>3 DEF Unlisted, UnlistedReachNobody
  <2> QED BY <2>1, <2>2, <2>3, <2>4 DEF LogsTellTruth
<1> QED BY <1>1, Invariance, RowsAlways, PTL

(* Whom a job tells was eligible while it asked, and the fallback is told  *)
(* only when nobody was, whatever administrators edit meanwhile.           *)
THEOREM OnlyEligible == Spec => []ToldWereEligible
<1>1. IInv => ToldWereEligible
  BY ConstantsAssumption DEF IInv, Windows, ToldWereEligible, Telling
<1> QED BY <1>1, Invariance, PTL

(* Whoever was eligible all the time a job asked has been tried when the   *)
(* job is over.                                                            *)
THEOREM AllEligible == Spec => []EligibleAreTold
<1>1. IInv => EligibleAreTold
  BY DEF IInv, Windows, EligibleAreTold, Telling, Over
<1> QED BY <1>1, Invariance, PTL

(* Whatever administrators edit meanwhile and whichever mails fail, those  *)
(* who are told are those who should be.                                   *)
THEOREM RightPeople == Spec => []RightPeopleAreTold
<1> QED BY OnlyEligible, AllEligible, PTL DEF RightPeopleAreTold

(* No notice is begun again once the server has taken it. *)
THEOREM NoSecondMail == Spec => MailedOnce
<1> DEFINE Once == \A n \in mails : \A q \in Request : cur'[q] = n.to /\ pc'[q] = "send"
                     => n.req # q \/ n.job # job[q]
<1>1. IInv /\ IInv' /\ [Next]_vars => [Once]_vars
  <2> SUFFICES ASSUME IInv, IInv', Next PROVE Once
    BY DEF IInv
  <2> QED BY MailedOnceStep DEF IInv
<1> HIDE DEF Once
<1>2. Spec => [][Once]_vars
  BY <1>1, Invariance, PTL DEF Spec
<1> QED BY <1>2 DEF MailedOnce, Once
=============================================================================
