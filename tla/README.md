# Techno Terminal: a TLA+ verification project

Techno Terminal is the back office of an education centre: a FastAPI service
over PostgreSQL that keeps students, groups and their levels, sessions,
attendance, receipts, competition teams, employees, tasks, notices and
scheduled e-mail reports. This directory holds TLA+ models of the parts of it
that carry concurrency, failure or long-lived invariants, the TLC
configurations that check them on small instances, and proofs checked by TLAPS.

Contents: 1 the system · 2 the modules and the code · 3 the runs · 4 the proofs
· 5 disagreements with the docs · 6 what is not modelled · 7 the plan ·
8 how to run it.

## 1. The system

### How it runs

One or more server processes run the same application. Every HTTP request gets
a database session of its own (`app/db/connection.py:89`): it commits when the
handler ends, rolls back when it raises. PostgreSQL runs at READ COMMITTED and
no code takes an explicit lock, so a request is a sequence *read rows into
Python objects – decide – write back – commit*, and another request can commit
between any two of these. What the code relies on against that are a few
constraints of the schema (a partial unique index on active enrollments, one on
report deliveries, foreign keys, unique usernames) and check-before-write in
Python. Some handlers commit more than once, and some also call a second system
(Supabase Auth, an SMTP server) with no common transaction. Three things run
beside the requests: background jobs that send notices after a response, a loop
in every process that spawns recurring tasks at night, and pg_cron, which calls
the report endpoints.

### Inventory

| component | state it keeps | operations | hard behaviour | what makes it correct |
|---|---|---|---|---|
| Scheduled report delivery (`report_notifications.py`, `report_delivery_ledger.py`, `internal_scheduler_router.py`) | rows of `notification_logs` with status PENDING / SENT / FAILED per report, period and recipient | trigger, claim, send, mark, expiry of stale claims | overlapping triggers, crash between send and mark, lost SMTP answers, claims taken over after 15 minutes, partial success | SENT is truthful and final; a second mail needs an abandoned claim; every recipient is reached in the end |
| Receipts and refunds (`receipt_service.py`, `refund_service.py`) | `receipts`, `payments` | create with an overpayment check, refund; price edits and level deletions in between | check and write apart, rows voided while a request holds them | only overlapping refunds exceed a payment; credit is consented to or has a named cause |
| Competition fees (`team_service.py`) | `team_members.amount_paid` | pay, refund, register the team, remove members, delete the team | two commits in one request, a loaded value written back, foreign key against removal | `amount_paid` is covered by payments; who paid stays |
| Balances and financial reports, analytics, report contents (`30_views.sql`, migrations 074–076, `analytics/repositories`, `reports_repository.py`) | none: queries over `payments` and `enrollments` | fifteen ways to compute a debt, twenty to compute a taking | different joins and filters over the same rows: voided rows, refunds, rows counted per payment | they agree, but for differences that can be named |
| Lists, searches, profiles, statistics and answers of all components (routers, `directory`, `details`, `analytics`, `search_service.py`, …) | none: queries over the tables above | dozens, several for one question | rows one query filters and another does not: cancelled, deleted, voided, transferred, inactive | they agree, but for differences that can be named |
| Group levels (`group/lifecycle`, `group/level`) | `groups.level_number`, `group_levels` | progress, cancel, delete ("undo") a level | three tables without foreign keys between level numbers, several queries per request | levels that are named exist; undo restores |
| Enrollments (`enrollments/`) | `enrollments` with the partial unique index | enrol, transfer, drop, migration to the next level | bulk moves against single edits | who left stays out |
| Session schedule (`academics/session`) | `sessions` and their numbers | add, cancel with a replacement, reactivate, delete, patch | renumbering of a whole level with absolute numbers | numbers distinct, in order, without gaps |
| Attendance | `attendance` | mark; cancelled and restored with the session | depends on the session's status | no lesson with attendance disappears |
| Recurring tasks (`tasks/scheduler.py`, `tasks/service.py`) | `tasks` templates and children, a date in memory | nightly spawn, template edits | crash between commit and note, restart within the window, several processes, clock changes | one child per template and day, no day lost |
| Employees and accounts (`hr`, `auth`) | `employees`, `users`, Supabase identities | hire, deactivate, delete, restore; create, invite, register, delete logins | two systems without a common transaction, compensation, two links that must answer each other | identities and rows match; access follows the employee |
| Template notifications (`notifications/services`) | `notification_logs`, SMTP | queue jobs after the commit, resolve recipients, log, mail, settle, fallback and its alert | two queries for one decision, an exception drops the jobs behind it, lost answers | SENT is truthful; the right people are told, once; every job ends |
| Notification settings and templates | settings, recipients, templates | edit | edited between the queries of a running job | as above |
| Team registration (`team_service.py`, `competition_service.py`) | competitions, teams, members, placements | register, place, remove, delete, pay, rename | no lock between the check and the insert; the first activity log commits the request | no orphans; warnings and notices tell the truth |
| Students and parents (`crm`) | students, parents, links, activity log | register, edit, status, soft delete that voids payments, restore, hard delete | stale objects written back, a log in a second transaction, inserts against a hard delete | nothing left behind; payments follow their student; the log is true |
| Courses and group details | – | single-row edits, and the pages of a group | as for the other lists | as for the other lists |
| API layer, schema, migrations, scripts | – | – | – | – |

### How the parts interact

* A **group level** owns sessions; an **enrollment** names a group and a level
  number; **attendance** names a session and an enrollment. Progression
  completes and inserts enrollments; deleting a level removes its sessions,
  attendance and enrollments and voids its payments.
* A **payment** names an enrollment or a team member. `v_enrollment_balance`
  adds payments up against the enrollment's price. Paying a competition fee
  calls the receipt service inside the team service's session – and the receipt
  service commits it.
* A **student** owns enrollments, payments and memberships. Soft deletion voids
  the payments, enrolling takes the student off the waiting list, hard deletion
  meets whatever others insert meanwhile.
* An **employee** may have a **login**, which is a row of `users` and an
  identity at Supabase; deactivating the employee blocks the login.
* **Services** queue **notices** after their commit; the notice reads templates,
  settings and recipients when its job runs, not when it is queued.
* **Reports** and the **dashboard** read all of these and write only the
  delivery ledger.

Each of these meets the others in the database only, so each model keeps the
rows of its own tables and the columns of others its guards read: `Payments` has
the roster of a team, the price of an enrollment and the part of `delete_level`
that concerns money; `Students` has payments as far as they are voided; `Teams`
has payments as far as their foreign key protects members.

## 2. The modules and the code

| module | models | role |
|---|---|---|
| `Delivery` | the promise of the ledger: open → claimed → delivered | abstract specification |
| `ReportDelivery` | the trigger request, the ledger, SMTP, time, crashes | detailed specification, implements `Delivery` |
| `Payments` | receipts, refunds, competition fees, prices, deleted levels | component specification |
| `Statements` | the queries over the tables of `Payments` | operators; EXTENDS `Payments`, adds no state |
| `SessionSchedule` | sessions of one level and their attendance | component specification |
| `GroupLevels` | groups, levels, enrollments | composes levels with enrollments |
| `RecurringTasks` | the nightly loop, the spawner, templates | component specification |
| `Accounts` | employees, users, Supabase identities | composes two services over two systems |
| `Notices` | a request, its jobs, settings, recipients, SMTP | composes the dispatch with the settings |
| `Teams` | competitions, teams, members | component specification |
| `Students` | students, parents, links, payments as far as voided, the log | composes students with enrollments and payments |
| `ReceiptPages` | pages, papers and lists of receipts, the audit and cost views | operators; EXTENDS `Statements` |
| `SessionPages` | lists and statistics of sessions and attendance, the dashboard's day | operators; EXTENDS `SessionSchedule` |
| `GroupPages` | pages of a group, its levels, rosters, retention, audits | operators; EXTENDS `GroupLevels` |
| `AccountPages` | the lists of staff and users, the answers to whoever signs in | operators; EXTENDS `Accounts` |
| `NoticePages` | settings and log pages, what each notice is filled with | operators; EXTENDS `Notices` |
| `TeamPages` | lists, categories and summary of a competition, a student's pages | operators; EXTENDS `Teams` |
| `StudentPages` | lists, searches, profiles, siblings, histories, reports | operators; EXTENDS `Students` |
| `…Proofs` | `ReportDelivery`, `Payments` (with `Statements`), `SessionPages`, `GroupPages` and `RecurringTasks` (together), `Accounts` (with its pages), `Notices` (with its pages), `TeamPages`, `StudentPages` | proofs |
| `MC…` | | values of the constants, symmetry |

Definitions marked *Faulty variant* next to an operator are plausible bugs of
the code it models. No specification uses them; each is there to show that some
property notices when the definition after it is replaced by it.

### Conventions

A process or request has a record or program counter (`pc`, `tx`, `req`, `run`)
that says where it is and *what it has read*; a step is what happens between two
points where another request's commit can become visible. Reads that are not
separated by a write are taken at one moment, and a flush of several rows
together with its commit is one step, because nothing else sees it before. Row
locks taken by a flush are modelled where a flush precedes the commit and
others could touch the row (`LevelLocked`, `LevelInserted`, `LockedByOther`).
A request that cannot go on rolls back. Ids are numbers in insertion order, so
*the newest row* and *the next id* mean what they mean in the code. History
variables record what happened (who raced, who was warned, which payment was
late); no guard of a code action reads one.

### ReportDelivery

State: `status[<<key, n>>]` is the n-th row of a key (report, recipient) in
`notification_logs`; `aged` are rows older than 15 minutes; `smtp` is what the
server did with the message of a row, which the code only learns through an
answer; `expired` remembers claims that were taken over. A request has `pc`, the
recipients it read (`list`), the index of its loop, the stale claims it
selected, its claim and its counters.

Actions follow the loop of `_send_scheduled_report`: `Start`/`Decline` (early
returns), `SelectStale`, `ExpireStale` (commit), `InsertClaim`/`SkipClaimed`
(the unique index decides), `Send` (accepted, refused, or accepted with the
answer lost), `MarkSent`/`MarkFailed`/`MarkConflict` (the unconditional UPDATE,
which the index may refuse), `Answer`. `Crash` ends a request anywhere; `Age`
lets fifteen minutes pass for a row, and when a request is still sending for it
that counts as the fault *slow send*, because the SMTP connection has no
timeout. Contents of reports are left out here (their sums are in `Statements`).

### Payments

`payments` is the table, `refunded` the SUM that `get_total_refunded` computes,
kept as a running total; `received`/`returned` are the two sums behind the
balance view; `netDue` is `amount_due - discount_applied`; `voided` are the rows
with `deleted_at`, `gone` the enrollments deleted with their level. A receipt is
`ReceiptCheck` (the balances are read) and `ReceiptCommit`; a refund
`RefundCheck` or `FeeRefundCheck`, then `RefundCommit` or `RefundRaises`; a fee
`PayLoad`, `PayReceipt` (the receipt service's commit), `PayRecord`. `Record`
writes back what `PayLoad` read, because the member sits in the session's
identity map. `Unwraps` says whether `Session.exec` unwraps a select that was
imported from `sqlalchemy`; the installed library does not, and then every
refund of a competition fee raises. The passing run takes both values, so that
the code behind it is checked as well. The lines of a receipt are added up by
`Total`, a recursive function, so that proofs can reason about it. The roster is
filled by `RegisterTeam`, which commits a team with all its members;
`add_team_member_to_existing` raises before it writes.

Any number of requests run at once. Nothing in the code orders two that go by
the same row: each compares with a SUM, a balance or an `amount_paid` that the
other may be about to change. The ghost `raced` collects the rows and accounts
for which this happened (`Concerns` says what a request goes by, `Race` records
at a commit whose reading it makes stale), and `RefundsWithinOriginal`,
`CreditIsAllowed` and `FeesAreCovered` except just these: TLC finds each of them
violated without the exception. What they say is that an overlap is the *only*
way: no edit, deletion, crash, refund of another row or refund through the other
endpoint leads there.

`ChangePrice` is `update_enrollment`; the ghost `lowered` remembers whose price
went down, since that leaves a credit nobody consented to. `DeleteLevel` voids
the payments and deletes the enrollments of a level; a receipt or refund that
was checked before meets the foreign key (`Refused`). A refund that is checked
after finds the voided row, whose `enrollment_id` is NULL by then, and goes
through (`orphan`).

### Statements

One operator per query, over the variables of `Payments`, each with its own
joins and filters as the SQL has them. `Debt` is `SUM(-balance) WHERE balance <
0`; the operators around it (`UnpaidEnrollments`, `Outstanding`, `TopDebtors`,
`OwedTomorrow`, …) are the places that ask who owes what. `TotalPaid` and what
follows are the rosters that add up `amount` whatever the transaction type;
`BilledByRow` and what follows the queries that join enrollments with payments
before they sum, so that a price counts once per payment. Then the statements of
a student, and the takings. Constants say whose an enrollment is, on which day
and by which method a row was received, which group is active.

Two properties relate these to each other *with the differences the code has*:
`DebtsAgree` says for instance that a roster's balance is the real one less
twice what was refunded, that a group's "outstanding" is right when no
enrollment has two payments and too high otherwise, and that the statement of
the CRM differs from the one of finance by refunds and completed enrollments;
`TakingsAgree`, a part of `MoneyAgrees`, that the daily report and the analytics
exceed the weekly and monthly ones by exactly the voided rows. A property that
claimed equality would fail; these say how far each number can be trusted. The
runs state them when no request is between two commits that belong together
(`Looking`), to save time; `UnpaidListsAreOne` and `TakingsStayOne` prove all
but the revenue of groups and the costs at every moment. `SUM` is the number of
pairs of a row and a unit of its amount, those of positive amounts less those of
negative ones (`Units`, `Sum`): sets can be counted and compared by bijections,
where a sum by recursion could not be reasoned about.

`v_enrollment_balance` is taken from `schema/30_views.sql`, which counts voided
rows; migration 080 leaves them out. `UnpaidListsAreOne` proves that this makes
no difference to any list of debts, because a row is voided only together with
its enrollment.

Identified: UTC-midnight windows and DATE windows, `paid_at` and `created_at`
days. No student is deleted here and no row is a `charge`, which nothing writes.
Rankings, limits, percentages and forecasts are left out.

### SessionSchedule

One level of one group: status, number and attendance of each row.
`cancel_session` is `CancelLoad`, `CancelLock` (its first flush locks the row),
`CancelCommit`; `reactivate_session` and `add_extra_session` are a read and a
commit; deleting, patching and marking are one step. The renumbering is
translated as it is: absolute numbers computed from what was read.

### GroupLevels

`open`, `current` (`groups.level_number`), `level` (the rows of `group_levels`),
`rows` (the enrollments). `progress_to_next_level` is `ProgressRead`,
`ProgressLoad` (level flushed, enrollments read), `ProgressCommit`; enrolling
and transferring read the group first and write later; cancelling, deleting and
dropping are one step. `memo` is a ghost: the group as the last progression
found it, until something else changes it, so that an undo can be compared. A
progression inserts the successors in the order in which the query returns the
enrollments it completes, and the query names none
(`enrollments/lifecycle/service.py:31-36`): the model lists them in some order.

### RecurringTasks

A day is the window 00:05–00:09 in Cairo and then the rest. `last` is the date
the loop remembers in memory, `run` what the spawner has read, `kids` how many
children of a template carry a date, and `pattern` how a task recurs ("once"
when it does not, which `UpdateTemplate` can change both ways). `Look` starts
the spawner, `Commit` is its commit, `Note` the assignment of the date, `Raise`
the path through `finally` and `except`; `Crash` and `Start` lose what is in
memory. `created` is a UTC date, which is the day before for a template created
in the first hours of a Cairo day. The database session is taken to be in UTC,
as Supabase configures it; with another time zone the naive bounds of the
duplicate check would not match the children's times. `unseen`, `calm` and
`touched` are ghosts: loops that have not looked in this window, loops without a
fault since before the day, and templates changed on the day.

### Accounts

`employee`, `user` and `identity` are the three stores; `req` a request that
calls Supabase, `desk` one that updates or deletes an employee. The latter reads
the employee's row once and goes by what it says (`Activate`, `Deactivate`,
`DeleteEmployee`), then looks up the login it found (`SetUserActive`) and
commits (`StaffCommit`, of the columns that `Written` names, or `StaffFails`);
whatever else commits in between stands. The ghost `late` names the users who
were given access while the request that takes it was under way or later. The
other handlers that stay in the database (`Hire`, `RestoreEmployee`,
`UpdateUser`, `InviteUser`, `UpdateProfile`, `ChangeEmail`) write what the
commit finds and are one step. The three ways to a login (`CreateAccount`,
`LinkNewUser`, `RegisterWithInvite`) are a read, a call (`RemoteCreates`,
`RemoteRefuses`, `RemoteAnswerLost`), a commit (`CommitAccount`, `CommitLogin`,
`CommitInvite`, `CannotCommit`, `CommitFails`, `CommitUnseen` – the refresh
after the commit fails and is taken for the commit) and the compensation
(`Compensate`, `CompensationFails`). `DeleteUser` deletes the identity first and
the row in a second step. The ghosts `stranded` and `halfDone` name the
identities and rows that a fault the code only logs has left behind; the
properties say that nothing else is. Every caller is an administrator, a
username is its e-mail, an invitation does not expire, and passwords, sessions
and the audit log (best effort) are left out; `update_account_status` has no
endpoint.

### Notices

A request queues up to `MaxJobs` jobs (`Handle`) and runs them after the
response: `ReadTemplate`, `QueryRecipients`, `CheckDisabled` when nobody was
found, the fallback with its alert, `LookUp` of the acting user where the type
names one, then `LogPending`, `Send`, `Settle` for one address after another.
Each query has a session of its own, so `SetSetting`, `AddRecipient`,
`UpdateRecipient`, `DeleteRecipient`, `SetTemplate` may happen between any two.
A query that fails is taken for an empty one where the code says so
(`QueryFails`, `CheckFails`), drops the rest of the request where it raises
(`QueryRaises`). `seen` is a ghost: what held at some moment, and all the time,
while the current job resolved its recipients. A type of `Receipt` reads
`user.email`, which no user has, and raises. Requests share only the tables and
the alert rows, so one request with two jobs is the interesting instance. One
administrator owns every setting; the acting user of a task exists; the fallback
address is valid; the WhatsApp path, which `_dispatch` switches off, and the
test mail of a template are left out.

### Teams

A request reads and validates (`Register`, `Place`, `Remove`, `DeleteTeam`,
`DeleteCompetition`) and commits in a later step; `RegisterNotify` and
`PlaceNotify` queue notices after that. Edits (`UpdateTeam`, which checks
nothing, `MoveDate`, `SetStatus`) are one step. `Pay` and `PayReceipt` are the
fee as far as the foreign key of payments matters; amounts are in `Payments`.
`add_team_member_to_existing` raises before it writes and has no action. Ghosts:
`joined`, `warned`, `raced`, `edited`.

### Students

`Register`, `Update`, `SetStatus`, `Toggle`, `SoftDelete`, `Restore`,
`HardDelete` and `Enroll` read; the step named `…Commit` writes back the columns
that changed against the row as it was read (the identity map), except that
`enroll_student` merges a detached student and thereby writes every column
(`Merged`). Some write their log in a further transaction (`Log`). `Leave`,
`DeleteLevel`, `Pay`, `CreateParent` and `DeleteParent` are the one-step
neighbours that a deletion can meet. The ghosts `done`, `touched`, `raced`,
`rewaited`, `torn`, `late`, `undone` name the explanations the properties allow:
for instance a payment is *torn* when two overlapping requests wrote its
student. `delete_student` raises and has no action; the value of a waiting
priority is left out; a payment of an ended enrollment counts as one without
enrollment.

### The pages

The seven `…Pages` modules translate what can be *asked*: one operator per
query, list, profile, report or answer, each with the joins and filters of its
own SQL, over the tables of the module they extend. They add no state; each ends
in one property that relates the operators to each other and to the history
variables, *with the differences the code has*. As in `Statements`, a property
that claimed equality would fail. Where several commits belong together, the
pages are looked at between requests: whatever is committed stays when the
requests in progress are cut off, so those states stand for the others.

* **`SessionPages`**, `SessionPagesAgree`. Lists by group and by level, searches
  by number, the dashboard's day, the list for a third session and the
  completeness of a level agree; a level shows a number once unless a session
  was deleted. Six ways to tell attendance differ by cancelled, unmarked and
  unplanned sessions: the progress page counts cancelled ones, so a student who
  missed no lesson may be "at risk". The daily report counts the attendance of
  sessions that are not completed, the weekly and monthly ones only of completed
  ones; the instructors' table of the month counts a session once per present
  student. The dashboard may show a cancelled session as today's.
* **`GroupPages`**, `PagesAgree`. While no level is cancelled, the level shown
  is the one a progression starts from; afterwards a group may show a completed
  or the cancelled level, and may be stuck: without an active level it has no
  progression and no instructor, and only deleting its last level helps, unless
  the cancelled level is the first. The directory counts students of the current
  level, the dashboard and the courses those of all levels. A student whose
  enrollment was transferred to a level that is then deleted is lost to
  `total_students_ever`, and so is everyone in a course that is not active. The
  performance of instructors leaves out the groups of an employee who has no
  user with that role, the load of instructors has them. The weekly schedule
  counts a group once per student, by day, before and after 17:00. The history
  counts a transferred enrollment only in its total, whatever status it filters
  by. The schedule's utilization adds the capacity once per student.
* **`ReceiptPages`**, `MoneyAgrees` (with `TakingsAgree`). On paper a refund
  looks like a payment, and the badge of a partial payment is never printed; a
  paper asks for money only when its student is on a debtors' list. A batch
  finds exactly the receipts of the daily lists; the search may show voided rows
  which the payment pages answer with 404. `send_receipt` queues its notice
  before it rejects the method. The preview of an overpayment equals the check.
  The audit views, the payrolls and the performance of courses add up to the
  same takings, less refunds, months without payments and groups without an own
  instructor; a course bills an enrollment once per row of payments.
* **`AccountPages`**, `AccountPagesAgree` (with `LinksAgree`). The accounts the
  staff list omits are nobody's or a deleted employee's. An e-mail signs in at
  most one user, and nobody only after a named fault. Every active account gets
  in and can be reset unless its invitation was never used. Username and e-mail
  are one until an edit or a fault.
* **`NoticePages`**, `LogsTellTruth` (with `SentWasAccepted`). Without a fault
  the PENDING rows are exactly the notices being mailed, and every accepted mail
  has a row. A type missing on the settings page never reaches a registered
  recipient. Of the delivered templates only the absence alert keeps a blank, a
  fact of constants that is proved (*TemplatesAreFilled*) and not model-checked.
* **`TeamPages`**, `TeamPagesAgree`. The lists of teams agree, but a user who is
  linked to no employee is listed all teams of a competition and may open none;
  a registration can be asked for a subcategory the categories page does not
  offer. The summary counts memberships, so a student in two teams twice; the
  log of a fee may name any of the student's teams.
* **`StudentPages`**, `StudentPagesAgree`. The total beside the list of students
  counts only the active ones; the summary counts who waits among the inactive;
  a report's `active_students` are enrollments, those of deleted students among
  them. A profile shows deleted siblings, the discount does not. A payment that
  a restore revives after its level was deleted belongs to no enrollment.
  Parents and payments of a deleted student are answered, its details are not;
  the plain delete answers "deleted" exactly for ids that cannot be opened.

## 3. The runs

State counts are those of one run each; all finish in under three minutes.
Symmetry is used where requests, students or templates are interchangeable and
no liveness is checked.

| run | instance | states | checks |
|---|---|---|---|
| `delivery_faults` | 2 triggers, 2 recipients (one possibly listed twice), any 2 faults | 264,650 | SENT is truthful; a repeat needs an abandoned claim |
| `delivery_prompt` | 2 reports, 2 triggers, 1 recipient possibly listed twice, 1 fault that is not a slow send, fairness | 79,228 | honest answers, refinement of `Delivery` (with it SENT is final), every recipient in the end |
| `delivery_overlap` | a slow send | violated | "can never both send" |
| `payments_overlap` | 2 requests that overlap once or 1 of which is cut off, 2 enrollments on levels of their own, 1 member, 3 rows, prices 0 and 2, levels deleted | 853,506 | refunds fit, fees covered and credit consented but for what overlapped; payers stay, debts agree, money agrees |
| `sessions_sequential` | 3 sessions, 5 rows, 1 mark, one numbering request at a time, deletes, patches and marks in between | 2,049,276 | numbers distinct, in order, gaps only by deletes; lessons kept; pages agree |
| `groups_sequential` | 2 groups that differ in course, instructor, day part and capacity, 2 students, 3 levels, 3 enrollments | 775,761 | levels exist, leavers stay out, undo restores, pages agree |
| `tasks_oneloop` | 1 process, 2 templates, 4 days (one without midnight), 2 faults, 1 change of pattern | 4,805,735 | one child a day, no owed child lost, intervals kept |
| `accounts_saga` | 1 employee, 3 users, 3 identities and e-mails, 2 requests at Supabase or on the employee, 1 fault or edit | 993,285 | identities and rows match, links and pages agree, access follows the employee but for late commits |
| `notices_edits` | 1 request of any of 5 types with up to 2 jobs, 2 addresses, 1 edit, 1 fault, fairness | 382,955 | the logs tell the truth, the right people are told, none twice, every job ends |
| `notices_dropped` | a receipt's notice, no fault needed | violated | no job is dropped |
| `teams_requests` | 2 of 4 requests at a time, 2 teams, 2 students, 2 names, with and without subcategory | 1,299,811 | payments keep their members, notices are true, duplicates and name clashes are warned of or explained, pages agree |
| `students_requests` | 2 of 4 requests at a time, 2 students (one without a date of birth), 1 parent, 1 payment | 997,861 | nothing left behind, duplicates explained, payments follow students, the log is true, pages agree |

**Why the bounds suffice.** *Delivery*: a fault is what makes another row of a
key possible, so `MaxFaults + 1` attempts per key are never exhausted; two
overlapping requests are the smallest race on one row, two recipients (and one
listed twice) exercise the loop and partial outcomes. *Payments*: three rows
hold a payment, a refund of it and another payment, which is what a query can
count twice, leave out or subtract; receipts, fees and refunds of 1 each against
a price of 2, or none, reach partial, exact and excess payment, a second refund
of one row and a credit left by a lower price; requests overlap only when they
go by the same row or account, once, and after that nothing is deleted or cut
off (`OneRace`: requests that share nothing are told apart by no property, and a
second race would except a second row); one enrollment is active and one
completed, on two levels, so each filter on status or level separates them; two
days and two methods split the rows. *Sessions*: three sessions have a first, a
middle and a last one to cancel, and two more rows allow a replacement and an
extra session or a second replacement. *Groups*: three levels allow a
progression to be undone on top of another; two students tell who moved from who
left; three rows hold both students and one of them after a move; the second
group stays at its first level, and the first has a third level only while
nobody is in the second (`OneLevel`): it is there to be transferred to and to be
counted beside the first, with an inactive course, an instructor without a user
and an evening. *Tasks*: four days hold two intervals of 2 and a weekly, a
monthly and a midnight-less day. *Accounts*: two requests race for one employee,
one e-mail or one invitation, or one updates the employee whom the other gives
an account; a third user is the administrator who deletes, and stays one
(`RootStays`); one event is one refusal, lost answer, failed commit or crash,
and each explanation in the properties needs just one. *Notices*: the second job
shows what the first one's failure does to it, the second address what the first
address's does. *Teams* and *Students*: two requests are the race, four in
sequence let a deleted or renamed row be met again. `CHECK_DEADLOCK FALSE` is
set where the bounds, not the code, end a behaviour (rows, marks, days and
faults run out); the delivery runs check for deadlock.

**Requests one at a time.** `sessions_sequential` and `groups_sequential` have
one request in `Request`. That is a precondition of what they check, stated in
the comments: with two requests the numbering of sessions and the level
bookkeeping lose their guarantees, because nothing in the database stands behind
them (section 5). What is one step in the code – prices, deletes, marks, drops,
level deletions – does happen between the steps of that request. The models are
written for any number of requests, and `Payments`, `Accounts`, `Teams`,
`Students` and `ReportDelivery` are checked with two.

**Fairness.** `delivery_prompt`: `WF(Step(q))`, the event loop runs a started
request and the mail server ends each send; `WF(Age(i))`, time passes;
`SF(Start)` per report, somebody keeps triggering the report. The last is not
something the code does: pg_cron calls each period once, and a failed period is
retried by an operator with `target_date`. `EventuallyDelivered` thus reads: *as
long as the report keeps being triggered*, no order of claims, expiries, crashes
and conflicts keeps a recipient from being reached. `notices_edits`: `WF` of
each request's jobs and of the alert tasks, that is, the event loop runs every
task that can go on and the SMTP server ends each conversation. `JobsEnd` needs
no more: no loop retries, and no failure of one job leaves another waiting.

## 4. The proofs

Checked by `tlapm` to the last leaf, for every value of the constants that
satisfies the named assumptions of the modules. Where a theorem needs more than
those, it says so in a hypothesis, and the hypothesis is named below.

**`ReportDeliveryProofs`.** Type correctness, the safety properties of
`delivery_faults` and exclusive senders, and, when no send outlasts its claim,
finality of SENT and the refinement of `Delivery` step by step. The argument:
the row a request sends for is its own (`OneHolder`), exists, and is PENDING
until it is expired (`RowsInHand`); the index keeps at most one live row per key
(`LiveUnique`); a claim whose send succeeded stays live until it is expired
(`AcceptedIsLive`). None of the safety properties is inductive alone: `MarkSent`
writes SENT whatever the row says, and only `RowsInHand` knows that its message
was accepted; a second accepted message is impossible without an expiry because
the first row still holds the index. `AgedIsAbandoned` is what the absence of
slow sends adds, namely that an aged row is in nobody's hands. `SentIsFinal`
follows, and with it the map of each step to `Claim`, `Mail`, `Confirm`,
`Reopen` or a stutter. *DeliveredIsTrue*: an answer reports as delivered only
what was. The invariant `Served` says that as long as a loop has counted neither
a failure nor a skip, whoever it has passed has a SENT row; it needs that SENT
is final, hence no slow send, since a late `MarkFailed` would otherwise take
back what another request has counted.

**`PaymentsProofs`.** *PayersAreKept*: for any number of concurrent requests,
rows and crashes, a member with a payment is never removed. The invariant is
`Typed` and `Anchored`: what an account has received has a row, and members with
a row are on the roster; `RemoveMember` and `DeleteTeam` meet the foreign key.
*RefundsFit*, without hypotheses: the refunds of a row exceed it only if two of
them overlapped, one committing while the other went by the SUM it had read. The
strengthening `Reserved` says that what a request has checked still fits when it
commits, unless its row was raced: a commit by a second request that goes by the
same row puts the row among the raced, and no other step changes its SUM.

*FeesStayCovered*: what a member is recorded to have paid is covered by rows of
payments. A receipt adds a line to each of its accounts by a sum over a
sequence; the sum is taken apart by induction through the set of the lengths for
which the claim holds. `Balanced` says that what an account has received less
what was returned is what refunds may still take from its payments, `Marked` and
`Current` that `amount_paid` of a member who was not raced lags behind by
exactly the fee a request has committed and not recorded, or by more only after
a crash; `Tracked` that with a raced row its member is raced. Its hypotheses:
refunds of payments and not of refunds (`PaymentsOnly`; the code lets a refund
be refunded, which breaks the balance), receipts for enrollments
(`ReceiptsEnroll`: a competition line through `POST /finance/receipts` is not
linked to a member, section 5). *NoCreditUnasked*: an enrollment has credit only
if a receipt was told to accept it, its price went down later, or two of its
receipts overlapped. `Allowed` and `Ordered` keep, between check and commit,
what the check has established, for the accounts that were not raced. Its
hypotheses: no enrollment on two lines of one receipt (`OneLineEach`: each line
passes the check by itself), no price below zero (`PricesArePositive`: a
discount beyond the amount due is a credit by itself).

*DebtsAreOne* and *MoneyAddsUp* prove `DebtsAgree` and `MoneyAgrees`. Behind
both stands the invariant `Books`, which needs no hypothesis: what an account
received and what was returned are the sums of its rows (`Kept`), prices are
prices and a fee that a request has read is a number (`Priced`), a voided row
belongs to a deleted enrollment (`VoidedAreGone`), and a row of a deleted
enrollment that is not voided is a late refund (`LateAreRefunds`). `Ledger` is
what the queries need of it. From there the argument is about sums: `SumAdds`,
`SumOfParts`, and `SumByValue`, which says that a `GROUP BY` loses nothing,
because the units of the rows are in bijection with those of the groups. What
needs no more than `Ledger` and `Books` is proved without any hypothesis on
requests: *UnpaidListsAreOne*, that the lists are one list and rosters and
statements differ from it only as stated; *TakingsStayOne*, that the takings,
the papers, the pages of payments and the assessments agree. *DebtsAreOne* adds
the revenue of the groups, under `PricesArePositive`: a price counted once per
row is an overstatement only if it is not negative. *MoneyAddsUp* adds the costs
and the trend, again without hypotheses: a trend is told "down" of an empty
month only where the month before took something in.

**`SessionScheduleProofs`.** With one numbering request at a time (`OneAtATime`)
and patches between held statuses only (`HeldPatches`), for any number of
sessions: numbers are distinct, cancelled sessions have 0, no step swaps two
sessions, only a delete lowers the number of lessons. The invariant adds to the
two state properties what a request holds: its subject is a session
(`Subjects`), and what it means to write still fits the table when it commits
although deletes, marks and patches came in between (`Pending`: `ExtraFits`,
`LoadFits`, `CancelFits`, `ReactivateFits`). *NoGapWithoutDeletes*: as long as
nothing was deleted the sessions are numbered 1 to n. The strengthening `Dense`
says that below a used number every number is used, and that the number an extra
session is about to take follows a used one; a reactivation either found nothing
to remove or deletes a session. Distinct, dense and finite give 1 to n by
counting. *PagesStayInAgreement* proves `SessionPagesAgree`: `BInv` adds that no
number exceeds the rows ever inserted and that a level keeps its planned
sessions unless one was deleted, and the parts follow by lemmas on cardinality:
each report divides the marks of the same sessions into disjoint pieces, and the
table of instructors is a product of sessions and marks.

**`GroupsAndTasksProofs`, on groups.** *GroupTypesCorrect*: the types, for any
number of requests at once and any strides. The model's `TypeOK` says little of
what a request holds; `GInv` adds it (`Holds`: what it has read are a student,
groups, levels and rows of the table, where a deleted row keeps its place).
*LeaversAreOut*: with one request at a time (`OneAtATime`) nobody who was
dropped or transferred is enrolled by a progression or by its undoing, whatever
levels are skipped. It is not inductive by itself, because the migration
completes the rows it has loaded whatever they have become; `Loaded` says that
they are still active.

Three theorems take `OneAtATime` and levels that are not skipped (`NoSkips`),
and one invariant, `GroupsInv`. Its part `Contiguous` says that the levels of a
group are 1 to n, n active or cancelled, and that the group and its rows stand
at one of them, at n if n is active (`Stands`). This makes `LevelsExist`
inductive: a deletion takes level n away and sends the group to n − 1, and only
contiguity knows that n − 1 is there; a cancelled level falls back to one below;
no row completed *at* n may exist, or its completion would outlive the undoing.
`InHand` says that a request that has read still finds what it has read,
`Sourced` that an enrollment comes from an older one of the same student,
`UniqueIndex` that the index holds, and `Remembered` that the ghost is either
what a progression found and has not changed yet, or exactly what deleting level
n would leave (`Undo`). *LevelsAreThere* and *UndoIsExact* follow from it: the
undone level is the last one, and the rows that its deletion revives are those
the progression completed, because nothing at level n − 1 was completed before.

*PagesAreOne* proves `PagesAgree`, part by part, from `GroupsInv`. Levels 1 to n
tell which answer each request gets (`RequestsAgree`) and which level is shown
(`ShownLevels`). The counts are sums of groups, levels, courses, instructors and
slots. The performance of instructors and the counts of courses are compared
with all enrollments by naming the rest: groups of an employee without a user,
courses not active. `Sum` counts pairs, so that nothing has to be summed
recursively, and *CountedByValue* says that elements counted by the value of a
function are as many as there are; *GroupsAddUp* applies it to whatever a group
is counted under. A student is lost to `total_students_ever` only if the row a
transfer made is gone: `Sourced` puts the successor of a row after it, and of a
student's finitely many rows one is the last. The tables are assumed finite and
capacities positive (`PagesAssumption`). *CountsStayOne* keeps what of this
needs no hypothesis on requests: however many overlap and whatever levels they
skip, nobody is enrolled twice in a group, the lists are whole, and the counts
of groups, courses, instructors, slots and the dashboard agree. It needs only
`RowsInv`, that is `GInv`, `Sourced` and the unique index. What is lost without
the hypotheses is whatever looks for a level. They cannot be dropped: with two
requests, or with a stride of two, TLC finds `LevelsExist` violated in a group
of two students and three enrollments, and with two requests `LeaversStayOut`
too (a drop between `ProgressLoad` and `ProgressCommit`).

**`GroupsAndTasksProofs`, on tasks.** The two components share a module of
proofs and no state; the names of `RecurringTasks` are prefixed (`TasksInit`,
`TasksSpec`) so that both can be extended. Types, for any number of processes.
*OneChildPerDay*: with one process (`OneLoop`) no template has two children of
one date, whatever the crashes, restarts and retries. The strengthening
`SpawnerIsFresh`: what a spawner is about to insert is not there yet, and its
day is the present day. `Commit` keeps it only because no other spawner has read
before. *NoChildIsLost*: a day that passed with a loop running and unharmed
since before it left the child it owed. The invariant says, for a loop in every
stage of the window, what its spawner has still to do (`SpawnerPays`,
`NotedIsPaid`, `LookedIsNoted`); that there is a newest child to count the
interval from is by well-foundedness. *IntervalIsKept*: two children of one
template are at least its interval apart.

**`AccountsProofs`.** For any number of requests, employees and faults:
identities and rows match but for the traces named, links agree, access follows
the employee. *StaffAccess* has no hypotheses. It rests on `Watched`: of the
employee a pending request will deactivate or delete, an active login is the one
the request has read, which its commit blocks, or it came in since and is in
`late`; without it the commit could leave behind a login nobody had noticed. The
invariant also says who holds a uid: no two rows share one (`RowUids`), and none
is in the hands of a request about to commit (`CommitUids`), to compensate
(`CompensateUids`) or to delete (`DeleteUids`) except as these steps account
for. Without `CompensateUids` a compensation could delete the identity of a row
that another request has just committed. *PagesAlwaysAgree* adds `PInv`: an
e-mail has at most one identity, the row of an employee outlives the accounts
that name it, and names equal e-mails until somebody edits or a fault happens.

**`NoticesProofs`.** SENT is truthful, the right people are told, no notice is
mailed twice. The invariant: where a job stands (`AtWork`), that what it is
mailing has not been accepted unless it is being settled (`Mailing`), and that
the window it keeps is about the present tables (`Windows`: who is in `todo` was
eligible at some moment of it, and who was eligible all the time is in `todo` or
has been tried). *LogIsTrue* adds `Rows` (without a fault a PENDING row is in
the hands of the request that wrote it, and what was accepted has a row) and
`Unlisted` (a type without a setting resolves to the fallback alone).

**`TeamsProofs`.** No orphans, payments keep their members, notices are true,
for any number of requests. The invariant: serial ids are never reused
(`SerialIds`), a request that still has to notify carries what was committed
(`CarriedIsCommitted`), and members are among those who joined.
*DuplicatesStayWarned* and *NameClashesStayExplained* rest on `Foreseen`: a
registration between its read and its insert knows, by what it read, by a
warning or by having overlapped, of every team that shares a student or the name
with what it is about to insert; no other step adds a team.
*PagesStayInAgreement* proves `TeamPagesAgree` for any finite set of students
(`IsFiniteSet(Student)`): the lists are the rosters, the summary is in bijection
with the teams, and more memberships than members mean that two teams share a
student, which `DuplicatesAreWarned` explains.

**`StudentsProofs`.** Four properties of the run and `EnrolledDoNotWait`
(whoever is enrolled has left the waiting list unless put back), for any number
of requests, students and payments. Beyond types and serial ids the invariant
says what a request knows that it has not written yet: a registration knows each
live namesake or will record the race (`RegistrationsKnow`), what a request read
is the present row or it is marked stale (`FreshRequests`), a student read as
active waits only if put back meanwhile (`ReadersKnow`), an entry waiting to be
logged is of something done (`ToLog`). *PagesStayInAgreement* proves
`StudentPagesAgree`, assuming of the constants that groups are finitely many and
that the value for *not found* is none of the other answers. A total is compared
with the lists it sums by counting: elements counted by the value of a function
are as many as there are (*CountedByValue*, a bijection built from one for each
value). Where an active payment may be an orphan it takes `UndoneAreUnlinked`:
what was voided with its level has been taken off the enrollment.

**Induction over data.** The library's induction theorems take an operator as a
parameter and cannot be used. What replaces them here is induction through a
set: the least element of the set of counterexamples (`WFMin` of
`WellFoundedInduction`), or a subset of the numbers that contains 0 and the
successor of each member. It works for functions that are recursive over the
numbers; it does not for `MapThenSumSet`, whose summand is an operator. The
modules that are proved about sum by counting pairs instead, which needs no
induction.

**Only model-checked.** Liveness (`EventuallyDelivered`, `JobsEnd`) is outside
the prover's reach; every other property of a passing run is stated by a
theorem. Where a theorem has hypotheses, the run makes them true by its
constants. `TeamsHaveCompetitions`, `LinksAgree` and `CancelledIsZero`, on the
other hand, are proved and appear in runs only as parts of other properties or
not at all.

## 5. Disagreements with the docs and comments

Two are runs that TLC finds violated (`findings` in `PROJECT.json` has the
quotations):

1. `db/migrations/081…sql:9`: two overlapping triggers "can never both send".
   A send slower than 15 minutes loses its claim to the second one.
2. `payment_notifications.py:206`: "Send to all enabled recipients". The job
   raises on `user.email` (`:132`) before it mails anybody, and drops the jobs
   behind it; `task_notifications.py:116,173,252` read the same attribute.

Read in the code while modelling:

* *Sessions.* `sessions_router.py:119`: reactivation "removes the replacement
  session"; it removes the one with the largest number
  (`session/service.py:237-242`). Two overlapping `add_extra_session` requests
  take the same number; two cancellations of one session make two replacements;
  reactivation turns absences into presences (`:279`). The substitute endpoint
  calls a method that does not exist; `generate_level_sessions` never commits.
* *Money.* `refund_service.py:27` ("Validating refund amounts don't exceed
  original"), `specs/034…/spec.md:115`: refunds exceeding the original are
  blocked; two at the same time are not, because the SUM is read at `:59`
  without a lock. In the model that row is in `raced`, and only such a row is
  exceeded. A refund row, or a payment voided with its level, can itself be
  refunded. Two lines of one receipt for the same enrollment each pass the
  overpayment check. `team_service.py:684,744`: "single atomic transaction";
  there are two commits. `teams_router.py:333`: a fee refund "decreases
  amount_paid"; it raises (`refund_service.py:143-148`). Two overlapping fee
  payments lose one increment of `amount_paid`. A competition line through `POST
  /finance/receipts` is not linked to its member (`receipt_service.py:112`).
  `enrollments_router.py:152`: a discount "is added to existing
  discount_applied"; it replaces it (`enrollments/core/repository.py:45`).
* *Statements.* Rosters count refunds as payments
  (`dashboard_repository.py:294`, `enrollments/analytics/repository.py:26`,
  `group/analytics/repository.py:340`); the CRM's summary and
  `v_bi_payment_completeness` ignore refunds; the finance views per group and
  course and the payments tab count a price once per payment
  (`075…sql:63,147,455`, `group/details/service.py:374`); the weekly and monthly
  report "exclude voided payments", the daily report, the analytics and the
  monthly report's matrix of courses count them; the preview of tomorrow and the
  list of the third session multiply a debt by the sessions that match. The
  unpaid list's `remaining_balance` is documented "< 0" and positive. A refund's
  answer has no `new_balance` when it is exactly 0.
* *Levels.* `specs/037…/spec.md:55`: undo restores the students; not after a
  progression that skips a level (`lifecycle/service.py:514`). `delete_level`
  deletes a level with payments and attendance, which
  `group_details_router.py:63,69` and `tests/test_group_levels.py:109,141` say
  is refused; the model deletes it (`DeleteAnswer`, `Cascade`), which is what
  the code does. `update_group` can set a level number without a level. Grouping
  the groups by status shows only active ones; the payments of an enrollment's
  history count voided rows and leave refunds in
  (`group/analytics/repository.py:217-228`).
* *Tasks.* `specs/038…/spec.md` FR-004 asks that no template spawns twice on a
  day; with two processes nothing prevents it. SC-003 asks for the child on the
  target date; on the day the clocks skip 00:00–01:00 there is none. The spec
  names midnight UTC and APScheduler, the code 00:05 Cairo and a loop of its
  own.
* *Accounts.* Deleting an employee blocks the login that `employees.user_id`
  names; a login made through `POST /auth/users` does not write that column and
  stays active (`auth_service.py:296`, `employee_crud_service.py:110,126`), so
  that "their logins are blocked" (`staff_account_repository.py:63`) is not true
  of it. "FR-011: deactivating an employee blocks their linked login"
  (`employee_crud_service.py:76`) holds for the login that was linked when the
  request read the employee: an account committed between that reading and the
  commit, or after it, stays active (`late`; `staff_account_repository.py:52`
  looks at the employee no more). An inactive user still gets tokens at login.
  The list of employees takes an offset and a limit without an order.
* *Notices.* Migration 078 inserts templates with a column `code` which
  `notification_templates` does not have, so no template of a task notice is
  delivered. The test of a template counts every recipient as sent. The page of
  a parent's log is always empty. `task_notifications.py:203` compares the id of
  an employee with that of a user when it decides whom to skip.
* *Task pages.* A task with a subtask makes `GET` and `PATCH /tasks/{id}` answer
  500, because the subtasks are rows and not objects; an edit that overlaps a
  deletion answers 404 and is saved; a reassignment by `PATCH` tells nobody.
* *Teams.* "One student can only be in one team per competition"
  (`team_service.py:93`, `teams_router.py:80,232`) only yields a warning; "Team
  name must be unique within the competition" (`teams_router.py:82`) is checked
  per category and subcategory. Adding a member to an existing team raises on
  `s.is_active` (`team_service.py:591`; `tests/test_competitions_full.py:342` is
  an expected failure). The fee summary of a competition
  (`competition_repository.py:12-35`) reads tables that migration 036 dropped.
* *Students.* Toggling the status "between active and waiting"
  (`students_router.py:364`) goes between active and inactive. `delete_student`
  raises `AttributeError`. The history ignores its `activity_types` and `offset`
  (`students_history_router.py:47,51`), and a filter by types of activity
  without a least or greatest count filters nothing
  (`search_service.py:499-502`). A waiting priority can be set for a student who
  does not wait, though the text of the 404 says otherwise.

## 6. What is not modelled

Left out for good: formatting of PDFs, mails and receipts, routing, logging,
metrics, migrations and scripts, which keep no state of their own or run by
hand; of lists and statistics the paging, sorting, ranking, percentages, ages,
cohorts by month and forecasts. Statistics across groups are reduced to the
groups of the instance.

Left out of modelled components: dates, times and instructors of sessions;
receipt numbers; price and course of a level; a price cleared to NULL; a receipt
that commits between the voiding and the deletion inside `delete_level`
(`DeleteLevel` is one step); subtasks, comments and time logs of tasks;
`add_level_to_existing_group` (no endpoint), `update_level`, manual edits of a
group's level number; roles and sessions of logins; the WhatsApp channel.

Hazards known and not covered by a property, in `hazards` of `PROJECT.json` with
a note, or left out of it for their number: the concurrent numbering of sessions
(`session/service.py:101,171`), which session a reactivation removes (`:242`),
where it puts the reactivated one (`:252`) and the presences it makes (`:279`),
a retried receipt whose log failed (`receipt_service.py:136`), a refund of a
refund, an undo after a skipped level (`lifecycle/service.py:514`) or one that
meets a new enrollment (`:523`), two concurrent transfers of one enrollment and
an enrolling that overlaps a progression (`enrollments/core/service.py:251,66`),
the first date of an interval template created after midnight
(`tasks/service.py:332`), a login that `employees.user_id` does not name
(`employee_crud_service.py:126`), a failed query for recipients
(`base_notification_service.py:149`). For each of them the code gives no
guarantee that could be stated, or it is the precondition *one request at a
time* or *no skipped level* of a run.

## 7. The plan

Written so far, in this order, the most consequential behaviour first:
`Delivery` and `ReportDelivery`; `SessionSchedule`; `Payments`; `GroupLevels`;
`RecurringTasks`; `Accounts`; `Notices`; `Teams`; `Students`; `Statements`; the
seven `…Pages`; and the proofs of all of them. The map names 30 % of the
implementation's lines.

Next:

1. `GroupLevels` with two requests, transfers across groups against
   progressions: what its properties become when overlaps are named, as in
   `Payments`.
2. Composition of levels with sessions and attendance: what `delete_level`
   removes, and who may be marked present.
3. The status, subtasks and comments of tasks as a component; the test mail of a
   template and the manual entries of the activity log as actions.
4. `Statements` with deleted students, so that its lists meet the soft delete of
   `Students`.

## 8. How to run it

    tlc -workers 2 -config ReportDelivery_faults.cfg MCReportDelivery
    tlapm ReportDeliveryProofs.tla

and likewise for the other runs, whose modules and configurations are listed in
`PROJECT.json` together with the map from definitions to source lines, the
hazards, the findings and the theorems.
