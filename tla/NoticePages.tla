----------------------------- MODULE NoticePages -----------------------------
(***************************************************************************)
(* What administrators see of the notices of Notices (the settings, the    *)
(* recipients, the logs, the test of a template), and what each job fills  *)
(* into the template it mails.  Operators over the state; none is added.   *)
(***************************************************************************)
EXTENDS Notices

(***************************************************************************)
(* Settings and recipients: admin_settings_router.py.                      *)
(***************************************************************************)

(* The page of settings: the rows there are.  An empty table is filled with *)
(* Defaults first; rows are never deleted, so this happens once.            *)
Defaults ==
  {"enrollment_created", "enrollment_dropped", "enrollment_transferred", "payment_received",
   "daily_report", "weekly_report", "monthly_report", "competition_team_registration",
   "competition_fee_payment", "competition_placement", "admin_login_alert"}

GetAdminSettings == {k \in Kind : setting[k] # "none"}
SettingsPage == [k \in GetAdminSettings |-> setting[k] = "on"]

(* One setting: a type without a row is not found. *)
GetSetting(k) == IF k \in GetAdminSettings THEN setting[k] ELSE "404"

GetAdditionalRecipients == {a \in Address : recipient[a] # "absent"}
GetRecipient(a) ==
  IF a \in GetAdditionalRecipients
  THEN [active |-> recipient[a] = "active", types |-> wants[a]]
  ELSE [active |-> FALSE, types |-> {}]
RecipientsPage == [a \in GetAdditionalRecipients |-> GetRecipient(a)]

(* The test of a template is mailed to every active recipient, whatever the *)
(* setting, the types wanted and the form of the address.  Its failures are *)
(* swallowed by _dispatch: the answer counts every one of them as sent.     *)
Tested == {a \in DOMAIN RecipientsPage : RecipientsPage[a].active}
TestResult == [sent |-> Cardinality(Tested), failed |-> 0]

(***************************************************************************)
(* The log pages: notifications_router.py.  A row has the template it was   *)
(* made from, that of an alert has none.                                   *)
(***************************************************************************)
LogRows == {n \in Notice : log[n] # "none"}

GetLogs(status, k) == {n \in LogRows : log[n] = status /\ kind[n.req] = k}
CountLogs(status, k) == Cardinality({n \in LogRows : log[n] = status /\ kind[n.req] = k})
LogsPage(status, k) == [rows |-> GetLogs(status, k), total |-> CountLogs(status, k)]

(* The logs of a parent: every notice is addressed to "EMPLOYEE" or         *)
(* "ADDITIONAL", whoever it is about.                                       *)
RecipientType(n) == "EMPLOYEE"
ParentLogs == {n \in LogRows : RecipientType(n) = "PARENT"}

(***************************************************************************)
(* What a job mails: its template, the type it resolves recipients for     *)
(* ("" when it writes to the employee only), what it fills in, and whether *)
(* it reads user.email of a user it names.                                 *)
(***************************************************************************)
Performed == {"parent_name", "student_name", "course_name", "instructor_name",
              "admin_name", "admin_email", "date", "time"}
OnEnrollment == Performed \cup {"group_name", "enrollment_id"}
OnTeam == {"parent_name", "student_name", "team_name", "competition_name"}

EnrollmentCreated ==
  [template |-> "enrollment_confirmation", type |-> "enrollment_created", names_user |-> FALSE,
   fills |-> OnEnrollment \cup {"level_number", "schedule", "enrollment_date"}]
EnrollmentUpdated ==
  [template |-> "enrollment_updated", type |-> "enrollment_updated", names_user |-> FALSE,
   fills |-> OnEnrollment \cup {"changes_summary"}]
EnrollmentCompleted ==
  [template |-> "enrollment_completed", type |-> "enrollment_completed", names_user |-> FALSE,
   fills |-> OnEnrollment \cup {"level_number", "completion_date"}]
EnrollmentDropped ==
  [template |-> "enrollment_dropped", type |-> "enrollment_dropped", names_user |-> FALSE,
   fills |-> OnEnrollment \cup {"reason"}]
EnrollmentTransferred ==
  [template |-> "enrollment_transferred", type |-> "enrollment_transferred", names_user |-> FALSE,
   fills |-> Performed \cup {"from_group_name", "to_group_name", "from_enrollment_id",
                             "to_enrollment_id"}]
LevelProgression ==
  [template |-> "level_progression", type |-> "level_progression", names_user |-> FALSE,
   fills |-> OnEnrollment \cup {"old_level", "new_level"}]
TeamRegistration ==
  [template |-> "competition_team_registration", type |-> "competition_team_registration",
   names_user |-> FALSE, fills |-> OnTeam \cup {"category"}]
FeePayment ==
  [template |-> "competition_fee_payment", type |-> "competition_fee_payment",
   names_user |-> FALSE, fills |-> OnTeam \cup {"amount", "receipt_number"}]
Placement ==
  [template |-> "competition_placement", type |-> "competition_placement",
   names_user |-> FALSE, fills |-> OnTeam \cup {"placement_rank", "placement_label", "rank_display"}]
PaymentReceived ==
  [template |-> "payment_receipt", type |-> "payment_received", names_user |-> TRUE,
   fills |-> {"parent_name", "student_name", "amount", "receipt_number", "receipt_id",
              "group_name", "instructor_name", "payment_date", "payment_time", "payment_method",
              "location", "device", "processed_by", "processed_role", "transaction_ref",
              "balance_remaining", "item_count"}]
PaymentReminder ==
  [template |-> "payment_reminder", type |-> "payment_reminder", names_user |-> FALSE,
   fills |-> {"parent_name", "student_name", "amount_due", "due_date"}]
AdminLogin ==
  [template |-> "admin_login_alert", type |-> "admin_login_alert", names_user |-> FALSE,
   fills |-> {"username", "email", "role", "time", "ip_address", "user_agent", "alert_reason"}]
Absence ==
  [template |-> "absence_alert", type |-> "absence_alert", names_user |-> FALSE,
   fills |-> {"student_name", "session_name", "session_date", "date", "time"}]
TaskAssigned ==
  [template |-> "task_assigned", type |-> "", names_user |-> TRUE,
   fills |-> {"employee_name", "task_title", "task_priority", "due_date", "assigned_by_name",
              "task_description"}]
TaskStatusChanged ==
  [template |-> "task_status_changed", type |-> "task_status_changed", names_user |-> TRUE,
   fills |-> {"task_title", "employee_name", "old_status", "new_status", "changed_by_name",
              "changed_at"}]
TaskCommentAdded ==
  [template |-> "task_comment_added", type |-> "", names_user |-> TRUE,
   fills |-> {"task_title", "employee_name", "author_name", "comment_content", "commented_at"}]
TaskDueReminder ==
  [template |-> "task_due_reminder", type |-> "", names_user |-> FALSE,
   fills |-> {"employee_name", "task_title", "task_priority", "task_status", "due_date",
              "days_until_due"}]

Announcements ==
  {EnrollmentCreated, EnrollmentUpdated, EnrollmentCompleted, EnrollmentDropped,
   EnrollmentTransferred, LevelProgression, TeamRegistration, FeePayment, Placement,
   PaymentReceived, PaymentReminder, AdminLogin, Absence, TaskAssigned, TaskStatusChanged,
   TaskCommentAdded, TaskDueReminder}

(* The placeholders in subject and body of the templates as delivered; a    *)
(* task notice has no template of its name there.                           *)
Asks ==
  [enrollment_confirmation |-> OnEnrollment \cup {"level_number"},
   enrollment_updated |-> OnEnrollment \cup {"changes_summary"},
   enrollment_completed |-> OnEnrollment \cup {"level_number", "completion_date"},
   enrollment_dropped |-> OnEnrollment \cup {"reason"},
   enrollment_transferred |->
     Performed \cup {"from_group_name", "to_group_name", "from_enrollment_id", "to_enrollment_id"},
   level_progression |-> OnEnrollment \cup {"old_level", "new_level"},
   competition_team_registration |-> (OnTeam \ {"parent_name"}) \cup {"category"},
   competition_fee_payment |-> (OnTeam \ {"parent_name"}) \cup {"amount", "receipt_number"},
   competition_placement |-> (OnTeam \ {"parent_name"}) \cup {"rank_display"},
   payment_receipt |-> {"parent_name", "student_name", "amount", "group_name", "instructor_name",
                        "payment_date", "payment_method", "receipt_number"},
   payment_reminder |-> {"parent_name", "student_name", "amount_due", "due_date"},
   admin_login_alert |-> {"username", "email", "role", "time", "ip_address", "user_agent",
                          "alert_reason"},
   absence_alert |-> {"parent_name", "student_name", "session_name", "session_date"}]

(* _render_template replaces what the job fills in: the rest stays as it is. *)
RenderTemplate(a) == Asks[a.template] \ a.fills

(***************************************************************************)
(* Properties.                                                             *)
(***************************************************************************)

(* Unless a query failed or the process ended, the rows a log page shows as  *)
(* PENDING are exactly the notices being mailed at the moment: no request    *)
(* leaves one behind (base_notification_service.py:385-406).                 *)
PendingIsUnderWay ==
  faults = 0 =>
    \A k \in Kind :
      GetLogs("PENDING", k) =
        {This(q) : q \in {r \in Request : kind[r] = k /\ pc[r] \in {"send", "settle"}}}

(* Unless a query failed, the log names whatever the SMTP server has taken.  *)
MailsAreLogged == faults = 0 => mails \subseteq LogRows

(* A type the page of settings does not show has never reached a registered  *)
(* recipient, even one registered for every type: only the fallback is told. *)
UnlistedReachNobody ==
  \A n \in tried : GetSetting(kind[n.req]) = "404" => n.to = Fallback

(* As delivered, one mail arrives with a blank: the absence alert is         *)
(* addressed to a {{parent_name}} nobody fills in.  A fact of the templates  *)
(* and the services, in no state another: it is proved, not model-checked.   *)
OneBlankIsLeft ==
  \A a \in Announcements :
    a.template \in DOMAIN Asks =>
      RenderTemplate(a) = IF a = Absence THEN {"parent_name"} ELSE {}

(* What administrators read of the notices is what became of them.           *)
LogsTellTruth ==
  SentWasAccepted /\ PendingIsUnderWay /\ MailsAreLogged /\ UnlistedReachNobody
=============================================================================
