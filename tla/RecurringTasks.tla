--------------------------- MODULE RecurringTasks ---------------------------
(***************************************************************************)
(* The recurring tasks: the loop every server process starts with          *)
(* (scheduler.py, started by the lifespan of app/api/main.py) and the      *)
(* spawner it calls once a day (TaskService.spawn_recurring_tasks), beside *)
(* the requests that create, change and delete templates.                  *)
(*                                                                         *)
(* The loop looks at the clock every minute and spawns between 00:05 and   *)
(* 00:09 in Cairo, once per day by a date it keeps in memory.  A day of    *)
(* the model is that window and then the rest of the day.  The spawner is  *)
(* one transaction: it reads, and later commits every child or none.       *)
(***************************************************************************)
EXTENDS Integers, FiniteSets, FiniteSetsExt

CONSTANTS
  Process,     \* server processes, each with a loop of its own
  Template,    \* tasks made by hand, which may be templates
  Calendar,    \* the days on which a weekly and a monthly template are due
  Interval,    \* recurrence_interval_days of the templates
  NoMidnight,  \* days without a 00:05: the clocks go from 00:00 to 01:00
  LastDay,     \* bound: days
  MaxFaults,   \* bound: crashes and spawners that raise
  MaxUpdates   \* bound: changes of the pattern of a template

Day     == 1 .. LastDay
Pattern == {"daily", "weekly", "monthly", "custom_interval"}
(* A task that does not recur has none of the patterns. *)
Kind    == Pattern \cup {"once"}
NotSpawning == [spawning |-> FALSE]

ASSUME TasksAssumption ==
  /\ Calendar \in [{"weekly", "monthly"} -> SUBSET Day]
  /\ Interval \in Nat \ {0}
  /\ NoMidnight \subseteq Day
  /\ LastDay \in Nat /\ MaxFaults \in Nat /\ MaxUpdates \in Nat

VARIABLES
  day, phase,  \* the date in Cairo, and whether it is in the window
  up,          \* the processes that run
  last,        \* last_spawn_date of each, 0 for none
  run,         \* the spawner of each process
  unseen,      \* processes whose loop has yet to look in this window
  pattern,     \* how each task recurs, "none" for no row
  deleted,     \* templates whose deleted_at is set
  created,     \* created_at.date(), which is a date in UTC
  kids,        \* how many children of a template carry a date
  touched,     \* templates created or changed since this day began
  calm,        \* processes that have run since before this day without a fault
  faults, updates

clock     == <<day, phase>>
loops     == <<up, last, run, unseen, calm>>
templates == <<pattern, deleted, created, touched, updates>>
taskVars  == <<day, phase, up, last, run, unseen, pattern, deleted, created,
               kids, touched, calm, faults, updates>>

TasksTypeOK ==
  /\ day \in Day \cup {0} /\ phase \in {"window", "rest"}
  /\ up \subseteq Process /\ unseen \subseteq up /\ calm \subseteq up
  /\ last \in [Process -> 0 .. LastDay]
  /\ run \in [Process -> {NotSpawning} \cup
                 [spawning : {TRUE}, due : SUBSET Template, committed : BOOLEAN]]
  /\ pattern \in [Template -> Kind \cup {"none"}]
  /\ deleted \subseteq Template /\ touched \subseteq Template
  /\ created \in [Template -> -1 .. LastDay]
  /\ kids \in [Template -> [Day -> Nat]]
  /\ faults \in 0 .. MaxFaults /\ updates \in 0 .. MaxUpdates

TasksInit ==
  /\ day = 0 /\ phase = "rest"
  /\ up = {} /\ unseen = {} /\ calm = {}
  /\ last = [p \in Process |-> 0] /\ run = [p \in Process |-> NotSpawning]
  /\ pattern = [t \in Template |-> "none"] /\ deleted = {} /\ touched = {}
  /\ created = [t \in Template |-> 0]
  /\ kids = [t \in Template |-> [d \in Day |-> 0]]
  /\ faults = 0 /\ updates = 0

(***************************************************************************)
(* The clock.  A loop that runs through a window looks at it at least      *)
(* once; a spawner ends within its day.                                    *)
(***************************************************************************)
NextDay ==
  /\ phase = "rest" /\ day < LastDay
  /\ \A p \in Process : ~run[p].spawning
  /\ day' = day + 1
  /\ phase' = IF day + 1 \in NoMidnight THEN "rest" ELSE "window"
  /\ unseen' = IF day + 1 \in NoMidnight THEN {} ELSE up
  /\ calm' = up /\ touched' = {}
  /\ UNCHANGED <<up, last, run, pattern, deleted, created, kids, faults, updates>>

CloseWindow ==
  /\ phase = "window" /\ unseen = {}
  /\ phase' = "rest"
  /\ UNCHANGED <<day, loops, templates, kids, faults>>

(***************************************************************************)
(* The spawner.                                                            *)
(***************************************************************************)
Present(t) == pattern[t] # "none" /\ t \notin deleted
Active(t)  == Present(t) /\ pattern[t] \in Pattern

(* Faulty variant: the interval counted from the template. *)
BaseDateOfParent(t, d) == created[t]

(* The date of the latest child among d, or the date of the template.  A   *)
(* child's created_at is its target date with the hour of UTC.             *)
ChildDates(t, d) == {c \in d : kids[t][c] > 0}
BaseDate(t, d)   == IF ChildDates(t, d) = {} THEN created[t] ELSE Max(ChildDates(t, d))

(* should_spawn, as far as the children of the days d go. *)
ShouldSpawn(t, d) ==
  \/ pattern[t] = "daily"
  \/ pattern[t] \in {"weekly", "monthly"} /\ day \in Calendar[pattern[t]]
  \/ pattern[t] = "custom_interval" /\ day - BaseDate(t, d) >= Interval

AlreadySpawned(t) == kids[t][day] > 0

(* Faulty variant: the children of the day not looked for. *)
DueAgain(t) == Active(t) /\ ShouldSpawn(t, Day)

Due(t) == Active(t) /\ ShouldSpawn(t, Day) /\ ~AlreadySpawned(t)

(* now is in the window and last_spawn_date is not today: the spawner      *)
(* begins and reads what is due.                                           *)
Look(p) ==
  /\ p \in up /\ phase = "window" /\ ~run[p].spawning /\ last[p] # day
  /\ run' = [run EXCEPT ![p] = [spawning |-> TRUE, due |-> {t \in Template : Due(t)},
                                committed |-> FALSE]]
  /\ unseen' = unseen \ {p}
  /\ UNCHANGED <<clock, up, last, calm, templates, kids, faults>>

Commit(p) ==
  /\ run[p].spawning /\ ~run[p].committed
  /\ run' = [run EXCEPT ![p].committed = TRUE]
  /\ kids' = [t \in Template |->
                IF t \in run[p].due THEN [kids[t] EXCEPT ![day] = @ + 1] ELSE kids[t]]
  /\ UNCHANGED <<clock, up, last, unseen, calm, templates, faults>>

(* The spawner returns and the loop notes the date. *)
Note(p) ==
  /\ run[p].spawning /\ run[p].committed
  /\ run' = [run EXCEPT ![p] = NotSpawning]
  /\ last' = [last EXCEPT ![p] = day]
  /\ UNCHANGED <<clock, up, unseen, calm, templates, kids, faults>>

(* Faulty variant: the date noted in the finally block. *)
RaiseNoted(p) ==
  /\ run[p].spawning /\ ~run[p].committed
  /\ faults < MaxFaults /\ faults' = faults + 1
  /\ run' = [run EXCEPT ![p] = NotSpawning]
  /\ calm' = calm \ {p}
  /\ last' = [last EXCEPT ![p] = day]
  /\ UNCHANGED <<clock, up, unseen, templates, kids>>

(* The spawner raises: close() rolls its transaction back, the loop logs   *)
(* the exception and looks again in a minute.                              *)
Raise(p) ==
  /\ run[p].spawning /\ ~run[p].committed
  /\ faults < MaxFaults /\ faults' = faults + 1
  /\ run' = [run EXCEPT ![p] = NotSpawning]
  /\ calm' = calm \ {p}
  /\ UNCHANGED <<clock, up, last, unseen, templates, kids>>

(***************************************************************************)
(* Processes come and go; what the loop remembers is lost.                 *)
(***************************************************************************)
Start(p) ==
  /\ p \notin up
  /\ up' = up \cup {p}
  /\ last' = [last EXCEPT ![p] = 0]
  /\ unseen' = IF phase = "window" THEN unseen \cup {p} ELSE unseen
  /\ UNCHANGED <<clock, run, calm, templates, kids, faults>>

Crash(p) ==
  /\ p \in up /\ faults < MaxFaults /\ faults' = faults + 1
  /\ up' = up \ {p} /\ unseen' = unseen \ {p} /\ calm' = calm \ {p}
  /\ run' = [run EXCEPT ![p] = NotSpawning]
  /\ UNCHANGED <<clock, last, templates, kids>>

(***************************************************************************)
(* The requests of the administrators.                                     *)
(***************************************************************************)

(* created_at is a time in UTC, two or three hours behind Cairo. *)
CreateTemplate(t) ==
  /\ pattern[t] = "none" /\ t \notin deleted /\ t \notin touched
  /\ \E q \in Kind : pattern' = [pattern EXCEPT ![t] = q]
  /\ \E d \in IF phase = "window" THEN {day - 1} ELSE {day - 1, day} :
       created' = [created EXCEPT ![t] = d]
  /\ touched' = touched \cup {t}
  /\ UNCHANGED <<clock, loops, deleted, kids, faults, updates>>

UpdateTemplate(t) ==
  /\ Present(t) /\ updates < MaxUpdates /\ updates' = updates + 1
  /\ \E q \in Kind \ {pattern[t]} : pattern' = [pattern EXCEPT ![t] = q]
  /\ touched' = touched \cup {t}
  /\ UNCHANGED <<clock, loops, deleted, created, kids, faults>>

(* Children stay, and stay children, when they or their parent are deleted. *)
DeleteTemplate(t) ==
  /\ Present(t)
  /\ deleted' = deleted \cup {t}
  /\ UNCHANGED <<clock, loops, pattern, created, touched, updates, kids, faults>>

TasksNext ==
  \/ NextDay \/ CloseWindow
  \/ \E p \in Process :
       Look(p) \/ Commit(p) \/ Note(p) \/ Raise(p) \/ Start(p) \/ Crash(p)
  \/ \E t \in Template : CreateTemplate(t) \/ UpdateTemplate(t) \/ DeleteTemplate(t)

TasksSpec == TasksInit /\ [][TasksNext]_taskVars

(***************************************************************************)
(* Properties                                                              *)
(***************************************************************************)

(* FR-004: no template has two children of one date, whatever crashes,     *)
(* restarts within the window and retries come between the commit of the   *)
(* spawner and the note of its date.  It takes a single process: nothing   *)
(* in the database keeps two spawners apart.                               *)
SpawnedOnce == \A t \in Template, d \in Day : kids[t][d] <= 1

(* A day is not lost: once a loop has noted it, or has run through its     *)
(* window without a fault, every template that was there before the day,   *)
(* unchanged since and due, has its child, the runs before it having       *)
(* failed or not.                                                          *)
Owed(t) == Active(t) /\ t \notin touched /\ ShouldSpawn(t, 1 .. day - 1)
Served(p) ==
  ~run[p].spawning /\ (last[p] = day \/ (phase = "rest" /\ p \in calm))
OwedSpawned ==
  day \in Day \ NoMidnight /\ (\E p \in Process : Served(p)) =>
    \A t \in Template : Owed(t) => kids[t][day] > 0

(* A template of the interval pattern never has a child sooner than the    *)
(* interval after the one before, also when it had another pattern then.   *)
IntervalKept ==
  [][\A t \in Template :
       kids'[t] # kids[t] /\ pattern[t] = "custom_interval" /\ t \notin touched =>
         \A d \in 1 .. day - 1 : kids[t][d] > 0 => day - d >= Interval]_taskVars
=============================================================================
