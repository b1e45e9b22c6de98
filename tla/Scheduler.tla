----------------------------- MODULE Scheduler -----------------------------
(***************************************************************************)
(* The scheduler of every controller and the schedules table it follows.   *)
(* The sync goroutine copies the enabled rows into cron entries; each      *)
(* entry that fires runs its callback on a goroutine of its own, which     *)
(* inserts a job and writes next_run_at.  API handlers edit the rows.      *)
(*                                                                         *)
(* What a schedule says besides its template (expression, time zone, extra *)
(* variables) is one spec; BadSpecs are those LoadLocation or the parser   *)
(* of register refuse.  A row's next is the entry its next_run_at was      *)
(* taken from.                                                             *)
(*                                                                         *)
(*   pc   "idle" waiting for the ticker      "remove" in the first loop    *)
(*        "delete" after cron.Remove         "register" in the second loop *)
(*        "store" after AddFunc                                            *)
(***************************************************************************)
EXTENDS Naturals, FiniteSets

CONSTANTS Controllers, ScheduleIds, Templates,
          Specs, BadSpecs,
          CronFields,     \* fields the cron instance expects: 5 in the tests, 6 in Run
          MaxEdits,       \* bound on the API requests of a behaviour
          MaxRestarts,    \* bound on controller restarts
          None

ASSUME SpecsAssumption == BadSpecs \subseteq Specs

VARIABLES row,        \* schedules, by id: state, template, spec, enabled, next
          templates,  \* ids in job_templates
          jobs,       \* what jobs have been created: schedule, template, spec
          pc, cur,    \* where sync is, and the schedule it is working on
          todo,       \* the active rows sync read (still to visit when registering)
          entries,    \* the entries of the cron instance
          entryIDs,   \* Scheduler.entryIDs; 0 is what Go reads for a missing key
          lastId,     \* the last EntryID the cron instance gave
          firing,     \* callbacks in flight
          offered,    \* history: the specs each row has had while enabled
          edits, restarts

tableVars == <<row, templates, offered, edits>>
ctlVars == <<pc, cur, todo, entries, entryIDs, lastId>>
vars == <<tableVars, jobs, ctlVars, firing, restarts>>

Entry == [id : Nat \ {0}, sched : ScheduleIds, tmpl : Templates, spec : Specs]
Row == [state : {"absent", "present", "deleted"}, tmpl : Templates \cup {None},
        spec : Specs \cup {None}, enabled : BOOLEAN, next : Entry \cup {None}]
Active == [sched : ScheduleIds, tmpl : Templates, spec : Specs]
Firing == [ctl : Controllers, entry : Entry, at : {"create", "entries", "match", "update"},
           seen : SUBSET Entry, next : Entry \cup {None}]

ASSUME NoneAssumption == None \notin Templates \cup ScheduleIds \cup Specs \cup Entry

TypeOK ==
  /\ row \in [ScheduleIds -> Row]
  /\ templates \subseteq Templates
  /\ jobs \subseteq Active
  /\ pc \in [Controllers -> {"idle", "remove", "delete", "register", "store"}]
  /\ cur \in [Controllers -> ScheduleIds \cup {None}]
  /\ todo \in [Controllers -> SUBSET Active]
  /\ entries \in [Controllers -> SUBSET Entry]
  /\ entryIDs \in [Controllers -> [ScheduleIds -> Nat]]
  /\ lastId \in [Controllers -> Nat]
  /\ firing \subseteq Firing
  /\ offered \in [ScheduleIds -> SUBSET Specs]
  /\ edits \in Nat /\ restarts \in Nat

NoRow == [state |-> "absent", tmpl |-> None, spec |-> None, enabled |-> FALSE, next |-> None]

Init ==
  /\ row = [s \in ScheduleIds |-> NoRow]
  /\ templates = Templates
  /\ jobs = {}
  /\ pc = [c \in Controllers |-> "idle"]
  /\ cur = [c \in Controllers |-> None]
  /\ todo = [c \in Controllers |-> {}]
  /\ entries = [c \in Controllers |-> {}]
  /\ entryIDs = [c \in Controllers |-> [s \in ScheduleIds |-> 0]]
  /\ lastId = [c \in Controllers |-> 0]
  /\ firing = {}
  /\ offered = [s \in ScheduleIds |-> {}]
  /\ edits = 0 /\ restarts = 0

-----------------------------------------------------------------------------
(* Requests to the API.  Each is one statement. *)

\* Mutant: the query does not ask for enabled rows.
IsActivePresent(s) == row[s].state = "present"

IsActive(s) == row[s].state = "present" /\ row[s].enabled

Edit == edits < MaxEdits /\ edits' = edits + 1 /\ UNCHANGED <<jobs, ctlVars, firing, restarts>>

Offer(s, spec, enabled) ==
  offered' = [offered EXCEPT ![s] = @ \cup IF enabled THEN {spec} ELSE {}]

CreateSchedule(s, t, spec, enabled) ==
  /\ Edit
  /\ row[s].state = "absent" /\ t \in templates
  /\ row' = [row EXCEPT ![s] = [state |-> "present", tmpl |-> t, spec |-> spec,
                                enabled |-> enabled, next |-> None]]
  /\ Offer(s, spec, enabled)
  /\ UNCHANGED templates

\* template_id, last_run_at and next_run_at stay as they are.
UpdateSchedule(s, spec, enabled) ==
  /\ Edit
  /\ row[s].state = "present"
  /\ row' = [row EXCEPT ![s].spec = spec, ![s].enabled = enabled]
  /\ Offer(s, spec, enabled)
  /\ UNCHANGED templates

DeleteSchedule(s) ==
  /\ Edit
  /\ row[s].state = "present"
  /\ row' = [row EXCEPT ![s].state = "deleted"]
  /\ UNCHANGED <<templates, offered>>

\* A template no job refers to; its schedules go with it (ON DELETE CASCADE).
DeleteTemplate(t) ==
  /\ Edit
  /\ t \in templates /\ \A j \in jobs : j.tmpl # t
  /\ templates' = templates \ {t}
  /\ row' = [s \in ScheduleIds |->
               IF row[s].state = "present" /\ row[s].tmpl = t
               THEN [row[s] EXCEPT !.state = "deleted"] ELSE row[s]]
  /\ UNCHANGED offered

ApiStep ==
  \/ \E s \in ScheduleIds, spec \in Specs, enabled \in BOOLEAN :
       UpdateSchedule(s, spec, enabled) \/ \E t \in Templates : CreateSchedule(s, t, spec, enabled)
  \/ \E s \in ScheduleIds : DeleteSchedule(s)
  \/ \E t \in Templates : DeleteTemplate(t)

-----------------------------------------------------------------------------
(* sync and register, on the goroutine of Run.  GetActiveSchedules failing
   leaves everything as it is until the next tick. *)

GetActiveSchedules ==
  {[sched |-> s, tmpl |-> row[s].tmpl, spec |-> row[s].spec] : s \in {s \in ScheduleIds : IsActive(s)}}

Goto(c, at) == pc' = [pc EXCEPT ![c] = at]

Load(c) ==
  /\ pc[c] = "idle"
  /\ todo' = [todo EXCEPT ![c] = GetActiveSchedules]
  /\ Goto(c, "remove")
  /\ UNCHANGED <<cur, entries, entryIDs, lastId>>

\* Mutant: entries of rows that are gone are never looked for.
StaleNone(c) == {}

Stale(c) == {s \in ScheduleIds : entryIDs[c][s] # 0 /\ \A a \in todo[c] : a.sched # s}

CronRemove(c, s) ==
  /\ pc[c] = "remove" /\ s \in Stale(c)
  /\ entries' = [entries EXCEPT ![c] = {e \in @ : e.id # entryIDs[c][s]}]
  /\ cur' = [cur EXCEPT ![c] = s]
  /\ Goto(c, "delete")
  /\ UNCHANGED <<todo, entryIDs, lastId>>

\* Mutant: the map keeps the id of an entry that is gone.
DeleteEntryIDForgotten(c) ==
  /\ pc[c] = "delete"
  /\ Goto(c, "register")
  /\ UNCHANGED <<cur, todo, entries, entryIDs, lastId>>

DeleteEntryID(c) ==
  /\ pc[c] = "delete"
  /\ entryIDs' = [entryIDs EXCEPT ![c][cur[c]] = 0]
  /\ Goto(c, "remove")
  /\ UNCHANGED <<cur, todo, entries, lastId>>

StartRegistering(c) ==
  /\ pc[c] = "remove" /\ Stale(c) = {}
  /\ Goto(c, "register")
  /\ UNCHANGED <<cur, todo, entries, entryIDs, lastId>>

\* Mutant: the map is not consulted before registering.
RegisteredNever(c, a) == FALSE

Registered(c, a) == entryIDs[c][a.sched] # 0
Accepted(a) == a.spec \notin BadSpecs /\ CronFields = 5

\* Registered already, or register returns an error.
SkipSchedule(c, a) ==
  /\ pc[c] = "register" /\ a \in todo[c]
  /\ Registered(c, a) \/ ~Accepted(a)
  /\ todo' = [todo EXCEPT ![c] = @ \ {a}]
  /\ UNCHANGED <<pc, cur, entries, entryIDs, lastId>>

AddFunc(c, a) ==
  /\ lastId' = [lastId EXCEPT ![c] = @ + 1]
  /\ entries' = [entries EXCEPT ![c] = @ \cup
       {[id |-> lastId[c] + 1, sched |-> a.sched, tmpl |-> a.tmpl, spec |-> a.spec]}]

Register(c, a) ==
  /\ pc[c] = "register" /\ a \in todo[c]
  /\ ~Registered(c, a) /\ Accepted(a)
  /\ AddFunc(c, a)
  /\ cur' = [cur EXCEPT ![c] = a.sched]
  /\ todo' = [todo EXCEPT ![c] = @ \ {a}]
  /\ Goto(c, "store")
  /\ UNCHANGED entryIDs

StoreEntryID(c) ==
  /\ pc[c] = "store"
  /\ entryIDs' = [entryIDs EXCEPT ![c][cur[c]] = lastId[c]]
  /\ Goto(c, "register")
  /\ UNCHANGED <<cur, todo, entries, lastId>>

SyncEnds(c) ==
  /\ pc[c] = "register" /\ todo[c] = {}
  /\ Goto(c, "idle")
  /\ UNCHANGED <<cur, todo, entries, entryIDs, lastId>>

SyncStep(c) ==
  /\ \/ Load(c) \/ DeleteEntryID(c) \/ StartRegistering(c) \/ StoreEntryID(c) \/ SyncEnds(c)
     \/ \E s \in ScheduleIds : CronRemove(c, s)
     \/ \E a \in todo[c] : SkipSchedule(c, a) \/ Register(c, a)
  /\ UNCHANGED <<tableVars, jobs, firing, restarts>>

-----------------------------------------------------------------------------
(* Entries that fire.  The callback has 30 seconds and entries fire at most once
   a minute, so an entry never has two callbacks. *)

Fire(c, e) ==
  /\ e \in entries[c]
  /\ \A f \in firing : <<f.ctl, f.entry>> # <<c, e>>
  /\ firing' = firing \cup {[ctl |-> c, entry |-> e, at |-> "create", seen |-> {}, next |-> None]}
  /\ UNCHANGED <<tableVars, jobs, ctlVars, restarts>>

Becomes(f, g) == firing' = (firing \ {f}) \cup {g}

InsertJob(e) ==
  jobs' = jobs \cup {[sched |-> e.sched, tmpl |-> e.tmpl, spec |-> e.spec]}

CreateJob(f) ==
  /\ f.at = "create" /\ f.entry.tmpl \in templates
  /\ InsertJob(f.entry)
  /\ Becomes(f, [f EXCEPT !.at = "entries"])
  /\ UNCHANGED row

\* The template is gone, or the statement failed (its INSERT may be committed).
CreateJobFails(f) ==
  /\ f.at = "create"
  /\ \/ f.entry.tmpl \in templates /\ InsertJob(f.entry)
     \/ UNCHANGED jobs
  /\ firing' = firing \ {f}
  /\ UNCHANGED row

CronEntries(f) ==
  /\ f.at = "entries"
  /\ Becomes(f, [f EXCEPT !.at = "match", !.seen = entries[f.ctl]])
  /\ UNCHANGED <<jobs, row>>

\* Mutant: the newest entry is taken for the one that fired.
MatchEntryNewest(f) ==
  /\ f.at = "match"
  /\ LET own == {e \in f.seen : \A d \in f.seen : d.id <= e.id}
     IN \/ own = {} /\ Becomes(f, [f EXCEPT !.at = "update", !.seen = {}])
        \/ \E e \in own : Becomes(f, [f EXCEPT !.at = "update", !.seen = {}, !.next = e])
  /\ UNCHANGED <<jobs, row>>

\* One turn of the loop: entryIDs, which sync may be writing, is read anew for every entry
\* and the loop ends at the first that matches.
MatchEntry(f) ==
  /\ f.at = "match"
  /\ \/ f.seen = {} /\ Becomes(f, [f EXCEPT !.at = "update"])
     \/ \E e \in f.seen :
          Becomes(f, IF e.id = entryIDs[f.ctl][f.entry.sched]
                     THEN [f EXCEPT !.at = "update", !.seen = {}, !.next = e]
                     ELSE [f EXCEPT !.seen = @ \ {e}])
  /\ UNCHANGED <<jobs, row>>

UpdateScheduleLastRun(f) ==
  /\ f.at = "update"
  /\ firing' = firing \ {f}
  /\ \/ /\ row[f.entry.sched].state = "present"
        /\ row' = [row EXCEPT ![f.entry.sched].next = f.next]
     \/ UNCHANGED row                      \* no such row, or the statement failed
  /\ UNCHANGED jobs

CallbackStep(f) ==
  /\ \/ CreateJob(f) \/ CreateJobFails(f) \/ CronEntries(f)
     \/ MatchEntry(f) \/ UpdateScheduleLastRun(f)
  /\ UNCHANGED <<templates, offered, edits, ctlVars, restarts>>

\* The process stops and starts again: on a signal, or because the Go runtime
\* has detected that a callback reads entryIDs while sync writes it.
Restart(c) ==
  /\ restarts < MaxRestarts /\ restarts' = restarts + 1
  /\ pc' = [pc EXCEPT ![c] = "idle"]
  /\ cur' = [cur EXCEPT ![c] = None]
  /\ todo' = [todo EXCEPT ![c] = {}]
  /\ entries' = [entries EXCEPT ![c] = {}]
  /\ entryIDs' = [entryIDs EXCEPT ![c] = [s \in ScheduleIds |-> 0]]
  /\ lastId' = [lastId EXCEPT ![c] = 0]
  /\ firing' = {f \in firing : f.ctl # c}
  /\ UNCHANGED <<tableVars, jobs>>

Next ==
  \/ ApiStep
  \/ \E c \in Controllers : SyncStep(c) \/ Restart(c) \/ \E e \in entries[c] : Fire(c, e)
  \/ \E f \in firing : CallbackStep(f)

Spec == Init /\ [][Next]_vars

CallbackOf(c, s) == \E f \in firing : f.ctl = c /\ f.entry.sched = s /\ CallbackStep(f)

\* The ticker of Run keeps firing and its statements return; a callback, a goroutine of its
\* own, ends after 30 seconds at the latest.  Nothing is assumed of the cron instance or
\* the API.
Fairness ==
  /\ \A c \in Controllers : WF_vars(SyncStep(c))
  /\ \A c \in Controllers, s \in ScheduleIds : WF_vars(CallbackOf(c, s))

FairSpec == Spec /\ Fairness

-----------------------------------------------------------------------------
(* Properties. *)

\* sync never loses track of an entry: every entry of the cron instance is the one
\* entryIDs names for its schedule, and every id of the map is an entry, except between
\* the two statements that add or remove them.  An entry outside the map could never be
\* removed and would fire until the process ends, twice if its schedule came back.
EntriesAreTracked ==
  \A c \in Controllers :
    /\ \A e \in entries[c] :
         \/ entryIDs[c][e.sched] = e.id
         \/ pc[c] = "store" /\ cur[c] = e.sched /\ e.id = lastId[c] /\ entryIDs[c][e.sched] = 0
    /\ \A s \in ScheduleIds : entryIDs[c][s] # 0 =>
         \/ \E e \in entries[c] : e.id = entryIDs[c][s] /\ e.sched = s
         \/ pc[c] = "delete" /\ cur[c] = s

\* The next_run_at of a schedule is always taken from an entry of that schedule, whatever
\* sync adds and removes between cron.Entries, the lookups in entryIDs and the UPDATE, and
\* although a missing key of the map reads as 0.
NextRunIsOwn ==
  \A s \in ScheduleIds : row[s].next # None =>
    row[s].next.sched = s /\ row[s].next.tmpl = row[s].tmpl

\* A job of a schedule is created with the schedule's template and with a definition
\* that schedule has had while it was enabled: no snapshot of sync, stale entry or late
\* callback mixes the rows of two schedules or fires one that was never enabled.
JobsWereScheduled ==
  \A j \in jobs : j.spec \in offered[j.sched] /\ j.tmpl = row[j.sched].tmpl

\* A schedule that stays disabled or deleted ends up with no entry and no callback in any
\* controller ("removes entries for schedules that were deleted or disabled").
RetiredStopsFiring ==
  \A s \in ScheduleIds : <>[]~IsActive(s) =>
    <>[](/\ \A c \in Controllers : \A e \in entries[c] : e.sched # s
         /\ \A f \in firing : f.entry.sched # s)

\* A schedule that stays enabled with a definition that register's parser and the cron
\* instance both accept ends up with exactly one entry in every controller, through edits,
\* restarts and failing passes of sync.  (The instance of Run accepts none: it expects six
\* fields and register's parser five.  This is about sync, with the five-field instance.)
AcceptedIsRegistered ==
  \A s \in ScheduleIds, c \in Controllers :
    <>[](IsActive(s) /\ Accepted(row[s])) => <>[](Cardinality({e \in entries[c] : e.sched = s}) = 1)

\* "On startup, loads all active schedules from Postgres and registers them": a schedule
\* that stays enabled, with an expression and a time zone register accepts, ends up with an
\* entry in every controller.  The instance of Run (CronFields = 6) refuses them all.
EnabledIsRegistered ==
  \A s \in ScheduleIds, c \in Controllers :
    <>[](IsActive(s) /\ row[s].spec \notin BadSpecs) => <>[](\E e \in entries[c] : e.sched = s)

=============================================================================
