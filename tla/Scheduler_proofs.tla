-------------------------- MODULE Scheduler_proofs --------------------------
(***************************************************************************)
(* What the scheduler keeps for any number of controllers and schedules.   *)
(* EntriesAreTracked is inductive once the map is known to be injective    *)
(* and EntryIDs to grow (TrackInv); that an entry a callback has copied is *)
(* never taken for another schedule's then follows, since no id is given   *)
(* twice (SeenInv).                                                        *)
(***************************************************************************)
EXTENDS Scheduler, TLAPS

\* What was taken from a row: the row exists, has that template and has had that spec.
Genuine(x) ==
  /\ row[x.sched].state # "absent"
  /\ x.tmpl = row[x.sched].tmpl
  /\ x.spec \in offered[x.sched]

RowInv ==
  \A s \in ScheduleIds :
    /\ row[s].state # "absent" => row[s].tmpl \in Templates /\ row[s].spec \in Specs
    /\ row[s].state # "absent" /\ row[s].enabled => row[s].spec \in offered[s]
    /\ row[s].next # None => row[s].next.sched = s /\ row[s].next.tmpl = row[s].tmpl

GenuineInv ==
  /\ \A j \in jobs : Genuine(j)
  /\ \A c \in Controllers : \A a \in todo[c] : Genuine(a)
  /\ \A c \in Controllers : \A e \in entries[c] : Genuine(e)
  /\ \A f \in firing : Genuine(f.entry) /\ \A e \in f.seen : Genuine(e)

\* The map is injective, ids are never given twice, and what the two halves of a
\* registration and of a removal leave in between.
TrackInv ==
  \A c \in Controllers :
    /\ \A e \in entries[c] : e.id <= lastId[c]
    /\ \A s \in ScheduleIds : entryIDs[c][s] <= lastId[c]
    /\ \A a, b \in entries[c] : a.id = b.id => a = b
    /\ \A s, t \in ScheduleIds : entryIDs[c][s] = entryIDs[c][t] /\ entryIDs[c][s] # 0 => s = t
    /\ pc[c] \in {"delete", "store"} => cur[c] \in ScheduleIds
    /\ pc[c] = "delete" => \A e \in entries[c] : e.id # entryIDs[c][cur[c]]
    /\ pc[c] = "store" => /\ entryIDs[c][cur[c]] = 0 /\ lastId[c] # 0
                          /\ \A s \in ScheduleIds : entryIDs[c][s] # lastId[c]
                          /\ \E e \in entries[c] : e.id = lastId[c] /\ e.sched = cur[c]

\* A callback: what it copied from the cron instance can be matched with its own
\* schedule's id only if it is that schedule's entry.
SeenInv ==
  \A f \in firing :
    /\ \A e \in f.seen :
         /\ e.id <= lastId[f.ctl]
         /\ \A s \in ScheduleIds : entryIDs[f.ctl][s] = e.id => e.sched = s
         /\ pc[f.ctl] = "store" /\ e.id = lastId[f.ctl] => e.sched = cur[f.ctl]
    /\ f.next # None => Genuine(f.next) /\ f.next.sched = f.entry.sched

IInv == TypeOK /\ RowInv /\ GenuineInv /\ TrackInv /\ EntriesAreTracked /\ SeenInv

-----------------------------------------------------------------------------
(* Requests to the API. *)

\* Rows keep their template and never become absent again; what they offered stays.
RowsGrow ==
  \A s \in ScheduleIds :
    /\ row[s].state # "absent" => row'[s].state # "absent" /\ row'[s].tmpl = row[s].tmpl
    /\ offered[s] \subseteq offered'[s]

\* What was genuine stays so.
LEMMA GenuineKept ==
  ASSUME RowsGrow, NEW x, x.sched \in ScheduleIds, Genuine(x)
  PROVE  Genuine(x)'
  BY DEF RowsGrow, Genuine

\* The records that are looked up have a schedule.
LEMMA Scheduled ==
  ASSUME TypeOK
  PROVE  /\ \A j \in jobs : j.sched \in ScheduleIds
         /\ \A c \in Controllers : \A a \in todo[c] : a.sched \in ScheduleIds
         /\ \A c \in Controllers : \A e \in entries[c] : e.sched \in ScheduleIds
         /\ \A f \in firing : f.entry.sched \in ScheduleIds /\ \A e \in f.seen : e.sched \in ScheduleIds
         /\ \A f \in firing : f.next # None => f.next.sched \in ScheduleIds
  BY DEF TypeOK, Active, Entry, Firing

\* A request keeps the invariant if it keeps the types and lets rows grow.
LEMMA RequestKeeps ==
  ASSUME IInv, Edit, TypeOK', RowInv', RowsGrow
  PROVE  IInv'
<1>0. TypeOK /\ GenuineInv /\ TrackInv /\ EntriesAreTracked /\ SeenInv
  BY DEF IInv
<1>1. UNCHANGED <<jobs, ctlVars, firing>>
  BY DEF Edit
<1>2. GenuineInv'
  BY <1>0, <1>1, GenuineKept, Scheduled DEF GenuineInv, ctlVars
<1>3. TrackInv' /\ EntriesAreTracked'
  BY <1>0, <1>1 DEF TrackInv, EntriesAreTracked, ctlVars
<1>4. SeenInv'
  BY <1>0, <1>1, GenuineKept, Scheduled DEF SeenInv, ctlVars
<1> QED BY <1>2, <1>3, <1>4 DEF IInv

\* A row that goes.
LEMMA RowDeleted ==
  ASSUME NEW r \in Row
  PROVE  [r EXCEPT !.state = "deleted"] \in Row
  BY DEF Row

\* The requests of the API keep the invariant: no request changes the template of a row.
LEMMA ApiInv == ASSUME IInv, ApiStep PROVE IInv'
<1>0. TypeOK /\ RowInv
  BY DEF IInv
<1>1. ASSUME NEW s \in ScheduleIds, NEW t \in Templates, NEW spec \in Specs, NEW enabled \in BOOLEAN,
             CreateSchedule(s, t, spec, enabled)
      PROVE  IInv'
  <2> DEFINE new == [state |-> "present", tmpl |-> t, spec |-> spec, enabled |-> enabled, next |-> None]
  <2>1. new \in Row /\ new.state = "present" /\ new.tmpl = t /\ new.spec = spec /\ new.enabled = enabled
        /\ new.next = None
    BY DEF Row
  <2>2. row' = [row EXCEPT ![s] = new] /\ row[s].state = "absent" /\ Edit /\ UNCHANGED templates
        /\ offered' = [offered EXCEPT ![s] = @ \cup IF enabled THEN {spec} ELSE {}]
    BY <1>1 DEF CreateSchedule, Offer
  <2> HIDE DEF new
  <2>3. TypeOK'
    BY <1>0, <2>1, <2>2 DEF TypeOK, Edit, ctlVars
  <2>4. RowInv'
    BY <1>0, <2>1, <2>2 DEF TypeOK, RowInv
  <2>5. RowsGrow
    BY <1>0, <2>1, <2>2 DEF TypeOK, RowsGrow
  <2> QED BY <2>2, <2>3, <2>4, <2>5, RequestKeeps
<1>2. ASSUME NEW s \in ScheduleIds, NEW spec \in Specs, NEW enabled \in BOOLEAN,
             UpdateSchedule(s, spec, enabled)
      PROVE  IInv'
  <2> DEFINE new == [row[s] EXCEPT !.spec = spec, !.enabled = enabled]
  <2>1. new \in Row /\ new.state = row[s].state /\ new.tmpl = row[s].tmpl /\ new.spec = spec
        /\ new.enabled = enabled /\ new.next = row[s].next
    <3>1. row[s] \in Row
      BY <1>0 DEF TypeOK
    <3> QED BY <3>1 DEF Row
  <2>2. row' = [row EXCEPT ![s] = new] /\ Edit /\ UNCHANGED templates
        /\ offered' = [offered EXCEPT ![s] = @ \cup IF enabled THEN {spec} ELSE {}]
    BY <1>0, <1>2 DEF UpdateSchedule, Offer, TypeOK, Row
  <2> HIDE DEF new
  <2>3. TypeOK'
    BY <1>0, <2>1, <2>2 DEF TypeOK, Edit, ctlVars
  <2>4. RowInv'
    BY <1>0, <2>1, <2>2 DEF TypeOK, RowInv
  <2>5. RowsGrow
    BY <1>0, <2>1, <2>2 DEF TypeOK, RowsGrow
  <2> QED BY <2>2, <2>3, <2>4, <2>5, RequestKeeps
<1>3. ASSUME Edit, UNCHANGED offered, templates' \subseteq templates,
             row' \in [ScheduleIds -> Row],
             \A s \in ScheduleIds : row'[s] = row[s] \/
               (row[s].state = "present" /\ row'[s] = [row[s] EXCEPT !.state = "deleted"])
      PROVE  IInv'
  <2>1. \A s \in ScheduleIds : /\ row'[s].state # row[s].state => row[s].state = "present" /\ row'[s].state = "deleted"
                               /\ row'[s].tmpl = row[s].tmpl /\ row'[s].spec = row[s].spec
                               /\ row'[s].enabled = row[s].enabled /\ row'[s].next = row[s].next
    BY <1>0, <1>3 DEF TypeOK, Row
  <2>2. TypeOK'
    BY <1>0, <1>3 DEF TypeOK, Edit, ctlVars
  <2>3. RowInv'
    BY <1>0, <1>3, <2>1 DEF RowInv
  <2>4. RowsGrow
    BY <1>3, <2>1 DEF RowsGrow
  <2> QED BY <1>3, <2>2, <2>3, <2>4, RequestKeeps
<1>4. ASSUME NEW s \in ScheduleIds, DeleteSchedule(s) PROVE IInv'
  <2>1. Edit /\ row[s].state = "present" /\ row' = [row EXCEPT ![s].state = "deleted"]
        /\ UNCHANGED <<templates, offered>>
    BY <1>4 DEF DeleteSchedule
  <2>2. row' = [row EXCEPT ![s] = [row[s] EXCEPT !.state = "deleted"]]
    BY <2>1
  <2>3. [row[s] EXCEPT !.state = "deleted"] \in Row
    <3>1. row[s] \in Row
      BY <1>0 DEF TypeOK
    <3> QED BY <3>1, RowDeleted
  <2>4. row' \in [ScheduleIds -> Row]
    BY <1>0, <2>2, <2>3 DEF TypeOK
  <2>5. \A r \in ScheduleIds : row'[r] = row[r] \/
               (row[r].state = "present" /\ row'[r] = [row[r] EXCEPT !.state = "deleted"])
    BY <1>0, <2>1, <2>2 DEF TypeOK
  <2> QED BY <1>3, <2>1, <2>4, <2>5
<1>5. ASSUME NEW t \in Templates, DeleteTemplate(t) PROVE IInv'
  <2>1. \A s \in ScheduleIds : [row[s] EXCEPT !.state = "deleted"] \in Row /\ row[s] \in Row
    <3>1. \A s \in ScheduleIds : row[s] \in Row
      BY <1>0 DEF TypeOK
    <3> QED BY <3>1, RowDeleted
  <2>2. row' \in [ScheduleIds -> Row]
    BY <1>5, <2>1 DEF DeleteTemplate
  <2>3. \A s \in ScheduleIds : row'[s] = row[s] \/
               (row[s].state = "present" /\ row'[s] = [row[s] EXCEPT !.state = "deleted"])
    BY <1>5 DEF DeleteTemplate
  <2> QED BY <1>3, <1>5, <2>2, <2>3 DEF DeleteTemplate
<1> QED BY <1>1, <1>2, <1>4, <1>5 DEF ApiStep

-----------------------------------------------------------------------------
(* sync and register. *)

\* The active rows sync reads are genuine.
LEMMA ActiveGenuine ==
  ASSUME TypeOK, RowInv
  PROVE  GetActiveSchedules \subseteq Active /\ \A a \in GetActiveSchedules : Genuine(a)
<1> SUFFICES ASSUME NEW s \in ScheduleIds, IsActive(s),
                    NEW a, a = [sched |-> s, tmpl |-> row[s].tmpl, spec |-> row[s].spec]
             PROVE  a \in Active /\ Genuine(a)
  BY DEF GetActiveSchedules
<1>1. row[s].state # "absent" /\ row[s].enabled
  BY DEF IsActive
<1>2. row[s].tmpl \in Templates /\ row[s].spec \in Specs /\ row[s].spec \in offered[s]
  BY <1>1 DEF RowInv
<1> QED BY <1>1, <1>2 DEF Active, Genuine

\* A step of one controller's sync keeps the invariant if it keeps, of that controller,
\* what the invariant says.
LEMMA SyncKeeps ==
  ASSUME IInv, NEW c \in Controllers, TypeOK',
         UNCHANGED <<tableVars, jobs, firing>>,
         \A d \in Controllers \ {c} :
           /\ pc'[d] = pc[d] /\ cur'[d] = cur[d] /\ todo'[d] = todo[d] /\ entries'[d] = entries[d]
           /\ entryIDs'[d] = entryIDs[d] /\ lastId'[d] = lastId[d],
         \A a \in todo'[c] : Genuine(a),
         \A e \in entries'[c] : Genuine(e),
         TrackInv!(c)', EntriesAreTracked!(c)',
         \A f \in firing : f.ctl = c => SeenInv!(f)!1'
  PROVE  IInv'
<1>0. TypeOK /\ RowInv /\ GenuineInv /\ TrackInv /\ EntriesAreTracked /\ SeenInv
  BY DEF IInv
<1>1. RowInv'
  BY <1>0 DEF RowInv, tableVars
<1>2. GenuineInv'
  BY <1>0 DEF GenuineInv, Genuine, tableVars
<1>3. TrackInv'
  BY <1>0 DEF TrackInv
<1>4. EntriesAreTracked'
  BY <1>0 DEF EntriesAreTracked
<1>5. SeenInv'
  <2> SUFFICES ASSUME NEW f \in firing PROVE SeenInv!(f)'
    BY DEF SeenInv
  <2>1. f.next # None => Genuine(f.next)' /\ f.next.sched = f.entry.sched
    BY <1>0 DEF SeenInv, Genuine, tableVars
  <2>2. CASE f.ctl = c
    BY <2>1, <2>2
  <2>3. CASE f.ctl # c
    <3>1. f.ctl \in Controllers \ {c}
      BY <1>0, <2>3 DEF TypeOK, Firing
    <3> QED BY <1>0, <2>1, <3>1 DEF SeenInv
  <2> QED BY <2>2, <2>3
<1> QED BY <1>1, <1>2, <1>3, <1>4, <1>5 DEF IInv

\* Every step of sync keeps the invariant.
LEMMA SyncInv == ASSUME IInv, NEW c \in Controllers, SyncStep(c) PROVE IInv'
<1>0. TypeOK /\ RowInv /\ GenuineInv /\ TrackInv /\ EntriesAreTracked /\ SeenInv
  BY DEF IInv
<1>u. UNCHANGED <<tableVars, jobs, firing, restarts>>
  BY DEF SyncStep
<1>g. (\A a \in todo[c] : Genuine(a)) /\ (\A e \in entries[c] : Genuine(e))
  BY <1>0 DEF GenuineInv
<1>1. CASE Load(c)
  <2> USE <1>1 DEF Load, Goto
  <2>1. TypeOK'
    BY <1>0, <1>u, ActiveGenuine DEF TypeOK, tableVars
  <2>2. \A a \in todo'[c] : Genuine(a)
    BY <1>0, ActiveGenuine DEF TypeOK
  <2>3. TrackInv!(c)' /\ EntriesAreTracked!(c)'
    BY <1>0 DEF TypeOK, TrackInv, EntriesAreTracked
  <2>4. \A f \in firing : f.ctl = c => SeenInv!(f)!1'
    BY <1>0 DEF TypeOK, SeenInv
  <2> QED BY <1>0, <1>u, <1>g, <2>1, <2>2, <2>3, <2>4, SyncKeeps, ZenonT(30) DEF TypeOK
<1>2. ASSUME NEW s \in ScheduleIds, CronRemove(c, s) PROVE IInv'
  <2> USE <1>2 DEF CronRemove, Goto
  <2>0. entryIDs[c][s] # 0 /\ pc[c] = "remove"
    BY DEF Stale
  <2>1. TypeOK'
    BY <1>0, <1>u DEF TypeOK, tableVars
  <2>2. TrackInv!(c)'
    BY <1>0, <2>0 DEF TypeOK, TrackInv
  <2>3. EntriesAreTracked!(c)'
    BY <1>0, <2>0 DEF TypeOK, TrackInv, EntriesAreTracked
  <2>4. \A f \in firing : f.ctl = c => SeenInv!(f)!1'
    BY <1>0 DEF TypeOK, SeenInv
  <2>5. (\A a \in todo'[c] : Genuine(a)) /\ (\A e \in entries'[c] : Genuine(e))
    BY <1>0, <1>g DEF TypeOK
  <2>6. \A d \in Controllers \ {c} :
           /\ pc'[d] = pc[d] /\ cur'[d] = cur[d] /\ todo'[d] = todo[d] /\ entries'[d] = entries[d]
           /\ entryIDs'[d] = entryIDs[d] /\ lastId'[d] = lastId[d]
    BY <1>0 DEF TypeOK
  <2> QED BY <1>u, <2>1, <2>2, <2>3, <2>4, <2>5, <2>6, SyncKeeps
<1>3. CASE DeleteEntryID(c)
  <2> USE <1>3 DEF DeleteEntryID, Goto
  <2>0. cur[c] \in ScheduleIds
    BY <1>0 DEF TrackInv
  <2>1. TypeOK'
    BY <1>0, <1>u DEF TypeOK, tableVars
  <2>2. TrackInv!(c)'
    BY <1>0, <2>0 DEF TypeOK, TrackInv
  <2>3. EntriesAreTracked!(c)'
    BY <1>0, <2>0 DEF TypeOK, TrackInv, EntriesAreTracked, Entry
  <2>4. \A f \in firing : f.ctl = c => SeenInv!(f)!1'
    BY <1>0, <2>0 DEF TypeOK, SeenInv, Firing, Entry
  <2> QED BY <1>0, <1>u, <1>g, <2>1, <2>2, <2>3, <2>4, SyncKeeps, ZenonT(30) DEF TypeOK
<1>4. CASE StartRegistering(c) \/ SyncEnds(c)
  <2> USE <1>4 DEF StartRegistering, SyncEnds, Goto
  <2>1. TypeOK'
    BY <1>0, <1>u DEF TypeOK, tableVars
  <2>2. TrackInv!(c)' /\ EntriesAreTracked!(c)'
    BY <1>0 DEF TypeOK, TrackInv, EntriesAreTracked
  <2>3. \A f \in firing : f.ctl = c => SeenInv!(f)!1'
    BY <1>0 DEF TypeOK, SeenInv
  <2>4. UNCHANGED <<cur, todo, entries, entryIDs, lastId>> /\ \A d \in Controllers \ {c} : pc'[d] = pc[d]
    BY <1>0 DEF TypeOK
  <2> QED BY <1>u, <1>g, <2>1, <2>2, <2>3, <2>4, SyncKeeps
<1>5. ASSUME NEW a \in todo[c], SkipSchedule(c, a) PROVE IInv'
  <2> USE <1>5 DEF SkipSchedule
  <2>1. TypeOK'
    BY <1>0, <1>u DEF TypeOK, tableVars
  <2>2. TrackInv!(c)' /\ EntriesAreTracked!(c)' /\ \A b \in todo'[c] : Genuine(b)
    BY <1>0, <1>g DEF TypeOK, TrackInv, EntriesAreTracked
  <2>3. \A f \in firing : f.ctl = c => SeenInv!(f)!1'
    BY <1>0 DEF TypeOK, SeenInv
  <2> QED BY <1>0, <1>u, <1>g, <2>1, <2>2, <2>3, SyncKeeps, ZenonT(30) DEF TypeOK
<1>6. ASSUME NEW a \in todo[c], Register(c, a) PROVE IInv'
  <2> DEFINE new == [id |-> lastId[c] + 1, sched |-> a.sched, tmpl |-> a.tmpl, spec |-> a.spec]
  <2>0. a.sched \in ScheduleIds /\ a.tmpl \in Templates /\ a.spec \in Specs
    BY <1>0 DEF TypeOK, Active
  <2>1. lastId[c] \in Nat
    BY <1>0 DEF TypeOK
  <2>2. new \in Entry /\ new.id = lastId[c] + 1 /\ new.sched = a.sched /\ Genuine(new)
    BY <1>g, <2>0, <2>1 DEF Entry, Genuine
  <2>3. /\ pc[c] = "register" /\ entryIDs[c][a.sched] = 0
        /\ lastId' = [lastId EXCEPT ![c] = @ + 1]
        /\ entries' = [entries EXCEPT ![c] = @ \cup {new}]
        /\ cur' = [cur EXCEPT ![c] = a.sched]
        /\ todo' = [todo EXCEPT ![c] = @ \ {a}]
        /\ pc' = [pc EXCEPT ![c] = "store"]
        /\ UNCHANGED entryIDs
    BY <1>6 DEF Register, AddFunc, Registered, Goto
  <2> HIDE DEF new
  <2>4. TypeOK'
    BY <1>0, <1>u, <2>0, <2>2, <2>3 DEF TypeOK, tableVars
  <2>5. /\ entries'[c] = entries[c] \cup {new} /\ lastId'[c] = lastId[c] + 1 /\ pc'[c] = "store"
        /\ cur'[c] = a.sched /\ entryIDs'[c] = entryIDs[c]
    BY <1>0, <2>3 DEF TypeOK
  <2>6. (\A e \in entries[c] : e.id \in Nat) /\ (\A s \in ScheduleIds : entryIDs[c][s] \in Nat)
    BY <1>0 DEF TypeOK, Entry
  <2>7. TrackInv!(c)'
    <3>1. \A x, y \in entries'[c] : x.id = y.id => x = y
      BY <1>0, <2>1, <2>2, <2>5, <2>6 DEF TrackInv
    <3>2. (\A e \in entries'[c] : e.id <= lastId'[c]) /\ (\A s \in ScheduleIds : entryIDs'[c][s] <= lastId'[c])
      BY <1>0, <2>1, <2>2, <2>5, <2>6 DEF TrackInv
    <3>3. \A s \in ScheduleIds : entryIDs'[c][s] # lastId'[c]
      BY <1>0, <2>1, <2>5, <2>6 DEF TrackInv
    <3>4. \A s, t \in ScheduleIds : entryIDs'[c][s] = entryIDs'[c][t] /\ entryIDs'[c][s] # 0 => s = t
      BY <1>0, <2>5 DEF TrackInv
    <3> QED BY <2>0, <2>1, <2>2, <2>3, <2>5, <3>1, <3>2, <3>3, <3>4
  <2>8. EntriesAreTracked!(c)'
    BY <1>0, <2>0, <2>1, <2>2, <2>3, <2>5 DEF EntriesAreTracked
  <2>9. \A f \in firing : f.ctl = c => SeenInv!(f)!1'
    <3> SUFFICES ASSUME NEW f \in firing, f.ctl = c, NEW e \in f.seen
                 PROVE  /\ e.id <= lastId'[c] /\ e.id # lastId'[c]
                        /\ \A s \in ScheduleIds : entryIDs'[c][s] = e.id => e.sched = s
      OBVIOUS
    <3>1. e.id \in Nat
      BY <1>0 DEF TypeOK, Firing, Entry
    <3> QED BY <1>0, <2>1, <2>5, <3>1 DEF SeenInv
  <2>10. (\A b \in todo'[c] : Genuine(b)) /\ (\A e \in entries'[c] : Genuine(e))
    BY <1>0, <1>g, <2>2, <2>3, <2>5 DEF TypeOK
  <2> QED BY <1>0, <1>u, <2>3, <2>4, <2>7, <2>8, <2>9, <2>10, SyncKeeps, ZenonT(30) DEF TypeOK
<1>7. CASE StoreEntryID(c)
  <2> USE <1>7 DEF StoreEntryID, Goto
  <2>0. cur[c] \in ScheduleIds /\ lastId[c] \in Nat
    BY <1>0 DEF TrackInv, TypeOK
  <2>1. TypeOK'
    BY <1>0, <1>u DEF TypeOK, tableVars
  <2>2. TrackInv!(c)'
    BY <1>0, <2>0 DEF TypeOK, TrackInv
  <2>3. EntriesAreTracked!(c)'
    <3>1. \A s \in ScheduleIds : entryIDs'[c][s] = IF s = cur[c] THEN lastId[c] ELSE entryIDs[c][s]
      BY <1>0, <2>0 DEF TypeOK
    <3>2. \A e \in entries[c] : e.sched \in ScheduleIds /\ e.id # 0
      BY <1>0 DEF TypeOK, Entry
    <3>3. entryIDs[c][cur[c]] = 0 /\ \E e \in entries[c] : e.id = lastId[c] /\ e.sched = cur[c]
      BY <1>0 DEF TrackInv
    <3>4. entries'[c] = entries[c]
      OBVIOUS
    <3>5. \A e \in entries[c] : entryIDs'[c][e.sched] = e.id
      BY <1>0, <3>1, <3>2, <3>3 DEF EntriesAreTracked
    <3>6. \A s \in ScheduleIds : entryIDs'[c][s] # 0 => \E e \in entries[c] : e.id = entryIDs'[c][s] /\ e.sched = s
      BY <1>0, <3>1, <3>3 DEF EntriesAreTracked
    <3> QED BY <3>4, <3>5, <3>6
  <2>4. \A f \in firing : f.ctl = c => SeenInv!(f)!1'
    BY <1>0, <2>0 DEF TypeOK, SeenInv
  <2> QED BY <1>0, <1>u, <1>g, <2>1, <2>2, <2>3, <2>4, SyncKeeps, ZenonT(30) DEF TypeOK
<1> QED BY <1>1, <1>2, <1>3, <1>4, <1>5, <1>6, <1>7 DEF SyncStep

-----------------------------------------------------------------------------
(* Callbacks and restarts. *)

\* What the invariant says of one callback.
Sound(f) == Genuine(f.entry) /\ (\A e \in f.seen : Genuine(e)) /\ SeenInv!(f)

\* A step of callbacks keeps the invariant if rows, jobs and callbacks are sound after it.
LEMMA CallbackKeeps ==
  ASSUME IInv, TypeOK', RowInv', UNCHANGED <<ctlVars, offered>>, RowsGrow,
         \A j \in jobs' : j \in jobs \/ Genuine(j),
         \A f \in firing' : f \in firing \/ (f \in Firing /\ Sound(f))
  PROVE  IInv'
<1>0. TypeOK /\ GenuineInv /\ TrackInv /\ EntriesAreTracked /\ SeenInv
  BY DEF IInv
<1>1. TrackInv' /\ EntriesAreTracked'
  BY <1>0 DEF TrackInv, EntriesAreTracked, ctlVars
<1>2. \A j \in jobs' : Genuine(j) /\ j.sched \in ScheduleIds
  BY <1>0 DEF GenuineInv, TypeOK, Active
<1>3. \A f \in firing' : Sound(f) /\ f \in Firing
  BY <1>0 DEF GenuineInv, SeenInv, Sound, TypeOK
<1>4. \A f \in firing' : /\ f.entry.sched \in ScheduleIds /\ \A e \in f.seen : e.sched \in ScheduleIds
                         /\ f.next # None => f.next.sched \in ScheduleIds
  BY <1>3 DEF Firing, Entry
<1>5. GenuineInv'
  BY <1>0, <1>2, <1>3, <1>4, GenuineKept, Scheduled DEF GenuineInv, Sound, ctlVars
<1>6. SeenInv'
  BY <1>3, <1>4, GenuineKept DEF SeenInv, Sound, ctlVars
<1> QED BY <1>1, <1>5, <1>6 DEF IInv

\* Rows that do not change are rows that grow.
LEMMA SameRows ==
  ASSUME IInv, UNCHANGED <<row, offered>>
  PROVE  RowsGrow /\ RowInv'
  BY DEF IInv, RowsGrow, RowInv

\* An entry that fires starts a sound callback.
LEMMA FireInv ==
  ASSUME IInv, NEW c \in Controllers, NEW e \in entries[c], Fire(c, e)
  PROVE  IInv'
<1> DEFINE new == [ctl |-> c, entry |-> e, at |-> "create", seen |-> {}, next |-> None]
<1>0. TypeOK /\ GenuineInv
  BY DEF IInv
<1>1. UNCHANGED <<tableVars, jobs, ctlVars, restarts>> /\ firing' = firing \cup {new}
  BY DEF Fire
<1>2. e \in Entry /\ Genuine(e)
  BY <1>0 DEF TypeOK, GenuineInv
<1>3. new \in Firing /\ new.entry = e /\ new.seen = {} /\ new.next = None
  BY <1>2 DEF Firing
<1> HIDE DEF new
<1>4. Sound(new)
  BY <1>2, <1>3 DEF Sound
<1>5. TypeOK'
  BY <1>0, <1>1, <1>3 DEF TypeOK, tableVars, ctlVars
<1>6. UNCHANGED <<row, offered>>
  BY <1>1 DEF tableVars
<1> QED BY <1>1, <1>3, <1>4, <1>5, <1>6, SameRows, CallbackKeeps

\* Every step of a callback keeps the invariant.  What it copies from the cron instance
\* is tracked at that moment, and whichever entry it matches later is its own schedule's.
LEMMA CallbackInv ==
  ASSUME IInv, NEW f \in firing, CallbackStep(f)
  PROVE  IInv'
<1> USE NoneAssumption
<1>0. TypeOK /\ RowInv /\ GenuineInv /\ TrackInv /\ EntriesAreTracked /\ SeenInv
  BY DEF IInv
<1>1. f \in Firing /\ Sound(f) /\ f.entry \in Entry /\ f.ctl \in Controllers
  BY <1>0 DEF TypeOK, Sound, GenuineInv, SeenInv, Firing
<1>2. UNCHANGED <<templates, offered, edits, ctlVars, restarts>>
  BY DEF CallbackStep
<1>j. ASSUME InsertJob(f.entry) \/ UNCHANGED jobs
      PROVE  jobs' \subseteq Active /\ \A j \in jobs' : j \in jobs \/ Genuine(j)
  <2> DEFINE new == [sched |-> f.entry.sched, tmpl |-> f.entry.tmpl, spec |-> f.entry.spec]
  <2>1. new \in Active /\ Genuine(new)
    BY <1>1 DEF Entry, Active, Sound, Genuine
  <2>2. jobs' = jobs \cup {new} \/ jobs' = jobs
    BY <1>j DEF InsertJob
  <2> HIDE DEF new
  <2> QED BY <1>0, <2>1, <2>2 DEF TypeOK
<1>k. ASSUME UNCHANGED row, InsertJob(f.entry) \/ UNCHANGED jobs,
             NEW g, g \in Firing, Sound(g), firing' = firing \ {f} \/ Becomes(f, g)
      PROVE  IInv'
  <2>1. \A h \in firing' : h \in firing \/ h = g
    BY <1>k DEF Becomes
  <2>2. TypeOK'
    BY <1>0, <1>2, <1>j, <1>k, <2>1 DEF TypeOK, ctlVars
  <2> QED BY <1>2, <1>j, <1>k, <2>1, <2>2, SameRows, CallbackKeeps
<1>3. CASE CreateJob(f) \/ CreateJobFails(f)
  <2> DEFINE g == [f EXCEPT !.at = "entries"]
  <2>1. g \in Firing /\ g.entry = f.entry /\ g.seen = f.seen /\ g.next = f.next /\ g.ctl = f.ctl
    BY <1>1 DEF Firing
  <2>2. UNCHANGED row /\ (InsertJob(f.entry) \/ UNCHANGED jobs) /\ (firing' = firing \ {f} \/ Becomes(f, g))
    BY <1>3 DEF CreateJob, CreateJobFails
  <2> HIDE DEF g
  <2>3. Sound(g)
    BY <1>1, <2>1 DEF Sound
  <2> QED BY <1>k, <2>1, <2>2, <2>3
<1>4. CASE CronEntries(f)
  <2> DEFINE g == [f EXCEPT !.at = "match", !.seen = entries[f.ctl]]
  <2>1. entries[f.ctl] \subseteq Entry
    BY <1>0, <1>1 DEF TypeOK
  <2>2. g \in Firing /\ g.entry = f.entry /\ g.seen = entries[f.ctl] /\ g.next = f.next /\ g.ctl = f.ctl
    BY <1>1, <2>1 DEF Firing
  <2>3. UNCHANGED <<row, jobs>> /\ Becomes(f, g)
    BY <1>4 DEF CronEntries
  <2> HIDE DEF g
  <2>4. \A e \in entries[f.ctl] :
          /\ Genuine(e) /\ e.id <= lastId[f.ctl]
          /\ \A s \in ScheduleIds : entryIDs[f.ctl][s] = e.id => e.sched = s
          /\ pc[f.ctl] = "store" /\ e.id = lastId[f.ctl] => e.sched = cur[f.ctl]
    <3> SUFFICES ASSUME NEW e \in entries[f.ctl] PROVE <2>4!(e)
      OBVIOUS
    <3>1. e.id # 0 /\ e.sched \in ScheduleIds
      BY <2>1 DEF Entry
    <3>2. Genuine(e) /\ e.id <= lastId[f.ctl]
      BY <1>0, <1>1 DEF GenuineInv, TrackInv
    <3>3. \A s \in ScheduleIds : entryIDs[f.ctl][s] = e.id => e.sched = s
      BY <1>0, <1>1, <3>1 DEF TrackInv, EntriesAreTracked
    <3>4. pc[f.ctl] = "store" /\ e.id = lastId[f.ctl] => e.sched = cur[f.ctl]
      BY <1>0, <1>1 DEF TrackInv
    <3> QED BY <3>2, <3>3, <3>4
  <2>5. Sound(g)
    BY <1>1, <2>2, <2>4 DEF Sound
  <2> QED BY <1>k, <2>2, <2>3, <2>5
<1>5. CASE MatchEntry(f)
  <2>1. UNCHANGED <<row, jobs>>
    BY <1>5 DEF MatchEntry
  <2>2. ASSUME f.seen = {}, Becomes(f, [f EXCEPT !.at = "update"])
        PROVE  IInv'
    <3> DEFINE g == [f EXCEPT !.at = "update"]
    <3>1. g \in Firing /\ g.entry = f.entry /\ g.seen = f.seen /\ g.next = f.next /\ g.ctl = f.ctl
      BY <1>1 DEF Firing
    <3>2. Becomes(f, g)
      BY <2>2
    <3> HIDE DEF g
    <3>3. Sound(g)
      BY <1>1, <3>1 DEF Sound
    <3> QED BY <1>k, <2>1, <3>1, <3>2, <3>3
  <2>3. ASSUME NEW e \in f.seen, e.id = entryIDs[f.ctl][f.entry.sched],
               Becomes(f, [f EXCEPT !.at = "update", !.seen = {}, !.next = e])
        PROVE  IInv'
    <3> DEFINE g == [f EXCEPT !.at = "update", !.seen = {}, !.next = e]
    <3>0. f.seen \subseteq Entry /\ f.entry.sched \in ScheduleIds
      BY <1>1 DEF Firing, Entry
    <3>1. g \in Firing /\ g.entry = f.entry /\ g.seen = {} /\ g.next = e /\ g.ctl = f.ctl
      BY <1>1, <3>0 DEF Firing
    <3>2. Becomes(f, g)
      BY <2>3
    <3> HIDE DEF g
    <3>3. Genuine(e) /\ e.sched = f.entry.sched
      BY <1>1, <2>3, <3>0 DEF Sound
    <3>4. Sound(g)
      BY <1>1, <3>1, <3>3 DEF Sound
    <3> QED BY <1>k, <2>1, <3>1, <3>2, <3>4
  <2>4. ASSUME NEW e \in f.seen, Becomes(f, [f EXCEPT !.seen = @ \ {e}])
        PROVE  IInv'
    <3> DEFINE g == [f EXCEPT !.seen = @ \ {e}]
    <3>1. g \in Firing /\ g.entry = f.entry /\ g.seen = f.seen \ {e} /\ g.next = f.next /\ g.ctl = f.ctl
      BY <1>1 DEF Firing
    <3>2. Becomes(f, g)
      BY <2>4
    <3> HIDE DEF g
    <3>3. Sound(g)
      BY <1>1, <3>1 DEF Sound
    <3> QED BY <1>k, <2>1, <3>1, <3>2, <3>3
  <2> QED BY <1>5, <2>2, <2>3, <2>4 DEF MatchEntry
<1>6. CASE UpdateScheduleLastRun(f)
  <2> DEFINE s == f.entry.sched
  <2>0. s \in ScheduleIds /\ f.next \in Entry \cup {None} /\ firing' = firing \ {f} /\ UNCHANGED jobs
    BY <1>1, <1>6 DEF Entry, Firing, UpdateScheduleLastRun
  <2>1. CASE UNCHANGED row
    BY <1>1, <1>k, <2>0, <2>1
  <2>2. CASE row' = [row EXCEPT ![s].next = f.next]
    <3>1. row[s] \in Row
      BY <1>0, <2>0 DEF TypeOK
    <3> DEFINE new == [row[s] EXCEPT !.next = f.next]
    <3>2. new \in Row /\ new.state = row[s].state /\ new.tmpl = row[s].tmpl /\ new.spec = row[s].spec
          /\ new.enabled = row[s].enabled /\ new.next = f.next
      BY <2>0, <3>1 DEF Row
    <3>3. row' = [row EXCEPT ![s] = new]
      BY <2>2
    <3> HIDE DEF new
    <3>4. TypeOK'
      BY <1>0, <1>2, <2>0, <3>2, <3>3 DEF TypeOK, ctlVars
    <3>5. f.next # None => f.next.sched = s /\ f.next.tmpl = row[s].tmpl
      BY <1>1 DEF Sound, Genuine
    <3>6. RowInv'
      BY <1>0, <1>2, <2>0, <3>2, <3>3, <3>5 DEF TypeOK, RowInv
    <3>7. RowsGrow
      BY <1>0, <1>2, <2>0, <3>2, <3>3 DEF TypeOK, RowsGrow
    <3> QED BY <1>2, <2>0, <3>4, <3>6, <3>7, CallbackKeeps
  <2> QED BY <1>6, <2>1, <2>2 DEF UpdateScheduleLastRun
<1> QED BY <1>3, <1>4, <1>5, <1>6 DEF CallbackStep

\* A controller that starts again has no entries, no ids and no callbacks.
LEMMA RestartInv ==
  ASSUME IInv, NEW c \in Controllers, Restart(c)
  PROVE  IInv'
<1>0. TypeOK /\ RowInv /\ GenuineInv /\ TrackInv /\ EntriesAreTracked /\ SeenInv
  BY DEF IInv
<1> USE DEF Restart
<1>1. TypeOK'
  BY <1>0 DEF TypeOK, tableVars
<1>2. RowInv' /\ GenuineInv'
  BY <1>0 DEF TypeOK, RowInv, GenuineInv, Genuine, tableVars
<1>3. TrackInv'
  BY <1>0 DEF TypeOK, TrackInv
<1>4. EntriesAreTracked'
  BY <1>0 DEF TypeOK, EntriesAreTracked
<1>5. SeenInv'
  <2> SUFFICES ASSUME NEW f \in firing, f.ctl # c PROVE SeenInv!(f)'
    BY DEF SeenInv
  <2>1. f.ctl \in Controllers \ {c}
    BY <1>0 DEF TypeOK, Firing
  <2>2. /\ lastId'[f.ctl] = lastId[f.ctl] /\ entryIDs'[f.ctl] = entryIDs[f.ctl]
        /\ pc'[f.ctl] = pc[f.ctl] /\ cur'[f.ctl] = cur[f.ctl] /\ UNCHANGED <<row, offered>>
    BY <1>0, <2>1 DEF TypeOK, tableVars
  <2> QED BY <1>0, <2>2 DEF SeenInv, Genuine
<1> QED BY <1>1, <1>2, <1>3, <1>4, <1>5 DEF IInv

-----------------------------------------------------------------------------
(* The theorems. *)

\* The invariant holds, for any number of controllers, schedules, edits and restarts.
THEOREM Invariance == Spec => []IInv
<1>1. Init => IInv
  <2> SUFFICES ASSUME Init PROVE IInv
    OBVIOUS
  <2>1. NoRow \in Row /\ NoRow.state = "absent" /\ NoRow.next = None
    BY DEF NoRow, Row
  <2>2. TypeOK
    BY <2>1 DEF Init, TypeOK
  <2> QED BY <2>1, <2>2
    DEF Init, IInv, RowInv, GenuineInv, TrackInv, EntriesAreTracked, SeenInv
<1>2. IInv /\ [Next]_vars => IInv'
  <2> SUFFICES ASSUME IInv, [Next]_vars PROVE IInv'
    OBVIOUS
  <2>1. CASE UNCHANGED vars
    BY <2>1 DEF vars, tableVars, ctlVars, IInv, TypeOK, RowInv, GenuineInv, Genuine, TrackInv,
       EntriesAreTracked, SeenInv
  <2> QED BY <2>1, ApiInv, SyncInv, RestartInv, FireInv, CallbackInv DEF Next
<1> QED BY <1>1, <1>2, PTL DEF Spec

\* Types are kept.
THEOREM TypeCorrect == Spec => []TypeOK
<1>1. IInv => TypeOK
  BY DEF IInv
<1> QED BY <1>1, Invariance, PTL

\* sync never loses track of an entry of its cron instance.
THEOREM TrackedEntries == Spec => []EntriesAreTracked
<1>1. IInv => EntriesAreTracked
  BY DEF IInv
<1> QED BY <1>1, Invariance, PTL

\* next_run_at is always taken from an entry of the schedule itself, although the callback
\* looks at the entries and at the map at different moments.
THEOREM OwnNextRun == Spec => []NextRunIsOwn
<1>1. IInv => NextRunIsOwn
  BY DEF IInv, RowInv, NextRunIsOwn
<1> QED BY <1>1, Invariance, PTL

\* Every job of a schedule has the schedule's template and a definition the schedule has
\* had while it was enabled.
THEOREM ScheduledJobs == Spec => []JobsWereScheduled
<1>1. IInv => JobsWereScheduled
  BY DEF IInv, GenuineInv, Genuine, JobsWereScheduled
<1> QED BY <1>1, Invariance, PTL

=============================================================================
