------------------------------ MODULE GitSync ------------------------------
(***************************************************************************)
(* How the inventory of a project follows its repository: every controller *)
(* clones or fetches it into a workspace of its own, parses the inventory  *)
(* file and replaces the rows of inventory_hosts, while API requests edit  *)
(* the project.  Projects are synced one after the other and share nothing *)
(* but the goroutine, so one project is modelled.                          *)
(*                                                                         *)
(* rows is kept by the transaction that inserted them: who, which file,    *)
(* which hosts.  A transaction without hosts leaves no rows, so last, a    *)
(* history variable, remembers what the latest one has stored.             *)
(*                                                                         *)
(*   pc  "idle"  waiting for the ticker   "cred"   about to read it        *)
(*       "clone", "fetch", "reset"        the git command is running       *)
(*       "parse", "begin"                 before the file, the transaction *)
(*       "insert"                         inside the transaction           *)
(*       "ok", "failed"                   about to write that status       *)
(***************************************************************************)
EXTENDS Naturals, FiniteSets

CONSTANTS Controllers,
          Repos, Branches,
          Main,                  \* the branch a clone checks out by itself
          Creds,
          Commits, Paths,
          FileAt,                \* what a commit holds at an inventory path
          Files, Unparsable,     \* Unparsable: missing, or a line the scanner cannot hold
          HostsOf,               \* the hosts parseINIInventory finds in a file
          Ungrouped,             \* the hosts of a file that are in no group
          MaxPushes, MaxEdits, MaxKills,
          None

ASSUME FilesAssumption ==
  /\ Unparsable \subseteq Files
  /\ FileAt \in [Commits \X Paths -> Files]
  /\ \A f \in Files : f \in DOMAIN HostsOf /\ f \in DOMAIN Ungrouped
                      /\ Ungrouped[f] \subseteq HostsOf[f]

ASSUME MainAssumption == Main \in Branches

VARIABLES head,        \* the last commit of each branch of each repository
          present, repo, branch, path, cred, status,   \* the row of projects
          creds,       \* ids in credentials
          rows,        \* inventory_hosts of the project
          last,        \* what the latest transaction that committed has stored
          ws,          \* repoDir of each controller
          pc,
          snap,        \* the project as GetAllProjects returned it
          file,        \* the file that was parsed
          seen, ins,   \* rows the DELETE saw, hosts inserted so far
          pushes, edits, kills

projVars == <<present, repo, branch, path, cred, status>>
tableVars == <<rows, last>>
workVars == <<ws, pc, snap, file, seen, ins>>
vars == <<head, projVars, creds, tableVars, workVars, pushes, edits, kills>>

Hosts == UNION {HostsOf[f] : f \in Files}
Batch == [by : Controllers, file : Files, hosts : SUBSET Hosts]
Clone == [kind : {"clone"}, repo : Repos, branch : Branches, ref : Commits, tree : Commits]
Broken == [kind |-> "broken"]      \* a directory a killed git left that no git command accepts
Snap == [repo : Repos, branch : Branches \cup {None}, path : Paths, cred : Creds \cup {None}]

ASSUME NoneAssumption ==
  None \notin Repos \cup Branches \cup Creds \cup Files \cup Batch \cup Snap \cup Clone \cup {Broken}

TypeOK ==
  /\ head \in [Repos \X Branches -> Commits]
  /\ present \in BOOLEAN
  /\ repo \in Repos \cup {None} /\ branch \in Branches \cup {None} /\ path \in Paths
  /\ cred \in Creds \cup {None}
  /\ status \in {"pending", "ok", "failed"}
  /\ creds \subseteq Creds
  /\ rows \subseteq Batch /\ last \in Batch \cup {None}
  /\ ws \in [Controllers -> Clone \cup {Broken, None}]
  /\ pc \in [Controllers -> {"idle", "cred", "clone", "fetch", "reset", "parse", "begin",
                             "insert", "ok", "failed"}]
  /\ snap \in [Controllers -> Snap \cup {None}]
  /\ file \in [Controllers -> Files \cup {None}]
  /\ seen \in [Controllers -> SUBSET Batch]
  /\ ins \in [Controllers -> SUBSET Hosts]
  /\ pushes \in Nat /\ edits \in Nat /\ kills \in Nat

Init ==
  /\ \E g \in Commits : head = [b \in Repos \X Branches |-> g]
  /\ present = TRUE
  /\ repo \in Repos /\ branch \in Branches /\ path \in Paths /\ cred \in Creds \cup {None}
  /\ status = "pending"
  /\ creds = Creds
  /\ rows = {} /\ last = None
  /\ ws = [c \in Controllers |-> None]
  /\ pc = [c \in Controllers |-> "idle"]
  /\ snap = [c \in Controllers |-> None]
  /\ file = [c \in Controllers |-> None]
  /\ seen = [c \in Controllers |-> {}]
  /\ ins = [c \in Controllers |-> {}]
  /\ pushes = 0 /\ edits = 0 /\ kills = 0

-----------------------------------------------------------------------------
(* The outside: commits, and requests to the API. *)

Push(b, g) ==
  /\ head[b] # g
  /\ pushes < MaxPushes /\ pushes' = pushes + 1
  /\ head' = [head EXCEPT ![b] = g]
  /\ UNCHANGED <<projVars, creds, tableVars, workVars, edits, kills>>

Edit == edits < MaxEdits /\ present /\ edits' = edits + 1
        /\ UNCHANGED <<head, workVars, pushes, kills>>

\* No field is checked: repo_url and branch may become empty (None).
UpdateProject(r, b, p, k) ==
  /\ Edit
  /\ k \in creds \cup {None}
  /\ repo' = r /\ branch' = b /\ path' = p /\ cred' = k
  /\ UNCHANGED <<present, status, creds, tableVars>>

\* inventory_hosts goes with it.  An INSERT of a sync holds a lock on the project.
DeleteProject ==
  /\ Edit
  /\ \A c \in Controllers : pc[c] = "insert" => ins[c] = {}
  /\ present' = FALSE /\ rows' = {}
  /\ UNCHANGED <<repo, branch, path, cred, status, creds, last>>

SyncProject ==
  /\ Edit
  /\ status' = "pending"
  /\ UNCHANGED <<present, repo, branch, path, cred, creds, tableVars>>

\* ON DELETE SET NULL
DeleteCredential(k) ==
  /\ Edit
  /\ k \in creds /\ creds' = creds \ {k}
  /\ cred' = IF cred = k THEN None ELSE cred
  /\ UNCHANGED <<present, repo, branch, path, status, tableVars>>

OutsideStep ==
  \/ \E b \in Repos \X Branches, g \in Commits : Push(b, g)
  \/ \E r \in Repos \cup {None}, b \in Branches \cup {None}, p \in Paths, k \in Creds \cup {None} :
       UpdateProject(r, b, p, k)
  \/ DeleteProject
  \/ SyncProject
  \/ \E k \in Creds : DeleteCredential(k)

-----------------------------------------------------------------------------
(* syncAll and syncProject. *)

Goto(c, at) == pc' = [pc EXCEPT ![c] = at]

EndPass(c) ==
  /\ Goto(c, "idle")
  /\ snap' = [snap EXCEPT ![c] = None]
  /\ file' = [file EXCEPT ![c] = None]
  /\ seen' = [seen EXCEPT ![c] = {}]
  /\ ins' = [ins EXCEPT ![c] = {}]

\* A project without repo_url is passed over, and so is every project when the
\* statement fails.
GetAllProjects(c) ==
  /\ pc[c] = "idle" /\ present /\ repo # None
  /\ snap' = [snap EXCEPT ![c] = [repo |-> repo, branch |-> branch, path |-> path, cred |-> cred]]
  /\ Goto(c, "cred")
  /\ UNCHANGED <<projVars, tableVars, ws, file, seen, ins>>

GetCredential(c) ==
  /\ pc[c] = "cred" /\ snap[c].cred \in creds \cup {None}
  /\ Goto(c, IF ws[c] = None THEN "clone" ELSE "fetch")
  /\ UNCHANGED <<projVars, tableVars, ws, snap, file, seen, ins>>

\* Deleted since, or the statement fails: no status is written.
GetCredentialFails(c) ==
  /\ pc[c] = "cred" /\ snap[c].cred # None
  /\ EndPass(c)
  /\ UNCHANGED <<projVars, tableVars, ws>>

Cloned(c) ==
  LET b == IF snap[c].branch = None THEN Main ELSE snap[c].branch
      at == head[<<snap[c].repo, b>>]
  IN [kind |-> "clone", repo |-> snap[c].repo, branch |-> b, ref |-> at, tree |-> at]

CloneRepo(c) ==
  /\ pc[c] = "clone"
  /\ ws' = [ws EXCEPT ![c] = Cloned(c)]
  /\ Goto(c, "parse")
  /\ UNCHANGED <<projVars, tableVars, snap, file, seen, ins>>

\* The remote is the one that was cloned, and only the cloned branch has a
\* remote-tracking ref that fetch moves.
Fetch(c) ==
  /\ pc[c] = "fetch" /\ ws[c].kind = "clone"
  /\ ws' = IF ws[c].branch = snap[c].branch
           THEN [ws EXCEPT ![c].ref = head[<<ws[c].repo, snap[c].branch>>]] ELSE ws
  /\ Goto(c, "reset")
  /\ UNCHANGED <<projVars, tableVars, snap, file, seen, ins>>

\* Mutant: the fetched branch is not checked out.
ResetNothing(c) ==
  /\ pc[c] = "reset" /\ ws[c].branch = snap[c].branch
  /\ Goto(c, "parse")
  /\ UNCHANGED <<projVars, tableVars, ws, snap, file, seen, ins>>

Reset(c) ==
  /\ pc[c] = "reset" /\ ws[c].branch = snap[c].branch
  /\ ws' = [ws EXCEPT ![c].tree = ws[c].ref]
  /\ Goto(c, "parse")
  /\ UNCHANGED <<projVars, tableVars, snap, file, seen, ins>>

\* A clone that fails removes its directory.
GitFails(c) ==
  /\ pc[c] \in {"clone", "fetch", "reset"}
  /\ Goto(c, "failed")
  /\ UNCHANGED <<projVars, tableVars, ws, snap, file, seen, ins>>

ParseINIInventory(c) ==
  /\ pc[c] = "parse"
  /\ LET f == FileAt[<<ws[c].tree, snap[c].path>>]
     IN /\ file' = [file EXCEPT ![c] = f]
        /\ Goto(c, IF f \in Unparsable THEN "failed" ELSE "begin")
  /\ UNCHANGED <<projVars, tableVars, ws, snap, seen, ins>>

\* BEGIN and DELETE: the statement sees the rows committed before it started.
TxDelete(c) ==
  /\ pc[c] = "begin"
  /\ seen' = [seen EXCEPT ![c] = rows]
  /\ ins' = [ins EXCEPT ![c] = {}]
  /\ Goto(c, "insert")
  /\ UNCHANGED <<projVars, tableVars, ws, snap, file>>

TxInsert(c) ==
  /\ pc[c] = "insert" /\ present
  /\ \E h \in HostsOf[file[c]] \ ins[c] :
       h \notin Ungrouped[file[c]] /\ ins' = [ins EXCEPT ![c] = @ \cup {h}]
  /\ UNCHANGED <<projVars, tableVars, ws, pc, snap, file, seen>>

\* Without hosts nothing is inserted: the table is left empty.
Commit(c) ==
  LET batch == [by |-> c, file |-> file[c], hosts |-> ins[c]]
  IN /\ rows' = (rows \ seen[c]) \cup (IF ins[c] = {} THEN {} ELSE {batch})
     /\ last' = batch

\* Mutant: the first failing INSERT commits what went before it.
TxCommitPartly(c) ==
  /\ pc[c] = "insert" /\ (present \/ ins[c] = {})
  /\ Commit(c)
  /\ Goto(c, "ok")
  /\ UNCHANGED <<projVars, ws, snap, file, seen, ins>>

TxCommit(c) ==
  /\ pc[c] = "insert" /\ ins[c] = HostsOf[file[c]]
  /\ present \/ ins[c] = {}      \* the rows reference the project
  /\ Commit(c)
  /\ Goto(c, "ok")
  /\ UNCHANGED <<projVars, ws, snap, file, seen, ins>>

\* Mutant: the DELETE is not part of the transaction.
TxRollbackInserts(c) ==
  /\ pc[c] \in {"begin", "insert"}
  /\ Goto(c, "failed")
  /\ rows' = rows \ seen[c]
  /\ UNCHANGED <<projVars, last, ws, snap, file, seen, ins>>

\* Mutant: the error of the transaction is not returned.
TxRollbackUnnoticed(c) ==
  /\ pc[c] \in {"begin", "insert"}
  /\ Goto(c, "ok")
  /\ UNCHANGED <<projVars, tableVars, ws, snap, file, seen, ins>>

\* A statement fails: the project is gone, a host has no group (a nil slice is NULL,
\* which groups does not admit), or the database has gone away.
TxRollback(c) ==
  /\ pc[c] \in {"begin", "insert"}
  /\ Goto(c, "failed")
  /\ UNCHANGED <<projVars, tableVars, ws, snap, file, seen, ins>>

\* Mutant: only a failure is recorded.
UpdateProjectSyncStatusFailure(c) ==
  /\ pc[c] \in {"ok", "failed"}
  /\ status' = IF present /\ pc[c] = "failed" THEN pc[c] ELSE status
  /\ EndPass(c)
  /\ UNCHANGED <<present, repo, branch, path, cred, tableVars, ws>>

UpdateProjectSyncStatus(c) ==
  /\ pc[c] \in {"ok", "failed"}
  /\ status' = IF present THEN pc[c] ELSE status
  /\ EndPass(c)
  /\ UNCHANGED <<present, repo, branch, path, cred, tableVars, ws>>

\* The error of the statement is dropped or logged.
StatusLost(c) ==
  /\ pc[c] \in {"ok", "failed"}
  /\ EndPass(c)
  /\ UNCHANGED <<projVars, tableVars, ws>>

Works(c) ==
  \/ GetAllProjects(c) \/ GetCredential(c) \/ CloneRepo(c) \/ Fetch(c) \/ Reset(c)
  \/ ParseINIInventory(c) \/ TxDelete(c) \/ TxInsert(c) \/ TxCommit(c)
  \/ UpdateProjectSyncStatus(c)

\* What goes wrong although nothing prevents the step (bounded), or because it must.
Fails(c) ==
  GetCredentialFails(c) \/ GitFails(c) \/ TxRollback(c) \/ StatusLost(c)

MustFail(c) ==
  \/ pc[c] = "cred" /\ snap[c].cred \notin creds \cup {None}
  \/ pc[c] = "fetch" /\ ws[c].kind = "broken"
  \/ pc[c] = "reset" /\ ws[c].branch # snap[c].branch
  \/ pc[c] = "insert" /\ ((~present /\ HostsOf[file[c]] # {}) \/ Ungrouped[file[c]] # {})

SyncStep(c) ==
  /\ Works(c) \/ (MustFail(c) /\ Fails(c))
  /\ UNCHANGED <<head, creds, pushes, edits, kills>>

Fault(c) ==
  /\ kills < MaxKills /\ kills' = kills + 1
  /\ Fails(c)
  /\ UNCHANGED <<head, creds, pushes, edits>>

\* The process is stopped.  git is killed with it: any of its commands may leave a directory
\* the next one refuses (not yet a repository, or locked by a file of the killed command), a
\* clone also nothing or what a fetch completes (its tree is not read before that).
Killed(c) ==
  /\ kills < MaxKills /\ kills' = kills + 1
  /\ EndPass(c)
  /\ \/ UNCHANGED ws
     \/ pc[c] \in {"clone", "fetch", "reset"} /\ ws' = [ws EXCEPT ![c] = Broken]
     \/ pc[c] = "clone" /\ ws' = [ws EXCEPT ![c] = Cloned(c)]
  /\ UNCHANGED <<head, projVars, creds, tableVars, pushes, edits>>

Next == OutsideStep \/ \E c \in Controllers : SyncStep(c) \/ Fault(c) \/ Killed(c)

Spec == Init /\ [][Next]_vars

\* The ticker of Run keeps firing and its statements and git commands return.
FairSpec == Spec /\ \A c \in Controllers : WF_vars(SyncStep(c))

-----------------------------------------------------------------------------
(* Properties. *)

\* What a job reads as its inventory are whole files only, at most one per controller:
\* no failure, kill or interleaving of two syncs leaves part of a host list in the table.
RowsAreWhole ==
  /\ \A b \in rows : b.hosts = HostsOf[b.file] /\ b.hosts # {} /\ b.file \notin Unparsable
  /\ \A a, b \in rows : a.by = b.by => a = b

\* A failing sync never costs a project the inventory it has: the table is emptied only with
\* the project, or by the commit of a sync that has read a whole file and found no host in it.
ReadNoHosts(c) ==
  /\ pc[c] = "insert" /\ pc'[c] = "ok"
  /\ file[c] \in Files \ Unparsable /\ HostsOf[file[c]] = {}
InventoryIsKept ==
  [][rows # {} /\ rows' = {} => ~present' \/ \E c \in Controllers : ReadNoHosts(c)]_vars

\* "ok" is shown only while the table holds what the latest completed sync has read: all the
\* hosts of its file, or none when the file had none.
OkMeansStored ==
  present /\ status = "ok" =>
    last # None /\ last.hosts = HostsOf[last.file] /\ (last.hosts # {} => last \in rows)

\* A project that stays in "pending" with a repository to read is a sync request nobody
\* answers; each is answered, even when credentials vanish, git fails or processes stop.
SyncIsAnswered ==
  status = "pending" /\ present /\ repo # None ~> status # "pending" \/ ~present \/ repo = None

\* Where the clone is usable and still the project's repository and branch, and the file is
\* one the table can hold, the rows of every controller come to be those of the branch head.
HeadFile == FileAt[<<head[<<repo, branch>>], path>>]
Syncable(c) ==
  /\ present /\ repo # None /\ branch # None
  /\ \/ ws[c] = None
     \/ ws[c].kind = "clone" /\ ws[c].repo = repo /\ ws[c].branch = branch
  /\ HeadFile \notin Unparsable /\ Ungrouped[HeadFile] = {}
HeadIsStored ==
  (\A c \in Controllers : <>[]Syncable(c)) =>
    <>[](/\ repo # None /\ branch # None
         /\ rows = {} <=> HostsOf[HeadFile] = {}
         /\ \A b \in rows : b.file = HeadFile)

=============================================================================
