--------------------------- MODULE GitSync_proofs ---------------------------
(***************************************************************************)
(* What the inventory table keeps for any number of controllers, hosts and *)
(* files.  A transaction replaces the rows its DELETE saw; what makes the  *)
(* result whole is that the rows a controller inserted earlier are among   *)
(* them (TxInv), whoever else has committed since.                         *)
(***************************************************************************)
EXTENDS GitSync, TLAPS

\* What a pass has at hand where it needs it.
PassInv ==
  \A c \in Controllers :
    /\ pc[c] # "idle" => snap[c] # None
    /\ pc[c] \in {"fetch", "reset", "parse"} => ws[c] # None
    /\ pc[c] \in {"reset", "parse"} => ws[c] # Broken
    /\ pc[c] \in {"begin", "insert"} => file[c] \in Files \ Unparsable

\* A transaction will remove whatever its own controller has in the table.
TxInv ==
  \A c \in Controllers : pc[c] = "insert" => \A b \in rows : b.by = c => b \in seen[c]

\* The latest commit stored a whole file, and its rows stay for as long as the project does.
LastInv ==
  last # None => last.hosts = HostsOf[last.file] /\ (present /\ last.hosts # {} => last \in rows)

\* A sync reports "ok" after a commit only.
OkInv ==
  /\ \A c \in Controllers : pc[c] = "ok" => last # None
  /\ status = "ok" => last # None

IInv == TypeOK /\ PassInv /\ TxInv /\ RowsAreWhole /\ LastInv /\ OkInv

-----------------------------------------------------------------------------
\* A step that leaves the table and the transactions alone keeps what is said of rows.
LEMMA RowsKept ==
  ASSUME IInv, TypeOK', PassInv', UNCHANGED <<rows, last, status, present>>,
         \A c \in Controllers : pc'[c] = "insert" => pc[c] = "insert" /\ seen'[c] = seen[c],
         \A c \in Controllers : pc'[c] = "ok" => pc[c] = "ok"
  PROVE  IInv'
  BY DEF IInv, TxInv, RowsAreWhole, LastInv, OkInv

\* Pushes and requests keep the invariant; a project that is deleted takes its rows along.
LEMMA OutsideInv == ASSUME IInv, OutsideStep PROVE IInv'
<1>0. TypeOK /\ PassInv /\ TxInv /\ RowsAreWhole /\ LastInv /\ OkInv
  BY DEF IInv
<1>1. ASSUME NEW b \in Repos \X Branches, NEW g \in Commits, Push(b, g) PROVE IInv'
  <2>1. TypeOK'
    BY <1>0, <1>1 DEF Push, TypeOK, projVars, workVars, tableVars
  <2>2. PassInv'
    BY <1>0, <1>1 DEF Push, PassInv, workVars
  <2> QED BY <1>1, <2>1, <2>2, RowsKept DEF Push, projVars, workVars, tableVars
<1>2. ASSUME NEW r \in Repos \cup {None}, NEW b \in Branches \cup {None}, NEW p \in Paths,
             NEW k \in Creds \cup {None}, UpdateProject(r, b, p, k)
      PROVE  IInv'
  <2>1. TypeOK'
    BY <1>0, <1>2 DEF UpdateProject, Edit, TypeOK, workVars, tableVars
  <2>2. PassInv'
    BY <1>0, <1>2 DEF UpdateProject, Edit, PassInv, workVars
  <2> QED BY <1>2, <2>1, <2>2, RowsKept DEF UpdateProject, Edit, workVars, tableVars
<1>3. CASE DeleteProject
  <2>1. TypeOK'
    <3>1. present' \in BOOLEAN
      BY <1>3, Zenon DEF DeleteProject
    <3>2. rows' \subseteq Batch /\ edits' \in Nat
      BY <1>0, <1>3 DEF DeleteProject, Edit, TypeOK
    <3>3. UNCHANGED <<head, repo, branch, path, cred, status, creds, last, workVars, pushes, kills>>
      BY <1>3 DEF DeleteProject, Edit
    <3> QED BY <1>0, <3>1, <3>2, <3>3 DEF TypeOK, workVars
  <2>2. PassInv'
    BY <1>0, <1>3 DEF DeleteProject, Edit, PassInv, workVars
  <2>3. TxInv' /\ RowsAreWhole' /\ LastInv' /\ OkInv'
    BY <1>0, <1>3 DEF DeleteProject, Edit, workVars, TxInv, RowsAreWhole, LastInv, OkInv
  <2> QED BY <2>1, <2>2, <2>3 DEF IInv
<1>4. CASE SyncProject
  <2>1. TypeOK'
    BY <1>0, <1>4 DEF SyncProject, Edit, TypeOK, workVars, tableVars
  <2>2. PassInv'
    BY <1>0, <1>4 DEF SyncProject, Edit, PassInv, workVars
  <2>3. TxInv' /\ RowsAreWhole' /\ LastInv' /\ OkInv'
    BY <1>0, <1>4 DEF SyncProject, Edit, workVars, tableVars, TxInv, RowsAreWhole, LastInv, OkInv
  <2> QED BY <2>1, <2>2, <2>3 DEF IInv
<1>5. ASSUME NEW k \in Creds, DeleteCredential(k) PROVE IInv'
  <2>1. TypeOK'
    BY <1>0, <1>5 DEF DeleteCredential, Edit, TypeOK, workVars, tableVars
  <2>2. PassInv'
    BY <1>0, <1>5 DEF DeleteCredential, Edit, PassInv, workVars
  <2> QED BY <1>5, <2>1, <2>2, RowsKept DEF DeleteCredential, Edit, workVars, tableVars
<1> QED BY <1>1, <1>2, <1>3, <1>4, <1>5 DEF OutsideStep

\* A pass that ends, for whatever reason, leaves the table as it is.
LEMMA EndPassInv ==
  ASSUME IInv, NEW c \in Controllers, EndPass(c),
         UNCHANGED <<head, projVars, creds, tableVars>>,
         ws' \in [Controllers -> Clone \cup {Broken, None}],
         \A d \in Controllers \ {c} : ws'[d] = ws[d],
         pushes' \in Nat /\ edits' \in Nat /\ kills' \in Nat
  PROVE  IInv'
<1>0. TypeOK /\ PassInv
  BY DEF IInv
<1>1. TypeOK'
  BY <1>0 DEF EndPass, Goto, TypeOK, projVars, tableVars
<1>2. PassInv'
  BY <1>0 DEF EndPass, Goto, TypeOK, PassInv
<1> QED BY <1>0, <1>1, <1>2, RowsKept DEF EndPass, Goto, TypeOK, projVars, tableVars

\* What a clone leaves in the workspace.
LEMMA ClonedType ==
  ASSUME TypeOK, PassInv, NEW c \in Controllers, pc[c] = "clone"
  PROVE  Cloned(c) \in Clone
<1>1. snap[c] \in Snap
  BY DEF TypeOK, PassInv
<1> DEFINE b == IF snap[c].branch = None THEN Main ELSE snap[c].branch
<1>2. snap[c].repo \in Repos /\ b \in Branches
  BY <1>1, MainAssumption DEF Snap
<1>3. head[<<snap[c].repo, b>>] \in Commits
  BY <1>2 DEF TypeOK
<1> QED BY <1>2, <1>3 DEF Cloned, Clone

\* The steps of a pass that end before the transaction or start it.
LEMMA PassStepInv ==
  ASSUME IInv, NEW c \in Controllers, UNCHANGED <<head, creds, pushes, edits>>, kills' \in Nat,
         \/ GetAllProjects(c) \/ GetCredential(c) \/ CloneRepo(c) \/ Fetch(c) \/ Reset(c)
         \/ ParseINIInventory(c) \/ GitFails(c) \/ TxRollback(c)
  PROVE  IInv'
<1> USE NoneAssumption
<1>0. TypeOK /\ PassInv
  BY DEF IInv
<1>1. UNCHANGED <<projVars, tableVars, seen, ins>>
  BY DEF GetAllProjects, GetCredential, CloneRepo, Fetch, Reset, ParseINIInventory, GitFails, TxRollback
<1>2. \A d \in Controllers : pc'[d] \in {"insert", "ok"} => pc'[d] = pc[d]
  BY <1>0
  DEF GetAllProjects, GetCredential, CloneRepo, Fetch, Reset, ParseINIInventory, GitFails,
      TxRollback, Goto, TypeOK
<1>3. ASSUME TypeOK', PassInv' PROVE IInv'
  BY <1>1, <1>2, <1>3, RowsKept DEF projVars, tableVars
<1>4. CASE GetAllProjects(c)
  <2> DEFINE s == [repo |-> repo, branch |-> branch, path |-> path, cred |-> cred]
  <2>1. s \in Snap /\ s # None
    BY <1>0, <1>4 DEF GetAllProjects, TypeOK, Snap
  <2>2. /\ snap' = [snap EXCEPT ![c] = s] /\ pc' = [pc EXCEPT ![c] = "cred"]
        /\ UNCHANGED <<ws, file>>
    BY <1>4 DEF GetAllProjects, Goto
  <2> HIDE DEF s
  <2>3. TypeOK'
    BY <1>0, <1>1, <2>1, <2>2 DEF TypeOK, projVars, tableVars
  <2>4. PassInv'
    BY <1>0, <2>1, <2>2 DEF TypeOK, PassInv
  <2> QED BY <1>3, <2>3, <2>4
<1>5. CASE GetCredential(c)
  <2>1. TypeOK'
    BY <1>0, <1>1, <1>5 DEF GetCredential, Goto, TypeOK, projVars, tableVars
  <2>2. PassInv'
    BY <1>0, <1>5 DEF GetCredential, Goto, TypeOK, PassInv
  <2> QED BY <1>3, <2>1, <2>2
<1>6. CASE CloneRepo(c)
  <2>1. Cloned(c) \in Clone /\ Cloned(c) # None /\ Cloned(c) # Broken
    <3>1. Cloned(c) \in Clone
      BY <1>0, <1>6, ClonedType DEF CloneRepo
    <3>2. Cloned(c).kind = "clone" /\ Broken.kind = "broken"
      BY DEF Cloned, Broken
    <3> QED BY <3>1, <3>2
  <2>2. TypeOK'
    BY <1>0, <1>1, <1>6, <2>1 DEF CloneRepo, Goto, TypeOK, projVars, tableVars
  <2>3. PassInv'
    BY <1>0, <1>6, <2>1 DEF CloneRepo, Goto, TypeOK, PassInv
  <2> QED BY <1>3, <2>2, <2>3
<1>7. CASE Fetch(c) \/ Reset(c)
  <2>1. pc[c] \in {"fetch", "reset"} /\ ws[c] \in Clone /\ snap[c] \in Snap
    <3>1. Broken.kind # "clone"
      BY DEF Broken
    <3> QED BY <1>0, <1>7, <3>1 DEF Fetch, Reset, TypeOK, PassInv
  <2>2. ws'[c] \in Clone /\ ws'[c] # Broken /\ ws'[c] # None /\ ws' = [ws EXCEPT ![c] = ws'[c]]
    <3>1. /\ ws[c].ref \in Commits
          /\ ws[c].branch = snap[c].branch => head[<<ws[c].repo, snap[c].branch>>] \in Commits
      BY <1>0, <2>1 DEF TypeOK, Clone
    <3>2. ws'[c] \in Clone /\ ws' = [ws EXCEPT ![c] = ws'[c]]
      BY <1>0, <1>7, <2>1, <3>1 DEF Fetch, Reset, TypeOK, Clone
    <3>3. ws'[c].kind = "clone" /\ Broken.kind = "broken"
      BY <3>2 DEF Clone, Broken
    <3> QED BY <3>2, <3>3
  <2>3. (pc' = [pc EXCEPT ![c] = "reset"] \/ pc' = [pc EXCEPT ![c] = "parse"]) /\ UNCHANGED <<snap, file>>
    BY <1>7 DEF Fetch, Reset, Goto
  <2>4. TypeOK'
    BY <1>0, <1>1, <2>2, <2>3 DEF TypeOK, projVars, tableVars
  <2>5. PassInv'
    BY <1>0, <2>1, <2>2, <2>3 DEF TypeOK, PassInv
  <2> QED BY <1>3, <2>4, <2>5
<1>8. CASE ParseINIInventory(c)
  <2> DEFINE f == FileAt[<<ws[c].tree, snap[c].path>>]
  <2>1. f \in Files
    <3>1. ws[c] \in Clone /\ snap[c] \in Snap
      BY <1>0, <1>8 DEF ParseINIInventory, TypeOK, PassInv
    <3>2. ws[c].tree \in Commits /\ snap[c].path \in Paths
      BY <3>1 DEF Clone, Snap
    <3> QED BY <3>2, FilesAssumption
  <2>2. /\ file' = [file EXCEPT ![c] = f] /\ UNCHANGED <<ws, snap>>
        /\ pc' = [pc EXCEPT ![c] = IF f \in Unparsable THEN "failed" ELSE "begin"]
    BY <1>8 DEF ParseINIInventory, Goto
  <2> HIDE DEF f
  <2>3. TypeOK'
    BY <1>0, <1>1, <2>1, <2>2 DEF TypeOK, projVars, tableVars
  <2>4. /\ snap'[c] # None /\ pc'[c] \in {"failed", "begin"} /\ file'[c] = f
        /\ pc'[c] = "begin" => f \notin Unparsable
        /\ \A d \in Controllers \ {c} : pc'[d] = pc[d] /\ file'[d] = file[d]
    BY <1>0, <1>8, <2>2 DEF ParseINIInventory, TypeOK, PassInv
  <2>5. PassInv'
    BY <1>0, <2>1, <2>2, <2>4 DEF PassInv
  <2> QED BY <1>3, <2>3, <2>5
<1>9. CASE GitFails(c) \/ TxRollback(c)
  <2>1. TypeOK'
    BY <1>0, <1>1, <1>9 DEF GitFails, TxRollback, Goto, TypeOK, projVars, tableVars
  <2>2. PassInv'
    BY <1>0, <1>9 DEF GitFails, TxRollback, Goto, TypeOK, PassInv
  <2> QED BY <1>3, <2>1, <2>2
<1> QED BY <1>4, <1>5, <1>6, <1>7, <1>8, <1>9

\* The transaction of UpsertInventoryHosts keeps the table whole: the commit replaces what its
\* DELETE saw, its own earlier rows among them, by all hosts of one file.
LEMMA TxStepInv ==
  ASSUME IInv, NEW c \in Controllers, UNCHANGED <<head, creds, pushes, edits, kills>>,
         TxDelete(c) \/ TxInsert(c) \/ TxCommit(c)
  PROVE  IInv'
<1> USE NoneAssumption
<1>0. TypeOK /\ PassInv /\ TxInv /\ RowsAreWhole /\ LastInv /\ OkInv
  BY DEF IInv
<1>1. UNCHANGED <<projVars, ws, snap, file>>
  BY DEF TxDelete, TxInsert, TxCommit
<1>2. CASE TxDelete(c)
  <2> USE <1>2 DEF TxDelete, Goto
  <2>1. TypeOK'
    BY <1>0, <1>1 DEF TypeOK, projVars, tableVars
  <2>2. PassInv'
    BY <1>0 DEF TypeOK, PassInv
  <2>3. TxInv'
    BY <1>0 DEF TypeOK, TxInv, tableVars
  <2>4. RowsAreWhole' /\ LastInv' /\ OkInv'
    BY <1>0 DEF TypeOK, RowsAreWhole, LastInv, OkInv, projVars, tableVars
  <2> QED BY <2>1, <2>2, <2>3, <2>4 DEF IInv
<1>3. CASE TxInsert(c)
  <2> USE <1>3 DEF TxInsert
  <2>1. TypeOK'
    <3>1. file[c] \in Files
      BY <1>0 DEF PassInv
    <3>2. HostsOf[file[c]] \subseteq Hosts
      BY <3>1 DEF Hosts
    <3> QED BY <1>0, <1>1, <3>2 DEF TypeOK, projVars, tableVars
  <2>2. PassInv' /\ TxInv' /\ RowsAreWhole' /\ LastInv' /\ OkInv'
    BY <1>0 DEF PassInv, TxInv, RowsAreWhole, LastInv, OkInv, projVars, tableVars
  <2> QED BY <2>1, <2>2 DEF IInv
<1>4. CASE TxCommit(c)
  <2> DEFINE batch == [by |-> c, file |-> file[c], hosts |-> ins[c]]
  <2>1. pc[c] = "insert" /\ ins[c] = HostsOf[file[c]] /\ file[c] \in Files \ Unparsable
    BY <1>0, <1>4 DEF TxCommit, PassInv
  <2>2. batch \in Batch /\ batch.by = c /\ batch.file = file[c] /\ batch.hosts = HostsOf[file[c]]
    BY <1>0, <2>1 DEF Batch, TypeOK
  <2>3. /\ rows' = (rows \ seen[c]) \cup (IF ins[c] = {} THEN {} ELSE {batch})
        /\ last' = batch
        /\ pc' = [pc EXCEPT ![c] = "ok"] /\ UNCHANGED <<seen, ins>>
    BY <1>4 DEF TxCommit, Commit, Goto
  <2> HIDE DEF batch
  <2>4. \A b \in rows' : (b = batch /\ ins[c] # {}) \/ (b \in rows /\ b.by # c)
    BY <1>0, <2>1, <2>3 DEF TxInv
  <2>5. TypeOK'
    BY <1>0, <1>1, <2>2, <2>3 DEF TypeOK, projVars
  <2>6. PassInv'
    BY <1>0, <1>1, <2>1, <2>3 DEF TypeOK, PassInv
  <2>7. TxInv'
    BY <1>0, <2>2, <2>3, <2>4 DEF TypeOK, TxInv
  <2>8. RowsAreWhole'
    BY <1>0, <2>1, <2>2, <2>4 DEF RowsAreWhole
  <2>9. LastInv' /\ OkInv'
    BY <1>0, <1>1, <2>1, <2>2, <2>3 DEF LastInv, OkInv
  <2> QED BY <2>5, <2>6, <2>7, <2>8, <2>9 DEF IInv
<1> QED BY <1>2, <1>3, <1>4

\* The end of a pass that writes its status: "ok" only after its own commit.
LEMMA StatusInv ==
  ASSUME IInv, NEW c \in Controllers, UNCHANGED <<head, creds, pushes, edits, kills>>,
         UpdateProjectSyncStatus(c)
  PROVE  IInv'
<1>0. TypeOK /\ PassInv /\ TxInv /\ RowsAreWhole /\ LastInv /\ OkInv
  BY DEF IInv
<1> USE DEF UpdateProjectSyncStatus
<1>1. TypeOK'
  <2>1. status' \in {"pending", "ok", "failed"}
    BY <1>0 DEF TypeOK
  <2> QED BY <1>0, <2>1 DEF TypeOK, EndPass, Goto, tableVars
<1>2. PassInv' /\ TxInv'
  BY <1>0 DEF TypeOK, PassInv, TxInv, EndPass, Goto, tableVars
<1>3. RowsAreWhole' /\ LastInv' /\ OkInv'
  BY <1>0 DEF TypeOK, RowsAreWhole, LastInv, OkInv, EndPass, Goto, tableVars
<1> QED BY <1>1, <1>2, <1>3 DEF IInv

\* A pass that fails, at whatever step, keeps the invariant.
LEMMA FailsInv ==
  ASSUME IInv, NEW c \in Controllers, UNCHANGED <<head, creds, pushes, edits>>, kills' \in Nat, Fails(c)
  PROVE  IInv'
<1>0. TypeOK
  BY DEF IInv
<1>1. CASE GetCredentialFails(c) \/ StatusLost(c)
  <2>1. EndPass(c) /\ UNCHANGED <<projVars, tableVars, ws>>
    BY <1>1 DEF GetCredentialFails, StatusLost
  <2> QED BY <1>0, <2>1, EndPassInv DEF TypeOK
<1>2. CASE GitFails(c) \/ TxRollback(c)
  BY <1>2, PassStepInv
<1> QED BY <1>1, <1>2 DEF Fails

\* A process that is stopped leaves the table as it is and its clone in any state.
LEMMA KilledInv ==
  ASSUME IInv, NEW c \in Controllers, Killed(c)
  PROVE  IInv'
<1>0. TypeOK /\ PassInv
  BY DEF IInv
<1>1. kills' \in Nat
  BY <1>0 DEF Killed, TypeOK
<1>2. EndPass(c) /\ UNCHANGED <<head, projVars, creds, tableVars, pushes, edits>>
  BY DEF Killed
<1>3. ws' \in [Controllers -> Clone \cup {Broken, None}] /\ \A d \in Controllers \ {c} : ws'[d] = ws[d]
  <2>1. CASE UNCHANGED ws
    BY <1>0, <2>1 DEF TypeOK
  <2>2. CASE ws' = [ws EXCEPT ![c] = Broken]
    BY <1>0, <2>2 DEF TypeOK
  <2>3. CASE pc[c] = "clone" /\ ws' = [ws EXCEPT ![c] = Cloned(c)]
    <3>1. Cloned(c) \in Clone
      BY <1>0, <2>3, ClonedType
    <3> QED BY <1>0, <2>3, <3>1 DEF TypeOK
  <2> QED BY <2>1, <2>2, <2>3 DEF Killed
<1> QED BY <1>0, <1>1, <1>2, <1>3, EndPassInv DEF TypeOK

\* The invariant holds, for any number of controllers, files, failures and restarts.
THEOREM Invariance == Spec => []IInv
<1>1. Init => IInv
  <2> SUFFICES ASSUME Init PROVE IInv
    OBVIOUS
  <2>1. TypeOK
    BY DEF Init, TypeOK
  <2> QED BY <2>1 DEF Init, IInv, PassInv, TxInv, RowsAreWhole, LastInv, OkInv
<1>2. IInv /\ [Next]_vars => IInv'
  <2> SUFFICES ASSUME IInv, [Next]_vars PROVE IInv'
    OBVIOUS
  <2>0. TypeOK
    BY DEF IInv
  <2>1. CASE UNCHANGED vars
    BY <2>1 DEF vars, projVars, workVars, tableVars, IInv, TypeOK, PassInv, TxInv, RowsAreWhole,
       LastInv, OkInv
  <2>2. ASSUME NEW c \in Controllers, SyncStep(c) PROVE IInv'
    <3>1. UNCHANGED <<head, creds, pushes, edits, kills>> /\ kills' \in Nat
      BY <2>0, <2>2 DEF SyncStep, TypeOK
    <3> QED BY <2>2, <3>1, PassStepInv, TxStepInv, StatusInv, FailsInv DEF SyncStep, Works
  <2>3. ASSUME NEW c \in Controllers, Fault(c) PROVE IInv'
    <3>1. UNCHANGED <<head, creds, pushes, edits>> /\ kills' \in Nat /\ Fails(c)
      BY <2>0, <2>3 DEF Fault, TypeOK
    <3> QED BY <3>1, FailsInv
  <2> QED BY <2>1, <2>2, <2>3, OutsideInv, KilledInv DEF Next
<1> QED BY <1>1, <1>2, PTL DEF Spec

\* Types are kept, whatever is pushed, edited, failed or killed.
THEOREM TypeCorrect == Spec => []TypeOK
<1>1. IInv => TypeOK
  BY DEF IInv
<1> QED BY <1>1, Invariance, PTL

\* The table holds whole files, at most one per controller, however many controllers
\* replace it at the same time and wherever they fail.
THEOREM WholeInventory == Spec => []RowsAreWhole
<1>1. IInv => RowsAreWhole
  BY DEF IInv
<1> QED BY <1>1, Invariance, PTL

\* A project that is shown as "ok" has what the latest completed sync read: its rows are in
\* the table, or its file had no hosts.
THEOREM OkIsStored == Spec => []OkMeansStored
<1>1. IInv => OkMeansStored
  BY DEF IInv, LastInv, OkInv, OkMeansStored
<1> QED BY <1>1, Invariance, PTL

\* The inventory of a project is lost with the project or by a whole file without hosts: no
\* failing sync, no kill and no race of two syncs leaves the table empty.
THEOREM InventoryStays == Spec => InventoryIsKept
<1> DEFINE Kept == rows # {} /\ rows' = {} => ~present' \/ \E c \in Controllers : ReadNoHosts(c)
<1>1. IInv /\ [Next]_vars => [Kept]_vars
  <2> SUFFICES ASSUME IInv, Next, rows # {}, rows' = {}
               PROVE  ~present' \/ \E c \in Controllers : ReadNoHosts(c)
    OBVIOUS
  <2>1. CASE OutsideStep
    BY <2>1
    DEF OutsideStep, Push, UpdateProject, DeleteProject, SyncProject, DeleteCredential, Edit, tableVars
  <2>2. ASSUME NEW c \in Controllers, TxCommit(c) PROVE ReadNoHosts(c)
    <3>1. pc[c] = "insert" /\ pc'[c] = "ok" /\ ins[c] = HostsOf[file[c]]
      BY <2>2 DEF TxCommit, Goto, IInv, TypeOK
    <3>2. ins[c] = {}
      BY <2>2 DEF TxCommit, Commit
    <3>3. file[c] \in Files \ Unparsable
      BY <3>1 DEF IInv, PassInv
    <3> QED BY <3>1, <3>2, <3>3 DEF ReadNoHosts
  <2>3. ASSUME NEW c \in Controllers, Works(c) \/ Fails(c), ~TxCommit(c) PROVE FALSE
    BY <2>3
    DEF Works, Fails, GetAllProjects, GetCredential, CloneRepo, Fetch, Reset, ParseINIInventory,
        TxDelete, TxInsert, UpdateProjectSyncStatus, GetCredentialFails, GitFails, TxRollback,
        StatusLost, tableVars
  <2>4. ASSUME NEW c \in Controllers, Killed(c) PROVE FALSE
    BY <2>4 DEF Killed, tableVars
  <2> QED BY <2>1, <2>2, <2>3, <2>4 DEF Next, SyncStep, Fault
<1> QED BY <1>1, Invariance, PTL DEF Spec, InventoryIsKept

=============================================================================
