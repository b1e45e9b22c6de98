------------------------------- MODULE Runner -------------------------------
(***************************************************************************)
(* runner.Run for one job: the job directory, the credential files, the    *)
(* clone, the playbook with its two pipes and the scanners that drain      *)
(* them, the deferred clean-up, and a cancel request at any moment.        *)
(*                                                                         *)
(* Output is counted in units: a pipe holds one, a scanner ScanBuffer of   *)
(* one line.  The script of the playbook is what it writes, in order:      *)
(* <<stream, last>>, where last ends the line.                             *)
(*                                                                         *)
(*   stage  "mkdir", "creds", "clone", "inventory", "vars", "start" the    *)
(*          steps of Run; "wg" in wg.Wait, "wait" in cmd.Wait, "status";   *)
(*          "cleanup", "rmdir" the deferred calls, "done"                  *)
(***************************************************************************)
EXTENDS Naturals, Sequences, FiniteSets

CONSTANTS CredLists,     \* the credential kinds a payload may carry, in order
          Scripts,       \* what the playbook may write
          ScanBuffer     \* units that fill a scanner's buffer (64 KiB)

Streams == {"stdout", "stderr"}
SecretKinds == {"ssh_key", "machine_user", "vault_password"}   \* those Materialize writes
Kinds == SecretKinds \cup {"https_token"}   \* a token is in repo/.git/config, written by git
URLs == {"none", "plain", "token"}          \* what httpsCloneURL makes of RepoURL
Statuses == {"none", "success", "failed", "cancelled"}
Unit == Streams \X BOOLEAN

ASSUME ListsAssumption == CredLists \subseteq Seq(Kinds)
ASSUME ScriptsAssumption == Scripts \subseteq Seq(Unit)
ASSUME ScanBufferAssumption == ScanBuffer \in Nat \ {0}

VARIABLES stage,
          creds,        \* credentials Materialize has still to visit
          script,       \* what the playbook will write (all of it)
          url,          \* the URL given to git
          dir,          \* the job directory exists
          files,        \* the secrets that are in a file on disk
          written,      \* Materialize's list, for Cleanup
          undeleted,    \* history: removals that failed ("dir" is RemoveAll)
          materialised, \* history: Materialize returned creds
          cancelled,    \* ctx.Err() # nil
          child,        \* "none", "running", "exit0", "exit1", "killed"
          forks,        \* processes of the playbook that outlive it hold the pipes open
          sent,         \* units written so far
          pipe,         \* per stream: units in the pipe
          scanner,      \* per stream: "scan" or "stopped"
          partial,      \* per stream: units of the line being read
          logged,       \* lines handed to onLog
          exit0,        \* runPlaybook returned 0
          result        \* Result.Status

inputVars == <<script, url>>
diskVars == <<dir, files, written, undeleted, materialised>>
procVars == <<child, forks, sent, pipe, scanner, partial, logged>>
vars == <<stage, creds, inputVars, diskVars, cancelled, procVars, exit0, result>>

TypeOK ==
  /\ stage \in {"mkdir", "creds", "clone", "inventory", "vars", "start", "wg", "wait",
                "status", "cleanup", "rmdir", "done"}
  /\ creds \in Seq(Kinds) /\ script \in Scripts /\ url \in URLs
  /\ dir \in BOOLEAN /\ files \subseteq Kinds /\ written \subseteq SecretKinds
  /\ undeleted \subseteq SecretKinds \cup {"dir"} /\ materialised \in BOOLEAN
  /\ cancelled \in BOOLEAN
  /\ child \in {"none", "running", "exit0", "exit1", "killed"} /\ forks \in BOOLEAN
  /\ sent \in 0 .. Len(script)
  /\ pipe \in [Streams -> Seq(BOOLEAN)] /\ \A s \in Streams : Len(pipe[s]) <= 1
  /\ scanner \in [Streams -> {"scan", "stopped"}]
  /\ partial \in [Streams -> 0 .. ScanBuffer]
  /\ logged \in Nat
  /\ exit0 \in BOOLEAN /\ result \in Statuses

Init ==
  /\ stage = "mkdir"
  /\ creds \in CredLists /\ script \in Scripts
  /\ url \in URLs /\ (url = "token" => \E i \in DOMAIN creds : creds[i] = "https_token")
  /\ dir = FALSE /\ files = {} /\ written = {} /\ undeleted = {} /\ materialised = FALSE
  /\ cancelled = FALSE
  /\ child = "none" /\ forks = FALSE /\ sent = 0
  /\ pipe = [s \in Streams |-> <<>>]
  /\ scanner = [s \in Streams |-> "scan"]
  /\ partial = [s \in Streams |-> 0]
  /\ logged = 0
  /\ exit0 = FALSE /\ result = "none"

-----------------------------------------------------------------------------
(* Run, step by step.  A return goes to the deferred calls: Cleanup is deferred
   only once Materialize has returned, RemoveAll once the directory exists. *)

Return(status, at) == result' = status /\ stage' = at

MakeDir ==
  /\ stage = "mkdir"
  /\ \/ dir' = TRUE /\ stage' = "creds" /\ UNCHANGED result
     \/ UNCHANGED dir /\ Return("failed", "done")
  /\ UNCHANGED <<creds, inputVars, files, written, undeleted, materialised, cancelled,
                 procVars, exit0>>

\* Materialize visits one credential: a missing field, an error of writeSecret (which may
\* have created the file), or the file is written and noted.
MaterializeOne ==
  /\ stage = "creds" /\ creds # <<>>
  /\ \/ /\ creds' = Tail(creds) /\ UNCHANGED <<stage, result>>
        /\ IF Head(creds) \in SecretKinds
           THEN files' = files \cup {Head(creds)} /\ written' = written \cup {Head(creds)}
           ELSE UNCHANGED <<files, written>>
     \/ /\ Head(creds) \in SecretKinds
        /\ files' \in {files, files \cup {Head(creds)}}
        /\ Return("failed", "rmdir")
        /\ UNCHANGED <<creds, written>>
  /\ UNCHANGED <<inputVars, dir, undeleted, materialised, cancelled, procVars, exit0>>

MaterializeReturns ==
  /\ stage = "creds" /\ creds = <<>>
  /\ materialised' = TRUE /\ stage' = "clone"
  /\ UNCHANGED <<creds, inputVars, dir, files, written, undeleted, cancelled, procVars,
                 exit0, result>>

\* git keeps the URL it has cloned from, token included, in the configuration of the clone.
\* It is killed when ctx is cancelled, and may not have removed the clone by then.
WithToken == IF url = "token" THEN files \cup {"https_token"} ELSE files

GitClone ==
  /\ stage = "clone"
  /\ \/ url = "none" /\ stage' = "inventory" /\ UNCHANGED <<files, result>>
     \/ /\ url # "none" /\ ~cancelled
        /\ files' = WithToken /\ stage' = "inventory" /\ UNCHANGED result
     \/ url # "none" /\ files' \in {files, WithToken} /\ Return("failed", "cleanup")
  /\ UNCHANGED <<creds, inputVars, dir, written, undeleted, materialised, cancelled, procVars, exit0>>

\* WriteInventory and writeExtraVars.
After == [inventory |-> "vars", vars |-> "start"]

\* Mutant: Cleanup and RemoveAll not deferred: an early return skips them.
PrepareNoDefer ==
  /\ stage \in DOMAIN After
  /\ \/ stage' = After[stage] /\ UNCHANGED result
     \/ Return("failed", "done")
  /\ UNCHANGED <<creds, inputVars, diskVars, cancelled, procVars, exit0>>

Prepare ==
  /\ stage \in DOMAIN After
  /\ \/ stage' = After[stage] /\ UNCHANGED result
     \/ Return("failed", "cleanup")
  /\ UNCHANGED <<creds, inputVars, diskVars, cancelled, procVars, exit0>>

\* The pipes and cmd.Start; Start refuses a cancelled ctx.
StartPlaybook ==
  /\ stage = "start"
  /\ \/ ~cancelled /\ child' = "running" /\ stage' = "wg"
     \/ stage' = "status" /\ UNCHANGED child        \* runPlaybook returns -1
  /\ UNCHANGED <<creds, inputVars, diskVars, cancelled, forks, sent, pipe, scanner, partial,
                 logged, exit0, result>>

ScannersDone == \A s \in Streams : scanner[s] = "stopped"

\* Mutant: cmd.Wait without wg.Wait; Wait closes the pipes as soon as the child has ended.
WgWaitSkipped ==
  /\ stage = "wg" /\ child \notin {"none", "running"}
  /\ stage' = "wait"
  /\ scanner' = [s \in Streams |-> "stopped"]
  /\ UNCHANGED <<creds, inputVars, diskVars, cancelled, child, forks, sent, pipe, partial,
                 logged, exit0, result>>

WgWait ==
  /\ stage = "wg" /\ ScannersDone
  /\ stage' = "wait"
  /\ UNCHANGED <<creds, inputVars, diskVars, cancelled, procVars, exit0, result>>

CmdWait ==
  /\ stage = "wait" /\ child # "running"
  /\ exit0' = (child = "exit0")
  /\ stage' = "status"
  /\ UNCHANGED <<creds, inputVars, diskVars, cancelled, procVars, result>>

Status ==
  /\ stage = "status"
  /\ Return(IF cancelled THEN "cancelled" ELSE IF exit0 THEN "success" ELSE "failed", "cleanup")
  /\ UNCHANGED <<creds, inputVars, diskVars, cancelled, procVars, exit0>>

\* Each os.Remove may fail; the error is logged and the loop goes on.
Cleanup ==
  /\ stage = "cleanup"
  /\ \E kept \in SUBSET (files \cap written) :
       files' = (files \ written) \cup kept /\ undeleted' = undeleted \cup kept
  /\ stage' = "rmdir"
  /\ UNCHANGED <<creds, inputVars, dir, written, materialised, cancelled, procVars, exit0, result>>

RemoveJobDir ==
  /\ stage = "rmdir"
  /\ \/ dir' = FALSE /\ files' = {} /\ UNCHANGED undeleted
     \/ undeleted' = undeleted \cup {"dir"} /\ files' \in SUBSET files /\ UNCHANGED dir
  /\ stage' = "done"
  /\ UNCHANGED <<creds, inputVars, written, materialised, cancelled, procVars, exit0, result>>

RunStep ==
  \/ MakeDir \/ MaterializeOne \/ MaterializeReturns \/ GitClone \/ Prepare
  \/ StartPlaybook \/ WgWait \/ CmdWait \/ Status \/ Cleanup \/ RemoveJobDir

-----------------------------------------------------------------------------
(* The playbook, the scanners, and handleCancel. *)

\* The playbook or what is left of it writes; a write to a full pipe blocks.
ChildWrites ==
  /\ child = "running" \/ forks
  /\ sent < Len(script)
  /\ LET u == script[sent + 1]
     IN /\ pipe[u[1]] = <<>>
        /\ pipe' = [pipe EXCEPT ![u[1]] = Append(@, u[2])]
  /\ sent' = sent + 1
  /\ UNCHANGED <<stage, creds, inputVars, diskVars, cancelled, child, forks, scanner, partial,
                 logged, exit0, result>>

ChildExits ==
  /\ child = "running" /\ sent = Len(script)
  /\ child' \in {"exit0", "exit1"} /\ forks' \in BOOLEAN
  /\ UNCHANGED <<stage, creds, inputVars, diskVars, cancelled, sent, pipe, scanner, partial,
                 logged, exit0, result>>

\* exec.CommandContext kills the process, not the ones it has started.
KillChild ==
  /\ child = "running" /\ cancelled
  /\ child' = "killed" /\ forks' \in BOOLEAN
  /\ UNCHANGED <<stage, creds, inputVars, diskVars, cancelled, sent, pipe, scanner, partial,
                 logged, exit0, result>>

\* They end too, unless they are stuck in a write.
ForksEnd ==
  /\ forks /\ (sent < Len(script) => pipe[script[sent + 1][1]] = <<>>)
  /\ forks' = FALSE
  /\ UNCHANGED <<stage, creds, inputVars, diskVars, cancelled, child, sent, pipe, scanner, partial,
                 logged, exit0, result>>

Deliver(s) == logged' = logged + 1 /\ partial' = [partial EXCEPT ![s] = 0]

\* Mutant: one goroutine drains stdout to its end and then stderr.
ScanReadsInTurn(s) ==
  /\ stage = "wg" /\ scanner[s] = "scan" /\ pipe[s] # <<>>
  /\ s = "stderr" => scanner["stdout"] = "stopped"
  /\ pipe' = [pipe EXCEPT ![s] = Tail(@)]
  /\ \/ Head(pipe[s]) /\ Deliver(s) /\ UNCHANGED scanner
     \/ ~Head(pipe[s]) /\ partial[s] + 1 < ScanBuffer
        /\ partial' = [partial EXCEPT ![s] = @ + 1] /\ UNCHANGED <<scanner, logged>>
     \/ ~Head(pipe[s]) /\ partial[s] + 1 >= ScanBuffer
        /\ scanner' = [scanner EXCEPT ![s] = "stopped"] /\ UNCHANGED <<partial, logged>>
  /\ UNCHANGED <<stage, creds, inputVars, diskVars, cancelled, child, forks, sent, exit0, result>>

ScanReads(s) ==
  /\ stage = "wg" /\ scanner[s] = "scan" /\ pipe[s] # <<>>
  /\ pipe' = [pipe EXCEPT ![s] = Tail(@)]
  /\ \/ Head(pipe[s]) /\ Deliver(s) /\ UNCHANGED scanner
     \/ ~Head(pipe[s]) /\ partial[s] + 1 < ScanBuffer
        /\ partial' = [partial EXCEPT ![s] = @ + 1] /\ UNCHANGED <<scanner, logged>>
     \/ ~Head(pipe[s]) /\ partial[s] + 1 >= ScanBuffer      \* bufio.ErrTooLong
        /\ scanner' = [scanner EXCEPT ![s] = "stopped"] /\ UNCHANGED <<partial, logged>>
  /\ UNCHANGED <<stage, creds, inputVars, diskVars, cancelled, child, forks, sent, exit0, result>>

\* End of file, once nobody holds the other end; the last line need not end in a newline.
ScanEOF(s) ==
  /\ stage = "wg" /\ scanner[s] = "scan" /\ pipe[s] = <<>> /\ child # "running" /\ ~forks
  /\ scanner' = [scanner EXCEPT ![s] = "stopped"]
  /\ IF partial[s] > 0 THEN Deliver(s) ELSE UNCHANGED <<partial, logged>>
  /\ UNCHANGED <<stage, creds, inputVars, diskVars, cancelled, child, forks, sent, pipe, exit0,
                 result>>

HandleCancel ==
  /\ stage # "done" /\ ~cancelled
  /\ cancelled' = TRUE
  /\ UNCHANGED <<stage, creds, inputVars, diskVars, procVars, exit0, result>>

ChildStep == ChildWrites \/ ChildExits \/ ForksEnd
ScannerStep(s) == ScanReads(s) \/ ScanEOF(s)

Next == RunStep \/ ChildStep \/ KillChild \/ (\E s \in Streams : ScannerStep(s)) \/ HandleCancel

Spec == Init /\ [][Next]_vars

\* The goroutines run, the playbook writes and ends when nothing blocks it (a playbook that
\* never ends is a script without an end), so do the processes it leaves behind, and the
\* kill of a cancelled ctx is delivered.
FairSpec ==
  /\ Spec
  /\ WF_vars(RunStep) /\ WF_vars(ChildStep) /\ WF_vars(KillChild)
  /\ \A s \in Streams : WF_vars(ScannerStep(s))

-----------------------------------------------------------------------------
(* Properties. *)

\* The units that end a line: those with a newline, and the last one of a stream.
LineEnds ==
  {i \in 1 .. Len(script) : script[i][2] \/ \A j \in i + 1 .. Len(script) : script[j][1] # script[i][1]}

\* The units of the line that stream s has begun and not ended after n units of the output.
OpenLine(output, s, n) ==
  {i \in 1 .. n : output[i][1] = s /\ \A j \in i .. n : output[j][1] = s => ~output[j][2]}

\* No line fills the buffer of its scanner before its newline.
FitsScanner ==
  \A s \in Streams : \A n \in 1 .. Len(script) : Cardinality(OpenLine(script, s, n)) < ScanBuffer

\* No credential outlives Run, on any of its ways out: a secret that is left was left by two
\* failing removals, or by RemoveAll alone when Cleanup does not know of its file: because
\* Materialize failed (the Cleanup that "is always called" is not, then), or because git wrote
\* it (the token in repo/.git/config, of which Materialize says "nothing to write to disk").
SecretsAreRemoved ==
  stage = "done" =>
    \A k \in files : "dir" \in undeleted /\ (k \in undeleted \/ ~materialised \/ k = "https_token")

\* A job is reported as a success only when ansible-playbook has exited with 0 and, if its
\* lines fit the scanner, every line it wrote has been handed to onLog: wg.Wait comes
\* before cmd.Wait, which closes the pipes.
SuccessIsComplete ==
  result = "success" => child = "exit0" /\ (FitsScanner => logged = Cardinality(LineEnds))

\* Run returns: always when every line fits the scanner, in whatever order the playbook
\* fills its pipes, and after a cancel request even when a line does not fit, provided the
\* kill leaves no process of the playbook behind.  (A line that does not fit can block its
\* writer and Run for ever: nobody reads its pipe any more.)
RunReturns == FitsScanner \/ (<>cancelled /\ []~forks) => <>(stage = "done")

=============================================================================
