------------------------------ MODULE LogStream ------------------------------
(***************************************************************************)
(* The output of one job on its way to the job_logs table: two scanner     *)
(* goroutines of runPlaybook read the pipes of ansible-playbook, the       *)
(* LogBatcher collects their lines, its goroutine posts them, AgentPostLogs*)
(* inserts them, and executeJob posts the result.                          *)
(*                                                                         *)
(* A line is <<stream, k>>, the k-th of its pipe, an entry a line and the  *)
(* sequence number it is sent with.                                        *)
(*                                                                         *)
(*   scanner  per pipe: "scan"  at scanner.Scan                            *)
(*                      "set"   has a number n, about to assign seq        *)
(*                      "add"   about to read seq and call Add             *)
(*                      "eof"   the goroutine has ended                    *)
(*   stage    of executeJob: "run", "flush", "result", "end"               *)
(*   batcher  "run" in the select, "post" inside flush, "last" inside the  *)
(*            flush of the done case, "stopped"                            *)
(*                                                                         *)
(* batchSize is not a parameter: run never looks at it.                    *)
(***************************************************************************)
EXTENDS Naturals, Sequences, FiniteSets

CONSTANT MaxLines     \* bound on the lines of each pipe

ASSUME MaxLinesAssumption == MaxLines \in Nat

Streams == {"stdout", "stderr"}
Lines == Streams \X (1 .. MaxLines)
Entry == [seq : Nat, line : Lines]

VARIABLES scanner, read, n,  \* per pipe: where the scanner is, lines read, the number drawn
          next,              \* the atomic counter of runPlaybook
          seq,               \* the variable both callbacks of executeJob assign
          buf, closed,       \* LogBatcher.buf, and whether done is closed
          batcher, stage,
          shipped,           \* entries handed to PostLogs, in order
          reqs,              \* AgentPostLogs requests: what each has still to insert
          rows,              \* job_logs of this job
          alive              \* the agent process

scanVars == <<scanner, read, n, next, seq>>
batchVars == <<buf, batcher, shipped>>
vars == <<scanVars, batchVars, closed, stage, reqs, rows, alive>>

TypeOK ==
  /\ scanner \in [Streams -> {"scan", "set", "add", "eof"}]
  /\ read \in [Streams -> 0 .. MaxLines]
  /\ n \in [Streams -> Nat]
  /\ next \in Nat
  /\ seq \in Nat
  /\ buf \in Seq(Entry)
  /\ closed \in BOOLEAN
  /\ batcher \in {"run", "post", "last", "stopped"}
  /\ stage \in {"run", "flush", "result", "end"}
  /\ shipped \in Seq(Entry)
  /\ reqs \in SUBSET Seq(Entry)
  /\ rows \in SUBSET Entry
  /\ alive \in BOOLEAN

Init ==
  /\ scanner = [s \in Streams |-> "scan"]
  /\ read = [s \in Streams |-> 0]
  /\ n = [s \in Streams |-> 0]
  /\ next = 0
  /\ seq = 0
  /\ buf = <<>>
  /\ closed = FALSE
  /\ batcher = "run"
  /\ stage = "run"
  /\ shipped = <<>>
  /\ reqs = {}
  /\ rows = {}
  /\ alive = TRUE

-----------------------------------------------------------------------------
\* The scanners.

\* A line is read and numbered: nextSeq.
Scan(s) ==
  /\ scanner[s] = "scan"
  /\ read[s] < MaxLines
  /\ read' = [read EXCEPT ![s] = @ + 1]
  /\ next' = next + 1
  /\ n' = [n EXCEPT ![s] = next + 1]
  /\ scanner' = [scanner EXCEPT ![s] = "set"]
  /\ UNCHANGED <<seq, batchVars, closed, stage, reqs, rows>>

\* onLog: seq = n, with no lock.
SetSeq(s) ==
  /\ scanner[s] = "set"
  /\ seq' = n[s]
  /\ scanner' = [scanner EXCEPT ![s] = "add"]
  /\ UNCHANGED <<read, n, next, batchVars, closed, stage, reqs, rows>>

\* Mutant: the line is kept as scanner.Bytes(), which the next Scan overwrites.
AddSharesBytes(s) ==
  /\ scanner[s] = "add"
  /\ \E v \in {n[s], seq} : buf' = Append(buf, [seq |-> v, line |-> <<s, read[s] + 1>>])
  /\ scanner' = [scanner EXCEPT ![s] = "scan"]
  /\ n' = [n EXCEPT ![s] = 0]
  /\ UNCHANGED <<read, next, seq, batcher, shipped, closed, stage, reqs, rows>>

\* onLog: Add(JobLogLine{Seq: seq, ...}).  The read of seq races with the other scanner's
\* assignment: a build may keep the value in a register (n) or load what is there (seq).
Add(s) ==
  /\ scanner[s] = "add"
  /\ \E v \in {n[s], seq} : buf' = Append(buf, [seq |-> v, line |-> <<s, read[s]>>])
  /\ scanner' = [scanner EXCEPT ![s] = "scan"]
  /\ n' = [n EXCEPT ![s] = 0]
  /\ UNCHANGED <<read, next, seq, batcher, shipped, closed, stage, reqs, rows>>

\* The pipe is closed, or a line does not fit the scanner's buffer.
ScanEnds(s) ==
  /\ scanner[s] = "scan"
  /\ scanner' = [scanner EXCEPT ![s] = "eof"]
  /\ UNCHANGED <<read, n, next, seq, batchVars, closed, stage, reqs, rows>>

-----------------------------------------------------------------------------
\* executeJob.

\* Mutant: only the scanner of stdout is waited for.
RunReturnsEarly ==
  /\ stage = "run"
  /\ scanner["stdout"] = "eof"
  /\ stage' = "flush"
  /\ UNCHANGED <<scanVars, batchVars, closed, reqs, rows>>

\* wg.Wait and cmd.Wait.  A run that fails before the playbook starts has no lines.
RunReturns ==
  /\ stage = "run"
  /\ \A s \in Streams : scanner[s] = "eof"
  /\ stage' = "flush"
  /\ UNCHANGED <<scanVars, batchVars, closed, reqs, rows>>

Flush ==
  /\ stage = "flush"
  /\ closed' = TRUE
  /\ stage' = "result"
  /\ UNCHANGED <<scanVars, batchVars, reqs, rows>>

\* PostResult has returned, and executeJob with it.
PostResult ==
  /\ stage = "result"
  /\ stage' = "end"
  /\ UNCHANGED <<scanVars, batchVars, closed, reqs, rows>>

-----------------------------------------------------------------------------
\* The batcher's goroutine.

\* Mutant: the batch is copied out and the buffer kept.
DoFlushKeepsBuf(in, out) ==
  IF buf = <<>>
    THEN batcher' = out /\ UNCHANGED <<buf, shipped, reqs>>
    ELSE /\ shipped' = shipped \o buf
         /\ reqs' = reqs \cup {buf}
         /\ batcher' = in
         /\ UNCHANGED buf

\* Under the mutex the batch is taken and the buffer emptied; then flush posts it, once.
DoFlush(in, out) ==
  IF buf = <<>>
    THEN batcher' = out /\ UNCHANGED <<buf, shipped, reqs>>
    ELSE /\ shipped' = shipped \o buf
         /\ reqs' = reqs \cup {buf}
         /\ buf' = <<>>
         /\ batcher' = in

TickerFires ==
  /\ batcher = "run"
  /\ DoFlush("post", "run")
  /\ UNCHANGED <<scanVars, closed, stage, rows>>

\* Mutant: the goroutine returns without a last flush.
DoneReceivedNoFlush ==
  /\ batcher = "run"
  /\ closed
  /\ batcher' = "stopped"
  /\ UNCHANGED <<scanVars, buf, shipped, closed, stage, reqs, rows>>

DoneReceived ==
  /\ batcher = "run"
  /\ closed
  /\ DoFlush("last", "stopped")
  /\ UNCHANGED <<scanVars, closed, stage, rows>>

\* PostLogs returns: an answer, an error or the client's timeout, which are treated alike.
PostLogsReturns ==
  /\ \/ batcher = "post" /\ batcher' = "run"
     \/ batcher = "last" /\ batcher' = "stopped"
  /\ UNCHANGED <<scanVars, buf, shipped, closed, stage, reqs, rows>>

-----------------------------------------------------------------------------
\* AgentPostLogs.

\* Mutant: INSERT without ON CONFLICT DO NOTHING, and no unique constraint.
InsertAlways(e) == rows' = rows \cup {e}

\* INSERT ... ON CONFLICT (job_id, seq) DO NOTHING.
Insert(e) ==
  rows' = IF \E row \in rows : row.seq = e.seq THEN rows ELSE rows \cup {e}

\* One turn of AppendJobLogs.  There is no transaction around the loop.
AppendJobLog(q) ==
  /\ Insert(Head(q))
  /\ reqs' = (reqs \ {q}) \cup (IF Len(q) = 1 THEN {} ELSE {Tail(q)})

\* The request is lost or refused, or a statement fails: what is left of the batch is gone.
PostLogsFails(q) ==
  /\ reqs' = reqs \ {q}
  /\ UNCHANGED rows

-----------------------------------------------------------------------------
AgentDies ==
  /\ alive
  /\ alive' = FALSE
  /\ UNCHANGED <<scanVars, batchVars, closed, stage, reqs, rows>>

ScannerStep(s) == alive /\ (Scan(s) \/ SetSeq(s) \/ Add(s) \/ ScanEnds(s)) /\ UNCHANGED alive
ExecuteJobStep == alive /\ (RunReturns \/ Flush \/ PostResult) /\ UNCHANGED alive
BatcherStep == alive /\ (TickerFires \/ DoneReceived \/ PostLogsReturns) /\ UNCHANGED alive
ApiStep ==
  /\ \E q \in reqs : AppendJobLog(q) \/ PostLogsFails(q)
  /\ UNCHANGED <<scanVars, batchVars, closed, stage, alive>>

Next ==
  \/ \E s \in Streams : ScannerStep(s)
  \/ ExecuteJobStep
  \/ BatcherStep
  \/ ApiStep
  \/ AgentDies

Spec == Init /\ [][Next]_vars

(***************************************************************************)
(* Goroutines that can run do run, and the ticker fires.  The playbook     *)
(* need not end, and nothing is assumed of the API.                        *)
(***************************************************************************)
FairSpec == Spec /\ WF_vars(BatcherStep)

-----------------------------------------------------------------------------
Entries(es) == {es[i] : i \in DOMAIN es}
LinesOf(es) == {e.line : e \in Entries(es)}

\* The lines Add was called for.
Added ==
  {l \in Lines : \/ l[2] < read[l[1]]
                 \/ l[2] = read[l[1]] /\ scanner[l[1]] \in {"scan", "eof"}}

\* Every line Add was called for is in the buffer or has been handed to PostLogs, and in one
\* of the two only: flushes of the ticker and of done neither lose nor repeat a line.
LinesConserved ==
  /\ LinesOf(buf) \cup LinesOf(shipped) = Added
  /\ Len(buf) + Len(shipped) = Cardinality(Added)

\* When the batcher's goroutine has returned, no line is left in its buffer and none will come.
NothingStranded ==
  batcher = "stopped" => buf = <<>> /\ \A s \in Streams : scanner[s] = "eof"

\* job_logs holds what was sent and nothing else, at most one line per number, whatever
\* batches fail half way or are still being inserted when the next one arrives.
RowsAreSent ==
  /\ rows \subseteq Entries(shipped)
  /\ \A e, f \in rows : e.seq = f.seq \/ e.line = f.line => e = f

\* Again and again everything that was added has been handed to PostLogs, so that no line
\* waits for ever, unless the process dies.
EveryLineIsShipped == []<>(Added \subseteq LinesOf(shipped) \/ ~alive)
=============================================================================
