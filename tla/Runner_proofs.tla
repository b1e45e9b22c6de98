---------------------------- MODULE Runner_proofs ----------------------------
(***************************************************************************)
(* What a run keeps and what it leaves behind, for any credentials and any *)
(* output of the playbook. SecretsAreRemoved rests on what each way out    *)
(* has deferred by then: until Cleanup every file but the one git writes   *)
(* is on Materialize's list (FilesInv), unless Materialize itself has      *)
(* failed. SuccessIsComplete rests on where every unit of output is        *)
(* (OutputInv): written and in its pipe, read and in the scanner's open    *)
(* line, or delivered; and on the order of wg.Wait, cmd.Wait and the exit  *)
(* of the child (ChildInv).                                                *)
(***************************************************************************)
EXTENDS Runner, SequenceTheorems, FiniteSetTheorems, TLAPS

\* The steps of Run after Materialize has returned and before Cleanup.
Deferred == {"clone", "inventory", "vars", "start", "wg", "wait", "status", "cleanup"}

FilesInv ==
  /\ stage = "mkdir" => files = {}
  /\ stage \in {"mkdir", "creds"} => ~materialised
  /\ stage \in Deferred => materialised
  /\ stage \in Deferred \cup {"creds"} => files \subseteq written \cup {"https_token"}
  /\ stage = "rmdir" /\ materialised => files \subseteq undeleted \cup {"https_token"}
  /\ SecretsAreRemoved

\* Unit m of the script is the last one that stream s has been given so far.
LastOn(s, m) == m \in 1 .. sent /\ script[m][1] = s /\ \A j \in m + 1 .. sent : script[j][1] # s

\* Unit i has been read from its pipe: a pipe holds at most one unit, the latest.
IsRead(i) ==
  pipe[script[i][1]] = <<>> \/ \E j \in i + 1 .. sent : script[j][1] = script[i][1]

\* The units that have ended a line for their scanner.
Delivered ==
  {i \in 1 .. sent :
     /\ IsRead(i)
     /\ script[i][2] \/ (scanner[script[i][1]] = "stopped" /\ LastOn(script[i][1], i))}

\* A full pipe holds the latest unit of its stream; its scanner has the open line before it.
PipeInv ==
  \A s \in Streams : pipe[s] # <<>> =>
    \E m \in 1 .. sent : /\ LastOn(s, m) /\ script[m][2] = Head(pipe[s])
                         /\ partial[s] = Cardinality(OpenLine(script, s, m - 1))

\* With an empty pipe the scanner has the open line of all that was written.
PartialInv ==
  \A s \in Streams : pipe[s] = <<>> /\ scanner[s] = "scan" =>
    /\ partial[s] = Cardinality(OpenLine(script, s, sent))
    /\ partial[s] > 0 => \E m \in 1 .. sent : LastOn(s, m)

\* Nobody holds the writing end of the pipes any more.
WriterGone == child \notin {"none", "running"} /\ ~forks

\* A scanner stops at the end of file only.
StopInv == \A s \in Streams : scanner[s] = "stopped" => WriterGone /\ pipe[s] = <<>>

OutputInv == PipeInv /\ PartialInv /\ StopInv /\ logged = Cardinality(Delivered)

\* Where Run is, what the child has done and what is reported.
ChildInv ==
  /\ stage \in {"mkdir", "creds", "clone", "inventory", "vars", "start"} => child = "none"
  /\ stage = "wg" => child # "none"
  /\ stage = "wait" => ScannersDone
  /\ child = "exit0" => sent = Len(script)
  /\ exit0 => child = "exit0" /\ ScannersDone /\ stage \in {"status", "cleanup", "rmdir", "done"}
  /\ result = "success" => exit0 /\ stage \in {"cleanup", "rmdir", "done"}

RunInv == ChildInv /\ (FitsScanner => OutputInv)

-----------------------------------------------------------------------------
\* The steps of Run keep the types.
LEMMA RunStepType ==
  ASSUME TypeOK, RunStep
  PROVE  TypeOK'
<1>1. CASE MakeDir
  <2>1. dir' \in BOOLEAN
    BY <1>1, Zenon DEF MakeDir, TypeOK
  <2>2. /\ stage' \in {"creds", "done"} /\ result' \in Statuses
        /\ UNCHANGED <<creds, inputVars, files, written, undeleted, materialised, cancelled,
                       procVars, exit0>>
    BY <1>1 DEF MakeDir, Return, TypeOK, Statuses
  <2> QED BY <2>1, <2>2 DEF TypeOK, inputVars, procVars
<1>2. CASE MaterializeOne
  <2>1. creds \in Seq(Kinds) /\ creds # <<>>
    BY <1>2 DEF MaterializeOne, TypeOK
  <2>2. Tail(creds) \in Seq(Kinds) /\ Head(creds) \in Kinds
    BY <2>1
  <2>3. creds' \in {creds, Tail(creds)}
    BY <1>2 DEF MaterializeOne
  <2>4. files' \subseteq Kinds /\ written' \subseteq SecretKinds
    BY <1>2 DEF MaterializeOne, TypeOK, Kinds
  <2>5. /\ stage' \in {"creds", "rmdir"} /\ result' \in Statuses
        /\ UNCHANGED <<inputVars, dir, undeleted, materialised, cancelled, procVars, exit0>>
    BY <1>2 DEF MaterializeOne, Return, TypeOK, Statuses
  <2>6. creds' \in Seq(Kinds)
    BY <2>1, <2>2, <2>3
  <2> QED BY <2>4, <2>5, <2>6 DEF TypeOK, inputVars, procVars
<1>3. CASE MaterializeReturns
  BY <1>3 DEF MaterializeReturns, TypeOK, inputVars, procVars
<1>4. CASE GitClone
  BY <1>4 DEF GitClone, WithToken, Return, TypeOK, Kinds, Statuses, inputVars, procVars
<1>5. CASE Prepare
  <2>1. stage' \in {"vars", "start", "cleanup"}
    BY <1>5 DEF Prepare, After, Return
  <2> QED BY <1>5, <2>1 DEF Prepare, Return, TypeOK, Statuses, inputVars, diskVars, procVars
<1>6. CASE StartPlaybook
  BY <1>6 DEF StartPlaybook, TypeOK, inputVars, diskVars
<1>7. CASE WgWait
  BY <1>7 DEF WgWait, TypeOK, inputVars, diskVars, procVars
<1>8. CASE CmdWait
  BY <1>8 DEF CmdWait, TypeOK, inputVars, diskVars, procVars
<1>9. CASE Status
  BY <1>9 DEF Status, Return, TypeOK, Statuses, inputVars, diskVars, procVars
<1>10. CASE Cleanup
  <2>1. PICK kept \in SUBSET (files \cap written) :
          files' = (files \ written) \cup kept /\ undeleted' = undeleted \cup kept
    BY <1>10 DEF Cleanup
  <2> QED BY <1>10, <2>1 DEF Cleanup, TypeOK, inputVars, procVars
<1>11. CASE RemoveJobDir
  BY <1>11 DEF RemoveJobDir, TypeOK, inputVars, procVars
<1> QED BY <1>1, <1>2, <1>3, <1>4, <1>5, <1>6, <1>7, <1>8, <1>9, <1>10, <1>11 DEF RunStep

\* So do the playbook, a cancel request and the kill it leads to.
LEMMA ChildType ==
  ASSUME TypeOK, ChildStep \/ KillChild \/ HandleCancel
  PROVE  TypeOK'
<1>1. CASE ChildWrites
  <2>1. script \in Seq(Unit) /\ sent \in 0 .. Len(script) /\ sent < Len(script)
    BY <1>1, ScriptsAssumption DEF ChildWrites, TypeOK
  <2>2. script[sent + 1] \in Unit
    BY <2>1
  <2> DEFINE u == script[sent + 1]
  <2>3. u[1] \in Streams /\ u[2] \in BOOLEAN
    BY <2>2 DEF Unit
  <2>4. pipe[u[1]] = <<>> /\ pipe' = [pipe EXCEPT ![u[1]] = Append(pipe[u[1]], u[2])]
    BY <1>1 DEF ChildWrites
  <2> HIDE DEF u
  <2>5. Append(<<>>, u[2]) \in Seq(BOOLEAN) /\ Len(Append(<<>>, u[2])) = 1
    BY <2>3
  <2>6. pipe' \in [Streams -> Seq(BOOLEAN)] /\ \A s \in Streams : Len(pipe'[s]) <= 1
    BY <2>3, <2>4, <2>5 DEF TypeOK
  <2>7. sent' \in 0 .. Len(script)
    BY <1>1, <2>1 DEF ChildWrites
  <2> QED BY <1>1, <2>6, <2>7 DEF ChildWrites, TypeOK, inputVars, diskVars
<1>2. CASE ChildExits \/ KillChild \/ ForksEnd
  <2>1. child' \in {child, "exit0", "exit1", "killed"} /\ forks' \in BOOLEAN
    BY <1>2, Zenon DEF ChildExits, KillChild, ForksEnd
  <2>2. UNCHANGED <<stage, creds, inputVars, diskVars, cancelled, sent, pipe, scanner, partial,
                    logged, exit0, result>>
    BY <1>2 DEF ChildExits, KillChild, ForksEnd
  <2> QED BY <2>1, <2>2 DEF TypeOK, inputVars, diskVars
<1>3. CASE HandleCancel
  BY <1>3 DEF HandleCancel, TypeOK, inputVars, diskVars, procVars
<1> QED BY <1>1, <1>2, <1>3 DEF ChildStep

\* So do the scanners: a partial line never exceeds the buffer.
LEMMA ScannerType ==
  ASSUME TypeOK, NEW s \in Streams, ScannerStep(s)
  PROVE  TypeOK'
<1>1. partial \in [Streams -> 0 .. ScanBuffer] /\ ScanBuffer \in Nat \ {0} /\ logged \in Nat
  BY ScanBufferAssumption DEF TypeOK
<1>2. CASE ScanReads(s)
  <2>1. pipe[s] \in Seq(BOOLEAN) /\ pipe[s] # <<>> /\ Len(pipe[s]) <= 1
    BY <1>2 DEF ScanReads, TypeOK
  <2>2. Tail(pipe[s]) \in Seq(BOOLEAN) /\ Len(Tail(pipe[s])) <= 1
    <3>1. Tail(pipe[s]) \in Seq(BOOLEAN) /\ Len(Tail(pipe[s])) = Len(pipe[s]) - 1
      BY <2>1, HeadTailProperties
    <3>2. Len(pipe[s]) \in Nat
      BY <2>1, LenProperties
    <3> QED BY <2>1, <3>1, <3>2
  <2>3. pipe' = [pipe EXCEPT ![s] = Tail(pipe[s])]
    BY <1>2 DEF ScanReads
  <2>4. pipe' \in [Streams -> Seq(BOOLEAN)] /\ \A x \in Streams : Len(pipe'[x]) <= 1
    BY <2>2, <2>3 DEF TypeOK
  <2>5. \/ logged' = logged + 1 /\ partial' = [partial EXCEPT ![s] = 0]
        \/ logged' = logged /\ partial' = partial
        \/ /\ logged' = logged /\ partial[s] + 1 < ScanBuffer
           /\ partial' = [partial EXCEPT ![s] = partial[s] + 1]
    BY <1>2 DEF ScanReads, Deliver
  <2>6. partial[s] \in 0 .. ScanBuffer
    BY <1>1
  <2>7. partial' \in [Streams -> 0 .. ScanBuffer] /\ logged' \in Nat
    BY <1>1, <2>5, <2>6
  <2>8. scanner' \in [Streams -> {"scan", "stopped"}]
    BY <1>2 DEF ScanReads, TypeOK
  <2>9. UNCHANGED <<stage, creds, inputVars, diskVars, cancelled, child, forks, sent, exit0, result>>
    BY <1>2 DEF ScanReads
  <2> QED BY <2>4, <2>7, <2>8, <2>9 DEF TypeOK, inputVars, diskVars
<1>3. CASE ScanEOF(s)
  <2>1. partial' \in [Streams -> 0 .. ScanBuffer] /\ logged' \in Nat
    BY <1>1, <1>3 DEF ScanEOF, Deliver
  <2> QED BY <1>3, <2>1 DEF ScanEOF, TypeOK, inputVars, diskVars
<1> QED BY <1>2, <1>3 DEF ScannerStep

\* Files and the steps of Run: only Materialize, git, Cleanup and RemoveAll touch them.
LEMMA FilesStep ==
  ASSUME FilesInv, RunStep
  PROVE  FilesInv'
<1>1. CASE MakeDir
  BY <1>1 DEF MakeDir, Return, FilesInv, Deferred, SecretsAreRemoved
<1>2. CASE MaterializeOne
  BY <1>2 DEF MaterializeOne, Return, FilesInv, Deferred, SecretsAreRemoved
<1>3. CASE MaterializeReturns
  BY <1>3 DEF MaterializeReturns, FilesInv, Deferred, SecretsAreRemoved
<1>4. CASE GitClone
  BY <1>4 DEF GitClone, WithToken, Return, FilesInv, Deferred, SecretsAreRemoved
<1>5. CASE Prepare
  BY <1>5 DEF Prepare, After, Return, FilesInv, Deferred, SecretsAreRemoved, diskVars
<1>6. CASE StartPlaybook \/ WgWait \/ CmdWait \/ Status
  BY <1>6 DEF StartPlaybook, WgWait, CmdWait, Status, Return, FilesInv, Deferred,
              SecretsAreRemoved, diskVars
<1>7. CASE Cleanup
  BY <1>7 DEF Cleanup, FilesInv, Deferred, SecretsAreRemoved
<1>8. CASE RemoveJobDir
  BY <1>8 DEF RemoveJobDir, FilesInv, Deferred, SecretsAreRemoved
<1> QED BY <1>1, <1>2, <1>3, <1>4, <1>5, <1>6, <1>7, <1>8 DEF RunStep

-----------------------------------------------------------------------------
(* Lines. *)

\* An open line is finite.
LEMMA OpenLineFinite ==
  ASSUME NEW output, NEW s, NEW n \in Nat
  PROVE  /\ IsFiniteSet(OpenLine(output, s, n)) /\ Cardinality(OpenLine(output, s, n)) \in Nat
         /\ Cardinality(OpenLine(output, s, n)) = 0 <=> OpenLine(output, s, n) = {}
<1>1. IsFiniteSet(1 .. n)
  BY FS_Interval
<1>0. OpenLine(output, s, n) \subseteq 1 .. n
  BY DEF OpenLine
<1>2. IsFiniteSet(OpenLine(output, s, n))
  BY <1>0, <1>1, FS_Subset
<1> QED BY <1>2, FS_CardinalityType, FS_EmptySet

\* Units of other streams leave the line of s as it is.
LEMMA OpenLineSkip ==
  ASSUME NEW output, NEW s, NEW n \in Nat, NEW k \in Nat, n <= k,
         \A j \in n + 1 .. k : output[j][1] # s
  PROVE  OpenLine(output, s, k) = OpenLine(output, s, n)
<1> DEFINE Open(j) == output[j][1] = s => ~output[j][2]
<1>1. \A j \in n + 1 .. k : Open(j)
  OBVIOUS
<1>2. ASSUME NEW i \in 1 .. n
      PROVE  (\A j \in i .. n : Open(j)) <=> \A j \in i .. k : Open(j)
  <2> HIDE DEF Open
  <2> QED BY <1>1
<1>3. ASSUME NEW i \in 1 .. k, output[i][1] = s
      PROVE  i \in 1 .. n
  BY <1>3
<1>4. 1 .. n \subseteq 1 .. k
  OBVIOUS
<1> QED BY <1>2, <1>3, <1>4, Zenon DEF OpenLine

\* A unit of s ends its line or makes it longer by one.
LEMMA OpenLineUnit ==
  ASSUME NEW output, NEW s, NEW m \in Nat \ {0}, output[m][1] = s
  PROVE  /\ output[m][2] => OpenLine(output, s, m) = {}
         /\ ~output[m][2] => Cardinality(OpenLine(output, s, m))
                              = Cardinality(OpenLine(output, s, m - 1)) + 1
<1>1. m - 1 \in Nat /\ 1 .. m = (1 .. m - 1) \cup {m} /\ m .. m = {m} /\ m \notin 1 .. m - 1
  OBVIOUS
<1>2. ASSUME output[m][2], NEW i \in OpenLine(output, s, m)
      PROVE  FALSE
  <2>1. m \in i .. m
    BY <1>2 DEF OpenLine
  <2> QED BY <1>2, <2>1, Zenon DEF OpenLine
<1>3. ASSUME ~output[m][2]
      PROVE  Cardinality(OpenLine(output, s, m)) = Cardinality(OpenLine(output, s, m - 1)) + 1
  <2> DEFINE Open(j) == output[j][1] = s => ~output[j][2]
  <2>1. Open(m)
    BY <1>3
  <2>2. ASSUME NEW i \in 1 .. m - 1
        PROVE  (\A j \in i .. m - 1 : Open(j)) <=> \A j \in i .. m : Open(j)
    <3> HIDE DEF Open
    <3> QED BY <2>1
  <2>3. OpenLine(output, s, m) = OpenLine(output, s, m - 1) \cup {m}
    BY <1>1, <2>1, <2>2, Zenon DEF OpenLine
  <2>4. m \notin OpenLine(output, s, m - 1)
    BY <1>1 DEF OpenLine
  <2>5. IsFiniteSet(OpenLine(output, s, m - 1))
    BY <1>1, OpenLineFinite
  <2> QED BY <2>3, <2>4, <2>5, FS_AddElement
<1> QED BY <1>2, <1>3, Zenon

-----------------------------------------------------------------------------
(* Where the output is. *)

\* The delivered units are finitely many.
LEMMA DeliveredFinite ==
  ASSUME TypeOK
  PROVE  IsFiniteSet(Delivered) /\ Cardinality(Delivered) \in Nat
<1>1. sent \in Nat
  BY ScriptsAssumption DEF TypeOK
<1>2. IsFiniteSet(1 .. sent)
  BY <1>1, FS_Interval
<1>3. Delivered \subseteq 1 .. sent
  BY DEF Delivered
<1> QED BY <1>2, <1>3, FS_Subset, FS_CardinalityType

\* Steps that touch neither the output nor the scanners.
LEMMA OutputKept ==
  ASSUME OutputInv, UNCHANGED <<script, sent, pipe, scanner, partial, logged>>,
         WriterGone => WriterGone'
  PROVE  OutputInv'
<1>1. PipeInv'
  BY DEF OutputInv, PipeInv, LastOn
<1>2. PartialInv'
  BY DEF OutputInv, PartialInv, LastOn
<1>3. StopInv'
  BY DEF OutputInv, StopInv
<1>4. Delivered' = Delivered
  BY DEF Delivered, IsRead, LastOn
<1> QED BY <1>1, <1>2, <1>3, <1>4 DEF OutputInv

\* The child writes a unit to its empty pipe: nothing is delivered, the open line is as it was.
LEMMA WritesOutput ==
  ASSUME TypeOK, OutputInv, ChildWrites
  PROVE  OutputInv'
<1>1. /\ script \in Seq(Unit) /\ sent \in Nat /\ sent < Len(script) /\ Len(script) \in Nat
      /\ pipe \in [Streams -> Seq(BOOLEAN)]
  BY ScriptsAssumption DEF ChildWrites, TypeOK
<1>2. PICK n \in Nat, t \in Streams, b \in BOOLEAN :
        n = sent + 1 /\ script[n][1] = t /\ script[n][2] = b
  <2>1. script[sent + 1] \in Unit /\ sent + 1 \in Nat
    BY <1>1
  <2> QED BY <2>1 DEF Unit
<1>3. /\ pipe[t] = <<>> /\ pipe' = [pipe EXCEPT ![t] = Append(<<>>, b)]
      /\ sent' = n /\ ~WriterGone
      /\ UNCHANGED <<script, scanner, partial, logged>>
  BY <1>2 DEF ChildWrites, inputVars, WriterGone
<1>4. scanner[t] = "scan" /\ \A s \in Streams : scanner[s] = "scan"
  BY <1>2, <1>3 DEF OutputInv, StopInv, TypeOK
<1>5. /\ pipe'[t] # <<>> /\ Head(pipe'[t]) = b
      /\ \A s \in Streams \ {t} : pipe'[s] = pipe[s]
  <2>1. Append(<<>>, b) # <<>> /\ Head(Append(<<>>, b)) = b
    BY <1>2
  <2> QED BY <1>1, <1>2, <1>3, <2>1
<1>6. \A s \in Streams \ {t} : \A m \in 1 .. sent : LastOn(s, m) => LastOn(s, m)'
  BY <1>1, <1>2, <1>3 DEF LastOn
<1>7. LastOn(t, n)'
  BY <1>1, <1>2, <1>3 DEF LastOn
<1>8. PipeInv'
  <2> SUFFICES ASSUME NEW s \in Streams, pipe'[s] # <<>>
               PROVE  \E m \in 1 .. sent' :
                        /\ LastOn(s, m)' /\ script[m][2] = Head(pipe'[s])
                        /\ partial[s] = Cardinality(OpenLine(script, s, m - 1))
    BY <1>3 DEF PipeInv
  <2>1. CASE s = t
    <3>1. partial[t] = Cardinality(OpenLine(script, t, sent))
      BY <1>2, <1>3, <1>4 DEF OutputInv, PartialInv
    <3>2. n \in 1 .. sent' /\ n - 1 = sent
      BY <1>1, <1>2, <1>3
    <3> QED BY <1>2, <1>5, <1>7, <2>1, <3>1, <3>2
  <2>2. CASE s # t
    <3>1. PICK m \in 1 .. sent : /\ LastOn(s, m) /\ script[m][2] = Head(pipe[s])
                                 /\ partial[s] = Cardinality(OpenLine(script, s, m - 1))
      BY <1>5, <2>2 DEF OutputInv, PipeInv
    <3>2. m \in 1 .. sent'
      BY <1>1, <1>2, <1>3
    <3> QED BY <1>5, <1>6, <2>2, <3>1, <3>2
  <2> QED BY <2>1, <2>2
<1>9. PartialInv'
  <2> SUFFICES ASSUME NEW s \in Streams, pipe'[s] = <<>>
               PROVE  /\ partial[s] = Cardinality(OpenLine(script, s, n))
                      /\ partial[s] > 0 => \E m \in 1 .. sent' : LastOn(s, m)'
    BY <1>3 DEF PartialInv
  <2>1. s # t /\ pipe[s] = <<>>
    BY <1>5
  <2>2. /\ partial[s] = Cardinality(OpenLine(script, s, sent))
        /\ partial[s] > 0 => \E m \in 1 .. sent : LastOn(s, m)
    BY <1>4, <2>1 DEF OutputInv, PartialInv
  <2>3. OpenLine(script, s, n) = OpenLine(script, s, sent)
    <3>1. \A j \in sent + 1 .. n : script[j][1] # s
      BY <1>1, <1>2, <2>1
    <3>2. n \in Nat /\ sent <= n
      BY <1>1, <1>2
    <3> QED BY <1>1, <1>2, <3>1, <3>2, OpenLineSkip
  <2>4. 1 .. sent \subseteq 1 .. sent'
    BY <1>1, <1>2, <1>3
  <2> QED BY <1>6, <2>1, <2>2, <2>3, <2>4
<1>10. StopInv'
  BY <1>3, <1>4 DEF StopInv
<1>11. Delivered' = Delivered
  <2>0. /\ Delivered = {i \in 1 .. sent : IsRead(i) /\ script[i][2]}
        /\ Delivered' = {i \in 1 .. n : IsRead(i)' /\ script[i][2]}
    <3>1. \A i \in 1 .. n : script[i][1] \in Streams
      BY <1>1, <1>2 DEF Unit
    <3> QED BY <1>1, <1>2, <1>3, <1>4, <3>1 DEF Delivered
  <2>1. ASSUME NEW i \in 1 .. sent
        PROVE  IsRead(i)' <=> IsRead(i)
    <3>1. script[i][1] \in Streams
      BY <1>1, <1>2 DEF Unit
    <3>2. CASE script[i][1] = t
      BY <1>1, <1>2, <1>3, <3>2 DEF IsRead
    <3>3. CASE script[i][1] # t
      BY <1>1, <1>2, <1>3, <1>5, <3>1, <3>3, SMTT(30) DEF IsRead
    <3> QED BY <3>2, <3>3
  <2>2. ~IsRead(n)'
    BY <1>1, <1>2, <1>3, <1>5 DEF IsRead
  <2>3. 1 .. n = (1 .. sent) \cup {n}
    BY <1>1, <1>2
  <2> QED BY <2>0, <2>1, <2>2, <2>3
<1> QED BY <1>3, <1>8, <1>9, <1>10, <1>11 DEF OutputInv

\* A scanner reads the unit in its pipe.  No line is too long, so the unit ends the line, which
\* is delivered, or makes the open line longer.
LEMMA ReadsOutput ==
  ASSUME TypeOK, OutputInv, FitsScanner, NEW s \in Streams, ScanReads(s)
  PROVE  OutputInv'
<1>1. /\ script \in Seq(Unit) /\ sent \in Nat /\ sent <= Len(script) /\ Len(script) \in Nat
      /\ pipe \in [Streams -> Seq(BOOLEAN)] /\ partial \in [Streams -> Nat] /\ logged \in Nat
      /\ scanner \in [Streams -> {"scan", "stopped"}] /\ ScanBuffer \in Nat
  BY ScriptsAssumption, ScanBufferAssumption DEF TypeOK
<1>2. /\ scanner[s] = "scan" /\ pipe[s] # <<>> /\ pipe' = [pipe EXCEPT ![s] = Tail(pipe[s])]
      /\ UNCHANGED <<script, sent, child, forks>>
  BY DEF ScanReads, inputVars
<1>3. pipe'[s] = <<>> /\ \A t \in Streams \ {s} : pipe'[t] = pipe[t]
  <2>1. pipe[s] \in Seq(BOOLEAN) /\ Len(pipe[s]) <= 1
    BY DEF TypeOK
  <2>2. /\ Tail(pipe[s]) \in Seq(BOOLEAN) /\ Len(Tail(pipe[s])) = Len(pipe[s]) - 1
        /\ Len(pipe[s]) \in Nat
    BY <1>2, <2>1, HeadTailProperties, LenProperties
  <2>3. Len(Tail(pipe[s])) \in Nat
    BY <2>2, LenProperties
  <2>4. Tail(pipe[s]) = <<>>
    BY <2>1, <2>2, <2>3, EmptySeq
  <2> QED BY <1>1, <1>2, <2>4
<1>4. PICK m \in 1 .. sent : /\ LastOn(s, m) /\ script[m][2] = Head(pipe[s])
                             /\ partial[s] = Cardinality(OpenLine(script, s, m - 1))
  BY <1>2 DEF OutputInv, PipeInv
<1>5. m \in Nat \ {0} /\ m \in 1 .. Len(script) /\ m <= sent /\ script[m][1] = s
  BY <1>1, <1>4 DEF LastOn
<1>6. OpenLine(script, s, sent) = OpenLine(script, s, m)
  <2>1. \A j \in m + 1 .. sent : script[j][1] # s
    BY <1>4 DEF LastOn
  <2>2. m \in Nat /\ sent \in Nat /\ m <= sent
    BY <1>1, <1>5
  <2> QED BY <2>1, <2>2, OpenLineSkip
<1>7. \/ /\ Head(pipe[s]) /\ logged' = logged + 1 /\ partial' = [partial EXCEPT ![s] = 0]
         /\ scanner' = scanner
      \/ /\ ~Head(pipe[s]) /\ logged' = logged /\ partial' = [partial EXCEPT ![s] = partial[s] + 1]
         /\ scanner' = scanner
  <2>1. CASE Head(pipe[s])
    BY <2>1 DEF ScanReads, Deliver
  <2>2. CASE ~Head(pipe[s])
    <3>1. Cardinality(OpenLine(script, s, m)) = partial[s] + 1
      BY <1>4, <1>5, <2>2, OpenLineUnit
    <3>2. partial[s] + 1 < ScanBuffer
      BY <1>5, <3>1 DEF FitsScanner
    <3>3. ~(partial[s] + 1 >= ScanBuffer)
      BY <1>1, <3>2
    <3> QED BY <2>2, <3>3, Zenon DEF ScanReads
  <2> QED BY <2>1, <2>2
<1>8. /\ scanner' = scanner /\ \A t \in Streams \ {s} : partial'[t] = partial[t]
      /\ partial'[s] = Cardinality(OpenLine(script, s, sent))
  <2>1. CASE Head(pipe[s])
    <3>1. OpenLine(script, s, m) = {}
      BY <1>4, <1>5, <2>1, OpenLineUnit
    <3> QED BY <1>1, <1>6, <1>7, <2>1, <3>1, FS_EmptySet
  <2>2. CASE ~Head(pipe[s])
    <3>1. Cardinality(OpenLine(script, s, m)) = partial[s] + 1
      BY <1>4, <1>5, <2>2, OpenLineUnit
    <3> QED BY <1>1, <1>6, <1>7, <2>2, <3>1
  <2> QED BY <2>1, <2>2
<1>9. \A t, i : LastOn(t, i)' <=> LastOn(t, i)
  BY <1>2 DEF LastOn
<1>10. PipeInv'
  <2> SUFFICES ASSUME NEW t \in Streams, pipe'[t] # <<>>
               PROVE  \E i \in 1 .. sent : /\ LastOn(t, i)' /\ script[i][2] = Head(pipe'[t])
                                           /\ partial'[t] = Cardinality(OpenLine(script, t, i - 1))
    BY <1>2 DEF PipeInv
  <2>1. t # s /\ pipe'[t] = pipe[t] /\ partial'[t] = partial[t]
    BY <1>3, <1>8
  <2> QED BY <1>9, <2>1 DEF OutputInv, PipeInv
<1>11. PartialInv'
  <2> SUFFICES ASSUME NEW t \in Streams, pipe'[t] = <<>>, scanner[t] = "scan"
               PROVE  /\ partial'[t] = Cardinality(OpenLine(script, t, sent))
                      /\ partial'[t] > 0 => \E i \in 1 .. sent : LastOn(t, i)'
    BY <1>2, <1>8 DEF PartialInv
  <2>1. CASE t = s
    BY <1>4, <1>8, <1>9, <2>1
  <2>2. CASE t # s
    <3>1. pipe[t] = <<>> /\ partial'[t] = partial[t]
      BY <1>3, <1>8, <2>2
    <3> QED BY <1>9, <3>1 DEF OutputInv, PartialInv
  <2> QED BY <2>1, <2>2
<1>12. StopInv'
  BY <1>2, <1>3, <1>8 DEF OutputInv, StopInv, WriterGone
<1>13. logged' = Cardinality(Delivered')
  <2>1. ASSUME NEW i \in 1 .. sent
        PROVE  IsRead(i)' <=> IsRead(i) \/ i = m
    <3>0. script[i] \in Unit
      BY <1>1
    <3>1. script[i][1] \in Streams
      BY <3>0 DEF Unit
    <3>2. CASE script[i][1] # s
      BY <1>2, <1>3, <1>5, <3>1, <3>2 DEF IsRead
    <3>3. CASE script[i][1] = s
      <4>1. i = m \/ i < m
        BY <1>1, <1>4, <3>3 DEF LastOn
      <4>2. IsRead(i)'
        BY <1>2, <1>3, <3>3 DEF IsRead
      <4>3. i < m => IsRead(i)
        <5>1. i < m => m \in i + 1 .. sent
          BY <1>1, <1>5
        <5> QED BY <1>5, <3>3, <5>1 DEF IsRead
      <4> QED BY <4>1, <4>2, <4>3
    <3> QED BY <3>2, <3>3
  <2>2. ~IsRead(m)
    BY <1>1, <1>2, <1>4, <1>5 DEF IsRead, LastOn
  <2>3. Delivered' = {i \in 1 .. sent :
          IsRead(i)' /\ (script[i][2] \/ (scanner[script[i][1]] = "stopped" /\ LastOn(script[i][1], i)))}
    BY <1>2, <1>8, <1>9 DEF Delivered
  <2>4. CASE Head(pipe[s])
    <3>1. Delivered' = Delivered \cup {m}
      BY <1>4, <2>1, <2>3, <2>4, Zenon DEF Delivered
    <3>2. m \notin Delivered
      BY <2>2 DEF Delivered
    <3> QED BY <1>7, <2>4, <3>1, <3>2, DeliveredFinite, FS_AddElement DEF OutputInv
  <2>5. CASE ~Head(pipe[s])
    <3>1. ~(script[m][2] \/ (scanner[script[m][1]] = "stopped" /\ LastOn(script[m][1], m)))
      BY <1>2, <1>4, <1>5, <2>5
    <3>2. Delivered' = Delivered
      BY <2>1, <2>3, <3>1, Zenon DEF Delivered
    <3> QED BY <1>7, <2>5, <3>2 DEF OutputInv
  <2> QED BY <2>4, <2>5
<1> QED BY <1>10, <1>11, <1>12, <1>13 DEF OutputInv

\* At the end of file the open line, if there is one, is delivered: its last unit ends it.
LEMMA EndsOutput ==
  ASSUME TypeOK, OutputInv, ChildInv, NEW s \in Streams, ScanEOF(s)
  PROVE  OutputInv'
<1>1. /\ script \in Seq(Unit) /\ sent \in Nat /\ partial \in [Streams -> Nat] /\ logged \in Nat
      /\ scanner \in [Streams -> {"scan", "stopped"}]
  BY ScriptsAssumption, ScanBufferAssumption DEF TypeOK
<1>2. /\ scanner[s] = "scan" /\ pipe[s] = <<>> /\ WriterGone
      /\ scanner' = [scanner EXCEPT ![s] = "stopped"]
      /\ UNCHANGED <<script, sent, pipe, child, forks>>
  BY DEF ScanEOF, inputVars, ChildInv, WriterGone
<1>3. \A t \in Streams \ {s} : partial'[t] = partial[t] /\ scanner'[t] = scanner[t]
  BY <1>1, <1>2 DEF ScanEOF, Deliver
<1>4. scanner'[s] = "stopped"
  BY <1>1, <1>2
<1>5. \A t, i : LastOn(t, i)' <=> LastOn(t, i)
  BY <1>2 DEF LastOn
<1>6. PipeInv'
  <2> SUFFICES ASSUME NEW t \in Streams, pipe[t] # <<>>
               PROVE  \E i \in 1 .. sent : /\ LastOn(t, i)' /\ script[i][2] = Head(pipe[t])
                                           /\ partial'[t] = Cardinality(OpenLine(script, t, i - 1))
    BY <1>2 DEF PipeInv
  <2>1. partial'[t] = partial[t]
    BY <1>2, <1>3
  <2> QED BY <1>5, <2>1 DEF OutputInv, PipeInv
<1>7. PartialInv'
  <2> SUFFICES ASSUME NEW t \in Streams, pipe[t] = <<>>, scanner'[t] = "scan"
               PROVE  /\ partial'[t] = Cardinality(OpenLine(script, t, sent))
                      /\ partial'[t] > 0 => \E i \in 1 .. sent : LastOn(t, i)'
    BY <1>2 DEF PartialInv
  <2>1. t # s /\ scanner[t] = "scan" /\ partial'[t] = partial[t]
    BY <1>3, <1>4
  <2> QED BY <1>5, <2>1 DEF OutputInv, PartialInv
<1>8. StopInv'
  BY <1>2, <1>3 DEF OutputInv, StopInv, WriterGone
<1>9. logged' = Cardinality(Delivered')
  <2>1. Delivered' = {i \in 1 .. sent :
          IsRead(i) /\ (script[i][2] \/ (scanner'[script[i][1]] = "stopped" /\ LastOn(script[i][1], i)))}
    BY <1>2, <1>5 DEF Delivered, IsRead
  <2>2. ASSUME NEW i \in 1 .. sent, ~(script[i][1] = s /\ LastOn(s, i))
        PROVE  i \in Delivered' <=> i \in Delivered
    <3>0. sent <= Len(script) /\ Len(script) \in Nat
      BY <1>1 DEF TypeOK
    <3>1. script[i] \in Unit
      BY <1>1, <3>0
    <3>2. script[i][1] \in Streams
      BY <3>1 DEF Unit
    <3> QED BY <1>3, <2>1, <2>2, <3>2 DEF Delivered
  <2>3. Delivered \subseteq 1 .. sent /\ Delivered' \subseteq 1 .. sent
    BY <2>1 DEF Delivered
  <2>4. /\ partial[s] = Cardinality(OpenLine(script, s, sent))
        /\ partial[s] > 0 => \E m \in 1 .. sent : LastOn(s, m)
    BY <1>2 DEF OutputInv, PartialInv
  <2>5. ASSUME NEW i \in 1 .. sent, NEW m \in 1 .. sent, LastOn(s, i), LastOn(s, m)
        PROVE  i = m
    BY <1>1, <2>5 DEF LastOn
  <2>6. ASSUME NEW m \in 1 .. sent, LastOn(s, m)
        PROVE  script[m][2] <=> OpenLine(script, s, sent) = {}
    <3>1. m \in Nat \ {0} /\ m <= sent /\ script[m][1] = s
      BY <1>1, <2>6 DEF LastOn
    <3>2. OpenLine(script, s, sent) = OpenLine(script, s, m)
      <4>1. \A j \in m + 1 .. sent : script[j][1] # s
        BY <2>6 DEF LastOn
      <4> QED BY <1>1, <3>1, <4>1, OpenLineSkip
    <3>3. ASSUME ~script[m][2] PROVE OpenLine(script, s, m) # {}
      <4>1. Cardinality(OpenLine(script, s, m)) = Cardinality(OpenLine(script, s, m - 1)) + 1
        BY <3>1, <3>3, OpenLineUnit
      <4>2. m - 1 \in Nat /\ Cardinality(OpenLine(script, s, m - 1)) \in Nat
        BY <3>1, OpenLineFinite
      <4>3. Cardinality(OpenLine(script, s, m)) # 0
        BY <4>1, <4>2
      <4> QED BY <3>1, <4>3, OpenLineFinite
    <3>4. script[m][2] => OpenLine(script, s, m) = {}
      BY <3>1, OpenLineUnit
    <3> QED BY <3>2, <3>3, <3>4
  <2>7. CASE partial[s] > 0
    <3>1. PICK m \in 1 .. sent : LastOn(s, m)
      BY <2>4, <2>7
    <3>2. OpenLine(script, s, sent) # {}
      BY <1>1, <2>4, <2>7, OpenLineFinite
    <3>3. ~script[m][2] /\ script[m][1] = s /\ IsRead(m)
      BY <1>2, <2>6, <3>1, <3>2 DEF LastOn, IsRead
    <3>4. m \notin Delivered /\ m \in Delivered'
      BY <1>2, <1>4, <2>1, <3>1, <3>3 DEF Delivered
    <3>5. Delivered' = Delivered \cup {m}
      BY <2>2, <2>3, <2>5, <3>1, <3>4
    <3>6. logged' = logged + 1
      BY <2>7 DEF ScanEOF, Deliver
    <3> QED BY <3>4, <3>5, <3>6, DeliveredFinite, FS_AddElement DEF OutputInv
  <2>8. CASE ~(partial[s] > 0)
    <3>1. OpenLine(script, s, sent) = {}
      BY <1>1, <2>4, <2>8, OpenLineFinite
    <3>2. ASSUME NEW i \in 1 .. sent, LastOn(s, i)
          PROVE  i \in Delivered' <=> i \in Delivered
      BY <2>1, <2>6, <3>1, <3>2 DEF Delivered
    <3>3. Delivered' = Delivered
      BY <2>2, <2>3, <3>2
    <3> QED BY <2>8, <3>3 DEF ScanEOF, OutputInv
  <2> QED BY <2>7, <2>8
<1> QED BY <1>6, <1>7, <1>8, <1>9 DEF OutputInv

\* Every step keeps the order of the exit, wg.Wait, cmd.Wait and the status.
LEMMA ChildStepInv ==
  ASSUME ChildInv, Next
  PROVE  ChildInv'
<1>1. CASE MakeDir
  BY <1>1 DEF MakeDir, Return, ChildInv, ScannersDone, procVars, inputVars
<1>2. CASE MaterializeOne
  BY <1>2 DEF MaterializeOne, Return, ChildInv, ScannersDone, procVars, inputVars
<1>3. CASE MaterializeReturns
  BY <1>3 DEF MaterializeReturns, ChildInv, ScannersDone, procVars, inputVars
<1>4. CASE GitClone \/ Prepare
  BY <1>4 DEF GitClone, Prepare, After, Return, ChildInv, ScannersDone, procVars, inputVars
<1>5. CASE StartPlaybook
  BY <1>5 DEF StartPlaybook, ChildInv, ScannersDone, inputVars
<1>6. CASE WgWait
  BY <1>6 DEF WgWait, ChildInv, ScannersDone, procVars, inputVars
<1>7. CASE CmdWait
  BY <1>7 DEF CmdWait, ChildInv, ScannersDone, procVars, inputVars
<1>8. CASE Status
  BY <1>8 DEF Status, Return, ChildInv, ScannersDone, procVars, inputVars
<1>9. CASE Cleanup \/ RemoveJobDir
  BY <1>9 DEF Cleanup, RemoveJobDir, ChildInv, ScannersDone, procVars, inputVars
<1>10. CASE ChildStep \/ KillChild \/ HandleCancel
  BY <1>10 DEF ChildStep, ChildWrites, ChildExits, ForksEnd, KillChild, HandleCancel, ChildInv,
               ScannersDone, procVars, inputVars
<1>11. ASSUME NEW s \in Streams, ScannerStep(s)
       PROVE  ChildInv'
  <2>1. UNCHANGED <<stage, script, child, sent, exit0, result>>
    BY <1>11 DEF ScannerStep, ScanReads, ScanEOF, inputVars
  <2>2. ~ScannersDone
    BY <1>11 DEF ScannerStep, ScanReads, ScanEOF, ScannersDone
  <2> QED BY <2>1, <2>2 DEF ChildInv
<1> QED BY <1>1, <1>2, <1>3, <1>4, <1>5, <1>6, <1>7, <1>8, <1>9, <1>10, <1>11 DEF Next, RunStep

\* When no line is too long, every step keeps account of the output.
LEMMA OutputStep ==
  ASSUME TypeOK, ChildInv, FitsScanner, OutputInv, Next
  PROVE  OutputInv'
<1>1. ASSUME RunStep \/ ChildExits \/ ForksEnd \/ KillChild \/ HandleCancel
      PROVE  OutputInv'
  <2>1. UNCHANGED <<script, sent, pipe, scanner, partial, logged>>
    BY <1>1 DEF RunStep, MakeDir, MaterializeOne, MaterializeReturns, GitClone, Prepare, StartPlaybook, WgWait,
                CmdWait, Status, Cleanup, RemoveJobDir, ChildExits, ForksEnd, KillChild, HandleCancel,
                procVars, inputVars
  <2>2. WriterGone => WriterGone'
    BY <1>1 DEF RunStep, MakeDir, MaterializeOne, MaterializeReturns, GitClone, Prepare, StartPlaybook, WgWait,
                CmdWait, Status, Cleanup, RemoveJobDir, ChildExits, ForksEnd, KillChild, HandleCancel,
                procVars, ChildInv, WriterGone
  <2> QED BY <2>1, <2>2, OutputKept
<1> QED BY <1>1, WritesOutput, ReadsOutput, EndsOutput DEF Next, ChildStep, ScannerStep

-----------------------------------------------------------------------------
\* Every reachable state of a run has its types; no line outgrows its scanner's buffer.
THEOREM TypeCorrect == Spec => []TypeOK
<1>1. Init => TypeOK
  <2> SUFFICES ASSUME Init PROVE TypeOK
    OBVIOUS
  <2>1. creds \in Seq(Kinds) /\ script \in Seq(Unit) /\ Len(script) \in Nat
    BY ListsAssumption, ScriptsAssumption DEF Init
  <2>2. pipe \in [Streams -> Seq(BOOLEAN)] /\ \A s \in Streams : Len(pipe[s]) <= 1
    BY DEF Init
  <2>3. partial \in [Streams -> 0 .. ScanBuffer] /\ sent \in 0 .. Len(script)
    BY <2>1, ScanBufferAssumption DEF Init
  <2> QED BY <2>1, <2>2, <2>3 DEF Init, TypeOK, Statuses
<1>2. TypeOK /\ [Next]_vars => TypeOK'
  <2>1. ASSUME TypeOK, UNCHANGED vars
        PROVE  TypeOK'
    BY <2>1 DEF vars, inputVars, diskVars, procVars, TypeOK
  <2> QED BY <2>1, RunStepType, ChildType, ScannerType DEF Next
<1> QED BY <1>1, <1>2, PTL DEF Spec

\* No secret outlives a run unless removals failed: two of them, or RemoveAll alone where Cleanup
\* does not know of the file, after a failed Materialize and for the token in git's configuration.
THEOREM NoSecretLeft == Spec => []SecretsAreRemoved
<1>1. Init => FilesInv
  BY DEF Init, FilesInv, Deferred, SecretsAreRemoved
<1>2. FilesInv /\ [Next]_vars => FilesInv'
  <2>1. ASSUME FilesInv,
               \/ ChildStep \/ KillChild \/ (\E s \in Streams : ScannerStep(s)) \/ HandleCancel
               \/ UNCHANGED vars
        PROVE  FilesInv'
    <3>1. UNCHANGED <<stage, files, written, undeleted, materialised>>
      BY <2>1 DEF ChildStep, ChildWrites, ChildExits, ForksEnd, KillChild, ScannerStep, ScanReads, ScanEOF,
                  HandleCancel, vars, diskVars
    <3> QED BY <2>1, <3>1 DEF FilesInv, SecretsAreRemoved
  <2> QED BY <2>1, FilesStep DEF Next
<1>3. FilesInv => SecretsAreRemoved
  BY DEF FilesInv
<1> QED BY <1>1, <1>2, <1>3, PTL DEF Spec

\* A run that reports success has delivered every line: for any script of the playbook whose
\* lines fit the scanner's buffer, the lines handed to onLog are all the lines it wrote, and in
\* any case the playbook has exited with 0.
THEOREM NothingIsLost == Spec => []SuccessIsComplete
<1>1. Init => RunInv
  <2> SUFFICES ASSUME Init PROVE RunInv
    OBVIOUS
  <2>1. ChildInv
    BY DEF Init, ChildInv
  <2>2. sent = 0 /\ pipe = [s \in Streams |-> <<>>] /\ scanner = [s \in Streams |-> "scan"]
        /\ partial = [s \in Streams |-> 0] /\ logged = 0
    BY DEF Init
  <2>3. \A s \in Streams : OpenLine(script, s, sent) = {}
    BY <2>2 DEF OpenLine
  <2>4. Delivered = {}
    BY <2>2 DEF Delivered
  <2>5. PipeInv /\ StopInv
    BY <2>2 DEF PipeInv, StopInv
  <2>6. PartialInv
    <3>1. \A s \in Streams : partial[s] = 0 /\ Cardinality(OpenLine(script, s, sent)) = 0
      BY <2>2, <2>3, FS_EmptySet
    <3> QED BY <3>1 DEF PartialInv
  <2> QED BY <2>1, <2>2, <2>4, <2>5, <2>6, FS_EmptySet DEF RunInv, OutputInv
<1>2. TypeOK /\ RunInv /\ [Next]_vars => RunInv'
  <2> SUFFICES ASSUME TypeOK, RunInv, [Next]_vars PROVE RunInv'
    OBVIOUS
  <2>1. script' = script
    BY DEF Next, RunStep, MakeDir, MaterializeOne, MaterializeReturns, GitClone, Prepare, StartPlaybook, WgWait,
           CmdWait, Status, Cleanup, RemoveJobDir, ChildStep, ChildWrites, ChildExits, ForksEnd, KillChild,
           ScannerStep, ScanReads, ScanEOF, HandleCancel, vars, inputVars
  <2>2. FitsScanner' <=> FitsScanner
    BY <2>1 DEF FitsScanner
  <2>3. CASE Next
    BY <2>2, <2>3, ChildStepInv, OutputStep DEF RunInv
  <2>4. CASE UNCHANGED vars
    <3>1. UNCHANGED <<stage, script, child, forks, sent, pipe, scanner, partial, logged, exit0, result>>
      BY <2>4 DEF vars, procVars, inputVars
    <3>2. ChildInv'
      BY <3>1 DEF RunInv, ChildInv, ScannersDone
    <3>3. WriterGone => WriterGone'
      BY <3>1 DEF WriterGone
    <3> QED BY <2>2, <3>1, <3>2, <3>3, OutputKept DEF RunInv
  <2> QED BY <2>3, <2>4
<1>3. TypeOK /\ RunInv => SuccessIsComplete
  <2> SUFFICES ASSUME TypeOK, RunInv, result = "success"
               PROVE  child = "exit0" /\ (FitsScanner => logged = Cardinality(LineEnds))
    BY DEF SuccessIsComplete
  <2>1. child = "exit0" /\ ScannersDone /\ sent = Len(script)
    BY DEF RunInv, ChildInv
  <2>2. ASSUME FitsScanner PROVE Delivered = LineEnds
    <3>1. script \in Seq(Unit) /\ \A i \in 1 .. Len(script) : script[i][1] \in Streams
      BY ScriptsAssumption DEF TypeOK, Unit
    <3>2. \A i \in 1 .. Len(script) : IsRead(i) /\ scanner[script[i][1]] = "stopped"
      BY <2>1, <2>2, <3>1 DEF RunInv, OutputInv, StopInv, ScannersDone, IsRead
    <3>3. \A i \in 1 .. Len(script) :
            LastOn(script[i][1], i) <=> \A j \in i + 1 .. Len(script) : script[j][1] # script[i][1]
      BY <2>1 DEF LastOn
    <3> QED BY <2>1, <3>2, <3>3 DEF Delivered, LineEnds
  <2> QED BY <2>1, <2>2 DEF RunInv, OutputInv
<1> QED BY <1>1, <1>2, <1>3, TypeCorrect, PTL DEF Spec

=============================================================================
