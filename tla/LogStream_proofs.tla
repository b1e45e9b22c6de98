-------------------------- MODULE LogStream_proofs --------------------------
(***************************************************************************)
(* What the log path keeps for any number of lines.  NothingStranded rests *)
(* on the order scanners - RunReturns - Flush - last flush: each stage     *)
(* implies that the one before it is over, which is what FlushOrder says.  *)
(* RowsAreSent rests on LinesConserved: a line that is added is in neither *)
(* the buffer nor a batch, so no two entries carry the same line.          *)
(***************************************************************************)
EXTENDS LogStream, FiniteSetTheorems, SequenceTheorems, TLAPS

ScannersDone == \A s \in Streams : scanner[s] = "eof"

FlushOrder ==
  /\ stage # "run" => ScannersDone
  /\ closed => stage \in {"result", "end"}
  /\ batcher \in {"last", "stopped"} => closed /\ buf = <<>>

\* What the types do not say: a scanner that holds a number has read a line, and a request
\* has something left to insert.
Shape ==
  /\ \A s \in Streams : scanner[s] \in {"set", "add"} => read[s] \in 1 .. MaxLines
  /\ \A q \in reqs : q # <<>>

\* A flush by the batcher's goroutine keeps the types, and posts no empty batch.
LEMMA DoFlushType ==
  ASSUME TypeOK, Shape, NEW busy \in {"post", "last"}, NEW idle \in {"run", "stopped"},
         DoFlush(busy, idle)
  PROVE  /\ buf' \in Seq(Entry) /\ shipped' \in Seq(Entry)
         /\ reqs' \in SUBSET Seq(Entry)
         /\ \A q \in reqs' : q # <<>>
         /\ batcher' \in {"run", "post", "last", "stopped"}
<1>1. CASE buf = <<>>
  BY <1>1 DEF DoFlush, TypeOK, Shape
<1>2. CASE buf # <<>>
  <2>1. shipped' = shipped \o buf /\ reqs' = reqs \cup {buf} /\ buf' = <<>> /\ batcher' = busy
    BY <1>2 DEF DoFlush
  <2>2. buf \in Seq(Entry) /\ shipped \in Seq(Entry) /\ reqs \in SUBSET Seq(Entry)
    BY DEF TypeOK
  <2>3. shipped' \in Seq(Entry) /\ buf' \in Seq(Entry)
    BY <2>1, <2>2
  <2>4. reqs' \in SUBSET Seq(Entry) /\ \A q \in reqs' : q # <<>>
    BY <2>1, <2>2, <1>2 DEF Shape
  <2> QED BY <2>1, <2>3, <2>4
<1> QED BY <1>1, <1>2

\* One INSERT of a request keeps the types, and a request with nothing left is gone.
LEMMA AppendJobLogType ==
  ASSUME TypeOK, Shape, NEW q \in reqs, AppendJobLog(q)
  PROVE  /\ rows' \in SUBSET Entry
         /\ reqs' \in SUBSET Seq(Entry)
         /\ \A p \in reqs' : p # <<>>
<1>1. q \in Seq(Entry) /\ q # <<>> /\ Len(q) \in Nat /\ Len(q) # 0
  BY DEF TypeOK, Shape
<1>2. Head(q) \in Entry
  BY <1>1
<1>3. rows' \in SUBSET Entry
  BY <1>2 DEF AppendJobLog, Insert, TypeOK
<1>4. CASE Len(q) = 1
  BY <1>3, <1>4 DEF AppendJobLog, TypeOK, Shape
<1>5. CASE Len(q) # 1
  <2>1. Tail(q) \in Seq(Entry) /\ Len(Tail(q)) = Len(q) - 1
    BY <1>1
  <2>2. Tail(q) # <<>>
    <3>1. Len(Tail(q)) # 0
      BY <1>1, <1>5, <2>1
    <3>2. Len(<<>>) = 0
      OBVIOUS
    <3> QED BY <3>1, <3>2, Zenon
  <2> QED BY <1>3, <1>5, <2>1, <2>2 DEF AppendJobLog, TypeOK, Shape
<1> QED BY <1>4, <1>5

\* The types and what they do not say hold in every state.
LEMMA TypeAndShape == Spec => [](TypeOK /\ Shape)
<1>1. Init => TypeOK /\ Shape
  <2> SUFFICES ASSUME Init PROVE TypeOK /\ Shape
    OBVIOUS
  <2>1. 0 \in 0 .. MaxLines
    BY MaxLinesAssumption
  <2>2. <<>> \in Seq(Entry)
    OBVIOUS
  <2> QED BY <2>1, <2>2 DEF Init, TypeOK, Shape
<1>2. TypeOK /\ Shape /\ [Next]_vars => TypeOK' /\ Shape'
  <2> SUFFICES ASSUME TypeOK, Shape, [Next]_vars PROVE TypeOK' /\ Shape'
    OBVIOUS
  <2>1. CASE UNCHANGED vars
    BY <2>1 DEF TypeOK, Shape, vars, scanVars, batchVars
  <2>2. ASSUME NEW s \in Streams, ScannerStep(s) PROVE TypeOK' /\ Shape'
    <3>1. CASE Scan(s)
      BY <2>2, <3>1, MaxLinesAssumption DEF ScannerStep, Scan, TypeOK, Shape, batchVars
    <3>2. CASE SetSeq(s)
      BY <2>2, <3>2 DEF ScannerStep, SetSeq, TypeOK, Shape, batchVars
    <3>3. CASE Add(s)
      <4>1. PICK v \in {n[s], seq} : buf' = Append(buf, [seq |-> v, line |-> <<s, read[s]>>])
        BY <3>3 DEF Add
      <4>2. v \in Nat /\ read[s] \in 1 .. MaxLines
        BY <3>3 DEF Add, TypeOK, Shape
      <4>3. [seq |-> v, line |-> <<s, read[s]>>] \in Entry
        BY <4>2 DEF Entry, Lines
      <4>4. buf' \in Seq(Entry)
        BY <4>1, <4>3 DEF TypeOK
      <4> QED BY <2>2, <3>3, <4>4 DEF ScannerStep, Add, TypeOK, Shape
    <3>4. CASE ScanEnds(s)
      BY <2>2, <3>4 DEF ScannerStep, ScanEnds, TypeOK, Shape, batchVars
    <3> QED BY <2>2, <3>1, <3>2, <3>3, <3>4 DEF ScannerStep
  <2>3. CASE ExecuteJobStep
    BY <2>3 DEF ExecuteJobStep, RunReturns, Flush, PostResult, TypeOK, Shape, scanVars, batchVars
  <2>4. CASE BatcherStep
    <3>1. CASE TickerFires
      <4>1. DoFlush("post", "run")
        BY <3>1 DEF TickerFires
      <4> QED BY <2>4, <3>1, <4>1, DoFlushType DEF BatcherStep, TickerFires, TypeOK, Shape, scanVars
    <3>2. CASE DoneReceived
      <4>1. DoFlush("last", "stopped")
        BY <3>2 DEF DoneReceived
      <4> QED BY <2>4, <3>2, <4>1, DoFlushType DEF BatcherStep, DoneReceived, TypeOK, Shape, scanVars
    <3>3. CASE PostLogsReturns
      BY <2>4, <3>3 DEF BatcherStep, PostLogsReturns, TypeOK, Shape, scanVars
    <3> QED BY <2>4, <3>1, <3>2, <3>3 DEF BatcherStep
  <2>5. CASE ApiStep
    <3>1. PICK q \in reqs : AppendJobLog(q) \/ PostLogsFails(q)
      BY <2>5 DEF ApiStep
    <3>2. CASE AppendJobLog(q)
      BY <2>5, <3>2, AppendJobLogType DEF ApiStep, TypeOK, Shape, scanVars, batchVars
    <3>3. CASE PostLogsFails(q)
      BY <2>5, <3>3 DEF ApiStep, PostLogsFails, TypeOK, Shape, scanVars, batchVars
    <3> QED BY <3>1, <3>2, <3>3
  <2>6. CASE AgentDies
    BY <2>6 DEF AgentDies, TypeOK, Shape, scanVars, batchVars
  <2> QED BY <2>1, <2>2, <2>3, <2>4, <2>5, <2>6 DEF Next
<1> QED BY <1>1, <1>2, PTL DEF Spec

\* The sequences and sets of LogStream keep their types in every step, with
\* numbers of any size and batches of any length.
THEOREM TypeCorrect == Spec => []TypeOK
BY TypeAndShape, PTL

\* When the batcher's goroutine has returned, its buffer is empty and no scanner is left to
\* add to it: RunReturns waits for both scanners before Flush closes the channel.
THEOREM NoLineStranded == Spec => []NothingStranded
<1>1. Init => FlushOrder
  BY DEF Init, FlushOrder
<1>2. TypeOK /\ FlushOrder /\ [Next]_vars => FlushOrder'
  <2> SUFFICES ASSUME TypeOK, FlushOrder, [Next]_vars PROVE FlushOrder'
    OBVIOUS
  <2> USE DEF FlushOrder, ScannersDone
  <2>1. CASE UNCHANGED vars
    BY <2>1 DEF vars, scanVars, batchVars
  <2>2. ASSUME NEW s \in Streams, ScannerStep(s) PROVE FlushOrder'
    <3>1. scanner[s] # "eof"
      BY <2>2 DEF ScannerStep, Scan, SetSeq, Add, ScanEnds
    <3>2. stage = "run" /\ ~closed /\ batcher \in {"run", "post"}
      BY <3>1 DEF TypeOK
    <3>3. UNCHANGED <<stage, closed, batcher>>
      BY <2>2 DEF ScannerStep, Scan, SetSeq, Add, ScanEnds, batchVars
    <3> QED BY <3>2, <3>3
  <2>3. CASE ExecuteJobStep
    BY <2>3 DEF ExecuteJobStep, RunReturns, Flush, PostResult, TypeOK, scanVars, batchVars
  <2>4. CASE BatcherStep
    BY <2>4 DEF BatcherStep, TickerFires, DoneReceived, PostLogsReturns, DoFlush, TypeOK, scanVars
  <2>5. CASE ApiStep
    BY <2>5 DEF ApiStep, scanVars, batchVars
  <2>6. CASE AgentDies
    BY <2>6 DEF AgentDies, scanVars, batchVars
  <2> QED BY <2>1, <2>2, <2>3, <2>4, <2>5, <2>6 DEF Next
<1>3. FlushOrder => NothingStranded
  BY DEF FlushOrder, NothingStranded, ScannersDone
<1> QED BY <1>1, <1>2, <1>3, TypeCorrect, PTL DEF Spec

-----------------------------------------------------------------------------
\* No two entries carry the same line; requests and rows hold entries that were posted.
DistinctLines ==
  \A e, f \in Entries(buf) \cup Entries(shipped) : e.line = f.line => e = f

SentInv ==
  /\ \A q \in reqs : Entries(q) \subseteq Entries(shipped)
  /\ rows \subseteq Entries(shipped)
  /\ \A e, f \in rows : e.seq = f.seq => e = f

Conserved == LinesConserved /\ DistinctLines /\ SentInv /\ IsFiniteSet(Added)

\* What Append and concatenation do to the entries of a batch.
LEMMA EntriesAppend ==
  ASSUME NEW es \in Seq(Entry), NEW e \in Entry
  PROVE  /\ Entries(Append(es, e)) = Entries(es) \cup {e}
         /\ LinesOf(Append(es, e)) = LinesOf(es) \cup {e.line}
         /\ Len(Append(es, e)) = Len(es) + 1
<1>1. /\ Append(es, e) \in Seq(Entry) /\ Len(Append(es, e)) = Len(es) + 1
      /\ \A i \in 1 .. Len(es) : Append(es, e)[i] = es[i]
      /\ Append(es, e)[Len(es) + 1] = e
  BY AppendProperties
<1>2. DOMAIN Append(es, e) = 1 .. Len(es) + 1 /\ DOMAIN es = 1 .. Len(es) /\ Len(es) \in Nat
  BY <1>1, LenProperties
<1>3. Entries(Append(es, e)) = Entries(es) \cup {e}
  BY <1>1, <1>2 DEF Entries
<1> QED BY <1>1, <1>3 DEF LinesOf

\* What concatenation does to them.
LEMMA EntriesConcat ==
  ASSUME NEW a \in Seq(Entry), NEW b \in Seq(Entry)
  PROVE  /\ Entries(a \o b) = Entries(a) \cup Entries(b)
         /\ LinesOf(a \o b) = LinesOf(a) \cup LinesOf(b)
         /\ Len(a \o b) = Len(a) + Len(b)
<1>1. /\ a \o b \in Seq(Entry) /\ Len(a \o b) = Len(a) + Len(b)
      /\ \A i \in 1 .. Len(a) + Len(b) : (a \o b)[i] = IF i <= Len(a) THEN a[i] ELSE b[i - Len(a)]
  BY ConcatProperties
<1>2. /\ DOMAIN (a \o b) = 1 .. Len(a) + Len(b) /\ Len(a) \in Nat /\ Len(b) \in Nat
      /\ DOMAIN a = 1 .. Len(a) /\ DOMAIN b = 1 .. Len(b)
  BY <1>1, LenProperties
<1>3. Entries(a \o b) \subseteq Entries(a) \cup Entries(b)
  <2> SUFFICES ASSUME NEW i \in 1 .. Len(a) + Len(b)
               PROVE  (a \o b)[i] \in Entries(a) \cup Entries(b)
    BY <1>2 DEF Entries
  <2>1. CASE i <= Len(a)
    BY <1>1, <1>2, <2>1 DEF Entries
  <2>2. CASE ~(i <= Len(a))
    <3>1. (a \o b)[i] = b[i - Len(a)] /\ i - Len(a) \in 1 .. Len(b)
      BY <1>1, <1>2, <2>2
    <3> QED BY <1>2, <3>1 DEF Entries
  <2> QED BY <2>1, <2>2
<1>4. Entries(a) \subseteq Entries(a \o b)
  BY <1>1, <1>2 DEF Entries
<1>5. Entries(b) \subseteq Entries(a \o b)
  <2> SUFFICES ASSUME NEW i \in 1 .. Len(b)
               PROVE  b[i] \in Entries(a \o b)
    BY <1>2 DEF Entries
  <2>1. Len(a) + i \in 1 .. Len(a) + Len(b) /\ ~(Len(a) + i <= Len(a)) /\ (Len(a) + i) - Len(a) = i
    BY <1>2
  <2>2. (a \o b)[Len(a) + i] = b[i]
    BY <1>1, <2>1
  <2> QED BY <1>2, <2>1, <2>2 DEF Entries
<1> QED BY <1>1, <1>3, <1>4, <1>5 DEF LinesOf

\* What is left of a request was in it.
LEMMA EntriesTail ==
  ASSUME NEW q \in Seq(Entry), q # <<>>
  PROVE  Head(q) \in Entries(q) /\ Entries(Tail(q)) \subseteq Entries(q)
<1>1. /\ Tail(q) \in Seq(Entry) /\ Len(Tail(q)) = Len(q) - 1
      /\ \A i \in 1 .. Len(Tail(q)) : Tail(q)[i] = q[i + 1]
  BY HeadTailProperties
<1>2. /\ DOMAIN q = 1 .. Len(q) /\ Len(q) \in Nat /\ Len(q) # 0
      /\ DOMAIN Tail(q) = 1 .. Len(Tail(q))
  BY <1>1, LenProperties, EmptySeq
<1>3. Head(q) = q[1]
  OBVIOUS
<1> QED BY <1>1, <1>2, <1>3 DEF Entries

\* Only Add changes what has been added.
LEMMA AddedStays ==
  ASSUME TypeOK, Shape, NEW s \in Streams, Scan(s) \/ SetSeq(s) \/ ScanEnds(s)
  PROVE  Added' = Added
<1>1. \A x \in Streams : read[x] \in Nat
  BY DEF TypeOK
<1>2. CASE Scan(s)
  <2>1. \A x \in Streams : /\ read'[x] = IF x = s THEN read[x] + 1 ELSE read[x]
                           /\ scanner'[x] = IF x = s THEN "set" ELSE scanner[x]
    BY <1>2 DEF Scan, TypeOK
  <2>2. scanner[s] = "scan"
    BY <1>2 DEF Scan
  <2>3. \A l \in Lines : l[1] \in Streams /\ l[2] \in Nat
    BY DEF Lines
  <2> QED BY <1>1, <2>1, <2>2, <2>3 DEF Added
<1>3. CASE SetSeq(s) \/ ScanEnds(s)
  <2>1. /\ read' = read
        /\ \A x \in Streams : scanner'[x] = scanner[x]
             \/ (scanner[x] \in {"set", "add"} /\ scanner'[x] \in {"set", "add"})
             \/ (scanner[x] \in {"scan", "eof"} /\ scanner'[x] \in {"scan", "eof"})
    BY <1>3 DEF SetSeq, ScanEnds, TypeOK
  <2>2. \A l \in Lines : l[1] \in Streams /\ l[2] \in Nat
    BY DEF Lines
  <2>3. \A x \in Streams : scanner'[x] \in {"scan", "eof"} <=> scanner[x] \in {"scan", "eof"}
    BY <2>1
  <2> QED BY <2>1, <2>2, <2>3 DEF Added
<1> QED BY <1>2, <1>3

\* Add adds one line, which was not there.
LEMMA AddedGrows ==
  ASSUME TypeOK, Shape, NEW s \in Streams, Add(s)
  PROVE  /\ <<s, read[s]>> \in Lines /\ <<s, read[s]>> \notin Added
         /\ Added' = Added \cup {<<s, read[s]>>}
<1>1. scanner[s] = "add" /\ read' = read
  BY DEF Add
<1>2. \A x \in Streams : scanner'[x] = IF x = s THEN "scan" ELSE scanner[x]
  BY DEF Add, TypeOK
<1>3. read[s] \in 1 .. MaxLines /\ \A x \in Streams : read[x] \in Nat
  BY <1>1 DEF TypeOK, Shape
<1>4. <<s, read[s]>> \in Lines /\ <<s, read[s]>> \notin Added
  BY <1>1, <1>3 DEF Lines, Added
<1>5. \A l \in Lines : /\ l[1] \in Streams /\ l[2] \in Nat
                       /\ l = <<s, read[s]>> <=> l[1] = s /\ l[2] = read[s]
  BY DEF Lines
<1>6. \A l \in Lines : l \in Added' <=> l \in Added \/ l = <<s, read[s]>>
  BY <1>1, <1>2, <1>3, <1>5 DEF Added
<1>7. Added \subseteq Lines /\ Added' \subseteq Lines
  BY DEF Added
<1> QED BY <1>4, <1>6, <1>7

\* Add keeps the books.
LEMMA AddConserves ==
  ASSUME TypeOK, Shape, Conserved, NEW s \in Streams, Add(s)
  PROVE  Conserved'
<1> DEFINE l == <<s, read[s]>>
<1>1. PICK v \in {n[s], seq} : buf' = Append(buf, [seq |-> v, line |-> l])
  BY DEF Add
<1>2. l \in Lines /\ l \notin Added /\ Added' = Added \cup {l}
  BY AddedGrows
<1> DEFINE e == [seq |-> v, line |-> l]
<1>3. e \in Entry /\ e.line = l
  BY <1>2 DEF Entry, TypeOK
<1>4. UNCHANGED <<shipped, reqs, rows>>
  BY DEF Add
<1> HIDE DEF l, e
<1>5. buf' = Append(buf, e)
  BY <1>1 DEF l, e
<1>6. /\ Entries(buf') = Entries(buf) \cup {e} /\ LinesOf(buf') = LinesOf(buf) \cup {l}
      /\ Len(buf') = Len(buf) + 1
  BY <1>3, <1>5, EntriesAppend DEF TypeOK
<1>7. IsFiniteSet(Added') /\ Cardinality(Added') = Cardinality(Added) + 1
  BY <1>2, FS_AddElement DEF Conserved
<1>8. LinesConserved'
  <2>1. LinesOf(buf') \cup LinesOf(shipped') = Added'
    BY <1>2, <1>4, <1>6 DEF Conserved, LinesConserved
  <2>2. Len(buf) \in Nat /\ Len(shipped) \in Nat
    BY LenProperties DEF TypeOK
  <2>3. Len(buf') + Len(shipped') = Cardinality(Added')
    BY <1>4, <1>6, <1>7, <2>2 DEF Conserved, LinesConserved
  <2> QED BY <2>1, <2>3 DEF LinesConserved
<1>9. DistinctLines'
  <2>1. \A f \in Entries(buf) \cup Entries(shipped) : f.line # l
    BY <1>2 DEF Conserved, LinesConserved, LinesOf
  <2> QED BY <1>3, <1>4, <1>6, <2>1 DEF Conserved, DistinctLines
<1>10. SentInv'
  BY <1>4 DEF Conserved, SentInv
<1> QED BY <1>7, <1>8, <1>9, <1>10 DEF Conserved

\* A flush moves the buffer to the batches.
LEMMA FlushConserves ==
  ASSUME TypeOK, Conserved, NEW busy, NEW idle, DoFlush(busy, idle),
         UNCHANGED <<scanner, read, rows>>
  PROVE  Conserved'
<1>1. Added' = Added
  BY DEF Added
<1>2. CASE buf = <<>>
  BY <1>1, <1>2 DEF DoFlush, Conserved, LinesConserved, DistinctLines, SentInv
<1>3. CASE buf # <<>>
  <2>1. shipped' = shipped \o buf /\ reqs' = reqs \cup {buf} /\ buf' = <<>>
    BY <1>3 DEF DoFlush
  <2>2. buf \in Seq(Entry) /\ shipped \in Seq(Entry)
    BY DEF TypeOK
  <2>3. /\ Entries(shipped') = Entries(shipped) \cup Entries(buf)
        /\ LinesOf(shipped') = LinesOf(shipped) \cup LinesOf(buf)
        /\ Len(shipped') = Len(shipped) + Len(buf)
    BY <2>1, <2>2, EntriesConcat
  <2>4. Entries(buf') = {} /\ LinesOf(buf') = {} /\ Len(buf') = 0
    BY <2>1 DEF Entries, LinesOf
  <2>5. Len(buf) \in Nat /\ Len(shipped) \in Nat
    BY <2>2, LenProperties
  <2>6. LinesConserved'
    BY <1>1, <2>3, <2>4, <2>5 DEF Conserved, LinesConserved
  <2>7. DistinctLines'
    BY <2>3, <2>4 DEF Conserved, DistinctLines
  <2>8. SentInv'
    BY <2>1, <2>3 DEF Conserved, SentInv
  <2> QED BY <1>1, <2>6, <2>7, <2>8 DEF Conserved
<1> QED BY <1>2, <1>3

\* Steps of the API insert what was posted.
LEMMA ApiConserves ==
  ASSUME TypeOK, Shape, Conserved, ApiStep
  PROVE  Conserved'
<1>1. UNCHANGED <<scanner, read, buf, shipped>>
  BY DEF ApiStep, scanVars, batchVars
<1>2. Added' = Added /\ LinesConserved' /\ DistinctLines'
  BY <1>1 DEF Added, Conserved, LinesConserved, DistinctLines
<1>3. PICK q \in reqs : AppendJobLog(q) \/ PostLogsFails(q)
  BY DEF ApiStep
<1>4. q \in Seq(Entry) /\ q # <<>> /\ Entries(q) \subseteq Entries(shipped)
  BY DEF TypeOK, Shape, Conserved, SentInv
<1>5. Head(q) \in Entries(shipped) /\ Entries(Tail(q)) \subseteq Entries(shipped)
  BY <1>4, EntriesTail
<1>6. SentInv'
  <2>1. CASE AppendJobLog(q)
    <3>1. \/ rows' = rows
          \/ rows' = rows \cup {Head(q)} /\ \A row \in rows : row.seq # Head(q).seq
      BY <2>1 DEF AppendJobLog, Insert
    <3>2. reqs' \subseteq reqs \cup {Tail(q)}
      BY <2>1 DEF AppendJobLog
    <3> QED BY <1>1, <1>5, <3>1, <3>2 DEF Conserved, SentInv
  <2>2. CASE PostLogsFails(q)
    BY <1>1, <2>2 DEF PostLogsFails, Conserved, SentInv
  <2> QED BY <1>3, <2>1, <2>2
<1> QED BY <1>2, <1>6 DEF Conserved

\* The books are kept by every step.
LEMMA BooksAreKept == Spec => []Conserved
<1>1. Init => Conserved
  <2> SUFFICES ASSUME Init PROVE Conserved
    OBVIOUS
  <2>1. Entries(buf) = {} /\ Entries(shipped) = {} /\ LinesOf(buf) = {} /\ LinesOf(shipped) = {}
    BY DEF Init, Entries, LinesOf
  <2>2. Added = {}
    BY DEF Init, Added, Lines
  <2>3. Len(buf) = 0 /\ Len(shipped) = 0
    BY DEF Init
  <2>4. LinesConserved /\ IsFiniteSet(Added)
    BY <2>1, <2>2, <2>3, FS_EmptySet DEF LinesConserved
  <2>5. DistinctLines /\ SentInv
    BY <2>1 DEF Init, DistinctLines, SentInv
  <2> QED BY <2>4, <2>5 DEF Conserved
<1>2. TypeOK /\ Shape /\ Conserved /\ [Next]_vars => Conserved'
  <2> SUFFICES ASSUME TypeOK, Shape, Conserved, [Next]_vars PROVE Conserved'
    OBVIOUS
  <2>1. ASSUME UNCHANGED <<buf, shipped, reqs, rows>>, Added' = Added
        PROVE  Conserved'
    BY <2>1 DEF Conserved, LinesConserved, DistinctLines, SentInv
  <2>2. ASSUME NEW s \in Streams, ScannerStep(s)
        PROVE  Conserved'
    <3>1. CASE Add(s)
      BY <3>1, AddConserves
    <3>2. CASE Scan(s) \/ SetSeq(s) \/ ScanEnds(s)
      <4>1. UNCHANGED <<buf, shipped, reqs, rows>>
        BY <3>2 DEF Scan, SetSeq, ScanEnds, batchVars
      <4> QED BY <2>1, <3>2, <4>1, AddedStays
    <3> QED BY <2>2, <3>1, <3>2 DEF ScannerStep
  <2>3. CASE ExecuteJobStep \/ AgentDies \/ PostLogsReturns \/ UNCHANGED vars
    <3>1. UNCHANGED <<scanner, read, buf, shipped, reqs, rows>>
      BY <2>3 DEF ExecuteJobStep, RunReturns, Flush, PostResult, AgentDies, PostLogsReturns, vars,
                  scanVars, batchVars
    <3>2. Added' = Added
      BY <3>1 DEF Added
    <3> QED BY <2>1, <3>1, <3>2
  <2>4. CASE TickerFires \/ DoneReceived
    BY <2>4, FlushConserves DEF TickerFires, DoneReceived, scanVars
  <2>5. CASE ApiStep
    BY <2>5, ApiConserves
  <2> QED BY <2>2, <2>3, <2>4, <2>5 DEF Next, BatcherStep
<1> QED BY <1>1, <1>2, TypeAndShape, PTL DEF Spec

\* No captured line is lost or repeated between Add and PostLogs.
THEOREM LinesAreConserved == Spec => []LinesConserved
<1>1. Conserved => LinesConserved
  BY DEF Conserved
<1> QED BY <1>1, BooksAreKept, PTL

\* job_logs holds what was posted, one row per number and one per line.
THEOREM RowsWereSent == Spec => []RowsAreSent
<1>1. Conserved => RowsAreSent
  BY DEF Conserved, SentInv, DistinctLines, RowsAreSent
<1> QED BY <1>1, BooksAreKept, PTL

=============================================================================
