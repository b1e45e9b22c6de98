-------------------------- MODULE Inventory_proofs --------------------------
(***************************************************************************)
(* The parser computes what a file means and WriteInventory writes a file  *)
(* that means its hosts, for files of any length, any names, groups, keys  *)
(* and values, and every order of the lists and maps.                      *)
(*                                                                         *)
(* The meaning of a file looks at all of it at once; the proofs go line by *)
(* line.  HeadInv says what currentGroup and skipSection stand for, HostInv *)
(* what the map holds when some fields and the group of the last line are  *)
(* still to come.  WriteInv describes the part of the file that is written. *)
(***************************************************************************)
EXTENDS Inventory, SequenceTheorems, FiniteSetTheorems, TLAPS

-----------------------------------------------------------------------------
(* Lines, headers and fields of a file that grows. *)

\* f is the beginning of g.
Extends(g, f) == Len(f) <= Len(g) /\ \A i \in 1 .. Len(f) : g[i] = f[i]

\* The header that governs a line depends on the lines up to it only.
LEMMA HeaderPrefix ==
  ASSUME NEW f, NEW g, Len(f) \in Nat, Len(g) \in Nat, Extends(g, f), NEW i \in 1 .. Len(f)
  PROVE  HeaderOf(g, i) = HeaderOf(f, i)
<1>1. \A j \in 1 .. i : g[j] = f[j]
  BY DEF Extends
<1>2. \A j \in 1 .. i : \A k \in j + 1 .. i : g[k] = f[k]
  BY <1>1
<1> QED BY <1>1, <1>2 DEF HeaderOf

\* A line has at most one header.
LEMMA HeaderUnique ==
  ASSUME NEW f, NEW i \in Nat, NEW j \in HeaderOf(f, i), NEW k \in HeaderOf(f, i)
  PROVE  j = k
<1>1. j \in 1 .. i /\ k \in 1 .. i
  BY DEF HeaderOf
<1>2. ASSUME j < k PROVE FALSE
  <2>1. k \in j + 1 .. i
    BY <1>1, <1>2
  <2> QED BY <2>1 DEF HeaderOf
<1>3. ASSUME k < j PROVE FALSE
  <2>1. j \in k + 1 .. i
    BY <1>1, <1>3
  <2> QED BY <2>1 DEF HeaderOf
<1> QED BY <1>1, <1>2, <1>3

\* Under a header at h with no other up to i, h governs i.
LEMMA HeaderIs ==
  ASSUME NEW f, NEW i \in Nat, NEW h \in 1 .. i, f[h].kind = "section",
         \A k \in h + 1 .. i : f[k].kind # "section"
  PROVE  HeaderOf(f, i) = {h}
<1>1. h \in HeaderOf(f, i)
  BY DEF HeaderOf
<1>2. \A j \in HeaderOf(f, i) : j = h
  BY <1>1, HeaderUnique
<1> QED BY <1>1, <1>2

\* The lines of a host in the beginning of a file are its lines there.
LEMMA LinesPrefix ==
  ASSUME NEW f, NEW g, Len(f) \in Nat, Len(g) \in Nat, Extends(g, f), NEW n,
         NEW i \in 1 .. Len(f)
  PROVE  i \in LinesOf(g, n) <=> i \in LinesOf(f, n)
<1>1. g[i] = f[i] /\ i \in 1 .. Len(g)
  BY DEF Extends
<1>2. HeaderOf(g, i) = HeaderOf(f, i)
  BY HeaderPrefix
<1>3. \A j \in HeaderOf(f, i) : g[j] = f[j]
  <2>1. \A j \in HeaderOf(f, i) : j \in 1 .. Len(f)
    BY DEF HeaderOf
  <2> QED BY <2>1 DEF Extends
<1> QED BY <1>1, <1>2, <1>3 DEF LinesOf

\* The latest of a set of fields is the one that none comes after.
LEMMA LatestIs ==
  ASSUME NEW ps, ps \subseteq Nat \X Nat, NEW a \in ps, \A b \in ps : NotAfter(b, a)
  PROVE  Latest(ps) = a
<1>1. Latest(ps) \in ps /\ \A b \in ps : NotAfter(b, Latest(ps))
  BY DEF Latest
<1>2. ASSUME NEW b \in ps, \A c \in ps : NotAfter(c, b)
      PROVE  b = a
  <2>1. NotAfter(a, b) /\ NotAfter(b, a)
    BY <1>2
  <2>2. a \in Nat \X Nat /\ b \in Nat \X Nat
    OBVIOUS
  <2>3. a[1] = b[1] /\ a[2] = b[2]
    BY <2>1, <2>2 DEF NotAfter
  <2> QED BY <2>2, <2>3
<1> QED BY <1>1, <1>2

\* The fields of a host that name a key.
LEMMA FieldsElement ==
  ASSUME NEW f, NEW n, NEW k, NEW i, NEW p
  PROVE  <<i, p>> \in FieldsOf(f, n, k) <=>
           i \in LinesOf(f, n) /\ p \in 1 .. Len(f[i].fields) /\ f[i].fields[p][1] = k
BY DEF FieldsOf

LEMMA FieldsPairs ==
  ASSUME NEW f, NEW n, NEW k, NEW a \in FieldsOf(f, n, k)
  PROVE  a = <<a[1], a[2]>>
BY DEF FieldsOf

\* The groups of lines of the beginning are the same in the whole file.
LEMMA GroupsPrefix ==
  ASSUME NEW f, NEW g, Len(f) \in Nat, Len(g) \in Nat, Extends(g, f),
         NEW is, is \subseteq 1 .. Len(f)
  PROVE  GroupsOf(g, is) = GroupsOf(f, is)
<1>1. \A i \in is : HeaderOf(g, i) = HeaderOf(f, i)
  BY HeaderPrefix
<1>2. UNION {HeaderOf(g, i) : i \in is} = UNION {HeaderOf(f, i) : i \in is}
  BY <1>1
<1> DEFINE js == UNION {HeaderOf(f, i) : i \in is}
<1>3. \A j \in js : j \in 1 .. Len(f)
  BY DEF HeaderOf
<1> HIDE DEF js
<1>4. \A j \in js : g[j] = f[j]
  BY <1>3 DEF Extends
<1>5. {g[j].name : j \in js} = {f[j].name : j \in js}
  BY <1>4
<1> QED BY <1>2, <1>5 DEF GroupsOf, js

\* One line more: a host has the lines it had, and the new one if that is its own.
LEMMA OneLineMore ==
  ASSUME NEW f, NEW g, Len(f) \in Nat, Len(g) = Len(f) + 1, Extends(g, f), NEW n
  PROVE  /\ LinesOf(g, n) \ {Len(g)} = LinesOf(f, n)
         /\ \A k : \A a \in FieldsOf(g, n, k) : a[1] # Len(g) => a \in FieldsOf(f, n, k)
         /\ \A k : \A a \in FieldsOf(f, n, k) : a \in FieldsOf(g, n, k) /\ a[1] # Len(g)
<1>1. Len(g) \in Nat /\ \A i \in 1 .. Len(f) : g[i] = f[i]
  BY DEF Extends
<1>2. LinesOf(g, n) \subseteq 1 .. Len(g) /\ LinesOf(f, n) \subseteq 1 .. Len(f)
  BY DEF LinesOf
<1>3. \A i \in 1 .. Len(f) : i \in LinesOf(g, n) <=> i \in LinesOf(f, n)
  BY <1>1, LinesPrefix
<1>4. LinesOf(g, n) \ {Len(g)} = LinesOf(f, n)
  <2>1. \A i \in 1 .. Len(g) : i # Len(g) => i \in 1 .. Len(f)
    BY <1>1
  <2>2. Len(g) \notin 1 .. Len(f)
    BY <1>1
  <2> QED BY <1>2, <1>3, <2>1, <2>2
<1>5. ASSUME NEW k, NEW a \in FieldsOf(g, n, k), a[1] # Len(g)
      PROVE  a \in FieldsOf(f, n, k)
  <2>1. PICK i, p : a = <<i, p>>
    BY FieldsPairs
  <2>2. i \in LinesOf(g, n) /\ p \in 1 .. Len(g[i].fields) /\ g[i].fields[p][1] = k
    BY <1>5, <2>1, FieldsElement
  <2>3. i \in LinesOf(f, n)
    BY <1>4, <1>5, <2>1, <2>2
  <2>4. g[i] = f[i]
    BY <1>1, <1>2, <2>3
  <2> QED BY <2>1, <2>2, <2>3, <2>4, FieldsElement
<1>6. ASSUME NEW k, NEW a \in FieldsOf(f, n, k)
      PROVE  a \in FieldsOf(g, n, k) /\ a[1] # Len(g)
  <2>1. PICK i, p : a = <<i, p>>
    BY FieldsPairs
  <2>2. i \in LinesOf(f, n) /\ p \in 1 .. Len(f[i].fields) /\ f[i].fields[p][1] = k
    BY <1>6, <2>1, FieldsElement
  <2>3. i \in LinesOf(g, n) /\ i # Len(g)
    BY <1>4, <2>2
  <2>4. g[i] = f[i]
    BY <1>1, <1>2, <2>2
  <2> QED BY <2>1, <2>2, <2>3, <2>4, FieldsElement
<1> QED BY <1>4, <1>5, <1>6

LEMMA ValuesKept ==
  ASSUME NEW f, NEW g, Extends(g, f), NEW n, NEW k, NEW a \in FieldsOf(f, n, k)
  PROVE  ValueAt(g, a) = ValueAt(f, a)
<1>1. PICK i, p : a = <<i, p>>
  BY FieldsPairs
<1>2. i \in 1 .. Len(f)
  BY <1>1, FieldsElement DEF LinesOf
<1>3. g[i] = f[i]
  BY <1>2 DEF Extends
<1> QED BY <1>1, <1>3 DEF ValueAt

-----------------------------------------------------------------------------
(* What the map holds for a host. *)

\* The fields that have been assigned when the loop has done c fields of the last line.
Assigned(f, n, k, c) == {a \in FieldsOf(f, n, k) : a[1] = Len(f) => a[2] <= c}

\* v is the value of the latest of the fields ps.
Holds(f, ps, v) ==
  IF ps = {} THEN v = None
  ELSE \E a \in ps : (\A b \in ps : NotAfter(b, a)) /\ v = ValueAt(f, a)

\* Host h holds all that the file says of n.
Complete(f, n, h) ==
  /\ h = None <=> LinesOf(f, n) = {}
  /\ h # None => /\ h.groups = GroupsOf(f, LinesOf(f, n))
                 /\ \A k \in Keys : Holds(f, FieldsOf(f, n, k), h.vars[k])

\* Host h holds all of it but the group of the last line and the fields after c of that line.
Described(f, n, c, h) ==
  /\ h = None <=> LinesOf(f, n) = {}
  /\ h # None => /\ h.groups = GroupsOf(f, LinesOf(f, n) \ {Len(f)})
                 /\ \A k \in Keys : Holds(f, Assigned(f, n, k, c), h.vars[k])

\* Fields are pairs of numbers.
LEMMA FieldsAreNumbers ==
  ASSUME NEW f, NEW n, NEW k
  PROVE  FieldsOf(f, n, k) \subseteq Nat \X Nat
<1> SUFFICES ASSUME NEW a \in FieldsOf(f, n, k)
             PROVE  a \in Nat \X Nat
  OBVIOUS
<1>1. PICK i, p : a = <<i, p>>
  BY FieldsPairs
<1>2. i \in LinesOf(f, n) /\ p \in 1 .. Len(f[i].fields)
  BY <1>1, FieldsElement
<1>3. i \in 1 .. Len(f)
  BY <1>2 DEF LinesOf
<1> QED BY <1>1, <1>2, <1>3

\* A complete host is what the file means.
LEMMA CompleteIsMeaning ==
  ASSUME NEW f, NEW n, NEW h \in Host \cup {None}, Complete(f, n, h)
  PROVE  h = Meaning(f, n)
<1>1. CASE h = None
  BY <1>1 DEF Complete, Meaning
<1>2. CASE h # None
  <2>1. h \in Host /\ LinesOf(f, n) # {}
    BY <1>2 DEF Complete
  <2>2. ASSUME NEW k \in Keys
        PROVE  h.vars[k] = ValueOf(f, n, k)
    <3> DEFINE ps == FieldsOf(f, n, k)
    <3>1. Holds(f, ps, h.vars[k])
      BY <1>2 DEF Complete
    <3>2. CASE ps = {}
      BY <3>1, <3>2 DEF Holds, ValueOf
    <3>3. CASE ps # {}
      <4>1. PICK a \in ps : (\A b \in ps : NotAfter(b, a)) /\ h.vars[k] = ValueAt(f, a)
        BY <3>1, <3>3 DEF Holds
      <4>2. Latest(ps) = a
        BY <4>1, FieldsAreNumbers, LatestIs
      <4> QED BY <3>3, <4>1, <4>2 DEF ValueOf
    <3> QED BY <3>2, <3>3
  <2>3. h.vars = [k \in Keys |-> ValueOf(f, n, k)]
    <3>1. h.vars \in [Keys -> Values \cup {None}]
      BY <2>1 DEF Host
    <3> QED BY <2>2, <3>1
  <2>4. h = [groups |-> h.groups, vars |-> h.vars]
    BY <2>1 DEF Host
  <2>5. h.groups = GroupsOf(f, LinesOf(f, n))
    BY <1>2 DEF Complete
  <2> QED BY <2>1, <2>3, <2>4, <2>5 DEF Meaning
<1> QED BY <1>1, <1>2

\* A line that is not one of n leaves its host complete.
LEMMA OtherLine ==
  ASSUME NEW f, NEW g, Len(f) \in Nat, Len(g) = Len(f) + 1, Extends(g, f), NEW n,
         NEW h, Complete(f, n, h), Len(g) \notin LinesOf(g, n)
  PROVE  Complete(g, n, h)
<1>1. LinesOf(g, n) = LinesOf(f, n)
  BY OneLineMore
<1>2. GroupsOf(g, LinesOf(f, n)) = GroupsOf(f, LinesOf(f, n))
  <2>1. LinesOf(f, n) \subseteq 1 .. Len(f) /\ Len(g) \in Nat
    BY DEF LinesOf
  <2> QED BY <2>1, GroupsPrefix
<1>3. ASSUME NEW k
      PROVE  FieldsOf(g, n, k) = FieldsOf(f, n, k)
  <2>1. \A a \in FieldsOf(g, n, k) : a[1] # Len(g)
    BY FieldsElement, FieldsPairs
  <2>2. \A a \in FieldsOf(g, n, k) : a \in FieldsOf(f, n, k)
    BY <2>1, OneLineMore
  <2>3. \A a \in FieldsOf(f, n, k) : a \in FieldsOf(g, n, k)
    BY OneLineMore
  <2> QED BY <2>2, <2>3
<1>4. ASSUME NEW k, NEW a \in FieldsOf(f, n, k)
      PROVE  ValueAt(g, a) = ValueAt(f, a)
  BY ValuesKept
<1>5. ASSUME NEW k \in Keys, NEW v, Holds(f, FieldsOf(f, n, k), v)
      PROVE  Holds(g, FieldsOf(g, n, k), v)
  BY <1>3, <1>4, <1>5 DEF Holds
<1> QED BY <1>1, <1>2, <1>5 DEF Complete

\* When the loop takes up a line, the host has all that came before it; it is new when no line
\* of it came before.
LEMMA LineTaken ==
  ASSUME NEW f, NEW g, Len(f) \in Nat, Len(g) = Len(f) + 1, Extends(g, f), NEW n,
         NEW h, Complete(f, n, h)
  PROVE  /\ Len(g) \notin LinesOf(g, n) => Described(g, n, 0, h)
         /\ Len(g) \in LinesOf(g, n) => Described(g, n, 0, IF h = None THEN NewHost ELSE h)
<1>1. LinesOf(g, n) \ {Len(g)} = LinesOf(f, n)
  BY OneLineMore
<1>2. GroupsOf(g, LinesOf(f, n)) = GroupsOf(f, LinesOf(f, n))
  <2>1. LinesOf(f, n) \subseteq 1 .. Len(f) /\ Len(g) \in Nat
    BY DEF LinesOf
  <2> QED BY <2>1, GroupsPrefix
<1>3. ASSUME NEW k
      PROVE  Assigned(g, n, k, 0) = FieldsOf(f, n, k)
  <2>1. ASSUME NEW a \in FieldsOf(g, n, k), a[1] = Len(g) PROVE ~(a[2] <= 0)
    <3>1. PICK i, p : a = <<i, p>>
      BY FieldsPairs
    <3>2. p \in 1 .. Len(g[i].fields)
      BY <3>1, FieldsElement
    <3> QED BY <3>1, <3>2
  <2>2. \A a \in Assigned(g, n, k, 0) : a \in FieldsOf(f, n, k)
    BY <2>1, OneLineMore DEF Assigned
  <2>3. \A a \in FieldsOf(f, n, k) : a \in Assigned(g, n, k, 0)
    BY OneLineMore DEF Assigned
  <2> QED BY <2>2, <2>3
<1>4. ASSUME NEW k, NEW a \in FieldsOf(f, n, k)
      PROVE  ValueAt(g, a) = ValueAt(f, a)
  BY ValuesKept
<1>5. ASSUME NEW k \in Keys, NEW v, Holds(f, FieldsOf(f, n, k), v)
      PROVE  Holds(g, Assigned(g, n, k, 0), v)
  BY <1>3, <1>4, <1>5 DEF Holds
<1>6. ASSUME h # None
      PROVE  Described(g, n, 0, h)
  <2>1. LinesOf(g, n) # {}
    BY <1>1, <1>6 DEF Complete
  <2> QED BY <1>1, <1>2, <1>5, <1>6, <2>1 DEF Complete, Described
<1>7. ASSUME h = None, Len(g) \notin LinesOf(g, n)
      PROVE  Described(g, n, 0, h)
  BY <1>1, <1>7 DEF Complete, Described
<1>8. ASSUME h = None, Len(g) \in LinesOf(g, n)
      PROVE  Described(g, n, 0, NewHost)
  <2>1. LinesOf(f, n) = {}
    BY <1>8 DEF Complete
  <2>2. \A k : FieldsOf(f, n, k) = {}
    BY <2>1 DEF FieldsOf
  <2>3. NewHost # None
    BY NoneAssumption DEF NewHost, Host
  <2>4. GroupsOf(g, {}) = {}
    BY DEF GroupsOf
  <2>5. NewHost.groups = {} /\ \A k \in Keys : NewHost.vars[k] = None
    BY DEF NewHost
  <2> QED BY <1>1, <1>3, <1>8, <2>1, <2>2, <2>3, <2>4, <2>5 DEF Described, Holds
<1> QED BY <1>6, <1>7, <1>8

\* One field more is assigned: it is the latest of its key, and no field of another.
LEMMA FieldAssigned ==
  ASSUME NEW f, NEW n, NEW c \in Nat, NEW h \in Host, Described(f, n, c, h), Len(f) \in Nat,
         Len(f) \in LinesOf(f, n), Len(f[Len(f)].fields) \in Nat, c < Len(f[Len(f)].fields),
         NEW kv \in Keys \X Values, kv = f[Len(f)].fields[c + 1]
  PROVE  Described(f, n, c + 1, [h EXCEPT !.vars[kv[1]] = kv[2]])
<1> DEFINE L == Len(f)
           h2 == [h EXCEPT !.vars[kv[1]] = kv[2]]
           last == <<L, c + 1>>
<1>1. kv[1] \in Keys /\ kv[2] \in Values
  OBVIOUS
<1>2. /\ h2.groups = h.groups /\ h2.vars[kv[1]] = kv[2]
      /\ \A k \in Keys \ {kv[1]} : h2.vars[k] = h.vars[k]
  BY <1>1 DEF Host
<1>3. h # None /\ h2 # None /\ LinesOf(f, n) # {}
  <2>1. h2 \in Host
    BY <1>1 DEF Host
  <2> QED BY <2>1, NoneAssumption
<1>4. ASSUME NEW k, k # kv[1]
      PROVE  Assigned(f, n, k, c + 1) = Assigned(f, n, k, c)
  <2>1. ASSUME NEW a \in FieldsOf(f, n, k), a[1] = L
        PROVE  a[2] <= c + 1 <=> a[2] <= c
    <3>1. PICK i, p : a = <<i, p>>
      BY FieldsPairs
    <3>2. p \in 1 .. Len(f[i].fields) /\ f[i].fields[p][1] = k
      BY <3>1, FieldsElement
    <3>3. p # c + 1
      BY <1>4, <2>1, <3>1, <3>2
    <3> QED BY <3>1, <3>2, <3>3
  <2> QED BY <2>1 DEF Assigned
<1>5. /\ last \in FieldsOf(f, n, kv[1]) /\ last \in Assigned(f, n, kv[1], c + 1)
      /\ ValueAt(f, last) = kv[2]
  <2>1. c + 1 \in 1 .. Len(f[L].fields)
    OBVIOUS
  <2>2. last \in FieldsOf(f, n, kv[1])
    BY <2>1, FieldsElement
  <2> QED BY <2>2 DEF Assigned, ValueAt
<1>6. ASSUME NEW b \in Assigned(f, n, kv[1], c + 1)
      PROVE  NotAfter(b, last)
  <2>1. PICK i, p : b = <<i, p>>
    BY FieldsPairs DEF Assigned
  <2>2. i \in LinesOf(f, n) /\ p \in 1 .. Len(f[i].fields)
    BY <2>1, FieldsElement DEF Assigned
  <2>3. i \in 1 .. L
    BY <2>2 DEF LinesOf
  <2>4. i = L => p <= c + 1
    BY <2>1 DEF Assigned
  <2> QED BY <2>1, <2>2, <2>3, <2>4 DEF NotAfter
<1>7. Holds(f, Assigned(f, n, kv[1], c + 1), kv[2])
  <2> HIDE DEF last
  <2> QED BY <1>5, <1>6 DEF Holds
<1>8. ASSUME NEW k \in Keys
      PROVE  Holds(f, Assigned(f, n, k, c + 1), h2.vars[k])
  <2>1. CASE k = kv[1]
    BY <1>2, <1>7, <2>1
  <2>2. CASE k # kv[1]
    BY <1>2, <1>3, <1>4, <2>2 DEF Described
  <2> QED BY <2>1, <2>2
<1> HIDE DEF h2
<1>9. Described(f, n, c + 1, h2)
  BY <1>2, <1>3, <1>8 DEF Described
<1> QED BY <1>9 DEF h2

\* The fields of the last line do not concern a host it is not a line of.
LEMMA OtherFields ==
  ASSUME NEW f, NEW n, NEW c, NEW h, Described(f, n, c, h), Len(f) \notin LinesOf(f, n)
  PROVE  Complete(f, n, h) /\ \A d : Described(f, n, d, h)
<1>1. LinesOf(f, n) \ {Len(f)} = LinesOf(f, n)
  OBVIOUS
<1>2. ASSUME NEW k, NEW d PROVE Assigned(f, n, k, d) = FieldsOf(f, n, k)
  <2>1. \A a \in FieldsOf(f, n, k) : a[1] # Len(f)
    BY FieldsElement, FieldsPairs
  <2> QED BY <2>1 DEF Assigned
<1> QED BY <1>1, <1>2 DEF Described, Complete

\* With the last field of the last line all fields are assigned.
LEMMA AllAssigned ==
  ASSUME NEW f, NEW n, NEW k, Len(f[Len(f)].fields) \in Nat
  PROVE  Assigned(f, n, k, Len(f[Len(f)].fields)) = FieldsOf(f, n, k)
<1>1. ASSUME NEW a \in FieldsOf(f, n, k), a[1] = Len(f)
      PROVE  a[2] <= Len(f[Len(f)].fields)
  <2>1. PICK i, p : a = <<i, p>>
    BY FieldsPairs
  <2>2. i = Len(f) /\ a[2] = p /\ p \in 1 .. Len(f[i].fields)
    BY <1>1, <2>1, FieldsElement
  <2> QED BY <2>2
<1> QED BY <1>1 DEF Assigned

\* After the last field the group of the section completes the host.
LEMMA GroupAdded ==
  ASSUME NEW f, NEW n, NEW h \in Host, Len(f) \in LinesOf(f, n), Len(f[Len(f)].fields) \in Nat,
         Described(f, n, Len(f[Len(f)].fields), h),
         NEW gs, gs \subseteq GroupNames, gs = {f[j].name : j \in HeaderOf(f, Len(f))} \ {"", "all"}
  PROVE  Complete(f, n, [h EXCEPT !.groups = @ \cup gs])
<1> DEFINE h2 == [h EXCEPT !.groups = @ \cup gs]
<1>1. h2 \in Host /\ h2.groups = h.groups \cup gs /\ h2.vars = h.vars
  BY DEF Host
<1>2. h # None /\ h2 # None /\ LinesOf(f, n) # {}
  BY <1>1, NoneAssumption
<1>3. GroupsOf(f, LinesOf(f, n)) = GroupsOf(f, LinesOf(f, n) \ {Len(f)}) \cup gs
  <2> DEFINE js == UNION {HeaderOf(f, i) : i \in LinesOf(f, n) \ {Len(f)}}
  <2>1. UNION {HeaderOf(f, i) : i \in LinesOf(f, n)} = js \cup HeaderOf(f, Len(f))
    OBVIOUS
  <2> HIDE DEF js
  <2>2. {f[j].name : j \in js \cup HeaderOf(f, Len(f))}
          = {f[j].name : j \in js} \cup {f[j].name : j \in HeaderOf(f, Len(f))}
    OBVIOUS
  <2> QED BY <2>1, <2>2 DEF GroupsOf, js
<1>4. \A k : Assigned(f, n, k, Len(f[Len(f)].fields)) = FieldsOf(f, n, k)
  BY AllAssigned
<1> HIDE DEF h2
<1>5. Complete(f, n, h2)
  BY <1>1, <1>2, <1>3, <1>4 DEF Described, Complete
<1> QED BY <1>5 DEF h2

-----------------------------------------------------------------------------
(* The parser. *)

\* currentGroup and skipSection are those of the last header.
HeadInv ==
  IF HeaderOf(text, Len(text)) = {} THEN currentGroup = "" /\ ~skipSection
  ELSE \E j \in HeaderOf(text, Len(text)) :
         /\ skipSection = text[j].qualified
         /\ currentGroup = IF text[j].qualified THEN "" ELSE text[j].name

\* In the inner loop the last line is a host line that counts, and pos is within its fields.
LineInv ==
  phase = "fields" =>
    /\ text # <<>> /\ Current.kind = "host" /\ Len(text) \in LinesOf(text, Current.name)
    /\ pos <= Len(Current.fields) /\ ~skipSection

HostInv ==
  \A n \in Names : IF phase = "fields" THEN Described(text, n, pos, hostMap[n])
                   ELSE Complete(text, n, hostMap[n])

ParseInv == HeadInv /\ LineInv /\ HostInv

\* The lines of a file have their types.
LEMMA LineTypes ==
  ASSUME NEW line \in Line
  PROVE  /\ line.kind \in {"skip", "long", "section", "host"}
         /\ line.kind = "section" => line.name \in Sections /\ line.qualified \in BOOLEAN
         /\ line.kind = "host" => line.name \in Names /\ line.fields \in Fields
                                  /\ line.fields \in Seq(Keys \X Values)
BY FieldsAssumption DEF Line

\* In the inner loop the host of the line at hand is in the map.
LEMMA CurrentHost ==
  ASSUME TypeOK, ParseInv, phase = "fields"
  PROVE  /\ Len(text) \in Nat \ {0} /\ Current \in Line /\ Current.kind = "host"
         /\ Current.name \in Names /\ hostMap[Current.name] \in Host
         /\ Current.fields \in Seq(Keys \X Values)
<1>1. text \in Seq(Line) /\ text # <<>> /\ Current.kind = "host"
      /\ Len(text) \in LinesOf(text, Current.name)
  BY DEF TypeOK, ParseInv, LineInv
<1>2. Len(text) \in Nat \ {0} /\ Current \in Line
  BY <1>1, EmptySeq DEF Current
<1>3. Current.name \in Names /\ Current.fields \in Seq(Keys \X Values)
  BY <1>1, <1>2, LineTypes
<1>4. hostMap[Current.name] # None
  BY <1>1, <1>3 DEF ParseInv, HostInv, Described
<1> QED BY <1>1, <1>2, <1>3, <1>4 DEF TypeOK

\* The loops keep the types of the text and the map.
LEMMA ParseType ==
  ASSUME TypeOK, ParseInv,
         \/ \E line \in Line : SkipLine(line) \/ Section(line) \/ HostEntry(line) \/ ScannerError(line)
         \/ AssignField \/ AssignGroup \/ EndOfFile
  PROVE  TypeOK'
<1>1. ASSUME NEW line \in Line, ReadLine(line)
      PROVE  text' \in Seq(Line)
  BY <1>1 DEF ReadLine, TypeOK
<1>2. ASSUME NEW line \in Line, SkipLine(line)
      PROVE  TypeOK'
  BY <1>1, <1>2 DEF SkipLine, TypeOK, writeVars
<1>3. ASSUME NEW line \in Line, Section(line)
      PROVE  TypeOK'
  <2>1. currentGroup' \in Sections /\ skipSection' \in BOOLEAN
    BY <1>3, LineTypes DEF Section, Sections
  <2> QED BY <1>1, <1>3, <2>1 DEF Section, TypeOK, writeVars
<1>4. ASSUME NEW line \in Line, HostEntry(line)
      PROVE  TypeOK'
  <2>1. NewHost \in Host
    BY DEF NewHost, Host
  <2>2. hostMap' \in [Names -> Host \cup {None}]
    BY <1>4, <2>1 DEF HostEntry, TypeOK
  <2> QED BY <1>1, <1>4, <2>2 DEF HostEntry, TypeOK, writeVars
<1>5. ASSUME NEW line \in Line, ScannerError(line)
      PROVE  TypeOK'
  BY <1>5 DEF ScannerError, TypeOK, parseVars, writeVars
<1>6. CASE AssignField
  <2>1. phase = "fields" /\ pos < Len(Current.fields) /\ pos \in Nat
    BY <1>6 DEF AssignField, TypeOK
  <2>2. /\ Current.name \in Names /\ hostMap[Current.name] \in Host
        /\ Current.fields[pos + 1] \in Keys \X Values
    BY <2>1, CurrentHost
  <2> DEFINE kv == Current.fields[pos + 1]
             h2 == [hostMap[Current.name] EXCEPT !.vars[kv[1]] = kv[2]]
  <2>3. h2 \in Host
    BY <2>2 DEF Host
  <2>4. hostMap' = [hostMap EXCEPT ![Current.name] = h2]
    BY <1>6 DEF AssignField
  <2> HIDE DEF h2
  <2>5. hostMap' \in [Names -> Host \cup {None}]
    BY <2>2, <2>3, <2>4 DEF TypeOK
  <2> QED BY <1>6, <2>5 DEF AssignField, TypeOK, writeVars
<1>7. CASE AssignGroup
  <2>1. Current.name \in Names /\ hostMap[Current.name] \in Host
    BY <1>7, CurrentHost DEF AssignGroup
  <2> DEFINE h2 == [hostMap[Current.name] EXCEPT !.groups = @ \cup ({currentGroup} \ {"", "all"})]
  <2>2. h2 \in Host
    BY <2>1 DEF Host, TypeOK, Sections
  <2>3. hostMap' = [hostMap EXCEPT ![Current.name] = h2]
    BY <1>7 DEF AssignGroup
  <2> HIDE DEF h2
  <2>4. hostMap' \in [Names -> Host \cup {None}]
    BY <2>1, <2>2, <2>3 DEF TypeOK
  <2> QED BY <1>7, <2>4 DEF AssignGroup, TypeOK, writeVars
<1>8. CASE EndOfFile
  BY <1>8 DEF EndOfFile, TypeOK, parseVars, writeVars
<1> QED BY <1>2, <1>3, <1>4, <1>5, <1>6, <1>7, <1>8

\* A list of a set's elements is a sequence, and has each of them once.
LEMMA OrdersOf ==
  ASSUME NEW S, IsFiniteSet(S), NEW o \in Orders(S)
  PROVE  /\ o \in Seq(S) /\ Len(o) = Cardinality(S) /\ DOMAIN o = 1 .. Len(o)
         /\ \A i, j \in 1 .. Len(o) : o[i] = o[j] => i = j
         /\ \A x \in S : \E i \in 1 .. Len(o) : o[i] = x
<1>1. Cardinality(S) \in Nat
  BY FS_CardinalityType
<1>2. /\ o \in [1 .. Cardinality(S) -> S]
      /\ \A i, j \in 1 .. Cardinality(S) : o[i] = o[j] => i = j
      /\ \A x \in S : \E i \in 1 .. Cardinality(S) : o[i] = x
  BY DEF Orders, Bijection, Injection, Surjection, IsInjective
<1>3. o \in Seq(S) /\ Len(o) = Cardinality(S)
  BY <1>1, <1>2
<1> QED BY <1>2, <1>3

\* So does WriteInventory.
LEMMA WriteType ==
  ASSUME TypeOK, WriteHosts \/ (\E g \in groups : WriteGroup(g)) \/ WriteFile
  PROVE  TypeOK'
<1>1. CASE WriteHosts
  <2>1. Known \subseteq Names /\ IsFiniteSet(Known)
    BY FiniteAssumption, FS_Subset DEF Known
  <2>2. order' \in Seq(Names)
    <3>1. order' \in Seq(Known)
      BY <1>1, <2>1, OrdersOf DEF WriteHosts
    <3> QED BY <2>1, <3>1, SeqMonotonic
  <2>3. groups' \subseteq GroupNames
    BY <1>1 DEF WriteHosts, Known, TypeOK, Host
  <2> QED BY <1>1, <2>2, <2>3 DEF WriteHosts, TypeOK, parseVars
<1>2. CASE \E g \in groups : WriteGroup(g)
  BY <1>2 DEF WriteGroup, TypeOK, parseVars
<1>3. CASE WriteFile
  BY <1>3 DEF WriteFile, TypeOK, parseVars, writeVars
<1> QED BY <1>1, <1>2, <1>3

\* A line that is no header leaves the last header in force.
LEMMA HeaderStays ==
  ASSUME NEW f, NEW g, Len(f) \in Nat, Len(g) = Len(f) + 1, Extends(g, f), g[Len(g)].kind # "section"
  PROVE  HeaderOf(g, Len(g)) = HeaderOf(f, Len(f))
<1>1. \A j \in 1 .. Len(f) : g[j] = f[j]
  BY DEF Extends
<1>2. ASSUME NEW j \in HeaderOf(g, Len(g)) PROVE j \in HeaderOf(f, Len(f))
  <2>1. j \in 1 .. Len(g) /\ j # Len(g) /\ g[j].kind = "section"
    BY DEF HeaderOf
  <2>2. j \in 1 .. Len(f) /\ \A k \in j + 1 .. Len(f) : k \in j + 1 .. Len(g) /\ k \in 1 .. Len(f)
    BY <2>1
  <2>3. \A k \in j + 1 .. Len(f) : f[k].kind # "section"
    BY <1>1, <2>2 DEF HeaderOf
  <2> QED BY <1>1, <2>1, <2>2, <2>3 DEF HeaderOf
<1>3. ASSUME NEW j \in HeaderOf(f, Len(f)) PROVE j \in HeaderOf(g, Len(g))
  <2>1. j \in 1 .. Len(f) /\ f[j].kind = "section" /\ \A k \in j + 1 .. Len(f) : f[k].kind # "section"
    BY DEF HeaderOf
  <2>2. j \in 1 .. Len(g) /\ \A k \in j + 1 .. Len(g) : k = Len(g) \/ (k \in j + 1 .. Len(f) /\ k \in 1 .. Len(f))
    BY <2>1
  <2>3. \A k \in j + 1 .. Len(g) : g[k].kind # "section"
    BY <1>1, <2>1, <2>2
  <2> QED BY <1>1, <2>1, <2>2, <2>3 DEF HeaderOf
<1> QED BY <1>2, <1>3

\* What reading a line does to the text.
LEMMA LineRead ==
  ASSUME TypeOK, NEW line \in Line, ReadLine(line)
  PROVE  /\ Len(text) \in Nat /\ Len(text') = Len(text) + 1 /\ Extends(text', text)
         /\ text'[Len(text')] = line
<1>1. text \in Seq(Line) /\ text' = Append(text, line)
  BY DEF TypeOK, ReadLine
<1> QED BY <1>1 DEF Extends

\* A blank line, a comment or a host of a skipped section changes nothing, and says nothing.
LEMMA SkipParses ==
  ASSUME TypeOK, ParseInv, NEW line \in Line, SkipLine(line)
  PROVE  ParseInv'
<1>1. /\ Len(text) \in Nat /\ Len(text') = Len(text) + 1 /\ Extends(text', text)
      /\ text'[Len(text')] = line
  BY LineRead DEF SkipLine
<1>2. /\ phase = "scan" /\ UNCHANGED <<hostMap, currentGroup, skipSection, phase>>
      /\ line.kind # "section" /\ (line.kind = "host" => skipSection)
  BY DEF SkipLine, ReadLine
<1>3. HeaderOf(text', Len(text')) = HeaderOf(text, Len(text))
  BY <1>1, <1>2, HeaderStays
<1>4. \A j \in HeaderOf(text, Len(text)) : text'[j] = text[j]
  BY <1>1 DEF HeaderOf, Extends
<1>5. HeadInv'
  BY <1>2, <1>3, <1>4 DEF ParseInv, HeadInv
<1>6. ASSUME NEW n \in Names PROVE Len(text') \notin LinesOf(text', n)
  <2>1. line.kind = "host" => \E j \in HeaderOf(text, Len(text)) : text'[j].qualified
    BY <1>2, <1>4 DEF ParseInv, HeadInv
  <2> QED BY <1>1, <1>3, <2>1 DEF LinesOf
<1>7. HostInv'
  <2>1. ASSUME NEW n \in Names PROVE Complete(text', n, hostMap[n])
    BY <1>1, <1>2, <1>6, OtherLine DEF ParseInv, HostInv
  <2> QED BY <1>2, <2>1 DEF HostInv
<1> QED BY <1>2, <1>5, <1>7 DEF ParseInv, LineInv

\* A header is the last header.
LEMMA SectionParses ==
  ASSUME TypeOK, ParseInv, NEW line \in Line, Section(line)
  PROVE  ParseInv'
<1>1. /\ Len(text) \in Nat /\ Len(text') = Len(text) + 1 /\ Extends(text', text)
      /\ text'[Len(text')] = line
  BY LineRead DEF Section
<1>2. /\ phase = "scan" /\ UNCHANGED <<hostMap, phase>> /\ line.kind = "section"
      /\ currentGroup' = (IF line.qualified THEN "" ELSE line.name) /\ skipSection' = line.qualified
  BY DEF Section, ReadLine
<1>3. HeaderOf(text', Len(text')) = {Len(text')}
  <2>1. Len(text') \in Nat /\ Len(text') \in 1 .. Len(text')
        /\ \A k \in Len(text') + 1 .. Len(text') : text'[k].kind # "section"
    BY <1>1
  <2> QED BY <1>1, <1>2, <2>1, HeaderIs
<1>4. HeadInv'
  BY <1>1, <1>2, <1>3 DEF HeadInv
<1>5. ASSUME NEW n \in Names PROVE Complete(text', n, hostMap[n])
  <2>1. Len(text') \notin LinesOf(text', n)
    BY <1>1, <1>2 DEF LinesOf
  <2> QED BY <1>1, <1>2, <2>1, OtherLine DEF ParseInv, HostInv
<1> QED BY <1>2, <1>4, <1>5 DEF ParseInv, LineInv, HostInv

\* A host line that counts is one of its host's lines, and of no other's.
LEMMA EntryParses ==
  ASSUME TypeOK, ParseInv, NEW line \in Line, HostEntry(line)
  PROVE  ParseInv'
<1>1. /\ Len(text) \in Nat /\ Len(text') = Len(text) + 1 /\ Extends(text', text)
      /\ text'[Len(text')] = line
  BY LineRead DEF HostEntry
<1>2. /\ phase = "scan" /\ phase' = "fields" /\ pos' = 0 /\ UNCHANGED <<currentGroup, skipSection>>
      /\ line.kind = "host" /\ ~skipSection
      /\ hostMap' = [hostMap EXCEPT ![line.name] = IF hostMap[line.name] = None THEN NewHost
                                                   ELSE hostMap[line.name]]
  BY DEF HostEntry, ReadLine
<1>3. line.name \in Names /\ line.fields \in Seq(Keys \X Values)
  BY <1>2, LineTypes
<1>4. HeaderOf(text', Len(text')) = HeaderOf(text, Len(text))
  BY <1>1, <1>2, HeaderStays
<1>5. \A j \in HeaderOf(text, Len(text)) : text'[j] = text[j]
  BY <1>1 DEF HeaderOf, Extends
<1>6. HeadInv'
  BY <1>2, <1>4, <1>5 DEF ParseInv, HeadInv
<1>7. \A n \in Names : Len(text') \in LinesOf(text', n) <=> n = line.name
  <2>1. \A j \in HeaderOf(text, Len(text)) : ~text'[j].qualified
    <3>1. \A j \in HeaderOf(text, Len(text)) : \A k \in HeaderOf(text, Len(text)) : j = k
      BY <1>1, HeaderUnique
    <3> QED BY <1>2, <1>5, <3>1 DEF ParseInv, HeadInv
  <2>2. Len(text') \in 1 .. Len(text')
    BY <1>1
  <2> QED BY <1>1, <1>2, <1>4, <2>1, <2>2 DEF LinesOf
<1>8. LineInv'
  <2>1. text' # <<>> /\ Current' = line
    BY <1>1 DEF Current
  <2>2. 0 <= Len(line.fields)
    BY <1>3
  <2> QED BY <1>2, <1>3, <1>7, <2>1, <2>2 DEF LineInv
<1>9. ASSUME NEW n \in Names PROVE Described(text', n, 0, hostMap'[n])
  <2>1. Complete(text, n, hostMap[n])
    BY <1>2 DEF ParseInv, HostInv
  <2>2. hostMap'[n] = IF n = line.name THEN (IF hostMap[n] = None THEN NewHost ELSE hostMap[n])
                      ELSE hostMap[n]
    BY <1>2, <1>3 DEF TypeOK
  <2> QED BY <1>1, <1>7, <2>1, <2>2, LineTaken
<1> QED BY <1>2, <1>6, <1>8, <1>9 DEF ParseInv, HostInv

\* A turn of the inner loop assigns one field.
LEMMA FieldParses ==
  ASSUME TypeOK, ParseInv, AssignField
  PROVE  ParseInv'
<1>1. /\ phase = "fields" /\ pos < Len(Current.fields) /\ pos' = pos + 1 /\ pos \in Nat
      /\ UNCHANGED <<text, currentGroup, skipSection, phase>>
  BY DEF AssignField, TypeOK
<1>2. /\ Len(text) \in Nat \ {0} /\ Current.name \in Names /\ hostMap[Current.name] \in Host
      /\ Current.fields \in Seq(Keys \X Values)
  BY <1>1, CurrentHost
<1>3. PICK kv \in Keys \X Values : kv = Current.fields[pos + 1]
  BY <1>1, <1>2
<1>4. hostMap' = [hostMap EXCEPT ![Current.name] = [hostMap[Current.name] EXCEPT !.vars[kv[1]] = kv[2]]]
  BY <1>3 DEF AssignField
<1>5. ASSUME NEW n \in Names PROVE Described(text, n, pos + 1, hostMap'[n])
  <2>1. Described(text, n, pos, hostMap[n])
    BY <1>1 DEF ParseInv, HostInv
  <2>2. CASE n = Current.name
    <3>1. Len(text) \in LinesOf(text, n) /\ Len(text[Len(text)].fields) \in Nat
      BY <1>1, <1>2, <2>2 DEF ParseInv, LineInv, Current
    <3>2. Described(text, n, pos + 1, [hostMap[n] EXCEPT !.vars[kv[1]] = kv[2]])
      BY <1>1, <1>2, <1>3, <2>1, <2>2, <3>1, FieldAssigned DEF Current
    <3> QED BY <1>2, <1>4, <2>2, <3>2 DEF TypeOK
  <2>3. CASE n # Current.name
    <3>1. hostMap'[n] = hostMap[n]
      BY <1>2, <1>4, <2>3 DEF TypeOK
    <3>2. Len(text) \notin LinesOf(text, n)
      BY <2>3 DEF LinesOf, Current
    <3> QED BY <2>1, <3>1, <3>2, OtherFields
  <2> QED BY <2>2, <2>3
<1>6. pos + 1 <= Len(Current.fields)
  BY <1>1, <1>2
<1>7. HeadInv' /\ LineInv'
  BY <1>1, <1>6 DEF ParseInv, HeadInv, LineInv, Current
<1> QED BY <1>1, <1>5, <1>7 DEF ParseInv, HostInv

\* The group of the section ends the line.
LEMMA GroupParses ==
  ASSUME TypeOK, ParseInv, AssignGroup
  PROVE  ParseInv'
<1>1. /\ phase = "fields" /\ pos = Len(Current.fields) /\ phase' = "scan"
      /\ UNCHANGED <<text, currentGroup, skipSection>>
  BY DEF AssignGroup
<1>2. /\ Len(text) \in Nat \ {0} /\ Current.name \in Names /\ hostMap[Current.name] \in Host
      /\ Current.fields \in Seq(Keys \X Values)
  BY <1>1, CurrentHost
<1>3. PICK gs : gs = {currentGroup} \ {"", "all"}
  OBVIOUS
<1>4. gs \subseteq GroupNames
  BY <1>3 DEF TypeOK, Sections
<1>5. gs = {text[j].name : j \in HeaderOf(text, Len(text))} \ {"", "all"}
  <2>1. CASE HeaderOf(text, Len(text)) = {}
    BY <1>3, <2>1 DEF ParseInv, HeadInv
  <2>2. CASE HeaderOf(text, Len(text)) # {}
    <3>1. PICK j \in HeaderOf(text, Len(text)) :
            /\ skipSection = text[j].qualified
            /\ currentGroup = IF text[j].qualified THEN "" ELSE text[j].name
      BY <2>2 DEF ParseInv, HeadInv
    <3>2. currentGroup = text[j].name
      BY <1>1, <3>1 DEF ParseInv, LineInv
    <3>3. HeaderOf(text, Len(text)) = {j}
      <4>1. \A k \in HeaderOf(text, Len(text)) : k = j
        BY <1>2, HeaderUnique
      <4> QED BY <4>1
    <3> QED BY <1>3, <3>2, <3>3
  <2> QED BY <2>1, <2>2
<1>6. hostMap' = [hostMap EXCEPT ![Current.name] = [hostMap[Current.name] EXCEPT !.groups = @ \cup gs]]
  BY <1>3 DEF AssignGroup
<1>7. ASSUME NEW n \in Names PROVE Complete(text, n, hostMap'[n])
  <2>1. Described(text, n, pos, hostMap[n])
    BY <1>1 DEF ParseInv, HostInv
  <2>2. CASE n = Current.name
    <3>1. Len(text) \in LinesOf(text, n) /\ Len(text[Len(text)].fields) \in Nat
      BY <1>1, <1>2, <2>2 DEF ParseInv, LineInv, Current
    <3>2. Described(text, n, Len(text[Len(text)].fields), hostMap[n])
      BY <1>1, <2>1 DEF Current
    <3>3. Complete(text, n, [hostMap[n] EXCEPT !.groups = @ \cup gs])
      BY <1>2, <1>4, <1>5, <2>2, <3>1, <3>2, GroupAdded
    <3> QED BY <1>2, <1>6, <2>2, <3>3 DEF TypeOK
  <2>3. CASE n # Current.name
    <3>1. hostMap'[n] = hostMap[n]
      BY <1>2, <1>6, <2>3 DEF TypeOK
    <3>2. Len(text) \notin LinesOf(text, n)
      BY <2>3 DEF LinesOf, Current
    <3> QED BY <2>1, <3>1, <3>2, OtherFields
  <2> QED BY <2>2, <2>3
<1>8. HeadInv' /\ LineInv'
  BY <1>1 DEF ParseInv, HeadInv, LineInv
<1> QED BY <1>1, <1>7, <1>8 DEF ParseInv, HostInv

\* Every step keeps the types and what the parser holds.
LEMMA StepParses ==
  ASSUME TypeOK, ParseInv, [Next]_vars
  PROVE  TypeOK' /\ ParseInv'
<1>1. CASE \E line \in Line : ScannerError(line)
  <2>1. UNCHANGED <<text, hostMap, currentGroup, skipSection, pos>> /\ phase = "scan" /\ phase' # "fields"
    BY <1>1 DEF ScannerError, parseVars
  <2> QED BY <1>1, <2>1, ParseType DEF ParseInv, HeadInv, LineInv, HostInv
<1>2. CASE EndOfFile \/ WriteHosts \/ (\E g \in groups : WriteGroup(g)) \/ WriteFile
  <2>1. UNCHANGED <<text, hostMap, currentGroup, skipSection, pos>>
        /\ phase # "fields" /\ phase' # "fields"
    BY <1>2 DEF EndOfFile, WriteHosts, WriteGroup, WriteFile, parseVars
  <2> QED BY <1>2, <2>1, ParseType, WriteType DEF ParseInv, HeadInv, LineInv, HostInv
<1>3. CASE UNCHANGED vars
  <2>1. UNCHANGED <<text, hostMap, currentGroup, skipSection, pos, phase, order, groups>>
    BY <1>3 DEF vars, parseVars, writeVars
  <2> QED BY <2>1 DEF TypeOK, ParseInv, HeadInv, LineInv, HostInv, Current
<1> QED BY <1>1, <1>2, <1>3, ParseType, SkipParses, SectionParses, EntryParses, FieldParses,
           GroupParses DEF Next

\* The empty file.
LEMMA InitParses ==
  ASSUME Init
  PROVE  TypeOK /\ ParseInv
<1>1. text = <<>> /\ Len(text) = 0 /\ phase = "scan" /\ hostMap = [n \in Names |-> None]
  BY DEF Init
<1>2. TypeOK
  <2>1. text \in Seq(Line) /\ order \in Seq(Names)
    BY EmptySeq DEF Init
  <2>2. hostMap \in [Names -> Host \cup {None}]
    BY <1>1
  <2> QED BY <2>1, <2>2 DEF Init, TypeOK, Sections
<1>3. HeaderOf(text, Len(text)) = {} /\ \A n : LinesOf(text, n) = {}
  BY <1>1 DEF HeaderOf, LinesOf
<1>4. HeadInv /\ LineInv
  BY <1>1, <1>3 DEF Init, HeadInv, LineInv
<1>5. HostInv
  BY <1>1, <1>3 DEF HostInv, Complete
<1> QED BY <1>2, <1>4, <1>5 DEF ParseInv

-----------------------------------------------------------------------------
\* Every reachable state has its types: a host's groups never hold all or the empty name.
THEOREM TypeCorrect == Spec => []TypeOK
<1>1. TypeOK /\ ParseInv /\ [Next]_vars => TypeOK' /\ ParseInv'
  BY StepParses
<1> QED BY <1>1, InitParses, PTL DEF Spec

\* For every file, after every line, parseINIInventory holds what the lines so far mean.
THEOREM ParserCorrect == Spec => []ParserIsRight
<1>1. TypeOK /\ ParseInv /\ [Next]_vars => TypeOK' /\ ParseInv'
  BY StepParses
<1>2. TypeOK /\ ParseInv => ParserIsRight
  <2> SUFFICES ASSUME TypeOK, ParseInv, phase # "fields", NEW n \in Names
               PROVE  hostMap[n] = Meaning(text, n)
    BY DEF ParserIsRight
  <2>1. hostMap[n] \in Host \cup {None} /\ Complete(text, n, hostMap[n])
    BY DEF TypeOK, ParseInv, HostInv
  <2> QED BY <2>1, CompleteIsMeaning
<1> QED BY <1>1, <1>2, InitParses, PTL DEF Spec

-----------------------------------------------------------------------------
(* WriteInventory. *)

WrittenLine ==
  [kind : {"section"}, name : Sections, qualified : {FALSE}]
  \cup [kind : {"host"}, name : Names, fields : Seq(Keys \X Values)]

\* The [all] section: the hosts in the order of the list, each with its fields; below it lines
\* have no fields.
AllInv ==
  /\ order \in Orders(Known) /\ written \in Seq(WrittenLine)
  /\ Len(order) < Len(written) /\ written[1] = SectionLine("all")
  /\ \A i \in 1 .. Len(order) : \E keys \in Orders(Defined(order[i])) :
       written[i + 1] = HostLine(order[i], HostFields(order[i], keys))
  /\ \A i \in Len(order) + 2 .. Len(written) : written[i].kind = "host" => written[i].fields = <<>>

\* The sections below: a host is under the groups it is in, as far as they are written.
GroupInv ==
  /\ \A i \in Len(order) + 2 .. Len(written) : written[i].kind = "host" =>
       /\ written[i].name \in Known
       /\ \A j \in HeaderOf(written, i) : written[j].name \in hostMap[written[i].name].groups \ groups
  /\ \A n \in Known : \A g \in hostMap[n].groups \ groups :
       \E i \in LinesOf(written, n) : \E j \in HeaderOf(written, i) : written[j].name = g

WriteInv ==
  /\ phase \in {"groups", "written"} => AllInv /\ GroupInv
  /\ phase = "written" => groups = {}

\* The known hosts and their variables.
LEMMA KnownHosts ==
  ASSUME TypeOK
  PROVE  /\ Known \subseteq Names /\ IsFiniteSet(Known)
         /\ \A n \in Known : hostMap[n] \in Host /\ IsFiniteSet(Defined(n)) /\ Defined(n) \subseteq Keys
<1>1. Known \subseteq Names /\ IsFiniteSet(Known)
  BY FiniteAssumption, FS_Subset DEF Known
<1>2. \A n : Defined(n) \subseteq Keys
  BY DEF Defined
<1>3. \A n : IsFiniteSet(Defined(n))
  BY <1>2, FiniteAssumption, FS_Subset
<1> QED BY <1>1, <1>2, <1>3 DEF Known, TypeOK

\* What is where in a concatenation.
LEMMA ConcatAt ==
  ASSUME NEW S, NEW f \in Seq(S), NEW g \in Seq(S)
  PROVE  /\ f \o g \in Seq(S) /\ Len(f \o g) = Len(f) + Len(g) /\ Len(f) \in Nat /\ Len(g) \in Nat
         /\ \A i \in 1 .. Len(f) : (f \o g)[i] = f[i]
         /\ \A i \in 1 .. Len(g) : (f \o g)[Len(f) + i] = g[i]
<1>1. Len(f) \in Nat /\ Len(g) \in Nat
  OBVIOUS
<1>2. f \o g \in Seq(S) /\ Len(f \o g) = Len(f) + Len(g)
  BY ConcatProperties
<1>3. \A i \in 1 .. Len(f) + Len(g) : (f \o g)[i] = IF i <= Len(f) THEN f[i] ELSE g[i - Len(f)]
  BY ConcatProperties
<1>4. ASSUME NEW i \in 1 .. Len(f) PROVE (f \o g)[i] = f[i]
  <2>1. i \in 1 .. Len(f) + Len(g) /\ i <= Len(f)
    BY <1>1
  <2> QED BY <1>3, <2>1
<1>5. ASSUME NEW i \in 1 .. Len(g) PROVE (f \o g)[Len(f) + i] = g[i]
  <2>1. Len(f) + i \in 1 .. Len(f) + Len(g) /\ ~(Len(f) + i <= Len(f)) /\ (Len(f) + i) - Len(f) = i
    BY <1>1
  <2> QED BY <1>3, <2>1
<1> QED BY <1>1, <1>2, <1>4, <1>5

Joined(h, f, g) ==
  /\ Len(h) = Len(f) + Len(g)
  /\ \A i \in 1 .. Len(f) : h[i] = f[i]
  /\ \A i \in 1 .. Len(g) : h[Len(f) + i] = g[i]

LEMMA ConcatIs ==
  ASSUME NEW S, NEW f \in Seq(S), NEW g \in Seq(S)
  PROVE  f \o g \in Seq(S) /\ Joined(f \o g, f, g)
BY ConcatAt DEF Joined

\* The fields of a host line: its name as address, then each of its variables once.
LEMMA HostFieldsAre ==
  ASSUME TypeOK, NEW n \in Known, NEW keys \in Orders(Defined(n))
  PROVE  /\ keys \in Seq(Keys) /\ HostFields(n, keys) \in Seq(Keys \X Values)
         /\ Len(HostFields(n, keys)) = Len(keys) + 1
         /\ HostFields(n, keys)[1] = <<"ansible_host", n>>
         /\ \A p \in 1 .. Len(keys) :
              HostFields(n, keys)[p + 1] = <<keys[p], hostMap[n].vars[keys[p]]>>
<1>1. keys \in Seq(Defined(n)) /\ Defined(n) \subseteq Keys /\ hostMap[n] \in Host /\ n \in Values
  BY KnownHosts, OrdersOf, FieldsAssumption
<1>2. keys \in Seq(Keys) /\ Len(keys) \in Nat /\ \A p \in 1 .. Len(keys) : keys[p] \in Defined(n)
  BY <1>1, SeqMonotonic
<1>3. \A p \in 1 .. Len(keys) : <<keys[p], hostMap[n].vars[keys[p]]>> \in Keys \X Values
  BY <1>1, <1>2 DEF Defined, Host
<1> DEFINE tail == [p \in 1 .. Len(keys) |-> <<keys[p], hostMap[n].vars[keys[p]]>>]
           head == <<<<"ansible_host", n>>>>
<1>4. tail \in Seq(Keys \X Values) /\ Len(tail) = Len(keys)
  BY <1>2, <1>3
<1>5. head \in Seq(Keys \X Values) /\ Len(head) = 1 /\ head[1] = <<"ansible_host", n>>
  BY <1>1, FieldsAssumption
<1>6. \A p \in 1 .. Len(keys) : tail[p] = <<keys[p], hostMap[n].vars[keys[p]]>>
  OBVIOUS
<1> HIDE DEF head, tail
<1>7. /\ head \o tail \in Seq(Keys \X Values) /\ Len(head \o tail) = Len(keys) + 1
      /\ (head \o tail)[1] = head[1] /\ \A p \in 1 .. Len(keys) : (head \o tail)[p + 1] = tail[p]
  <2>1. /\ head \o tail \in Seq(Keys \X Values) /\ Len(head \o tail) = 1 + Len(keys)
        /\ (head \o tail)[1] = head[1] /\ \A p \in 1 .. Len(keys) : (head \o tail)[1 + p] = tail[p]
    <3>1. head \o tail \in Seq(Keys \X Values) /\ Joined(head \o tail, head, tail)
      BY <1>4, <1>5, ConcatIs
    <3>2. 1 \in 1 .. Len(head)
      BY <1>5
    <3> QED BY <1>4, <1>5, <3>1, <3>2 DEF Joined
  <2>2. 1 + Len(keys) = Len(keys) + 1 /\ \A p \in 1 .. Len(keys) : 1 + p = p + 1
    BY <1>2
  <2> QED BY <2>1, <2>2
<1> QED BY <1>2, <1>5, <1>6, <1>7 DEF HostFields, head, tail

\* The first part of the file.
LEMMA HostsWritten ==
  ASSUME TypeOK, WriteHosts
  PROVE  (AllInv /\ GroupInv)'
<1>1. UNCHANGED hostMap /\ order' \in Orders(Known) /\ groups' = UNION {hostMap[n].groups : n \in Known}
  BY DEF WriteHosts, parseVars
<1>2. PICK keys : /\ \A n \in Known : keys[n] \in Orders(Defined(n))
                  /\ written' = <<SectionLine("all")>>
                       \o [i \in 1 .. Len(order') |->
                             HostLine(order'[i], HostFields(order'[i], keys[order'[i]]))]
  BY DEF WriteHosts
<1>3. order' \in Seq(Known) /\ Len(order') \in Nat /\ \A i \in 1 .. Len(order') : order'[i] \in Known
  BY <1>1, KnownHosts, OrdersOf
<1> DEFINE top == <<SectionLine("all")>>
           L(i) == HostLine(order'[i], HostFields(order'[i], keys[order'[i]]))
           lines == [i \in 1 .. Len(order') |-> L(i)]
<1>4. top \in Seq(WrittenLine) /\ Len(top) = 1 /\ top[1] = SectionLine("all")
  BY DEF SectionLine, WrittenLine, Sections
<1>5. \A i \in 1 .. Len(order') : L(i) \in WrittenLine
  <2> SUFFICES ASSUME NEW i \in 1 .. Len(order') PROVE L(i) \in WrittenLine
    OBVIOUS
  <2>1. order'[i] \in Known /\ order'[i] \in Names /\ keys[order'[i]] \in Orders(Defined(order'[i]))
    BY <1>2, <1>3, KnownHosts
  <2>2. HostFields(order'[i], keys[order'[i]]) \in Seq(Keys \X Values)
    BY <2>1, HostFieldsAre
  <2> QED BY <2>1, <2>2 DEF HostLine, WrittenLine
<1>6. written' = top \o lines
  BY <1>2
<1> HIDE DEF top, L
<1>7. lines \in Seq(WrittenLine) /\ Len(lines) = Len(order') /\ \A i \in 1 .. Len(order') : lines[i] = L(i)
  BY <1>3, <1>5
<1> HIDE DEF lines
<1>8. /\ written' \in Seq(WrittenLine) /\ Len(written') = Len(order') + 1 /\ written'[1] = top[1]
      /\ \A i \in 1 .. Len(order') : written'[i + 1] = L(i)
  <2>1. /\ top \o lines \in Seq(WrittenLine) /\ Len(top \o lines) = 1 + Len(order')
        /\ (top \o lines)[1] = top[1] /\ \A i \in 1 .. Len(order') : (top \o lines)[1 + i] = lines[i]
    <3>1. top \o lines \in Seq(WrittenLine) /\ Joined(top \o lines, top, lines)
      BY <1>4, <1>7, ConcatIs
    <3>2. 1 \in 1 .. Len(top)
      BY <1>4
    <3> QED BY <1>4, <1>7, <3>1, <3>2 DEF Joined
  <2>2. 1 + Len(order') = Len(order') + 1 /\ \A i \in 1 .. Len(order') : 1 + i = i + 1
    BY <1>3
  <2> QED BY <1>6, <1>7, <2>1, <2>2
<1>9. Known' = Known /\ \A n : Defined(n)' = Defined(n)
  BY <1>1 DEF Known, Defined
<1>10. \A n, ks : HostFields(n, ks)' = HostFields(n, ks)
  BY <1>1 DEF HostFields
<1>11. Len(order') < Len(written') /\ Len(order') + 2 .. Len(written') = {}
  BY <1>3, <1>8
<1>12. AllInv'
  <2>1. \A i \in 1 .. Len(order') : \E ks \in Orders(Defined(order'[i])) :
          written'[i + 1] = HostLine(order'[i], HostFields(order'[i], ks))
    BY <1>2, <1>3, <1>8 DEF L
  <2>2. \A i \in 1 .. Len(order') : \E ks \in Orders((Defined(order[i]))') :
          written'[i + 1] = HostLine(order'[i], (HostFields(order[i], ks))')
    BY <1>1, <2>1 DEF Defined, HostFields
  <2> QED BY <1>1, <1>4, <1>8, <1>9, <1>11, <2>2 DEF AllInv
<1>13. GroupInv'
  BY <1>1, <1>9, <1>11 DEF GroupInv
<1> QED BY <1>12, <1>13

\* A file with one section more, and the lines it adds: all below its header.
MemberLines(ms) == [i \in 1 .. Len(ms) |-> HostLine(ms[i], <<>>)]
WithSection(f, g, ms) == f \o <<SectionLine(g)>> \o MemberLines(ms)

Added(f2, f, g, ms) ==
  /\ f2 \in Seq(WrittenLine) /\ Extends(f2, f) /\ Len(f) < Len(f2)
  /\ \A i \in 1 .. Len(f) : /\ f2[i] = f[i] /\ HeaderOf(f2, i) = HeaderOf(f, i)
                            /\ \A j \in HeaderOf(f, i) : f2[j] = f[j]
  /\ \A i \in 1 .. Len(f2) : \/ i \in 1 .. Len(f)
                             \/ f2[i] = SectionLine(g)
                             \/ \E p \in 1 .. Len(ms) : f2[i] = HostLine(ms[p], <<>>)
  /\ \A i \in 1 .. Len(f2) : f2[i].kind = "host" =>
       i \in 1 .. Len(f) \/ \E h : HeaderOf(f2, i) = {h} /\ f2[h] = SectionLine(g)
  /\ \A p \in 1 .. Len(ms) : \E i \in 1 .. Len(f2) : \E h :
       f2[i] = HostLine(ms[p], <<>>) /\ HeaderOf(f2, i) = {h} /\ f2[h] = SectionLine(g)

LEMMA SectionAdded ==
  ASSUME NEW f \in Seq(WrittenLine), NEW g \in GroupNames, NEW ms \in Seq(Names), NEW f2,
         f2 = WithSection(f, g, ms)
  PROVE  Added(f2, f, g, ms)
<1>1. PICK L \in Nat, M \in Nat : L = Len(f) /\ M = Len(ms)
  OBVIOUS
<1>2. /\ f2 \in Seq(WrittenLine) /\ Len(f2) = L + 1 + M /\ f2[L + 1] = SectionLine(g)
      /\ \A i \in 1 .. L : f2[i] = f[i]
      /\ \A p \in 1 .. M : f2[L + 1 + p] = HostLine(ms[p], <<>>)
  <2>1. PICK x : x = SectionLine(g)
    OBVIOUS
  <2>2. x \in WrittenLine
    BY <2>1 DEF SectionLine, WrittenLine, Sections
  <2>3. \A p \in 1 .. M : HostLine(ms[p], <<>>) \in WrittenLine
    BY <1>1, EmptySeq DEF HostLine, WrittenLine
  <2>4. PICK lines : lines = MemberLines(ms)
    OBVIOUS
  <2>5. lines \in Seq(WrittenLine) /\ Len(lines) = M /\ \A p \in 1 .. M : lines[p] = HostLine(ms[p], <<>>)
    BY <1>1, <2>3, <2>4 DEF MemberLines
  <2>6. PICK head : head = <<x>>
    OBVIOUS
  <2>7. head \in Seq(WrittenLine) /\ Len(head) = 1 /\ head[1] = x /\ 1 \in 1 .. 1
    BY <2>2, <2>6
  <2>8. PICK h : h = f \o head
    OBVIOUS
  <2>9. f2 = h \o lines
    BY <2>1, <2>4, <2>6, <2>8 DEF WithSection
  <2>10. h \in Seq(WrittenLine) /\ Len(h) = L + 1 /\ h[L + 1] = x /\ \A i \in 1 .. L : h[i] = f[i]
    <3>1. head \in Seq(WrittenLine)
      BY <2>7
    <3>2. /\ f \o head \in Seq(WrittenLine) /\ Len(f \o head) = Len(f) + Len(head)
          /\ \A i \in 1 .. Len(f) : (f \o head)[i] = f[i]
          /\ \A i \in 1 .. Len(head) : (f \o head)[Len(f) + i] = head[i]
      BY <3>1, ConcatIs DEF Joined
    <3> QED BY <1>1, <2>7, <2>8, <3>2
  <2>11. PICK L1 \in Nat : L1 = L + 1
    OBVIOUS
  <2>12. /\ f2 \in Seq(WrittenLine) /\ Len(f2) = L1 + M
         /\ \A i \in 1 .. L1 : f2[i] = h[i]
         /\ \A p \in 1 .. M : f2[L1 + p] = lines[p]
    <3>1. h \in Seq(WrittenLine) /\ lines \in Seq(WrittenLine)
      BY <2>5, <2>10
    <3>2. /\ h \o lines \in Seq(WrittenLine) /\ Len(h \o lines) = Len(h) + Len(lines)
          /\ \A i \in 1 .. Len(h) : (h \o lines)[i] = h[i]
          /\ \A i \in 1 .. Len(lines) : (h \o lines)[Len(h) + i] = lines[i]
      BY <3>1, ConcatIs DEF Joined
    <3> QED BY <2>5, <2>9, <2>10, <2>11, <3>2
  <2>13. (\A i \in 1 .. L : i \in 1 .. L1) /\ L + 1 \in 1 .. L1
    BY <2>11
  <2> QED BY <2>1, <2>5, <2>10, <2>11, <2>12, <2>13
<1>3. PICK N \in Nat : N = Len(f2) /\ N = L + 1 + M
  BY <1>2
<1>4. Extends(f2, f) /\ L < N
  BY <1>1, <1>2, <1>3 DEF Extends
<1>5. ASSUME NEW i \in 1 .. L
      PROVE  HeaderOf(f2, i) = HeaderOf(f, i) /\ \A j \in HeaderOf(f, i) : f2[j] = f[j]
  <2>1. \A j \in HeaderOf(f, i) : j \in 1 .. L
    BY DEF HeaderOf
  <2>2. HeaderOf(f2, i) = HeaderOf(f, i)
    BY <1>1, <1>4, HeaderPrefix
  <2> QED BY <1>2, <2>1, <2>2
<1>6. ASSUME NEW i \in 1 .. N, i \notin 1 .. L, i # L + 1
      PROVE  \E p \in 1 .. M : i = L + 1 + p
  <2>1. i - (L + 1) \in 1 .. M /\ i = L + 1 + (i - (L + 1))
    BY <1>3, <1>6
  <2> QED BY <2>1
<1>7. ASSUME NEW p \in 1 .. M PROVE L + 1 + p \in 1 .. N /\ HeaderOf(f2, L + 1 + p) = {L + 1}
  <2>1. L + 1 + p \in 1 .. N /\ L + 1 + p \in Nat /\ L + 1 \in 1 .. L + 1 + p
    BY <1>3
  <2>2. ASSUME NEW k \in (L + 1) + 1 .. L + 1 + p PROVE f2[k].kind # "section"
    <3>1. k \in 1 .. N /\ k \notin 1 .. L /\ k # L + 1
      BY <1>3
    <3>2. PICK q \in 1 .. M : k = L + 1 + q
      BY <1>6, <3>1
    <3>3. f2[k] = HostLine(ms[q], <<>>)
      BY <1>2, <3>2, Zenon
    <3> QED BY <3>3 DEF HostLine
  <2>3. f2[L + 1].kind = "section"
    BY <1>2 DEF SectionLine
  <2> QED BY <2>1, <2>2, <2>3, HeaderIs
<1>8. ASSUME NEW i \in 1 .. N
      PROVE  \/ i \in 1 .. L \/ f2[i] = SectionLine(g)
             \/ \E p \in 1 .. M : f2[i] = HostLine(ms[p], <<>>) /\ HeaderOf(f2, i) = {L + 1}
  <2>1. CASE i \in 1 .. L \/ i = L + 1
    BY <1>2, <2>1
  <2>2. CASE i \notin 1 .. L /\ i # L + 1
    <3>1. PICK p \in 1 .. M : i = L + 1 + p
      BY <1>6, <2>2
    <3> QED BY <1>2, <1>7, <3>1
  <2> QED BY <2>1, <2>2
<1>9. ASSUME NEW i \in 1 .. N, f2[i].kind = "host"
      PROVE  i \in 1 .. L \/ \E h : HeaderOf(f2, i) = {h} /\ f2[h] = SectionLine(g)
  <2>1. f2[i] # SectionLine(g)
    BY <1>9 DEF SectionLine
  <2> QED BY <1>2, <1>8, <2>1
<1>10. ASSUME NEW p \in 1 .. M
       PROVE  \E i \in 1 .. N : \E h : f2[i] = HostLine(ms[p], <<>>) /\ HeaderOf(f2, i) = {h} /\ f2[h] = SectionLine(g)
  BY <1>2, <1>7
<1>11. \A i \in 1 .. Len(f) : /\ f2[i] = f[i] /\ HeaderOf(f2, i) = HeaderOf(f, i)
                              /\ \A j \in HeaderOf(f, i) : f2[j] = f[j]
  BY <1>1, <1>2, <1>5
<1>12. \A i \in 1 .. Len(f2) : \/ i \in 1 .. Len(f) \/ f2[i] = SectionLine(g)
                               \/ \E p \in 1 .. Len(ms) : f2[i] = HostLine(ms[p], <<>>)
  BY <1>1, <1>3, <1>8
<1>13. \A i \in 1 .. Len(f2) : f2[i].kind = "host" =>
         i \in 1 .. Len(f) \/ \E h : HeaderOf(f2, i) = {h} /\ f2[h] = SectionLine(g)
  BY <1>1, <1>3, <1>9
<1>14. \A p \in 1 .. Len(ms) : \E i \in 1 .. Len(f2) : \E h :
         f2[i] = HostLine(ms[p], <<>>) /\ HeaderOf(f2, i) = {h} /\ f2[h] = SectionLine(g)
  BY <1>1, <1>3, <1>10
<1> QED BY <1>1, <1>2, <1>3, <1>4, <1>11, <1>12, <1>13, <1>14 DEF Added

\* A group's section: its header governs the lines of its members, and nothing else changes.
LEMMA GroupWritten ==
  ASSUME TypeOK, AllInv, GroupInv, NEW g \in groups, WriteGroup(g)
  PROVE  (AllInv /\ GroupInv)'
<1>1. UNCHANGED <<hostMap, order>> /\ groups' = groups \ {g} /\ g \in GroupNames
  BY DEF WriteGroup, parseVars, TypeOK
<1>2. PICK members \in Orders(InGroup(g)) : written' = WithSection(written, g, members)
  BY DEF WriteGroup, WithSection, MemberLines
<1>3. /\ InGroup(g) \subseteq Known /\ Known \subseteq Names /\ members \in Seq(InGroup(g))
      /\ \A p \in 1 .. Len(members) : members[p] \in InGroup(g)
      /\ \A n \in InGroup(g) : \E p \in 1 .. Len(members) : members[p] = n
  <2>1. InGroup(g) \subseteq Known /\ Known \subseteq Names /\ IsFiniteSet(Known)
    BY KnownHosts DEF InGroup
  <2>2. IsFiniteSet(InGroup(g))
    BY <2>1, FS_Subset
  <2> QED BY <2>1, <2>2, OrdersOf
<1>4. members \in Seq(Names)
  BY <1>3, SeqMonotonic
<1>5. PICK f, f2, k : f = written /\ f2 = written' /\ k = Len(order) + 2
  OBVIOUS
<1>6. f \in Seq(WrittenLine) /\ Len(f) \in Nat /\ Len(order) < Len(f) /\ Len(order) \in Nat
  BY <1>5 DEF AllInv, TypeOK
<1>7. f2 = WithSection(f, g, members)
  BY <1>2, <1>5
<1>8. Added(f2, f, g, members)
  BY <1>1, <1>4, <1>6, <1>7, SectionAdded
<1>9. /\ f2 \in Seq(WrittenLine) /\ Extends(f2, f) /\ Len(f) < Len(f2)
      /\ \A i \in 1 .. Len(f) : /\ f2[i] = f[i] /\ HeaderOf(f2, i) = HeaderOf(f, i)
                                /\ \A j \in HeaderOf(f, i) : f2[j] = f[j]
  BY <1>8 DEF Added
<1>10. \A i \in 1 .. Len(f2) : \/ i \in 1 .. Len(f) \/ f2[i] = SectionLine(g)
                              \/ \E p \in 1 .. Len(members) : f2[i] = HostLine(members[p], <<>>)
  BY <1>8 DEF Added
<1>11. \A i \in 1 .. Len(f2) : f2[i].kind = "host" =>
         i \in 1 .. Len(f) \/ \E h : HeaderOf(f2, i) = {h} /\ f2[h] = SectionLine(g)
  BY <1>8 DEF Added
<1>12. \A p \in 1 .. Len(members) : \E i \in 1 .. Len(f2) : \E h :
         f2[i] = HostLine(members[p], <<>>) /\ HeaderOf(f2, i) = {h} /\ f2[h] = SectionLine(g)
  BY <1>8 DEF Added
<1>13. Len(f2) \in Nat /\ \A i \in k .. Len(f2) : i \in 1 .. Len(f2) /\ (i \in 1 .. Len(f) => i \in k .. Len(f))
  BY <1>5, <1>6, <1>9
<1>14. Known' = Known
  BY <1>1 DEF Known
<1>15. AllInv'
  <2>1. ASSUME NEW i \in 1 .. Len(order)
        PROVE  \E ks \in Orders((Defined(order[i]))') :
                 written'[i + 1] = HostLine(order[i], (HostFields(order[i], ks))')
    <3>1. i + 1 \in 1 .. Len(f)
      BY <1>6
    <3>2. PICK ks \in Orders(Defined(order[i])) :
            written[i + 1] = HostLine(order[i], HostFields(order[i], ks))
      BY DEF AllInv
    <3>3. (Defined(order[i]))' = Defined(order[i]) /\ (HostFields(order[i], ks))' = HostFields(order[i], ks)
      BY <1>1 DEF Defined, HostFields
    <3>4. written'[i + 1] = written[i + 1]
      BY <1>5, <1>9, <3>1
    <3> QED BY <3>2, <3>3, <3>4
  <2>2. ASSUME NEW i \in k .. Len(f2), f2[i].kind = "host"
        PROVE  f2[i].fields = <<>>
    <3>1. CASE i \in 1 .. Len(f)
      BY <1>5, <1>9, <1>13, <2>2, <3>1 DEF AllInv
    <3>2. CASE i \notin 1 .. Len(f)
      <4>1. f2[i] # SectionLine(g)
        BY <2>2 DEF SectionLine
      <4>2. PICK p \in 1 .. Len(members) : f2[i] = HostLine(members[p], <<>>)
        BY <1>10, <1>13, <3>2, <4>1
      <4> QED BY <4>2 DEF HostLine
    <3> QED BY <3>1, <3>2
  <2>3. Len(order) < Len(f2) /\ f2[1] = SectionLine("all")
    <3>1. 1 \in 1 .. Len(f) /\ f[1] = SectionLine("all")
      BY <1>5, <1>6 DEF AllInv
    <3> QED BY <1>6, <1>9, <1>13, <3>1
  <2>4. order \in Orders(Known)
    BY DEF AllInv
  <2> QED BY <1>1, <1>5, <1>9, <1>14, <2>1, <2>2, <2>3, <2>4 DEF AllInv
<1>16. ASSUME NEW i \in k .. Len(f2), f2[i].kind = "host"
       PROVE  /\ f2[i].name \in Known
              /\ \A j \in HeaderOf(f2, i) : f2[j].name \in hostMap[f2[i].name].groups \ groups'
  <2>1. CASE i \in 1 .. Len(f)
    <3>1. f2[i] = f[i] /\ HeaderOf(f2, i) = HeaderOf(f, i) /\ \A j \in HeaderOf(f, i) : f2[j] = f[j]
      BY <1>9, <2>1
    <3>2. /\ f[i].name \in Known
          /\ \A j \in HeaderOf(f, i) : f[j].name \in hostMap[f[i].name].groups \ groups
      BY <1>5, <1>13, <1>16, <2>1, <3>1 DEF GroupInv
    <3> QED BY <1>1, <3>1, <3>2
  <2>2. CASE i \notin 1 .. Len(f)
    <3>1. PICK h : HeaderOf(f2, i) = {h} /\ f2[h] = SectionLine(g)
      BY <1>11, <1>13, <1>16, <2>2
    <3>2. f2[i] # SectionLine(g)
      BY <1>16 DEF SectionLine
    <3>3. PICK p \in 1 .. Len(members) : f2[i] = HostLine(members[p], <<>>)
      BY <1>10, <1>13, <2>2, <3>2
    <3>4. f2[i].name \in InGroup(g)
      BY <1>3, <3>3 DEF HostLine
    <3>5. f2[h].name = g
      BY <3>1 DEF SectionLine
    <3> QED BY <1>1, <3>1, <3>4, <3>5 DEF InGroup
  <2> QED BY <2>1, <2>2
<1>17. ASSUME NEW n \in Known, NEW x \in hostMap[n].groups \ groups'
       PROVE  \E i \in LinesOf(f2, n) : \E j \in HeaderOf(f2, i) : f2[j].name = x
  <2>1. CASE x = g
    <3>1. n \in InGroup(g)
      BY <1>17, <2>1 DEF InGroup
    <3>2. PICK p \in 1 .. Len(members) : members[p] = n
      BY <1>3, <3>1
    <3>3. PICK i \in 1 .. Len(f2) : \E h :
            f2[i] = HostLine(members[p], <<>>) /\ HeaderOf(f2, i) = {h} /\ f2[h] = SectionLine(g)
      BY <1>12
    <3>4. PICK h : f2[i] = HostLine(members[p], <<>>) /\ HeaderOf(f2, i) = {h} /\ f2[h] = SectionLine(g)
      BY <3>3
    <3>5. f2[i].kind = "host" /\ f2[i].name = n /\ f2[h].name = g /\ ~f2[h].qualified
      BY <3>2, <3>4 DEF HostLine, SectionLine
    <3>6. i \in LinesOf(f2, n) /\ h \in HeaderOf(f2, i)
      BY <3>4, <3>5 DEF LinesOf
    <3> QED BY <2>1, <3>5, <3>6
  <2>2. CASE x # g
    <3>1. x \in hostMap[n].groups \ groups
      BY <1>1, <2>2
    <3>2. PICK i \in LinesOf(f, n) : \E j \in HeaderOf(f, i) : f[j].name = x
      BY <1>5, <3>1 DEF GroupInv
    <3>3. i \in 1 .. Len(f)
      BY DEF LinesOf
    <3>4. i \in LinesOf(f2, n)
      BY <1>6, <1>9, <1>13, <3>3, LinesPrefix
    <3> QED BY <1>9, <3>2, <3>3, <3>4
  <2> QED BY <2>1, <2>2
<1>18. GroupInv'
  BY <1>1, <1>5, <1>14, <1>16, <1>17 DEF GroupInv
<1> QED BY <1>15, <1>18

\* The lines of the file are sections without a colon and hosts; the hosts of [all] come first.
LEMMA FileShape ==
  ASSUME TypeOK, AllInv, GroupInv, NEW f, f = written, NEW N, N = Len(order)
  PROVE  /\ N \in Nat /\ Len(f) \in Nat
         /\ \A i \in 1 .. Len(f) : \A j \in HeaderOf(f, i) : ~f[j].qualified
         /\ \A q \in 1 .. N : /\ q + 1 \in 1 .. Len(f) /\ HeaderOf(f, q + 1) = {1}
                              /\ f[q + 1].kind = "host" /\ f[q + 1].name = order[q]
         /\ f[1] = SectionLine("all")
         /\ \A i \in 1 .. Len(f) : f[i].kind = "host" =>
              (\E q \in 1 .. N : i = q + 1) \/ i \in N + 2 .. Len(f)
<1>1. N \in Nat /\ f \in Seq(WrittenLine) /\ Len(f) \in Nat /\ N < Len(f) /\ f[1] = SectionLine("all")
  BY DEF AllInv, TypeOK
<1>2. \A i \in 1 .. Len(f) : f[i] \in WrittenLine
  BY <1>1
<1>3. ASSUME NEW i \in 1 .. Len(f), NEW j \in HeaderOf(f, i) PROVE ~f[j].qualified
  <2>1. j \in 1 .. Len(f) /\ f[j].kind = "section"
    BY <1>1 DEF HeaderOf
  <2> QED BY <1>2, <2>1 DEF WrittenLine
<1>4. \A q \in 1 .. N : f[q + 1].kind = "host" /\ f[q + 1].name = order[q]
  <2> SUFFICES ASSUME NEW q \in 1 .. N PROVE f[q + 1].kind = "host" /\ f[q + 1].name = order[q]
    OBVIOUS
  <2>1. PICK keys : f[q + 1] = HostLine(order[q], HostFields(order[q], keys))
    BY DEF AllInv
  <2> QED BY <2>1 DEF HostLine
<1>5. ASSUME NEW q \in 1 .. N PROVE q + 1 \in 1 .. Len(f) /\ HeaderOf(f, q + 1) = {1}
  <2>1. q + 1 \in 1 .. Len(f) /\ q + 1 \in Nat /\ 1 \in 1 .. q + 1
    BY <1>1
  <2>2. ASSUME NEW k \in 1 + 1 .. q + 1 PROVE f[k].kind # "section"
    <3>1. k - 1 \in 1 .. N /\ (k - 1) + 1 = k
      BY <1>1
    <3> QED BY <1>4, <3>1
  <2>3. f[1].kind = "section"
    BY <1>1 DEF SectionLine
  <2> QED BY <2>1, <2>2, <2>3, HeaderIs
<1>6. ASSUME NEW i \in 1 .. Len(f), f[i].kind = "host", i \notin N + 2 .. Len(f)
      PROVE  \E q \in 1 .. N : i = q + 1
  <2>1. i # 1
    BY <1>1, <1>6 DEF SectionLine
  <2>2. i - 1 \in 1 .. N /\ i = (i - 1) + 1
    BY <1>1, <1>6, <2>1
  <2> QED BY <2>2
<1> QED BY <1>1, <1>3, <1>4, <1>5, <1>6

\* The variables of a host line of [all]: its own, and its name when it has no address.
LEMMA FieldsWritten ==
  ASSUME TypeOK, NEW n \in Known, NEW keys \in Orders(Defined(n)), NEW k \in Keys,
         NEW f, NEW i, f[i].fields = HostFields(n, keys),
         \A m, p : <<m, p>> \in FieldsOf(f, n, k) <=>
                     m = i /\ p \in 1 .. Len(f[i].fields) /\ f[i].fields[p][1] = k
  PROVE  Holds(f, FieldsOf(f, n, k),
               IF k = "ansible_host" /\ hostMap[n].vars[k] = None THEN n ELSE hostMap[n].vars[k])
<1>1. PICK ks, hf : ks = keys /\ hf = f[i].fields
  OBVIOUS
<1>2. /\ ks \in Seq(Keys) /\ Len(hf) = Len(ks) + 1 /\ Len(ks) \in Nat /\ hf[1] = <<"ansible_host", n>>
      /\ \A p \in 1 .. Len(ks) : hf[p + 1] = <<ks[p], hostMap[n].vars[ks[p]]>>
  <2>1. /\ keys \in Seq(Keys) /\ Len(HostFields(n, keys)) = Len(keys) + 1
        /\ HostFields(n, keys)[1] = <<"ansible_host", n>>
        /\ \A p \in 1 .. Len(keys) :
             HostFields(n, keys)[p + 1] = <<keys[p], hostMap[n].vars[keys[p]]>>
    BY HostFieldsAre, Zenon
  <2>2. keys = ks /\ HostFields(n, keys) = hf
    BY <1>1
  <2>3. /\ ks \in Seq(Keys) /\ Len(hf) = Len(ks) + 1 /\ hf[1] = <<"ansible_host", n>>
        /\ \A p \in 1 .. Len(ks) : hf[p + 1] = <<ks[p], hostMap[n].vars[ks[p]]>>
    BY <2>1, <2>2, Zenon
  <2> QED BY <2>3
<1>3. /\ \A p \in 1 .. Len(ks) : ks[p] \in Defined(n)
      /\ \A p, q \in 1 .. Len(ks) : ks[p] = ks[q] => p = q
      /\ \A x \in Defined(n) : \E p \in 1 .. Len(ks) : ks[p] = x
  BY <1>1, KnownHosts, OrdersOf
<1>4. \A p \in 1 .. Len(hf) : p = 1 \/ \E q \in 1 .. Len(ks) : p = q + 1
  <2> SUFFICES ASSUME NEW p \in 1 .. Len(hf), p # 1 PROVE \E q \in 1 .. Len(ks) : p = q + 1
    OBVIOUS
  <2>1. p - 1 \in 1 .. Len(ks) /\ p = (p - 1) + 1
    BY <1>2
  <2> QED BY <2>1
<1>5. PICK ps : ps = FieldsOf(f, n, k)
  OBVIOUS
<1>6. /\ \A a \in ps : \E p \in 1 .. Len(hf) : a = <<i, p>> /\ hf[p][1] = k
      /\ \A p \in 1 .. Len(hf) : hf[p][1] = k => <<i, p>> \in ps
  <2>1. \A m, p : <<m, p>> \in ps <=> m = i /\ p \in 1 .. Len(hf) /\ hf[p][1] = k
    BY <1>1, <1>5
  <2>2. \A a \in ps : a = <<a[1], a[2]>>
    BY <1>5, FieldsPairs
  <2> QED BY <2>1, <2>2
<1>7. CASE hostMap[n].vars[k] # None
  <2>1. PICK q \in 1 .. Len(ks) : ks[q] = k
    BY <1>3, <1>7 DEF Defined
  <2>2. q + 1 \in 1 .. Len(hf) /\ hf[q + 1] = <<k, hostMap[n].vars[k]>>
    BY <1>2, <2>1
  <2>3. <<i, q + 1>> \in ps
    BY <1>6, <2>2
  <2>4. ASSUME NEW b \in ps PROVE NotAfter(b, <<i, q + 1>>)
    <3>1. PICK p \in 1 .. Len(hf) : b = <<i, p>> /\ hf[p][1] = k
      BY <1>6
    <3>2. p <= q + 1
      <4>1. CASE p = 1
        BY <4>1
      <4>2. CASE p # 1
        <5>1. PICK r \in 1 .. Len(ks) : p = r + 1
          BY <1>4, <4>2
        <5>2. ks[r] = k
          BY <1>2, <3>1, <5>1
        <5> QED BY <1>3, <2>1, <5>1, <5>2
      <4> QED BY <4>1, <4>2
    <3> QED BY <3>1, <3>2 DEF NotAfter
  <2>5. ValueAt(f, <<i, q + 1>>) = hostMap[n].vars[k]
    BY <1>1, <2>2 DEF ValueAt
  <2> QED BY <1>5, <1>7, <2>3, <2>4, <2>5 DEF Holds
<1>8. CASE hostMap[n].vars[k] = None
  <2>1. ASSUME NEW a \in ps PROVE k = "ansible_host" /\ a = <<i, 1>>
    <3>1. PICK p \in 1 .. Len(hf) : a = <<i, p>> /\ hf[p][1] = k
      BY <1>6
    <3>2. p = 1
      <4> SUFFICES ASSUME p # 1 PROVE FALSE
        OBVIOUS
      <4>1. PICK r \in 1 .. Len(ks) : p = r + 1
        BY <1>4
      <4>2. ks[r] = k
        BY <1>2, <3>1, <4>1
      <4> QED BY <1>3, <1>8, <4>2 DEF Defined
    <3> QED BY <1>2, <3>1, <3>2
  <2>2. CASE k = "ansible_host"
    <3>1. 1 \in 1 .. Len(hf) /\ hf[1][1] = k /\ hf[1][2] = n
      BY <1>2, <2>2
    <3>2. <<i, 1>> \in ps
      BY <1>6, <3>1
    <3>3. \A b \in ps : NotAfter(b, <<i, 1>>)
      BY <2>1 DEF NotAfter
    <3>4. ValueAt(f, <<i, 1>>) = n
      BY <1>1, <3>1 DEF ValueAt
    <3> QED BY <1>5, <1>8, <2>2, <3>2, <3>3, <3>4 DEF Holds
  <2>3. CASE k # "ansible_host"
    <3>1. ps = {}
      BY <2>1, <2>3
    <3> QED BY <1>5, <1>8, <2>3, <3>1 DEF Holds
  <2> QED BY <2>2, <2>3
<1> QED BY <1>7, <1>8

\* A host as the file has it: always with an address.
Addressed(n) == [hostMap[n] EXCEPT !.vars["ansible_host"] = IF @ = None THEN n ELSE @]

\* The whole file means the hosts it was made from.
LEMMA WrittenMeans ==
  ASSUME TypeOK, AllInv, GroupInv, groups = {}, NEW n \in Names
  PROVE  Complete(written, n, IF hostMap[n] = None THEN None ELSE Addressed(n))
<1>1. PICK f, N : f = written /\ N = Len(order)
  OBVIOUS
<1>2. /\ N \in Nat /\ Len(f) \in Nat /\ f[1] = SectionLine("all")
      /\ \A i \in 1 .. Len(f) : \A j \in HeaderOf(f, i) : ~f[j].qualified
      /\ \A q \in 1 .. N : /\ q + 1 \in 1 .. Len(f) /\ HeaderOf(f, q + 1) = {1}
                           /\ f[q + 1].kind = "host" /\ f[q + 1].name = order[q]
      /\ \A i \in 1 .. Len(f) : f[i].kind = "host" =>
           (\E q \in 1 .. N : i = q + 1) \/ i \in N + 2 .. Len(f)
  BY <1>1, FileShape
<1>3. /\ \A q \in 1 .. N : order[q] \in Known
      /\ \A p, q \in 1 .. N : order[p] = order[q] => p = q
      /\ \A x \in Known : \E q \in 1 .. N : order[q] = x
  <2>1. order \in Orders(Known) /\ IsFiniteSet(Known)
    BY KnownHosts DEF AllInv
  <2> QED BY <1>1, <2>1, OrdersOf
<1>4. /\ \A i \in N + 2 .. Len(f) : f[i].kind = "host" =>
           /\ f[i].fields = <<>> /\ f[i].name \in Known
           /\ \A j \in HeaderOf(f, i) : f[j].name \in hostMap[f[i].name].groups
      /\ \A x \in Known : \A g \in hostMap[x].groups :
           \E i \in LinesOf(f, x) : \E j \in HeaderOf(f, i) : f[j].name = g
  BY <1>1 DEF AllInv, GroupInv
<1>5. \A i : i \in LinesOf(f, n) <=> i \in 1 .. Len(f) /\ f[i].kind = "host" /\ f[i].name = n
  BY <1>2 DEF LinesOf
<1>6. CASE hostMap[n] = None
  <2>1. n \notin Known
    BY <1>6 DEF Known
  <2>2. ASSUME NEW i \in LinesOf(f, n) PROVE FALSE
    <3>1. i \in 1 .. Len(f) /\ f[i].kind = "host" /\ f[i].name = n
      BY <1>5
    <3>2. ASSUME NEW q \in 1 .. N, i = q + 1 PROVE FALSE
      <4>1. f[i].name = order[q]
        BY <1>2, <3>2
      <4> QED BY <1>3, <2>1, <3>1, <4>1
    <3>3. i \in N + 2 .. Len(f)
      BY <1>2, <3>1, <3>2
    <3> QED BY <1>4, <2>1, <3>1, <3>3
  <2> QED BY <1>1, <1>6, <2>2 DEF Complete
<1>7. CASE hostMap[n] # None
  <2>1. n \in Known /\ hostMap[n] \in Host
    BY <1>7, KnownHosts DEF Known
  <2>2. PICK q \in 1 .. N : order[q] = n
    BY <1>3, <2>1
  <2>3. q + 1 \in LinesOf(f, n)
    BY <1>2, <1>5, <2>2
  <2>4. GroupsOf(f, LinesOf(f, n)) = hostMap[n].groups
    <3>1. ASSUME NEW i \in LinesOf(f, n), NEW j \in HeaderOf(f, i), f[j].name \notin {"", "all"}
          PROVE  f[j].name \in hostMap[n].groups
      <4>1. ASSUME NEW p \in 1 .. N, i = p + 1 PROVE FALSE
        <5>1. j = 1
          BY <1>2, <4>1
        <5>2. f[1].name = "all"
          BY <1>2 DEF SectionLine
        <5> QED BY <3>1, <5>1, <5>2
      <4> QED BY <1>2, <1>4, <1>5, <4>1, ZenonT(30)
    <3>2. ASSUME NEW g \in hostMap[n].groups
          PROVE  \E i \in LinesOf(f, n) : \E j \in HeaderOf(f, i) : f[j].name = g
      BY <1>4, <2>1
    <3>3. \A g \in hostMap[n].groups : g \notin {"", "all"}
      BY <2>1, GroupsAssumption DEF Host
    <3>4. \A x : x \in GroupsOf(f, LinesOf(f, n)) <=>
            x \notin {"", "all"} /\ \E i \in LinesOf(f, n) : \E j \in HeaderOf(f, i) : f[j].name = x
      BY DEF GroupsOf
    <3>5. ASSUME NEW x \in GroupsOf(f, LinesOf(f, n)) PROVE x \in hostMap[n].groups
      <4>1. x \notin {"", "all"} /\ \E i \in LinesOf(f, n) : \E j \in HeaderOf(f, i) : f[j].name = x
        BY <3>4
      <4>2. PICK i \in LinesOf(f, n) : \E j \in HeaderOf(f, i) : f[j].name = x
        BY <4>1
      <4>3. PICK j \in HeaderOf(f, i) : f[j].name = x
        BY <4>2
      <4> QED BY <3>1, <4>1, <4>3
    <3>6. \A x \in hostMap[n].groups : x \in GroupsOf(f, LinesOf(f, n))
      BY <3>2, <3>3, <3>4
    <3> QED BY <3>5, <3>6
  <2>5. PICK keys \in Orders(Defined(n)) : f[q + 1] = HostLine(n, HostFields(n, keys))
    BY <1>1, <2>2 DEF AllInv
  <2>6. f[q + 1].fields = HostFields(n, keys)
    BY <2>5 DEF HostLine
  <2>7. ASSUME NEW i \in LinesOf(f, n), i # q + 1 PROVE f[i].fields = <<>>
    <3>1. ASSUME NEW p \in 1 .. N, i = p + 1 PROVE FALSE
      <4>1. order[p] = n
        BY <1>2, <1>5, <3>1
      <4> QED BY <1>3, <2>2, <2>7, <3>1, <4>1
    <3> QED BY <1>2, <1>4, <1>5, <3>1
  <2>8. ASSUME NEW k \in Keys
        PROVE  Holds(f, FieldsOf(f, n, k),
                     IF k = "ansible_host" /\ hostMap[n].vars[k] = None THEN n ELSE hostMap[n].vars[k])
    <3>1. ASSUME NEW m, NEW p, <<m, p>> \in FieldsOf(f, n, k)
          PROVE  m = q + 1 /\ p \in 1 .. Len(f[q + 1].fields) /\ f[q + 1].fields[p][1] = k
      <4>1. m \in LinesOf(f, n) /\ p \in 1 .. Len(f[m].fields) /\ f[m].fields[p][1] = k
        BY <3>1, FieldsElement
      <4>2. m = q + 1
        <5> SUFFICES ASSUME m # q + 1 PROVE FALSE
          OBVIOUS
        <5>1. f[m].fields = <<>>
          BY <2>7, <4>1
        <5>2. 1 .. Len(f[m].fields) = {}
          BY <5>1
        <5> QED BY <4>1, <5>2
      <4> QED BY <4>1, <4>2
    <3>2. \A m, p : m = q + 1 /\ p \in 1 .. Len(f[q + 1].fields) /\ f[q + 1].fields[p][1] = k
                      => <<m, p>> \in FieldsOf(f, n, k)
      BY <2>3, FieldsElement
    <3>3. \A m, p : <<m, p>> \in FieldsOf(f, n, k) <=>
                      m = q + 1 /\ p \in 1 .. Len(f[q + 1].fields) /\ f[q + 1].fields[p][1] = k
      BY <3>1, <3>2
    <3> QED BY <2>1, <2>6, <3>3, FieldsWritten
  <2>9. /\ Addressed(n).groups = hostMap[n].groups /\ Addressed(n) \in Host
        /\ \A k \in Keys : Addressed(n).vars[k] =
             IF k = "ansible_host" /\ hostMap[n].vars[k] = None THEN n ELSE hostMap[n].vars[k]
    BY <2>1, FieldsAssumption DEF Addressed, Host
  <2>10. Addressed(n) # None
    BY <2>9, NoneAssumption
  <2>11. Complete(f, n, Addressed(n))
    BY <2>3, <2>4, <2>8, <2>9, <2>10 DEF Complete
  <2> QED BY <1>1, <1>7, <2>11
<1> QED BY <1>6, <1>7

\* What is written depends on the hosts and the file only.
LEMMA WriteKept ==
  ASSUME UNCHANGED <<hostMap, order, groups, written>>, AllInv, GroupInv
  PROVE  (AllInv /\ GroupInv)'
<1>1. Known' = Known
  BY DEF Known
<1>2. ASSUME NEW i \in 1 .. Len(order)
      PROVE  \E ks \in Orders((Defined(order[i]))') :
               written[i + 1] = HostLine(order[i], (HostFields(order[i], ks))')
  <2>1. PICK ks \in Orders(Defined(order[i])) :
          written[i + 1] = HostLine(order[i], HostFields(order[i], ks))
    BY DEF AllInv
  <2>2. (Defined(order[i]))' = Defined(order[i]) /\ (HostFields(order[i], ks))' = HostFields(order[i], ks)
    BY DEF Defined, HostFields
  <2> QED BY <2>1, <2>2
<1>3. AllInv'
  BY <1>1, <1>2 DEF AllInv
<1>4. GroupInv'
  BY <1>1 DEF GroupInv
<1> QED BY <1>3, <1>4

\* Every step keeps what WriteInventory has written.
LEMMA StepWrites ==
  ASSUME TypeOK, WriteInv, [Next]_vars
  PROVE  WriteInv'
<1>1. CASE \/ \E line \in Line : SkipLine(line) \/ Section(line) \/ HostEntry(line) \/ ScannerError(line)
           \/ AssignField \/ AssignGroup \/ EndOfFile
  <2>1. phase' \notin {"groups", "written"}
    BY <1>1 DEF SkipLine, Section, HostEntry, ScannerError, AssignField, AssignGroup, EndOfFile, ReadLine
  <2> QED BY <2>1 DEF WriteInv
<1>2. CASE WriteHosts
  <2>1. phase' = "groups"
    BY <1>2 DEF WriteHosts
  <2> QED BY <1>2, <2>1, HostsWritten DEF WriteInv
<1>3. CASE \E g \in groups : WriteGroup(g)
  <2>1. PICK g \in groups : WriteGroup(g)
    BY <1>3
  <2>2. phase = "groups" /\ phase' = "groups"
    BY <2>1 DEF WriteGroup
  <2>3. AllInv /\ GroupInv
    BY <2>2 DEF WriteInv
  <2> QED BY <2>1, <2>2, <2>3, GroupWritten DEF WriteInv
<1>4. CASE WriteFile
  <2>1. UNCHANGED <<hostMap, order, groups, written>> /\ phase = "groups" /\ groups = {}
    BY <1>4 DEF WriteFile, parseVars, writeVars
  <2>2. (AllInv /\ GroupInv)'
    BY <2>1, WriteKept DEF WriteInv
  <2> QED BY <2>1, <2>2 DEF WriteInv
<1>5. CASE UNCHANGED vars
  <2>1. UNCHANGED <<hostMap, order, groups, written, phase>>
    BY <1>5 DEF vars, parseVars, writeVars
  <2> QED BY <2>1, WriteKept DEF WriteInv
<1> QED BY <1>1, <1>2, <1>3, <1>4, <1>5 DEF Next

\* For every inventory, whatever the order of its lists and maps, the file ansible-playbook is
\* given means the hosts of the payload, each with an address.
THEOREM WrittenCorrect == Spec => []WrittenReadsBack
<1>1. Init => WriteInv
  BY DEF Init, WriteInv
<1>2. TypeOK /\ WriteInv /\ [Next]_vars => WriteInv'
  BY StepWrites
<1>3. TypeOK /\ WriteInv => WrittenReadsBack
  <2> SUFFICES ASSUME TypeOK, AllInv, GroupInv, groups = {}, NEW n \in Names
               PROVE  Meaning(written, n) =
                        IF hostMap[n] = None THEN None
                        ELSE [hostMap[n] EXCEPT !.vars["ansible_host"] = IF @ = None THEN n ELSE @]
    BY DEF WriteInv, WrittenReadsBack
  <2> DEFINE h == IF hostMap[n] = None THEN None ELSE Addressed(n)
  <2>1. Complete(written, n, h)
    BY WrittenMeans
  <2>2. h \in Host \cup {None}
    <3>1. CASE hostMap[n] = None
      BY <3>1
    <3>2. CASE hostMap[n] # None
      <4>1. hostMap[n] \in Host
        BY <3>2 DEF TypeOK
      <4> QED BY <3>2, <4>1, FieldsAssumption DEF Addressed, Host
    <3> QED BY <3>1, <3>2
  <2>3. h = Meaning(written, n)
    BY <2>1, <2>2, CompleteIsMeaning
  <2> QED BY <2>3 DEF Addressed
<1> QED BY <1>1, <1>2, <1>3, TypeCorrect, PTL DEF Spec

\* From the project's file to the playbook's: what ansible-playbook is told of a host is what the
\* file in the repository means, and an address when the file gives none.
SourceReachesPlaybook ==
  phase = "written" => \A n \in Names :
    LET source == Meaning(text, n)
    IN Meaning(written, n) =
         IF source = None THEN None
         ELSE [source EXCEPT !.vars["ansible_host"] = IF @ = None THEN n ELSE @]

\* The parser and WriteInventory together carry every inventory over unchanged, whatever is
\* merged, skipped or overridden in it and in whatever order it is written.
THEOREM RoundTrip == Spec => []SourceReachesPlaybook
<1>1. ParserIsRight /\ WrittenReadsBack => SourceReachesPlaybook
  BY DEF ParserIsRight, WrittenReadsBack, SourceReachesPlaybook
<1> QED BY <1>1, ParserCorrect, WrittenCorrect, PTL

=============================================================================
