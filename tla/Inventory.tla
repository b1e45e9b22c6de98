----------------------------- MODULE Inventory -----------------------------
(***************************************************************************)
(* Inventory files.  parseINIInventory reads the project's file line by    *)
(* line, and a host line field by field, into hosts; WriteInventory writes *)
(* the hosts of a payload into the file ansible-playbook is given.         *)
(*                                                                         *)
(* A line is what the trimmed text amounts to: blank or comment ("skip"),  *)
(* a section header (qualified: its name has a colon), a host with its     *)
(* key=value fields in order, or a line too long for the scanner.  Fields  *)
(* without "=" after their first character are left out: both sides ignore *)
(* them.                                                                   *)
(*                                                                         *)
(*   phase  "scan" at the head of the loop, "fields" on a host line;       *)
(*          "error", "parsed" the returns of parseINIInventory;            *)
(*          "groups" WriteInventory has written [all], "written"           *)
(***************************************************************************)
EXTENDS Naturals, Sequences, FiniteSets, Functions

CONSTANTS Names,        \* host names
          GroupNames,   \* section names other than all and the empty one
          Fields,       \* the lists of <<key, value>> a host line may carry
          Keys, Values,
          MaxLines,     \* bound on the file
          None

Sections == GroupNames \cup {"all", ""}
Line == [kind : {"skip", "long"}]
        \cup [kind : {"section"}, name : Sections, qualified : BOOLEAN]
        \cup [kind : {"host"}, name : Names, fields : Fields]
Host == [groups : SUBSET GroupNames, vars : [Keys -> Values \cup {None}]]

ASSUME FieldsAssumption ==
  "ansible_host" \in Keys /\ Names \subseteq Values /\ Fields \subseteq Seq(Keys \X Values)
ASSUME GroupsAssumption == "all" \notin GroupNames /\ "" \notin GroupNames
ASSUME FiniteAssumption == IsFiniteSet(Names) /\ IsFiniteSet(Keys)
ASSUME NoneAssumption == None \notin Host /\ None \notin Values

VARIABLES text,          \* lines scanned so far
          hostMap,       \* per name: a host, or None when the map does not hold it
          currentGroup, skipSection,
          pos,           \* fields assigned of the host line at hand
          phase,
          order,         \* the hosts of the payload, in the order of its list
          groups,        \* groups WriteInventory has still to write
          written        \* the file so far

parseVars == <<text, hostMap, currentGroup, skipSection, pos>>
writeVars == <<order, groups, written>>
vars == <<parseVars, phase, writeVars>>

TypeOK ==
  /\ text \in Seq(Line)
  /\ hostMap \in [Names -> Host \cup {None}]
  /\ currentGroup \in Sections /\ skipSection \in BOOLEAN /\ pos \in Nat
  /\ phase \in {"scan", "fields", "error", "parsed", "groups", "written"}
  /\ order \in Seq(Names) /\ groups \subseteq GroupNames

Init ==
  /\ text = <<>> /\ hostMap = [n \in Names |-> None]
  /\ currentGroup = "" /\ skipSection = FALSE /\ pos = 0
  /\ phase = "scan"
  /\ order = <<>> /\ groups = {} /\ written = <<>>

-----------------------------------------------------------------------------
(* parseINIInventory *)

NewHost == [groups |-> {}, vars |-> [k \in Keys |-> None]]
Current == text[Len(text)]

ReadLine(line) ==
  /\ phase = "scan" /\ Len(text) < MaxLines
  /\ text' = Append(text, line)

\* A blank line, a comment, or a host of a skipped section.
SkipLine(line) ==
  /\ ReadLine(line)
  /\ line.kind = "skip" \/ (line.kind = "host" /\ skipSection)
  /\ UNCHANGED <<hostMap, currentGroup, skipSection, pos, phase, writeVars>>

\* Mutant: a qualified section does not start the skipping of its lines.
SectionNoSkip(line) ==
  /\ ReadLine(line) /\ line.kind = "section"
  /\ currentGroup' = (IF line.qualified THEN "" ELSE line.name)
  /\ skipSection' = FALSE
  /\ UNCHANGED <<hostMap, pos, phase, writeVars>>

Section(line) ==
  /\ ReadLine(line) /\ line.kind = "section"
  /\ currentGroup' = (IF line.qualified THEN "" ELSE line.name)
  /\ skipSection' = line.qualified
  /\ UNCHANGED <<hostMap, pos, phase, writeVars>>

\* A host entry: the map has a host for the name from here on.
HostEntry(line) ==
  /\ ReadLine(line) /\ line.kind = "host" /\ ~skipSection
  /\ hostMap' = [hostMap EXCEPT ![line.name] = IF @ = None THEN NewHost ELSE @]
  /\ phase' = "fields" /\ pos' = 0
  /\ UNCHANGED <<currentGroup, skipSection, writeVars>>

AssignField ==
  /\ phase = "fields" /\ pos < Len(Current.fields)
  /\ LET kv == Current.fields[pos + 1]
     IN hostMap' = [hostMap EXCEPT ![Current.name].vars[kv[1]] = kv[2]]
  /\ pos' = pos + 1
  /\ UNCHANGED <<text, currentGroup, skipSection, phase, writeVars>>

\* Mutant: all is a group like any other.
AssignGroupAll ==
  /\ phase = "fields" /\ pos = Len(Current.fields)
  /\ hostMap' = [hostMap EXCEPT ![Current.name].groups = @ \cup ({currentGroup} \ {""})]
  /\ phase' = "scan"
  /\ UNCHANGED <<text, currentGroup, skipSection, pos, writeVars>>

\* The group of the section is added once, and never all.
AssignGroup ==
  /\ phase = "fields" /\ pos = Len(Current.fields)
  /\ hostMap' = [hostMap EXCEPT ![Current.name].groups = @ \cup ({currentGroup} \ {"", "all"})]
  /\ phase' = "scan"
  /\ UNCHANGED <<text, currentGroup, skipSection, pos, writeVars>>

ScannerError(line) ==
  /\ phase = "scan" /\ Len(text) < MaxLines /\ line.kind = "long"
  /\ phase' = "error"
  /\ UNCHANGED <<parseVars, writeVars>>

EndOfFile ==
  /\ phase = "scan"
  /\ phase' = "parsed"
  /\ UNCHANGED <<parseVars, writeVars>>

-----------------------------------------------------------------------------
(* WriteInventory: hosts come in any order, and so do keys and groups. *)

Known == {n \in Names : hostMap[n] # None}
InGroup(g) == {n \in Known : g \in hostMap[n].groups}
Orders(S) == Bijection(1 .. Cardinality(S), S)
SectionLine(g) == [kind |-> "section", name |-> g, qualified |-> FALSE]
HostLine(n, fields) == [kind |-> "host", name |-> n, fields |-> fields]
Defined(n) == {k \in Keys : hostMap[n].vars[k] # None}

\* Mutant: the address of the host is written last.
HostFieldsAddressLast(n, keys) ==
  [i \in 1 .. Len(keys) |-> <<keys[i], hostMap[n].vars[keys[i]]>>] \o <<<<"ansible_host", n>>>>

\* The fields of a host under [all]: ansible_host first, then its variables.
HostFields(n, keys) ==
  <<<<"ansible_host", n>>>> \o [i \in 1 .. Len(keys) |-> <<keys[i], hostMap[n].vars[keys[i]]>>]

WriteHosts ==
  /\ phase = "parsed"
  /\ order' \in Orders(Known)
  /\ \E keys \in {ks \in [Known -> UNION {Orders(Defined(n)) : n \in Known}] :
                    \A n \in Known : ks[n] \in Orders(Defined(n))} :
       written' = <<SectionLine("all")>>
                  \o [i \in 1 .. Len(order') |-> HostLine(order'[i], HostFields(order'[i], keys[order'[i]]))]
  /\ groups' = UNION {hostMap[n].groups : n \in Known}
  /\ phase' = "groups"
  /\ UNCHANGED parseVars

\* The members of a group come in the order of the list.
InListOrder(members) ==
  \A i, j \in DOMAIN members : i < j =>
    \E a, b \in DOMAIN order : a < b /\ order[a] = members[i] /\ order[b] = members[j]

WriteGroup(g) ==
  /\ phase = "groups" /\ g \in groups
  /\ \E members \in Orders(InGroup(g)) :
       /\ InListOrder(members)
       /\ written' = written \o <<SectionLine(g)>>
                     \o [i \in 1 .. Len(members) |-> HostLine(members[i], <<>>)]
  /\ groups' = groups \ {g}
  /\ UNCHANGED <<parseVars, phase, order>>

WriteFile ==
  /\ phase = "groups" /\ groups = {}
  /\ phase' = "written"
  /\ UNCHANGED <<parseVars, writeVars>>

Next ==
  \/ \E line \in Line : SkipLine(line) \/ Section(line) \/ HostEntry(line) \/ ScannerError(line)
  \/ AssignField \/ AssignGroup \/ EndOfFile
  \/ WriteHosts \/ (\E g \in groups : WriteGroup(g)) \/ WriteFile

Spec == Init /\ [][Next]_vars

-----------------------------------------------------------------------------
(* Properties. *)

\* What a file means, without reading it in order: a line is governed by the last header
\* before it; a host is in the groups whose headers govern one of its lines, and a variable
\* has the value of the last field that names it.
HeaderOf(f, i) == {j \in 1 .. i : f[j].kind = "section" /\ \A k \in j + 1 .. i : f[k].kind # "section"}
LinesOf(f, n) ==
  {i \in 1 .. Len(f) : f[i].kind = "host" /\ f[i].name = n /\ \A j \in HeaderOf(f, i) : ~f[j].qualified}
FieldsOf(f, n, k) ==
  {a \in UNION {{i} \X (1 .. Len(f[i].fields)) : i \in LinesOf(f, n)} : f[a[1]].fields[a[2]][1] = k}
NotAfter(b, a) == b[1] < a[1] \/ (b[1] = a[1] /\ b[2] <= a[2])
Latest(ps) == CHOOSE a \in ps : \A b \in ps : NotAfter(b, a)
ValueAt(f, a) == f[a[1]].fields[a[2]][2]
ValueOf(f, n, k) ==
  LET ps == FieldsOf(f, n, k) IN IF ps = {} THEN None ELSE ValueAt(f, Latest(ps))
GroupsOf(f, is) == {f[j].name : j \in UNION {HeaderOf(f, i) : i \in is}} \ {"", "all"}
Meaning(f, n) ==
  IF LinesOf(f, n) = {} THEN None
  ELSE [groups |-> GroupsOf(f, LinesOf(f, n)), vars |-> [k \in Keys |-> ValueOf(f, n, k)]]

\* The loop of parseINIInventory, with its current group and its skipped sections, holds
\* after every line what the lines so far mean: repeated hosts are merged, sections with a
\* colon contribute nothing and later values win.
ParserIsRight == phase # "fields" => \A n \in Names : hostMap[n] = Meaning(text, n)

\* The file WriteInventory gives the playbook means the hosts it was made from, in whatever
\* order maps and rows come, each with an ansible_host: its own if it has one, else its name.
WrittenReadsBack ==
  phase = "written" => \A n \in Names :
    Meaning(written, n) =
      IF hostMap[n] = None THEN None
      ELSE [hostMap[n] EXCEPT !.vars["ansible_host"] = IF @ = None THEN n ELSE @]

=============================================================================
