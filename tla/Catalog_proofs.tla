--------------------------- MODULE Catalog_proofs ---------------------------
(***************************************************************************)
(* What holds of the catalogue and of the payloads for any number of rows, *)
(* controllers and requests.  A payload is read in pieces; what makes the  *)
(* pieces fit is that a job holds on to its template, the template to its  *)
(* project, and that no update moves a template to another project         *)
(* (ReadingInv).                                                           *)
(***************************************************************************)
EXTENDS Catalog, TLAPS

\* The histories know what the tables hold.
HistoryInv ==
  /\ \A k \in CredIds : credentials[k] # None => credentials[k].text \in secretsOf[k]
  /\ \A t \in TemplateIds : templates[t] # None => templates[t] \in rowsOf[t]

\* What dispatchOne has read so far belongs to its job.
HasTemplate(c) == pc[c] \in {"project", "resolve", "merge"}
ReadingInv ==
  \A c \in Controllers :
    /\ pc[c] # "idle" => cur[c] \in JobIds /\ jobs[cur[c]] # None
    /\ HasTemplate(c) =>
         /\ tmpl[c] # None /\ tmpl[c] \in rowsOf[jobs[cur[c]].template]
         /\ tmpl[c].project = templates[jobs[cur[c]].template].project
    /\ pc[c] \in {"resolve", "merge"} => proj[c] # None
    /\ pc[c] = "merge" => IF tmpl[c].cred = None THEN secret[c] = None
                          ELSE secret[c] \in secretsOf[tmpl[c].cred]

\* A payload belongs to a job that exists.
SentInv == \A j \in JobIds : sent[j] # None => jobs[j] # None

IInv ==
  /\ TypeOK
  /\ ReferencesExist
  /\ HistoryInv
  /\ ReadingInv
  /\ SentInv
  /\ NothingMissing
  /\ PayloadIsCoherent

-----------------------------------------------------------------------------
(* Requests to the API. *)

\* What a request may do to rows a dispatch has read: histories grow, and a template
\* some job refers to stays, with its project.
Monotone ==
  /\ \A t \in TemplateIds : rowsOf[t] \subseteq rowsOf'[t]
  /\ \A k \in CredIds : secretsOf[k] \subseteq secretsOf'[k]
  /\ \A j \in JobIds : jobs[j] # None =>
       /\ templates'[jobs[j].template] # None
       /\ templates'[jobs[j].template].project = templates[jobs[j].template].project

\* Requests that leave jobs and dispatches alone keep what has been read and sent.
LEMMA MonotoneKeeps ==
  ASSUME IInv, Monotone, UNCHANGED <<jobs, buildVars>>
  PROVE  ReadingInv' /\ SentInv' /\ NothingMissing' /\ PayloadIsCoherent'
<1> USE NoneAssumption
<1>1. ReadingInv'
  <2> SUFFICES ASSUME NEW c \in Controllers
               PROVE  /\ pc[c] # "idle" => cur[c] \in JobIds /\ jobs[cur[c]] # None
                      /\ HasTemplate(c) =>
                           /\ tmpl[c] # None /\ tmpl[c] \in rowsOf'[jobs[cur[c]].template]
                           /\ tmpl[c].project = templates'[jobs[cur[c]].template].project
                      /\ pc[c] \in {"resolve", "merge"} => proj[c] # None
                      /\ pc[c] = "merge" => IF tmpl[c].cred = None THEN secret[c] = None
                                            ELSE secret[c] \in secretsOf'[tmpl[c].cred]
    BY DEF ReadingInv, HasTemplate, buildVars
  <2>1. pc[c] # "idle" => cur[c] \in JobIds /\ jobs[cur[c]] # None /\ jobs[cur[c]].template \in TemplateIds
    BY DEF IInv, ReadingInv, TypeOK, Job
  <2>2. HasTemplate(c) => tmpl[c] \in Template /\ pc[c] # "idle"
    BY DEF IInv, ReadingInv, HasTemplate, TypeOK
  <2>3. HasTemplate(c) /\ tmpl[c].cred # None => tmpl[c].cred \in CredIds
    BY <2>2 DEF Template
  <2> QED BY <2>1, <2>2, <2>3 DEF IInv, ReadingInv, HasTemplate, Monotone
<1>2. SentInv' /\ NothingMissing'
  BY DEF IInv, SentInv, NothingMissing, buildVars
<1>3. PayloadIsCoherent'
  <2> SUFFICES ASSUME NEW j \in JobIds, sent[j] # None
               PROVE  \E row \in rowsOf'[jobs[j].template] :
                        /\ sent[j].play = row.play
                        /\ \A k \in Keys : sent[j].vars[k] =
                             IF jobs[j].vars[k] # None THEN jobs[j].vars[k] ELSE row.vars[k]
                        /\ IF row.cred = None THEN sent[j].secret = None
                           ELSE sent[j].secret \in secretsOf'[row.cred]
    BY DEF PayloadIsCoherent, buildVars
  <2>1. jobs[j] # None /\ jobs[j].template \in TemplateIds
    BY DEF IInv, SentInv, TypeOK, Job
  <2>2. PICK row \in rowsOf[jobs[j].template] :
                        /\ sent[j].play = row.play
                        /\ \A k \in Keys : sent[j].vars[k] =
                             IF jobs[j].vars[k] # None THEN jobs[j].vars[k] ELSE row.vars[k]
                        /\ IF row.cred = None THEN sent[j].secret = None
                           ELSE sent[j].secret \in secretsOf[row.cred]
    BY DEF IInv, PayloadIsCoherent
  <2>3. row \in rowsOf'[jobs[j].template]
    BY <2>1, <2>2 DEF Monotone
  <2>4. row \in Template
    BY <2>1, <2>2 DEF IInv, TypeOK
  <2>5. row.cred # None => row.cred \in CredIds
    BY <2>4 DEF Template
  <2> QED BY <2>2, <2>3, <2>5 DEF Monotone
<1> QED BY <1>1, <1>2, <1>3

\* What a project and a template become when a credential is deleted.
LEMMA ProjectWithoutCred ==
  ASSUME NEW row \in Project \cup {None}, NEW k \in CredIds
  PROVE  /\ WithoutCred(row, k) \in Project \cup {None}
         /\ (WithoutCred(row, k) = None) <=> (row = None)
         /\ row # None => WithoutCred(row, k).cred \in {row.cred, None} \ {k}
<1>1. CASE row \in Project
  <2>1. WithoutCred(row, k) \in Project
    BY <1>1, NoneAssumption DEF WithoutCred, Project
  <2>2. WithoutCred(row, k).cred \in {row.cred, None} \ {k}
    BY <1>1, NoneAssumption DEF WithoutCred, Project
  <2> QED BY <1>1, <2>1, <2>2, NoneAssumption
<1>2. CASE row = None
  BY <1>2 DEF WithoutCred
<1> QED BY <1>1, <1>2

\* The same of a template, which keeps its project.
LEMMA TemplateWithoutCred ==
  ASSUME NEW row \in Template \cup {None}, NEW k \in CredIds
  PROVE  /\ WithoutCred(row, k) \in Template \cup {None}
         /\ (WithoutCred(row, k) = None) <=> (row = None)
         /\ row # None => /\ WithoutCred(row, k).cred \in {row.cred, None} \ {k}
                          /\ WithoutCred(row, k).project = row.project
<1>1. CASE row \in Template
  <2>1. WithoutCred(row, k) \in Template
    BY <1>1, NoneAssumption DEF WithoutCred, Template
  <2>2. /\ WithoutCred(row, k).cred \in {row.cred, None} \ {k}
        /\ WithoutCred(row, k).project = row.project
    BY <1>1, NoneAssumption DEF WithoutCred, Template
  <2> QED BY <1>1, <2>1, <2>2, NoneAssumption
<1>2. CASE row = None
  BY <1>2 DEF WithoutCred
<1> QED BY <1>1, <1>2

\* What a request has to keep besides the types: the rest follows by MonotoneKeeps.
LEMMA RequestKeeps ==
  ASSUME IInv, Edit, TypeOK', ReferencesExist', HistoryInv', Monotone
  PROVE  IInv'
  BY MonotoneKeeps DEF IInv, Edit

\* Storing a credential keeps the invariant.
LEMMA PutCredentialInv ==
  ASSUME IInv, NEW k \in CredIds, NEW text \in Secrets, PutCredential(k, text)
  PROVE  IInv'
<1> USE NoneAssumption DEF PutCredential
<1> DEFINE cipher == [key |-> ApiKey, text |-> text]
<1>0. TypeOK /\ ReferencesExist /\ HistoryInv
  BY DEF IInv
<1>1. cipher \in Cipher /\ cipher # None /\ cipher.text = text
  BY DEF Cipher
<1>2. credentials' = [credentials EXCEPT ![k] = cipher]
  OBVIOUS
<1> HIDE DEF cipher
<1>3. TypeOK'
  BY <1>0, <1>1, <1>2 DEF TypeOK, Edit, buildVars
<1>4. ReferencesExist'
  BY <1>0, <1>1, <1>2 DEF TypeOK, ReferencesExist, Refers, Edit
<1>5. HistoryInv'
  BY <1>0, <1>1, <1>2 DEF TypeOK, HistoryInv
<1>6. Monotone
  BY <1>0 DEF TypeOK, Monotone, ReferencesExist
<1> QED BY <1>3, <1>4, <1>5, <1>6, RequestKeeps

\* Deleting a credential clears the references to it and so keeps the invariant.
LEMMA DeleteCredentialInv ==
  ASSUME IInv, NEW k \in CredIds, DeleteCredential(k)
  PROVE  IInv'
<1> USE NoneAssumption DEF DeleteCredential
<1>0. TypeOK /\ ReferencesExist /\ HistoryInv
  BY DEF IInv
<1>1. ASSUME NEW p \in ProjectIds
      PROVE  /\ projects'[p] \in Project \cup {None}
             /\ (projects'[p] = None) <=> (projects[p] = None)
             /\ projects[p] # None => projects'[p].cred \in {projects[p].cred, None} \ {k}
  <2>1. projects[p] \in Project \cup {None} /\ projects'[p] = WithoutCred(projects[p], k)
    BY <1>0 DEF TypeOK
  <2> QED BY <2>1, ProjectWithoutCred
<1>2. ASSUME NEW t \in TemplateIds
      PROVE  /\ templates'[t] \in Template \cup {None}
             /\ (templates'[t] = None) <=> (templates[t] = None)
             /\ templates[t] # None => /\ templates'[t].cred \in {templates[t].cred, None} \ {k}
                                       /\ templates'[t].project = templates[t].project
  <2>1. templates[t] \in Template \cup {None} /\ templates'[t] = WithoutCred(templates[t], k)
    BY <1>0 DEF TypeOK
  <2> QED BY <2>1, TemplateWithoutCred
<1>3. \A t \in TemplateIds : rowsOf'[t] = rowsOf[t] \cup ({templates'[t]} \ {None})
  OBVIOUS
<1>4. TypeOK'
  <2>1. projects' \in [ProjectIds -> Project \cup {None}]
    BY <1>1
  <2>2. templates' \in [TemplateIds -> Template \cup {None}]
    BY <1>2
  <2>3. rowsOf' \in [TemplateIds -> SUBSET Template]
    BY <1>0, <1>2, <1>3 DEF TypeOK
  <2> QED BY <1>0, <2>1, <2>2, <2>3 DEF TypeOK, Edit, buildVars
<1>5. ReferencesExist'
  <2>1. \A x : Refers(x) /\ x # k /\ x # None => credentials'[x] # None
    BY <1>0 DEF Refers, TypeOK
  <2>2. ASSUME NEW p \in ProjectIds, projects'[p] # None, projects'[p].cred # None
        PROVE  credentials'[projects'[p].cred] # None
    <3>1. projects'[p].cred = projects[p].cred /\ projects'[p].cred # k /\ Refers(projects[p].cred)
      BY <1>0, <1>1, <2>2 DEF ReferencesExist
    <3> QED BY <2>1, <2>2, <3>1
  <2>3. ASSUME NEW t \in TemplateIds, templates'[t] # None
        PROVE  projects'[templates'[t].project] # None
    <3>1. templates[t] \in Template /\ templates[t] # None
      BY <1>0, <1>2, <2>3 DEF TypeOK
    <3>2. templates[t].project \in ProjectIds
      BY <3>1 DEF Template
    <3> QED BY <1>0, <1>1, <1>2, <3>1, <3>2 DEF ReferencesExist
  <2>4. ASSUME NEW t \in TemplateIds, templates'[t] # None, templates'[t].cred # None
        PROVE  credentials'[templates'[t].cred] # None
    <3>1. templates'[t].cred = templates[t].cred /\ templates'[t].cred # k /\ Refers(templates[t].cred)
      BY <1>0, <1>2, <2>4 DEF ReferencesExist
    <3> QED BY <2>1, <2>4, <3>1
  <2>5. \A j \in JobIds : jobs'[j] # None => templates'[jobs'[j].template] # None
    <3> SUFFICES ASSUME NEW j \in JobIds, jobs[j] # None PROVE templates'[jobs[j].template] # None
      BY DEF Edit
    <3>1. jobs[j].template \in TemplateIds
      BY <1>0 DEF TypeOK, Job
    <3> QED BY <1>0, <1>2, <3>1 DEF ReferencesExist
  <2> QED BY <2>2, <2>3, <2>4, <2>5 DEF ReferencesExist, Refers
<1>6. HistoryInv'
  BY <1>0, <1>3 DEF TypeOK, HistoryInv
<1>7. Monotone
  <2>1. \A j \in JobIds : jobs[j] # None => jobs[j].template \in TemplateIds /\ templates[jobs[j].template] # None
    BY <1>0 DEF TypeOK, Job, ReferencesExist
  <2> QED BY <1>2, <1>3, <2>1 DEF Monotone
<1> QED BY <1>4, <1>5, <1>6, <1>7, RequestKeeps

\* Storing and deleting a project keep the invariant.
LEMMA ProjectInv ==
  ASSUME IInv, NEW p \in ProjectIds,
         DeleteProject(p) \/ \E repo \in Repos, c \in CredIds \cup {None} : PutProject(p, repo, c)
  PROVE  IInv'
<1> USE NoneAssumption
<1>0. TypeOK /\ ReferencesExist /\ HistoryInv
  BY DEF IInv
<1>1. /\ Edit
      /\ UNCHANGED <<credentials, templates, secretsOf, rowsOf>>
      /\ gone' \subseteq CredIds \cup ProjectIds \cup TemplateIds
  BY <1>0 DEF DeleteProject, PutProject, TypeOK
<1>2. Monotone
  BY <1>0, <1>1 DEF Monotone, ReferencesExist
<1>3. HistoryInv'
  BY <1>0, <1>1 DEF HistoryInv
<1>4. CASE DeleteProject(p)
  <2>1. TypeOK'
    BY <1>0, <1>1, <1>4 DEF DeleteProject, TypeOK, Edit, buildVars
  <2>2. ReferencesExist'
    BY <1>0, <1>1, <1>4 DEF DeleteProject, TypeOK, ReferencesExist, Refers, Edit
  <2> QED BY <1>1, <1>2, <1>3, <2>1, <2>2, RequestKeeps
<1>5. ASSUME NEW repo \in Repos, NEW c \in CredIds \cup {None}, PutProject(p, repo, c)
      PROVE  IInv'
  <2> DEFINE row == [repo |-> repo, cred |-> c]
  <2>1. row \in Project /\ row # None /\ row.cred = c
    BY DEF Project
  <2>2. projects' = [projects EXCEPT ![p] = row] /\ Refers(c)
    BY <1>5 DEF PutProject
  <2> HIDE DEF row
  <2>3. TypeOK'
    BY <1>0, <1>1, <2>1, <2>2 DEF TypeOK, Edit, buildVars
  <2>4. ReferencesExist'
    BY <1>0, <1>1, <2>1, <2>2 DEF TypeOK, ReferencesExist, Refers, Edit
  <2> QED BY <1>1, <1>2, <1>3, <2>3, <2>4, RequestKeeps
<1> QED BY <1>4, <1>5

\* Creating, updating and deleting a template keep the invariant: an update stays in its
\* project, and a template some job refers to is not deleted.
LEMMA TemplateInv ==
  ASSUME IInv, NEW t \in TemplateIds,
         \/ DeleteJobTemplate(t)
         \/ \E row \in Template : CreateJobTemplate(t, row) \/ UpdateJobTemplate(t, row)
  PROVE  IInv'
<1> USE NoneAssumption
<1>0. TypeOK /\ ReferencesExist /\ HistoryInv
  BY DEF IInv
<1>1. \A j \in JobIds : jobs[j] # None => jobs[j].template \in TemplateIds /\ templates[jobs[j].template] # None
  BY <1>0 DEF TypeOK, Job, ReferencesExist
<1>2. CASE DeleteJobTemplate(t)
  <2> USE <1>2 DEF DeleteJobTemplate
  <2>1. TypeOK'
    BY <1>0 DEF TypeOK, Edit, buildVars
  <2>2. ReferencesExist'
    BY <1>0, <1>1 DEF TypeOK, ReferencesExist, Refers, Edit
  <2>3. HistoryInv'
    BY <1>0 DEF TypeOK, HistoryInv
  <2>4. Monotone
    BY <1>0, <1>1 DEF TypeOK, Monotone
  <2> QED BY <2>1, <2>2, <2>3, <2>4, RequestKeeps
<1>3. ASSUME NEW row \in Template, CreateJobTemplate(t, row) \/ UpdateJobTemplate(t, row)
      PROVE  IInv'
  <2>0. StoreTemplate(t, row)
    BY <1>3 DEF CreateJobTemplate, UpdateJobTemplate
  <2>1. row # None /\ row.project \in ProjectIds /\ row.cred \in CredIds \cup {None}
    BY DEF Template
  <2>2. projects[row.project] # None /\ (templates[t] # None => row.project = templates[t].project)
    BY <1>0, <1>3 DEF CreateJobTemplate, UpdateJobTemplate, ReferencesExist
  <2>3. TypeOK'
    BY <1>0, <2>0 DEF StoreTemplate, TypeOK, Edit, buildVars
  <2>4. ReferencesExist'
    BY <1>0, <1>1, <2>0, <2>1, <2>2 DEF StoreTemplate, TypeOK, ReferencesExist, Refers, Edit
  <2>5. HistoryInv'
    BY <1>0, <2>0, <2>1 DEF StoreTemplate, TypeOK, HistoryInv
  <2>6. Monotone
    BY <1>0, <1>1, <2>0, <2>1, <2>2 DEF StoreTemplate, TypeOK, Monotone
  <2> QED BY <2>0, <2>3, <2>4, <2>5, <2>6, RequestKeeps DEF StoreTemplate
<1> QED BY <1>2, <1>3

\* The two statements of CreateJob keep the invariant: the INSERT refuses a template that
\* has been deleted since it was looked up.
LEMMA CreateJobInv ==
  ASSUME IInv, NEW t \in TemplateIds,
         FindTemplate(t) \/ \E j \in JobIds, vs \in Vars : InsertJob(t, j, vs)
  PROVE  IInv'
<1> USE NoneAssumption
<1>0. TypeOK /\ ReferencesExist /\ HistoryInv /\ ReadingInv /\ SentInv /\ NothingMissing /\ PayloadIsCoherent
  BY DEF IInv
<1>1. /\ UNCHANGED <<tables, key, buildVars>>
      /\ creating' \subseteq TemplateIds /\ edits' \in Nat
  BY <1>0 DEF FindTemplate, InsertJob, TypeOK
<1>2. /\ jobs' \in [JobIds -> Job \cup {None}]
      /\ \A j \in JobIds :
           \/ jobs'[j] = jobs[j]
           \/ jobs[j] = None /\ templates[jobs'[j].template] # None /\ jobs'[j].why = "none"
  <2>1. CASE FindTemplate(t)
    BY <1>0, <2>1 DEF FindTemplate, TypeOK
  <2>2. ASSUME NEW j \in JobIds, NEW vs \in Vars, InsertJob(t, j, vs)
        PROVE  <1>2!1 /\ <1>2!2
    <3> DEFINE new == [template |-> t, vars |-> vs, state |-> "pending", why |-> "none"]
    <3>1. new \in Job /\ new.template = t /\ new.why = "none"
      BY DEF Job
    <3>2. jobs' = jobs \/ (jobs[j] = None /\ templates[t] # None /\ jobs' = [jobs EXCEPT ![j] = new])
      BY <2>2 DEF InsertJob
    <3> HIDE DEF new
    <3> QED BY <1>0, <3>1, <3>2 DEF TypeOK
  <2> QED BY <2>1, <2>2
<1>3. TypeOK'
  BY <1>0, <1>1, <1>2 DEF TypeOK, tables, buildVars
<1>4. ReferencesExist' /\ HistoryInv' /\ NothingMissing'
  BY <1>0, <1>1, <1>2 DEF tables, ReferencesExist, Refers, HistoryInv, NothingMissing
<1>5. ReadingInv' /\ SentInv'
  BY <1>0, <1>1, <1>2 DEF tables, buildVars, ReadingInv, HasTemplate, SentInv, TypeOK
<1>6. PayloadIsCoherent'
  BY <1>0, <1>1, <1>2 DEF tables, buildVars, PayloadIsCoherent, SentInv
<1> QED BY <1>3, <1>4, <1>5, <1>6 DEF IInv

-----------------------------------------------------------------------------
(* buildPayload. *)

\* A dispatch that gives up, for any reason but a missing row, keeps the invariant.
LEMMA FailInv ==
  ASSUME IInv, NEW c \in Controllers, pc[c] # "idle",
         NEW why \in {"credential", "database"},
         Fail(c, why), UNCHANGED <<creating, key, edits>>
  PROVE  IInv'
<1> USE NoneAssumption
<1>0. TypeOK /\ ReferencesExist /\ HistoryInv /\ ReadingInv /\ SentInv /\ NothingMissing /\ PayloadIsCoherent
  BY DEF IInv
<1>1. cur[c] \in JobIds /\ jobs[cur[c]] \in Job
  BY <1>0 DEF ReadingInv, TypeOK
<1> DEFINE old == jobs[cur[c]]
           new == IF old.state = "pending" THEN [old EXCEPT !.state = "failed", !.why = why] ELSE old
<1>2. jobs' = [jobs EXCEPT ![cur[c]] = new] /\ Forget(c) /\ UNCHANGED <<tables, sent>>
  BY DEF Fail
<1>3. new \in Job /\ new # None /\ new.template = old.template /\ new.vars = old.vars
      /\ new.why \in {old.why, why}
  BY <1>1 DEF Job
<1> HIDE DEF new
<1>4. TypeOK'
  BY <1>0, <1>1, <1>2, <1>3 DEF TypeOK, Forget, Goto, tables
<1>5. \A j \in JobIds : /\ (jobs'[j] = None) <=> (jobs[j] = None)
                        /\ jobs[j] # None => jobs'[j].template = jobs[j].template /\ jobs'[j].vars = jobs[j].vars
                        /\ jobs'[j] # None => jobs'[j].why # "missing"
  BY <1>0, <1>1, <1>2, <1>3 DEF TypeOK, NothingMissing
<1>6. ReferencesExist' /\ HistoryInv' /\ NothingMissing' /\ SentInv'
  BY <1>0, <1>2, <1>5 DEF tables, ReferencesExist, Refers, HistoryInv, NothingMissing, SentInv
<1>7. ReadingInv'
  <2> SUFFICES ASSUME NEW d \in Controllers PROVE ReadingInv!(d)'
    BY DEF ReadingInv
  <2>1. CASE d = c
    BY <1>0, <1>2, <2>1 DEF Forget, Goto, TypeOK, HasTemplate
  <2>2. CASE d # c
    <3>1. pc'[d] = pc[d] /\ cur'[d] = cur[d] /\ tmpl'[d] = tmpl[d] /\ proj'[d] = proj[d] /\ secret'[d] = secret[d]
      BY <1>0, <1>2, <2>2 DEF Forget, Goto, TypeOK
    <3> QED BY <1>0, <1>2, <1>5, <3>1 DEF ReadingInv, HasTemplate, tables
  <2> QED BY <2>1, <2>2
<1>8. PayloadIsCoherent'
  BY <1>0, <1>2, <1>5 DEF PayloadIsCoherent, SentInv, tables
<1> QED BY <1>4, <1>6, <1>7, <1>8 DEF IInv

\* A read of dispatchOne, which changes nothing but what its controller has read, keeps the
\* invariant if it keeps what ReadingInv says of that controller.
LEMMA ReadInv ==
  ASSUME IInv, TypeOK', NEW c \in Controllers,
         UNCHANGED <<tables, jobs, sent, creating, key, edits>>,
         \A d \in Controllers \ {c} :
           /\ pc'[d] = pc[d] /\ cur'[d] = cur[d] /\ tmpl'[d] = tmpl[d]
           /\ proj'[d] = proj[d] /\ secret'[d] = secret[d],
         ReadingInv!(c)'
  PROVE  IInv'
<1>0. TypeOK /\ ReferencesExist /\ HistoryInv /\ ReadingInv /\ SentInv /\ NothingMissing /\ PayloadIsCoherent
  BY DEF IInv
<1>1. ReadingInv'
  BY <1>0 DEF ReadingInv, HasTemplate, tables
<1> QED
  BY <1>0, <1>1 DEF IInv, tables, ReferencesExist, Refers, HistoryInv, NothingMissing, SentInv,
     PayloadIsCoherent

\* Every step of buildPayload keeps the invariant; in particular the template and the
\* project of a job are always found.
LEMMA BuildInv ==
  ASSUME IInv, NEW c \in Controllers, BuildStep(c)
  PROVE  IInv'
<1> USE NoneAssumption
<1>0. TypeOK /\ ReferencesExist /\ HistoryInv /\ ReadingInv /\ SentInv /\ NothingMissing /\ PayloadIsCoherent
  BY DEF IInv
<1>u. UNCHANGED <<creating, key, edits>>
  BY DEF BuildStep
<1>1. ASSUME NEW j \in JobIds, TakeJob(c, j) PROVE IInv'
  <2> USE <1>1 DEF TakeJob, Goto
  <2>1. TypeOK'
    BY <1>0, <1>u DEF TypeOK, tables
  <2>2. ReadingInv!(c)'
    BY <1>0 DEF TypeOK, HasTemplate
  <2> QED BY <1>0, <1>u, <2>1, <2>2, ReadInv DEF TypeOK
<1>2. CASE GetJobTemplate(c)
  <2> DEFINE t == jobs[cur[c]].template
  <2>1. cur[c] \in JobIds /\ jobs[cur[c]] # None /\ t \in TemplateIds /\ templates[t] # None
    BY <1>0, <1>2 DEF GetJobTemplate, ReadingInv, TypeOK, Job, ReferencesExist
  <2>2. /\ tmpl' = [tmpl EXCEPT ![c] = templates[t]] /\ pc' = [pc EXCEPT ![c] = "project"]
        /\ UNCHANGED <<tables, jobs, cur, proj, secret, sent>>
    BY <1>2, <2>1 DEF GetJobTemplate, Goto
  <2>3. TypeOK'
    BY <1>0, <1>u, <2>1, <2>2 DEF TypeOK, tables
  <2>4. ReadingInv!(c)'
    BY <1>0, <2>1, <2>2 DEF TypeOK, HasTemplate, HistoryInv, tables
  <2> QED BY <1>0, <1>u, <2>2, <2>3, <2>4, ReadInv DEF TypeOK
<1>3. CASE GetProject(c)
  <2> DEFINE p == tmpl[c].project
  <2>1. tmpl[c] \in Template /\ p \in ProjectIds /\ projects[p] # None
    <3>1. pc[c] = "project" /\ HasTemplate(c)
      BY <1>3 DEF GetProject, HasTemplate
    <3>2. tmpl[c] \in Template /\ jobs[cur[c]] \in Job /\ cur[c] \in JobIds
          /\ p = templates[jobs[cur[c]].template].project
      BY <1>0, <3>1 DEF ReadingInv, TypeOK
    <3>3. jobs[cur[c]].template \in TemplateIds
      BY <3>2 DEF Job
    <3> QED BY <1>0, <3>2, <3>3 DEF ReferencesExist, Template
  <2>2. /\ proj' = [proj EXCEPT ![c] = projects[p]] /\ pc' = [pc EXCEPT ![c] = "resolve"]
        /\ UNCHANGED <<tables, jobs, cur, tmpl, secret, sent>>
    BY <1>3, <2>1 DEF GetProject, Goto
  <2>3. pc[c] = "project"
    BY <1>3 DEF GetProject
  <2>4. TypeOK'
    BY <1>0, <1>u, <2>1, <2>2 DEF TypeOK, tables
  <2>5. ReadingInv!(c)'
    BY <1>0, <2>1, <2>2, <2>3 DEF TypeOK, HasTemplate, ReadingInv, tables
  <2> QED BY <1>0, <1>u, <2>2, <2>4, <2>5, ReadInv DEF TypeOK
<1>4. CASE Resolve(c)
  <2> DEFINE id == tmpl[c].cred
  <2>1. pc[c] = "resolve" /\ tmpl[c] \in Template /\ id \in CredIds \cup {None}
    BY <1>0, <1>4 DEF Resolve, ReadingInv, HasTemplate, TypeOK, Template
  <2>2. CASE id # None /\ ~Opens(key[c], credentials[id])
    BY <1>4, <1>u, <2>1, <2>2, FailInv DEF Resolve
  <2>3. CASE ~(id # None /\ ~Opens(key[c], credentials[id]))
    <3> DEFINE found == IF id = None THEN None ELSE credentials[id].text
    <3>1. /\ secret' = [secret EXCEPT ![c] = found] /\ pc' = [pc EXCEPT ![c] = "merge"]
          /\ UNCHANGED <<tables, jobs, cur, tmpl, proj, sent>>
      BY <1>4, <2>3 DEF Resolve, Goto
    <3>2. id # None => credentials[id] \in Cipher /\ found \in Secrets /\ found \in secretsOf[id]
      BY <1>0, <2>1, <2>3 DEF Opens, TypeOK, Cipher, HistoryInv
    <3>3. id = None => found = None
      OBVIOUS
    <3> HIDE DEF found
    <3>4. TypeOK'
      BY <1>0, <1>u, <3>1, <3>2, <3>3 DEF TypeOK, tables
    <3>5. ReadingInv!(c)'
      BY <1>0, <2>1, <3>1, <3>2, <3>3 DEF TypeOK, HasTemplate, ReadingInv, tables
    <3> QED BY <1>0, <1>u, <3>1, <3>4, <3>5, ReadInv DEF TypeOK
  <2> QED BY <2>2, <2>3
<1>5. CASE SendPayload(c)
  <2> DEFINE j == cur[c]
             payload == [play |-> tmpl[c].play, repo |-> proj[c].repo,
                         vars |-> Merge(tmpl[c].vars, jobs[j].vars), secret |-> secret[c]]
  <2>1. pc[c] = "merge" /\ Forget(c) /\ UNCHANGED tables
    BY <1>5 DEF SendPayload
  <2>2. /\ j \in JobIds /\ jobs[j] \in Job /\ tmpl[c] \in Template /\ proj[c] \in Project
        /\ tmpl[c] \in rowsOf[jobs[j].template]
        /\ IF tmpl[c].cred = None THEN secret[c] = None ELSE secret[c] \in secretsOf[tmpl[c].cred]
    BY <1>0, <2>1 DEF ReadingInv, HasTemplate, TypeOK
  <2>3. tmpl[c].vars \in Vars /\ jobs[j].vars \in Vars /\ tmpl[c].play \in Plays /\ proj[c].repo \in Repos
        /\ secret[c] \in Secrets \cup {None}
    BY <1>0, <2>2 DEF Template, Job, Project, TypeOK
  <2>4. /\ Merge(tmpl[c].vars, jobs[j].vars) \in Vars
        /\ \A k \in Keys : Merge(tmpl[c].vars, jobs[j].vars)[k] =
             IF jobs[j].vars[k] # None THEN jobs[j].vars[k] ELSE tmpl[c].vars[k]
    BY <2>3 DEF Merge, Vars
  <2>5. /\ payload \in Payload /\ payload.play = tmpl[c].play /\ payload.secret = secret[c]
        /\ payload.vars = Merge(tmpl[c].vars, jobs[j].vars)
    BY <2>3, <2>4 DEF Payload
  <2>6. \/ UNCHANGED <<jobs, sent>>
        \/ jobs' = [jobs EXCEPT ![j].state = "sent"] /\ sent' = [sent EXCEPT ![j] = payload]
    BY <1>5 DEF SendPayload
  <2> HIDE DEF payload
  <2>7. /\ [jobs[j] EXCEPT !.state = "sent"] \in Job
        /\ [jobs[j] EXCEPT !.state = "sent"].template = jobs[j].template
        /\ [jobs[j] EXCEPT !.state = "sent"].vars = jobs[j].vars
        /\ [jobs[j] EXCEPT !.state = "sent"].why = jobs[j].why
    BY <2>2 DEF Job
  <2>8. TypeOK'
    BY <1>0, <1>u, <2>1, <2>2, <2>5, <2>6, <2>7 DEF TypeOK, Forget, Goto, tables
  <2>9. \A i \in JobIds : /\ (jobs'[i] = None) <=> (jobs[i] = None)
                          /\ jobs[i] # None => /\ jobs'[i].template = jobs[i].template
                                               /\ jobs'[i].vars = jobs[i].vars
                                               /\ jobs'[i].why = jobs[i].why
    BY <1>0, <2>2, <2>6, <2>7, ZenonT(30) DEF TypeOK
  <2>10. ReferencesExist' /\ HistoryInv' /\ NothingMissing' /\ SentInv'
    BY <1>0, <2>1, <2>2, <2>6, <2>9
    DEF tables, ReferencesExist, Refers, HistoryInv, NothingMissing, SentInv, TypeOK
  <2>11. ReadingInv'
    <3> SUFFICES ASSUME NEW d \in Controllers PROVE ReadingInv!(d)'
      BY DEF ReadingInv
    <3>1. CASE d = c
      BY <1>0, <2>1, <3>1 DEF Forget, Goto, TypeOK, HasTemplate
    <3>2. CASE d # c
      <4>1. pc'[d] = pc[d] /\ cur'[d] = cur[d] /\ tmpl'[d] = tmpl[d] /\ proj'[d] = proj[d] /\ secret'[d] = secret[d]
        BY <1>0, <2>1, <3>2 DEF Forget, Goto, TypeOK
      <4> QED BY <1>0, <2>1, <2>9, <4>1 DEF ReadingInv, HasTemplate, tables
    <3> QED BY <3>1, <3>2
  <2>12. PayloadIsCoherent'
    <3> SUFFICES ASSUME NEW i \in JobIds, sent'[i] # None PROVE PayloadIsCoherent!(i)!2'
      BY DEF PayloadIsCoherent
    <3>1. CASE sent'[i] = sent[i]
      BY <1>0, <2>1, <2>9, <3>1 DEF PayloadIsCoherent, SentInv, tables
    <3>2. CASE i = j /\ sent'[i] = payload
      <4>1. tmpl[c] \in rowsOf'[jobs'[i].template] /\ jobs'[i].vars = jobs[j].vars
        BY <2>1, <2>2, <2>9, <3>2 DEF tables
      <4>2. /\ sent'[i].play = tmpl[c].play
            /\ \A k \in Keys : sent'[i].vars[k] =
                 IF jobs'[i].vars[k] # None THEN jobs'[i].vars[k] ELSE tmpl[c].vars[k]
            /\ IF tmpl[c].cred = None THEN sent'[i].secret = None
               ELSE sent'[i].secret \in secretsOf'[tmpl[c].cred]
        BY <2>1, <2>2, <2>4, <2>5, <3>2, <4>1 DEF tables
      <4> QED BY <4>1, <4>2
    <3> QED BY <1>0, <2>2, <2>6, <3>1, <3>2 DEF TypeOK
  <2> QED BY <2>8, <2>10, <2>11, <2>12 DEF IInv
<1>6. CASE ReadFails(c)
  BY <1>6, <1>u, FailInv DEF ReadFails
<1> QED BY <1>1, <1>2, <1>3, <1>4, <1>5, <1>6 DEF BuildStep

-----------------------------------------------------------------------------
(* The theorems. *)

\* The invariant behind them holds, with any number of rows, controllers and requests.
THEOREM Invariance == Spec => []IInv
<1>1. Init => IInv
  BY NoneAssumption
  DEF Init, IInv, TypeOK, ReferencesExist, Refers, HistoryInv, ReadingInv, HasTemplate, SentInv,
      NothingMissing, PayloadIsCoherent
<1>2. IInv /\ [Next]_vars => IInv'
  <2> SUFFICES ASSUME IInv, [Next]_vars PROVE IInv'
    OBVIOUS
  <2>1. CASE UNCHANGED vars
    BY <2>1 DEF vars, tables, buildVars, IInv, TypeOK, ReferencesExist, Refers, HistoryInv,
       ReadingInv, HasTemplate, SentInv, NothingMissing, PayloadIsCoherent
  <2>2. CASE ApiStep
    BY <2>2, PutCredentialInv, DeleteCredentialInv, ProjectInv, TemplateInv, CreateJobInv DEF ApiStep
  <2> QED BY <2>1, <2>2, BuildInv DEF Next
<1> QED BY <1>1, <1>2, PTL DEF Spec

\* The tables and what dispatchOne has read keep their types.
THEOREM TypeCorrect == Spec => []TypeOK
<1>1. IInv => TypeOK
  BY DEF IInv
<1> QED BY <1>1, Invariance, PTL

\* No row ever refers to one that is gone.
THEOREM ReferencesAreKept == Spec => []ReferencesExist
<1>1. IInv => ReferencesExist
  BY DEF IInv
<1> QED BY <1>1, Invariance, PTL

\* buildPayload always finds the template and the project of its job, whatever is deleted
\* between its reads.
THEOREM TemplateIsFound == Spec => []NothingMissing
<1>1. IInv => NothingMissing
  BY DEF IInv
<1> QED BY <1>1, Invariance, PTL

\* Every payload is made from one version of the job's template, with a secret the
\* credential of that version has held, however many edits fall between the reads.
THEOREM CoherentPayload == Spec => []PayloadIsCoherent
<1>1. IInv => PayloadIsCoherent
  BY DEF IInv
<1> QED BY <1>1, Invariance, PTL

=============================================================================
