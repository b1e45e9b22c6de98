------------------------------ MODULE Catalog ------------------------------
(***************************************************************************)
(* Credentials, projects, job templates and the jobs made from them: the   *)
(* API requests that edit the tables, with what their foreign keys do, and *)
(* buildPayload, which reads a job's template, project and credential one  *)
(* after the other while they are being edited.                            *)
(*                                                                         *)
(* A repo stands for repo_url and branch, a play for the playbook path.    *)
(* Ciphertext is the key it was made with and the plaintext: AES-GCM opens *)
(* under that key only.  The inventory is GitSync's.                       *)
(*                                                                         *)
(*   pc  of a controller in dispatchOne: "idle", "template", "project",    *)
(*       "resolve" before that read, "merge" before the payload is sent    *)
(***************************************************************************)
EXTENDS Naturals, FiniteSets

CONSTANTS CredIds, ProjectIds, TemplateIds, JobIds, Controllers,
          Secrets, Repos, Plays,   \* contents of the rows
          Keys, Values,            \* extra variables
          ApiKey, ControllerKeys,  \* AOP_ENCRYPTION_KEY of the API, and the controllers' choices
          MaxEdits,                \* bound on the API requests of a behaviour
          None

Vars == [Keys -> Values \cup {None}]
Cipher == [key : {ApiKey}, text : Secrets]
Project == [repo : Repos, cred : CredIds \cup {None}]
Template == [project : ProjectIds, play : Plays, cred : CredIds \cup {None}, vars : Vars]
Job == [template : TemplateIds, vars : Vars,
        state : {"pending", "sent", "failed"}, why : {"none", "missing", "credential", "database"}]
Payload == [play : Plays, repo : Repos, vars : Vars, secret : Secrets \cup {None}]

ASSUME NoneAssumption ==
  None \notin CredIds \cup TemplateIds \cup JobIds \cup Secrets \cup Values
              \cup Cipher \cup Project \cup Template \cup Job \cup Payload

VARIABLES credentials, projects, templates, jobs,   \* the tables, by id
          gone,         \* ids whose row was deleted; a uuid is not used again
          secretsOf, rowsOf,   \* history: what a credential, a template has held
          creating,     \* templates found by CreateJob requests that have still to insert
          key,          \* the key of each controller
          pc, cur, tmpl, proj, secret,   \* dispatchOne: its job and what it has read
          sent,         \* the payload of each job
          edits

tables == <<credentials, projects, templates, gone, secretsOf, rowsOf>>
buildVars == <<pc, cur, tmpl, proj, secret, sent>>
vars == <<tables, jobs, creating, key, buildVars, edits>>

TypeOK ==
  /\ credentials \in [CredIds -> Cipher \cup {None}]
  /\ projects \in [ProjectIds -> Project \cup {None}]
  /\ templates \in [TemplateIds -> Template \cup {None}]
  /\ jobs \in [JobIds -> Job \cup {None}]
  /\ gone \subseteq CredIds \cup ProjectIds \cup TemplateIds
  /\ secretsOf \in [CredIds -> SUBSET Secrets]
  /\ rowsOf \in [TemplateIds -> SUBSET Template]
  /\ creating \subseteq TemplateIds
  /\ key \in [Controllers -> ControllerKeys]
  /\ pc \in [Controllers -> {"idle", "template", "project", "resolve", "merge"}]
  /\ cur \in [Controllers -> JobIds \cup {None}]
  /\ tmpl \in [Controllers -> Template \cup {None}]
  /\ proj \in [Controllers -> Project \cup {None}]
  /\ secret \in [Controllers -> Secrets \cup {None}]
  /\ sent \in [JobIds -> Payload \cup {None}]
  /\ edits \in Nat

Init ==
  /\ credentials = [k \in CredIds |-> None]
  /\ projects = [p \in ProjectIds |-> None]
  /\ templates = [t \in TemplateIds |-> None]
  /\ jobs = [j \in JobIds |-> None]
  /\ gone = {}
  /\ secretsOf = [k \in CredIds |-> {}]
  /\ rowsOf = [t \in TemplateIds |-> {}]
  /\ creating = {}
  /\ key \in [Controllers -> ControllerKeys]
  /\ pc = [c \in Controllers |-> "idle"]
  /\ cur = [c \in Controllers |-> None]
  /\ tmpl = [c \in Controllers |-> None]
  /\ proj = [c \in Controllers |-> None]
  /\ secret = [c \in Controllers |-> None]
  /\ sent = [j \in JobIds |-> None]
  /\ edits = 0

-----------------------------------------------------------------------------
(* Requests to the API.  Each is one statement, which a foreign key may refuse. *)

Edit == edits < MaxEdits /\ edits' = edits + 1 /\ UNCHANGED <<jobs, creating, key, buildVars>>

Refers(c) == c # None => credentials[c] # None

\* CreateCredential and UpdateCredential: the fields are encrypted and stored.
PutCredential(k, text) ==
  /\ Edit
  /\ k \notin gone
  /\ credentials' = [credentials EXCEPT ![k] = [key |-> ApiKey, text |-> text]]
  /\ secretsOf' = [secretsOf EXCEPT ![k] = @ \cup {text}]
  /\ UNCHANGED <<projects, templates, gone, rowsOf>>

WithoutCred(row, k) == IF row # None /\ row.cred = k THEN [row EXCEPT !.cred = None] ELSE row

\* Mutant: the references to the credential stay.
DeleteCredentialOnly(k) ==
  /\ Edit
  /\ credentials[k] # None
  /\ credentials' = [credentials EXCEPT ![k] = None]
  /\ gone' = gone \cup {k}
  /\ UNCHANGED <<projects, templates, rowsOf, secretsOf>>

\* ON DELETE SET NULL in projects and job_templates.
DeleteCredential(k) ==
  /\ Edit
  /\ credentials[k] # None
  /\ credentials' = [credentials EXCEPT ![k] = None]
  /\ projects' = [p \in ProjectIds |-> WithoutCred(projects[p], k)]
  /\ templates' = [t \in TemplateIds |-> WithoutCred(templates[t], k)]
  /\ rowsOf' = [t \in TemplateIds |-> rowsOf[t] \cup ({templates'[t]} \ {None})]
  /\ gone' = gone \cup {k}
  /\ UNCHANGED secretsOf

PutProject(p, repo, c) ==
  /\ Edit
  /\ p \notin gone /\ Refers(c)
  /\ projects' = [projects EXCEPT ![p] = [repo |-> repo, cred |-> c]]
  /\ UNCHANGED <<credentials, templates, gone, secretsOf, rowsOf>>

\* Mutant: a project is deleted under its templates.
DeleteProjectForced(p) ==
  /\ Edit
  /\ projects[p] # None
  /\ projects' = [projects EXCEPT ![p] = None]
  /\ gone' = gone \cup {p}
  /\ UNCHANGED <<credentials, templates, secretsOf, rowsOf>>

DeleteProject(p) ==
  /\ Edit
  /\ projects[p] # None /\ \A t \in TemplateIds : templates[t] # None => templates[t].project # p
  /\ projects' = [projects EXCEPT ![p] = None]
  /\ gone' = gone \cup {p}
  /\ UNCHANGED <<credentials, templates, secretsOf, rowsOf>>

StoreTemplate(t, row) ==
  /\ Edit
  /\ Refers(row.cred)
  /\ templates' = [templates EXCEPT ![t] = row]
  /\ rowsOf' = [rowsOf EXCEPT ![t] = @ \cup {row}]
  /\ UNCHANGED <<credentials, projects, gone, secretsOf>>

\* Variables that are not given are stored as none at all.
CreateJobTemplate(t, row) ==
  /\ templates[t] = None /\ t \notin gone /\ projects[row.project] # None
  /\ StoreTemplate(t, row)

\* The project stays.  Variables must be given: a nil map is NULL, which the column refuses.
UpdateJobTemplate(t, row) ==
  /\ templates[t] # None /\ row.project = templates[t].project
  /\ StoreTemplate(t, row)

DeleteJobTemplate(t) ==
  /\ Edit
  /\ templates[t] # None /\ \A j \in JobIds : jobs[j] # None => jobs[j].template # t
  /\ templates' = [templates EXCEPT ![t] = None]
  /\ gone' = gone \cup {t}
  /\ UNCHANGED <<credentials, projects, secretsOf, rowsOf>>

\* CreateJob: the template is looked up first, the INSERT may find it gone.
FindTemplate(t) ==
  /\ edits < MaxEdits /\ edits' = edits + 1
  /\ templates[t] # None /\ creating' = creating \cup {t}
  /\ UNCHANGED <<tables, jobs, key, buildVars>>

InsertJob(t, j, vs) ==
  /\ t \in creating /\ creating' = creating \ {t}
  /\ jobs[j] = None
  /\ jobs' = IF templates[t] = None THEN jobs
             ELSE [jobs EXCEPT ![j] = [template |-> t, vars |-> vs, state |-> "pending", why |-> "none"]]
  /\ UNCHANGED <<tables, key, buildVars, edits>>

ApiStep ==
  \/ \E k \in CredIds : DeleteCredential(k) \/ \E text \in Secrets : PutCredential(k, text)
  \/ \E p \in ProjectIds : DeleteProject(p)
  \/ \E p \in ProjectIds, repo \in Repos, c \in CredIds \cup {None} : PutProject(p, repo, c)
  \/ \E t \in TemplateIds : DeleteJobTemplate(t) \/ FindTemplate(t)
  \/ \E t \in TemplateIds, row \in Template : CreateJobTemplate(t, row) \/ UpdateJobTemplate(t, row)
  \/ \E t \in TemplateIds, j \in JobIds, vs \in Vars : InsertJob(t, j, vs)

-----------------------------------------------------------------------------
(* buildPayload.  Locked and claimed rows are the Reconciler's; here a pending job is taken
   by any controller that is idle, and a second one may build it too. *)

Goto(c, at) == pc' = [pc EXCEPT ![c] = at]

TakeJob(c, j) ==
  /\ pc[c] = "idle" /\ jobs[j] # None /\ jobs[j].state = "pending"
  /\ cur' = [cur EXCEPT ![c] = j]
  /\ Goto(c, "template")
  /\ UNCHANGED <<tables, jobs, tmpl, proj, secret, sent>>

Forget(c) ==
  /\ Goto(c, "idle")
  /\ cur' = [cur EXCEPT ![c] = None]
  /\ tmpl' = [tmpl EXCEPT ![c] = None]
  /\ proj' = [proj EXCEPT ![c] = None]
  /\ secret' = [secret EXCEPT ![c] = None]

\* buildPayload returns an error: the job fails if it is still pending.
Fail(c, why) ==
  /\ jobs' = [jobs EXCEPT ![cur[c]] =
                IF @.state = "pending" THEN [@ EXCEPT !.state = "failed", !.why = why] ELSE @]
  /\ Forget(c)
  /\ UNCHANGED <<tables, sent>>

GetJobTemplate(c) ==
  /\ pc[c] = "template"
  /\ LET row == templates[jobs[cur[c]].template]
     IN \/ row = None /\ Fail(c, "missing")
        \/ /\ row # None
           /\ tmpl' = [tmpl EXCEPT ![c] = row]
           /\ Goto(c, "project")
           /\ UNCHANGED <<tables, jobs, cur, proj, secret, sent>>

GetProject(c) ==
  /\ pc[c] = "project"
  /\ LET row == projects[tmpl[c].project]
     IN \/ row = None /\ Fail(c, "missing")
        \/ /\ row # None
           /\ proj' = [proj EXCEPT ![c] = row]
           /\ Goto(c, "resolve")
           /\ UNCHANGED <<tables, jobs, cur, tmpl, secret, sent>>

Opens(k, cipher) == k # None /\ cipher # None /\ cipher.key = k

\* Mutant: a credential that is gone is left out.
ResolveLenient(c) ==
  /\ pc[c] = "resolve"
  /\ LET id == tmpl[c].cred
         ok == id # None /\ Opens(key[c], credentials[id])
     IN secret' = [secret EXCEPT ![c] = IF ok THEN credentials[id].text ELSE None]
  /\ Goto(c, "merge")
  /\ UNCHANGED <<tables, jobs, cur, tmpl, proj, sent>>

Resolve(c) ==
  /\ pc[c] = "resolve"
  /\ LET id == tmpl[c].cred
     IN IF id # None /\ ~Opens(key[c], credentials[id])
        THEN Fail(c, "credential")
        ELSE /\ secret' = [secret EXCEPT ![c] = IF id = None THEN None ELSE credentials[id].text]
             /\ Goto(c, "merge")
             /\ UNCHANGED <<tables, jobs, cur, tmpl, proj, sent>>

Merge(base, over) == [k \in Keys |-> IF over[k] = None THEN base[k] ELSE over[k]]

\* The claim is a compare-and-set on the status; who loses it drops the payload.
SendPayload(c) ==
  /\ pc[c] = "merge"
  /\ LET j == cur[c]
     IN IF jobs[j].state # "pending" THEN UNCHANGED <<jobs, sent>>
        ELSE /\ jobs' = [jobs EXCEPT ![j].state = "sent"]
             /\ sent' = [sent EXCEPT ![j] =
                  [play |-> tmpl[c].play, repo |-> proj[c].repo,
                   vars |-> Merge(tmpl[c].vars, jobs[j].vars), secret |-> secret[c]]]
  /\ Forget(c)
  /\ UNCHANGED tables

ReadFails(c) == pc[c] \in {"template", "project", "resolve"} /\ Fail(c, "database")

BuildStep(c) ==
  /\ \/ \E j \in JobIds : TakeJob(c, j)
     \/ GetJobTemplate(c) \/ GetProject(c) \/ Resolve(c) \/ SendPayload(c) \/ ReadFails(c)
  /\ UNCHANGED <<creating, key, edits>>

Next == ApiStep \/ \E c \in Controllers : BuildStep(c)

Spec == Init /\ [][Next]_vars

-----------------------------------------------------------------------------
(* Properties. *)

\* No row refers to one that is gone, whatever is deleted between the steps of others.
ReferencesExist ==
  /\ \A p \in ProjectIds : projects[p] # None => Refers(projects[p].cred)
  /\ \A t \in TemplateIds : templates[t] # None =>
       Refers(templates[t].cred) /\ projects[templates[t].project] # None
  /\ \A j \in JobIds : jobs[j] # None => templates[jobs[j].template] # None

\* buildPayload never finds that a job's template or project has disappeared: whatever is
\* deleted while a job waits or between the reads, only the credential can be missing.
NothingMissing == \A j \in JobIds : jobs[j] # None => jobs[j].why # "missing"

\* A payload is made from one version of the job's template, although it is read in
\* pieces: that version's playbook, its variables overridden by the job's, and a secret the
\* credential it names has held.  A job whose template names a credential is never sent
\* without one: a credential deleted under way, or a controller without the API's key,
\* fails the job.
PayloadIsCoherent ==
  \A j \in JobIds : sent[j] # None =>
    \E row \in rowsOf[jobs[j].template] :
      /\ sent[j].play = row.play
      /\ \A k \in Keys : sent[j].vars[k] = IF jobs[j].vars[k] # None THEN jobs[j].vars[k] ELSE row.vars[k]
      /\ IF row.cred = None THEN sent[j].secret = None ELSE sent[j].secret \in secretsOf[row.cred]

=============================================================================
