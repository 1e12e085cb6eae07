---------------------------- MODULE KnowledgeJobs ----------------------------
(***************************************************************************)
(* One knowledge base: people register, re-ingest and remove its sources   *)
(* (services/knowledge_base.py), and each request leaves a background job  *)
(* that edits the wiki under the knowledge base's lock                     *)
(* (services/knowledge_ingest.py, repositories/knowledge.py).              *)
(*                                                                         *)
(* A page is what it cites; the empty set is no page.  Every database      *)
(* session keeps the copy of a row it read first: `seen` is that copy's    *)
(* status, and a write that does not change the copy reaches no row.       *)
(* Abstracted: fetching, chunking, what the model writes on a page.        *)
(***************************************************************************)
EXTENDS Naturals

CONSTANTS
  Source, Page,
  Job,         \* background jobs, with the requests that schedule them
  Unheld

ASSUME KnowledgeAssumption == Unheld \notin Job

VARIABLES
  source,      \* source[s]: its row's status, "absent" before, "gone" after
  cites,       \* cites[p]: the sources page p cites
  baseLock,    \* the job holding the knowledge base's lock
  job,         \* job[j]: [at, act, of, seen, draft, known]
  died         \* a job or a request died with its process

wikiVars == <<source, cites, baseLock, job, died>>

Shown == {"pending", "ingesting", "ready", "failed", "removing"}
Status == Shown \cup {"absent", "gone"}
Editing == {"begin", "load", "apply"}
Wiki == [Page -> SUBSET Source]
IdleJob == [at |-> "off", act |-> "ingest", of |-> {}, seen |-> "absent",
         draft |-> [p \in Page |-> {}], known |-> {}]

Exists(s) == source[s] \in Shown
AllSources == {s \in Source : Exists(s)}

WikiInit ==
  /\ source = [s \in Source |-> "absent"]
  /\ cites = [p \in Page |-> {}]
  /\ baseLock = Unheld
  /\ job = [j \in Job |-> IdleJob]
  /\ died = FALSE

-----------------------------------------------------------------------------
(* Requests. *)

Ask(j, s, act, at) ==
  job' = [job EXCEPT ![j] = [IdleJob EXCEPT !.at = at, !.act = act, !.of = {s}, !.seen = source[s]]]

\* add_url_source, add_file_source.
Add(j, s) ==
  /\ job[j].at = "off" /\ source[s] = "absent"
  /\ source' = [source EXCEPT ![s] = "pending"]
  /\ Ask(j, s, "ingest", "read")
  /\ UNCHANGED <<cites, baseLock, died>>

\* request_reingest and request_removal read the row ...
RequestJob(j, s, act) ==
  /\ job[j].at = "off" /\ Exists(s)
  /\ act = "ingest" => source[s] # "removing"
  /\ Ask(j, s, act, "mark")
  /\ UNCHANGED <<source, cites, baseLock, died>>

\* set_status: what the row of s becomes when a session whose copy reads `seen`
\* writes `status`.
Written(s, seen, status) == IF seen = status THEN source[s] ELSE status

\* ... and mark it: the request fails if the row is gone by then.
Mark(j) == \E s \in job[j].of :
  LET mark == IF job[j].act = "remove" THEN "removing" ELSE "pending"
  IN /\ job[j].at = "mark"
     /\ IF Exists(s)
        THEN /\ source' = [source EXCEPT ![s] = Written(s, job[j].seen, mark)]
             /\ job' = [job EXCEPT ![j] = [@ EXCEPT !.at = "read", !.seen = "absent"]]
        ELSE /\ UNCHANGED source
             /\ job' = [job EXCEPT ![j] = IdleJob]
     /\ UNCHANGED <<cites, baseLock, died>>

\* The knowledge base is deleted, with its sources and pages.
DeleteBase ==
  /\ AllSources # {}
  /\ source' = [s \in Source |-> "gone"]
  /\ cites' = [p \in Page |-> {}]
  /\ UNCHANGED <<baseLock, job, died>>

-----------------------------------------------------------------------------
(* KnowledgeIngestService.run. *)

\* The first read, before the lock.
Read(j) == \E s \in job[j].of :
  /\ job[j].at = "read"
  /\ job' = [job EXCEPT ![j] = IF Exists(s) THEN [@ EXCEPT !.at = "wait", !.seen = source[s]] ELSE IdleJob]
  /\ UNCHANGED <<source, cites, baseLock, died>>

\* The re-read under the lock notices a deleted row, not a status that changed.
Refused(j, s) == ~Exists(s) \/ (job[j].act # "remove" /\ job[j].seen = "removing")

\* Mutant: the wiki is edited without the lock.
EnterFreely(j) == \E s \in job[j].of :
  /\ job[j].at = "wait"
  /\ job' = [job EXCEPT ![j] = IF Refused(j, s) THEN IdleJob ELSE [@ EXCEPT !.at = "begin"]]
  /\ UNCHANGED <<source, cites, baseLock, died>>

Enter(j) == \E s \in job[j].of :
  /\ job[j].at = "wait" /\ baseLock = Unheld
  /\ IF Refused(j, s)
     THEN /\ job' = [job EXCEPT ![j] = IdleJob]
          /\ UNCHANGED baseLock
     ELSE /\ job' = [job EXCEPT ![j].at = "begin"]
          /\ baseLock' = j
  /\ UNCHANGED <<source, cites, died>>

EndsInFailure(j) == job' = [job EXCEPT ![j] = [IdleJob EXCEPT !.at = "failed", !.of = job[j].of]]

\* LockNotAcquiredError after half an hour: a failure like any other.
TimeOut(j) ==
  /\ job[j].at = "wait" /\ baseLock # Unheld
  /\ EndsInFailure(j)
  /\ UNCHANGED <<source, cites, baseLock, died>>

\* The status that shows the work; the session's copy is refreshed by it.
BeginEdit(j) == \E s \in job[j].of :
  LET shown == Written(s, job[j].seen, IF job[j].act = "remove" THEN "removing" ELSE "ingesting")
  IN /\ job[j].at = "begin" /\ Exists(s)
     /\ source' = [source EXCEPT ![s] = shown]
     /\ job' = [job EXCEPT ![j] = [@ EXCEPT !.at = "load", !.seen = shown]]
     /\ UNCHANGED <<cites, baseLock, died>>

\* _editor: the working copy of the pages, and the sources a page may cite.
Load(j) ==
  /\ job[j].at = "load" /\ job[j].of \subseteq AllSources
  /\ job' = [job EXCEPT ![j] = [@ EXCEPT !.at = "apply", !.draft = cites, !.known = AllSources]]
  /\ UNCHANGED <<source, cites, baseLock, died>>

ReleaseBase(j) == baseLock' = IF baseLock = j THEN Unheld ELSE baseLock

\* Mutant: a removal forgets the pages its agent left behind.
MayWriteAny(j, wiki) == \A p \in Page : wiki[p] \subseteq job[j].known

\* What the agent and drop_source can make of the working copy.
MayWrite(j, wiki) ==
  LET citing == {p \in Page : job[j].of \cap job[j].draft[p] # {}}
  IN /\ \A p \in Page : wiki[p] \subseteq job[j].known
     /\ job[j].act = "remove" =>
          /\ \A p \in Page : wiki[p] \cap job[j].of = {}
          /\ citing = {} => wiki = job[j].draft

\* The pages it changed and the outcome, in one commit.
Apply(j, wiki) == \E s \in job[j].of :
  /\ job[j].at = "apply" /\ Exists(s) /\ MayWrite(j, wiki)
  /\ cites' = [p \in Page |-> IF wiki[p] = job[j].draft[p] THEN cites[p] ELSE wiki[p]]
  /\ source' = [source EXCEPT ![s] =
       IF job[j].act = "remove" THEN "gone" ELSE Written(s, job[j].seen, "ready")]
  /\ ReleaseBase(j)
  /\ job' = [job EXCEPT ![j] = IdleJob]
  /\ UNCHANGED died

\* Any error, the row gone included: the lock is released first ...
FailEdit(j) ==
  /\ job[j].at \in Editing
  /\ ReleaseBase(j)
  /\ EndsInFailure(j)
  /\ UNCHANGED <<source, cites, died>>

\* Mutant: a failure is only logged.
LogFailure(j) ==
  /\ job[j].at = "failed"
  /\ job' = [job EXCEPT ![j] = IdleJob]
  /\ UNCHANGED <<source, cites, baseLock, died>>

\* ... and recorded on the row, if there is one, after.
RecordEditFailure(j) == \E s \in job[j].of :
  /\ job[j].at = "failed"
  /\ source' = IF Exists(s) THEN [source EXCEPT ![s] = "failed"] ELSE source
  /\ job' = [job EXCEPT ![j] = IdleJob]
  /\ UNCHANGED <<cites, baseLock, died>>

\* The process dies, and with it its requests and background tasks.
JobDies(j) ==
  /\ job[j].at # "off"
  /\ ReleaseBase(j)
  /\ job' = [job EXCEPT ![j] = IdleJob]
  /\ died' = TRUE
  /\ UNCHANGED <<source, cites>>

RunJob(j) ==
  \/ Read(j) \/ Enter(j) \/ TimeOut(j) \/ BeginEdit(j) \/ Load(j)
  \/ (\E wiki \in Wiki : Apply(j, wiki))
  \/ FailEdit(j) \/ RecordEditFailure(j)

WikiNext ==
  \/ \E j \in Job :
       \/ \E s \in Source : Add(j, s) \/ \E act \in {"ingest", "remove"} : RequestJob(j, s, act)
       \/ Mark(j) \/ RunJob(j) \/ JobDies(j)
  \/ DeleteBase

WikiSpec == WikiInit /\ [][WikiNext]_wikiVars

-----------------------------------------------------------------------------
(* Properties. *)

WikiTypeOK ==
  /\ source \in [Source -> Status]
  /\ cites \in Wiki
  /\ baseLock \in Job \cup {Unheld}
  /\ job \in [Job -> [at : {"off", "mark", "read", "wait", "failed"} \cup Editing,
                      act : {"ingest", "remove"}, of : SUBSET Source,
                      seen : Status, draft : Wiki, known : SUBSET Source]]
  /\ died \in BOOLEAN

\* Whatever jobs overlap, fail or die, no page cites a source that was removed.
CitationsExist == \A p \in Page : cites[p] \subseteq AllSources

\* The pages a job writes back are the ones it loaded: no job's edits are lost.
NoLostEdit ==
  \A j \in Job : job[j].at = "apply" /\ job[j].of \subseteq AllSources => job[j].draft = cites

\* When no job is left and none died, no row says that one is still expected.
NothingLeftHanging ==
  (\A j \in Job : job[j].at = "off") /\ ~died =>
    \A s \in Source : source[s] \notin {"pending", "ingesting", "removing"}

=============================================================================
