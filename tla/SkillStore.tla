----------------------------- MODULE SkillStore -----------------------------
(***************************************************************************)
(* One agent skill: the background jobs that clone its repository into the *)
(* shared store and prune it (services/agent_skill_sync.py,                *)
(* infrastructure/skill_manager.py), and the runs and designs that pin the *)
(* revision they found current (WorkflowService.execute,                   *)
(* WorkflowDesignService.generate).  A job is a background task of the     *)
(* process that took the request: it dies with that process.               *)
(*                                                                         *)
(* Abstracted: what a clone checks and why it fails; the skill's settings. *)
(***************************************************************************)
EXTENDS Naturals

CONSTANTS
  Rev,       \* commits of the repository
  Sync,      \* sync jobs
  Runner,    \* people starting runs of the skill's workflows
  Designer,  \* people generating workflows from the skill
  Nothing

ASSUME StoreAssumption == Nothing \notin Rev /\ Nothing \notin Sync

VARIABLES
  skill,     \* the row: [status, commit]
  disk,      \* revision directories published in the store
  young,     \* those of them still within the prune's grace window
  syncLock,  \* the job holding the skill's sync lock
  sync,      \* sync[j]: [at, rev, keep], where job j is and what it holds
  pin,       \* pin[u]: [at, rev, raced], the run or workflow u is creating or has
  lost       \* a job died with its process

skillVars == <<skill, disk, young, syncLock, sync, pin, lost>>

Person == Runner \cup Designer

Locked == {"clone", "record", "runs", "designs", "prune"}
SyncState == [at : {"off", "due", "failed"} \cup Locked, rev : Rev \cup {Nothing},
              keep : SUBSET Rev]
PinState == [at : {"none", "picked", "pinned"}, rev : Rev \cup {Nothing}, raced : BOOLEAN]

NoSync == [at |-> "off", rev |-> Nothing, keep |-> {}]
NoPin == [at |-> "none", rev |-> Nothing, raced |-> FALSE]

SkillInit ==
  /\ skill = [status |-> "none", commit |-> Nothing]
  /\ disk = {} /\ young = {} /\ syncLock = Nothing
  /\ sync = [j \in Sync |-> NoSync]
  /\ pin = [u \in Person |-> NoPin]
  /\ lost = FALSE

-----------------------------------------------------------------------------
(* Requests. *)

\* create_agent_skill, then pull_agent_skill: the row reads pending, a job is
\* scheduled.
Register(j) ==
  /\ sync[j].at = "off" /\ skill.status = "none"
  /\ skill' = [skill EXCEPT !.status = "pending"]
  /\ sync' = [sync EXCEPT ![j].at = "due"]
  /\ UNCHANGED <<disk, young, syncLock, pin, lost>>

Pull(j) ==
  /\ sync[j].at = "off" /\ skill.status # "none"
  /\ skill' = [skill EXCEPT !.status = "pending"]
  /\ sync' = [sync EXCEPT ![j].at = "due"]
  /\ UNCHANGED <<disk, young, syncLock, pin, lost>>

\* A run or a design reads the skill's current revision ...
Pick(u) ==
  /\ pin[u].at = "none"
  /\ skill.commit # Nothing
  /\ pin' = [pin EXCEPT ![u] = [at |-> "picked", rev |-> skill.commit, raced |-> FALSE]]
  /\ UNCHANGED <<skill, disk, young, syncLock, sync, lost>>

\* ... and inserts the row naming it later.
Pin(u) ==
  /\ pin[u].at = "picked"
  /\ pin' = [pin EXCEPT ![u].at = "pinned"]
  /\ UNCHANGED <<skill, disk, young, syncLock, sync, lost>>

\* The run or the workflow is deleted.
Unpin(u) ==
  /\ pin[u].at = "pinned"
  /\ pin' = [pin EXCEPT ![u] = NoPin]
  /\ UNCHANGED <<skill, disk, young, syncLock, sync, lost>>

-----------------------------------------------------------------------------
(* AgentSkillSyncService.sync. *)

\* The lock is tried once.
Take(j) ==
  /\ sync[j].at = "due" /\ syncLock = Nothing
  /\ syncLock' = j
  /\ sync' = [sync EXCEPT ![j].at = "clone"]
  /\ UNCHANGED <<skill, disk, young, pin, lost>>

\* Somebody else is syncing: the job ends without touching the row.
Skip(j) ==
  /\ sync[j].at = "due" /\ syncLock # Nothing
  /\ sync' = [sync EXCEPT ![j] = NoSync]
  /\ UNCHANGED <<skill, disk, young, syncLock, pin, lost>>

\* clone publishes whatever commit the remote's ref points to by then; a revision
\* already in the store stays as it is, its age included.
Clone(j, r) ==
  /\ sync[j].at = "clone"
  /\ disk' = disk \cup {r}
  /\ young' = young \cup ({r} \ disk)
  /\ sync' = [sync EXCEPT ![j].at = "record", ![j].rev = r]
  /\ UNCHANGED <<skill, syncLock, pin, lost>>

Record(j) ==
  /\ sync[j].at = "record"
  /\ skill' = [status |-> "ready", commit |-> sync[j].rev]
  /\ sync' = [sync EXCEPT ![j].at = "runs"]
  /\ UNCHANGED <<disk, young, syncLock, pin, lost>>

PinnedBy(P) == {pin[u].rev : u \in {v \in P : pin[v].at = "pinned"}}

\* A revision picked but not named by a row yet is not in the list: raced
\* remembers it.
ListPins(P) ==
  pin' = [u \in Person |->
    IF u \in P /\ pin[u].at = "picked" THEN [pin[u] EXCEPT !.raced = TRUE] ELSE pin[u]]

\* Mutant: the revisions that runs pinned are not listed.
ListNoRuns(j) ==
  /\ sync[j].at = "runs"
  /\ sync' = [sync EXCEPT ![j].at = "designs"]
  /\ ListPins(Runner)
  /\ UNCHANGED <<skill, disk, young, syncLock, lost>>

ListRuns(j) ==
  /\ sync[j].at = "runs"
  /\ sync' = [sync EXCEPT ![j].at = "designs", ![j].keep = PinnedBy(Runner)]
  /\ ListPins(Runner)
  /\ UNCHANGED <<skill, disk, young, syncLock, lost>>

\* Mutant: the prune is told the pins and not the revision just published.
ListDesignsOnly(j) ==
  /\ sync[j].at = "designs"
  /\ sync' = [sync EXCEPT ![j].at = "prune", ![j].keep = @ \cup PinnedBy(Designer)]
  /\ ListPins(Designer)
  /\ UNCHANGED <<skill, disk, young, syncLock, lost>>

ListDesigns(j) ==
  /\ sync[j].at = "designs"
  /\ sync' = [sync EXCEPT ![j].at = "prune",
                          ![j].keep = @ \cup PinnedBy(Designer) \cup {sync[j].rev}]
  /\ ListPins(Designer)
  /\ UNCHANGED <<skill, disk, young, syncLock, lost>>

ReleaseSync(j) == syncLock' = IF syncLock = j THEN Nothing ELSE syncLock

\* prune, then the lock is released.
Prune(j) ==
  /\ sync[j].at = "prune"
  /\ disk' = disk \cap (sync[j].keep \cup young)
  /\ ReleaseSync(j)
  /\ sync' = [sync EXCEPT ![j] = NoSync]
  /\ UNCHANGED <<skill, young, pin, lost>>

\* Any failure leaves the lock first and is recorded after.
FailSync(j) ==
  /\ sync[j].at \in Locked
  /\ ReleaseSync(j)
  /\ sync' = [sync EXCEPT ![j] = [NoSync EXCEPT !.at = "failed"]]
  /\ UNCHANGED <<skill, disk, young, pin, lost>>

RecordSyncFailure(j) ==
  /\ sync[j].at = "failed"
  /\ skill' = [skill EXCEPT !.status = "failed"]
  /\ sync' = [sync EXCEPT ![j] = NoSync]
  /\ UNCHANGED <<disk, young, syncLock, pin, lost>>

-----------------------------------------------------------------------------
(* The environment. *)

SyncDies(j) ==
  /\ sync[j].at # "off"
  /\ ReleaseSync(j)
  /\ sync' = [sync EXCEPT ![j] = NoSync]
  /\ lost' = TRUE
  /\ UNCHANGED <<skill, disk, young, pin>>

\* The grace window is counted from the directory's publication.
Age(r) ==
  /\ r \in young
  /\ young' = young \ {r}
  /\ UNCHANGED <<skill, disk, syncLock, sync, pin, lost>>

SyncWork(j) ==
  \/ Take(j) \/ Skip(j) \/ (\E r \in Rev : Clone(j, r)) \/ Record(j)
  \/ ListRuns(j) \/ ListDesigns(j) \/ Prune(j) \/ RecordSyncFailure(j)

SkillNext ==
  \/ \E j \in Sync : Register(j) \/ Pull(j) \/ SyncWork(j) \/ FailSync(j) \/ SyncDies(j)
  \/ \E u \in Person : Pick(u) \/ Pin(u) \/ Unpin(u)
  \/ \E r \in Rev : Age(r)

SkillSpec == SkillInit /\ [][SkillNext]_skillVars

-----------------------------------------------------------------------------
(* Properties. *)

SkillTypeOK ==
  /\ skill \in [status : {"none", "pending", "ready", "failed"}, commit : Rev \cup {Nothing}]
  /\ disk \subseteq Rev /\ young \subseteq Rev
  /\ syncLock \in Sync \cup {Nothing}
  /\ sync \in [Sync -> SyncState]
  /\ pin \in [Person -> PinState]
  /\ lost \in BOOLEAN

\* The revision every new run will load is in the store, whatever jobs overlap,
\* fail or die.
CurrentOnDisk == skill.commit # Nothing => skill.commit \in disk

\* A run or a workflow whose creation no prune's listing fell into keeps its code.
PinSurvives ==
  \A u \in Person : pin[u].at = "pinned" /\ ~pin[u].raced => pin[u].rev \in disk

=============================================================================
