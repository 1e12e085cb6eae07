--------------------------- MODULE SkillStoreProofs ---------------------------
(***************************************************************************)
(* Proofs about SkillStore, for any revisions, sync jobs and people: the   *)
(* current revision, and every one pinned outside a prune's listing, stays *)
(* in the store.                                                           *)
(***************************************************************************)
EXTENDS SkillStore, TLAPS

\* The lock is held exactly by the job past taking it.
SyncLockInv == \A j \in Sync : sync[j].at \in Locked <=> syncLock = j

\* What the job holding the lock has cloned is in the store, then current, then kept.
HolderInv ==
  \A j \in Sync :
    /\ sync[j].at = "record" => sync[j].rev \in disk
    /\ sync[j].at \in {"runs", "designs", "prune"} => sync[j].rev = skill.commit /\ sync[j].rev \in Rev
    /\ sync[j].at = "prune" => sync[j].rev \in sync[j].keep

Held(u) == pin[u].at # "none" /\ ~pin[u].raced

\* A revision picked outside a listing is in the store; a listing that is over has
\* it, unless it is the current one.
PinInv ==
  /\ \A u \in Person : pin[u].at # "none" => pin[u].rev \in Rev
  /\ \A u \in Person : Held(u) => pin[u].rev \in disk
  /\ \A j \in Sync : sync[j].at = "designs" =>
       \A u \in Runner : Held(u) => pin[u].rev \in sync[j].keep \cup {skill.commit}
  /\ \A j \in Sync : sync[j].at = "prune" =>
       \A u \in Person : Held(u) => pin[u].rev \in sync[j].keep

SkillInv == SkillTypeOK /\ CurrentOnDisk /\ SyncLockInv /\ HolderInv /\ PinInv

-----------------------------------------------------------------------------
\* The listed pins are revisions.
LEMMA PinsAreRevisions ==
  ASSUME SkillTypeOK, PinInv, NEW P \in SUBSET Person
  PROVE  /\ PinnedBy(P) \subseteq Rev
         /\ \A u \in P : pin[u].at = "pinned" => pin[u].rev \in PinnedBy(P)
<1>1. \A u \in P : pin[u].at = "pinned" => pin[u].rev \in Rev
  BY DEF PinInv
<1> QED
  BY <1>1 DEF PinnedBy

\* A job that moves on with another revision, or another list, is still a job.
LEMMA JobMoves ==
  ASSUME SkillTypeOK, NEW j \in Sync, NEW at \in Locked, NEW r \in Rev, NEW K \in SUBSET Rev
  PROVE  /\ [sync EXCEPT ![j].at = at, ![j].rev = r] \in [Sync -> SyncState]
         /\ [sync EXCEPT ![j].at = at, ![j].keep = K] \in [Sync -> SyncState]
<1>1. /\ [sync[j] EXCEPT !.at = at, !.rev = r] \in SyncState
      /\ [sync[j] EXCEPT !.at = at, !.keep = K] \in SyncState
  BY DEF SkillTypeOK, SyncState
<1>2. /\ [sync EXCEPT ![j].at = at, ![j].rev = r]
           = [sync EXCEPT ![j] = [sync[j] EXCEPT !.at = at, !.rev = r]]
      /\ [sync EXCEPT ![j].at = at, ![j].keep = K]
           = [sync EXCEPT ![j] = [sync[j] EXCEPT !.at = at, !.keep = K]]
  BY DEF SkillTypeOK, SyncState
<1> QED
  BY <1>1, <1>2 DEF SkillTypeOK

\* The two steps whose typing takes more than the definitions.
LEMMA CloneTyped ==
  ASSUME SkillTypeOK, NEW j \in Sync, NEW r \in Rev, Clone(j, r)
  PROVE  sync' \in [Sync -> SyncState]
<1>1. sync' = [sync EXCEPT ![j].at = "record", ![j].rev = r]
  BY DEF Clone
<1>2. "record" \in Locked /\ {} \in SUBSET Rev
  BY DEF Locked
<1> QED
  BY <1>1, <1>2, JobMoves

\* The list of a prune is one of revisions.
LEMMA ListDesignsTyped ==
  ASSUME SkillTypeOK, HolderInv, PinInv, NEW j \in Sync, ListDesigns(j)
  PROVE  sync' \in [Sync -> SyncState]
<1> DEFINE K == sync[j].keep \cup PinnedBy(Designer) \cup {sync[j].rev}
<1>1. sync' = [sync EXCEPT ![j].at = "prune", ![j].keep = K]
  BY DEF ListDesigns, SkillTypeOK
<1>2. sync[j].keep \in SUBSET Rev
  BY DEF SkillTypeOK, SyncState
<1>3. sync[j].rev \in Rev
  BY DEF ListDesigns, HolderInv
<1>4. PinnedBy(Designer) \subseteq Rev
  BY PinsAreRevisions DEF Person
<1>5. K \in SUBSET Rev
  BY <1>2, <1>3, <1>4
<1>6. "prune" \in Locked
  BY DEF Locked
<1> HIDE DEF K
<1> QED
  BY <1>1, <1>3, <1>5, <1>6, JobMoves

\* What a listing leaves of the pins of P.
LEMMA PinsListed ==
  ASSUME SkillTypeOK, NEW P \in SUBSET Person, ListPins(P)
  PROVE  /\ pin' \in [Person -> PinState]
         /\ \A u \in Person : /\ pin'[u].at = pin[u].at /\ pin'[u].rev = pin[u].rev
                              /\ Held(u)' => Held(u)
                              /\ u \in P /\ Held(u)' => pin[u].at = "pinned"
<1>1. \A u \in Person : pin[u] \in PinState /\ [pin[u] EXCEPT !.raced = TRUE] \in PinState
  BY DEF SkillTypeOK, PinState
<1>2. \A u \in Person : pin'[u] =
        IF u \in P /\ pin[u].at = "picked" THEN [pin[u] EXCEPT !.raced = TRUE] ELSE pin[u]
  BY DEF ListPins
<1>3. pin' \in [Person -> PinState]
  BY <1>1 DEF ListPins
<1>4. ASSUME NEW u \in Person
      PROVE  /\ pin'[u].at = pin[u].at /\ pin'[u].rev = pin[u].rev
             /\ Held(u)' => Held(u)
             /\ u \in P /\ Held(u)' => pin[u].at = "pinned"
  <2>1. CASE u \in P /\ pin[u].at = "picked"
    BY <1>1, <1>2, <2>1 DEF Held, PinState
  <2>2. CASE ~(u \in P /\ pin[u].at = "picked")
    BY <1>1, <1>2, <2>2 DEF Held, PinState
  <2> QED
    BY <2>1, <2>2
<1> QED
  BY <1>3, <1>4

\* Registered skills start with nothing cloned and nothing pinned.
LEMMA SkillInitInv == SkillInit => SkillInv
<1> SUFFICES ASSUME SkillInit PROVE SkillInv
  OBVIOUS
<1> USE DEF SkillInit, NoSync, NoPin
<1>1. SkillTypeOK
  BY DEF SkillTypeOK, SyncState, PinState
<1>2. SyncLockInv
  BY StoreAssumption DEF SyncLockInv, Locked
<1>3. CurrentOnDisk /\ HolderInv /\ PinInv
  BY DEF CurrentOnDisk, HolderInv, PinInv, Held
<1> QED
  BY <1>1, <1>2, <1>3 DEF SkillInv

\* No request, no step of a job, and no death of one breaks the invariant.
LEMMA SkillStepInv == SkillInv /\ [SkillNext]_skillVars => SkillInv'
<1> SUFFICES ASSUME SkillInv, [SkillNext]_skillVars PROVE SkillInv'
  OBVIOUS
<1> USE StoreAssumption
    DEF SkillInv, SkillTypeOK, CurrentOnDisk, SyncLockInv, HolderInv, PinInv, Held, SyncState, PinState,
        NoSync, NoPin, Locked, ReleaseSync
<1>1. ASSUME NEW j \in Sync, Register(j) PROVE SkillInv'
  BY <1>1 DEF Register
<1>2. ASSUME NEW j \in Sync, Pull(j) PROVE SkillInv'
  BY <1>2 DEF Pull
<1>3. ASSUME NEW j \in Sync, Take(j) PROVE SkillInv'
  BY <1>3 DEF Take
<1>4. ASSUME NEW j \in Sync, Skip(j) PROVE SkillInv'
  BY <1>4 DEF Skip
<1>5. ASSUME NEW j \in Sync, NEW r \in Rev, Clone(j, r) PROVE SkillInv'
  <2>1. /\ sync'[j].at = "record" /\ sync'[j].rev = r
        /\ \A i \in Sync \ {j} : sync'[i] = sync[i]
    BY <1>5 DEF Clone
  <2>2. /\ disk' = disk \cup {r} /\ disk' \subseteq Rev /\ young' \subseteq Rev
        /\ sync[j].at = "clone" /\ UNCHANGED <<skill, syncLock, pin, lost>>
    BY <1>5 DEF Clone
  <2>3. sync' \in [Sync -> SyncState]
    BY <1>5, CloneTyped
  <2> QED
    BY <2>1, <2>2, <2>3
<1>6. ASSUME NEW j \in Sync, Record(j) PROVE SkillInv'
  BY <1>6 DEF Record
<1>7. ASSUME NEW j \in Sync, ListRuns(j) PROVE SkillInv'
  <2>1. /\ PinnedBy(Runner) \subseteq Rev
        /\ \A u \in Runner : pin[u].at = "pinned" => pin[u].rev \in PinnedBy(Runner)
    BY PinsAreRevisions DEF Person
  <2>2. /\ sync' \in [Sync -> SyncState] /\ pin' \in [Person -> PinState]
        /\ \A u \in Person : /\ pin'[u].at = pin[u].at /\ pin'[u].rev = pin[u].rev
                             /\ Held(u)' => Held(u)
                             /\ u \in Runner /\ Held(u)' => pin[u].at = "pinned"
    BY <1>7, <2>1, JobMoves, PinsListed DEF ListRuns, Person
  <2>3. /\ sync'[j].at = "designs" /\ sync'[j].rev = sync[j].rev
        /\ sync'[j].keep = PinnedBy(Runner)
        /\ \A i \in Sync \ {j} : sync'[i] = sync[i]
    BY <1>7 DEF ListRuns
  <2> QED
    BY <1>7, <2>1, <2>2, <2>3 DEF ListRuns, Person
<1>8. ASSUME NEW j \in Sync, ListDesigns(j) PROVE SkillInv'
  <2>1. /\ PinnedBy(Designer) \subseteq Rev
        /\ \A u \in Designer : pin[u].at = "pinned" => pin[u].rev \in PinnedBy(Designer)
    BY PinsAreRevisions DEF Person
  <2>2. /\ sync' \in [Sync -> SyncState] /\ pin' \in [Person -> PinState]
        /\ \A u \in Person : /\ pin'[u].at = pin[u].at /\ pin'[u].rev = pin[u].rev
                             /\ Held(u)' => Held(u)
                             /\ u \in Designer /\ Held(u)' => pin[u].at = "pinned"
    BY <1>8, <2>1, ListDesignsTyped, PinsListed DEF ListDesigns, Person
  <2>3. /\ sync'[j].at = "prune" /\ sync'[j].rev = sync[j].rev
        /\ sync'[j].keep = sync[j].keep \cup PinnedBy(Designer) \cup {sync[j].rev}
        /\ \A i \in Sync \ {j} : sync'[i] = sync[i]
    BY <1>8 DEF ListDesigns
  <2>4. \A u \in Person : Held(u)' => pin[u].rev \in sync'[j].keep
    BY <1>8, <2>1, <2>2, <2>3 DEF ListDesigns, Person
  <2> QED
    BY <1>8, <2>1, <2>2, <2>3, <2>4 DEF ListDesigns, Person
<1>9. ASSUME NEW j \in Sync, Prune(j) PROVE SkillInv'
  BY <1>9 DEF Prune
<1>10. ASSUME NEW j \in Sync, FailSync(j) PROVE SkillInv'
  BY <1>10 DEF FailSync
<1>11. ASSUME NEW j \in Sync, RecordSyncFailure(j) PROVE SkillInv'
  BY <1>11 DEF RecordSyncFailure
<1>12. ASSUME NEW j \in Sync, SyncDies(j) PROVE SkillInv'
  BY <1>12 DEF SyncDies
<1>13. ASSUME NEW u \in Person, Pick(u) PROVE SkillInv'
  BY <1>13 DEF Pick, Person
<1>14. ASSUME NEW u \in Person, Pin(u) PROVE SkillInv'
  BY <1>14 DEF Pin, Person
<1>15. ASSUME NEW u \in Person, Unpin(u) PROVE SkillInv'
  BY <1>15 DEF Unpin, Person
<1>16. ASSUME NEW r \in Rev, Age(r) PROVE SkillInv'
  BY <1>16 DEF Age
<1>17. CASE UNCHANGED skillVars
  BY <1>17 DEF skillVars
<1> QED
  BY <1>1, <1>2, <1>3, <1>4, <1>5, <1>6, <1>7, <1>8, <1>9, <1>10, <1>11, <1>12, <1>13, <1>14, <1>15,
     <1>16, <1>17 DEF SkillNext, SyncWork

\* The invariant holds in every reachable state of the store.
LEMMA SkillInvariant == SkillSpec => []SkillInv
<1>1. SkillInit => SkillInv
  BY SkillInitInv
<1>2. SkillInv /\ [SkillNext]_skillVars => SkillInv'
  BY SkillStepInv
<1> QED
  BY <1>1, <1>2, PTL DEF SkillSpec

\* Every variable of the store stays within its type.
THEOREM SkillTypeCorrect == SkillSpec => []SkillTypeOK
<1>1. SkillInv => SkillTypeOK
  BY DEF SkillInv
<1> QED
  BY <1>1, SkillInvariant, PTL

\* The revision the row names, which AgentSkillSyncService records after the clone
\* and prunes around, is in the store in every state.
THEOREM CurrentStaysOnDisk == SkillSpec => []CurrentOnDisk
<1>1. SkillInv => CurrentOnDisk
  BY DEF SkillInv
<1> QED
  BY <1>1, SkillInvariant, PTL

\* No prune deletes the code of a run or a workflow that its listing could see.
THEOREM PinsSurvive == SkillSpec => []PinSurvives
<1>1. SkillInv => PinSurvives
  BY DEF SkillInv, PinInv, PinSurvives, Held
<1> QED
  BY <1>1, SkillInvariant, PTL

=============================================================================
