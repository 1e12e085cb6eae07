------------------------- MODULE KnowledgeJobsProofs -------------------------
(***************************************************************************)
(* Proofs about KnowledgeJobs, for any sources, pages and jobs: the wiki   *)
(* cites only what exists, no edit is lost, and no source is left waiting  *)
(* for a job that has ended.                                               *)
(***************************************************************************)
EXTENDS KnowledgeJobs, TLAPS

\* A job is about one source, which was registered before it.
AboutInv ==
  \A j \in Job : job[j].at # "off" =>
    \E s \in Source : job[j].of = {s} /\ source[s] # "absent"

\* The lock is held exactly by the job that edits.
BaseLockInv == \A j \in Job : job[j].at \in Editing <=> baseLock = j

\* What the holder may cite still exists, unless the knowledge base is deleted.
KnownInv ==
  \A j \in Job : job[j].at = "apply" /\ job[j].of \subseteq AllSources =>
    job[j].known \subseteq AllSources

\* j will write an outcome on the row of s, or sees it deleted.
Answers(j, s) ==
  /\ job[j].of = {s}
  /\ \/ job[j].at = "failed"
     \/ /\ job[j].at \in {"read", "wait"} \cup Editing
        /\ \/ job[j].act = "remove"
           \/ /\ source[s] # "removing"
              /\ job[j].at = "wait" => job[j].seen # "removing"
              /\ job[j].at \in {"load", "apply"} => job[j].seen # "ready"

\* A row that says work is under way has a job that will answer for it.
AnsweredInv ==
  ~died => \A s \in Source : source[s] \in {"pending", "ingesting", "removing"} =>
    \E j \in Job : Answers(j, s)

WikiInv ==
  /\ WikiTypeOK /\ AboutInv /\ BaseLockInv /\ KnownInv /\ CitationsExist /\ NoLostEdit
  /\ AnsweredInv

-----------------------------------------------------------------------------
\* An empty knowledge base has nothing to cite and nothing under way.
LEMMA WikiInitInv == WikiInit => WikiInv
<1> SUFFICES ASSUME WikiInit PROVE WikiInv
  OBVIOUS
<1> USE DEF WikiInit, IdleJob, Editing
<1>1. WikiTypeOK
  BY DEF WikiTypeOK, Status, Shown, Wiki
<1>2. AboutInv /\ KnownInv /\ CitationsExist /\ NoLostEdit /\ AnsweredInv
  BY DEF AboutInv, KnownInv, CitationsExist, NoLostEdit, AnsweredInv
<1>3. BaseLockInv
  BY KnowledgeAssumption DEF BaseLockInv
<1> QED
  BY <1>1, <1>2, <1>3 DEF WikiInv

\* A job's record before and after it moves, in the terms the type needs.
JobState == [at : {"off", "mark", "read", "wait", "failed"} \cup Editing,
             act : {"ingest", "remove"}, of : SUBSET Source,
             seen : Status, draft : Wiki, known : SUBSET Source]

\* No request, no step of a job and no death of one changes what a variable may hold.
LEMMA WikiStepTyped == WikiTypeOK /\ [WikiNext]_wikiVars => WikiTypeOK'
<1> SUFFICES ASSUME WikiTypeOK, [WikiNext]_wikiVars PROVE WikiTypeOK'
  OBVIOUS
<1>0. IdleJob \in JobState /\ \A j \in Job : job[j] \in JobState
  BY DEF WikiTypeOK, IdleJob, JobState, Wiki, Status
<1> USE DEF WikiTypeOK, Status, Shown, Editing, Written, ReleaseBase, EndsInFailure, Ask
<1>1. ASSUME NEW j \in Job, NEW s \in Source, Add(j, s) PROVE WikiTypeOK'
  BY <1>0, <1>1 DEF Add, JobState
<1>2. ASSUME NEW j \in Job, NEW s \in Source, NEW act \in {"ingest", "remove"}, RequestJob(j, s, act)
      PROVE  WikiTypeOK'
  BY <1>0, <1>2 DEF RequestJob, JobState
<1>3. ASSUME NEW j \in Job, Mark(j) PROVE WikiTypeOK'
  <2>1. [job[j] EXCEPT !.at = "read", !.seen = "absent"] \in JobState
    BY <1>0 DEF JobState
  <2>2. job' \in [Job -> JobState]
    BY <1>0, <1>3, <2>1 DEF Mark
  <2>3. source' \in [Source -> Status]
    BY <1>3 DEF Mark
  <2> QED
    BY <1>3, <2>2, <2>3 DEF Mark, JobState
<1>4. CASE DeleteBase
  BY <1>4 DEF DeleteBase, Wiki
<1>5. ASSUME NEW j \in Job, Read(j) PROVE WikiTypeOK'
  <2>1. \A s \in Source : [job[j] EXCEPT !.at = "wait", !.seen = source[s]] \in JobState
    BY <1>0 DEF JobState
  <2>2. PICK s \in Source : job' = [job EXCEPT ![j] =
          IF Exists(s) THEN [job[j] EXCEPT !.at = "wait", !.seen = source[s]] ELSE IdleJob]
    BY <1>5, <1>0 DEF Read, JobState
  <2>3. job' \in [Job -> JobState]
    BY <1>0, <2>1, <2>2
  <2> QED
    BY <1>5, <2>3 DEF Read, JobState
<1>6. ASSUME NEW j \in Job, Enter(j) PROVE WikiTypeOK'
  BY <1>0, <1>6 DEF Enter, JobState
<1>7. ASSUME NEW j \in Job, TimeOut(j) PROVE WikiTypeOK'
  BY <1>0, <1>7 DEF TimeOut, JobState
<1>8. ASSUME NEW j \in Job, BeginEdit(j) PROVE WikiTypeOK'
  <2>1. \A shown \in Status : [job[j] EXCEPT !.at = "load", !.seen = shown] \in JobState
    BY <1>0 DEF JobState
  <2> DEFINE Shows(s) == Written(s, job[j].seen, IF job[j].act = "remove" THEN "removing" ELSE "ingesting")
  <2>2. PICK s \in job[j].of :
          /\ source' = [source EXCEPT ![s] = Shows(s)]
          /\ job' = [job EXCEPT ![j] = [job[j] EXCEPT !.at = "load", !.seen = Shows(s)]]
    BY <1>8 DEF BeginEdit
  <2>3. s \in Source
    BY <1>0, <2>2 DEF JobState
  <2>4. Shows(s) \in Status
    BY <2>3
  <2>5. [job[j] EXCEPT !.at = "load", !.seen = Shows(s)] \in JobState
    BY <2>1, <2>4
  <2> HIDE DEF Shows
  <2>6. job' \in [Job -> JobState] /\ source' \in [Source -> Status]
    BY <1>0, <2>2, <2>4, <2>5
  <2> QED
    BY <1>8, <2>6 DEF BeginEdit, JobState
<1>9. ASSUME NEW j \in Job, Load(j) PROVE WikiTypeOK'
  <2>1. [job[j] EXCEPT !.at = "apply", !.draft = cites, !.known = AllSources] \in JobState
    <3>1. AllSources \in SUBSET Source
      BY DEF AllSources
    <3> QED
      BY <1>0, <3>1 DEF JobState
  <2>2. job' \in [Job -> JobState]
    BY <1>0, <1>9, <2>1 DEF Load
  <2> QED
    BY <1>9, <2>2 DEF Load, JobState
<1>10. ASSUME NEW j \in Job, NEW wiki \in Wiki, Apply(j, wiki) PROVE WikiTypeOK'
  BY <1>0, <1>10 DEF Apply, JobState, Wiki
<1>11. ASSUME NEW j \in Job, FailEdit(j) PROVE WikiTypeOK'
  BY <1>0, <1>11 DEF FailEdit, JobState
<1>12. ASSUME NEW j \in Job, RecordEditFailure(j) PROVE WikiTypeOK'
  BY <1>0, <1>12 DEF RecordEditFailure, JobState
<1>13. ASSUME NEW j \in Job, JobDies(j) PROVE WikiTypeOK'
  BY <1>0, <1>13 DEF JobDies, JobState
<1>14. CASE UNCHANGED wikiVars
  BY <1>14 DEF wikiVars
<1> QED
  BY <1>1, <1>2, <1>3, <1>4, <1>5, <1>6, <1>7, <1>8, <1>9, <1>10, <1>11, <1>12, <1>13, <1>14
     DEF WikiNext, RunJob

SafeInv == AboutInv /\ BaseLockInv /\ KnownInv /\ CitationsExist /\ NoLostEdit

\* Nor do they break the lock, the working copies or the citations.
LEMMA WikiStepSafe == WikiTypeOK /\ SafeInv /\ [WikiNext]_wikiVars => SafeInv'
<1> SUFFICES ASSUME WikiTypeOK, SafeInv, [WikiNext]_wikiVars PROVE SafeInv'
  OBVIOUS
<1> USE KnowledgeAssumption
    DEF WikiTypeOK, SafeInv, AboutInv, BaseLockInv, KnownInv, CitationsExist, NoLostEdit, AllSources,
        Exists, Shown, Status, Editing, Written, ReleaseBase, EndsInFailure, IdleJob, Ask
<1>1. ASSUME NEW j \in Job, NEW s \in Source, Add(j, s) PROVE SafeInv'
  BY <1>1 DEF Add
<1>2. ASSUME NEW j \in Job, NEW s \in Source, NEW act \in {"ingest", "remove"}, RequestJob(j, s, act)
      PROVE  SafeInv'
  BY <1>2 DEF RequestJob
<1>3. ASSUME NEW j \in Job, Mark(j) PROVE SafeInv'
  <2>1. PICK s \in Source : job[j].of = {s} /\ source[s] # "absent"
    BY <1>3 DEF Mark
  <2>2. CASE Exists(s)
    <3>1. /\ \A q \in Source : q # s => source'[q] = source[q]
          /\ source'[s] \in Shown
      BY <1>3, <2>1, <2>2 DEF Mark
    <3>2. /\ job' = [job EXCEPT ![j] = [job[j] EXCEPT !.at = "read", !.seen = "absent"]]
          /\ job[j].at = "mark" /\ UNCHANGED <<cites, baseLock>>
      BY <1>3, <2>1, <2>2 DEF Mark
    <3>3. /\ \A i \in Job : i # j => job'[i] = job[i]
          /\ job'[j].at = "read" /\ job'[j].of = {s}
      BY <2>1, <3>2
    <3>4. AllSources' = AllSources
      BY <2>2, <3>1
    <3>5. CitationsExist' /\ KnownInv' /\ NoLostEdit'
      BY <3>2, <3>3, <3>4
    <3> QED
      BY <3>1, <3>2, <3>3, <3>5
  <2>3. CASE ~Exists(s)
    BY <1>3, <2>1, <2>3 DEF Mark
  <2> QED
    BY <2>2, <2>3
<1>4. CASE DeleteBase
  BY <1>4 DEF DeleteBase
<1>5. ASSUME NEW j \in Job, Read(j) PROVE SafeInv'
  BY <1>5 DEF Read
<1>6. ASSUME NEW j \in Job, Enter(j) PROVE SafeInv'
  BY <1>6 DEF Enter
<1>7. ASSUME NEW j \in Job, TimeOut(j) PROVE SafeInv'
  BY <1>7 DEF TimeOut
<1>8. ASSUME NEW j \in Job, BeginEdit(j) PROVE SafeInv'
  BY <1>8 DEF BeginEdit
<1>9. ASSUME NEW j \in Job, Load(j) PROVE SafeInv'
  BY <1>9 DEF Load
<1>10. ASSUME NEW j \in Job, NEW wiki \in Wiki, Apply(j, wiki) PROVE SafeInv'
  <2>1. PICK s \in Source : job[j].of = {s} /\ Exists(s)
    BY <1>10 DEF Apply
  <2>2. /\ job[j].at = "apply" /\ baseLock = j /\ baseLock' = Unheld
        /\ job[j].draft = cites /\ job[j].known \subseteq AllSources
        /\ job' = [job EXCEPT ![j] = IdleJob]
    BY <1>10, <2>1 DEF Apply
  <2>3. /\ \A i \in Job : i # j => job'[i] = job[i] /\ job[i].at \notin Editing
        /\ job'[j] = IdleJob
    BY <2>2
  <2>4. \A p \in Page : cites'[p] = wiki[p]
    BY <1>10, <2>1, <2>2 DEF Apply, Wiki
  <2>5. /\ \A q \in Source : q # s => source'[q] = source[q]
        /\ source'[s] # "absent" /\ (job[j].act # "remove" => source'[s] \in Shown)
    BY <1>10, <2>1 DEF Apply
  <2>6. \A p \in Page : wiki[p] \subseteq job[j].known /\ (job[j].act = "remove" => s \notin wiki[p])
    BY <1>10, <2>1 DEF Apply, MayWrite
  <2>7. CitationsExist'
    BY <2>2, <2>4, <2>5, <2>6
  <2>8. AboutInv'
    BY <2>3, <2>5
  <2>9. BaseLockInv' /\ KnownInv' /\ NoLostEdit'
    BY <2>2, <2>3
  <2> QED
    BY <2>7, <2>8, <2>9
<1>11. ASSUME NEW j \in Job, FailEdit(j) PROVE SafeInv'
  BY <1>11 DEF FailEdit
<1>12. ASSUME NEW j \in Job, RecordEditFailure(j) PROVE SafeInv'
  BY <1>12 DEF RecordEditFailure
<1>13. ASSUME NEW j \in Job, JobDies(j) PROVE SafeInv'
  BY <1>13 DEF JobDies
<1>14. CASE UNCHANGED wikiVars
  BY <1>14 DEF wikiVars
<1> QED
  BY <1>1, <1>2, <1>3, <1>4, <1>5, <1>6, <1>7, <1>8, <1>9, <1>10, <1>11, <1>12, <1>13, <1>14
     DEF WikiNext, RunJob

Busy(s) == source[s] \in {"pending", "ingesting", "removing"}

\* A step of a job about s answers for every row if it answers for that of s.
LEMMA OthersAnswered ==
  ASSUME AnsweredInv, UNCHANGED died,
         NEW j \in Job, NEW s \in Source, job[j].of = {s},
         \A i \in Job : i # j => job'[i] = job[i],
         \A q \in Source : q # s => source'[q] = source[q],
         ~died /\ Busy(s)' => \E i \in Job : Answers(i, s)'
  PROVE  AnsweredInv'
<1> SUFFICES ASSUME ~died, NEW q \in Source, Busy(q)' PROVE \E i \in Job : Answers(i, q)'
  BY DEF AnsweredInv, Busy
<1>1. CASE q = s
  BY <1>1
<1>2. CASE q # s
  <2>1. PICK i \in Job : Answers(i, q)
    BY <1>2 DEF AnsweredInv, Busy
  <2>2. i # j
    BY <1>2, <2>1 DEF Answers
  <2>3. Answers(i, q)'
    BY <1>2, <2>1, <2>2 DEF Answers
  <2> QED
    BY <2>3
<1> QED
  BY <1>1, <1>2

\* While its row stays as it is, the job that answers for it does, unless it moves.
LEMMA StillAnswered ==
  ASSUME AnsweredInv, NEW j \in Job, NEW s \in Source, ~died, Busy(s), source'[s] = source[s],
         \A i \in Job : i # j => job'[i] = job[i],
         ~Answers(j, s) \/ Answers(j, s)'
  PROVE  \E i \in Job : Answers(i, s)'
<1>1. PICK i \in Job : Answers(i, s)
  BY DEF AnsweredInv, Busy
<1>2. CASE i = j
  BY <1>1, <1>2
<1>3. CASE i # j
  BY <1>1, <1>3 DEF Answers
<1> QED
  BY <1>2, <1>3

\* A row is left with work under way only by a step that leaves a job to answer.
LEMMA WikiStepAnswered == WikiTypeOK /\ SafeInv /\ AnsweredInv /\ [WikiNext]_wikiVars => AnsweredInv'
<1> SUFFICES ASSUME WikiTypeOK, AboutInv, AnsweredInv, [WikiNext]_wikiVars PROVE AnsweredInv'
  BY DEF SafeInv
<1>0. ASSUME NEW j \in Job, job[j].at # "off"
      PROVE  \E s \in Source : job[j].of = {s} /\ source[s] # "absent"
  BY <1>0 DEF AboutInv
<1> USE DEF WikiTypeOK, Exists, Shown, Status, Editing, Written, EndsInFailure, IdleJob, Ask
<1>1. ASSUME NEW j \in Job, NEW s \in Source, Add(j, s) PROVE AnsweredInv'
  BY <1>1 DEF Add, AnsweredInv, Answers
<1>2. ASSUME NEW j \in Job, NEW s \in Source, NEW act \in {"ingest", "remove"}, RequestJob(j, s, act)
      PROVE  AnsweredInv'
  BY <1>2 DEF RequestJob, AnsweredInv, Answers
<1>3. ASSUME NEW j \in Job, Mark(j) PROVE AnsweredInv'
  <2>1. PICK s \in Source : job[j].of = {s}
    BY <1>0, <1>3 DEF Mark
  <2>2. /\ \A i \in Job : i # j => job'[i] = job[i]
        /\ \A q \in Source : q # s => source'[q] = source[q]
        /\ ~Answers(j, s) /\ died' = died
    BY <1>3, <2>1 DEF Mark, Answers
  <2>3. ASSUME ~died, Busy(s)' PROVE \E i \in Job : Answers(i, s)'
    <3>1. Exists(s)
      BY <1>3, <2>1, <2>3 DEF Mark, Busy
    <3> DEFINE Marked == Written(s, job[j].seen, IF job[j].act = "remove" THEN "removing" ELSE "pending")
    <3>5. /\ job' = [job EXCEPT ![j] = [job[j] EXCEPT !.at = "read", !.seen = "absent"]]
          /\ source' = [source EXCEPT ![s] = Marked]
      BY <1>3, <2>1, <3>1 DEF Mark
    <3>2. /\ job'[j].at = "read" /\ job'[j].of = {s} /\ job'[j].act = job[j].act
          /\ source'[s] = Marked
      BY <2>1, <3>5
    <3>3. CASE job[j].act = "remove" \/ source'[s] # "removing"
      BY <3>2, <3>3 DEF Answers
    <3>4. CASE job[j].act # "remove" /\ source'[s] = "removing"
      <4>1. source'[s] = source[s] /\ Busy(s)
        BY <3>2, <3>4 DEF Busy
      <4> QED
        BY <2>2, <2>3, <4>1, StillAnswered
    <3> QED
      BY <3>3, <3>4
  <2> QED
    BY <2>1, <2>2, <2>3, OthersAnswered
<1>4. CASE DeleteBase
  BY <1>4 DEF DeleteBase, AnsweredInv, Answers
<1>5. ASSUME NEW j \in Job, Read(j) PROVE AnsweredInv'
  <2>1. PICK s \in Source : job[j].of = {s}
    BY <1>0, <1>5 DEF Read
  <2>2. /\ \A i \in Job : i # j => job'[i] = job[i]
        /\ source' = source /\ died' = died
    BY <1>5, <2>1 DEF Read
  <2>3. ASSUME ~died, Busy(s)' PROVE ~Answers(j, s) \/ Answers(j, s)'
    <3>1. Exists(s)
      BY <2>2, <2>3 DEF Busy
    <3>2. job' = [job EXCEPT ![j] = [job[j] EXCEPT !.at = "wait", !.seen = source[s]]]
      BY <1>5, <2>1, <3>1 DEF Read
    <3>3. /\ job'[j].at = "wait" /\ job'[j].of = {s} /\ job'[j].act = job[j].act
          /\ job'[j].seen = source[s] /\ job[j].at = "read"
      BY <1>5, <2>1, <3>2 DEF Read
    <3> QED
      BY <2>1, <2>2, <3>3 DEF Answers
  <2>4. ASSUME ~died, Busy(s)' PROVE \E i \in Job : Answers(i, s)'
    BY <2>2, <2>3, <2>4, StillAnswered DEF Busy
  <2> QED
    BY <2>1, <2>2, <2>4, OthersAnswered
<1>6. ASSUME NEW j \in Job, Enter(j) PROVE AnsweredInv'
  <2>1. PICK s \in Source : job[j].of = {s}
    BY <1>0, <1>6 DEF Enter
  <2>2. /\ \A i \in Job : i # j => job'[i] = job[i]
        /\ source' = source /\ died' = died
    BY <1>6, <2>1 DEF Enter
  <2>3. ASSUME ~died, Busy(s)' PROVE ~Answers(j, s) \/ Answers(j, s)'
    BY <1>6, <2>1, <2>2, <2>3 DEF Enter, Refused, Answers, Busy
  <2>4. ASSUME ~died, Busy(s)' PROVE \E i \in Job : Answers(i, s)'
    BY <2>2, <2>3, <2>4, StillAnswered DEF Busy
  <2> QED
    BY <2>1, <2>2, <2>4, OthersAnswered
<1>7. ASSUME NEW j \in Job, TimeOut(j) PROVE AnsweredInv'
  <2>1. PICK s \in Source : job[j].of = {s}
    BY <1>0, <1>7 DEF TimeOut
  <2>2. /\ \A i \in Job : i # j => job'[i] = job[i]
        /\ source' = source /\ died' = died /\ Answers(j, s)'
    BY <1>7, <2>1 DEF TimeOut, Answers
  <2> QED
    BY <2>1, <2>2, OthersAnswered
<1>8. ASSUME NEW j \in Job, BeginEdit(j) PROVE AnsweredInv'
  <2>1. PICK s \in Source : job[j].of = {s}
    BY <1>0, <1>8 DEF BeginEdit
  <2> DEFINE Shows == Written(s, job[j].seen, IF job[j].act = "remove" THEN "removing" ELSE "ingesting")
  <2>2. /\ job[j].at = "begin" /\ died' = died
        /\ source' = [source EXCEPT ![s] = Shows]
        /\ job' = [job EXCEPT ![j] = [job[j] EXCEPT !.at = "load", !.seen = Shows]]
    BY <1>8, <2>1 DEF BeginEdit
  <2>3. /\ \A i \in Job : i # j => job'[i] = job[i]
        /\ \A q \in Source : q # s => source'[q] = source[q]
        /\ job'[j].of = {s} /\ job'[j].at = "load" /\ job'[j].act = job[j].act
        /\ job'[j].seen = source'[s] /\ source'[s] = Shows
    BY <2>1, <2>2
  <2>4. ASSUME ~died, Busy(s)' PROVE \E i \in Job : Answers(i, s)'
    <3>1. CASE job[j].act = "remove" \/ source'[s] # "removing"
      BY <2>3, <2>4, <3>1 DEF Answers, Busy
    <3>2. CASE job[j].act # "remove" /\ source'[s] = "removing"
      <4>1. source'[s] = source[s] /\ Busy(s) /\ ~Answers(j, s)
        BY <2>2, <2>3, <3>2 DEF Busy, Answers
      <4> QED
        BY <2>3, <2>4, <4>1, StillAnswered
    <3> QED
      BY <3>1, <3>2
  <2> QED
    BY <2>1, <2>2, <2>3, <2>4, OthersAnswered
<1>9. ASSUME NEW j \in Job, Load(j) PROVE AnsweredInv'
  <2>1. PICK s \in Source : job[j].of = {s}
    BY <1>0, <1>9 DEF Load
  <2>2. /\ job[j].at = "load"
        /\ job' = [job EXCEPT ![j] = [job[j] EXCEPT !.at = "apply", !.draft = cites, !.known = AllSources]]
        /\ source' = source /\ died' = died
    BY <1>9 DEF Load
  <2>3. /\ \A i \in Job : i # j => job'[i] = job[i]
        /\ ~Answers(j, s) \/ Answers(j, s)'
    BY <2>1, <2>2 DEF Answers
  <2>4. ASSUME ~died, Busy(s)' PROVE \E i \in Job : Answers(i, s)'
    BY <2>2, <2>3, <2>4, StillAnswered DEF Busy
  <2> QED
    BY <2>1, <2>2, <2>3, <2>4, OthersAnswered
<1>10. ASSUME NEW j \in Job, NEW wiki \in Wiki, Apply(j, wiki) PROVE AnsweredInv'
  <2>1. PICK s \in Source : job[j].of = {s}
    BY <1>0, <1>10 DEF Apply
  <2>2. /\ job[j].at = "apply" /\ died' = died
        /\ source' = [source EXCEPT ![s] =
             IF job[j].act = "remove" THEN "gone" ELSE Written(s, job[j].seen, "ready")]
        /\ \A i \in Job : i # j => job'[i] = job[i]
    BY <1>10, <2>1 DEF Apply
  <2>3. ASSUME ~died, Busy(s)' PROVE \E i \in Job : Answers(i, s)'
    <3>1. source'[s] = source[s] /\ Busy(s) /\ ~Answers(j, s)
      BY <2>2, <2>3 DEF Busy, Answers
    <3> QED
      BY <2>2, <2>3, <3>1, StillAnswered
  <2>4. \A q \in Source : q # s => source'[q] = source[q]
    BY <2>2
  <2> QED
    BY <2>1, <2>2, <2>3, <2>4, OthersAnswered
<1>11. ASSUME NEW j \in Job, FailEdit(j) PROVE AnsweredInv'
  <2>1. PICK s \in Source : job[j].of = {s}
    BY <1>0, <1>11 DEF FailEdit
  <2>2. /\ \A i \in Job : i # j => job'[i] = job[i]
        /\ source' = source /\ died' = died /\ Answers(j, s)'
    BY <1>11, <2>1 DEF FailEdit, Answers
  <2> QED
    BY <2>1, <2>2, OthersAnswered
<1>12. ASSUME NEW j \in Job, RecordEditFailure(j) PROVE AnsweredInv'
  <2>1. PICK s \in Source : job[j].of = {s}
    BY <1>0, <1>12 DEF RecordEditFailure
  <2>2. /\ \A i \in Job : i # j => job'[i] = job[i]
        /\ \A q \in Source : q # s => source'[q] = source[q]
        /\ ~Busy(s)' /\ died' = died
    BY <1>12, <2>1 DEF RecordEditFailure, Busy
  <2> QED
    BY <2>1, <2>2, OthersAnswered
<1>13. ASSUME NEW j \in Job, JobDies(j) PROVE AnsweredInv'
  BY <1>13 DEF JobDies, AnsweredInv
<1>14. CASE UNCHANGED wikiVars
  BY <1>14 DEF wikiVars, AnsweredInv, Answers
<1> QED
  BY <1>1, <1>2, <1>3, <1>4, <1>5, <1>6, <1>7, <1>8, <1>9, <1>10, <1>11, <1>12, <1>13, <1>14
     DEF WikiNext, RunJob

\* The invariant holds in every reachable state of the knowledge base.
LEMMA WikiInvariant == WikiSpec => []WikiInv
<1>1. WikiInit => WikiInv
  BY WikiInitInv
<1>2. WikiInv /\ [WikiNext]_wikiVars => WikiInv'
  BY WikiStepTyped, WikiStepSafe, WikiStepAnswered DEF WikiInv, SafeInv
<1> QED
  BY <1>1, <1>2, PTL DEF WikiSpec

\* Every variable of the knowledge base stays within its type.
THEOREM WikiTypeCorrect == WikiSpec => []WikiTypeOK
<1>1. WikiInv => WikiTypeOK
  BY DEF WikiInv
<1> QED
  BY <1>1, WikiInvariant, PTL

\* Whatever ingests and removals overlap, fail or die, no page of the wiki cites a
\* source whose removal went through.
THEOREM NoDanglingCitation == WikiSpec => []CitationsExist
<1>1. WikiInv => CitationsExist
  BY DEF WikiInv
<1> QED
  BY <1>1, WikiInvariant, PTL

\* What KnowledgeIngestService writes back is an edit of the pages as they are.
THEOREM NoEditIsLost == WikiSpec => []NoLostEdit
<1>1. WikiInv => NoLostEdit
  BY DEF WikiInv
<1> QED
  BY <1>1, WikiInvariant, PTL

\* A row reads as work under way only while a job is there to settle it, or when a
\* process has died: requests and jobs that overlap on it never forget it.
THEOREM NothingIsForgotten == WikiSpec => []NothingLeftHanging
<1>1. WikiInv => NothingLeftHanging
  BY DEF WikiInv, AnsweredInv, Answers, NothingLeftHanging, Editing
<1> QED
  BY <1>1, WikiInvariant, PTL

=============================================================================
