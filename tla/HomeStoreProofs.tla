--------------------------- MODULE HomeStoreProofs ---------------------------
(***************************************************************************)
(* Proofs about HomeStore, for any number of snapshots, actors and faults: *)
(* HomeOK is inductive, and the safety properties of the store of Home     *)
(* snapshots follow from it.                                               *)
(***************************************************************************)
EXTENDS HomeStore, FiniteSetTheorems, TLAPS

(* Whoever runs a job holds operation.lock.                                *)
LEMMA OneJobAtATime ==
  ASSUME HomeAssumption, HomeOK, NEW a \in Actors, ~At(a, "idle")
  PROVE  /\ homeLock = a /\ homeLock # NoActor
         /\ \A b \in Actors \ {a} : At(b, "idle")
         /\ job[a] \in Jobs /\ job[a].id \in Ids /\ Exists(job[a].id)
         /\ rec[job[a].id] \in Records /\ ValidRecord(rec[job[a].id])
  BY DEF HomeAssumption, HomeOK, HoldsLocks, TypeOK, Exists

JobFault(a) == CreateFails(a) \/ BreakUnrecorded(a) \/ BreakDirectoryFails(a) \/ JobEnds(a)
JobStep(a) == StoreStep(a) \/ JobFault(a)

LEMMA JobStepIsActive ==
  ASSUME NEW a \in Actors, JobStep(a) PROVE ~At(a, "idle")
  <1>1. CASE CreateDirectory(a)
    BY <1>1 DEF CreateDirectory, Goto, At
  <1>2. CASE CreateSnapshot(a)
    BY <1>2 DEF CreateSnapshot, Goto, At
  <1>3. CASE CreateReady(a)
    BY <1>3 DEF CreateReady, Finish, WriteRecord, At
  <1>4. CASE BreakRecord(a) \/ BreakUnrecorded(a)
    BY <1>4 DEF BreakRecord, BreakUnrecorded, AfterBreakRecord, Goto, Finish, WriteRecord, At
  <1>5. CASE BreakDirectory(a) \/ BreakDirectoryFails(a)
    BY <1>5 DEF BreakDirectory, BreakDirectoryFails, AfterBreakDirectory, Goto, Finish, At
  <1>6. CASE DeleteLock(a)
    BY <1>6 DEF DeleteLock, Goto, At
  <1>7. CASE DeleteMark(a)
    BY <1>7 DEF DeleteMark, Goto, WriteRecord, At
  <1>8. CASE DeleteRefused(a)
    BY <1>8 DEF DeleteRefused, Finish, At
  <1>9. CASE DeleteDirectory(a)
    BY <1>9 DEF DeleteDirectory, Goto, At
  <1>10. CASE DeleteRecord(a)
    BY <1>10 DEF DeleteRecord, Finish, At
  <1>11. CASE CreateFails(a)
    BY <1>11 DEF CreateFails, Goto, WriteRecord, At
  <1>12. CASE JobEnds(a)
    BY <1>12 DEF JobEnds, Finish, At
  <1> QED
    BY <1>1, <1>2, <1>3, <1>4, <1>5, <1>6, <1>7, <1>8, <1>9, <1>10, <1>11, <1>12 DEF JobStep, JobFault, StoreStep

(* A step of a job: it changes its own record and directory, keeps its     *)
(* locks until it is over, and forgets no torn write.                      *)
LEMMA JobStepEffect ==
  ASSUME HomeAssumption, HomeOK, NEW a \in Actors, JobStep(a)
  PROVE  /\ \A j \in Ids : j # job[a].id => rec'[j] = rec[j] /\ dir'[j] = dir[j]
         /\ \A b \in Actors \ {a} : job'[b] = job[b] /\ At(b, "idle")
         /\ \/ job'[a] = Idle /\ homeLock' = NoActor
            \/ job'[a].step # "idle" /\ job'[a].id = job[a].id /\ homeLock' = a
         /\ fresh' = fresh
         /\ torn' = torn \/ torn' = torn \cup {job[a].id}
         /\ startLock # a => startLock' = startLock \/ (At(a, "dLock") /\ startLock = NoActor)
  <1>1. /\ ~At(a, "idle") /\ homeLock = a /\ homeLock # NoActor
        /\ \A b \in Actors \ {a} : At(b, "idle")
        /\ job[a] \in Jobs /\ job[a].id \in Ids
    BY JobStepIsActive, OneJobAtATime
  <1>2. rec \in [Ids -> Records \cup {None}] /\ dir \in [Ids -> {"none", "empty", "home"}]
        /\ job \in [Actors -> Jobs]
    BY DEF HomeOK, TypeOK
  <1>3. CASE CreateDirectory(a)
    BY <1>1, <1>2, <1>3 DEF CreateDirectory, Goto, At, Jobs, Idle
  <1>4. CASE CreateSnapshot(a)
    BY <1>1, <1>2, <1>4 DEF CreateSnapshot, Goto, At, Jobs, Idle
  <1>5. CASE CreateReady(a)
    BY <1>1, <1>2, <1>5 DEF CreateReady, Finish, WriteRecord, At, Jobs, Idle
  <1>6. CASE BreakRecord(a) \/ BreakUnrecorded(a)
    BY <1>1, <1>2, <1>6 DEF BreakRecord, BreakUnrecorded, AfterBreakRecord, Goto, Finish, WriteRecord, At, Jobs, Idle
  <1>7. CASE BreakDirectory(a) \/ BreakDirectoryFails(a)
    BY <1>1, <1>2, <1>7 DEF BreakDirectory, BreakDirectoryFails, AfterBreakDirectory, Goto, Finish, At, Jobs, Idle
  <1>8. CASE DeleteLock(a)
    BY <1>1, <1>2, <1>8 DEF DeleteLock, Goto, At, Jobs, Idle
  <1>9. CASE DeleteMark(a)
    BY <1>1, <1>2, <1>9 DEF DeleteMark, Goto, WriteRecord, At, Jobs, Idle
  <1>10. CASE DeleteRefused(a)
    BY <1>1, <1>2, <1>10 DEF DeleteRefused, Finish, At, Jobs, Idle
  <1>11. CASE DeleteDirectory(a)
    BY <1>1, <1>2, <1>11 DEF DeleteDirectory, Goto, At, Jobs, Idle
  <1>12. CASE DeleteRecord(a)
    BY <1>1, <1>2, <1>12 DEF DeleteRecord, Finish, At, Jobs, Idle
  <1>13. CASE CreateFails(a)
    BY <1>1, <1>2, <1>13 DEF CreateFails, Goto, WriteRecord, At, Jobs, Idle
  <1>14. CASE JobEnds(a)
    BY <1>1, <1>2, <1>14 DEF JobEnds, Finish, At, Jobs, Idle
  <1> QED
    BY <1>3, <1>4, <1>5, <1>6, <1>7, <1>8, <1>9, <1>10, <1>11, <1>12, <1>13, <1>14 DEF JobStep, JobFault, StoreStep

(* A failed creation leaves the record, or it is Ready after all.          *)
LEMMA CreateFailsEffect ==
  ASSUME HomeAssumption, HomeOK, NEW a \in Actors, CreateFails(a)
  PROVE  /\ job[a].step \in CreateSteps /\ dir' = dir
         /\ job' = [job EXCEPT ![a].step = IF rec[job[a].id].kind = "Imported"
                                             THEN "breakDir" ELSE "breakRecord"]
         /\ UNCHANGED <<homeLock, startLock, fresh>>
         /\ \/ UNCHANGED <<rec, torn>>
            \/ /\ At(a, "commit") /\ torn' = torn \cup {job[a].id}
               /\ rec'[job[a].id] \in Records /\ rec'[job[a].id].state = "Ready"
               /\ rec'[job[a].id].kind = rec[job[a].id].kind /\ ValidRecord(rec'[job[a].id])
               /\ rec'[job[a].id] # None /\ rec' \in [Ids -> Records \cup {None}]
               /\ \A j \in Ids : j # job[a].id => rec'[j] = rec[j]
  <1>1. job[a].id \in Ids /\ rec[job[a].id] \in Records /\ TypeOK
    BY OneJobAtATime DEF CreateFails, At, HomeOK
  <1>2. /\ job[a].step \in CreateSteps /\ dir' = dir
        /\ job' = [job EXCEPT ![a].step = IF rec[job[a].id].kind = "Imported"
                                             THEN "breakDir" ELSE "breakRecord"]
        /\ UNCHANGED <<homeLock, startLock, fresh>>
    BY DEF CreateFails, Goto, CreateSteps
  <1>3. CASE UNCHANGED <<rec, torn>>
    BY <1>2, <1>3
  <1>4. CASE /\ At(a, "commit") /\ torn' = torn \cup {job[a].id}
             /\ WriteRecord(job[a].id, [rec[job[a].id] EXCEPT !.state = "Ready", !.uuid = TRUE])
    <2> DEFINE i == job[a].id
               r == [rec[i] EXCEPT !.state = "Ready", !.uuid = TRUE]
    <2>1. rec' = [rec EXCEPT ![i] = r] /\ rec \in [Ids -> Records \cup {None}] /\ None \notin Records
          /\ ValidRecord(r)
      BY <1>1, <1>4 DEF HomeAssumption, TypeOK, WriteRecord
    <2>2. r \in Records /\ r.state = "Ready" /\ r.kind = rec[i].kind
      BY <1>1 DEF Records, States
    <2>3. rec'[i] = r /\ rec' \in [Ids -> Records \cup {None}]
          /\ \A j \in Ids : j # i => rec'[j] = rec[j]
      <3> HIDE DEF r
      <3> QED
        BY <1>1, <2>1, <2>2
    <2> HIDE DEF r
    <2> QED
      BY <1>2, <1>4, <2>1, <2>2, <2>3 DEF Exists
  <1> QED
    BY <1>3, <1>4 DEF CreateFails

(* A step of a job keeps the types.                                        *)
LEMMA JobStepTyped ==
  ASSUME HomeAssumption, HomeOK, NEW a \in Actors, JobStep(a)
  PROVE  /\ rec' \in [Ids -> Records \cup {None}]
         /\ dir' \in [Ids -> {"none", "empty", "home"}]
         /\ job' \in [Actors -> Jobs]
         /\ homeLock' \in Actors \cup {NoActor} /\ startLock' \in Actors \cup {NoActor}
         /\ fresh' \subseteq Ids /\ torn' \subseteq Ids
         /\ \A i \in Ids : Exists(i)' => ValidRecord(rec'[i])
  <1>1. /\ job[a] \in Jobs /\ job[a].id \in Ids
        /\ rec[job[a].id] \in Records /\ ValidRecord(rec[job[a].id])
    BY JobStepIsActive, OneJobAtATime
  <1>2. Idle \in Jobs
    BY DEF Idle, Jobs, Modes
  <1>3. TypeOK
    BY DEF HomeOK
  <1>4. CASE CreateDirectory(a)
    BY <1>1, <1>2, <1>3, <1>4 DEF CreateDirectory, Goto, TypeOK, At, Jobs, Exists, Records, States
  <1>5. CASE CreateSnapshot(a)
    BY <1>1, <1>2, <1>3, <1>5 DEF CreateSnapshot, Goto, TypeOK, At, Jobs, Exists, Records, States
  <1>6. CASE CreateReady(a)
    BY <1>1, <1>2, <1>3, <1>6 DEF CreateReady, Finish, WriteRecord, TypeOK, At, Jobs, Exists, Records, States
  <1>7. CASE BreakRecord(a) \/ BreakUnrecorded(a)
    BY <1>1, <1>2, <1>3, <1>7 DEF BreakRecord, BreakUnrecorded, AfterBreakRecord, Goto, Finish, WriteRecord, TypeOK, At, Jobs, Exists, Records, States
  <1>8. CASE BreakDirectory(a) \/ BreakDirectoryFails(a)
    BY <1>1, <1>2, <1>3, <1>8 DEF BreakDirectory, BreakDirectoryFails, AfterBreakDirectory, Goto, Finish, TypeOK, At, Jobs, Exists, Records, States
  <1>9. CASE DeleteLock(a)
    BY <1>1, <1>2, <1>3, <1>9 DEF DeleteLock, Goto, TypeOK, At, Jobs, Exists, Records, States
  <1>10. CASE DeleteMark(a)
    BY <1>1, <1>2, <1>3, <1>10 DEF DeleteMark, Goto, WriteRecord, TypeOK, At, Jobs, Exists, Records, States
  <1>11. CASE DeleteRefused(a)
    BY <1>1, <1>2, <1>3, <1>11 DEF DeleteRefused, Finish, TypeOK, At, Jobs, Exists, Records, States
  <1>12. CASE DeleteDirectory(a)
    BY <1>1, <1>2, <1>3, <1>12 DEF DeleteDirectory, Goto, TypeOK, At, Jobs, Exists, Records, States
  <1>13. CASE DeleteRecord(a)
    BY <1>1, <1>2, <1>3, <1>13 DEF DeleteRecord, Finish, TypeOK, At, Jobs, Exists, Records, States
  <1>14. CASE CreateFails(a)
    BY <1>1, <1>3, <1>14, CreateFailsEffect, SMTT(30) DEF TypeOK, At, Jobs, Exists, ValidRecord
  <1>15. CASE JobEnds(a)
    BY <1>1, <1>2, <1>3, <1>15 DEF JobEnds, Finish, TypeOK, At, Jobs, Exists, Records, States
  <1> QED
    BY <1>4, <1>5, <1>6, <1>7, <1>8, <1>9, <1>10, <1>11, <1>12, <1>13, <1>14, <1>15 DEF JobStep, JobFault, StoreStep

(* What a job has done so far is as its next step finds it.                *)
LEMMA JobStepKeepsJobs ==
  ASSUME HomeAssumption, HomeOK, NEW a \in Actors, JobStep(a)
  PROVE  \A b \in Actors : HoldsLocks(b)' /\ JobOK(b)'
  <1>1. \A b \in Actors \ {a} : HoldsLocks(b)' /\ JobOK(b)'
    BY JobStepEffect DEF HoldsLocks, JobOK, At, CreateSteps, BreakSteps, MarkedSteps
  <1>2. /\ job[a] \in Jobs /\ job[a].id \in Ids /\ homeLock = a
        /\ rec[job[a].id] \in Records /\ ValidRecord(rec[job[a].id])
    BY JobStepIsActive, OneJobAtATime
  <1>3. HoldsLocks(a) /\ JobOK(a) /\ TypeOK
    BY DEF HomeOK
  <1>4. SUFFICES HoldsLocks(a)' /\ JobOK(a)'
    BY <1>1
  <1>5. None \notin Records
    BY DEF HomeAssumption
  <1>6. CASE CreateDirectory(a)
    BY <1>2, <1>3, <1>5, <1>6 DEF CreateDirectory, Goto, TypeOK, HoldsLocks, JobOK, At, Jobs, Idle, Exists,
       Records, CreateSteps, BreakSteps, MarkedSteps
  <1>7. CASE CreateSnapshot(a)
    BY <1>2, <1>3, <1>5, <1>7 DEF CreateSnapshot, Goto, TypeOK, HoldsLocks, JobOK, At, Jobs, Idle, Exists,
       Records, CreateSteps, BreakSteps, MarkedSteps
  <1>8. CASE CreateReady(a)
    BY <1>2, <1>3, <1>5, <1>8 DEF CreateReady, Finish, WriteRecord, TypeOK, HoldsLocks, JobOK, At, Jobs, Idle, Exists,
       Records, CreateSteps, BreakSteps, MarkedSteps
  <1>9. CASE BreakRecord(a)
    <2>1. rec'[job[a].id] = [rec[job[a].id] EXCEPT !.state = "Broken"]
      BY <1>2, <1>3, <1>9 DEF BreakRecord, WriteRecord, TypeOK
    <2>2. rec'[job[a].id] # None /\ rec'[job[a].id].state = "Broken"
      BY <1>2, <1>5, <2>1 DEF Exists, Records, States
    <2> QED
      BY <1>2, <1>3, <1>9, <2>2 DEF BreakRecord, AfterBreakRecord, Goto, Finish, TypeOK, HoldsLocks, JobOK, At, Jobs,
         Idle, Exists, CreateSteps, BreakSteps, MarkedSteps
  <1>10. CASE BreakDirectory(a) \/ BreakDirectoryFails(a)
    BY <1>2, <1>3, <1>5, <1>10 DEF BreakDirectory, BreakDirectoryFails, AfterBreakDirectory, Goto, Finish, TypeOK, HoldsLocks, JobOK, At, Jobs, Idle, Exists,
       Records, CreateSteps, BreakSteps, MarkedSteps
  <1>11. CASE DeleteLock(a)
    BY <1>2, <1>3, <1>5, <1>11 DEF DeleteLock, Goto, TypeOK, HoldsLocks, JobOK, At, Jobs, Idle, Exists,
       Records, CreateSteps, BreakSteps, MarkedSteps
  <1>12. CASE DeleteMark(a)
    <2>1. rec'[job[a].id] = [rec[job[a].id] EXCEPT !.state = "Deleting"]
      BY <1>2, <1>3, <1>12 DEF DeleteMark, WriteRecord, TypeOK
    <2>2. rec'[job[a].id] # None /\ rec'[job[a].id].state = "Deleting"
      BY <1>2, <1>5, <2>1 DEF Exists, Records, States
    <2> QED
      BY <1>2, <1>3, <1>12, <2>2 DEF DeleteMark, Goto, TypeOK, HoldsLocks, JobOK, At, Jobs,
         Exists, CreateSteps, BreakSteps, MarkedSteps
  <1>13. CASE DeleteRefused(a)
    BY <1>2, <1>3, <1>5, <1>13 DEF DeleteRefused, Finish, TypeOK, HoldsLocks, JobOK, At, Jobs, Idle, Exists,
       Records, CreateSteps, BreakSteps, MarkedSteps
  <1>14. CASE DeleteDirectory(a)
    BY <1>2, <1>3, <1>5, <1>14 DEF DeleteDirectory, Goto, TypeOK, HoldsLocks, JobOK, At, Jobs, Idle, Exists,
       Records, CreateSteps, BreakSteps, MarkedSteps
  <1>15. CASE DeleteRecord(a)
    BY <1>2, <1>3, <1>5, <1>15 DEF DeleteRecord, Finish, TypeOK, HoldsLocks, JobOK, At, Jobs, Idle, Exists,
       Records, CreateSteps, BreakSteps, MarkedSteps
  <1>16. CASE CreateFails(a)
    BY <1>2, <1>3, <1>16, CreateFailsEffect DEF TypeOK, HoldsLocks, JobOK, At, Jobs, Exists,
       Records, CreateSteps, BreakSteps, MarkedSteps
  <1>17. CASE JobEnds(a)
    BY <1>2, <1>3, <1>5, <1>17 DEF JobEnds, Finish, TypeOK, HoldsLocks, JobOK, At, Jobs, Idle, Exists,
       Records, CreateSteps, BreakSteps, MarkedSteps
  <1>18. CASE BreakUnrecorded(a)
    BY <1>2, <1>3, <1>5, <1>18 DEF BreakUnrecorded, AfterBreakRecord, Goto, Finish, TypeOK, HoldsLocks,
       JobOK, At, Jobs, Idle, Exists, Records, CreateSteps, BreakSteps, MarkedSteps
  <1> QED
    BY <1>6, <1>7, <1>8, <1>9, <1>10, <1>11, <1>12, <1>13, <1>14, <1>15, <1>16, <1>17, <1>18 DEF JobStep, JobFault, StoreStep

(* A job that makes a record Ready has made its snapshot, and one that     *)
(* takes the snapshot has taken Ready from the record before.              *)
LEMMA JobStepKeepsRecords ==
  ASSUME HomeAssumption, HomeOK, NEW a \in Actors, JobStep(a)
  PROVE  RecordsOK' /\ CatchUpOK'
  <1>1. /\ job[a] \in Jobs /\ job[a].id \in Ids
        /\ rec[job[a].id] \in Records /\ Exists(job[a].id)
        /\ \A b \in Actors \ {a} : At(b, "idle")
    BY JobStepIsActive, OneJobAtATime
  <1>2. JobOK(a) /\ TypeOK /\ RecordsOK /\ CatchUpOK
    BY DEF HomeOK
  <1>3. CASE CreateDirectory(a)
    BY <1>1, <1>2, <1>3 DEF CreateDirectory, Goto, TypeOK, JobOK, At, Jobs, Idle, Exists,
       Records, CreateSteps, BreakSteps, MarkedSteps, RecordsOK, CatchUpOK, CaughtUp, Verified
  <1>4. CASE CreateSnapshot(a)
    BY <1>1, <1>2, <1>4 DEF CreateSnapshot, Goto, TypeOK, JobOK, At, Jobs, Idle, Exists,
       Records, CreateSteps, BreakSteps, MarkedSteps, RecordsOK, CatchUpOK, CaughtUp, Verified
  <1>5. CASE CreateReady(a)
    BY <1>1, <1>2, <1>5 DEF CreateReady, Finish, WriteRecord, TypeOK, JobOK, At, Jobs, Idle, Exists,
       Records, CreateSteps, BreakSteps, MarkedSteps, RecordsOK, CatchUpOK, CaughtUp, Verified
  <1>6. CASE BreakRecord(a)
    <2>1. /\ rec' = [rec EXCEPT ![job[a].id] = [rec[job[a].id] EXCEPT !.state = "Broken"]]
          /\ UNCHANGED <<dir, fresh, torn>>
      BY <1>6 DEF BreakRecord, AfterBreakRecord, WriteRecord
    <2>2. /\ rec'[job[a].id].state = "Broken" /\ rec'[job[a].id].kind = rec[job[a].id].kind
          /\ \A j \in Ids : j # job[a].id => rec'[j] = rec[j]
      BY <1>1, <1>2, <2>1 DEF TypeOK, Records
    <2>3. \A b \in Actors : job'[b].step \notin CreateSteps
      BY <1>1, <1>2, <1>6 DEF BreakRecord, AfterBreakRecord, Goto, Finish, TypeOK, At, Idle,
         Jobs, CreateSteps
    <2>4. \A j \in Ids : CaughtUp(j)' => CaughtUp(j)
      BY <2>1, <2>2 DEF CaughtUp, Verified, Exists
    <2>5. RecordsOK'
      BY <1>1, <1>2, <2>1, <2>2 DEF RecordsOK, Exists
    <2> QED
      BY <1>2, <2>3, <2>4, <2>5 DEF CatchUpOK
  <1>15. CASE BreakUnrecorded(a)
    BY <1>1, <1>2, <1>15 DEF BreakUnrecorded, AfterBreakRecord, Goto, Finish, TypeOK, JobOK, At, Jobs,
       Idle, Exists, Records, CreateSteps, BreakSteps, MarkedSteps, RecordsOK, CatchUpOK, CaughtUp, Verified
  <1>7. CASE BreakDirectory(a) \/ BreakDirectoryFails(a)
    BY <1>1, <1>2, <1>7 DEF BreakDirectory, BreakDirectoryFails, AfterBreakDirectory, Goto, Finish, TypeOK, JobOK, At, Jobs, Idle, Exists,
       Records, CreateSteps, BreakSteps, MarkedSteps, RecordsOK, CatchUpOK, CaughtUp, Verified
  <1>8. CASE DeleteLock(a)
    BY <1>1, <1>2, <1>8 DEF DeleteLock, Goto, TypeOK, JobOK, At, Jobs, Idle, Exists,
       Records, CreateSteps, BreakSteps, MarkedSteps, RecordsOK, CatchUpOK, CaughtUp, Verified
  <1>9. CASE DeleteMark(a)
    BY <1>1, <1>2, <1>9 DEF DeleteMark, Goto, WriteRecord, TypeOK, JobOK, At, Jobs, Idle, Exists,
       Records, CreateSteps, BreakSteps, MarkedSteps, RecordsOK, CatchUpOK, CaughtUp, Verified
  <1>10. CASE DeleteRefused(a)
    BY <1>1, <1>2, <1>10 DEF DeleteRefused, Finish, TypeOK, JobOK, At, Jobs, Idle, Exists,
       Records, CreateSteps, BreakSteps, MarkedSteps, RecordsOK, CatchUpOK, CaughtUp, Verified
  <1>11. CASE DeleteDirectory(a)
    BY <1>1, <1>2, <1>11 DEF DeleteDirectory, Goto, TypeOK, JobOK, At, Jobs, Idle, Exists,
       Records, CreateSteps, BreakSteps, MarkedSteps, RecordsOK, CatchUpOK, CaughtUp, Verified
  <1>12. CASE DeleteRecord(a)
    BY <1>1, <1>2, <1>12 DEF DeleteRecord, Finish, TypeOK, JobOK, At, Jobs, Idle, Exists,
       Records, CreateSteps, BreakSteps, MarkedSteps, RecordsOK, CatchUpOK, CaughtUp, Verified
  <1>13. CASE CreateFails(a)
    <2> DEFINE i == job[a].id
    <2>1. /\ i \in Ids /\ (At(a, "commit") => dir[i] = "home")
          /\ rec[i].kind = "Automatic" => \A j \in Ids : ~CaughtUp(j)
      BY <1>1, <1>2, <1>13, CreateFailsEffect DEF JobOK, CatchUpOK
    <2>2. \A b \in Actors : job'[b].step \notin CreateSteps
      <3>1. job'[a].step \in BreakSteps
        BY <1>1, <1>2, <1>13, CreateFailsEffect DEF TypeOK, Jobs, BreakSteps
      <3>2. \A b \in Actors \ {a} : job'[b] = job[b]
        BY <1>2, <1>13, CreateFailsEffect DEF TypeOK
      <3> QED
        BY <1>1, <3>1, <3>2 DEF At, CreateSteps, BreakSteps
    <2>3. dir' = dir /\ fresh' = fresh /\ torn \subseteq torn'
      BY <1>13, CreateFailsEffect
    <2>4. CASE rec' = rec
      BY <1>2, <2>1, <2>2, <2>3, <2>4 DEF RecordsOK, CatchUpOK, CaughtUp, Verified, Exists
    <2>5. CASE /\ At(a, "commit") /\ rec'[i].kind = rec[i].kind
               /\ \A j \in Ids : j # i => rec'[j] = rec[j]
      BY <1>1, <1>2, <2>1, <2>2, <2>3, <2>5 DEF RecordsOK, CatchUpOK, CaughtUp, Verified, Exists
    <2> QED
      BY <1>13, <2>4, <2>5, CreateFailsEffect
  <1>14. CASE JobEnds(a)
    BY <1>1, <1>2, <1>14 DEF JobEnds, Finish, TypeOK, JobOK, At, Jobs, Idle, Exists,
       Records, CreateSteps, BreakSteps, MarkedSteps, RecordsOK, CatchUpOK, CaughtUp, Verified
  <1> QED
    BY <1>3, <1>4, <1>5, <1>6, <1>7, <1>8, <1>9, <1>10, <1>11, <1>12, <1>13, <1>14, <1>15 DEF JobStep, JobFault, StoreStep

(* What a job may change, by the step it is at.                            *)
ChangingSteps == CreateSteps \cup BreakSteps \cup MarkedSteps
Marks(a) == At(a, "dCheck") /\ DeletionAllowed(job[a].id, job[a].mode)

LEMMA JobStepWays ==
  ASSUME HomeAssumption, HomeOK, NEW a \in Actors, JobStep(a)
  PROVE  /\ job'[a].step \in CreateSteps \cup BreakSteps =>
                job[a].step \in CreateSteps \cup BreakSteps
         /\ job'[a].step \in MarkedSteps => job[a].step \in MarkedSteps \/ Marks(a)
         /\ dir' # dir => job[a].step \in ChangingSteps
         /\ rec' # rec => job[a].step \in ChangingSteps \/ Marks(a)
         /\ torn' # torn => job[a].step \in CreateSteps
  <1>1. job[a] \in Jobs /\ job \in [Actors -> Jobs]
    BY DEF HomeOK, TypeOK
  <1>2. rec \in [Ids -> Records \cup {None}] /\ dir \in [Ids -> {"none", "empty", "home"}]
    BY DEF HomeOK, TypeOK
  <1>3. CASE CreateDirectory(a)
    BY <1>1, <1>2, <1>3 DEF CreateDirectory, Goto, At, Jobs, Idle, Marks,
       ChangingSteps, CreateSteps, BreakSteps, MarkedSteps
  <1>4. CASE CreateSnapshot(a)
    BY <1>1, <1>2, <1>4 DEF CreateSnapshot, Goto, At, Jobs, Idle, Marks,
       ChangingSteps, CreateSteps, BreakSteps, MarkedSteps
  <1>5. CASE CreateReady(a)
    BY <1>1, <1>2, <1>5 DEF CreateReady, Finish, WriteRecord, At, Jobs, Idle, Marks,
       ChangingSteps, CreateSteps, BreakSteps, MarkedSteps
  <1>6. CASE BreakRecord(a) \/ BreakUnrecorded(a)
    BY <1>1, <1>2, <1>6 DEF BreakRecord, BreakUnrecorded, AfterBreakRecord, Goto, Finish, WriteRecord, At, Jobs, Idle, Marks,
       ChangingSteps, CreateSteps, BreakSteps, MarkedSteps
  <1>7. CASE BreakDirectory(a) \/ BreakDirectoryFails(a)
    BY <1>1, <1>2, <1>7 DEF BreakDirectory, BreakDirectoryFails, AfterBreakDirectory, Goto, Finish, At, Jobs, Idle, Marks,
       ChangingSteps, CreateSteps, BreakSteps, MarkedSteps
  <1>8. CASE DeleteLock(a)
    BY <1>1, <1>2, <1>8 DEF DeleteLock, Goto, At, Jobs, Idle, Marks,
       ChangingSteps, CreateSteps, BreakSteps, MarkedSteps
  <1>9. CASE DeleteMark(a)
    BY <1>1, <1>2, <1>9 DEF DeleteMark, Goto, WriteRecord, At, Jobs, Idle, Marks,
       ChangingSteps, CreateSteps, BreakSteps, MarkedSteps
  <1>10. CASE DeleteRefused(a)
    BY <1>1, <1>2, <1>10 DEF DeleteRefused, Finish, At, Jobs, Idle, Marks,
       ChangingSteps, CreateSteps, BreakSteps, MarkedSteps
  <1>11. CASE DeleteDirectory(a)
    BY <1>1, <1>2, <1>11 DEF DeleteDirectory, Goto, At, Jobs, Idle, Marks,
       ChangingSteps, CreateSteps, BreakSteps, MarkedSteps
  <1>12. CASE DeleteRecord(a)
    BY <1>1, <1>2, <1>12 DEF DeleteRecord, Finish, At, Jobs, Idle, Marks,
       ChangingSteps, CreateSteps, BreakSteps, MarkedSteps
  <1>13. CASE CreateFails(a)
    BY <1>1, <1>2, <1>13 DEF CreateFails, Goto, WriteRecord, At, Jobs, Idle, Marks,
       ChangingSteps, CreateSteps, BreakSteps, MarkedSteps
  <1>14. CASE JobEnds(a)
    BY <1>1, <1>2, <1>14 DEF JobEnds, Finish, At, Jobs, Idle, Marks,
       ChangingSteps, CreateSteps, BreakSteps, MarkedSteps
  <1> QED
    BY <1>3, <1>4, <1>5, <1>6, <1>7, <1>8, <1>9, <1>10, <1>11, <1>12, <1>13, <1>14 DEF JobStep, JobFault, StoreStep

(* A job takes nothing that can be restored, but by a deletion that is     *)
(* allowed.                                                                *)
LEMMA JobStepKeepsSafe ==
  ASSUME HomeAssumption, HomeOK, NEW a \in Actors, JobStep(a), NEW j \in Ids, Safe(j),
         Marks(a) => j # job[a].id
  PROVE  Safe(j)'
  <1>1. CASE j # job[a].id
    BY <1>1, JobStepEffect DEF Safe, Verified, Exists
  <1>2. CASE j \in torn
    BY <1>2, JobStepEffect DEF Safe
  <1>3. CASE j = job[a].id /\ j \notin torn
    <2>1. Exists(j) /\ rec[j].state = "Ready" /\ dir[j] = "home"
      BY <1>3 DEF Safe, Verified
    <2>2. JobOK(a)
      BY DEF HomeOK
    <2>3. job[a].step \notin ChangingSteps
      BY <1>3, <2>1, <2>2 DEF JobOK, ChangingSteps
    <2>4. rec' = rec /\ dir' = dir
      BY <1>3, <2>3, JobStepWays
    <2> QED
      BY <2>1, <2>4 DEF Safe, Verified, Exists
  <1> QED
    BY <1>1, <1>2, <1>3

LEMMA JobStepKeepsWhole ==
  ASSUME HomeAssumption, HomeOK, NEW a \in Actors, JobStep(a), NEW j \in Ids, Whole(j),
         Marks(a) => j # job[a].id
  PROVE  Whole(j)'
  <1>1. Exists(j) /\ rec[j].state = "Ready" /\ dir[j] = "home" /\ j \notin torn
    BY DEF Whole, Verified
  <1>2. CASE j # job[a].id
    BY <1>1, <1>2, JobStepEffect DEF Whole, Verified, Exists
  <1>3. CASE j = job[a].id
    <2>1. JobOK(a)
      BY DEF HomeOK
    <2>2. job[a].step \notin ChangingSteps
      BY <1>1, <1>3, <2>1 DEF JobOK, ChangingSteps
    <2>3. rec' = rec /\ dir' = dir /\ torn' = torn
      BY <1>3, <2>2, JobStepWays DEF ChangingSteps
    <2> QED
      BY <1>1, <2>3 DEF Whole, Verified, Exists
  <1> QED
    BY <1>2, <1>3

LEMMA JobStepKeepsReader ==
  ASSUME HomeAssumption, HomeOK, NEW a \in Actors, JobStep(a), reader' = reader
  PROVE  ReaderOK'
  <1>1. /\ ReaderOK /\ job[a].id \in Ids
        /\ \A b \in Actors \ {a} : job'[b] = job[b] /\ At(b, "idle")
        /\ job'[a] = Idle \/ job'[a].id = job[a].id
        /\ torn \subseteq torn'
    BY JobStepIsActive, OneJobAtATime, JobStepEffect DEF HomeOK
  <1>2. Idle.step \notin CreateSteps \cup BreakSteps \cup MarkedSteps /\ "idle" \notin ChangingSteps
    BY DEF Idle, CreateSteps, BreakSteps, MarkedSteps, ChangingSteps
  <1>3. ASSUME reader.step # "closed", NEW b \in Actors, job'[b].id = reader.id,
               job'[b].step \in CreateSteps \cup BreakSteps
        PROVE  reader.id \in torn'
    <2>1. b = a
      BY <1>1, <1>2, <1>3 DEF At, ChangingSteps
    <2>2. job[a].step \in CreateSteps \cup BreakSteps /\ job[a].id = reader.id
      BY <1>1, <1>2, <1>3, <2>1, JobStepWays
    <2> QED
      BY <1>1, <1>3, <2>2 DEF ReaderOK
  <1>4. ASSUME reader.step \in {"leased", "open"}, NEW b \in Actors, job'[b].id = reader.id,
               job'[b].step \in MarkedSteps
        PROVE  FALSE
    <2>1. b = a
      BY <1>1, <1>2, <1>4 DEF At, ChangingSteps
    <2>2. (job[a].step \in MarkedSteps \/ Marks(a)) /\ job[a].id = reader.id
      BY <1>1, <1>2, <1>4, <2>1, JobStepWays
    <2> QED
      BY <1>1, <1>4, <2>2 DEF ReaderOK, Deleting, Marks, DeletionAllowed, MarkedSteps
  <1>5. ASSUME reader.step = "open", reader.id \notin torn', dir'[reader.id] # "home"
        PROVE  FALSE
    <2>1. reader.id \in Ids /\ dir[reader.id] = "home"
      BY <1>1, <1>5 DEF ReaderOK, OpenHomeExists
    <2>2. reader.id = job[a].id
      BY <1>5, <2>1, JobStepEffect
    <2>3. job[a].step \in ChangingSteps
      BY <1>5, <2>1, JobStepWays
    <2> QED
      BY <1>1, <1>5, <2>2, <2>3 DEF ReaderOK, ChangingSteps, Deleting, MarkedSteps
  <1>6. reader.step # "closed" => reader.id \in Ids
    BY <1>1 DEF ReaderOK
  <1> QED
    BY <1>3, <1>4, <1>5, <1>6 DEF ReaderOK, Deleting, MarkedSteps, OpenHomeExists

(* While the coordinator binds, start.lock keeps every deletion waiting.   *)
LEMMA JobStepKeepsCoordinator ==
  ASSUME HomeAssumption, HomeOK, NEW a \in Actors, JobStep(a), coord' = coord
  PROVE  CoordOK'
  <1>1. /\ CoordOK /\ Coord \in Actors /\ Coord # NoActor /\ HoldsLocks(a) /\ ~At(a, "idle")
    BY JobStepIsActive DEF HomeOK, HomeAssumption
  <1>2. a # Coord => (At(Coord, "idle") <=> At(Coord, "idle")')
    BY <1>1, JobStepEffect DEF At
  <1>3. coord.step \in {"bind", "bound"} => a # Coord /\ startLock' = startLock /\ ~Marks(a)
    BY <1>1, JobStepEffect DEF CoordOK, Marks, HoldsLocks, At
  <1>4. coord.step \in {"bind", "bound"} => Whole(coord.fallback)'
    BY <1>1, <1>3, JobStepKeepsWhole DEF CoordOK
  <1>5. coord.step = "bound" => Safe(coord.target)'
    BY <1>1, <1>3, JobStepKeepsSafe DEF CoordOK
  <1> QED
    BY <1>1, <1>2, <1>3, <1>4, <1>5 DEF CoordOK

(* No deletion is allowed of what a pending rollback needs.                *)
LEMMA JobStepKeepsPending ==
  ASSUME HomeAssumption, HomeOK, NEW a \in Actors, JobStep(a), pending' = pending
  PROVE  RestoreOK'
  <1> SUFFICES ASSUME pending # None
               PROVE  Safe(pending.home)' /\ (Whole(pending.fallback)' \/ Consent')
    BY DEF RestoreOK
  <1>1. /\ pending.home \in Ids /\ pending.fallback \in Ids
        /\ Safe(pending.home) /\ (Whole(pending.fallback) \/ Consent)
    BY DEF HomeOK, TypeOK, RestoreOK, Pendings
  <1>2. Consent => Consent'
    BY DEF Consent
  <1>3. Marks(a) => pending.home # job[a].id /\ (pending.fallback # job[a].id \/ Consent)
    BY DEF Marks, DeletionAllowed
  <1> QED
    BY <1>1, <1>2, <1>3, JobStepKeepsSafe, JobStepKeepsWhole

(* What is said of the store alone.                                        *)
StoreTyped ==
    /\ rec \in [Ids -> Records \cup {None}]
    /\ dir \in [Ids -> {"none", "empty", "home"}]
    /\ job \in [Actors -> Jobs]
    /\ homeLock \in Actors \cup {NoActor} /\ startLock \in Actors \cup {NoActor}
    /\ fresh \subseteq Ids /\ torn \subseteq Ids
    /\ \A i \in Ids : Exists(i) => ValidRecord(rec[i])
StoreOK ==
    /\ StoreTyped
    /\ \A a \in Actors : HoldsLocks(a) /\ JobOK(a)
    /\ RecordsOK /\ CatchUpOK
OthersTyped ==
    reader \in Readers /\ coord \in Coords /\ pending \in Pendings \cup {None} /\ faults \in 0..MaxFaults

LEMMA HomeOKParts ==
  HomeOK <=> StoreOK /\ OthersTyped /\ ReaderOK /\ CoordOK /\ RestoreOK
  BY DEF HomeOK, TypeOK, StoreOK, StoreTyped, OthersTyped

LEMMA HomeOKNext ==
  ASSUME StoreOK', OthersTyped', ReaderOK', CoordOK', RestoreOK'
  PROVE  HomeOK'
  BY DEF HomeOK, TypeOK, StoreOK, StoreTyped, OthersTyped

LEMMA JobStepKeeps ==
  ASSUME HomeAssumption, HomeOK, NEW a \in Actors, JobStep(a),
         UNCHANGED <<reader, coord, pending>>, faults' \in 0..MaxFaults
  PROVE  HomeOK'
  <1>1. StoreOK'
    BY JobStepTyped, JobStepKeepsJobs, JobStepKeepsRecords DEF StoreOK, StoreTyped
  <1>2. OthersTyped'
    BY DEF HomeOK, TypeOK, OthersTyped
  <1>3. reader' = reader /\ coord' = coord /\ pending' = pending
    OBVIOUS
  <1>4. ReaderOK' /\ CoordOK' /\ RestoreOK'
    BY <1>3, JobStepKeepsReader, JobStepKeepsCoordinator, JobStepKeepsPending
  <1> QED
    BY <1>1, <1>2, <1>4, HomeOKNext

-----------------------------------------------------------------------------
(* Jobs begin while nobody has operation.lock.                             *)
LEMMA NobodyWorks ==
  ASSUME HomeAssumption, HomeOK, homeLock = NoActor
  PROVE  \A a \in Actors : At(a, "idle")
  BY DEF HomeAssumption, HomeOK, HoldsLocks

LEMMA NewRecordIsValid ==
  ASSUME NEW k \in Kinds
  PROVE  /\ NewRecord(k) \in Records /\ ValidRecord(NewRecord(k))
         /\ NewRecord(k).kind = k /\ NewRecord(k).state = "Creating"
  BY DEF NewRecord, Records, States, ValidRecord

(* A creation begins with an id that nothing refers to.                    *)
LEMMA CreateStartEffect ==
  ASSUME HomeAssumption, HomeOK, NEW a \in Actors, NEW k \in Kinds, CreateStart(a, k)
  PROVE  \E i \in Unused :
             /\ i \in Ids /\ ~Exists(i) /\ i \notin torn /\ rec'[i] # None
             /\ rec' \in [Ids -> Records \cup {None}]
             /\ rec'[i] = NewRecord(k) /\ ValidRecord(rec'[i])
             /\ rec'[i].kind = k /\ rec'[i].state = "Creating"
             /\ \A j \in Ids \ {i} : rec'[j] = rec[j]
             /\ job' \in [Actors -> Jobs]
             /\ job'[a].step = "mkdir" /\ job'[a].id = i
             /\ \A b \in Actors \ {a} : job'[b] = job[b] /\ At(b, "idle")
             /\ fresh' = fresh \cup {i} /\ homeLock' = a
             /\ UNCHANGED <<dir, startLock, torn>>
  <1>1. PICK i \in Unused :
            /\ rec' = [rec EXCEPT ![i] = NewRecord(k)]
            /\ job' = [job EXCEPT ![a] = [step |-> "mkdir", id |-> i, mode |-> "user"]]
            /\ fresh' = fresh \cup {i}
    BY DEF CreateStart
  <1>2. i \in Ids /\ ~Exists(i) /\ i \notin torn
    BY DEF Unused
  <1>3. rec \in [Ids -> Records \cup {None}] /\ job \in [Actors -> Jobs] /\ None \notin Records
    BY DEF HomeOK, TypeOK, HomeAssumption
  <1>4. /\ rec' \in [Ids -> Records \cup {None}] /\ rec'[i] = NewRecord(k)
        /\ \A j \in Ids \ {i} : rec'[j] = rec[j]
    BY <1>1, <1>2, <1>3, NewRecordIsValid
  <1>5. [step |-> "mkdir", id |-> i, mode |-> "user"] \in Jobs
    BY <1>2 DEF Jobs, Modes
  <1>6. /\ job' \in [Actors -> Jobs] /\ job'[a].step = "mkdir" /\ job'[a].id = i
        /\ \A b \in Actors \ {a} : job'[b] = job[b]
    BY <1>1, <1>3, <1>5
  <1>7. \A b \in Actors : At(b, "idle")
    BY NobodyWorks DEF CreateStart
  <1> QED
    BY <1>1, <1>2, <1>3, <1>4, <1>6, <1>7, NewRecordIsValid DEF CreateStart

LEMMA CreateStartKeepsStore ==
  ASSUME HomeAssumption, HomeOK, NEW a \in Actors, NEW k \in Kinds, CreateStart(a, k)
  PROVE  StoreOK'
  <1>1. PICK i \in Unused :
             /\ i \in Ids /\ ~Exists(i) /\ i \notin torn /\ rec'[i] # None
             /\ rec' \in [Ids -> Records \cup {None}]
             /\ ValidRecord(rec'[i])
             /\ rec'[i].kind = k /\ rec'[i].state = "Creating"
             /\ \A j \in Ids \ {i} : rec'[j] = rec[j]
             /\ job' \in [Actors -> Jobs]
             /\ job'[a].step = "mkdir" /\ job'[a].id = i
             /\ \A b \in Actors \ {a} : job'[b] = job[b] /\ At(b, "idle")
             /\ fresh' = fresh \cup {i} /\ homeLock' = a
             /\ UNCHANGED <<dir, startLock, torn>>
    BY CreateStartEffect
  <1>2. StoreTyped /\ RecordsOK /\ CatchUpOK /\ At(a, "idle")
    BY HomeOKParts, NobodyWorks DEF StoreOK, CreateStart
  <1>3. StoreTyped'
    BY <1>1, <1>2 DEF StoreTyped, Exists
  <1>4. \A b \in Actors : HoldsLocks(b)' /\ JobOK(b)'
    BY <1>1 DEF HoldsLocks, JobOK, At, Exists, CreateSteps, BreakSteps, MarkedSteps
  <1>5. RecordsOK'
    <2>1. k = "Factory" => \A j \in Ids : ~(Exists(j) /\ rec[j].kind = "Factory")
      BY DEF CreateStart, FactoryIfMissing, NoIssues, Factories, Found
    <2>2. \A j \in Ids : Exists(j)' /\ rec'[j].state = "Ready" => dir'[j] = "home" \/ j \in torn'
      BY <1>1, <1>2 DEF RecordsOK, Exists
    <2>3. \A j, l \in Ids : Exists(j)' /\ rec'[j].kind = "Factory"
                        /\ Exists(l)' /\ rec'[l].kind = "Factory" => j = l
      BY <1>1, <1>2, <2>1 DEF RecordsOK, Exists
    <2> QED
      BY <2>2, <2>3 DEF RecordsOK
  <1>6. CatchUpOK'
    <2>1. \A j \in Ids : CaughtUp(j)' => CaughtUp(j)
      BY <1>1 DEF CaughtUp, Verified, Exists
    <2>2. k = "Automatic" => \A j \in Ids : ~CaughtUp(j)
      BY <1>2 DEF CreateStart, ScheduledIfDue, Due, CaughtUp, Verified, Found, Issue
    <2> QED
      BY <1>1, <1>2, <2>1, <2>2 DEF CatchUpOK, At, CreateSteps
  <1> QED
    BY <1>3, <1>4, <1>5, <1>6 DEF StoreOK

LEMMA CreateStartKeepsOthers ==
  ASSUME HomeAssumption, HomeOK, NEW a \in Actors, NEW k \in Kinds, CreateStart(a, k),
         UNCHANGED <<reader, pending>>
  PROVE  /\ ReaderOK' /\ RestoreOK'
         /\ \A j \in Ids : (Safe(j) => Safe(j)') /\ (Whole(j) => Whole(j)')
         /\ job'[a].id \in Ids /\ startLock' = startLock
         /\ \A b \in Actors \ {a} : job'[b] = job[b]
  <1>1. PICK i \in Unused :
             /\ i \in Ids /\ ~Exists(i) /\ i \notin torn
             /\ \A j \in Ids \ {i} : rec'[j] = rec[j]
             /\ job'[a].step = "mkdir" /\ job'[a].id = i
             /\ \A b \in Actors \ {a} : job'[b] = job[b] /\ At(b, "idle")
             /\ UNCHANGED <<dir, startLock, torn>>
    BY CreateStartEffect
  <1>2. \A j \in Ids : (Safe(j) => Safe(j)') /\ (Whole(j) => Whole(j)')
    BY <1>1 DEF Safe, Whole, Verified, Exists
  <1>3. ReaderOK'
    <2>1. reader.id # i
      BY DEF Unused
    <2> QED
      BY <1>1, <2>1 DEF HomeOK, ReaderOK, Deleting, OpenHomeExists, At, CreateSteps, BreakSteps
  <1>4. RestoreOK'
    BY <1>2 DEF HomeOK, TypeOK, RestoreOK, Consent, Pendings
  <1> QED
    BY <1>1, <1>2, <1>3, <1>4

LEMMA DeleteStartKeeps ==
  ASSUME HomeAssumption, HomeOK, NEW a \in Actors, NEW i \in Ids, NEW mode \in Modes,
         DeleteStart(a, i, mode), UNCHANGED <<reader, pending>>
  PROVE  /\ StoreOK' /\ ReaderOK' /\ RestoreOK'
         /\ startLock' = startLock /\ UNCHANGED <<rec, dir, torn>>
         /\ \A b \in Actors \ {a} : job'[b] = job[b]
  <1>1. /\ \A b \in Actors : At(b, "idle")
        /\ Exists(i) /\ homeLock' = a
        /\ UNCHANGED <<rec, dir, startLock, fresh, torn>>
    BY NobodyWorks DEF DeleteStart
  <1>2. StoreTyped /\ RecordsOK /\ CatchUpOK
    BY HomeOKParts DEF StoreOK
  <1>3. [step |-> "dLock", id |-> i, mode |-> mode] \in Jobs
    BY DEF Jobs
  <1>4. /\ job' \in [Actors -> Jobs] /\ job'[a].step = "dLock" /\ job'[a].id = i
        /\ \A b \in Actors \ {a} : job'[b] = job[b]
    BY <1>2, <1>3 DEF DeleteStart, StoreTyped
  <1>5. StoreTyped'
    BY <1>1, <1>2, <1>4 DEF StoreTyped, Exists
  <1>6. \A b \in Actors : HoldsLocks(b)' /\ JobOK(b)'
    BY <1>1, <1>4 DEF HoldsLocks, JobOK, At, Exists, CreateSteps, BreakSteps, MarkedSteps
  <1>7. RecordsOK' /\ CatchUpOK'
    BY <1>1, <1>2, <1>4 DEF RecordsOK, CatchUpOK, CaughtUp, Verified, Exists, CreateSteps, At
  <1>8. ReaderOK'
    BY <1>1, <1>4 DEF HomeOK, ReaderOK, Deleting, OpenHomeExists, At, CreateSteps, BreakSteps
  <1>9. RestoreOK'
    BY <1>1 DEF HomeOK, RestoreOK, Safe, Whole, Verified, Exists, Consent
  <1> QED
    BY <1>1, <1>4, <1>5, <1>6, <1>7, <1>8, <1>9 DEF StoreOK

(* set_pinned and the passing of time change nothing the invariant is      *)
(* about.                                                                  *)
LEMMA SetPinnedKeeps ==
  ASSUME HomeAssumption, HomeOK, NEW i \in Ids, NEW p \in BOOLEAN, SetPinned(i, p),
         UNCHANGED <<reader, coord, pending, faults>>
  PROVE  HomeOK'
  <1> DEFINE r == [rec[i] EXCEPT !.pinned = p]
  <1>1. StoreOK /\ OthersTyped /\ ReaderOK /\ CoordOK /\ RestoreOK
    BY HomeOKParts
  <1>2. /\ rec' = [rec EXCEPT ![i] = r] /\ rec[i] \in Records /\ None \notin Records
        /\ ValidRecord(r) /\ rec[i].state = "Ready" /\ rec[i].kind # "Factory"
        /\ UNCHANGED <<dir, job, homeLock, startLock, fresh, torn>>
    BY <1>1 DEF SetPinned, WriteRecord, StoreOK, StoreTyped, Exists, HomeAssumption
  <1>3. r \in Records /\ r.state = rec[i].state /\ r.kind = rec[i].kind
    BY <1>2 DEF Records
  <1>4. /\ rec' \in [Ids -> Records \cup {None}]
        /\ \A j \in Ids : Exists(j) <=> rec'[j] # None
        /\ \A j \in Ids : Exists(j) =>
               /\ rec'[j].state = rec[j].state /\ rec'[j].kind = rec[j].kind
               /\ ValidRecord(rec'[j])
    <2> HIDE DEF r
    <2> QED
      BY <1>1, <1>2, <1>3 DEF StoreOK, StoreTyped, Exists
  <1>5. StoreTyped'
    BY <1>1, <1>2, <1>4 DEF StoreOK, StoreTyped, Exists
  <1>6. \A b \in Actors : HoldsLocks(b)' /\ JobOK(b)'
    BY <1>1, <1>2, <1>4 DEF StoreOK, StoreTyped, HoldsLocks, JobOK, At, Exists, CreateSteps, BreakSteps, MarkedSteps
  <1>7. RecordsOK'
    BY <1>1, <1>2, <1>4 DEF StoreOK, RecordsOK, Exists
  <1>8. CatchUpOK'
    BY <1>1, <1>2, <1>4 DEF StoreOK, HoldsLocks, At, CatchUpOK, CaughtUp, Verified, Exists, CreateSteps
  <1>9. ReaderOK'
    BY <1>1, <1>2 DEF ReaderOK, OpenHomeExists, Deleting
  <1>10. \A j \in Ids : (Safe(j) => Safe(j)') /\ (Whole(j) => Whole(j)')
    BY <1>2, <1>4 DEF Safe, Whole, Verified, Exists
  <1>11. CoordOK'
    BY <1>1, <1>2, <1>10 DEF CoordOK, OthersTyped, Coords, At
  <1>12. RestoreOK'
    BY <1>1, <1>10 DEF OthersTyped, Pendings, RestoreOK, Consent
  <1>13. OthersTyped'
    BY <1>1 DEF OthersTyped
  <1> QED
    BY <1>5, <1>6, <1>7, <1>8, <1>9, <1>11, <1>12, <1>13, HomeOKNext DEF StoreOK

(* Whoever leaves the store alone.                                         *)
LEMMA SameStore ==
  ASSUME StoreOK, UNCHANGED storeVars
  PROVE  StoreOK' /\ \A j \in Ids : (Safe(j) <=> Safe(j)') /\ (Whole(j) <=> Whole(j)')
  <1> USE DEF storeVars
  <1>1. StoreTyped'
    BY DEF StoreOK, StoreTyped, Exists
  <1>2. \A b \in Actors : HoldsLocks(b)' /\ JobOK(b)'
    BY DEF StoreOK, HoldsLocks, JobOK, At, Exists
  <1>3. RecordsOK' /\ CatchUpOK'
    BY DEF StoreOK, RecordsOK, CatchUpOK, CaughtUp, Verified, Exists
  <1>4. \A j \in Ids : (Safe(j) <=> Safe(j)') /\ (Whole(j) <=> Whole(j)')
    BY DEF Safe, Whole, Verified, Exists
  <1> QED
    BY <1>1, <1>2, <1>3, <1>4 DEF StoreOK

LEMMA IntervalPassesKeeps ==
  ASSUME HomeOK, IntervalPasses, UNCHANGED <<reader, coord, pending, faults>>
  PROVE  HomeOK'
  <1>1. StoreOK /\ OthersTyped /\ ReaderOK /\ CoordOK /\ RestoreOK
    BY HomeOKParts
  <1>2. fresh' = {} /\ UNCHANGED <<rec, dir, job, homeLock, startLock, torn>>
    BY DEF IntervalPasses
  <1>3. StoreTyped'
    BY <1>1, <1>2 DEF StoreOK, StoreTyped, Exists
  <1>4. \A b \in Actors : HoldsLocks(b)' /\ JobOK(b)'
    BY <1>1, <1>2 DEF StoreOK, HoldsLocks, JobOK, At, Exists
  <1>5. RecordsOK' /\ CatchUpOK'
    BY <1>1, <1>2 DEF StoreOK, RecordsOK, CatchUpOK, CaughtUp, Verified, Exists
  <1>6. ReaderOK' /\ CoordOK' /\ RestoreOK' /\ OthersTyped'
    BY <1>1, <1>2 DEF ReaderOK, OpenHomeExists, Deleting, CoordOK, Safe, Whole, Verified, Exists, At,
       RestoreOK, Consent, OthersTyped
  <1> QED
    BY <1>3, <1>4, <1>5, <1>6, HomeOKNext DEF StoreOK

(* The locks that an actor without a job may give back.                    *)
LEMMA IdleFinish ==
  ASSUME HomeAssumption, StoreOK, NEW a \in Actors, At(a, "idle"), Finish(a),
         UNCHANGED <<rec, dir, fresh, torn>>
  PROVE  /\ StoreOK' /\ \A b \in Actors : At(b, "idle") <=> At(b, "idle")'
         /\ \A b \in Actors : job'[b] = job[b] \/ (At(b, "idle") /\ job'[b] = Idle)
         /\ startLock' = IF startLock = a THEN NoActor ELSE startLock
  <1>1. Idle \in Jobs /\ Idle.step = "idle"
    BY DEF Idle, Jobs, Modes
  <1>2. /\ job' = [job EXCEPT ![a] = Idle]
        /\ homeLock' = IF homeLock = a THEN NoActor ELSE homeLock
        /\ startLock' = IF startLock = a THEN NoActor ELSE startLock
    BY DEF Finish
  <1>3. /\ job' \in [Actors -> Jobs] /\ job'[a] = Idle
        /\ \A b \in Actors \ {a} : job'[b] = job[b]
    BY <1>1, <1>2 DEF StoreOK, StoreTyped
  <1>4. StoreTyped'
    BY <1>2, <1>3 DEF StoreOK, StoreTyped, Exists
  <1>5. \A b \in Actors : HoldsLocks(b)' /\ JobOK(b)'
    BY <1>1, <1>2, <1>3 DEF StoreOK, HoldsLocks, JobOK, At, Exists, CreateSteps, BreakSteps, MarkedSteps
  <1>6. RecordsOK' /\ CatchUpOK'
    BY <1>1, <1>3 DEF StoreOK, RecordsOK, CatchUpOK, CaughtUp, Verified, Exists, CreateSteps
  <1> QED
    BY <1>1, <1>2, <1>3, <1>4, <1>5, <1>6 DEF StoreOK, At

-----------------------------------------------------------------------------
(* The coordinator.                                                        *)
LEMMA CoordIdleIsTyped == CoordIdle \in Coords /\ CoordIdle.step = "idle"
  BY DEF CoordIdle, Coords

(* Before it binds: it runs no job but the creation of the fallback.       *)
LEMMA CoordinatorPrepares ==
  ASSUME HomeAssumption, HomeOK, UNCHANGED <<reader, faults>>,
         \/ \E t \in Ids, purge \in Restores : ValidateReady(t, purge)
         \/ CreateFallback
         \/ BindLock
         \/ BindVerify
  PROVE  HomeOK'
  <1>1. StoreOK /\ OthersTyped /\ ReaderOK /\ CoordOK /\ RestoreOK
    BY HomeOKParts
  <1>2. ASSUME NEW t \in Ids, NEW purge \in Restores, ValidateReady(t, purge)
        PROVE  HomeOK'
    <2>1. UNCHANGED storeVars /\ pending' = pending /\ At(Coord, "idle")
      BY <1>2 DEF ValidateReady
    <2>2. /\ coord' = [step |-> "ready", target |-> t, fallback |-> None, purge |-> purge]
          /\ coord' \in Coords
      BY <1>2 DEF ValidateReady, Coords, HomeAssumption
    <2>3. StoreOK' /\ OthersTyped'
      BY <1>1, <2>1, <2>2, SameStore DEF OthersTyped
    <2>4. ReaderOK'
      BY <1>1, <2>1 DEF ReaderOK, OpenHomeExists, Deleting, storeVars
    <2>5. CoordOK'
      BY <2>1, <2>2 DEF CoordOK, At, storeVars
    <2>6. RestoreOK'
      BY <1>1, <2>1 DEF RestoreOK, Safe, Whole, Verified, Exists, Consent, storeVars
    <2> QED
      BY <2>3, <2>4, <2>5, <2>6, HomeOKNext
  <1>3. CASE CreateFallback
    <2>1. /\ CreateStart(Coord, "Manual") /\ coord.step = "ready" /\ pending' = pending
          /\ coord' = [coord EXCEPT !.step = "fallback", !.fallback = job'[Coord].id]
          /\ reader' = reader /\ Coord \in Actors /\ "Manual" \in Kinds
      BY <1>3 DEF CreateFallback, HomeAssumption, Kinds
    <2>2. /\ StoreOK' /\ ReaderOK' /\ RestoreOK'
          /\ job'[Coord].id \in Ids
      BY <2>1, CreateStartKeepsStore, CreateStartKeepsOthers
    <2>3. /\ coord' \in Coords /\ coord'.step = "fallback" /\ coord'.fallback \in Ids
          /\ coord'.target = coord.target
      BY <1>1, <2>1, <2>2 DEF OthersTyped, Coords
    <2>4. CoordOK'
      BY <1>1, <2>1, <2>3 DEF CoordOK
    <2>5. OthersTyped'
      BY <1>1, <2>1, <2>3 DEF OthersTyped
    <2> QED
      BY <2>2, <2>4, <2>5, HomeOKNext
  <1>4. CASE BindLock
    <2>1. /\ FallbackMade /\ startLock = NoActor /\ startLock' = Coord
          /\ coord' = [coord EXCEPT !.step = "bind"]
          /\ UNCHANGED <<rec, dir, job, homeLock, fresh, torn, pending>>
          /\ At(Coord, "idle") /\ coord.step = "fallback" /\ Coord \in Actors
      BY <1>4 DEF BindLock, FallbackMade, HomeAssumption
    <2>2. /\ coord' \in Coords /\ coord'.step = "bind" /\ coord'.fallback = coord.fallback
          /\ coord'.target = coord.target
      BY <1>1, <2>1 DEF OthersTyped, Coords
    <2>3. StoreTyped'
      BY <1>1, <2>1 DEF StoreOK, StoreTyped, Exists
    <2>4. \A b \in Actors : HoldsLocks(b)' /\ JobOK(b)'
      BY <1>1, <2>1 DEF StoreOK, HoldsLocks, JobOK, At, Exists, HomeAssumption
    <2>5. RecordsOK' /\ CatchUpOK'
      BY <1>1, <2>1 DEF StoreOK, RecordsOK, CatchUpOK, CaughtUp, Verified, Exists
    <2>6. ReaderOK' /\ RestoreOK' /\ OthersTyped'
      BY <1>1, <2>1, <2>2 DEF ReaderOK, OpenHomeExists, Deleting, RestoreOK,
         Safe, Whole, Verified, Exists, Consent, OthersTyped
    <2>7. Whole(coord.fallback)'
      BY <1>1, <2>1 DEF CoordOK, FallbackMade, StoreOK, RecordsOK, Whole, Verified, Exists
    <2>8. CoordOK'
      BY <1>1, <2>1, <2>2, <2>7 DEF CoordOK, At
    <2> QED
      BY <2>3, <2>4, <2>5, <2>6, <2>8, HomeOKNext DEF StoreOK
  <1>5. CASE BindVerify
    <2>1. /\ coord.step = "bind" /\ BindAllowed /\ coord' = [coord EXCEPT !.step = "bound"]
          /\ UNCHANGED storeVars /\ pending' = pending
      BY <1>5 DEF BindVerify
    <2>2. /\ coord' \in Coords /\ coord'.step = "bound" /\ coord'.fallback = coord.fallback
          /\ coord'.target = coord.target
      BY <1>1, <2>1 DEF OthersTyped, Coords
    <2>3. StoreOK' /\ OthersTyped'
      BY <1>1, <2>1, <2>2, SameStore DEF OthersTyped
    <2>4. ReaderOK' /\ RestoreOK'
      BY <1>1, <2>1 DEF ReaderOK, OpenHomeExists, Deleting, RestoreOK,
         Safe, Whole, Verified, Exists, Consent, storeVars
    <2>5. CoordOK'
      BY <1>1, <2>1, <2>2 DEF CoordOK, BindAllowed, Safe, Whole, Verified, Exists, At, storeVars
    <2> QED
      BY <2>3, <2>4, <2>5, HomeOKNext
  <1> QED
    BY <1>2, <1>3, <1>4, <1>5

(* It writes the record of the rollback, or gives up.                      *)
LEMMA CoordinatorFinishes ==
  ASSUME HomeAssumption, HomeOK, UNCHANGED reader, faults' \in 0..MaxFaults,
         BindCreate \/ ScheduleFails \/ (CoordDies /\ pending' = pending)
  PROVE  HomeOK'
  <1>1. StoreOK /\ OthersTyped /\ ReaderOK /\ CoordOK /\ RestoreOK
    BY HomeOKParts
  <1>2. /\ Finish(Coord) /\ coord' = CoordIdle /\ UNCHANGED <<rec, dir, fresh, torn>>
        /\ Coord \in Actors
    BY DEF BindCreate, ScheduleFails, CoordDies, HomeAssumption
  <1>3. At(Coord, "idle")
    BY <1>1 DEF BindCreate, ScheduleFails, CoordDies, CoordOK
  <1>4. /\ StoreOK' /\ At(Coord, "idle")'
        /\ \A b \in Actors : job'[b] = job[b] \/ (At(b, "idle") /\ job'[b] = Idle)
    BY <1>1, <1>2, <1>3, IdleFinish
  <1>5. ReaderOK'
    BY <1>1, <1>2, <1>4
    DEF ReaderOK, OpenHomeExists, Deleting, At, Idle, CreateSteps, BreakSteps
  <1>6. CoordOK'
    BY <1>2, <1>4, CoordIdleIsTyped DEF CoordOK
  <1>7. pending' \in Pendings \cup {None} /\ RestoreOK'
    <2>1. CASE BindCreate
      <3>1. /\ pending' = [home |-> coord.target, fallback |-> coord.fallback,
                           purge |-> coord.purge, outcome |-> "none"]
            /\ Safe(coord.target) /\ Whole(coord.fallback)
            /\ coord.target \in Ids /\ coord.fallback \in Ids /\ coord.purge \in BOOLEAN
        BY <1>1, <2>1 DEF BindCreate, CoordOK, OthersTyped, Coords
      <3>2. /\ pending' \in Pendings /\ pending'.home = coord.target
            /\ pending'.fallback = coord.fallback
        BY <3>1 DEF Pendings
      <3> QED
        BY <1>2, <3>1, <3>2 DEF RestoreOK, Safe, Whole, Verified, Exists
    <2>2. CASE ~BindCreate
      <3>1. pending' = pending
        BY <2>2 DEF ScheduleFails
      <3> QED
        BY <1>1, <1>2, <3>1 DEF OthersTyped, RestoreOK, Safe, Whole, Verified, Exists, Consent
    <2> QED
      BY <2>1, <2>2
  <1>8. OthersTyped'
    BY <1>1, <1>2, <1>7, CoordIdleIsTyped DEF OthersTyped
  <1> QED
    BY <1>4, <1>5, <1>6, <1>7, <1>8, HomeOKNext

(* It cancels a rollback, settles it, or goes on with a purge.             *)
LEMMA CoordinatorSettles ==
  ASSUME HomeAssumption, HomeOK, UNCHANGED <<reader, faults>>,
         Cancel \/ PurgeNext \/ PurgeStep \/ Settle
  PROVE  HomeOK'
  <1>1. StoreOK /\ OthersTyped /\ ReaderOK /\ CoordOK /\ RestoreOK
    BY HomeOKParts
  <1>2. CASE Cancel \/ Settle
    <2>1. pending' = None /\ UNCHANGED <<storeVars, coord>>
      BY <1>2 DEF Cancel, Settle
    <2>2. StoreOK' /\ OthersTyped'
      BY <1>1, <2>1, SameStore DEF OthersTyped
    <2>3. ReaderOK' /\ CoordOK' /\ RestoreOK'
      BY <1>1, <2>1 DEF ReaderOK, OpenHomeExists, Deleting, CoordOK, Safe, Whole, Verified, Exists, At,
         RestoreOK, storeVars
    <2> QED
      BY <2>2, <2>3, HomeOKNext
  <1>3. CASE PurgeStep
    <2>1. /\ At(Coord, "idle") /\ coord' = CoordIdle /\ UNCHANGED storeVars /\ pending' = pending
      BY <1>3 DEF PurgeStep
    <2>2. StoreOK' /\ OthersTyped'
      BY <1>1, <2>1, SameStore, CoordIdleIsTyped DEF OthersTyped
    <2>3. ReaderOK' /\ CoordOK' /\ RestoreOK'
      BY <1>1, <2>1, CoordIdleIsTyped DEF ReaderOK, OpenHomeExists, Deleting, CoordOK, Safe, Whole, Verified,
         Exists, At, RestoreOK, Consent, storeVars
    <2> QED
      BY <2>2, <2>3, HomeOKNext
  <1>4. CASE PurgeNext
    <2>1. PICK i \in Ids : DeleteStart(Coord, i, "purge")
      BY <1>4 DEF PurgeNext, Found
    <2>2. /\ "purge" \in Modes /\ Coord \in Actors /\ reader' = reader /\ pending' = pending
          /\ coord' = [coord EXCEPT !.step = "purge"]
      BY <1>4 DEF PurgeNext, Modes, HomeAssumption
    <2>3. StoreOK' /\ ReaderOK' /\ RestoreOK'
      BY <2>1, <2>2, DeleteStartKeeps
    <2>4. coord' \in Coords /\ coord'.step = "purge"
      BY <1>1, <2>2 DEF OthersTyped, Coords
    <2>5. OthersTyped' /\ CoordOK'
      BY <1>1, <2>2, <2>4 DEF OthersTyped, CoordOK
    <2> QED
      BY <2>3, <2>5, HomeOKNext
  <1> QED
    BY <1>2, <1>3, <1>4

(* A restart ends every job and every browser.                             *)
LEMMA RestartKeeps ==
  ASSUME HomeAssumption, HomeOK, NEW o \in {"confirmed", "reverted"}, Restart(o), faults' = faults
  PROVE  HomeOK'
  <1>1. StoreOK /\ OthersTyped /\ ReaderOK /\ CoordOK /\ RestoreOK
    BY HomeOKParts
  <1>2. /\ Idle \in Jobs /\ Idle.step = "idle"
        /\ Closed \in Readers /\ Closed.step = "closed"
    BY DEF Idle, Jobs, Modes, Closed, Readers
  <1>3. /\ \A b \in Actors : job'[b] = Idle
        /\ job' \in [Actors -> Jobs] /\ homeLock' = NoActor /\ startLock' = NoActor
        /\ reader' = Closed /\ coord.step = "idle" /\ pending # None
        /\ pending' = [pending EXCEPT !.outcome = o]
        /\ UNCHANGED <<rec, dir, fresh, torn, coord>>
    BY <1>2 DEF Restart
  <1>4. StoreTyped'
    BY <1>1, <1>3 DEF StoreOK, StoreTyped, Exists
  <1>5. \A b \in Actors : HoldsLocks(b)' /\ JobOK(b)'
    BY <1>2, <1>3 DEF HoldsLocks, JobOK, At, CreateSteps, BreakSteps, MarkedSteps
  <1>6. RecordsOK' /\ CatchUpOK'
    BY <1>1, <1>2, <1>3 DEF StoreOK, RecordsOK, CatchUpOK, CaughtUp, Verified, Exists, CreateSteps
  <1>7. ReaderOK' /\ CoordOK'
    BY <1>2, <1>3 DEF ReaderOK, OpenHomeExists, CoordOK, At, HomeAssumption
  <1>8. /\ pending' \in Pendings /\ pending'.home = pending.home
        /\ pending'.fallback = pending.fallback
    BY <1>1, <1>3 DEF OthersTyped, Pendings
  <1>9. RestoreOK'
    <2>1. ~Consent
      BY DEF Consent, Restart
    <2> QED
      BY <1>1, <1>3, <1>8, <2>1 DEF RestoreOK, Safe, Whole, Verified, Exists
  <1>10. OthersTyped'
    BY <1>1, <1>2, <1>3, <1>8 DEF OthersTyped
  <1> QED
    BY <1>4, <1>5, <1>6, <1>7, <1>9, <1>10, HomeOKNext DEF StoreOK

(* Browsing: verify sees nothing that a sound creation is still making,    *)
(* and the browse lock keeps deletions out.                                *)
LEMMA ReadStepKeeps ==
  ASSUME HomeAssumption, HomeOK, ReadStep, UNCHANGED <<storeVars, coord, pending, faults>>
  PROVE  HomeOK'
  <1>1. StoreOK /\ OthersTyped /\ ReaderOK /\ CoordOK /\ RestoreOK
    BY HomeOKParts
  <1>2. UNCHANGED <<rec, dir, job, homeLock, startLock, fresh, torn, coord, pending, faults>>
    BY DEF storeVars
  <1>3. Closed \in Readers /\ Closed.step = "closed"
    BY DEF Closed, Readers
  <1>4. reader' \in Readers /\ ReaderOK'
    <2>1. ASSUME NEW i \in Ids, BrowseVerify(i)
          PROVE  reader' \in Readers /\ ReaderOK'
      <3>1. reader' = [step |-> "verified", id |-> i] /\ Verified(i)
        BY <2>1 DEF BrowseVerify
      <3>2. \A a \in Actors : job[a].id = i /\ job[a].step \in CreateSteps \cup BreakSteps => i \in torn
        BY <1>1, <3>1 DEF StoreOK, JobOK, Verified
      <3> QED
        BY <1>2, <3>1, <3>2 DEF Readers, ReaderOK, OpenHomeExists
    <2>2. CASE BrowseLease
      <3>1. reader.step = "verified" /\ ~Deleting(reader.id) /\ reader' = [reader EXCEPT !.step = "leased"]
        BY <2>2 DEF BrowseLease
      <3>2. reader' \in Readers /\ reader'.step = "leased" /\ reader'.id = reader.id
        BY <1>1, <3>1 DEF OthersTyped, Readers
      <3> QED
        BY <1>1, <1>2, <3>1, <3>2 DEF ReaderOK, OpenHomeExists, Deleting
    <2>3. CASE BrowseOpen
      <3>1. CASE dir[reader.id] = "home"
        <4>1. reader.step = "leased" /\ reader' = [reader EXCEPT !.step = "open"]
          BY <2>3, <3>1 DEF BrowseOpen
        <4>2. reader' \in Readers /\ reader'.step = "open" /\ reader'.id = reader.id
          BY <1>1, <4>1 DEF OthersTyped, Readers
        <4> QED
          BY <1>1, <1>2, <3>1, <4>1, <4>2 DEF ReaderOK, OpenHomeExists, Deleting
      <3>2. CASE dir[reader.id] # "home"
        BY <1>3, <2>3, <3>2 DEF BrowseOpen, ReaderOK, OpenHomeExists
      <3> QED
        BY <3>1, <3>2
    <2>4. CASE BrowseClose
      BY <1>3, <2>4 DEF BrowseClose, ReaderOK, OpenHomeExists
    <2> QED
      BY <2>1, <2>2, <2>3, <2>4 DEF ReadStep
  <1>5. StoreOK' /\ OthersTyped'
    BY <1>1, <1>2, <1>4, SameStore DEF OthersTyped, storeVars
  <1>6. CoordOK' /\ RestoreOK'
    BY <1>1, <1>2 DEF CoordOK, Safe, Whole, Verified, Exists, At, RestoreOK, Consent
  <1> QED
    BY <1>4, <1>5, <1>6, HomeOKNext

(* Users of the helper.                                                    *)
LEMMA UserStepKeeps ==
  ASSUME HomeAssumption, HomeOK, UserStep, UNCHANGED <<reader, coord, pending, faults>>
  PROVE  HomeOK'
  <1>1. StoreOK /\ OthersTyped /\ ReaderOK /\ CoordOK /\ RestoreOK
    BY HomeOKParts
  <1>2. OthersTyped' /\ reader' = reader /\ coord' = coord /\ pending' = pending
    BY <1>1 DEF OthersTyped
  <1>3. ASSUME NEW a \in Actors \ {Coord}, NEW k \in CreateKinds, CreateStart(a, k)
        PROVE  HomeOK'
    <2>1. k \in Kinds
      BY DEF HomeAssumption
    <2>2. /\ StoreOK' /\ ReaderOK' /\ RestoreOK' /\ startLock' = startLock
          /\ \A j \in Ids : (Safe(j) => Safe(j)') /\ (Whole(j) => Whole(j)')
          /\ job'[Coord] = job[Coord]
      BY <1>2, <1>3, <2>1, CreateStartKeepsStore, CreateStartKeepsOthers DEF HomeAssumption
    <2>3. CoordOK'
      BY <1>1, <1>2, <2>2 DEF CoordOK, At
    <2> QED
      BY <1>2, <2>2, <2>3, HomeOKNext
  <1>4. ASSUME NEW a \in Actors \ {Coord}, NEW i \in Ids, NEW mode \in {"user", "factory"},
               DeleteStart(a, i, mode)
        PROVE  HomeOK'
    <2>1. mode \in Modes
      BY DEF Modes
    <2>2. /\ StoreOK' /\ ReaderOK' /\ RestoreOK' /\ startLock' = startLock
          /\ UNCHANGED <<rec, dir, torn>> /\ job'[Coord] = job[Coord]
      BY <1>2, <1>4, <2>1, DeleteStartKeeps DEF HomeAssumption
    <2>3. CoordOK'
      BY <1>1, <1>2, <2>2 DEF CoordOK, Safe, Whole, Verified, Exists, At
    <2> QED
      BY <1>2, <2>2, <2>3, HomeOKNext
  <1>5. ASSUME NEW i \in Ids, NEW p \in BOOLEAN, SetPinned(i, p)
        PROVE  HomeOK'
    BY <1>5, SetPinnedKeeps
  <1>6. ASSUME IntervalPasses
        PROVE  HomeOK'
    BY <1>6, IntervalPassesKeeps
  <1> QED
    BY <1>3, <1>4, <1>5, <1>6 DEF UserStep

-----------------------------------------------------------------------------
LEMMA HomeStarts == ASSUME HomeAssumption, Init PROVE HomeOK
  <1>1. Idle \in Jobs /\ Closed \in Readers /\ CoordIdle \in Coords
    BY DEF Idle, Jobs, Modes, Closed, Readers, CoordIdle, Coords
  <1>2. TypeOK
    BY <1>1 DEF HomeAssumption, Init, TypeOK, Exists
  <1>3. \A a \in Actors : HoldsLocks(a) /\ JobOK(a)
    BY DEF Init, HoldsLocks, JobOK, At, Idle, CreateSteps, BreakSteps, MarkedSteps
  <1>4. RecordsOK /\ CatchUpOK /\ ReaderOK /\ CoordOK /\ RestoreOK
    BY DEF Init, RecordsOK, CatchUpOK, CaughtUp, Verified, Exists, Idle, CreateSteps, ReaderOK,
       OpenHomeExists, Closed, CoordOK, CoordIdle, At, RestoreOK, HomeAssumption
  <1> QED
    BY <1>2, <1>3, <1>4 DEF HomeOK

LEMMA HomeStutters == ASSUME HomeOK, UNCHANGED vars PROVE HomeOK'
  <1>1. StoreOK /\ OthersTyped /\ ReaderOK /\ CoordOK /\ RestoreOK
    BY HomeOKParts
  <1>2. UNCHANGED <<storeVars, reader, coord, pending, faults>>
    BY DEF vars
  <1>3. StoreOK' /\ OthersTyped'
    BY <1>1, <1>2, SameStore DEF OthersTyped
  <1>4. ReaderOK' /\ CoordOK' /\ RestoreOK'
    BY <1>1, <1>2 DEF storeVars, ReaderOK, OpenHomeExists, Deleting, CoordOK, Safe, Whole, Verified,
       Exists, At, RestoreOK, Consent
  <1> QED
    BY <1>3, <1>4, HomeOKNext

(* However users, timers, the coordinator and readers interleave, and      *)
(* wherever one of them fails or dies, the invariant holds.                *)
THEOREM HomeIsOK == ASSUME HomeAssumption PROVE Spec => []HomeOK
  <1>1. Init => HomeOK
    BY HomeStarts
  <1>2. HomeOK /\ [Next]_vars => HomeOK'
    <2> SUFFICES ASSUME HomeOK, Next PROVE HomeOK'
      BY HomeStutters
    <2>1. CASE (\E a \in Actors : StoreStep(a)) /\ UNCHANGED <<reader, coord, pending, faults>>
      <3>1. PICK a \in Actors : JobStep(a)
        BY <2>1 DEF JobStep
      <3>2. faults' \in 0..MaxFaults
        BY <2>1 DEF HomeOK, TypeOK
      <3> QED
        BY <2>1, <3>1, <3>2, JobStepKeeps
    <2>2. CASE UserStep /\ UNCHANGED <<reader, coord, pending, faults>>
      BY <2>2, UserStepKeeps
    <2>3. CASE CoordStep /\ UNCHANGED <<reader, faults>>
      <3>1. faults' \in 0..MaxFaults
        BY <2>3 DEF HomeOK, TypeOK
      <3> QED
        BY <2>3, <3>1, CoordinatorPrepares, CoordinatorFinishes, CoordinatorSettles DEF CoordStep
    <2>4. CASE (\E o \in {"confirmed", "reverted"} : Restart(o)) /\ UNCHANGED faults
      BY <2>4, RestartKeeps
    <2>5. CASE ReadStep /\ UNCHANGED <<storeVars, coord, pending, faults>>
      BY <2>5, ReadStepKeeps
    <2>6. CASE Fault
      <3>1. faults' \in 0..MaxFaults
        BY <2>6 DEF Fault, HomeOK, TypeOK, HomeAssumption
      <3>2. CASE CoordDies
        BY <2>6, <3>1, <3>2, CoordinatorFinishes DEF Fault
      <3>3. CASE (\E a \in Actors : JobFault(a)) /\ UNCHANGED coord
        <4>1. PICK a \in Actors : JobStep(a)
          BY <3>3 DEF JobStep
        <4>2. UNCHANGED <<reader, coord, pending>>
          BY <2>6, <3>3 DEF Fault
        <4> QED
          BY <3>1, <4>1, <4>2, JobStepKeeps
      <3> QED
        BY <2>6, <3>2, <3>3 DEF Fault, JobFault
    <2> QED
      BY <2>1, <2>2, <2>3, <2>4, <2>5, <2>6 DEF Next
  <1> QED
    BY <1>1, <1>2, PTL DEF Spec

(* As long as a rollback of Home is pending, the Home it restores and the  *)
(* one it returns to are there, but for a confirmed purge and for a        *)
(* snapshot whose creation failed while it was verified.                   *)
THEOREM HomeRestorePointsStay == ASSUME HomeAssumption PROVE Spec => []HomeRestorePointsExist
  <1>1. HomeOK => HomeRestorePointsExist
    BY DEF HomeOK, RestoreOK, HomeRestorePointsExist, Safe, Whole
  <1> QED
    BY <1>1, HomeIsOK, PTL

(* The snapshot somebody has open is not deleted under him.                *)
THEOREM OpenHomeStays == ASSUME HomeAssumption PROVE Spec => []OpenHomeExists
  <1>1. HomeOK => OpenHomeExists
    BY DEF HomeOK, ReaderOK
  <1> QED
    BY <1>1, HomeIsOK, PTL

(* What has at most one member.                                            *)
LEMMA AtMostOne ==
  ASSUME NEW S, \A x, y \in S : x = y
  PROVE  Cardinality(S) <= 1
  <1>1. CASE S = {}
    BY <1>1, FS_EmptySet
  <1>2. CASE S # {}
    <2>1. PICK x : x \in S
      BY <1>2
    <2>2. S = {x}
      BY <2>1
    <2> QED
      BY <2>2, FS_Singleton
  <1> QED
    BY <1>1, <1>2

(* The baseline of Home is taken once, whatever became of it.              *)
THEOREM BaselineIsOne == ASSUME HomeAssumption PROVE Spec => []OneFactoryHome
  <1>1. HomeOK => OneFactoryHome
    BY AtMostOne DEF HomeOK, RecordsOK, OneFactoryHome
  <1> QED
    BY <1>1, HomeIsOK, PTL

(* Timers that fire together, or again after a failure, take one scheduled *)
(* snapshot of Home in an interval.                                        *)
THEOREM HomeCatchesUpOnce == ASSUME HomeAssumption PROVE Spec => []OneHomeCatchUp
  <1>1. ASSUME HomeOK
        PROVE  OneHomeCatchUp
    <2> DEFINE S == {i \in fresh : Verified(i) /\ rec[i].kind = "Automatic"}
    <2>1. \A i, j \in S : i = j
      BY <1>1 DEF HomeOK, TypeOK, CatchUpOK, CaughtUp
    <2>2. Cardinality(S) <= 1
      BY <2>1, AtMostOne
    <2> QED
      BY <2>2 DEF OneHomeCatchUp
  <1> QED
    BY <1>1, HomeIsOK, PTL
==============================================================================
