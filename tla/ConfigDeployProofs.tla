------------------------- MODULE ConfigDeployProofs -------------------------
(***************************************************************************)
(* Theorems about ConfigDeploy, for any number of deploys and files and    *)
(* any set of accepted configurations: the types, in every course; and in  *)
(* the normal one, that the files are safe to restart on whenever no       *)
(* deploy is changing them, that Nginx only runs what passed its test, and *)
(* that the pipeline implements AtomicDeploy.  With the lock held alone,   *)
(* whatever else fails, Nginx runs what a deploy recorded as deployed.     *)
(***************************************************************************)
EXTENDS ConfigDeploy, TLAPS

-----------------------------------------------------------------------------
(* The types.                                                              *)

\* Every variable keeps its type: in particular every loop over the managed
\* files stays within them, and is left with its index ready for the next loop.
THEOREM TypeCorrect == Spec => []TypeOK
<1>1. Init => TypeOK
  BY FilesAssumption DEF Init, TypeOK, Files, Configs, Contents, Whole, Steps,
     Statuses
<1>2. TypeOK /\ [Next]_vars => TypeOK'
  <2> SUFFICES ASSUME TypeOK, [Next]_vars PROVE TypeOK'
    OBVIOUS
  <2> USE DEF TypeOK, Goto, SetLog
  <2>a. /\ Active \subseteq Steps
        /\ {"idle", "done", "dead"} \subseteq Steps
        /\ Changing \subseteq Active
        /\ {"render", "backup", "again", "fail", "succeed", "release"} \subseteq Active
        /\ {"write", "mark", "test", "reload", "restore", "retract"} \subseteq Changing
    BY DEF Steps, Active, Changing
  <2>b. {"none", "pending", "testing", "deployed", "failed"} \subseteq Statuses
    BY DEF Statuses
  <2>c. ASSUME NEW d \in Deploys, NEW from \in Steps, NEW to \in Steps,
               NextFile(d, from, to)
        PROVE  pc' \in [Deploys -> Steps] /\ next' \in [Deploys -> Files]
    <3>1. /\ next[d] = NFiles => 1 \in Files
          /\ next[d] # NFiles => next[d] + 1 \in Files
      BY FilesAssumption DEF Files
    <3> QED
      BY <2>c, <3>1 DEF NextFile
  <2>d. \A f \in Files, c \in Contents : [disk EXCEPT ![f] = c] \in Configs
    BY DEF Configs
  <2>1. ASSUME NEW d \in Deploys, Begin(d) PROVE TypeOK'
    BY <2>1, <2>a DEF Begin
  <2>2. ASSUME NEW d \in Deploys, Render(d) PROVE TypeOK'
    BY <2>2, <2>a, <2>b DEF Render
  <2>3. ASSUME NEW d \in Deploys, BackupFile(d) PROVE TypeOK'
    <3>1. disk[next[d]] \in Contents
      BY DEF Configs
    <3>2. backup' \in [Deploys -> Configs]
      BY <2>3, <3>1 DEF BackupFile, Configs
    <3> QED
      BY <2>3, <2>a, <2>c, <3>2 DEF BackupFile
  <2>4. ASSUME NEW d \in Deploys, WriteFile(d) PROVE TypeOK'
    <3>1. disk' \in Configs
      BY <2>4, <2>d DEF WriteFile, Contents
    <3> QED
      BY <2>4, <2>a, <2>c, <3>1 DEF WriteFile
  <2>5. ASSUME NEW d \in Deploys, Mark(d) PROVE TypeOK'
    BY <2>5, <2>a, <2>b DEF Mark
  <2>6. ASSUME NEW d \in Deploys, TestPasses(d) PROVE TypeOK'
    BY <2>6, <2>a DEF TestPasses
  <2>7. ASSUME NEW d \in Deploys, TestFails(d) PROVE TypeOK'
    BY <2>7, <2>a DEF TestFails, AfterRefusal
  <2>8. ASSUME NEW d \in Deploys, ReloadSucceeds(d) PROVE TypeOK'
    BY <2>8, <2>a DEF ReloadSucceeds
  <2>9. ASSUME NEW d \in Deploys, ReloadFails(d) PROVE TypeOK'
    BY <2>9, <2>a DEF ReloadFails, MayHaveLoaded
  <2>10. ASSUME NEW d \in Deploys, RestoreFile(d) PROVE TypeOK'
    <3>1. backup[d][next[d]] \in Contents
      BY DEF Configs
    <3>2. disk' \in Configs
      BY <2>10, <2>d, <3>1 DEF RestoreFile, Restored
    <3> QED
      BY <2>10, <2>a, <2>c, <3>2 DEF RestoreFile
  <2>11. ASSUME NEW d \in Deploys, ReloadAgain(d) PROVE TypeOK'
    BY <2>11, <2>a DEF ReloadAgain, MayHaveLoaded
  <2>12. ASSUME NEW d \in Deploys, Succeed(d) \/ Fail(d) PROVE TypeOK'
    BY <2>12, <2>a, <2>b DEF Succeed, Fail, SaveOutcome
  <2>13. ASSUME NEW d \in Deploys, Release(d) \/ RenderRaises(d) PROVE TypeOK'
    BY <2>13, <2>a DEF Release, RenderRaises
  <2>14. ASSUME NEW d \in Deploys, StepRaises(d) \/ WorkerDies(d) PROVE TypeOK'
    <3>1. disk' \in Configs
      BY <2>14, <2>d DEF StepRaises, WorkerDies, CutShort, Contents
    <3>2. pc' \in [Deploys -> Steps]
      BY <2>14, <2>a DEF StepRaises, WorkerDies
    <3>3. UNCHANGED <<next, backup, log, lock, up, running, passed>>
      BY <2>14 DEF StepRaises, WorkerDies
    <3> QED
      BY <3>1, <3>2, <3>3
  <2>15. CASE ExpireLock \/ UNCHANGED vars
    BY <2>15 DEF ExpireLock, vars
  <2>16. CASE NginxRestart
    BY <2>16 DEF NginxRestart
  <2> QED
    BY <2>1, <2>2, <2>3, <2>4, <2>5, <2>6, <2>7, <2>8, <2>9, <2>10, <2>11,
       <2>12, <2>13, <2>14, <2>15, <2>16 DEF Next, DeployStep
<1> QED
  BY <1>1, <1>2, PTL DEF Spec

-----------------------------------------------------------------------------
(* The files are safe to restart on.                                       *)

\* The normal course: every deploy takes the lock and ends before it expires,
\* nothing raises or dies once the log row is there, and Nginx is not restarted
\* while the files change.
NormalCourse ==
  /\ Unlocked = {}
  /\ Faults \cap {"exception", "worker_death", "outlasts_lock", "restart_midway"} = {}

Settled(config) == Sound(config) /\ config \in Accepted

\* A deploy under way holds the lock, so there is at most one.
HolderInv ==
  \A d \in Deploys : pc[d] # "dead" /\ (pc[d] \in Active => lock = d)

\* What the deploy d has in its backup and on the disk at each of its steps.
Progress(d) ==
  /\ pc[d] \notin {"backup", "write", "restore", "retract"} => next[d] = 1
  /\ pc[d] = "backup" => \A f \in Files : f < next[d] => backup[d][f] = disk[f]
  /\ pc[d] \in Changing => Settled(backup[d])
  /\ pc[d] = "write" => \A f \in Files : f < next[d] => disk[f] = d
  /\ pc[d] \in {"mark", "test", "reload"} => disk = Whole(d)
  /\ pc[d] = "reload" => d \in passed /\ disk \in Accepted
  /\ pc[d] \in {"restore", "retract"} =>
       \A f \in Files : f < next[d] => disk[f] = backup[d][f]

ProgressInv == \A d \in Deploys : Progress(d)

\* No outcome is recorded before the deploy's last steps.
LogInv ==
  \A d \in Deploys :
    pc[d] \notin {"release", "done"} => log[d] \notin {"deployed", "failed"}

PipelineInv ==
  /\ HolderInv
  /\ ProgressInv
  /\ LogInv
  /\ AtRest => Settled(disk)
  /\ Settled(running)

\* A configuration that agrees with w on all files but the last, and then is
\* given w's last file, is w: how the loops over the files end.
LEMMA LastFileCompletes ==
  ASSUME NEW c \in Configs, NEW w \in Configs,
         \A f \in Files : f < NFiles => c[f] = w[f]
  PROVE  [c EXCEPT ![NFiles] = w[NFiles]] = w
<1>1. \A f \in Files : f < NFiles \/ f = NFiles
  BY FilesAssumption DEF Files
<1>2. \A f \in Files : [c EXCEPT ![NFiles] = w[NFiles]][f] = w[f]
  BY <1>1 DEF Configs
<1> QED
  BY <1>2 DEF Configs

\* What a deploy renders, file after file, is a configuration.
LEMMA WholeIsConfig == \A d \in Contents : Whole(d) \in Configs
BY DEF Whole, Configs

\* Whoever is at work holds the lock, and has no outcome in the log yet.
LEMMA HolderStep ==
  ASSUME NormalCourse, TypeOK, HolderInv, LogInv, [Next]_vars
  PROVE  HolderInv' /\ LogInv'
<1> USE DEF TypeOK, HolderInv, LogInv, Active, Changing, Goto, SetLog
<1>1. ASSUME NEW d \in Deploys, Begin(d) PROVE HolderInv' /\ LogInv'
  BY <1>1, DeploysAssumption DEF NormalCourse, Begin, MayBegin
<1>2. ASSUME NEW d \in Deploys,
             \/ Render(d) \/ Mark(d) \/ TestPasses(d) \/ TestFails(d)
             \/ ReloadSucceeds(d) \/ ReloadFails(d) \/ ReloadAgain(d)
      PROVE HolderInv' /\ LogInv'
  BY <1>2 DEF Render, Mark, TestPasses, TestFails, AfterRefusal, ReloadSucceeds,
              ReloadFails, ReloadAgain
<1>3. ASSUME NEW d \in Deploys, BackupFile(d) \/ WriteFile(d) \/ RestoreFile(d)
      PROVE HolderInv' /\ LogInv'
  BY <1>3 DEF BackupFile, WriteFile, RestoreFile, NextFile
<1>4. ASSUME NEW d \in Deploys, Succeed(d) \/ Fail(d) PROVE HolderInv' /\ LogInv'
  BY <1>4 DEF Succeed, Fail, SaveOutcome
<1>5. ASSUME NEW d \in Deploys, Release(d) \/ RenderRaises(d)
      PROVE HolderInv' /\ LogInv'
  BY <1>5 DEF Release, RenderRaises
<1>6. ASSUME NEW d \in Deploys, StepRaises(d) \/ WorkerDies(d) PROVE FALSE
  BY <1>6 DEF NormalCourse, StepRaises, WorkerDies
<1>7. ~ExpireLock
  BY DEF NormalCourse, ExpireLock
<1>8. CASE NginxRestart \/ UNCHANGED vars
  BY <1>8 DEF NginxRestart, vars
<1> QED
  BY <1>1, <1>2, <1>3, <1>4, <1>5, <1>6, <1>7, <1>8 DEF Next, DeployStep

\* PipelineInv holds throughout the normal course.
LEMMA PipelineInvariant == ASSUME NormalCourse PROVE Spec => []PipelineInv
<1>1. Init => PipelineInv
  <2>1. Settled(Whole(Before))
    BY AcceptedAssumption DEF Settled, Sound
  <2> QED
    BY <2>1 DEF Init, PipelineInv, HolderInv, ProgressInv, Progress, LogInv,
                Active, Changing
<1>2. TypeOK /\ TypeOK' /\ PipelineInv /\ [Next]_vars => PipelineInv'
  <2> SUFFICES ASSUME TypeOK, TypeOK', PipelineInv, [Next]_vars
               PROVE  ProgressInv' /\ (AtRest => Settled(disk))' /\ Settled(running)'
    BY HolderStep DEF PipelineInv
  <2> USE DEF PipelineInv, TypeOK
  \* A configuration that was settled stays so: no deploy leaves `passed`.
  <2>a. \A c : Settled(c) /\ passed \subseteq passed' => Settled(c)'
    BY DEF Settled, Sound
  \* While d is active no other deploy is.
  <2>b. ASSUME NEW d \in Deploys, pc[d] \in Active
        PROVE  \A e \in Deploys \ {d} : pc[e] \notin Active
    BY <2>b DEF HolderInv
  \* Only the deploy that takes a step has anything to show for it.
  <2>c. ASSUME NEW d \in Deploys, pc[d] \in Active,
               \A e \in Deploys \ {d} : pc'[e] = pc[e] /\ next'[e] = next[e],
               Progress(d)'
        PROVE  ProgressInv'
    BY <2>b, <2>c DEF ProgressInv, Progress, Active, Changing
  <2>d. \A f \in Files : ~(f < 1)
    BY FilesAssumption DEF Files
  <2>e. NFiles \in Files
    BY FilesAssumption DEF Files
  <2>r. ASSUME UNCHANGED running, passed \subseteq passed' PROVE Settled(running)'
    BY <2>a, <2>r
  <2> USE DEF Goto
  <2>1. ASSUME NEW d \in Deploys, Begin(d)
        PROVE ProgressInv' /\ (AtRest => Settled(disk))' /\ Settled(running)'
    <3>1. \A e \in Deploys : Progress(e) => Progress(e)'
      BY <2>1 DEF Begin, Progress, Changing, Settled, Sound
    <3> QED
      BY <2>1, <3>1, <2>a, <2>r DEF Begin, ProgressInv, AtRest, Changing
  <2>2. ASSUME NEW d \in Deploys,
               \/ Render(d) \/ Succeed(d) \/ Fail(d) \/ Release(d) \/ RenderRaises(d)
        PROVE ProgressInv' /\ (AtRest => Settled(disk))' /\ Settled(running)'
    <3>1. pc[d] \in Active \ Changing /\ pc'[d] \notin Changing
      BY <2>2 DEF Render, Succeed, Fail, Release, RenderRaises, Active, Changing
    <3>2. UNCHANGED <<next, disk, running, passed>>
      BY <2>2 DEF Render, Succeed, Fail, Release, RenderRaises
    <3>3. next[d] = 1
      BY <2>2 DEF Render, Succeed, Fail, Release, RenderRaises, ProgressInv, Progress
    <3>4. ProgressInv'
      <4>1. Progress(d)'
        BY <2>d, <3>1, <3>2, <3>3 DEF Progress, Changing
      <4> QED
        BY <2>2, <2>c, <3>1, <3>2, <4>1 DEF Render, Succeed, Fail, Release, RenderRaises
    <3>5. Settled(disk)
      BY <2>b, <3>1 DEF AtRest, Changing, Active
    <3> QED
      BY <3>2, <3>4, <3>5, <2>a, <2>r
  <2>3. ASSUME NEW d \in Deploys, BackupFile(d)
        PROVE ProgressInv' /\ (AtRest => Settled(disk))' /\ Settled(running)'
    <3>1. pc[d] = "backup" /\ pc[d] \in Active /\ Progress(d)
      BY <2>3 DEF BackupFile, NextFile, Active, ProgressInv
    <3>2. Settled(disk)
      BY <2>b, <3>1 DEF AtRest, Changing, Active
    <3>3. backup'[d] = [backup[d] EXCEPT ![next[d]] = disk[next[d]]]
      BY <2>3 DEF BackupFile
    <3>4. UNCHANGED <<disk, running, passed>>
      BY <2>3 DEF BackupFile
    <3>5. Progress(d)'
      <4>1. CASE next[d] # NFiles
        <5>1. pc'[d] = "backup" /\ next'[d] = next[d] + 1
          BY <2>3, <3>1, <4>1 DEF BackupFile, NextFile
        <5>2. \A f \in Files : f < next[d] + 1 => f < next[d] \/ f = next[d]
          BY FilesAssumption DEF Files
        <5>3. \A f \in Files : f < next[d] + 1 => backup'[d][f] = disk[f]
          BY <3>1, <3>3, <5>2 DEF Progress, Configs
        <5> QED
          BY <5>1, <5>3, <3>4 DEF Progress, Changing
      <4>2. CASE next[d] = NFiles
        <5>1. pc'[d] = "write" /\ next'[d] = 1
          BY <2>3, <3>1, <4>2 DEF BackupFile, NextFile
        <5>2. \A f \in Files : f < NFiles => backup[d][f] = disk[f]
          BY <3>1, <4>2 DEF Progress
        <5>3. backup'[d] = disk
          BY <3>3, <4>2, <5>2, LastFileCompletes
        <5> QED
          BY <2>a, <2>d, <3>2, <3>4, <5>1, <5>3 DEF Progress
      <4> QED
        BY <4>1, <4>2
    <3> QED
      BY <2>3, <2>a, <2>c, <2>r, <3>1, <3>2, <3>4, <3>5 DEF BackupFile, NextFile
  <2>4. ASSUME NEW d \in Deploys, WriteFile(d)
        PROVE ProgressInv' /\ (AtRest => Settled(disk))' /\ Settled(running)'
    <3>1. pc[d] = "write" /\ pc[d] \in Active /\ Progress(d)
      BY <2>4 DEF WriteFile, NextFile, Active, Changing, ProgressInv
    <3>2. disk' = [disk EXCEPT ![next[d]] = d]
      BY <2>4 DEF WriteFile
    <3>3. UNCHANGED <<backup, running, passed>>
      BY <2>4 DEF WriteFile
    <3>4. Settled(backup[d])'
      BY <2>a, <3>1, <3>3 DEF Progress, Changing
    <3>5. Progress(d)' /\ pc'[d] \in {"write", "mark"}
      <4>1. CASE next[d] # NFiles
        <5>1. pc'[d] = "write" /\ next'[d] = next[d] + 1
          BY <2>4, <3>1, <4>1 DEF WriteFile, NextFile
        <5>2. \A f \in Files : f < next[d] + 1 => f < next[d] \/ f = next[d]
          BY FilesAssumption DEF Files
        <5>3. \A f \in Files : f < next[d] + 1 => disk'[f] = d
          BY <3>1, <3>2, <5>2 DEF Progress, Configs
        <5> QED
          BY <5>1, <5>3, <3>4 DEF Progress
      <4>2. CASE next[d] = NFiles
        <5>1. pc'[d] = "mark" /\ next'[d] = 1
          BY <2>4, <3>1, <4>2 DEF WriteFile, NextFile
        <5>2. Whole(d) \in Configs /\ \A f \in Files : Whole(d)[f] = d
          BY WholeIsConfig DEF Whole, Contents
        <5>3. \A f \in Files : f < NFiles => disk[f] = Whole(d)[f]
          BY <3>1, <4>2, <5>2 DEF Progress
        <5>4. disk' = Whole(d)
          BY <2>e, <3>2, <4>2, <5>2, <5>3, LastFileCompletes
        <5> QED
          BY <3>4, <5>1, <5>4 DEF Progress
      <4> QED
        BY <4>1, <4>2
    <3> QED
      BY <2>4, <2>c, <2>r, <3>1, <3>3, <3>5 DEF WriteFile, NextFile, AtRest, Changing
  <2>5. ASSUME NEW d \in Deploys, Mark(d) \/ TestPasses(d) \/ TestFails(d)
        PROVE ProgressInv' /\ (AtRest => Settled(disk))' /\ Settled(running)'
    <3>1. pc[d] \in Active /\ pc'[d] \in Changing /\ Progress(d)
      BY <2>5 DEF Mark, TestPasses, TestFails, AfterRefusal, Active, Changing, ProgressInv
    <3>2. UNCHANGED <<next, disk, backup, running>> /\ passed \subseteq passed'
      BY <2>5 DEF Mark, TestPasses, TestFails
    <3>3. Settled(backup[d])'
      BY <2>5, <2>a, <3>1, <3>2 DEF Mark, TestPasses, TestFails, Progress, Changing
    <3>4. Progress(d)'
      BY <2>5, <2>d, <3>1, <3>2, <3>3
         DEF Mark, TestPasses, TestFails, AfterRefusal, Loadable, Progress
    <3> QED
      BY <2>5, <2>c, <2>r, <3>1, <3>2, <3>4
         DEF Mark, TestPasses, TestFails, AtRest
  <2>6. ASSUME NEW d \in Deploys, ReloadSucceeds(d) \/ ReloadFails(d)
        PROVE ProgressInv' /\ (AtRest => Settled(disk))' /\ Settled(running)'
    <3>1. pc[d] = "reload" /\ pc[d] \in Active /\ Progress(d)
      BY <2>6 DEF ReloadSucceeds, ReloadFails, Active, Changing, ProgressInv
    <3>2. UNCHANGED <<next, disk, backup, passed>>
      BY <2>6 DEF ReloadSucceeds, ReloadFails
    <3>3. Settled(disk)
      BY <3>1 DEF Progress, Settled, Sound
    <3>4. running' \in {running, disk}
      BY <2>6 DEF ReloadSucceeds, ReloadFails, MayHaveLoaded
    <3>5. Settled(running)'
      BY <2>a, <3>2, <3>3, <3>4
    <3>6. Settled(disk)' /\ Settled(backup[d])'
      BY <2>a, <3>1, <3>2, <3>3 DEF Progress, Changing
    <3>7. Progress(d)'
      BY <2>6, <2>d, <3>1, <3>2, <3>6 DEF ReloadSucceeds, ReloadFails, Progress, Changing
    <3> QED
      BY <2>6, <2>c, <3>1, <3>2, <3>5, <3>6, <3>7 DEF ReloadSucceeds, ReloadFails
  <2>7. ASSUME NEW d \in Deploys, RestoreFile(d)
        PROVE ProgressInv' /\ (AtRest => Settled(disk))' /\ Settled(running)'
    <3>1. pc[d] \in {"restore", "retract"} /\ pc[d] \in Changing \cap Active /\ Progress(d)
      BY <2>7 DEF RestoreFile, NextFile, Active, Changing, ProgressInv
    <3>2. disk' = [disk EXCEPT ![next[d]] = backup[d][next[d]]]
      BY <2>7 DEF RestoreFile, Restored
    <3>3. UNCHANGED <<backup, running, passed>>
      BY <2>7 DEF RestoreFile
    <3>4. Settled(backup[d])'
      BY <2>a, <3>1, <3>3 DEF Progress
    <3>5. Progress(d)' /\ (pc'[d] \in Changing \/ Settled(disk)')
      <4>1. CASE next[d] # NFiles
        <5>1. pc'[d] = pc[d] /\ next'[d] = next[d] + 1
          BY <2>7, <3>1, <4>1 DEF RestoreFile, NextFile
        <5>2. \A f \in Files : f < next[d] + 1 => f < next[d] \/ f = next[d]
          BY FilesAssumption DEF Files
        <5>3. \A f \in Files : f < next[d] + 1 => disk'[f] = backup[d][f]
          BY <3>1, <3>2, <5>2 DEF Progress, Configs
        <5> QED
          BY <5>1, <5>3, <3>1, <3>3, <3>4 DEF Progress
      <4>2. CASE next[d] = NFiles
        <5>1. pc'[d] \in {"fail", "again"} /\ next'[d] = 1
          BY <2>7, <3>1, <4>2 DEF RestoreFile, NextFile
        <5>2. \A f \in Files : f < NFiles => disk[f] = backup[d][f]
          BY <3>1, <4>2 DEF Progress
        <5>3. disk' = backup[d]
          BY <3>2, <4>2, <5>2, LastFileCompletes
        <5> QED
          BY <3>3, <3>4, <5>1, <5>3 DEF Progress, Changing
      <4> QED
        BY <4>1, <4>2
    <3> QED
      <4>1. ProgressInv'
        BY <2>7, <2>c, <3>1, <3>5 DEF RestoreFile, NextFile
      <4>2. (AtRest => Settled(disk))'
        BY <3>5 DEF AtRest
      <4> QED
        BY <2>r, <3>3, <4>1, <4>2
  <2>8. ASSUME NEW d \in Deploys, ReloadAgain(d)
        PROVE ProgressInv' /\ (AtRest => Settled(disk))' /\ Settled(running)'
    <3>1. pc[d] = "again" /\ pc[d] \in Active /\ Progress(d)
      BY <2>8 DEF ReloadAgain, Active, ProgressInv
    <3>2. Settled(disk)
      BY <2>b, <3>1 DEF AtRest, Changing, Active
    <3>3. UNCHANGED <<next, disk, backup, passed>> /\ running' \in {running, disk}
      BY <2>8 DEF ReloadAgain, MayHaveLoaded
    <3>4. Progress(d)'
      BY <2>8, <3>1, <3>3 DEF ReloadAgain, Progress, Changing
    <3> QED
      BY <2>8, <2>a, <2>c, <3>1, <3>2, <3>3, <3>4 DEF ReloadAgain
  <2>9. CASE NginxRestart
    <3>1. AtRest
      BY <2>9 DEF NormalCourse, NginxRestart
    <3>2. UNCHANGED <<pc, next, disk, backup, passed>> /\ running' \in {running, disk}
      BY <2>9 DEF NginxRestart
    <3>3. ProgressInv'
      BY <3>2 DEF ProgressInv, Progress, Settled, Sound
    <3> QED
      BY <2>a, <3>1, <3>2, <3>3 DEF AtRest
  <2>10. CASE UNCHANGED vars
    <3>1. ProgressInv'
      BY <2>10 DEF vars, ProgressInv, Progress, Settled, Sound
    <3> QED
      BY <2>10, <2>a, <3>1 DEF vars, AtRest
  <2>11. ASSUME NEW d \in Deploys, StepRaises(d) \/ WorkerDies(d) PROVE FALSE
    BY <2>11 DEF NormalCourse, StepRaises, WorkerDies
  <2>12. ~ExpireLock
    BY DEF NormalCourse, ExpireLock, HolderInv
  <2> QED
    BY <2>1, <2>2, <2>3, <2>4, <2>5, <2>6, <2>7, <2>8, <2>9, <2>10, <2>11, <2>12
       DEF Next, DeployStep
<1> QED
  BY <1>1, <1>2, TypeCorrect, PTL DEF Spec

\* Whenever no deploy is changing them, the managed files are one whole
\* configuration that has passed nginx -t: a restart of Nginx finds nothing
\* half-written or refused, whatever deploys failed before, and at which step.
THEOREM SafeToRestart == ASSUME NormalCourse PROVE Spec => []RestartSafe
<1>1. PipelineInv => RestartSafe
  BY DEF PipelineInv, RestartSafe, Settled
<1> QED
  BY <1>1, PipelineInvariant, PTL

\* Nginx only runs whole configurations that have passed nginx -t, though it
\* reads the files in place, and reloads may be refused, time out, or take
\* effect without being seen to.
THEOREM RunsTestedConfigs == ASSUME NormalCourse PROVE Spec => []RunsWhatPassed
<1>1. PipelineInv => RunsWhatPassed
  BY DEF PipelineInv, RunsWhatPassed, Settled
<1> QED
  BY <1>1, PipelineInvariant, PTL

-----------------------------------------------------------------------------
(* What is recorded as deployed is live.                                   *)

\* The deploys of the task, and none that outlasts the lock.  A step may raise,
\* a worker may die, Nginx may be restarted at any time.
LockHolds == Unlocked = {} /\ "outlasts_lock" \notin Faults

\* A deploy at work holds the lock.
HoldsInv == \A d \in Deploys : pc[d] \in Active => lock = d

\* What a deploy on its way to success has on the disk: its own first files, then
\* all of them, and Nginx with them; whatever was there before.
WrittenBy(d) ==
  /\ pc[d] \in {"idle", "render"} => next[d] = 1
  /\ pc[d] = "write" => \A f \in Files : f < next[d] => disk[f] = d
  /\ pc[d] \in {"mark", "test", "reload", "succeed"} => disk = Whole(d)
  /\ pc[d] = "succeed" => running = Whole(d)

WrittenInv == \A d \in Deploys : WrittenBy(d)

\* With the lock a deploy that works is alone, however others end.
LEMMA HoldsStep ==
  ASSUME LockHolds, TypeOK, HoldsInv, [Next]_vars
  PROVE  HoldsInv'
<1> USE DEF TypeOK, HoldsInv, Active, Changing, Goto
<1>1. ASSUME NEW d \in Deploys, Begin(d) PROVE HoldsInv'
  BY <1>1, DeploysAssumption DEF LockHolds, Begin, MayBegin
<1>2. ASSUME NEW d \in Deploys, pc[d] \in Active, UNCHANGED lock,
             \A e \in Deploys \ {d} : pc'[e] = pc[e]
      PROVE  HoldsInv'
  BY <1>2
<1>3. ASSUME NEW d \in Deploys,
             \/ Render(d) \/ Mark(d) \/ TestPasses(d) \/ TestFails(d) \/ Succeed(d) \/ Fail(d)
             \/ ReloadSucceeds(d) \/ ReloadFails(d) \/ ReloadAgain(d) \/ RenderRaises(d)
      PROVE  HoldsInv'
  BY <1>2, <1>3 DEF Render, Mark, TestPasses, TestFails, Succeed, Fail, ReloadSucceeds,
                    ReloadFails, ReloadAgain, RenderRaises
<1>4. ASSUME NEW d \in Deploys, BackupFile(d) \/ WriteFile(d) \/ RestoreFile(d)
      PROVE  HoldsInv'
  BY <1>2, <1>4 DEF BackupFile, WriteFile, RestoreFile, NextFile
<1>5. ASSUME NEW d \in Deploys, StepRaises(d) \/ WorkerDies(d) PROVE HoldsInv'
  BY <1>2, <1>5 DEF StepRaises, WorkerDies
<1>6. ASSUME NEW d \in Deploys, Release(d) PROVE HoldsInv'
  BY <1>6 DEF Release
<1>7. CASE ExpireLock
  BY <1>7, DeploysAssumption DEF LockHolds, ExpireLock
<1>8. CASE NginxRestart \/ UNCHANGED vars
  BY <1>8 DEF NginxRestart, vars
<1> QED
  BY <1>1, <1>3, <1>4, <1>5, <1>6, <1>7, <1>8 DEF Next, DeployStep

\* So nobody writes between its files, nor under Nginx once it runs them.
LEMMA WrittenStep ==
  ASSUME TypeOK, HoldsInv, WrittenInv, [Next]_vars
  PROVE  WrittenInv'
<1> USE DEF TypeOK
<1>1. ASSUME NEW d \in Deploys, pc[d] \in Active
      PROVE  \A e \in Deploys \ {d} : pc[e] \notin Active
  BY <1>1 DEF HoldsInv
<1>2. ASSUME NEW d \in Deploys, pc[d] \in Active,
             \A e \in Deploys \ {d} : pc'[e] = pc[e] /\ next'[e] = next[e],
             WrittenBy(d)'
      PROVE  WrittenInv'
  BY <1>1, <1>2 DEF WrittenInv, WrittenBy, Active, Changing
<1>3. \A f \in Files : ~(f < 1)
  BY FilesAssumption DEF Files
<1>4. NFiles \in Files
  BY FilesAssumption DEF Files
<1> USE DEF Goto
<1>5. ASSUME NEW d \in Deploys, Begin(d) PROVE WrittenInv'
  BY <1>5 DEF Begin, WrittenInv, WrittenBy
<1>6. ASSUME NEW d \in Deploys, Render(d) \/ RenderRaises(d) \/ Fail(d) \/ Release(d) PROVE WrittenInv'
  <2>1. WrittenBy(d)' /\ pc[d] \in Active /\ UNCHANGED next /\ \A e \in Deploys \ {d} : pc'[e] = pc[e]
    BY <1>6 DEF Render, RenderRaises, Fail, Release, WrittenBy, Active
  <2> QED
    BY <1>2, <2>1
<1>7. ASSUME NEW d \in Deploys, BackupFile(d) PROVE WrittenInv'
  <2>1. /\ pc[d] \in Active /\ \A e \in Deploys \ {d} : pc'[e] = pc[e] /\ next'[e] = next[e]
        /\ pc'[d] = "backup" \/ (pc'[d] = "write" /\ next'[d] = 1)
    BY <1>7 DEF BackupFile, NextFile, Active
  <2>2. WrittenBy(d)'
    BY <1>3, <2>1 DEF WrittenBy
  <2> QED
    BY <1>2, <2>1, <2>2
<1>8. ASSUME NEW d \in Deploys, WriteFile(d) PROVE WrittenInv'
  <2>1. /\ pc[d] = "write" /\ \A e \in Deploys \ {d} : pc'[e] = pc[e] /\ next'[e] = next[e]
        /\ disk' = [disk EXCEPT ![next[d]] = d]
    BY <1>8 DEF WriteFile, NextFile
  <2>2. \A f \in Files : f < next[d] => disk[f] = d
    BY <2>1 DEF WrittenInv, WrittenBy
  <2>3. CASE next[d] # NFiles
    <3>1. pc'[d] = "write" /\ next'[d] = next[d] + 1
      BY <1>8, <2>3 DEF WriteFile, NextFile
    <3>2. \A f \in Files : f < next[d] + 1 => f < next[d] \/ f = next[d]
      BY FilesAssumption DEF Files
    <3>3. \A f \in Files : f < next'[d] => disk'[f] = d
      BY <2>1, <2>2, <3>1, <3>2 DEF Configs
    <3> QED
      BY <1>2, <2>1, <3>1, <3>3 DEF WrittenBy, Active, Changing
  <2>4. CASE next[d] = NFiles
    <3>1. pc'[d] = "mark"
      BY <1>8, <2>4 DEF WriteFile, NextFile
    <3>2. Whole(d) \in Configs /\ \A f \in Files : Whole(d)[f] = d
      BY WholeIsConfig DEF Whole, Contents
    <3>3. disk' = Whole(d)
      <4>1. [disk EXCEPT ![NFiles] = Whole(d)[NFiles]] = Whole(d)
        BY <2>2, <2>4, <3>2, LastFileCompletes
      <4> QED
        BY <1>4, <2>1, <2>4, <3>2, <4>1
    <3> QED
      BY <1>2, <2>1, <3>1, <3>3 DEF WrittenBy, Active, Changing
  <2> QED
    BY <2>3, <2>4
<1>9. ASSUME NEW d \in Deploys,
             \/ Mark(d) \/ TestPasses(d) \/ TestFails(d) \/ ReloadSucceeds(d) \/ ReloadFails(d)
             \/ ReloadAgain(d) \/ Succeed(d)
      PROVE  WrittenInv'
  <2>1. /\ pc[d] \in Active /\ UNCHANGED <<next, disk>>
        /\ \A e \in Deploys \ {d} : pc'[e] = pc[e]
    BY <1>9 DEF Mark, TestPasses, TestFails, ReloadSucceeds, ReloadFails, ReloadAgain, Succeed,
                Active, Changing
  <2>2. WrittenBy(d)'
    BY <1>9 DEF Mark, TestPasses, TestFails, AfterRefusal, ReloadSucceeds, ReloadFails,
                ReloadAgain, Succeed, WrittenInv, WrittenBy
  <2> QED
    BY <1>2, <2>1, <2>2
<1>10. ASSUME NEW d \in Deploys, RestoreFile(d) PROVE WrittenInv'
  <2>1. /\ pc[d] \in Active /\ \A e \in Deploys \ {d} : pc'[e] = pc[e] /\ next'[e] = next[e]
        /\ pc'[d] \in {"restore", "retract", "again", "fail"}
    BY <1>10 DEF RestoreFile, NextFile, Active, Changing
  <2> QED
    BY <1>2, <2>1 DEF WrittenBy
<1>11. ASSUME NEW d \in Deploys, StepRaises(d) \/ WorkerDies(d) PROVE WrittenInv'
  <2>1. /\ pc[d] \in Active /\ UNCHANGED next /\ \A e \in Deploys \ {d} : pc'[e] = pc[e]
        /\ pc'[d] \in {"fail", "release", "dead"}
    BY <1>11 DEF StepRaises, WorkerDies, Active, Changing
  <2> QED
    BY <1>2, <2>1 DEF WrittenBy
<1>12. CASE NginxRestart
  BY <1>12 DEF NginxRestart, WrittenInv, WrittenBy
<1>13. CASE ExpireLock \/ UNCHANGED vars
  BY <1>13 DEF ExpireLock, vars, WrittenInv, WrittenBy
<1> QED
  BY <1>5, <1>6, <1>7, <1>8, <1>9, <1>10, <1>11, <1>12, <1>13 DEF Next, DeployStep

\* A deploy is recorded as deployed only if the disk holds, and Nginx runs, what it
\* rendered and nothing else, for any number of files and deploys: also after
\* deploys that raised, or whose worker died, and with Nginx restarted at any time.
THEOREM RecordedDeploysAreLive ==
  ASSUME LockHolds PROVE Spec => DeployedIsLive
<1>1. Init => HoldsInv /\ WrittenInv
  BY DEF Init, HoldsInv, WrittenInv, WrittenBy, Active, Changing
<1>2. TypeOK /\ HoldsInv /\ WrittenInv /\ [Next]_vars => HoldsInv' /\ WrittenInv'
  BY HoldsStep, WrittenStep, LockHolds
<1>3. TypeOK /\ WrittenInv /\ [Next]_vars
        => [\A d \in Deploys : log[d] # "deployed" /\ log'[d] = "deployed"
              => disk = Whole(d) /\ running = Whole(d)]_vars
  <2> SUFFICES ASSUME TypeOK, WrittenInv, Next, NEW d \in Deploys,
                      log[d] # "deployed", log'[d] = "deployed"
               PROVE  disk = Whole(d) /\ running = Whole(d)
    OBVIOUS
  <2>1. PICK e \in Deploys : \/ Begin(e) \/ DeployStep(e) \/ RenderRaises(e) \/ StepRaises(e)
                             \/ WorkerDies(e)
    BY DEF Next, ExpireLock, NginxRestart
  <2>2. Succeed(e) /\ e = d
    BY <2>1 DEF Begin, DeployStep, Render, BackupFile, WriteFile, Mark, TestPasses, TestFails,
                ReloadSucceeds, ReloadFails, RestoreFile, ReloadAgain, Succeed, Fail, Release,
                RenderRaises, StepRaises, WorkerDies, SetLog, SaveOutcome, TypeOK
  <2> QED
    BY <2>2 DEF Succeed, Goto, WrittenInv, WrittenBy
<1> QED
  BY <1>1, <1>2, <1>3, TypeCorrect, PTL DEF Spec, DeployedIsLive

-----------------------------------------------------------------------------
(* The pipeline implements AtomicDeploy.                                   *)

\* To the outside a deploy is atomic, although it works file by file on the files
\* Nginx reads: it replaces the whole configuration and is recorded as deployed,
\* or it changes nothing and is recorded as failed.
THEOREM DeployImplementsAtomicDeploy ==
  ASSUME NormalCourse PROVE Spec => DeployIsAtomic
<1> USE DEF Atomic!Whole, Whole
<1>1. Init => Atomic!Init
  <2> SUFFICES ASSUME Init PROVE Atomic!Init
    OBVIOUS
  <2>1. SiteView = disk
    BY DEF Init, SiteView, Changers, Changing
  <2>2. OutcomeView = [d \in Deploys |-> "open"]
    BY DEF Init, OutcomeView
  <2> QED
    BY <2>1, <2>2 DEF Init, Atomic!Init
<1>2. /\ TypeOK /\ PipelineInv /\ TypeOK' /\ PipelineInv' /\ [Next]_vars
      => [Atomic!Next]_(Atomic!vars)
  <2> SUFFICES ASSUME TypeOK, PipelineInv, TypeOK', PipelineInv', [Next]_vars
               PROVE  [Atomic!Next]_(Atomic!vars)
    OBVIOUS
  <2> USE DEF Goto, SetLog
  <2>s. ASSUME UNCHANGED <<SiteView, running, OutcomeView>>
        PROVE  UNCHANGED Atomic!vars
    BY <2>s DEF Atomic!vars
  \* What the mapping shows of the files, at rest and under way.
  <2>a. AtRest => SiteView = disk
    BY DEF SiteView, Changers, AtRest
  <2>b. AtRest' => SiteView' = disk'
    BY DEF SiteView, Changers, AtRest
  <2>c. \A d \in Deploys : pc[d] \in Changing => SiteView = backup[d]
    BY DEF SiteView, Changers, PipelineInv, HolderInv, Active
  <2>d. \A d \in Deploys : pc'[d] \in Changing => SiteView' = backup'[d]
    BY DEF SiteView, Changers, PipelineInv, HolderInv, Active
  <2>e. ASSUME NEW d \in Deploys, pc[d] \in Active \ Changing PROVE AtRest
    BY <2>e DEF AtRest, PipelineInv, HolderInv, Active
  <2>f. ASSUME NEW d \in Deploys, pc'[d] \in Active \ Changing PROVE AtRest'
    BY <2>f DEF AtRest, PipelineInv, HolderInv, Active
  <2>o. ASSUME NEW d \in Deploys, pc[d] \notin {"release", "done", "succeed"}
        PROVE  OutcomeView[d] = "open"
    BY <2>o DEF OutcomeView, PipelineInv, LogInv
  <2>p. ASSUME NEW d \in Deploys, UNCHANGED log, pc[d] # "succeed", pc'[d] # "succeed",
               \A e \in Deploys \ {d} : pc'[e] = pc[e]
        PROVE  OutcomeView' = OutcomeView
    BY <2>p DEF OutcomeView
  <2>g. ASSUME NEW d \in Deploys, pc[d] \notin Changing, UNCHANGED <<disk, backup>>,
               pc' = [pc EXCEPT ![d] = pc'[d]], pc'[d] \notin Changing
        PROVE  SiteView' = SiteView
    <3>1. \A e \in Deploys : pc'[e] \in Changing <=> pc[e] \in Changing
      BY <2>g DEF TypeOK
    <3>2. Changers' = Changers
      BY <3>1 DEF Changers
    <3> QED
      BY <2>g, <3>2 DEF SiteView
  <2> USE DEF TypeOK
  <2>1. ASSUME NEW d \in Deploys, Begin(d) PROVE UNCHANGED Atomic!vars
    <3>1. OutcomeView' = OutcomeView
      BY <2>1, <2>p DEF Begin
    <3>2. SiteView' = SiteView
      BY <2>1, <2>g DEF Begin, Changing
    <3> QED
      BY <2>1, <2>s, <3>1, <3>2 DEF Begin
  <2>2. ASSUME NEW d \in Deploys, Render(d) \/ Mark(d) PROVE UNCHANGED Atomic!vars
    <3>1. OutcomeView' = OutcomeView
      BY <2>2, <2>o DEF Render, Mark, OutcomeView, PipelineInv, LogInv
    <3>2. CASE Render(d)
      <4>1. SiteView' = SiteView
        BY <3>2, <2>g DEF Render, Changing
      <4> QED
        BY <2>s, <3>1, <3>2, <4>1 DEF Render
    <3>3. CASE Mark(d)
      <4>1. SiteView' = SiteView
        BY <3>3, <2>c, <2>d DEF Mark, Changing
      <4> QED
        BY <2>s, <3>1, <3>3, <4>1 DEF Mark
    <3> QED
      BY <2>2, <3>2, <3>3
  <2>3. ASSUME NEW d \in Deploys, BackupFile(d) PROVE UNCHANGED Atomic!vars
    <3>1. OutcomeView' = OutcomeView
      BY <2>3, <2>p DEF BackupFile, NextFile
    <3>2. SiteView = disk /\ pc[d] = "backup"
      BY <2>3, <2>a, <2>e DEF BackupFile, NextFile, Active, Changing
    \* When the last file is copied the site moves from the disk to the backup.
    <3>3. SiteView' = disk
      <4>1. CASE next[d] # NFiles
        <5>1. pc'[d] \in Active \ Changing /\ disk' = disk
          BY <2>3, <4>1 DEF BackupFile, NextFile, Active, Changing
        <5> QED
          BY <5>1, <2>b, <2>f
      <4>2. CASE next[d] = NFiles
        <5>1. \A f \in Files : f < NFiles => backup[d][f] = disk[f]
          BY <3>2, <4>2 DEF PipelineInv, ProgressInv, Progress
        <5>2. backup'[d] = [backup[d] EXCEPT ![NFiles] = disk[NFiles]]
          BY <2>3, <4>2 DEF BackupFile
        <5>3. backup'[d] = disk
          BY <5>1, <5>2, LastFileCompletes
        <5>4. pc'[d] \in Changing
          BY <2>3, <4>2 DEF BackupFile, NextFile, Changing
        <5> QED
          BY <5>3, <5>4, <2>d
      <4> QED
        BY <4>1, <4>2
    <3> QED
      BY <2>3, <2>s, <3>1, <3>2, <3>3 DEF BackupFile
  <2>4. ASSUME NEW d \in Deploys, WriteFile(d) \/ TestPasses(d) \/ TestFails(d)
        PROVE UNCHANGED Atomic!vars
    <3>1. OutcomeView' = OutcomeView
      BY <2>4, <2>p DEF WriteFile, NextFile, TestPasses, TestFails, AfterRefusal
    <3>2. pc[d] \in Changing /\ pc'[d] \in Changing
      BY <2>4 DEF WriteFile, NextFile, TestPasses, TestFails, AfterRefusal, Changing
    <3>3. UNCHANGED <<backup, running>>
      BY <2>4 DEF WriteFile, TestPasses, TestFails
    <3> QED
      BY <2>c, <2>d, <2>s, <3>1, <3>2, <3>3
  <2>5. ASSUME NEW d \in Deploys, ReloadSucceeds(d) PROVE Atomic!Deploy(d)
    <3>1. SiteView' = disk' /\ disk' = Whole(d) /\ running' = disk
      BY <2>5, <2>b, <2>f
         DEF ReloadSucceeds, Active, Changing, PipelineInv, ProgressInv, Progress
    <3>2. OutcomeView' = [OutcomeView EXCEPT ![d] = "deployed"]
      BY <2>5 DEF ReloadSucceeds, OutcomeView
    <3> QED
      BY <2>5, <2>o, <3>1, <3>2 DEF ReloadSucceeds, Atomic!Deploy
  <2>6. ASSUME NEW d \in Deploys, ReloadFails(d)
        PROVE Atomic!Slip(d) \/ UNCHANGED Atomic!vars
    <3>1. OutcomeView' = OutcomeView
      BY <2>6, <2>p DEF ReloadFails
    <3>2. SiteView' = SiteView
      BY <2>6, <2>c, <2>d DEF ReloadFails, Changing
    <3>3. running' = running \/ running' = Whole(d)
      BY <2>6 DEF ReloadFails, MayHaveLoaded, PipelineInv, ProgressInv, Progress
    <3> QED
      BY <2>6, <2>o, <2>s, <3>1, <3>2, <3>3 DEF ReloadFails, Atomic!Slip
  <2>7. ASSUME NEW d \in Deploys, RestoreFile(d) PROVE UNCHANGED Atomic!vars
    <3>1. OutcomeView' = OutcomeView
      BY <2>7, <2>p DEF RestoreFile, NextFile
    <3>2. SiteView = backup[d] /\ pc[d] \in {"restore", "retract"}
      BY <2>7, <2>c DEF RestoreFile, NextFile, Changing
    \* When the last file is restored the site moves from the backup to the disk.
    <3>3. SiteView' = backup[d]
      <4>1. CASE next[d] # NFiles
        BY <2>7, <4>1, <2>d DEF RestoreFile, NextFile, Changing
      <4>2. CASE next[d] = NFiles
        <5>1. \A f \in Files : f < NFiles => disk[f] = backup[d][f]
          BY <3>2, <4>2 DEF PipelineInv, ProgressInv, Progress
        <5>2. disk' = [disk EXCEPT ![NFiles] = backup[d][NFiles]]
          BY <2>7, <4>2 DEF RestoreFile, Restored
        <5>3. disk' = backup[d]
          BY <5>1, <5>2, LastFileCompletes
        <5>4. pc'[d] \in Active \ Changing
          BY <2>7, <4>2 DEF RestoreFile, NextFile, Active, Changing
        <5> QED
          BY <5>3, <5>4, <2>b, <2>f
      <4> QED
        BY <4>1, <4>2
    <3> QED
      BY <2>7, <2>s, <3>1, <3>2, <3>3 DEF RestoreFile
  <2>8. ASSUME NEW d \in Deploys, ReloadAgain(d)
        PROVE Atomic!LoadSite \/ UNCHANGED Atomic!vars
    <3>1. OutcomeView' = OutcomeView
      BY <2>8, <2>p DEF ReloadAgain
    <3>2. SiteView = disk /\ SiteView' = disk
      BY <2>8, <2>a, <2>b, <2>e, <2>f DEF ReloadAgain, Active, Changing
    <3>3. running' \in {running, disk}
      BY <2>8 DEF ReloadAgain, MayHaveLoaded
    <3> QED
      BY <2>s, <3>1, <3>2, <3>3 DEF Atomic!LoadSite
  <2>9. ASSUME NEW d \in Deploys, Succeed(d) PROVE UNCHANGED Atomic!vars
    <3>1. OutcomeView' = OutcomeView
      BY <2>9 DEF Succeed, SaveOutcome, OutcomeView
    <3>2. SiteView' = SiteView
      BY <2>9, <2>g DEF Succeed, Changing
    <3> QED
      BY <2>9, <2>s, <3>1, <3>2 DEF Succeed
  <2>10. ASSUME NEW d \in Deploys, Fail(d) PROVE Atomic!Refuse(d)
    <3>1. OutcomeView' = [OutcomeView EXCEPT ![d] = "failed"]
      BY <2>10 DEF Fail, SaveOutcome, OutcomeView
    <3>2. SiteView' = SiteView
      BY <2>10, <2>g DEF Fail, Changing
    <3> QED
      BY <2>10, <2>o, <3>1, <3>2 DEF Fail, Atomic!Refuse
  <2>11. ASSUME NEW d \in Deploys, Release(d) \/ RenderRaises(d)
         PROVE UNCHANGED Atomic!vars
    <3>1. OutcomeView' = OutcomeView
      BY <2>11, <2>p DEF Release, RenderRaises
    <3>2. SiteView' = SiteView
      BY <2>11, <2>g DEF Release, RenderRaises, Changing
    <3> QED
      BY <2>11, <2>s, <3>1, <3>2 DEF Release, RenderRaises
  <2>12. CASE NginxRestart
    <3>1. AtRest /\ AtRest'
      BY <2>12 DEF NormalCourse, NginxRestart, AtRest
    <3>2. UNCHANGED <<SiteView, OutcomeView>> /\ running' \in {running, disk}
      BY <2>12 DEF NginxRestart, SiteView, Changers, OutcomeView
    <3> QED
      BY <2>a, <2>s, <3>1, <3>2 DEF Atomic!Next, Atomic!LoadSite
  <2>13. CASE UNCHANGED vars
    BY <2>13 DEF vars, Atomic!vars, SiteView, Changers, OutcomeView
  <2>14. ASSUME NEW d \in Deploys, StepRaises(d) \/ WorkerDies(d) PROVE FALSE
    BY <2>14 DEF NormalCourse, StepRaises, WorkerDies
  <2>15. ~ExpireLock
    BY DEF NormalCourse, ExpireLock, PipelineInv, HolderInv
  <2> QED
    BY <2>1, <2>2, <2>3, <2>4, <2>5, <2>6, <2>7, <2>8, <2>9, <2>10, <2>11,
       <2>12, <2>13, <2>14, <2>15 DEF Next, DeployStep, Atomic!Next
<1> QED
  BY <1>1, <1>2, TypeCorrect, PipelineInvariant, PTL
     DEF Spec, DeployIsAtomic, Atomic!Spec

=============================================================================
