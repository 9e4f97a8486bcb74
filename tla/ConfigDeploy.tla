---------------------------- MODULE ConfigDeploy ----------------------------
(***************************************************************************)
(* The deploy pipeline (config_deploy in apps/gateway/services.py):        *)
(*                                                                         *)
(*     render -> back up -> write -> nginx -t -> reload                    *)
(*                                                                         *)
(* with a restore when Nginx refuses the files.  The managed files are the *)
(* ones Nginx includes, so they are copied, overwritten and restored one   *)
(* after the other in place, while Nginx may be restarted at any moment.   *)
(*                                                                         *)
(* A deploy d runs once: it is one run of the task async_config_deploy     *)
(* that has found the lock free, or of a management command, which does    *)
(* not ask for the lock.  The content of a file is the deploy that         *)
(* rendered it.  Which files Nginx accepts is a constant of the model: the *)
(* set Accepted.                                                           *)
(***************************************************************************)
EXTENDS Naturals

CONSTANTS
  Deploys,   \* the deploys
  Unlocked,  \* those run by a management command
  NFiles,    \* how many managed files there are
  Before,    \* the content of a file no deploy has written, if it exists at all
  Torn,      \* the content of a file whose write was cut short
  NoDeploy,  \* the lock key is absent
  Accepted,  \* the configurations nginx -t accepts
  Faults     \* the departures from the normal course a run admits

Files    == 1 .. NFiles
Contents == Deploys \cup {Before, Torn}
Configs  == [Files -> Contents]

\* The configuration d renders; and Whole(Before), what was there at first.
Whole(d) == [f \in Files |-> d]

ASSUME FilesAssumption == NFiles \in Nat \ {0}

ASSUME DeploysAssumption == /\ Unlocked \subseteq Deploys
                            /\ {Before, Torn, NoDeploy} \cap Deploys = {}
                            /\ Before # Torn

ASSUME AcceptedAssumption == /\ Accepted \subseteq Configs
                             /\ Whole(Before) \in Accepted

\* render_error    config_render raises, or the log row cannot be created
\* exception       a later step of config_deploy raises
\* worker_death    the process that runs a deploy is killed
\* outlasts_lock   a deploy may run for longer than the lock's TTL
\* restart_midway  Nginx may be restarted while a deploy changes the files
ASSUME FaultsAssumption ==
  Faults \subseteq {"render_error", "exception", "worker_death", "outlasts_lock",
                    "restart_midway"}

VARIABLES
  pc,       \* the step each deploy is about to take
  next,     \* the file it is about to copy, write or restore
  disk,     \* the managed files, where Nginx reads them
  backup,   \* the backup each deploy has made
  log,      \* the status in each deploy's ConfigDeployLog row
  lock,     \* the deploy that took the lock
  up,       \* whether Nginx runs
  running,  \* the configuration Nginx loaded last
  passed    \* the deploys whose files nginx -t accepted

vars == <<pc, next, disk, backup, log, lock, up, running, passed>>

\* The files may be another's than the last complete configuration.
Changing == {"write", "mark", "test", "reload", "restore", "retract"}
Active   == {"render", "backup", "again", "fail", "succeed", "release"} \cup Changing
Steps    == {"idle", "done", "dead"} \cup Active
Statuses == {"none", "pending", "testing", "deployed", "failed"}

TypeOK ==
  /\ pc \in [Deploys -> Steps]
  /\ next \in [Deploys -> Files]
  /\ disk \in Configs
  /\ backup \in [Deploys -> Configs]
  /\ log \in [Deploys -> Statuses]
  /\ lock \in Deploys \cup {NoDeploy}
  /\ up \in BOOLEAN
  /\ running \in Configs
  /\ passed \subseteq Deploys

Init ==
  /\ pc = [d \in Deploys |-> "idle"]
  /\ next = [d \in Deploys |-> 1]
  /\ disk = Whole(Before)
  /\ backup = [d \in Deploys |-> Whole(Before)]
  /\ log = [d \in Deploys |-> "none"]
  /\ lock = NoDeploy
  /\ up = TRUE
  /\ running = Whole(Before)
  /\ passed = {}

Goto(d, from, to) == pc[d] = from /\ pc' = [pc EXCEPT ![d] = to]

SetLog(d, status) == log' = [log EXCEPT ![d] = status]

\* Mutant: the loop's index is not reset for the next loop.
RunOn(d, from, to) ==
  /\ Goto(d, from, IF next[d] = NFiles THEN to ELSE from)
  /\ next' = [next EXCEPT ![d] = @ + 1]

\* The loop `from` over the files goes on to the next one, and after the last
\* to the step `to`.
NextFile(d, from, to) ==
  \/ /\ next[d] = NFiles
     /\ Goto(d, from, to)
     /\ next' = [next EXCEPT ![d] = 1]
  \/ /\ next[d] # NFiles
     /\ Goto(d, from, from)
     /\ next' = [next EXCEPT ![d] = @ + 1]

-----------------------------------------------------------------------------
(* Nginx.                                                                  *)

\* docker exec reaches a container that runs, and nginx reads the files as they
\* are at that moment.  A command may fail or time out whatever the files are.
Loadable == up /\ disk \in Accepted

\* A reload reported to have failed may have taken effect: the command timed out
\* after the signal was sent.
MayHaveLoaded == running' = running \/ (Loadable /\ running' = disk)

-----------------------------------------------------------------------------
(* config_deploy, and the task around it.                                  *)

\* Mutant: the lock is set without asking whether it is.
LockUnchecked(d) == TRUE

MayBegin(d) == d \in Unlocked \/ lock = NoDeploy

\* The task adds the lock key; a management command calls config_deploy
\* directly.
Begin(d) ==
  /\ Goto(d, "idle", "render")
  /\ MayBegin(d)
  /\ lock' = IF d \in Unlocked THEN lock ELSE d
  /\ UNCHANGED <<next, disk, backup, log, up, running, passed>>

\* config_render, and the creation of the log row.
Render(d) ==
  /\ Goto(d, "render", "backup")
  /\ SetLog(d, "pending")
  /\ UNCHANGED <<next, disk, backup, lock, up, running, passed>>

\* config_backup copies one more file.
BackupFile(d) ==
  /\ NextFile(d, "backup", "write")
  /\ backup' = [backup EXCEPT ![d][next[d]] = disk[next[d]]]
  /\ UNCHANGED <<disk, log, lock, up, running, passed>>

\* config_write overwrites one more file.
WriteFile(d) ==
  /\ NextFile(d, "write", "mark")
  /\ disk' = [disk EXCEPT ![next[d]] = d]
  /\ UNCHANGED <<backup, log, lock, up, running, passed>>

Mark(d) ==
  /\ Goto(d, "mark", "test")
  /\ SetLog(d, "testing")
  /\ UNCHANGED <<next, disk, backup, lock, up, running, passed>>

TestPasses(d) ==
  /\ Goto(d, "test", "reload")
  /\ Loadable
  /\ passed' = passed \cup {d}
  /\ UNCHANGED <<next, disk, backup, log, lock, up, running>>

\* Mutant: a refused configuration is recorded but not taken back.
NoRestore == "fail"

AfterRefusal == "restore"

TestFails(d) ==
  /\ Goto(d, "test", AfterRefusal)
  /\ UNCHANGED <<next, disk, backup, log, lock, up, running, passed>>

ReloadSucceeds(d) ==
  /\ Goto(d, "reload", "succeed")
  /\ Loadable
  /\ running' = disk
  /\ UNCHANGED <<next, disk, backup, log, lock, up, passed>>

ReloadFails(d) ==
  /\ Goto(d, "reload", "retract")
  /\ MayHaveLoaded
  /\ UNCHANGED <<next, disk, backup, log, lock, up, passed>>

\* Mutant: a file that did not exist before the deploy is not removed again.
KeepNewFile(d, f) == IF backup[d][f] = Before THEN disk[f] ELSE backup[d][f]

\* What a file is restored to: its backup, or nothing if there was none.
Restored(d, f) == backup[d][f]

\* config_restore puts one more file back, after a failed test or reload.
RestoreFile(d) ==
  /\ NextFile(d, "restore", "fail") \/ NextFile(d, "retract", "again")
  /\ disk' = [disk EXCEPT ![next[d]] = Restored(d, next[d])]
  /\ UNCHANGED <<backup, log, lock, up, running, passed>>

\* The reload after the rollback: nobody looks at its result.
ReloadAgain(d) ==
  /\ Goto(d, "again", "fail")
  /\ MayHaveLoaded
  /\ UNCHANGED <<next, disk, backup, log, lock, up, passed>>

SaveOutcome(d, status) == SetLog(d, status)

Succeed(d) ==
  /\ Goto(d, "succeed", "release")
  /\ SaveOutcome(d, "deployed")
  /\ UNCHANGED <<next, disk, backup, lock, up, running, passed>>

\* _fail
Fail(d) ==
  /\ Goto(d, "fail", "release")
  /\ SaveOutcome(d, "failed")
  /\ UNCHANGED <<next, disk, backup, lock, up, running, passed>>

\* The task's finally clause deletes the lock key, whoever set it.
Release(d) ==
  /\ Goto(d, "release", "done")
  /\ lock' = IF d \in Unlocked THEN lock ELSE NoDeploy
  /\ UNCHANGED <<next, disk, backup, log, up, running, passed>>

-----------------------------------------------------------------------------
(* Exceptions, deaths and restarts.                                        *)

\* What comes before the try is not caught: the deploy leaves no log row.
RenderRaises(d) ==
  /\ "render_error" \in Faults
  /\ Goto(d, "render", "release")
  /\ UNCHANGED <<next, disk, backup, log, lock, up, running, passed>>

\* A file being written when the exception strikes is truncated.
CutShort(d) ==
  \/ disk' = disk
  \/ /\ pc[d] \in {"write", "restore", "retract"}
     /\ disk' = [disk EXCEPT ![next[d]] = Torn]

\* An exception of any step under the try ends in _fail, without a restore; one
\* of _fail itself ends the task.
StepRaises(d) ==
  /\ "exception" \in Faults
  /\ \/ /\ pc[d] \in {"backup", "succeed", "again"} \cup Changing
        /\ pc' = [pc EXCEPT ![d] = "fail"]
     \/ Goto(d, "fail", "release")
  /\ CutShort(d)
  /\ UNCHANGED <<next, backup, log, lock, up, running, passed>>

WorkerDies(d) ==
  /\ "worker_death" \in Faults
  /\ pc[d] \in Active
  /\ pc' = [pc EXCEPT ![d] = "dead"]
  /\ CutShort(d)
  /\ UNCHANGED <<next, backup, log, lock, up, running, passed>>

ExpireLock ==
  /\ lock # NoDeploy
  /\ pc[lock] = "dead" \/ "outlasts_lock" \in Faults
  /\ lock' = NoDeploy
  /\ UNCHANGED <<pc, next, disk, backup, log, up, running, passed>>

\* No deploy is between its first write and the end of its last one.
AtRest == \A d \in Deploys : pc[d] \notin Changing

\* Nginx is restarted: it comes up again if it accepts the files on the disk.
NginxRestart ==
  /\ AtRest \/ "restart_midway" \in Faults
  /\ \/ disk \in Accepted /\ up' = TRUE /\ running' = disk
     \/ disk \notin Accepted /\ up' = FALSE /\ running' = running
  /\ UNCHANGED <<pc, next, disk, backup, log, lock, passed>>

-----------------------------------------------------------------------------

DeployStep(d) ==
  \/ Render(d) \/ BackupFile(d) \/ WriteFile(d) \/ Mark(d)
  \/ TestPasses(d) \/ TestFails(d) \/ ReloadSucceeds(d) \/ ReloadFails(d)
  \/ RestoreFile(d) \/ ReloadAgain(d) \/ Succeed(d) \/ Fail(d) \/ Release(d)

Next ==
  \/ \E d \in Deploys : \/ Begin(d) \/ DeployStep(d)
                        \/ RenderRaises(d) \/ StepRaises(d) \/ WorkerDies(d)
  \/ ExpireLock \/ NginxRestart

Spec == Init /\ [][Next]_vars

-----------------------------------------------------------------------------
(* Properties.                                                             *)

\* A configuration rendered as a whole, by a deploy that nginx -t let pass.
Sound(config) == \E d \in passed \cup {Before} : config = Whole(d)

\* Whenever no deploy is changing the files, Nginx could be restarted on them:
\* they are one whole configuration that has passed nginx -t.  (services.py: "a
\* rollback at each failure point"; tasks.py: nothing leaves "a half-written
\* config behind".)
RestartSafe == AtRest => Sound(disk) /\ disk \in Accepted

\* Nginx only ever runs a whole configuration that has passed nginx -t, though
\* it reads the files in place and may be restarted between deploys.
RunsWhatPassed == Sound(running)

\* A deploy is recorded as deployed only if Nginx runs what it rendered, all of
\* it, and would load it again, whatever earlier deploys that raised or died
\* have left on the disk.
DeployedIsLive ==
  [][\A d \in Deploys :
       log[d] # "deployed" /\ log'[d] = "deployed"
         => disk = Whole(d) /\ running = Whole(d)]_vars

\* The refinement mapping: the site is what the disk would hold if the deploy
\* that is changing it were rolled back; a deploy is decided by the reload.
Changers == {d \in Deploys : pc[d] \in Changing}

SiteView ==
  IF Changers = {} THEN disk ELSE backup[CHOOSE d \in Changers : TRUE]

OutcomeView ==
  [d \in Deploys |->
     IF pc[d] = "succeed" \/ log[d] = "deployed" THEN "deployed"
     ELSE IF log[d] = "failed" THEN "failed" ELSE "open"]

Atomic == INSTANCE AtomicDeploy
            WITH site <- SiteView, served <- running, outcome <- OutcomeView

\* To the outside a deploy is atomic: it replaces the whole configuration and is
\* recorded as deployed, or it changes nothing and is recorded as failed.
DeployIsAtomic == Atomic!Spec
=============================================================================
