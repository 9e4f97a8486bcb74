---------------------------- MODULE DeployQueue ----------------------------
(***************************************************************************)
(* The deploy queue of the control plane (apps/gateway/tasks.py): how a    *)
(* burst of edits made through the panel becomes a few deploys, and why    *)
(* every edit is in one of them.                                           *)
(*                                                                         *)
(* A write endpoint commits its edit to Postgres, then calls               *)
(* request_config_deploy, which either wins a flag in Redis and publishes  *)
(* a Celery message, or finds the flag set and leaves its edit to the      *)
(* deploy already queued.  The task clears the flag, takes the pending     *)
(* user off the cache, takes a lock, renders from the database, deploys    *)
(* and drops the lock; refused the lock, it retries, MaxRetries times.     *)
(*                                                                         *)
(* A request r is followed through its whole life, stage[r]: the edit, the *)
(* call to request_config_deploy and, if r won the flag, the task it       *)
(* published.  The three cache keys hold no owner in the code; here `lock` *)
(* holds the task that took it, which only the properties and the fault    *)
(* actions read.                                                           *)
(***************************************************************************)
EXTENDS Naturals

CONSTANTS
  Requests,    \* calls of write endpoints (and of the health and certificate tasks)
  Users,       \* panel users
  NoUser,      \* user_id None
  NoTask,      \* the lock key is absent
  UserOf,      \* who makes each request; NoUser for the periodic tasks
  MaxRetries,  \* max_retries of async_config_deploy
  Outcomes,    \* how config_deploy may end: a subset of {"deployed", "failed"}
  Faults       \* the departures from the normal course a run admits

ASSUME UsersAssumption == /\ NoUser \notin Users
                          /\ UserOf \in [Requests -> Users \cup {NoUser}]

ASSUME NoTaskAssumption == NoTask \notin Requests

ASSUME RetriesAssumption == MaxRetries \in Nat \ {0}

ASSUME OutcomesAssumption == /\ Outcomes # {}
                             /\ Outcomes \subseteq {"deployed", "failed"}

\* publish_error   the broker refuses the message, or the web worker dies first
\* worker_death    a Celery worker process is killed in the middle of the task
\* broker_lag      a message waits in the queue for longer than the flag's TTL
\* outlasts_retry  a deploy may still run when the task it refused retries
\* outlasts_lock   a deploy may run for longer than the lock's TTL
ASSUME FaultsAssumption ==
  Faults \subseteq {"publish_error", "worker_death", "broker_lag",
                    "outlasts_retry", "outlasts_lock"}

VARIABLES
  saved,        \* the edits committed to the database
  stage,        \* where each request, and the task it published, has got to
  scheduled,    \* cache key gateway:deploy:scheduled
  pendingUser,  \* cache key gateway:deploy:requested_by
  lock,         \* cache key gateway:deploy:lock
  retries,      \* how often Celery has re-queued the task
  refusedBy,    \* the lock holder that last refused the task
  taskUser,     \* the local user_id of the running task
  view,         \* the edits the task is bound to see, then those it has rendered
  attempted,    \* the edits some deploy has rendered
  site          \* the edits in the configuration deployed last

cacheVars == <<scheduled, pendingUser, lock>>
taskVars  == <<retries, refusedBy, taskUser, view>>
liveVars  == <<attempted, site>>
vars      == <<saved, stage, cacheVars, taskVars, liveVars>>

RequestStages == {"idle", "saved", "noted", "flagged"}
TaskStages    == {"queued", "started", "userRead", "ready", "retrying"}
Holding       == {"rendering", "writing", "releasing"}
EndStages     == {"joined", "unpublished", "done", "lost", "dead"}
Stages        == RequestStages \cup TaskStages \cup Holding \cup EndStages

TypeOK ==
  /\ saved \subseteq Requests
  /\ stage \in [Requests -> Stages]
  /\ scheduled \in BOOLEAN
  /\ pendingUser \in Users \cup {NoUser}
  /\ lock \in Requests \cup {NoTask}
  /\ retries \in [Requests -> 0 .. MaxRetries]
  /\ refusedBy \in [Requests -> Requests \cup {NoTask}]
  /\ taskUser \in [Requests -> Users \cup {NoUser}]
  /\ view \in [Requests -> SUBSET Requests]
  /\ attempted \subseteq Requests
  /\ site \subseteq Requests

Init ==
  /\ saved = {}
  /\ stage = [r \in Requests |-> "idle"]
  /\ scheduled = FALSE
  /\ pendingUser = NoUser
  /\ lock = NoTask
  /\ retries = [r \in Requests |-> 0]
  /\ refusedBy = [r \in Requests |-> NoTask]
  /\ taskUser = [r \in Requests |-> NoUser]
  /\ view = [r \in Requests |-> {}]
  /\ attempted = {}
  /\ site = {}

Goto(r, from, to) == stage[r] = from /\ stage' = [stage EXCEPT ![r] = to]

-----------------------------------------------------------------------------
(* The write endpoint and request_config_deploy.                           *)

\* The endpoint's service commits the edit.  Postgres is in autocommit, so the
\* row is visible to every later query before the deploy is asked for.
\* Mutant: the edit commits only when the endpoint returns (ATOMIC_REQUESTS).
CommitLater(r) == UNCHANGED saved

Commit(r) == saved' = saved \cup {r}

SaveEdit(r) ==
  /\ Goto(r, "idle", "saved")
  /\ Commit(r)
  /\ UNCHANGED <<cacheVars, taskVars, liveVars>>

\* cache.set of the pending user: the last caller of the window wins.
NoteUser(r) ==
  /\ Goto(r, "saved", "noted")
  /\ pendingUser' = IF UserOf[r] = NoUser THEN pendingUser ELSE UserOf[r]
  /\ UNCHANGED <<saved, scheduled, lock, taskVars, liveVars>>

\* cache.add succeeds: this call will schedule the deploy.
WinFlag(r) ==
  /\ Goto(r, "noted", "flagged")
  /\ ~scheduled
  /\ scheduled' = TRUE
  /\ UNCHANGED <<saved, pendingUser, lock, taskVars, liveVars>>

\* cache.add fails: the call returns False and leaves the edit to the task
\* the flag stands for.
JoinScheduled(r) ==
  /\ Goto(r, "noted", "joined")
  /\ scheduled
  /\ UNCHANGED <<saved, cacheVars, taskVars, liveVars>>

\* async_config_deploy.apply_async(countdown=delay).
Publish(r) ==
  /\ Goto(r, "flagged", "queued")
  /\ UNCHANGED <<saved, cacheVars, taskVars, liveVars>>

-----------------------------------------------------------------------------
(* The task async_config_deploy.                                           *)

\* A retry runs five seconds after the refusal: by then the deploy that refused
\* it has ended, unless deploys outlast the countdown.
RetryTooEarly(r) == "outlasts_retry" \notin Faults /\ stage[refusedBy[r]] \in Holding

Due(r) == stage[r] = "queued" \/ (stage[r] = "retrying" /\ ~RetryTooEarly(r))

\* Mutant: the flag is left to its TTL.
KeepFlag == UNCHANGED scheduled

ClearFlag == scheduled' = FALSE

\* The task starts, and first deletes the flag: an edit saved from here on
\* schedules a deploy of its own.
StartTask(r) ==
  /\ Due(r)
  /\ stage' = [stage EXCEPT ![r] = "started"]
  /\ ClearFlag
  /\ view' = IF stage[r] = "queued" THEN [view EXCEPT ![r] = saved] ELSE view
  /\ UNCHANGED <<saved, pendingUser, lock, retries, refusedBy, taskUser,
                 liveVars>>

\* The message carries no user, so every attempt reads the pending one.
ReadUser(r) ==
  /\ Goto(r, "started", "userRead")
  /\ taskUser' = [taskUser EXCEPT ![r] = pendingUser]
  /\ UNCHANGED <<saved, cacheVars, retries, refusedBy, view, liveVars>>

DropUser(r) ==
  /\ Goto(r, "userRead", "ready")
  /\ pendingUser' = NoUser
  /\ UNCHANGED <<saved, scheduled, lock, taskVars, liveVars>>

\* Mutant: the lock is set without asking whether it is.
LockUnchecked == TRUE

LockFree == lock = NoTask

\* Mutant: the configuration is rendered before the lock is taken.
SeesAsStarted(r) == view[r]

\* What a render that begins once the lock is held is bound to see.
RenderSees(r) == saved

\* cache.add of the lock succeeds, and config_deploy begins.
TakeLock(r) ==
  /\ Goto(r, "ready", "rendering")
  /\ LockFree
  /\ lock' = r
  /\ view' = [view EXCEPT ![r] = RenderSees(r)]
  /\ UNCHANGED <<saved, scheduled, pendingUser, retries, refusedBy, taskUser,
                 liveVars>>

\* Mutants: retries are counted one too many; a refused task gives up at once.
OneTooMany(r) == retries[r] <= MaxRetries
NeverRetry(r) == FALSE

MayRetry(r) == retries[r] < MaxRetries

\* cache.add of the lock fails and self.retry publishes the task again.
Requeue(r) ==
  /\ Goto(r, "ready", "retrying")
  /\ ~LockFree
  /\ MayRetry(r)
  /\ retries' = [retries EXCEPT ![r] = @ + 1]
  /\ refusedBy' = [refusedBy EXCEPT ![r] = lock]
  /\ taskUser' = [taskUser EXCEPT ![r] = NoUser]
  /\ UNCHANGED <<saved, cacheVars, view, liveVars>>

\* cache.add of the lock fails and self.retry raises MaxRetriesExceededError.
GiveUp(r) ==
  /\ Goto(r, "ready", "lost")
  /\ ~LockFree
  /\ ~MayRetry(r)
  /\ UNCHANGED <<saved, cacheVars, taskVars, liveVars>>

\* config_render runs its queries one after the other: an edit committed while
\* it runs may be in the result or not.
FinishRender(r) ==
  /\ Goto(r, "rendering", "writing")
  /\ \E late \in SUBSET (saved \ view[r]) :
       view' = [view EXCEPT ![r] = @ \cup late]
  /\ attempted' = attempted \cup view'[r]
  /\ UNCHANGED <<saved, cacheVars, retries, refusedBy, taskUser, site>>

\* The rest of config_deploy: the rendered configuration replaces the running
\* one, or the deploy fails and what was running stays.
FinishDeploy(r) ==
  /\ Goto(r, "writing", "releasing")
  /\ \/ "deployed" \in Outcomes /\ site' = view[r]
     \/ "failed" \in Outcomes /\ site' = site
  /\ UNCHANGED <<saved, cacheVars, taskVars, attempted>>

\* The finally clause deletes the lock key, whoever set it.
Release(r) ==
  /\ Goto(r, "releasing", "done")
  /\ lock' = NoTask
  /\ UNCHANGED <<saved, scheduled, pendingUser, taskVars, liveVars>>

-----------------------------------------------------------------------------
(* The cache's time-outs, and the faults.                                  *)


\* The flag lives for the countdown and thirty seconds more, which outlasts a
\* message that is not held up in the queue.
FlagCanExpire ==
  \/ "broker_lag" \in Faults
  \/ \A r \in Requests : stage[r] \notin {"flagged", "queued"}

ExpireFlag ==
  /\ scheduled
  /\ FlagCanExpire
  /\ scheduled' = FALSE
  /\ UNCHANGED <<saved, stage, pendingUser, lock, taskVars, liveVars>>

ExpireUser ==
  /\ pendingUser # NoUser
  /\ pendingUser' = NoUser
  /\ UNCHANGED <<saved, stage, scheduled, lock, taskVars, liveVars>>

\* Mutant: the lock is set without a TTL.
NeverExpires(h) == FALSE

LockCanExpire(h) == stage[h] = "dead" \/ "outlasts_lock" \in Faults

\* The lock lives for 120 s: it outlives a dead worker, and a deploy that takes
\* less than that.
ExpireLock ==
  /\ lock # NoTask
  /\ LockCanExpire(lock)
  /\ lock' = NoTask
  /\ UNCHANGED <<saved, stage, scheduled, pendingUser, taskVars, liveVars>>

\* apply_async raises, or the web worker dies, with the flag already set.
PublishFails(r) ==
  /\ "publish_error" \in Faults
  /\ Goto(r, "flagged", "unpublished")
  /\ UNCHANGED <<saved, cacheVars, taskVars, liveVars>>

\* The message was acknowledged when the worker received it, so a task that
\* dies is not delivered again.
WorkerDies(r) ==
  /\ "worker_death" \in Faults
  /\ stage[r] \in {"started", "userRead", "ready"} \cup Holding
  /\ stage' = [stage EXCEPT ![r] = "dead"]
  /\ UNCHANGED <<saved, cacheVars, taskVars, liveVars>>

-----------------------------------------------------------------------------

RequestStep(r) == NoteUser(r) \/ WinFlag(r) \/ JoinScheduled(r) \/ Publish(r)

TaskStep(r) ==
  \/ StartTask(r) \/ ReadUser(r) \/ DropUser(r)
  \/ TakeLock(r) \/ Requeue(r) \/ GiveUp(r)
  \/ FinishRender(r) \/ FinishDeploy(r) \/ Release(r)

Next ==
  \/ \E r \in Requests : \/ SaveEdit(r) \/ RequestStep(r) \/ TaskStep(r)
                         \/ PublishFails(r) \/ WorkerDies(r)
  \/ ExpireFlag \/ ExpireUser \/ ExpireLock

Spec == Init /\ [][Next]_vars

\* A request runs to its end, Celery delivers what was published and runs it,
\* and Redis expires the flag and the lock.  Nobody has to make an edit, and no fault has to
\* happen.
Fairness == /\ \A r \in Requests : WF_vars(RequestStep(r)) /\ WF_vars(TaskStep(r))
            /\ WF_vars(ExpireFlag) /\ WF_vars(ExpireLock)

FairSpec == Spec /\ Fairness

-----------------------------------------------------------------------------
(* Properties.                                                             *)

\* Two tasks never render and write at once.  (tasks.py: "One deploy at a
\* time.")
MutualExclusion ==
  \A q, r \in Requests :
    stage[q] \in {"rendering", "writing"} /\ stage[r] \in {"rendering", "writing"}
      => q = r

\* The task r can still render the edit e: r has not started, or e was saved
\* before it did.
Carries(r, e) ==
  \/ stage[r] \in {"flagged", "queued"}
  \/ stage[r] \in {"started", "userRead", "ready", "retrying", "rendering"} /\ e \in view[r]

\* Whatever the interleaving of endpoints and tasks, an edit that no deploy has
\* rendered yet is still on its way: its own request is running, or there is a
\* task that will render it.  This is what request_config_deploy promises the
\* caller it answers False: an edit may join a deploy already queued.
NoOrphanedEdit ==
  \A e \in saved :
    \/ e \in attempted
    \/ stage[e] \in {"saved", "noted"}
    \/ \E r \in Requests : Carries(r, e)

\* An edit whose caller was answered "A deploy is already queued; this change
\* is included in it" is rendered by some deploy, or still will be.  (apis.py,
\* GatewayDeployApi.)
JoinedIsIncluded ==
  \A e \in Requests :
    stage[e] = "joined" => e \in attempted \/ \E r \in Requests : Carries(r, e)

\* A deploy never takes an edit that is live off the site again: the
\* configurations written by successive deploys grow with the database,
\* although retries reorder the tasks and renders are not atomic.
SiteNeverRegresses == [][site \subseteq site']_vars

\* The tasks that render or write, and the edits in their renders.
Deploying == {r \in Requests : stage[r] \in {"rendering", "writing"}}

Serial == INSTANCE SerialDeploys
            WITH Edits <- Requests, busy <- Deploying # {},
                 draft <- UNION {view[r] : r \in Deploying}, live <- site

\* To those who save edits deploys are serial: each begins by reading all that is
\* saved, no two overlap, and the site is what one of them has read, whatever is
\* refused, retried, lost or killed.
DeploysAreSerial == Serial!Spec

\* A deploy recorded for a user contains an edit of that user: whoever the task
\* finds under requested_by had committed before the render began.
AttributedToAnAuthor ==
  \A r \in Requests :
    stage[r] = "writing" /\ taskUser[r] # NoUser
      => \E e \in view[r] : UserOf[e] = taskUser[r]

\* If deploys succeed, every edit goes live and stays so, though the call that
\* made it may have joined another's task, and that task may have been refused
\* the lock.
EveryEditGoesLive == \A e \in Requests : e \in saved ~> [](e \in site)

\* A worker killed with the lock in hand does not block deploys for good.
LockIsFreed == []<>(lock = NoTask)

=============================================================================
