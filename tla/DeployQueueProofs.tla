------------------------- MODULE DeployQueueProofs -------------------------
(***************************************************************************)
(* Theorems about DeployQueue, for any set of requests and users and any   *)
(* retry limit: the types; mutual exclusion and the monotonicity of the    *)
(* site as long as no deploy outlasts the lock; in the absence of faults,  *)
(* that no edit is orphaned; that a deploy is recorded for a user who has  *)
(* an edit in it; and that the queue implements SerialDeploys.             *)
(***************************************************************************)
EXTENDS DeployQueue, TLAPS

-----------------------------------------------------------------------------
(* The types.                                                              *)

\* Every variable keeps its type: in particular a task is never re-queued more
\* than MaxRetries times, and whatever is removed from the cache is a user.
THEOREM TypeCorrect == Spec => []TypeOK
<1>1. Init => TypeOK
  <2>1. 0 \in 0 .. MaxRetries
    BY RetriesAssumption
  <2>2. "idle" \in Stages
    BY DEF Stages, RequestStages
  <2> QED
    BY <2>1, <2>2 DEF Init, TypeOK
<1>2. TypeOK /\ [Next]_vars => TypeOK'
  <2> SUFFICES ASSUME TypeOK, [Next]_vars PROVE TypeOK'
    OBVIOUS
  <2> USE DEF TypeOK, cacheVars, taskVars, liveVars, Goto
  <2>s. {"idle", "saved", "noted", "flagged", "joined", "queued", "started",
         "userRead", "ready", "retrying", "rendering", "writing", "releasing",
         "done", "lost", "dead", "unpublished"} \subseteq Stages
    BY DEF Stages, RequestStages, TaskStages, Holding, EndStages
  <2>1. ASSUME NEW r \in Requests, SaveEdit(r) PROVE TypeOK'
    BY <2>1, <2>s DEF SaveEdit, Commit
  <2>2. ASSUME NEW r \in Requests, NoteUser(r) PROVE TypeOK'
    BY <2>2, <2>s, UsersAssumption DEF NoteUser
  <2>3. ASSUME NEW r \in Requests, WinFlag(r) PROVE TypeOK'
    BY <2>3, <2>s DEF WinFlag
  <2>4. ASSUME NEW r \in Requests, JoinScheduled(r) PROVE TypeOK'
    BY <2>4, <2>s DEF JoinScheduled
  <2>5. ASSUME NEW r \in Requests, Publish(r) PROVE TypeOK'
    BY <2>5, <2>s DEF Publish
  <2>6. ASSUME NEW r \in Requests, StartTask(r) PROVE TypeOK'
    BY <2>6, <2>s DEF StartTask, ClearFlag
  <2>7. ASSUME NEW r \in Requests, ReadUser(r) PROVE TypeOK'
    BY <2>7, <2>s DEF ReadUser
  <2>8. ASSUME NEW r \in Requests, DropUser(r) PROVE TypeOK'
    BY <2>8, <2>s DEF DropUser
  <2>9. ASSUME NEW r \in Requests, TakeLock(r) PROVE TypeOK'
    BY <2>9, <2>s DEF TakeLock, RenderSees
  <2>10. ASSUME NEW r \in Requests, Requeue(r) PROVE TypeOK'
    <3>1. retries[r] + 1 \in 0 .. MaxRetries
      BY <2>10, RetriesAssumption DEF Requeue, MayRetry
    <3> QED
      BY <3>1, <2>10, <2>s DEF Requeue
  <2>11. ASSUME NEW r \in Requests, GiveUp(r) PROVE TypeOK'
    BY <2>11, <2>s DEF GiveUp
  <2>12. ASSUME NEW r \in Requests, FinishRender(r) PROVE TypeOK'
    BY <2>12, <2>s DEF FinishRender
  <2>13. ASSUME NEW r \in Requests, FinishDeploy(r) PROVE TypeOK'
    BY <2>13, <2>s DEF FinishDeploy
  <2>14. ASSUME NEW r \in Requests, Release(r) PROVE TypeOK'
    BY <2>14, <2>s DEF Release
  <2>15. ASSUME NEW r \in Requests, PublishFails(r) PROVE TypeOK'
    BY <2>15, <2>s DEF PublishFails
  <2>16. ASSUME NEW r \in Requests, WorkerDies(r) PROVE TypeOK'
    BY <2>16, <2>s DEF WorkerDies
  <2>17. CASE ExpireFlag \/ ExpireUser \/ ExpireLock
    BY <2>17 DEF ExpireFlag, FlagCanExpire, ExpireUser, ExpireLock
  <2>18. CASE UNCHANGED vars
    BY <2>18 DEF vars
  <2> QED
    BY <2>1, <2>2, <2>3, <2>4, <2>5, <2>6, <2>7, <2>8, <2>9, <2>10, <2>11,
       <2>12, <2>13, <2>14, <2>15, <2>16, <2>17, <2>18
       DEF Next, RequestStep, TaskStep
<1> QED
  BY <1>1, <1>2, PTL DEF Spec

-----------------------------------------------------------------------------
(* One deploy at a time, and the site never regresses.                     *)

\* The invariant behind both: the lock key is set to whoever is past it, and a
\* deploy in progress saw everything that is live.
ExclusionInv ==
  /\ TypeOK
  /\ \A r \in Requests : stage[r] \in Holding => lock = r
  /\ site \subseteq saved
  /\ \A r \in Requests : view[r] \subseteq saved
  /\ \A r \in Requests :
       stage[r] \in {"rendering", "writing"} => site \subseteq view[r]

\* ExclusionInv holds throughout, if no deploy outlasts the lock's TTL.
LEMMA ExclusionInvariant ==
  ASSUME "outlasts_lock" \notin Faults PROVE Spec => []ExclusionInv
<1>1. Init => ExclusionInv
  <2> SUFFICES ASSUME Init PROVE ExclusionInv
    OBVIOUS
  <2>1. TypeOK
    <3>1. 0 \in 0 .. MaxRetries
      BY RetriesAssumption
    <3>2. "idle" \in Stages
      BY DEF Stages, RequestStages
    <3> QED
      BY <3>1, <3>2 DEF Init, TypeOK
  <2> QED
    BY <2>1 DEF Init, ExclusionInv, Holding
<1>2. TypeOK' /\ ExclusionInv /\ [Next]_vars => ExclusionInv'
  <2> SUFFICES ASSUME TypeOK', ExclusionInv, [Next]_vars PROVE ExclusionInv'
    OBVIOUS
  <2> USE DEF ExclusionInv, TypeOK, cacheVars, taskVars, liveVars, Goto, Holding
  <2>1. ASSUME NEW r \in Requests, RequestStep(r) \/ SaveEdit(r) \/ PublishFails(r)
        PROVE ExclusionInv'
    <3>1. CASE NoteUser(r)
      BY <3>1 DEF NoteUser
    <3>2. CASE WinFlag(r)
      BY <3>2 DEF WinFlag
    <3>3. CASE JoinScheduled(r)
      BY <3>3 DEF JoinScheduled
    <3>4. CASE Publish(r)
      BY <3>4 DEF Publish
    <3>5. CASE SaveEdit(r)
      BY <3>5 DEF SaveEdit, Commit
    <3>6. CASE PublishFails(r)
      BY <3>6 DEF PublishFails
    <3> QED
      BY <2>1, <3>1, <3>2, <3>3, <3>4, <3>5, <3>6 DEF RequestStep
  <2>2. ASSUME NEW r \in Requests, StartTask(r) PROVE ExclusionInv'
    BY <2>2 DEF StartTask
  <2>3. ASSUME NEW r \in Requests, ReadUser(r) PROVE ExclusionInv'
    BY <2>3 DEF ReadUser
  <2>4. ASSUME NEW r \in Requests, DropUser(r) PROVE ExclusionInv'
    BY <2>4 DEF DropUser
  <2>5. ASSUME NEW r \in Requests, TakeLock(r) PROVE ExclusionInv'
    BY <2>5, NoTaskAssumption DEF TakeLock, LockFree, RenderSees
  <2>6. ASSUME NEW r \in Requests, Requeue(r) PROVE ExclusionInv'
    BY <2>6 DEF Requeue
  <2>7. ASSUME NEW r \in Requests, GiveUp(r) PROVE ExclusionInv'
    BY <2>7 DEF GiveUp
  <2>8. ASSUME NEW r \in Requests, FinishRender(r) PROVE ExclusionInv'
    BY <2>8 DEF FinishRender
  <2>9. ASSUME NEW r \in Requests, FinishDeploy(r) PROVE ExclusionInv'
    <3>1. \A q \in Requests : q # r => stage[q] \notin {"rendering", "writing"}
      BY <2>9 DEF FinishDeploy
    <3>2. site' \subseteq saved
      BY <2>9 DEF FinishDeploy
    <3> QED
      BY <2>9, <3>1, <3>2 DEF FinishDeploy
  <2>10. ASSUME NEW r \in Requests, Release(r) PROVE ExclusionInv'
    BY <2>10 DEF Release
  <2>11. ASSUME NEW r \in Requests, WorkerDies(r) PROVE ExclusionInv'
    BY <2>11 DEF WorkerDies
  <2>12. CASE ExpireLock
    BY <2>12 DEF ExpireLock, LockCanExpire
  <2>13. CASE ExpireFlag \/ ExpireUser \/ UNCHANGED vars
    BY <2>13 DEF ExpireFlag, FlagCanExpire, ExpireUser, vars
  <2> QED
    BY <2>1, <2>2, <2>3, <2>4, <2>5, <2>6, <2>7, <2>8, <2>9, <2>10, <2>11,
       <2>12, <2>13 DEF Next, TaskStep
<1> QED
  BY <1>1, <1>2, TypeCorrect, PTL DEF Spec

\* "One deploy at a time" (tasks.py), for any number of tasks: whatever they
\* interleave, two are never between taking the lock and having deployed.
THEOREM OneDeployAtATime ==
  ASSUME "outlasts_lock" \notin Faults PROVE Spec => []MutualExclusion
<1>1. ExclusionInv => MutualExclusion
  BY DEF ExclusionInv, MutualExclusion, Holding
<1> QED
  BY <1>1, ExclusionInvariant, PTL

\* No deploy takes a live edit off the site, whatever order the tasks and their
\* retries run in and whenever edits are committed.
THEOREM EditsStayLive ==
  ASSUME "outlasts_lock" \notin Faults PROVE Spec => SiteNeverRegresses
<1>1. ExclusionInv /\ [Next]_vars => [site \subseteq site']_vars
  <2> SUFFICES ASSUME ExclusionInv, Next PROVE site \subseteq site'
    OBVIOUS
  <2>1. ASSUME NEW r \in Requests, FinishDeploy(r) PROVE site \subseteq site'
    BY <2>1 DEF FinishDeploy, Goto, ExclusionInv
  <2>2. ASSUME NEW r \in Requests, TaskStep(r), ~FinishDeploy(r) PROVE site' = site
    BY <2>2 DEF TaskStep, StartTask, ReadUser, DropUser, TakeLock, Requeue,
                GiveUp, FinishRender, Release, liveVars
  <2>3. ASSUME NEW r \in Requests,
               SaveEdit(r) \/ RequestStep(r) \/ PublishFails(r) \/ WorkerDies(r)
        PROVE site' = site
    BY <2>3 DEF SaveEdit, RequestStep, NoteUser, WinFlag, JoinScheduled, Publish,
                PublishFails, WorkerDies, liveVars
  <2>4. CASE ExpireFlag \/ ExpireUser \/ ExpireLock
    BY <2>4 DEF ExpireFlag, FlagCanExpire, ExpireUser, ExpireLock, liveVars
  <2> QED
    BY <2>1, <2>2, <2>3, <2>4 DEF Next
<1> QED
  BY <1>1, ExclusionInvariant, PTL DEF Spec, SiteNeverRegresses

-----------------------------------------------------------------------------
(* No edit is orphaned.                                                    *)

\* The normal course: messages are published, workers live, and deploys end
\* before the tasks they refuse retry.  The flag and the pending user may still
\* expire at any time.
NormalCourse ==
  Faults \cap {"publish_error", "worker_death", "outlasts_retry", "outlasts_lock"} = {}

\* The flag stands for a task that has not started yet.
FlagInv ==
  scheduled => \E r \in Requests : stage[r] \in {"flagged", "queued"}

\* The lock is held by a task that will drop it.
LockInv ==
  /\ lock # NoTask => stage[lock] \in Holding
  /\ \A r \in Requests : stage[r] \in {"writing", "releasing"} => view[r] \subseteq attempted

\* A task in its last attempts was refused by a deploy, which has ended if the
\* task runs again.
RefusalInv ==
  \A r \in Requests :
    /\ stage[r] \in RequestStages \cup {"queued"} => retries[r] = 0
    /\ stage[r] = "retrying" =>
         /\ retries[r] > 0
         /\ stage[refusedBy[r]] \in Holding \cup {"done"}
    /\ stage[r] \in {"started", "userRead", "ready"} /\ retries[r] > 0 =>
         stage[refusedBy[r]] = "done"
    /\ retries[r] > 0 => refusedBy[r] \in Requests

\* Whoever holds the lock, save the deploy that refused r last, took it after r
\* was refused, and so sees every edit r answers for: this is why a second
\* refusal loses nothing.
LaterHolderSees ==
  \A r \in Requests :
    /\ stage[r] \in {"started", "userRead", "ready", "retrying"}
    /\ retries[r] > 0
    /\ lock \notin {NoTask, refusedBy[r]}
    => view[r] \subseteq view[lock]

QueueInv == FlagInv /\ LockInv /\ RefusalInv /\ LaterHolderSees /\ NoOrphanedEdit

\* QueueInv holds throughout the normal course.
LEMMA QueueInvariant == ASSUME NormalCourse PROVE Spec => []QueueInv
<1> USE DEF NormalCourse
<1>1. Init => QueueInv
  BY DEF Init, QueueInv, FlagInv, LockInv, RefusalInv, LaterHolderSees,
         NoOrphanedEdit, RequestStages
<1>2. TypeOK /\ TypeOK' /\ ExclusionInv /\ QueueInv /\ [Next]_vars => QueueInv'
  <2> SUFFICES ASSUME TypeOK, TypeOK', ExclusionInv, QueueInv, [Next]_vars
               PROVE  QueueInv'
    OBVIOUS
  <2> USE DEF TypeOK, QueueInv, FlagInv, LockInv, RefusalInv, LaterHolderSees,
              NoOrphanedEdit, Carries, RequestStages, Holding, Goto,
              cacheVars, taskVars, liveVars
  <2>1. ASSUME NEW r \in Requests, SaveEdit(r) PROVE QueueInv'
    BY <2>1 DEF SaveEdit, Commit
  <2>2. ASSUME NEW r \in Requests, NoteUser(r) PROVE QueueInv'
    BY <2>2 DEF NoteUser
  <2>3. ASSUME NEW r \in Requests, WinFlag(r) PROVE QueueInv'
    BY <2>3 DEF WinFlag
  <2>4. ASSUME NEW r \in Requests, JoinScheduled(r) PROVE QueueInv'
    \* The task the flag stands for carries the edit that joins it.
    <3>1. PICK q \in Requests : stage[q] \in {"flagged", "queued"}
      BY <2>4 DEF JoinScheduled
    <3>2. q # r /\ Carries(q, r)'
      BY <2>4, <3>1 DEF JoinScheduled
    <3> QED
      BY <2>4, <3>1, <3>2 DEF JoinScheduled
  <2>5. ASSUME NEW r \in Requests, Publish(r) PROVE QueueInv'
    BY <2>5 DEF Publish
  <2>6. ASSUME NEW r \in Requests, StartTask(r) PROVE QueueInv'
    <3>1. FlagInv'
      BY <2>6 DEF StartTask, ClearFlag
    <3>2. LockInv'
      BY <2>6 DEF StartTask, Due
    \* Only a retry whose refuser is done starts again.
    <3>3. RefusalInv'
      BY <2>6 DEF StartTask, Due, RetryTooEarly
    <3>4. LaterHolderSees'
      BY <2>6 DEF StartTask, Due
    \* A first attempt carries all that is saved when it clears the flag.
    <3>5. NoOrphanedEdit'
      BY <2>6 DEF StartTask, Due
    <3> QED
      BY <3>1, <3>2, <3>3, <3>4, <3>5
  <2>7. ASSUME NEW r \in Requests, ReadUser(r) PROVE QueueInv'
    BY <2>7 DEF ReadUser
  <2>8. ASSUME NEW r \in Requests, DropUser(r) PROVE QueueInv'
    BY <2>8 DEF DropUser
  <2>9. ASSUME NEW r \in Requests, TakeLock(r) PROVE QueueInv'
    \* Every task sees no more than what is saved, which is what the new holder
    \* of the lock sees.
    <3>1. view'[r] = saved /\ lock' = r
      BY <2>9 DEF TakeLock, RenderSees
    <3>2. LaterHolderSees'
      BY <2>9, <3>1 DEF TakeLock, ExclusionInv
    <3>3. NoOrphanedEdit'
      BY <2>9, <3>1 DEF TakeLock
    <3> QED
      BY <2>9, <3>1, <3>2, <3>3 DEF TakeLock, LockFree
  <2>10. ASSUME NEW r \in Requests, Requeue(r) PROVE QueueInv'
    BY <2>10 DEF Requeue, LockFree, MayRetry
  <2>11. ASSUME NEW r \in Requests, GiveUp(r) PROVE QueueInv'
    \* The task is refused for the second time, and by another deploy than the
    \* first time: that deploy sees every edit this task answers for.
    <3>1. retries[r] > 0
      BY <2>11, RetriesAssumption DEF GiveUp, MayRetry
    <3>2. lock \in Requests /\ stage[lock] \in Holding /\ lock # refusedBy[r]
      BY <2>11, <3>1 DEF GiveUp, LockFree
    <3>3. view[r] \subseteq view[lock]
      BY <2>11, <3>1, <3>2, NoTaskAssumption DEF GiveUp
    <3>4. \A e \in saved : e \in view[lock] => e \in attempted' \/ Carries(lock, e)'
      BY <2>11, <3>2 DEF GiveUp
    <3>5. NoOrphanedEdit'
      BY <2>11, <3>2, <3>3, <3>4 DEF GiveUp
    <3> QED
      BY <2>11, <3>2, <3>5 DEF GiveUp
  <2>12. ASSUME NEW r \in Requests, FinishRender(r) PROVE QueueInv'
    BY <2>12 DEF FinishRender, ExclusionInv
  <2>13. ASSUME NEW r \in Requests, FinishDeploy(r) PROVE QueueInv'
    BY <2>13 DEF FinishDeploy, ExclusionInv
  <2>14. ASSUME NEW r \in Requests, Release(r) PROVE QueueInv'
    BY <2>14 DEF Release, ExclusionInv
  <2>15. CASE ExpireFlag \/ ExpireUser \/ ExpireLock \/ UNCHANGED vars
    BY <2>15 DEF ExpireFlag, FlagCanExpire, ExpireUser, ExpireLock, LockCanExpire, vars
  <2>16. ASSUME NEW r \in Requests, PublishFails(r) \/ WorkerDies(r) PROVE FALSE
    BY <2>16 DEF PublishFails, WorkerDies
  <2> QED
    BY <2>1, <2>2, <2>3, <2>4, <2>5, <2>6, <2>7, <2>8, <2>9, <2>10, <2>11,
       <2>12, <2>13, <2>14, <2>15, <2>16 DEF Next, RequestStep, TaskStep
<1>3. "outlasts_lock" \notin Faults
  OBVIOUS
<1> QED
  BY <1>1, <1>2, <1>3, TypeCorrect, ExclusionInvariant, PTL DEF Spec

\* What request_config_deploy promises the caller it answers False: in the
\* normal course every edit no deploy has rendered is still on its way to one,
\* through its own request or through a task that joined callers rely on.
THEOREM NoEditIsOrphaned == ASSUME NormalCourse PROVE Spec => []NoOrphanedEdit
<1>1. QueueInv => NoOrphanedEdit
  BY DEF QueueInv
<1> QED
  BY <1>1, QueueInvariant, PTL

-----------------------------------------------------------------------------
(* Who a deploy is recorded for.                                           *)

\* Some edit in S is of user u.
HasEditOf(u, S) == \E e \in S : UserOf[e] = u

\* The invariant behind it: a user is noted after his edit is saved, and what a
\* render sees is at least what was saved as the user was read.
AuthorInv ==
  /\ TypeOK
  /\ \A r \in Requests : stage[r] = "saved" => r \in saved
  /\ pendingUser # NoUser => HasEditOf(pendingUser, saved)
  /\ \A r \in Requests : taskUser[r] # NoUser => HasEditOf(taskUser[r], saved)
  /\ \A r \in Requests :
       stage[r] \in {"rendering", "writing"} /\ taskUser[r] # NoUser
         => HasEditOf(taskUser[r], view[r])

\* AuthorInv holds in every course.
LEMMA AuthorInvariant == Spec => []AuthorInv
<1>1. Init /\ TypeOK => AuthorInv
  BY DEF Init, AuthorInv
<1>2. TypeOK' /\ AuthorInv /\ [Next]_vars => AuthorInv'
  <2> SUFFICES ASSUME TypeOK', AuthorInv, [Next]_vars PROVE AuthorInv'
    OBVIOUS
  <2> USE DEF AuthorInv, TypeOK, HasEditOf, cacheVars, taskVars, liveVars, Goto
  <2>1. ASSUME NEW r \in Requests, SaveEdit(r) PROVE AuthorInv'
    BY <2>1 DEF SaveEdit, Commit
  <2>2. ASSUME NEW r \in Requests, NoteUser(r) PROVE AuthorInv'
    BY <2>2 DEF NoteUser
  <2>3. ASSUME NEW r \in Requests,
               WinFlag(r) \/ JoinScheduled(r) \/ Publish(r) \/ PublishFails(r)
        PROVE  AuthorInv'
    BY <2>3 DEF WinFlag, JoinScheduled, Publish, PublishFails
  <2>4. ASSUME NEW r \in Requests, StartTask(r) PROVE AuthorInv'
    BY <2>4 DEF StartTask
  <2>5. ASSUME NEW r \in Requests, ReadUser(r) PROVE AuthorInv'
    BY <2>5 DEF ReadUser
  <2>6. ASSUME NEW r \in Requests, DropUser(r) PROVE AuthorInv'
    BY <2>6 DEF DropUser
  <2>7. ASSUME NEW r \in Requests, TakeLock(r) PROVE AuthorInv'
    BY <2>7 DEF TakeLock, RenderSees
  <2>8. ASSUME NEW r \in Requests, Requeue(r) PROVE AuthorInv'
    BY <2>8 DEF Requeue
  <2>9. ASSUME NEW r \in Requests, FinishRender(r) PROVE AuthorInv'
    BY <2>9 DEF FinishRender
  <2>10. ASSUME NEW r \in Requests,
                GiveUp(r) \/ FinishDeploy(r) \/ Release(r) \/ WorkerDies(r)
         PROVE  AuthorInv'
    BY <2>10 DEF GiveUp, FinishDeploy, Release, WorkerDies
  <2>11. CASE ExpireFlag \/ ExpireUser \/ ExpireLock
    BY <2>11 DEF ExpireFlag, FlagCanExpire, ExpireUser, ExpireLock
  <2>12. CASE UNCHANGED vars
    BY <2>12 DEF vars
  <2> QED
    BY <2>1, <2>2, <2>3, <2>4, <2>5, <2>6, <2>7, <2>8, <2>9, <2>10, <2>11, <2>12
       DEF Next, RequestStep, TaskStep
<1> QED
  BY <1>1, <1>2, TypeCorrect, PTL DEF Spec

\* A deploy is only recorded for a user who has an edit in it, whatever workers
\* die, messages are lost and deploys overlap.
THEOREM DeploysHaveAuthors == Spec => []AttributedToAnAuthor
<1>1. AuthorInv => AttributedToAnAuthor
  BY DEF AuthorInv, AttributedToAnAuthor, HasEditOf
<1> QED
  BY <1>1, AuthorInvariant, PTL

-----------------------------------------------------------------------------
(* Deploys are serial.                                                     *)

\* While r renders or writes, what SerialDeploys sees of the tasks is r's render.
LEMMA DeployingAlone ==
  ASSUME ExclusionInv, NEW r \in Requests, stage[r] \in {"rendering", "writing"}
  PROVE  Deploying = {r} /\ UNION {view[q] : q \in Deploying} = view[r]
<1>1. \A q \in Requests : stage[q] \in {"rendering", "writing"} => q = r
  BY DEF ExclusionInv, Holding
<1>2. Deploying = {r}
  BY <1>1 DEF Deploying
<1> QED
  BY <1>2

\* The queue with its flag, retries and faults implements SerialDeploys, as long
\* as no deploy outlasts the lock: every step of it saves an edit, begins a deploy,
\* reads more, ends one, or is a stutter.
THEOREM QueueImplementsSerialDeploys ==
  ASSUME "outlasts_lock" \notin Faults PROVE Spec => DeploysAreSerial
<1> DEFINE Draft == UNION {view[r] : r \in Deploying}
<1>1. Init => Serial!Init
  <2> SUFFICES ASSUME Init PROVE Serial!Init
    OBVIOUS
  <2>1. Deploying = {}
    BY DEF Init, Deploying
  <2> QED
    BY <2>1 DEF Init, Serial!Init
<1>2. ExclusionInv /\ ExclusionInv' /\ [Next]_vars => [Serial!Next]_(Serial!vars)
  <2> SUFFICES ASSUME ExclusionInv, ExclusionInv', [Next]_vars
               PROVE  [Serial!Next]_(Serial!vars)
    OBVIOUS
  <2> USE DEF Goto, cacheVars, taskVars, liveVars
  \* The two deploys of SerialDeploys are this one's, before a step and after it.
  <2>a. \A r \in Requests : stage[r] \in {"rendering", "writing"} =>
           Deploying = {r} /\ Draft = view[r]
    BY DeployingAlone
  <2>b. \A r \in Requests : stage'[r] \in {"rendering", "writing"} =>
           Deploying' = {r} /\ Draft' = view'[r]
    <3>1. \A r \in Requests : stage'[r] \in {"rendering", "writing"} => Deploying' = {r}
      BY DEF ExclusionInv, Holding, Deploying
    <3> QED
      BY <3>1
  <2>c. ASSUME NEW r \in Requests, stage[r] \in {"rendering", "writing"},
               stage' = [stage EXCEPT ![r] = stage'[r]],
               stage'[r] \notin {"rendering", "writing"}
        PROVE  Deploying' = {} /\ Draft' = {}
    <3>1. Deploying' = {}
      BY <2>a, <2>c DEF Deploying, ExclusionInv, TypeOK
    <3> QED
      BY <3>1
  <2>s. ASSUME UNCHANGED <<saved, site, Deploying>>,
               \A r \in Deploying : view'[r] = view[r]
        PROVE  UNCHANGED Serial!vars
    <3>1. Draft' = Draft
      BY <2>s
    <3> QED
      BY <2>s, <3>1 DEF Serial!vars
  \* A step of a task that neither deploys before it nor after it.
  <2>d. ASSUME NEW r \in Requests, stage[r] \notin {"rendering", "writing"},
               stage' = [stage EXCEPT ![r] = stage'[r]],
               stage'[r] \notin {"rendering", "writing"}
        PROVE  Deploying' = Deploying /\ r \notin Deploying
    BY <2>d DEF Deploying, ExclusionInv, TypeOK
  <2> USE DEF ExclusionInv, TypeOK
  <2>1. ASSUME NEW r \in Requests, SaveEdit(r) PROVE Serial!Save(r)
    <3>1. Deploying' = Deploying
      <4>1. /\ stage[r] = "idle" /\ stage'[r] = "saved"
            /\ stage' = [stage EXCEPT ![r] = stage'[r]]
        BY <2>1 DEF SaveEdit
      <4> QED
        BY <2>d, <4>1
    <3>2. UNCHANGED <<view, site>> /\ Draft' = Draft
      BY <2>1, <3>1 DEF SaveEdit
    <3> QED
      BY <2>1, <3>1, <3>2 DEF SaveEdit, Commit, Serial!Save
  <2>2. ASSUME NEW r \in Requests, RequestStep(r) \/ PublishFails(r)
        PROVE  UNCHANGED Serial!vars
    <3>1. UNCHANGED <<saved, site, view>>
      BY <2>2 DEF RequestStep, NoteUser, WinFlag, JoinScheduled, Publish, PublishFails
    <3>2. Deploying' = Deploying
      <4>1. /\ stage[r] \in {"saved", "noted", "flagged"}
            /\ stage'[r] \in {"noted", "flagged", "joined", "queued", "unpublished"}
            /\ stage' = [stage EXCEPT ![r] = stage'[r]]
        BY <2>2 DEF RequestStep, NoteUser, WinFlag, JoinScheduled, Publish, PublishFails
      <4> QED
        BY <2>d, <4>1
    <3> QED
      BY <2>s, <3>1, <3>2
  \* A task that starts is bound to see more, and is not yet rendering.
  <2>3. ASSUME NEW r \in Requests, StartTask(r) PROVE UNCHANGED Serial!vars
    <3>1. Deploying' = Deploying /\ r \notin Deploying
      <4>1. /\ stage[r] \in {"queued", "retrying"} /\ stage'[r] = "started"
            /\ stage' = [stage EXCEPT ![r] = stage'[r]]
        BY <2>3 DEF StartTask, Due
      <4> QED
        BY <2>d, <4>1
    <3>2. \A q \in Requests \ {r} : view'[q] = view[q]
      BY <2>3 DEF StartTask
    <3>3. \A q \in Deploying : view'[q] = view[q]
      BY <3>1, <3>2 DEF Deploying
    <3> QED
      BY <2>3, <2>s, <3>1, <3>3 DEF StartTask
  <2>4. ASSUME NEW r \in Requests,
               ReadUser(r) \/ DropUser(r) \/ Requeue(r) \/ GiveUp(r) \/ Release(r)
        PROVE  UNCHANGED Serial!vars
    <3>1. UNCHANGED <<saved, site, view>>
      BY <2>4 DEF ReadUser, DropUser, Requeue, GiveUp, Release
    <3>2. Deploying' = Deploying
      <4>1. /\ stage[r] \in {"started", "userRead", "ready", "releasing"}
            /\ stage'[r] \in {"userRead", "ready", "retrying", "lost", "done"}
            /\ stage' = [stage EXCEPT ![r] = stage'[r]]
        BY <2>4 DEF ReadUser, DropUser, Requeue, GiveUp, Release
      <4> QED
        BY <2>d, <4>1
    <3> QED
      BY <2>s, <3>1, <3>2
  \* The lock was free, so nobody deploys; the deploy that begins sees what is saved.
  <2>5. ASSUME NEW r \in Requests, TakeLock(r) PROVE Serial!Begin
    <3>1. Deploying = {}
      BY <2>5, NoTaskAssumption DEF TakeLock, LockFree, Deploying, Holding
    <3>2. stage'[r] = "rendering" /\ view'[r] = saved
      BY <2>5 DEF TakeLock, RenderSees
    <3>3. Deploying' = {r} /\ Draft' = saved
      BY <2>b, <3>2
    <3> QED
      BY <2>5, <3>1, <3>3 DEF TakeLock, Serial!Begin
  <2>6. ASSUME NEW r \in Requests, FinishRender(r) PROVE Serial!ReadMore
    <3>1. Deploying = {r} /\ Draft = view[r]
      BY <2>6, <2>a DEF FinishRender
    <3>2. Deploying' = {r} /\ Draft' = view'[r]
      BY <2>6, <2>b DEF FinishRender
    <3>3. PICK late \in SUBSET (saved \ view[r]) : view'[r] = view[r] \cup late
      BY <2>6 DEF FinishRender
    <3>4. late \in SUBSET saved /\ Draft' = Draft \cup late
      BY <3>1, <3>2, <3>3
    <3> QED
      BY <2>6, <3>1, <3>2, <3>4 DEF FinishRender, Serial!ReadMore
  <2>7. ASSUME NEW r \in Requests, FinishDeploy(r)
        PROVE  Serial!Succeed \/ Serial!Abandon
    <3>1. Deploying = {r} /\ Draft = view[r]
      BY <2>7, <2>a DEF FinishDeploy
    <3>2. Deploying' = {} /\ Draft' = {}
      <4>1. /\ stage[r] = "writing" /\ stage'[r] = "releasing"
            /\ stage' = [stage EXCEPT ![r] = stage'[r]]
        BY <2>7 DEF FinishDeploy
      <4> QED
        BY <2>c, <4>1
    <3>3. saved' = saved /\ site' \in {Draft, site}
      BY <2>7, <3>1 DEF FinishDeploy
    <3> QED
      BY <3>1, <3>2, <3>3 DEF Serial!Succeed, Serial!Abandon, Serial!End
  <2>8. ASSUME NEW r \in Requests, WorkerDies(r)
        PROVE  Serial!Abandon \/ UNCHANGED Serial!vars
    <3>1. stage'[r] = "dead" /\ UNCHANGED <<saved, site, view>>
      BY <2>8 DEF WorkerDies
    <3>2. CASE stage[r] \in {"rendering", "writing"}
      <4>1. Deploying = {r}
        BY <2>a, <3>2
      <4>2. Deploying' = {} /\ Draft' = {}
        BY <2>8, <2>c, <3>1, <3>2 DEF WorkerDies
      <4> QED
        BY <3>1, <4>1, <4>2 DEF Serial!Abandon, Serial!End
    <3>3. CASE stage[r] \notin {"rendering", "writing"}
      <4>1. Deploying' = Deploying
        BY <2>8, <2>d, <3>1, <3>3 DEF WorkerDies
      <4> QED
        BY <2>s, <3>1, <4>1
    <3> QED
      BY <3>2, <3>3
  <2>9. CASE ExpireFlag \/ ExpireUser \/ ExpireLock \/ UNCHANGED vars
    <3>1. UNCHANGED <<saved, stage, site, view>>
      BY <2>9 DEF ExpireFlag, FlagCanExpire, ExpireUser, ExpireLock, vars
    <3> QED
      BY <2>s, <3>1 DEF Deploying
  <2> QED
    BY <2>1, <2>2, <2>3, <2>4, <2>5, <2>6, <2>7, <2>8, <2>9
       DEF Next, TaskStep, Serial!Next
<1> QED
  BY <1>1, <1>2, ExclusionInvariant, PTL DEF Spec, DeploysAreSerial, Serial!Spec

=============================================================================
