---------------------------- MODULE HealthDrain ----------------------------
(***************************************************************************)
(* The health probes (apps/backends/services.py, and the two tasks of      *)
(* apps/gateway/tasks.py that run them): the counters and the drain flag   *)
(* of each instance, and the deploy a changed flag asks for.               *)
(*                                                                         *)
(* A task reads the settings of its backends, then for one backend after   *)
(* the other reads the rows of all its instances, probes each and writes   *)
(* its row back.  A probe takes seconds, nothing locks a row, and two      *)
(* tasks may run at once: what a task writes is computed from the row it   *)
(* read when it came to the backend.                                       *)
(*                                                                         *)
(* Rendering and deploying is one step here, Deploy: DeployQueue says what *)
(* becomes of a request.                                                   *)
(***************************************************************************)
EXTENDS Naturals, Functions

CONSTANTS
  Backends,
  Instances,
  BackendOf,  \* the backend of each instance
  Sweepers,   \* runs of the periodic task over every backend
  OnDemand,   \* runs of the task the panel queues for one backend
  Settings,   \* the settings of backends
  Choices,    \* bound: those the operator gives each backend
  Editable,   \* bound: the instances the operator edits
  Flaky,      \* bound: the instances that may stop answering
  MaxCount    \* bound: where the counters stop counting

Probers == Sweepers \cup OnDemand

ASSUME InstancesAssumption == BackendOf \in [Instances -> Backends]

ASSUME ProbersAssumption == Sweepers \cap OnDemand = {}

\* checked  is_active and health_check_enabled
\* drain    drain_unhealthy
\* down, up the thresholds
\* No threshold exceeds MaxCount, so that a counter beyond it makes no difference.
ASSUME SettingsAssumption ==
  /\ MaxCount \in Nat \ {0}
  /\ Settings \subseteq [checked : BOOLEAN, drain : BOOLEAN,
                         down : 1 .. MaxCount, up : 1 .. MaxCount]
  /\ Choices \in [Backends -> SUBSET Settings]

ASSUME EditableAssumption == Editable \subseteq Instances /\ Flaky \subseteq Instances

VARIABLES
  settings,  \* of each backend
  status,    \* of each instance: "active", "inactive" or "deleted"
  row,       \* the columns of an instance that the probes write
  answers,   \* whether the instance answers a probe
  rendered,  \* the drain flags in the configuration Nginx runs
  owed,      \* a deploy has been asked for and has not rendered yet
  plan,      \* the backends each task has still to visit, as it read them
  seen,      \* the instances of its present backend it has still to probe, with
             \* the row it read and the settings it goes by
  here,      \* the instances of its present backend whose flag it has changed
  changed,   \* and those of the backends it has done with
  unasked    \* instances whose flag a write changed that asks for no deploy

edited  == <<settings, status>>
nginx   == <<rendered, owed>>
tasks   == <<plan, seen, here, changed>>
vars    == <<edited, row, answers, nginx, tasks, unasked>>

Rows == [failures : 0 .. MaxCount, successes : 0 .. MaxCount, draining : BOOLEAN]

Partial(S, T) == UNION {[R -> T] : R \in SUBSET S}

Nothing == [x \in {} |-> x]

NewRow == [failures |-> 0, successes |-> 0, draining |-> FALSE]

\* With the types: consecutive results are of one kind.
TypeOK ==
  /\ settings \in [Backends -> Settings]
  /\ status \in [Instances -> {"active", "inactive", "deleted"}]
  /\ row \in [Instances -> Rows]
  /\ \A i \in Instances : row[i].failures = 0 \/ row[i].successes = 0
  /\ answers \in [Instances -> BOOLEAN]
  /\ rendered \in [Instances -> BOOLEAN]
  /\ owed \in BOOLEAN
  /\ plan \in [Probers -> Partial(Backends, Settings)]
  /\ seen \in [Probers -> Partial(Instances, [row : Rows, by : Settings])]
  /\ here \in [Probers -> SUBSET Instances]
  /\ changed \in [Probers -> SUBSET Instances]
  /\ unasked \subseteq Instances

Init ==
  /\ settings \in {f \in [Backends -> Settings] : \A b \in Backends : f[b] \in Choices[b]}
  /\ status = [i \in Instances |-> "active"]
  /\ row = [i \in Instances |-> NewRow]
  /\ answers = [i \in Instances |-> TRUE]
  /\ rendered = [i \in Instances |-> FALSE]
  /\ owed = FALSE
  /\ plan = [p \in Probers |-> Nothing]
  /\ seen = [p \in Probers |-> Nothing]
  /\ here = [p \in Probers |-> {}]
  /\ changed = [p \in Probers |-> {}]
  /\ unasked = {}

-----------------------------------------------------------------------------
(* One probe: the row it leaves, given the row it started from.            *)

CountUp(n) == IF n < MaxCount THEN n + 1 ELSE n

\* Mutant: a result does not interrupt the series of the other kind.
CountBoth(r, ok) ==
  IF ok THEN [r EXCEPT !.successes = CountUp(@)]
        ELSE [r EXCEPT !.failures = CountUp(@)]

Counted(r, ok) ==
  IF ok THEN [r EXCEPT !.successes = CountUp(@), !.failures = 0]
        ELSE [r EXCEPT !.failures = CountUp(@), !.successes = 0]

Drains(r, s) == s.drain /\ ~r.draining /\ r.failures >= s.down

\* Mutant: switching draining off leaves the drained where they are.
ReturnsIfDraining(r, s) == r.draining /\ s.drain /\ r.successes >= s.up

\* A drained instance returns after enough successes, or because draining has
\* been switched off.
Returns(r, s) == r.draining /\ (s.drain => r.successes >= s.up)

Probed(r, s, ok) ==
  LET counted == Counted(r, ok)
  IN  [counted EXCEPT !.draining =
         (@ \/ Drains(counted, s)) /\ ~Returns(counted, s)]

-----------------------------------------------------------------------------
(* The tasks.                                                              *)

Visited(p) == DOMAIN plan[p] = {} /\ DOMAIN seen[p] = {}

Start(p, backends) ==
  /\ Visited(p) /\ here[p] = {} /\ changed[p] = {}
  /\ backends # {}
  /\ plan' = [plan EXCEPT ![p] = Restrict(settings, backends)]
  /\ UNCHANGED <<edited, row, answers, nginx, seen, here, changed, unasked>>

\* async_health_check_all
StartSweep(p) == Start(p, {b \in Backends : settings[b].checked})

\* async_health_check_backend: the panel may ask for any backend.
StartOne(p) == \E b \in Backends : Start(p, {b})

\* Mutant: each backend's answer replaces the one before.
KeepLast(p) == here[p]

\* drain_changed = drain_changed or any(...)
Accumulated(p) == changed[p] \cup here[p]

\* health_check_backend begins: it reads the rows of the backend's active
\* instances.
NextBackend(p, b) ==
  /\ DOMAIN seen[p] = {}
  /\ b \in DOMAIN plan[p]
  /\ plan' = [plan EXCEPT ![p] = Restrict(@, DOMAIN @ \ {b})]
  /\ seen' = [seen EXCEPT ![p] =
                [i \in {j \in Instances : BackendOf[j] = b /\ status[j] = "active"} |->
                   [row |-> row[i], by |-> plan[p][b]]]]
  /\ changed' = [changed EXCEPT ![p] = Accumulated(p)]
  /\ here' = [here EXCEPT ![p] = {}]
  /\ UNCHANGED <<edited, row, answers, nginx, unasked>>

\* health_check_instance: one probe, and the row saved.
Probe(p, i) ==
  /\ i \in DOMAIN seen[p]
  /\ status[i] # "deleted"
  /\ LET was == seen[p][i].row
         is  == Probed(was, seen[p][i].by, answers[i])
     IN  /\ row' = [row EXCEPT ![i] = is]
         /\ here' = IF is.draining # was.draining
                    THEN [here EXCEPT ![p] = @ \cup {i}] ELSE here
         /\ unasked' = IF is.draining = was.draining /\ is.draining # row[i].draining
                       THEN unasked \cup {i} ELSE unasked
  /\ seen' = [seen EXCEPT ![p] = Restrict(@, DOMAIN @ \ {i})]
  /\ UNCHANGED <<edited, answers, nginx, plan, changed>>

\* save(update_fields=...) of a row that is gone raises, and what the other
\* instances of the backend have reported is dropped with the exception.
ProbeRaises(p, i) ==
  /\ i \in DOMAIN seen[p]
  /\ status[i] = "deleted"
  /\ seen' = [seen EXCEPT ![p] = Nothing]
  /\ here' = [here EXCEPT ![p] = {}]
  /\ unasked' = unasked \cup here[p]
  /\ UNCHANGED <<edited, row, answers, nginx, plan, changed>>

\* One deploy is asked for at the end, if any flag has changed.
Finish(p) ==
  /\ Visited(p)
  /\ here[p] # {} \/ changed[p] # {}
  /\ owed' = (owed \/ Accumulated(p) # {})
  /\ here' = [here EXCEPT ![p] = {}]
  /\ changed' = [changed EXCEPT ![p] = {}]
  /\ UNCHANGED <<edited, row, answers, rendered, plan, seen, unasked>>

-----------------------------------------------------------------------------
(* The deploy, the operator and the instances themselves.                  *)

\* A deploy renders the flags as they are.
Deploy ==
  /\ owed
  /\ owed' = FALSE
  /\ rendered' = [i \in Instances |-> row[i].draining]
  /\ unasked' = {}
  /\ UNCHANGED <<edited, row, answers, tasks>>

\* backend_update; the endpoint then asks for a deploy.
EditBackend(b, s) ==
  /\ settings[b] # s
  /\ settings' = [settings EXCEPT ![b] = s]
  /\ owed' = TRUE
  /\ UNCHANGED <<status, row, answers, rendered, tasks, unasked>>

\* instance_update and instance_delete.
EditInstance(i, to) ==
  /\ status[i] # "deleted"
  /\ status[i] # to
  /\ status' = [status EXCEPT ![i] = to]
  /\ owed' = TRUE
  /\ UNCHANGED <<settings, row, answers, rendered, tasks, unasked>>

\* An instance begins to answer, or ceases to.
Flap(i) ==
  /\ answers' = [answers EXCEPT ![i] = ~@]
  /\ UNCHANGED <<edited, row, nginx, tasks, unasked>>

-----------------------------------------------------------------------------

TaskStep(p) ==
  \/ \E b \in Backends : NextBackend(p, b)
  \/ \E i \in Instances : Probe(p, i) \/ ProbeRaises(p, i)
  \/ Finish(p)

Next ==
  \/ \E p \in Sweepers : StartSweep(p)
  \/ \E p \in OnDemand : StartOne(p)
  \/ \E p \in Probers : TaskStep(p)
  \/ Deploy
  \/ \E b \in Backends : \E s \in Choices[b] : EditBackend(b, s)
  \/ \E i \in Editable, to \in {"active", "inactive", "deleted"} : EditInstance(i, to)
  \/ \E i \in Flaky : Flap(i)

Spec == Init /\ [][Next]_vars

\* The sweep is started every few seconds, a task that has started runs on
\* (every probe has a time-out), and a deploy that is owed is run.
Fairness == /\ \A p \in Sweepers : WF_vars(StartSweep(p))
            /\ \A p \in Probers : WF_vars(TaskStep(p))
            /\ WF_vars(Deploy)

FairSpec == Spec /\ Fairness

-----------------------------------------------------------------------------
(* Properties.                                                             *)

\* Somebody has asked, or will ask, for a deploy that renders i's flag.
WillBeDeployed(i) == owed \/ \E p \in Probers : i \in here[p] \cup changed[p]

\* Whenever a probe decides to change an instance's flag, the change is on its
\* way to Nginx until it is there, in whichever backend of a sweep it was made
\* and whatever else is edited meanwhile.  Left aside are the changes nobody
\* asks a deploy for: those an exception has dropped, and those a slower task
\* has undone by writing back an older row.
DecisionIsDeployed ==
  \A i \in Instances :
    status[i] = "active" /\ i \notin unasked /\ rendered[i] # row[i].draining
      => WillBeDeployed(i)

\* The same of every change.  (tasks.py: "If any instance crossed its drain
\* threshold, one deploy is requested at the end".)
CrossingIsDeployed ==
  \A i \in Instances :
    status[i] = "active" /\ rendered[i] # row[i].draining => WillBeDeployed(i)

\* An instance that answers from some time on, of a backend whose checks are on,
\* is eventually no longer drained, though slower tasks may write back rows in
\* which it still is.
Recovers ==
  \A i \in Instances :
    <>[](answers[i] /\ status[i] = "active" /\ settings[BackendOf[i]].checked)
      => <>[](~row[i].draining)
=============================================================================
