------------------------- MODULE HealthDrainProofs -------------------------
(***************************************************************************)
(* Theorems about HealthDrain, for any number of backends, instances and   *)
(* tasks and for any thresholds: the types, and that every decision of a   *)
(* probe is deployed.                                                      *)
(***************************************************************************)
EXTENDS HealthDrain, TLAPS

-----------------------------------------------------------------------------
(* Partial functions.                                                      *)

\* Partial(S, T) holds the functions from a part of S to T.
LEMMA PartialDef ==
  ASSUME NEW S, NEW T, NEW f
  PROVE  f \in Partial(S, T) <=> /\ f = [x \in DOMAIN f |-> f[x]]
                                 /\ DOMAIN f \subseteq S
                                 /\ \A x \in DOMAIN f : f[x] \in T
<1>1. f \in Partial(S, T) <=> \E R \in SUBSET S : f \in [R -> T]
  BY DEF Partial
<1> QED
  BY <1>1

\* A part of a partial function is one.
LEMMA RestrictIsPartial ==
  ASSUME NEW S, NEW T, NEW f \in Partial(S, T), NEW R \in SUBSET DOMAIN f
  PROVE  Restrict(f, R) \in Partial(S, T)
<1>1. /\ DOMAIN f \subseteq S
      /\ \A x \in DOMAIN f : f[x] \in T
  BY PartialDef
<1>2. Restrict(f, R) \in [R -> T]
  BY <1>1 DEF Restrict
<1> QED
  BY <1>1, <1>2 DEF Partial

\* A task that has read nothing yet has a partial function in memory all the same.
LEMMA NothingIsPartial ==
  ASSUME NEW S, NEW T
  PROVE  Nothing \in Partial(S, T)
<1>1. Nothing \in [{} -> T]
  BY DEF Nothing
<1> QED
  BY <1>1 DEF Partial

-----------------------------------------------------------------------------
(* The types.                                                              *)

\* A row under the probes: its counters stay within MaxCount, and never are
\* both positive.
SeriesRows == {r \in Rows : r.failures = 0 \/ r.successes = 0}

\* Whatever row a probe starts from, the row it leaves has one series.
LEMMA ProbedInSeriesRows ==
  ASSUME NEW r \in Rows, NEW s \in Settings, NEW ok \in BOOLEAN
  PROVE  Probed(r, s, ok) \in SeriesRows
<1>1. CountUp(r.failures) \in 0 .. MaxCount /\ CountUp(r.successes) \in 0 .. MaxCount
  BY SettingsAssumption DEF CountUp, Rows
<1>2. Counted(r, ok) \in SeriesRows
  <2> DEFINE counters == 0 .. MaxCount
  <2>1. 0 \in counters
    BY SettingsAssumption
  <2>2. CountUp(r.failures) \in counters /\ CountUp(r.successes) \in counters
    BY <1>1
  <2>3. Rows = [failures : counters, successes : counters, draining : BOOLEAN]
    BY DEF Rows
  <2> HIDE DEF counters
  <2>4. CASE ok
    BY <2>1, <2>2, <2>3, <2>4 DEF Counted, SeriesRows
  <2>5. CASE ~ok
    BY <2>1, <2>2, <2>3, <2>5 DEF Counted, SeriesRows
  <2> QED
    BY <2>4, <2>5
<1>3. \A d \in BOOLEAN : [Counted(r, ok) EXCEPT !.draining = d] \in SeriesRows
  BY <1>2 DEF SeriesRows, Rows
<1> DEFINE c == Counted(r, ok)
           drained == (c.draining \/ Drains(c, s)) /\ ~Returns(c, s)
<1>4. drained \in BOOLEAN
  OBVIOUS
<1>5. Probed(r, s, ok) = [c EXCEPT !.draining = drained]
  BY Zenon DEF Probed
<1> HIDE DEF drained
<1> QED
  BY <1>3, <1>4, <1>5

\* Every variable keeps its type, and the two counters of a row never are both
\* positive, however the tasks overwrite each other's rows.
THEOREM TypeCorrect == Spec => []TypeOK
<1>1. Init => TypeOK
  <2>1. NewRow \in Rows
    BY SettingsAssumption DEF NewRow, Rows
  <2>2. NewRow.failures = 0
    BY DEF NewRow
  <2>3. Init => settings \in [Backends -> Settings]
    BY DEF Init
  <2>4. Init => /\ plan \in [Probers -> Partial(Backends, Settings)]
                /\ seen \in [Probers -> Partial(Instances, [row : Rows, by : Settings])]
    BY NothingIsPartial DEF Init
  <2>5. Init => row \in [Instances -> Rows] /\ \A i \in Instances : row[i].failures = 0
    BY <2>1, <2>2 DEF Init
  <2>6. Init => /\ status \in [Instances -> {"active", "inactive", "deleted"}]
                /\ answers \in [Instances -> BOOLEAN]
                /\ rendered \in [Instances -> BOOLEAN]
                /\ owed \in BOOLEAN
    <3>1. Init => /\ status = [i \in Instances |-> "active"]
                  /\ answers = [i \in Instances |-> TRUE]
                  /\ rendered = [i \in Instances |-> FALSE] /\ owed = FALSE
      BY DEF Init
    <3> QED
      BY <3>1
  <2>7. Init => /\ here \in [Probers -> SUBSET Instances]
                /\ changed \in [Probers -> SUBSET Instances]
                /\ unasked \subseteq Instances
    <3>1. Init => here = [p \in Probers |-> {}] /\ changed = [p \in Probers |-> {}] /\ unasked = {}
      BY DEF Init
    <3> QED
      BY <3>1
  <2> QED
    BY <2>3, <2>4, <2>5, <2>6, <2>7 DEF TypeOK
<1>2. TypeOK /\ [Next]_vars => TypeOK'
  <2> SUFFICES ASSUME TypeOK, [Next]_vars PROVE TypeOK'
    OBVIOUS
  <2> USE DEF TypeOK
  <2>1. ASSUME NEW p \in Probers, NEW backends \in SUBSET Backends, Start(p, backends)
        PROVE  TypeOK'
    <3>1. Restrict(settings, backends) \in [backends -> Settings]
      BY DEF Restrict
    <3>2. Restrict(settings, backends) \in Partial(Backends, Settings)
      BY <3>1 DEF Partial
    <3>3. plan' \in [Probers -> Partial(Backends, Settings)]
      BY <2>1, <3>2 DEF Start
    <3> QED
      BY <2>1, <3>3 DEF Start, edited, nginx
  <2>2. ASSUME NEW p \in Probers, NEW b \in Backends, NextBackend(p, b)
        PROVE  TypeOK'
    <3> DEFINE rows == {j \in Instances : BackendOf[j] = b /\ status[j] = "active"}
               T == [row : Rows, by : Settings]
    <3>1. Restrict(plan[p], DOMAIN plan[p] \ {b}) \in Partial(Backends, Settings)
      BY RestrictIsPartial
    <3>2. plan[p][b] \in Settings
      BY <2>2, PartialDef DEF NextBackend
    <3>3. [i \in rows |-> [row |-> row[i], by |-> plan[p][b]]] \in [rows -> T]
      BY <3>2
    <3>4. [i \in rows |-> [row |-> row[i], by |-> plan[p][b]]] \in Partial(Instances, T)
      BY <3>3 DEF Partial
    <3>5. /\ plan' \in [Probers -> Partial(Backends, Settings)]
          /\ seen' \in [Probers -> Partial(Instances, T)]
      BY <2>2, <3>1, <3>4 DEF NextBackend
    <3>6. here' \in [Probers -> SUBSET Instances] /\ changed' \in [Probers -> SUBSET Instances]
      BY <2>2 DEF NextBackend, Accumulated
    <3> QED
      BY <2>2, <3>5, <3>6 DEF NextBackend, edited, nginx
  <2>3. ASSUME NEW p \in Probers, NEW i \in Instances, Probe(p, i)
        PROVE  TypeOK'
    <3> DEFINE is == Probed(seen[p][i].row, seen[p][i].by, answers[i])
    <3>1. seen[p][i] \in [row : Rows, by : Settings]
      <4> DEFINE T == [row : Rows, by : Settings]
      <4>1. i \in DOMAIN seen[p]
        BY <2>3 DEF Probe
      <4>2. seen[p] \in Partial(Instances, T)
        OBVIOUS
      <4> HIDE DEF T
      <4>3. \A j \in DOMAIN seen[p] : seen[p][j] \in T
        BY <4>2, PartialDef
      <4>4. seen[p][i] \in T
        BY <4>1, <4>3
      <4> QED
        BY <4>4 DEF T
    <3>2. is \in SeriesRows
      BY <3>1, ProbedInSeriesRows
    <3>3. row' = [row EXCEPT ![i] = is]
      BY <2>3 DEF Probe
    <3> HIDE DEF is
    <3>4. row' \in [Instances -> Rows] /\ \A j \in Instances : row'[j].failures = 0 \/ row'[j].successes = 0
      BY <3>2, <3>3 DEF SeriesRows
    <3>5. Restrict(seen[p], DOMAIN seen[p] \ {i}) \in Partial(Instances, [row : Rows, by : Settings])
      BY RestrictIsPartial
    <3>6. seen' \in [Probers -> Partial(Instances, [row : Rows, by : Settings])]
      BY <2>3, <3>5 DEF Probe
    <3>7. here' \in [Probers -> SUBSET Instances] /\ unasked' \subseteq Instances
      BY <2>3 DEF Probe
    <3> QED
      BY <2>3, <3>4, <3>6, <3>7 DEF Probe, edited, nginx
  <2>4. ASSUME NEW p \in Probers, NEW i \in Instances, ProbeRaises(p, i)
        PROVE  TypeOK'
    <3>1. seen' \in [Probers -> Partial(Instances, [row : Rows, by : Settings])]
      BY <2>4, NothingIsPartial DEF ProbeRaises
    <3> QED
      BY <2>4, <3>1 DEF ProbeRaises, edited, nginx
  <2>5. ASSUME NEW p \in Probers, Finish(p)
        PROVE  TypeOK'
    BY <2>5 DEF Finish, edited
  <2>6. CASE Deploy
    <3>1. rendered' \in [Instances -> BOOLEAN]
      BY <2>6 DEF Deploy, Rows
    <3> QED
      BY <2>6, <3>1 DEF Deploy, edited, tasks
  <2>7. ASSUME NEW b \in Backends, NEW s \in Choices[b], EditBackend(b, s)
        PROVE  TypeOK'
    <3>1. s \in Settings
      BY SettingsAssumption
    <3> QED
      BY <2>7, <3>1 DEF EditBackend, tasks
  <2>8. ASSUME NEW i \in Editable, NEW to \in {"active", "inactive", "deleted"},
               EditInstance(i, to)
        PROVE  TypeOK'
    BY <2>8, EditableAssumption DEF EditInstance, tasks
  <2>9. ASSUME NEW i \in Flaky, Flap(i)
        PROVE  TypeOK'
    BY <2>9, EditableAssumption DEF Flap, edited, nginx, tasks
  <2>10. CASE UNCHANGED vars
    BY <2>10 DEF vars, edited, nginx, tasks
  <2>11. ASSUME NEW p \in Sweepers, StartSweep(p)
         PROVE  TypeOK'
    BY <2>1, <2>11 DEF StartSweep, Probers
  <2>12. ASSUME NEW p \in OnDemand, StartOne(p)
         PROVE  TypeOK'
    BY <2>1, <2>12 DEF StartOne, Probers
  <2> QED
    BY <2>2, <2>3, <2>4, <2>5, <2>6, <2>7, <2>8, <2>9, <2>10, <2>11, <2>12
       DEF Next, TaskStep
<1> QED
  BY <1>1, <1>2, PTL DEF Spec

-----------------------------------------------------------------------------
(* Every decision is deployed.                                             *)

\* A row that changed while its instance's flag is not rendered is in a task's
\* list or in a deploy that is owed.  The property is inductive with the types:
\* a task hands its list on (NextBackend), drops it into unasked (ProbeRaises),
\* or asks for a deploy (Finish), and a deploy renders every flag there is.
THEOREM DecisionsAreDeployed == Spec => []DecisionIsDeployed
<1>1. Init => DecisionIsDeployed
  <2>1. NewRow.draining = FALSE
    BY DEF NewRow
  <2>2. Init => \A i \in Instances : rendered[i] = FALSE /\ row[i] = NewRow
    BY DEF Init
  <2> QED
    BY <2>1, <2>2 DEF DecisionIsDeployed
<1>2. TypeOK /\ DecisionIsDeployed /\ [Next]_vars => DecisionIsDeployed'
  <2> SUFFICES ASSUME TypeOK, DecisionIsDeployed, [Next]_vars,
                      NEW i \in Instances,
                      status'[i] = "active", i \notin unasked',
                      rendered'[i] # row'[i].draining
               PROVE  WillBeDeployed(i)'
    BY DEF DecisionIsDeployed
  <2> USE DEF WillBeDeployed
  <2>0. status[i] = "active" /\ i \notin unasked /\ rendered[i] # row[i].draining
          => WillBeDeployed(i)
    BY DEF DecisionIsDeployed
  <2>1. ASSUME NEW p \in Probers, NEW backends, Start(p, backends)
        PROVE  WillBeDeployed(i)'
    BY <2>0, <2>1 DEF Start, edited, nginx
  <2>2. ASSUME NEW p \in Probers, NEW b \in Backends, NextBackend(p, b)
        PROVE  WillBeDeployed(i)'
    BY <2>0, <2>2 DEF NextBackend, Accumulated, TypeOK, edited, nginx
  <2>3. ASSUME NEW p \in Probers, NEW j \in Instances, Probe(p, j)
        PROVE  WillBeDeployed(i)'
    <3> DEFINE was == seen[p][j].row
               is == Probed(was, seen[p][j].by, answers[j])
    <3> HIDE DEF was, is
    <3>1. /\ row' = [row EXCEPT ![j] = is]
          /\ here' = IF is.draining # was.draining
                     THEN [here EXCEPT ![p] = @ \cup {j}] ELSE here
          /\ unasked' = IF is.draining = was.draining /\ is.draining # row[j].draining
                        THEN unasked \cup {j} ELSE unasked
          /\ UNCHANGED <<changed, owed, rendered, status>>
      BY <2>3 DEF Probe, was, is, edited, nginx
    <3>2. \A q \in Probers : here[q] \subseteq here'[q]
      BY <3>1 DEF TypeOK
    <3>3. CASE i = j /\ is.draining # was.draining
      BY <3>1, <3>3 DEF TypeOK
    <3>4. CASE ~(i = j /\ is.draining # was.draining)
      <4>1. row[i].draining = row'[i].draining
        BY <3>1, <3>4 DEF TypeOK
      <4>2. i \notin unasked
        BY <3>1
      <4> QED
        BY <2>0, <3>1, <3>2, <4>1, <4>2
    <3> QED
      BY <3>3, <3>4
  <2>4. ASSUME NEW p \in Probers, NEW j \in Instances, ProbeRaises(p, j)
        PROVE  WillBeDeployed(i)'
    BY <2>0, <2>4 DEF ProbeRaises, TypeOK, edited, nginx
  <2>5. ASSUME NEW p \in Probers, Finish(p)
        PROVE  WillBeDeployed(i)'
    <3>1. Accumulated(p) # {}
      BY <2>5 DEF Finish, Accumulated
    <3> QED
      BY <2>5, <3>1 DEF Finish
  <2>6. CASE Deploy
    BY <2>6 DEF Deploy, TypeOK
  <2>7. ASSUME NEW b \in Backends, NEW s, EditBackend(b, s)
        PROVE  WillBeDeployed(i)'
    BY <2>7 DEF EditBackend
  <2>8. ASSUME NEW j \in Editable, NEW to, EditInstance(j, to)
        PROVE  WillBeDeployed(i)'
    BY <2>8 DEF EditInstance
  <2>9. CASE (\E j \in Flaky : Flap(j)) \/ UNCHANGED vars
    BY <2>0, <2>9 DEF Flap, vars, edited, nginx, tasks
  <2> QED
    BY <2>1, <2>2, <2>3, <2>4, <2>5, <2>6, <2>7, <2>8, <2>9
       DEF Next, TaskStep, StartSweep, StartOne, Probers
<1> QED
  BY <1>1, <1>2, TypeCorrect, PTL DEF Spec
=============================================================================
