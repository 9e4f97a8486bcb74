------------------------- MODULE PolicyCacheProofs -------------------------
(***************************************************************************)
(* Theorems about PolicyCache, for any requests, addresses and changes:    *)
(* the types; which cached copies may be stale; that a stale one lets an   *)
(* unsafe policy be saved only where the row was crossed; and that Nginx   *)
(* comes to serve the panel as its row has it.                             *)
(***************************************************************************)
EXTENDS PolicyCache, TLAPS

-----------------------------------------------------------------------------
(* The types.                                                              *)

PanelRows == [allow : SUBSET Addresses, mtls : BOOLEAN, ca : BOOLEAN]

\* Where a request, and the deploy, can be, and what they have at hand there.
ShapeInv ==
  /\ DOMAIN data = Requests
  /\ draft \in [panel : PanelRows \cup {None}, late : BOOLEAN]
  /\ \A p \in Requests : purpose[p] \in {"admission", "edit"}
  /\ \A p \in Requests : pc[p] = "save" => IsPolicyData(data[p])
  /\ \A p \in Readers : pc[p] \in {"fill", "use", "save"} => got[p] \in Copies
  /\ pc[Deploy] \in {"free", "look", "read", "fill", "use"}
  /\ purpose[Deploy] \in {"panel", "servers"}
  /\ pc[Deploy] = "free" => purpose[Deploy] = "panel"

TypeInv == TypeOK /\ ShapeInv

\* A copy that is marked as late, or not, is a copy of the same.
LEMMA CopyEdits ==
  ASSUME NEW copy \in Copies, NEW b \in BOOLEAN
  PROVE  /\ [copy EXCEPT !.late = b] \in Copies
         /\ [copy EXCEPT !.late = b].version = copy.version
         /\ [copy EXCEPT !.late = b].row = copy.row
         /\ [copy EXCEPT !.late = b].late = b
BY DEF Copies

\* A policy with a change over it is a policy.
LEMMA OverlayIsAPolicy ==
  ASSUME NEW policy \in Policies, NEW change, IsPolicyData(change)
  PROVE  Overlay(policy, change) \in Policies
<1>1. PICK other \in Policies :
        DOMAIN change \subseteq DOMAIN other /\ \A f \in DOMAIN change : other[f] = change[f]
  BY DEF IsPolicyData
<1>2. DOMAIN policy = {"published", "allow", "mtls", "ca"}
  BY DEF Policies
<1>3. Overlay(policy, change) = [f \in DOMAIN policy |-> IF f \in DOMAIN change THEN other[f]
                                                         ELSE policy[f]]
  BY <1>1 DEF Overlay
<1> QED
  BY <1>2, <1>3 DEF Policies

\* Leaving out of a change what it does not change is a change to the same effect.
LEMMA DifferencesAreAChange ==
  ASSUME NEW policy \in Policies, NEW change \in Changes
  PROVE  /\ IsPolicyData(Restrict(change, Differs(policy, change)))
         /\ Overlay(policy, Restrict(change, Differs(policy, change))) = Overlay(policy, change)
<1> DEFINE less == Restrict(change, Differs(policy, change))
<1>1. DOMAIN less \subseteq DOMAIN change /\ \A f \in DOMAIN less : less[f] = change[f]
  BY DEF Restrict, Differs
<1>2. \A f \in DOMAIN change \ DOMAIN less : change[f] = policy[f]
  BY DEF Restrict, Differs
<1>3. IsPolicyData(change)
  BY Assumptions
<1>4. IsPolicyData(less)
  <2> HIDE DEF less
  <2> QED
    BY <1>1, <1>3 DEF IsPolicyData
<1>5. Overlay(policy, less) = Overlay(policy, change)
  <2> HIDE DEF less
  <2> QED
    BY <1>1, <1>2 DEF Overlay
<1> QED
  BY <1>4, <1>5

\* The panel's server block of a policy.
LEMMA PanelOfAPolicy ==
  ASSUME NEW policy \in Policies
  PROVE  /\ PanelOf(policy) \in PanelRows \cup {None}
         /\ (policy.mtls => policy.ca) => PanelOf(policy) \in Panels \cup {None}
BY DEF PanelOf, Policies, PanelRows, Panels

\* No step of a request or of the deploy goes on without what it needs.
LEMMA TypeInvariant == Spec => []TypeInv
<1> USE Assumptions DEF TypeInv, TypeOK, ShapeInv, Readers
<1>1. Init => TypeInv
  <2> SUFFICES ASSUME Init PROVE TypeInv
    OBVIOUS
  <2>1. row \in Policies /\ row = Seed /\ (row.mtls => row.ca)
    BY DEF Init
  <2>2. live.panel \in Panels \cup {None}
    BY <2>1, PanelOfAPolicy DEF Init
  <2>3. live.site \in BOOLEAN
    BY <2>1 DEF Init, Policies
  <2>4. live \in [panel : Panels \cup {None}, site : BOOLEAN]
    BY <2>2, <2>3 DEF Init
  <2>5. draft \in [panel : PanelRows \cup {None}, late : BOOLEAN]
    BY DEF Init, NoDraft
  <2>6. /\ purpose \in [Readers -> {"admission", "edit", "panel", "servers"}]
        /\ purpose[Deploy] = "panel" /\ \A p \in Requests : purpose[p] = "admission"
    BY DEF Init
  <2>7. TypeOK
    <3>1. certified \in BOOLEAN /\ active \in BOOLEAN /\ crossed \in BOOLEAN /\ owed \in BOOLEAN /\ blind \in BOOLEAN
      BY DEF Init
    <3>2. /\ pc = [p \in Readers |-> "free"] /\ got = [p \in Readers |-> None]
          /\ data = [p \in Requests |-> None] /\ mine = [p \in Requests |-> 0]
          /\ version = 0 /\ dropped = 0 /\ cache = None
      BY DEF Init
    <3> QED
      BY <2>1, <2>4, <2>6, <3>1, <3>2
  <2>8. ShapeInv
    BY <2>5, <2>6 DEF Init
  <2> QED
    BY <2>7, <2>8
<1>2. TypeInv /\ [Next]_vars => TypeInv'
  <2> SUFFICES ASSUME TypeInv, [Next]_vars PROVE TypeInv'
    OBVIOUS
  <2> USE DEF table, domain, requests, gateway, Goto
  <2>1. ASSUME NEW p \in Readers, Hit(p) PROVE TypeInv'
    BY <2>1 DEF Hit
  <2>2. ASSUME NEW p \in Readers, Miss(p) PROVE TypeInv'
    BY <2>2 DEF Miss
  <2>3. ASSUME NEW p \in Readers, ReadRow(p) PROVE TypeInv'
    BY <2>3 DEF ReadRow, Copies
  <2>4. ASSUME NEW p \in Readers, Fill(p) PROVE TypeInv'
    <3>1. (got[p].version < dropped) \in BOOLEAN
      OBVIOUS
    <3>2. cache' \in Copies
      <4>1. got[p] \in Copies /\ cache' = [got[p] EXCEPT !.late = (got[p].version < dropped)]
        BY <2>4 DEF Fill
      <4> QED
        BY <3>1, <4>1, CopyEdits
    <3> QED
      BY <2>4, <3>2 DEF Fill
  <2>5. CASE Expire
    BY <2>5 DEF Expire
  <2>6. ASSUME NEW p \in Requests, Arrive(p) PROVE TypeInv'
    BY <2>6 DEF Arrive
  <2>7. ASSUME NEW p \in Requests, AdmitRead(p) \/ Refuse(p) \/ Reject(p) PROVE TypeInv'
    BY <2>7 DEF AdmitRead, Refuse, Reject, Ends
  <2>8. ASSUME NEW p \in Requests, AdmitPatch(p) PROVE TypeInv'
    BY <2>8 DEF AdmitPatch
  <2>9. ASSUME NEW p \in Requests, Check(p) PROVE TypeInv'
    <3>1. got[p] \in Copies /\ got[p].row \in Policies
      BY <2>9 DEF Check, Copies
    <3>2. PICK change \in Changes :
            LET differs == Differs(got[p].row, change)
            IN  /\ data' = [data EXCEPT ![p] = Restrict(change, differs)]
                /\ pc' = [pc EXCEPT ![p] = IF differs = {} THEN "ask" ELSE After.use]
      BY <2>9 DEF Check
    <3>3. IsPolicyData(Restrict(change, Differs(got[p].row, change)))
      BY <3>1, DifferencesAreAChange
    <3> QED
      BY <2>9, <3>1, <3>2, <3>3 DEF Check, After
  <2>10. ASSUME NEW p \in Requests, SaveRow(p) PROVE TypeInv'
    <3>1. row' \in Policies
      BY <2>10, OverlayIsAPolicy DEF SaveRow
    <3> QED
      BY <2>10, <3>1 DEF SaveRow, After
  <2>11. ASSUME NEW p \in Requests, DropCopy(p) PROVE TypeInv'
    BY <2>11 DEF DropCopy, After
  <2>12. ASSUME NEW p \in Requests, AskForDeploy(p) PROVE TypeInv'
    BY <2>12 DEF AskForDeploy, Ends, After
  <2>13. CASE CertificateChanges \/ DomainSwitches
    <3>1. /\ certified' \in BOOLEAN /\ active' \in BOOLEAN /\ owed' = TRUE
          /\ UNCHANGED <<table, cache, dropped, pc, purpose, got, requests, draft, live, blind>>
      BY <2>13 DEF CertificateChanges, DomainSwitches
    <3>2. TypeOK'
      BY <3>1
    <3>3. ShapeInv'
      BY <3>1
    <3> QED
      BY <3>2, <3>3
  <2>14. CASE Begin
    BY <2>14 DEF Begin
  <2>15. CASE RenderPanel
    BY <2>15, PanelOfAPolicy DEF RenderPanel, Copies
  <2>16. CASE RenderServers
    BY <2>16 DEF RenderServers, Copies, Accepts, NoDraft, PanelRows, Panels
  <2>17. CASE UNCHANGED vars
    BY <2>17 DEF vars
  <2> QED
    BY <2>1, <2>2, <2>3, <2>4, <2>5, <2>6, <2>7, <2>8, <2>9, <2>10, <2>11, <2>12, <2>13,
       <2>14, <2>15, <2>16, <2>17 DEF Next, RequestStep, DeployStep, LoadStep
<1> QED
  BY <1>1, <1>2, PTL DEF Spec

\* Every variable keeps its type, and Nginx runs no panel that asks for clients'
\* certificates without a CA, for any requests and changes.
THEOREM TypeCorrect == Spec => []TypeOK
BY TypeInvariant, PTL DEF TypeInv

-----------------------------------------------------------------------------
(* Cached copies.                                                          *)

\* A copy is the row as of its version.
CopiesInv ==
  /\ dropped <= version
  /\ \A p \in Requests : mine[p] <= version
  /\ cache # None => /\ cache.version <= version
                     /\ cache.version = version => cache.row = row
  /\ \A p \in Readers : got[p] # None =>
       /\ got[p].version <= version
       /\ got[p].version = version => got[p].row = row

\* The newest version's writer is about to clear the cache for it, or has; and what
\* is cached after that is older only if it was cached too late.
DropInv ==
  /\ \/ dropped = version
     \/ \E p \in Requests : pc[p] = "drop" /\ mine[p] = version
  /\ cache # None => cache.late \/ cache.version >= dropped

CacheInv == CopiesInv /\ DropInv

\* Reading, filling and clearing the cache, and saving the row, keep of each copy what
\* is said of it, in any order.
LEMMA CacheInvariant == Spec => []CacheInv
<1> USE DEF CacheInv, CopiesInv, DropInv
<1>1. Init => CacheInv
  BY DEF Init
<1>2. CacheInv /\ TypeInv /\ [Next]_vars => CacheInv'
  <2> SUFFICES ASSUME CacheInv, TypeInv, [Next]_vars PROVE CacheInv'
    OBVIOUS
  <2> USE DEF TypeInv, TypeOK, table, domain, requests, gateway, Goto, Readers
  <2>1. ASSUME NEW p \in Readers, Hit(p) PROVE CacheInv'
    BY <2>1 DEF Hit
  <2>2. ASSUME NEW p \in Readers, Miss(p) PROVE CacheInv'
    BY <2>2 DEF Miss
  <2>3. ASSUME NEW p \in Readers, ReadRow(p) PROVE CacheInv'
    BY <2>3 DEF ReadRow
  <2>4. ASSUME NEW p \in Readers, Fill(p) PROVE CacheInv'
    <3>1. got[p] \in Copies /\ got[p] # None
      BY <2>4, NoneAssumption DEF Fill, ShapeInv
    <3>2. /\ cache'.version = got[p].version /\ cache'.row = got[p].row
          /\ got[p].version < dropped => cache'.late
      BY <2>4, <3>1 DEF Fill, Copies
    <3>3. got[p].version \in Nat
      BY <3>1 DEF Copies
    <3> QED
      BY <2>4, <3>1, <3>2, <3>3 DEF Fill
  <2>5. CASE Expire \/ CertificateChanges \/ DomainSwitches
    BY <2>5 DEF Expire, CertificateChanges, DomainSwitches
  <2>6. ASSUME NEW p \in Requests, Arrive(p) PROVE CacheInv'
    BY <2>6 DEF Arrive
  <2>7. ASSUME NEW p \in Requests, AdmitRead(p) \/ Refuse(p) \/ Reject(p) PROVE CacheInv'
    BY <2>7 DEF AdmitRead, Refuse, Reject, Ends
  <2>8. ASSUME NEW p \in Requests, AdmitPatch(p) PROVE CacheInv'
    BY <2>8 DEF AdmitPatch
  <2>9. ASSUME NEW p \in Requests, Check(p) PROVE CacheInv'
    BY <2>9 DEF Check
  <2>10. ASSUME NEW p \in Requests, SaveRow(p) PROVE CacheInv'
    BY <2>10 DEF SaveRow, After, Copies
  <2>11. ASSUME NEW p \in Requests, DropCopy(p) PROVE CacheInv'
    BY <2>11 DEF DropCopy, After
  <2>12. ASSUME NEW p \in Requests, AskForDeploy(p) PROVE CacheInv'
    BY <2>12 DEF AskForDeploy, Ends, After
  <2>13. CASE Begin
    BY <2>13, Assumptions DEF Begin
  <2>14. CASE RenderPanel
    BY <2>14, Assumptions DEF RenderPanel
  <2>15. CASE RenderServers
    BY <2>15, Assumptions DEF RenderServers
  <2>16. CASE UNCHANGED vars
    BY <2>16 DEF vars
  <2> QED
    BY <2>1, <2>2, <2>3, <2>4, <2>5, <2>6, <2>7, <2>8, <2>9, <2>10, <2>11, <2>12, <2>13,
       <2>14, <2>15, <2>16 DEF Next, RequestStep, DeployStep, LoadStep
<1> QED
  BY <1>1, <1>2, TypeInvariant, PTL DEF Spec

\* A cached copy is older than the row only while a PATCH is about to clear the cache,
\* or because it was put there too late, for any number of readers and writers.
THEOREM StaleOnlyLate == Spec => []StaleOnlyByRace
<1>1. TypeInv /\ CacheInv => StaleOnlyByRace
  BY DEF TypeInv, TypeOK, Copies, CacheInv, CopiesInv, DropInv, StaleOnlyByRace
<1> QED
  BY <1>1, TypeInvariant, CacheInvariant, PTL

-----------------------------------------------------------------------------
(* What is saved.                                                          *)

\* What is about to be saved was checked with the copy that was loaded.
CheckedInv ==
  /\ row.mtls /\ ~row.ca => crossed
  /\ \A p \in Requests : pc[p] = "save" =>
       LET merged == Overlay(got[p].row, data[p]) IN merged.mtls => merged.ca

\* A change is saved over the mtls and the ca it was checked with, or the row is crossed.
LEMMA CheckedInvariant == Spec => []CheckedInv
<1> USE DEF CheckedInv
<1>1. Init => CheckedInv
  BY Assumptions DEF Init, Policies, Readers
<1>2. CheckedInv /\ CacheInv /\ TypeInv /\ [Next]_vars => CheckedInv'
  <2> SUFFICES ASSUME CheckedInv, CacheInv, TypeInv, [Next]_vars PROVE CheckedInv'
    OBVIOUS
  <2> USE DEF TypeInv, TypeOK, table, domain, requests, gateway, Goto, Readers
  <2>1. ASSUME NEW p \in Requests, Check(p) PROVE CheckedInv'
    <3>1. got[p] \in Copies /\ got[p].row \in Policies
      BY <2>1 DEF Check, Copies, ShapeInv
    <3>2. PICK change \in Changes :
            /\ MayChange(got[p].row, change)
            /\ data' = [data EXCEPT ![p] = Restrict(change, Differs(got[p].row, change))]
      BY <2>1 DEF Check
    <3>3. LET merged == Overlay(got[p].row, data'[p]) IN merged.mtls => merged.ca
      BY <3>1, <3>2, DifferencesAreAChange DEF MayChange, ShapeInv
    <3>4. \A q \in Requests : q # p => pc'[q] = pc[q] /\ data'[q] = data[q]
      BY <2>1, <3>2 DEF Check
    <3> QED
      BY <2>1, <3>3, <3>4 DEF Check
  <2>2. ASSUME NEW p \in Requests, SaveRow(p) PROVE CheckedInv'
    <3>1. ASSUME ~crossed' PROVE row'.mtls => row'.ca
      <4>1. got[p].row.mtls = row.mtls /\ got[p].row.ca = row.ca
        BY <2>2, <3>1 DEF SaveRow
      <4>2. got[p].row \in Policies /\ row \in Policies
        BY <2>2 DEF SaveRow, ShapeInv, Copies
      <4>3. /\ Overlay(got[p].row, data[p]).mtls = Overlay(row, data[p]).mtls
            /\ Overlay(got[p].row, data[p]).ca = Overlay(row, data[p]).ca
        BY <4>1, <4>2 DEF Overlay, Policies
      <4> QED
        BY <2>2, <4>3 DEF SaveRow
    <3>2. \A q \in Requests : pc'[q] = "save" =>
            pc[q] = "save" /\ data'[q] = data[q] /\ got'[q] = got[q]
      BY <2>2 DEF SaveRow, After
    <3> QED
      BY <3>1, <3>2
  <2>3. ASSUME NEW p \in Requests, AdmitRead(p) \/ Refuse(p) \/ Reject(p) \/ AskForDeploy(p)
        PROVE  CheckedInv'
    <3>1. /\ UNCHANGED <<row, crossed>> /\ pc'[p] # "save"
          /\ \A q \in Requests \ {p} : pc'[q] = pc[q] /\ got'[q] = got[q] /\ data'[q] = data[q]
      BY <2>3 DEF AdmitRead, Refuse, Reject, AskForDeploy, Ends, After, ShapeInv
    <3> QED
      BY <3>1
  <2>4. ASSUME NEW p \in Requests, Arrive(p) \/ AdmitPatch(p) \/ DropCopy(p) PROVE CheckedInv'
    BY <2>4 DEF Arrive, AdmitPatch, DropCopy, After
  <2>5. ASSUME NEW p \in Readers, LoadStep(p) PROVE CheckedInv'
    BY <2>5 DEF LoadStep, Hit, Miss, ReadRow, Fill
  <2>6. CASE Expire \/ CertificateChanges \/ DomainSwitches
    BY <2>6 DEF Expire, CertificateChanges, DomainSwitches
  <2>7. CASE Begin \/ RenderPanel \/ RenderServers
    BY <2>7, Assumptions DEF Begin, RenderPanel, RenderServers
  <2>8. CASE UNCHANGED vars
    BY <2>8 DEF vars
  <2> QED
    BY <2>1, <2>2, <2>3, <2>4, <2>5, <2>6, <2>7, <2>8 DEF Next, RequestStep, DeployStep
<1> QED
  BY <1>1, <1>2, TypeInvariant, CacheInvariant, PTL DEF Spec

\* Clients' certificates are asked for without a CA only if another change of one of the
\* two came between the last PATCH's load and its save, for any requests and any changes.
THEOREM UnsafeNeedsCrossing == Spec => []MtlsHasCa
<1>1. CheckedInv => MtlsHasCa
  BY DEF CheckedInv, MtlsHasCa
<1> QED
  BY <1>1, CheckedInvariant, PTL

-----------------------------------------------------------------------------
(* What Nginx serves.                                                      *)

\* A change that the deploy has not read is still to ask for another.
Pending == owed \/ \E p \in Requests : pc[p] \in {"drop", "ask"} /\ mine[p] # 0

\* What the deploy has read, and what Nginx serves when there is none, is the row.
Agrees ==
  /\ pc[Deploy] = "free" =>
       \/ blind
       \/ live = [panel |-> PanelOf(row), site |-> ~row.published]
       \/ ~Accepts(PanelOf(row))
  /\ pc[Deploy] \in {"fill", "use"} => got[Deploy].late \/ got[Deploy].row = row
  /\ purpose[Deploy] = "servers" => draft.late \/ draft.panel = PanelOf(row)

DeployInv == Pending \/ Agrees

\* While a change has not been dropped from the cache nobody takes a copy for the row
\* without it being late, or its writer being about to ask for a deploy.
LEMMA LoadsTheRow ==
  ASSUME TypeInv, CacheInv, cache # None, ~Pending
  PROVE  cache.late \/ cache.row = row
<1>1. dropped = version
  BY DEF CacheInv, CopiesInv, DropInv, TypeInv, TypeOK, Pending
<1> QED
  BY <1>1 DEF CacheInv, CopiesInv, DropInv, TypeInv, TypeOK, Copies

\* A change asks for a deploy after the cache was cleared for it; the deploy that reads
\* after that reads the row.
LEMMA DeployInvariant == Spec => []DeployInv
<1>1. Init => DeployInv
  BY DEF Init, DeployInv, Agrees, Readers
<1>2. DeployInv /\ CacheInv /\ TypeInv /\ TypeInv' /\ [Next]_vars => DeployInv'
  <2> SUFFICES ASSUME DeployInv, CacheInv, TypeInv, TypeInv', [Next]_vars PROVE DeployInv'
    OBVIOUS
  <2> USE DEF TypeInv, TypeOK, ShapeInv, table, domain, requests, gateway, Goto, Readers
  <2>1. ASSUME UNCHANGED <<row, domain, pc, purpose, got, requests, gateway>>
        PROVE  DeployInv'
    BY <2>1 DEF DeployInv, Pending, Agrees, PanelOf
  <2>2. ASSUME NEW p \in Requests,
               UNCHANGED <<row, domain, gateway>>,
               \A r \in Readers \ {p} : /\ pc'[r] = pc[r] /\ purpose'[r] = purpose[r]
                                        /\ got'[r] = got[r],
               \A r \in Requests \ {p} : mine'[r] = mine[r],
               pc[p] \in {"drop", "ask"} /\ mine[p] # 0
                 => pc'[p] \in {"drop", "ask"} /\ mine'[p] # 0
        PROVE  DeployInv'
    <3>1. Pending => Pending'
      BY <2>2 DEF Pending
    <3>2. Agrees => Agrees'
      BY <2>2, Assumptions DEF Agrees, PanelOf
    <3> QED
      BY <3>1, <3>2 DEF DeployInv
  <2>3. ASSUME NEW p \in Requests, RequestStep(p) \/ Arrive(p) PROVE DeployInv'
    <3>1. CASE LoadStep(p) \/ Arrive(p)
      BY <2>2, <3>1 DEF LoadStep, Hit, Miss, ReadRow, Fill, Arrive
    <3>2. CASE AdmitRead(p) \/ Refuse(p) \/ Reject(p)
      BY <2>2, <3>2 DEF AdmitRead, Refuse, Reject, Ends
    <3>3. CASE AdmitPatch(p) \/ Check(p)
      BY <2>2, <3>3 DEF AdmitPatch, Check
    <3>4. CASE SaveRow(p)
      BY <3>4 DEF SaveRow, After, DeployInv, Pending
    <3>5. CASE DropCopy(p)
      BY <2>2, <3>5 DEF DropCopy, After
    <3>6. CASE AskForDeploy(p)
      BY <3>6 DEF AskForDeploy, DeployInv, Pending
    <3> QED
      BY <2>3, <3>1, <3>2, <3>3, <3>4, <3>5, <3>6 DEF RequestStep
  <2>4. CASE Expire
    BY <2>1, <2>4 DEF Expire
  <2>5. CASE CertificateChanges \/ DomainSwitches
    BY <2>5 DEF CertificateChanges, DomainSwitches, DeployInv, Pending
  <2>6. ASSUME UNCHANGED requests,
               \A p \in Requests : pc'[p] = pc[p],
               owed' = owed,
               ~Pending => Agrees'
        PROVE  DeployInv'
    BY <2>6 DEF DeployInv, Pending
  <2>7. CASE Hit(Deploy)
    <3>1. ~Pending => Agrees'
      BY <2>7, LoadsTheRow DEF Hit, DeployInv, Agrees, PanelOf
    <3> QED
      BY <2>6, <2>7, <3>1, Assumptions DEF Hit
  <2>8. CASE Miss(Deploy)
    <3>1. ~Pending => Agrees'
      BY <2>8 DEF Miss, DeployInv, Agrees, PanelOf
    <3> QED
      BY <2>6, <2>8, <3>1, Assumptions DEF Miss
  <2>9. CASE ReadRow(Deploy)
    <3>1. ~Pending => Agrees'
      BY <2>9 DEF ReadRow, DeployInv, Agrees, PanelOf
    <3> QED
      BY <2>6, <2>9, <3>1, Assumptions DEF ReadRow
  <2>10. CASE Fill(Deploy)
    <3>1. ~Pending => Agrees'
      BY <2>10 DEF Fill, DeployInv, Agrees, PanelOf
    <3> QED
      BY <2>6, <2>10, <3>1, Assumptions DEF Fill
  <2>11. CASE Begin
    BY <2>11 DEF Begin, DeployInv, Agrees
  <2>12. CASE RenderPanel
    <3>1. ~Pending => Agrees'
      BY <2>12 DEF RenderPanel, DeployInv, Agrees, PanelOf
    <3> QED
      BY <2>6, <2>12, <3>1, Assumptions DEF RenderPanel
  <2>13. CASE RenderServers
    <3>1. ~Pending => Agrees'
      <4> SUFFICES ASSUME ~Pending PROVE Agrees'
        OBVIOUS
      <4>1. /\ got[Deploy].late \/ got[Deploy].row = row
            /\ draft.late \/ draft.panel = PanelOf(row)
        BY <2>13 DEF RenderServers, DeployInv, Agrees
      <4>2. /\ pc'[Deploy] = "free" /\ purpose'[Deploy] = "panel" /\ row' = row
            /\ PanelOf(row)' = PanelOf(row)
        BY <2>13 DEF RenderServers, PanelOf
      <4>3. /\ blind' = (draft.late \/ got[Deploy].late)
            /\ live' = IF Accepts(draft.panel)
                       THEN [panel |-> draft.panel, site |-> ~got[Deploy].row.published]
                       ELSE live
        BY <2>13 DEF RenderServers
      <4>4. CASE draft.late \/ got[Deploy].late
        BY <4>2, <4>3, <4>4 DEF Agrees
      <4>5. CASE ~(draft.late \/ got[Deploy].late)
        <5>1. Accepts(PanelOf(row))' <=> Accepts(PanelOf(row))
          BY <4>2 DEF Accepts
        <5> HIDE DEF TypeInv, TypeOK, ShapeInv
        <5> QED
          BY <4>1, <4>2, <4>3, <4>5, <5>1 DEF Agrees
      <4> QED
        BY <4>4, <4>5
    <3> QED
      BY <2>6, <2>13, <3>1, Assumptions DEF RenderServers
  <2>14. CASE UNCHANGED vars
    BY <2>1, <2>14 DEF vars
  <2> QED
    BY <2>3, <2>4, <2>5, <2>7, <2>8, <2>9, <2>10, <2>11, <2>12, <2>13, <2>14
       DEF Next, DeployStep, LoadStep
<1> QED
  BY <1>1, <1>2, TypeInvariant, CacheInvariant, PTL DEF Spec

\* When no deploy runs or is owed, Nginx serves the panel as the row has it, for any
\* requests and changes, unless the deploy was given a copy cached too late.
THEOREM NginxServesTheRow == Spec => []LiveIsCurrent
<1>1. DeployInv => LiveIsCurrent
  BY DEF DeployInv, Pending, Agrees, LiveIsCurrent, Quiet
<1> QED
  BY <1>1, DeployInvariant, PTL

=============================================================================
