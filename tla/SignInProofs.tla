---------------------------- MODULE SignInProofs ----------------------------
(***************************************************************************)
(* Theorems about SignIn, for any set of requests, any threshold, duration *)
(* of a lock and recovery codes: the types; that no failure is lost to the *)
(* lock; that the second factor is the one that was proven, unless a       *)
(* set-up and a confirmation overlapped; and that a code works once, and   *)
(* once more at most for each verification that was overtaken.             *)
(***************************************************************************)
EXTENDS SignIn, FiniteSetTheorems, TLAPS

-----------------------------------------------------------------------------
(* The types, and what requests remember of the device.                    *)

\* Keys only grow, so a device with the key of one that was read is that one:
\* it stays confirmed once it is.
ReadInv ==
  /\ device # None => device.key <= made
  /\ \A p \in Requests : read[p] # None =>
       /\ read[p].key <= made
       /\ device # None /\ device.key = read[p].key /\ read[p].confirmed
            => device.confirmed

\* What a request that is about to save has read.
PickInv ==
  /\ \A p \in Requests : pc[p] \in {"save", "setup", "confirm"} => read[p] # None
  /\ \A p \in Requests : pc[p] = "setup" => ~read[p].confirmed
  /\ \A p \in Requests : pc[p] = "save" =>
       /\ read[p].confirmed
       /\ \/ pick[p] \in read[p].codes
          \/ pick[p] \in {"now", "past"} /\ ~read[p].spent

MemoryInv == TypeOK /\ ReadInv /\ PickInv

\* Values cut off at a bound stay within it.
LEMMA AtMostBounds ==
  ASSUME NEW bound \in Nat, NEW n \in Nat
  PROVE  AtMost(bound, n) \in 0 .. bound
BY DEF AtMost

\* A device under an edit of one field is still a device.
LEMMA DeviceEdits ==
  ASSUME NEW d \in Devices
  PROVE  /\ \A n \in 0 .. MaxSetups : [d EXCEPT !.secret = n] \in Devices
         /\ \A S \in SUBSET Codes : [d EXCEPT !.codes = S] \in Devices
         /\ \A b \in BOOLEAN : [d EXCEPT !.spent = b] \in Devices
         /\ [d EXCEPT !.confirmed = TRUE, !.codes = Codes, !.spent = TRUE] \in Devices
BY DEF Devices

\* The save of a used code leaves the device as it was, but for its codes and its step.
LEMMA MarkUsedSaves ==
  ASSUME MemoryInv, NEW p \in Requests, MarkUsed(p)
  PROVE  /\ device \in Devices /\ device' \in Devices
         /\ device'.key = device.key /\ device'.confirmed /\ device'.secret = device.secret
<1> USE Assumptions, NoneAssumption DEF MemoryInv, TypeOK, PickInv, Goto
<1>1. read[p] \in Devices /\ device \in Devices /\ device.confirmed
  BY DEF MarkUsed, StillThere, ReadInv
<1>2. Without(read[p].codes, pick[p]) \in SUBSET Codes
  BY <1>1 DEF Without, Devices
<1>3. CASE device' = [device EXCEPT !.codes = Without(read[p].codes, pick[p])]
  <2>1. device' \in Devices
    BY <1>1, <1>2, <1>3, DeviceEdits
  <2> QED
    BY <1>1, <1>3, <2>1 DEF Devices
<1>4. CASE device' = [device EXCEPT !.spent = (pick[p] = "now")]
  <2>1. (pick[p] = "now") \in BOOLEAN
    OBVIOUS
  <2>2. device' \in Devices
    BY <1>1, <1>4, <2>1, DeviceEdits
  <2> QED
    BY <1>1, <1>4, <2>2 DEF Devices
<1> QED
  BY <1>3, <1>4 DEF MarkUsed

\* The save of a new secret leaves the device with that secret.
LEMMA ShowSecretSaves ==
  ASSUME MemoryInv, NEW p \in Requests, ShowSecret(p)
  PROVE  /\ device \in Devices /\ device' \in Devices
         /\ shown' \in 0 .. MaxSetups
         /\ device' = [device EXCEPT !.secret = shown']
<1>1. shown' \in 0 .. MaxSetups
  BY Assumptions DEF ShowSecret, MemoryInv, TypeOK
<1>2. device \in Devices /\ device' = [device EXCEPT !.secret = shown']
  BY DEF ShowSecret, StillThere, MemoryInv, TypeOK
<1> QED
  BY <1>1, <1>2, DeviceEdits

\* The save of a confirmation leaves the device confirmed, with all its codes.
LEMMA ConfirmSaves ==
  ASSUME MemoryInv, NEW p \in Requests, Confirm(p)
  PROVE  /\ device \in Devices /\ device' \in Devices /\ read[p] \in Devices
         /\ device' = [device EXCEPT !.confirmed = TRUE, !.codes = Codes, !.spent = TRUE]
<1>1. device \in Devices /\ read[p] \in Devices
  BY NoneAssumption DEF Confirm, StillThere, MemoryInv, TypeOK, PickInv, Goto
<1> QED
  BY <1>1, DeviceEdits DEF Confirm

\* No step, of any request, loses a type, a key's device or what a save needs.
LEMMA MemoryInvariant == Spec => []MemoryInv
<1> USE Assumptions, NoneAssumption DEF MemoryInv, TypeOK, ReadInv, PickInv
<1>1. Init => MemoryInv
  BY DEF Init
<1>2. MemoryInv /\ [Next]_vars => MemoryInv'
  <2> SUFFICES ASSUME MemoryInv, [Next]_vars PROVE MemoryInv'
    OBVIOUS
  <2> USE DEF locking, factor, progress, Goto
  <2>1. ASSUME NEW p \in Requests, LockCheck(p) PROVE MemoryInv'
    BY <2>1 DEF LockCheck, AfterCheck
  <2>2. ASSUME NEW p \in Requests, TakeRow(p) PROVE MemoryInv'
    BY <2>2 DEF TakeRow, RowIsFree, Locks
  <2>3. ASSUME NEW p \in Requests, CountFailure(p) PROVE MemoryInv'
    <3>1. PICK restart \in BOOLEAN :
            LET count == AtMost(MaxCount, (IF restart THEN 0 ELSE tally[p]) + 1)
            IN  lock' = [count |-> count,
                         until |-> IF count >= Threshold THEN LockFor ELSE lock.until,
                         age   |-> 0]
      BY <2>3 DEF CountFailure
    <3>2. AtMost(MaxCount, (IF restart THEN 0 ELSE tally[p]) + 1) \in 0 .. MaxCount
      BY DEF AtMost
    <3>3. lock' \in Locks
      BY <2>3, <3>1, <3>2 DEF CountFailure, Locks, LockFor
    <3> QED
      BY <2>3, <3>3 DEF CountFailure
  <2>4. ASSUME NEW p \in Requests, SignedIn(p) PROVE MemoryInv'
    BY <2>4 DEF SignedIn, Forget, RowIsFree
  <2>5. CASE Prune
    BY <2>5 DEF Prune, Forget, RowIsFree
  <2>6. ASSUME NEW p \in Requests, WrongPassword(p) \/ PasswordSuffices(p) \/ CodeIsAskedFor(p)
        PROVE  MemoryInv'
    BY <2>6 DEF WrongPassword, PasswordSuffices, CodeIsAskedFor
  <2>7. ASSUME NEW p \in Requests, Decline(p) PROVE MemoryInv'
    BY <2>7 DEF Decline
  <2>8. ASSUME NEW p \in Requests, Accept(p) PROVE MemoryInv'
    BY <2>8 DEF Accept, Confirmed, Devices
  <2>9. ASSUME NEW p \in Requests, MarkUsed(p) PROVE MemoryInv'
    BY <2>9, MarkUsedSaves, ZenonT(60) DEF MarkUsed, StillThere, Drops
  <2>10. ASSUME NEW p \in Requests, SaveFails(p) PROVE MemoryInv'
    BY <2>10 DEF SaveFails, Drops
  <2>11. ASSUME NEW p \in Requests, BeginSetup(p) PROVE MemoryInv'
    <3>1. CASE device = None
      <4>1. device' = NewDevice /\ made' = made + 1 /\ made < MaxDevices
        BY <2>11, <3>1 DEF BeginSetup
      <4>2. /\ made' = made + 1 /\ made' \in 0 .. MaxDevices
            /\ device' \in Devices /\ device'.key = made'
            /\ ~device'.confirmed /\ device'.codes = {} /\ ~device'.spent
        BY <4>1 DEF NewDevice, Devices
      <4>3. read' = [read EXCEPT ![p] = device']
        BY <2>11 DEF BeginSetup
      <4>4. TypeOK'
        BY <2>11, <4>2, <4>3 DEF BeginSetup
      <4>5. ReadInv'
        BY <4>2, <4>3 DEF Devices
      <4>6. PickInv'
        BY <2>11, <4>2, <4>3 DEF BeginSetup
      <4> QED
        BY <4>4, <4>5, <4>6
    <3>2. CASE device # None
      BY <2>11, <3>2 DEF BeginSetup, MaySetUp
    <3> QED
      BY <3>1, <3>2
  <2>12. ASSUME NEW p \in Requests, ShowSecret(p) PROVE MemoryInv'
    BY <2>12, ShowSecretSaves DEF ShowSecret, StillThere, Drops, Devices
  <2>13. ASSUME NEW p \in Requests, BeginConfirm(p) PROVE MemoryInv'
    BY <2>13 DEF BeginConfirm, Devices
  <2>14. ASSUME NEW p \in Requests, Confirm(p) PROVE MemoryInv'
    <3>1. device'.key = device.key /\ device'.confirmed
      <4>1. device \in Devices
            /\ device' = [device EXCEPT !.confirmed = TRUE, !.codes = Codes, !.spent = TRUE]
        BY <2>14, ConfirmSaves
      <4> QED
        BY <4>1 DEF Devices
    <3>2. proven' \in 0 .. MaxSetups
      BY <2>14, ConfirmSaves DEF Confirm, Devices
    <3> QED
      BY <2>14, <3>1, <3>2, ConfirmSaves, ZenonT(60) DEF Confirm, StillThere, Drops
  <2>15. ASSUME NEW p \in Requests, Disable(p) PROVE MemoryInv'
    BY <2>15 DEF Disable
  <2>16. ASSUME NEW p \in Requests, Remove(p) PROVE MemoryInv'
    BY <2>16 DEF Remove, Deleted
  <2>17. CASE Reset
    BY <2>17 DEF Reset, Deleted
  <2>18. ASSUME NewStep, lock' \in Locks \cup {None}, lock # None => lock' # None,
                holder' = holder, tally' = tally
         PROVE  MemoryInv'
    <3>1. device' \in Devices \cup {None} /\ (device = None <=> device' = None)
      <4>1. device # None => device \in Devices /\ [device EXCEPT !.spent = FALSE] \in Devices
        BY DeviceEdits
      <4>2. device' = IF device = None THEN None ELSE [device EXCEPT !.spent = FALSE]
        BY <2>18 DEF NewStep
      <4>3. None \notin Devices
        BY DEF Devices
      <4> QED
        BY <4>1, <4>2, <4>3
    <3>2. device # None =>
            /\ device'.key = device.key /\ device'.codes = device.codes
            /\ device'.confirmed = device.confirmed /\ ~device'.spent
      BY <2>18 DEF NewStep, Devices
    <3>3. read' \in [Requests -> Devices \cup {None}]
      BY <2>18, DeviceEdits DEF NewStep
    <3>4. ASSUME NEW p \in Requests
          PROVE  /\ read[p] = None <=> read'[p] = None
                 /\ read[p] # None => /\ read'[p].key = read[p].key
                                      /\ read'[p].codes = read[p].codes
                                      /\ read'[p].confirmed = read[p].confirmed
                                      /\ ~read'[p].spent
      <4>1. read'[p] = IF read[p] = None THEN None ELSE [read[p] EXCEPT !.spent = FALSE]
        BY <2>18 DEF NewStep
      <4>2. CASE read[p] = None
        BY <4>1, <4>2
      <4>3. CASE read[p] # None
        <5>1. read[p] \in Devices /\ read'[p] = [read[p] EXCEPT !.spent = FALSE]
          BY <4>1, <4>3
        <5>2. read'[p] \in Devices
          BY <5>1, DeviceEdits
        <5> QED
          BY <4>3, <5>1, <5>2 DEF Devices
      <4> QED
        BY <4>2, <4>3
    <3>5. /\ pick' \in [Requests -> Codes \cup {None, "now", "past"}]
          /\ \A p \in Requests : pick'[p] = IF pick[p] = "now" THEN "past" ELSE pick[p]
      BY <2>18 DEF NewStep
    <3>6. TypeOK'
      BY <2>18, <3>1, <3>2, <3>3, <3>5 DEF NewStep
    <3>7. ReadInv'
      BY <2>18, <3>1, <3>2, <3>4 DEF NewStep
    <3>8. PickInv'
      BY <2>18, <3>4, <3>5 DEF NewStep
    <3> QED
      BY <3>6, <3>7, <3>8
  <2>19. CASE NextStep
    BY <2>18, <2>19 DEF NextStep
  <2>20. CASE Tick
    <3>1. ASSUME lock # None
          PROVE  [lock EXCEPT !.until = IF @ > -Week THEN @ - 1 ELSE @,
                              !.age = AtMost(Minutes + 1, @ + 1)] \in Locks
      <4>1. AtMost(Minutes + 1, lock.age + 1) \in 0 .. Minutes + 1
        BY <3>1 DEF Locks, AtMost
      <4>2. (IF lock.until > -Week THEN lock.until - 1 ELSE lock.until) \in -Week .. Minutes
        BY <3>1 DEF Locks
      <4> QED
        BY <3>1, <4>1, <4>2 DEF Locks
    <3> QED
      BY <2>18, <2>20, <3>1 DEF Tick
  <2>21. CASE UNCHANGED vars
    BY <2>21 DEF vars
  <2> QED
    BY <2>1, <2>2, <2>3, <2>4, <2>5, <2>6, <2>7, <2>8, <2>9, <2>10, <2>11, <2>12,
       <2>13, <2>14, <2>15, <2>16, <2>17, <2>19, <2>20, <2>21 DEF Next, Step
<1> QED
  BY <1>1, <1>2, PTL DEF Spec

\* Every variable of the sign-in has its type, whatever the requests, and however their
\* reads and saves of the device's row interleave.
THEOREM TypeCorrect == Spec => []TypeOK
BY MemoryInvariant, PTL DEF MemoryInv

-----------------------------------------------------------------------------
(* The lock.                                                               *)

HistoryTypes == failures \in 0 .. MaxCount /\ late \in Nat

\* The request that holds the row is the only one that is counting, and knows the count;
\* no failure is lost; and a count that has reached the threshold has locked the
\* account for the time that is left since it was last added to.
LockInv ==
  /\ \A p \in Requests : pc[p] = "counting" => holder = p /\ tally[p] = lock.count
  /\ lock # None => lock.count = failures
  /\ lock # None /\ lock.count >= Threshold /\ lock.age < Minutes
       => lock.until >= Minutes - lock.age

\* The requests whose failure may still be counted.
UnderWay ==
  {p \in Requests : \/ pc[p] \in {"password", "failed", "counting"}
                    \/ pc[p] \in {"verify", "save"} /\ goal[p] = "sign_in"}

\* While the account is locked nobody joins those under way.
LateInv ==
  /\ late < Cardinality(Requests)
  /\ Active => late + Cardinality(UnderWay) < Cardinality(Requests)

\* No step loses a failure, or lets two requests count at once.
LEMMA LockInvariant == Spec => [](HistoryTypes /\ LockInv)
<1> USE Assumptions, NoneAssumption DEF HistoryTypes, LockInv
<1>1. Init => HistoryTypes /\ LockInv
  BY DEF Init
<1>2. /\ HistoryTypes /\ LockInv
      /\ MemoryInv /\ MemoryInv'
      /\ [Next]_vars
      => (HistoryTypes /\ LockInv)'
  <2> SUFFICES ASSUME HistoryTypes, LockInv, MemoryInv, MemoryInv', [Next]_vars
               PROVE  (HistoryTypes /\ LockInv)'
    OBVIOUS
  <2> USE DEF locking, factor, progress, Goto, MemoryInv, TypeOK
  <2>1. ASSUME NEW p \in Requests, LockCheck(p) PROVE (HistoryTypes /\ LockInv)'
    BY <2>1 DEF LockCheck, AfterCheck
  <2>2. ASSUME NEW p \in Requests, TakeRow(p) PROVE (HistoryTypes /\ LockInv)'
    BY <2>2 DEF TakeRow, RowIsFree, Locks
  <2>3. ASSUME NEW p \in Requests, CountFailure(p) PROVE (HistoryTypes /\ LockInv)'
    <3>1. PICK restart \in BOOLEAN :
            /\ LET count == AtMost(MaxCount, (IF restart THEN 0 ELSE tally[p]) + 1)
               IN  lock' = [count |-> count,
                            until |-> IF count >= Threshold THEN LockFor ELSE lock.until,
                            age   |-> 0]
            /\ failures' = AtMost(MaxCount, (IF restart THEN 0 ELSE failures) + 1)
      BY <2>3 DEF CountFailure
    <3>2. tally[p] = failures /\ holder = p
      BY <2>3 DEF CountFailure
    <3>3. failures' \in 0 .. MaxCount
      BY <3>1 DEF AtMost
    <3>4. lock' # None /\ lock'.count = failures' /\ lock'.age = 0
      <4>1. lock \in Locks
        BY <2>3 DEF CountFailure
      <4>2. lock'.count = failures' /\ lock'.age = 0
        BY <3>1, <3>2
      <4>3. lock' \in Locks
        BY <3>1, <3>2, <3>3, <4>1 DEF Locks, LockFor
      <4> QED
        BY <4>2, <4>3
    <3>5. lock'.count >= Threshold => lock'.until = Minutes
      BY <3>1 DEF LockFor
    <3>6. \A q \in Requests : pc'[q] # "counting"
      BY <2>3, <3>2 DEF CountFailure
    <3>7. late' \in Nat
      BY <2>3, FS_CardinalityType DEF CountFailure, AtMost
    <3> QED
      BY <3>3, <3>4, <3>5, <3>6, <3>7
  <2>4. ASSUME NEW p \in Requests, SignedIn(p) PROVE (HistoryTypes /\ LockInv)'
    BY <2>4 DEF SignedIn, Forget, RowIsFree
  <2>5. CASE Prune
    BY <2>5 DEF Prune, Forget, RowIsFree
  <2>6. ASSUME NEW p \in Requests,
               \/ WrongPassword(p) \/ PasswordSuffices(p) \/ CodeIsAskedFor(p)
               \/ Decline(p) \/ Disable(p) \/ Remove(p)
        PROVE  (HistoryTypes /\ LockInv)'
    BY <2>6 DEF WrongPassword, PasswordSuffices, CodeIsAskedFor, Decline, Disable, Remove
  <2>7. ASSUME NEW p \in Requests,
               Accept(p) \/ MarkUsed(p) \/ SaveFails(p) \/ BeginConfirm(p)
        PROVE  (HistoryTypes /\ LockInv)'
    BY <2>7 DEF Accept, MarkUsed, SaveFails, BeginConfirm
  <2>8. ASSUME NEW p \in Requests, BeginSetup(p) \/ ShowSecret(p) \/ Confirm(p)
        PROVE  (HistoryTypes /\ LockInv)'
    BY <2>8 DEF BeginSetup, ShowSecret, Confirm
  <2>9. CASE Reset \/ NextStep
    BY <2>9 DEF Reset, NextStep, NewStep
  <2>10. CASE Tick
    BY <2>10 DEF Tick, NewStep, Locks, AtMost
  <2>11. CASE UNCHANGED vars
    BY <2>11 DEF vars
  <2> QED
    BY <2>1, <2>2, <2>3, <2>4, <2>5, <2>6, <2>7, <2>8, <2>9, <2>10, <2>11 DEF Next, Step
<1> QED
  BY <1>1, <1>2, MemoryInvariant, PTL DEF Spec

\* However many requests fail at once, an account that has failed Threshold times is
\* locked, for any threshold and any duration: lock_record_failure loses no failure.
THEOREM FailuresLock == Spec => []ThresholdLocks
<1>1. MemoryInv /\ LockInv => ThresholdLocks
  BY Assumptions, NoneAssumption DEF MemoryInv, TypeOK, LockInv, ThresholdLocks, Active, Locks
<1> QED
  BY <1>1, MemoryInvariant, LockInvariant, PTL

\* Fewer requests are under way the fewer there are.
LEMMA FewerUnderWay ==
  ASSUME UnderWay' \subseteq UnderWay
  PROVE  /\ Cardinality(UnderWay) \in Nat /\ Cardinality(UnderWay') \in Nat
         /\ Cardinality(UnderWay') <= Cardinality(UnderWay)
         /\ Cardinality(UnderWay) <= Cardinality(Requests)
<1>1. UnderWay \subseteq Requests
  BY DEF UnderWay
<1>2. IsFiniteSet(UnderWay)
  BY <1>1, Assumptions, FS_Subset
<1> QED
  BY <1>1, <1>2, Assumptions, FS_Subset, FS_CardinalityType

\* A failure that is counted takes its request from those under way.
LEMMA OneLessUnderWay ==
  ASSUME NEW p \in UnderWay, UnderWay' = UnderWay \ {p}
  PROVE  /\ Cardinality(UnderWay) \in Nat \ {0}
         /\ Cardinality(UnderWay') = Cardinality(UnderWay) - 1
         /\ Cardinality(UnderWay) <= Cardinality(Requests)
<1>1. UnderWay \subseteq Requests
  BY DEF UnderWay
<1>2. IsFiniteSet(UnderWay)
  BY <1>1, Assumptions, FS_Subset
<1>3. Cardinality(UnderWay) \in Nat \ {0}
  BY <1>2, FS_CardinalityType, FS_EmptySet
<1> QED
  BY <1>1, <1>2, <1>3, Assumptions, FS_Subset, FS_RemoveElement

\* No request joins those under way while the account is locked.
LEMMA LateInvariant == Spec => []LateInv
<1> USE Assumptions, NoneAssumption
<1>1. Cardinality(Requests) \in Nat \ {0}
  BY FS_CardinalityType, FS_EmptySet
<1>2. Init => LateInv
  BY <1>1 DEF Init, LateInv, Active
<1>3. /\ LateInv /\ HistoryTypes /\ LockInv
      /\ MemoryInv
      /\ [Next]_vars
      => LateInv'
  <2> SUFFICES ASSUME LateInv, HistoryTypes, LockInv, MemoryInv, [Next]_vars
               PROVE  LateInv'
    OBVIOUS
  <2> DEFINE Leaves == UnderWay' \subseteq UnderWay /\ late' \in {0, late} /\ (Active' => Active)
  <2>1. ASSUME Leaves PROVE LateInv'
    <3>1. Active' => late + Cardinality(UnderWay) < Cardinality(Requests)
      BY <2>1 DEF LateInv
    <3>2. late < Cardinality(Requests) /\ late' \in {0, late} /\ late \in Nat
      BY <2>1 DEF LateInv, HistoryTypes
    <3> QED
      BY <1>1, <2>1, <3>1, <3>2, FewerUnderWay DEF LateInv
  <2> HIDE DEF Leaves
  <2> USE DEF locking, factor, progress, Goto, MemoryInv, TypeOK
  <2>2. ASSUME NEW p \in Requests, LockCheck(p) PROVE LateInv'
    <3>1. CASE Active
      <4>1. Leaves
        BY <2>2, <3>1 DEF Leaves, LockCheck, AfterCheck, UnderWay, Active
      <4> QED
        BY <2>1, <4>1
    <3>2. CASE ~Active
      <4>1. ~Active' /\ late' = late
        BY <2>2, <3>2 DEF LockCheck, Active
      <4> QED
        BY <4>1 DEF LateInv
    <3> QED
      BY <3>1, <3>2
  <2>3. ASSUME NEW p \in Requests, TakeRow(p) PROVE Leaves
    BY <2>3 DEF Leaves, TakeRow, UnderWay, Active
  <2>4. ASSUME NEW p \in Requests, CountFailure(p) PROVE LateInv'
    <3>1. p \in UnderWay /\ UnderWay' = UnderWay \ {p}
      BY <2>4 DEF CountFailure, UnderWay
    <3>2. late' = IF Active THEN AtMost(Cardinality(Requests), late + 1) ELSE 0
      BY <2>4 DEF CountFailure
    <3>3. /\ Cardinality(UnderWay) \in Nat \ {0}
          /\ Cardinality(UnderWay') = Cardinality(UnderWay) - 1
          /\ Cardinality(UnderWay) <= Cardinality(Requests)
      BY <3>1, OneLessUnderWay
    <3>4. Active => late' = late + 1 /\ late + Cardinality(UnderWay) < Cardinality(Requests)
      BY <1>1, <3>2, <3>3, <3>1 DEF LateInv, HistoryTypes, AtMost
    <3>5. ~Active => late' = 0
      BY <3>2
    <3>6. Cardinality(UnderWay') < Cardinality(Requests) /\ late \in Nat
      BY <1>1, <3>3 DEF HistoryTypes
    <3> HIDE DEF MemoryInv, TypeOK
    <3> QED
      BY <1>1, <3>3, <3>4, <3>5, <3>6 DEF LateInv
  <2>5. ASSUME NEW p \in Requests, SignedIn(p) PROVE Leaves
    BY <2>5 DEF Leaves, SignedIn, Forget, UnderWay, Active
  <2>6. ASSUME Prune PROVE Leaves
    BY <2>6 DEF Leaves, Prune, Forget, UnderWay, Active
  <2>7. ASSUME NEW p \in Requests, WrongPassword(p) \/ PasswordSuffices(p) PROVE Leaves
    BY <2>7 DEF Leaves, WrongPassword, PasswordSuffices, UnderWay, Active
  <2>8. ASSUME NEW p \in Requests, CodeIsAskedFor(p) \/ Decline(p) PROVE Leaves
    BY <2>8 DEF Leaves, CodeIsAskedFor, Decline, UnderWay, Active
  <2>9. ASSUME NEW p \in Requests, Disable(p) \/ Remove(p) PROVE Leaves
    BY <2>9 DEF Leaves, Disable, Remove, UnderWay, Active
  <2>10. ASSUME NEW p \in Requests, Accept(p) \/ MarkUsed(p) \/ SaveFails(p) PROVE Leaves
    BY <2>10 DEF Leaves, Accept, MarkUsed, SaveFails, UnderWay, Active
  <2>11. ASSUME NEW p \in Requests, BeginSetup(p) \/ ShowSecret(p) PROVE Leaves
    BY <2>11 DEF Leaves, BeginSetup, ShowSecret, UnderWay, Active
  <2>12. ASSUME NEW p \in Requests, BeginConfirm(p) \/ Confirm(p) PROVE Leaves
    BY <2>12 DEF Leaves, BeginConfirm, Confirm, UnderWay, Active
  <2>13. ASSUME Reset \/ NextStep PROVE Leaves
    BY <2>13 DEF Leaves, Reset, NextStep, NewStep, UnderWay, Active
  <2>14. ASSUME Tick PROVE Leaves
    BY <2>14 DEF Leaves, Tick, NewStep, UnderWay, Active, Locks
  <2>15. ASSUME UNCHANGED vars PROVE Leaves
    BY <2>15 DEF Leaves, vars, UnderWay, Active
  <2> QED
    BY <2>1, <2>2, <2>3, <2>4, <2>5, <2>6, <2>7, <2>8, <2>9, <2>10, <2>11, <2>12,
       <2>13, <2>14, <2>15 DEF Next, Step
<1> QED
  BY <1>2, <1>3, MemoryInvariant, LockInvariant, PTL DEF Spec

\* However many requests run at once, fewer failures than there are requests are added
\* to a lock in force: those that had passed the check before.
THEOREM LockStopsFailures == Spec => []LateFailuresAreFew
<1>1. LateInv => LateFailuresAreFew
  BY DEF LateInv, LateFailuresAreFew
<1> QED
  BY <1>1, LateInvariant, PTL

-----------------------------------------------------------------------------
(* The second factor.                                                      *)

\* A code that is still to be used was used at most as often as a verification was
\* overtaken, and so was a time step's that is not spent.
FactorInv ==
  /\ overtaken \in 0 .. MaxUses /\ stepUsed \in 0 .. MaxUses
  /\ used \in [Codes -> 0 .. MaxUses]
  /\ device = None =>
       overtaken = 0 /\ ~swapped /\ stepUsed = 0 /\ \A c \in Codes : used[c] = 0
  /\ device # None =>
       /\ device.confirmed /\ ~swapped => device.secret = proven
       /\ stepUsed <= 1 + overtaken /\ (~device.spent => stepUsed <= overtaken)
       /\ \A c \in Codes : /\ used[c] <= 1 + overtaken
                           /\ c \in device.codes => used[c] <= overtaken

\* A code that is put back is paid for by the verification that was overtaken.
LEMMA FactorInvariant == Spec => []FactorInv
<1> USE Assumptions, NoneAssumption DEF FactorInv
<1>1. Init => FactorInv
  BY DEF Init
<1>2. FactorInv /\ MemoryInv /\ [Next]_vars => FactorInv'
  <2> SUFFICES ASSUME FactorInv, MemoryInv, [Next]_vars PROVE FactorInv'
    OBVIOUS
  <2> USE DEF locking, factor, progress, Goto, MemoryInv, TypeOK
  <2>1. ASSUME NEW p \in Requests, MarkUsed(p) PROVE FactorInv'
    <3>1. /\ device \in Devices /\ device' \in Devices
          /\ device'.confirmed /\ device'.secret = device.secret
      BY <2>1, MarkUsedSaves
    <3>2. read[p] \in Devices /\ read[p].confirmed /\ device.confirmed
      BY <2>1 DEF MarkUsed, StillThere, PickInv, ReadInv
    <3>3. UNCHANGED <<proven, swapped>>
      BY <2>1 DEF MarkUsed
    <3>4. CASE pick[p] \in Codes
      <4>1. /\ device' = [device EXCEPT !.codes = Without(read[p].codes, pick[p])]
            /\ used' = [used EXCEPT ![pick[p]] = AtMost(MaxUses, @ + 1)]
            /\ Overtaken(device.codes # read[p].codes)
            /\ stepUsed' = stepUsed
        BY <2>1, <3>4 DEF MarkUsed
      <4>2. pick[p] \in read[p].codes
        BY <2>1, <3>4 DEF MarkUsed, PickInv
      <4>3. device'.spent = device.spent /\ device'.codes = read[p].codes \ {pick[p]}
        BY <3>1, <4>1 DEF Without, Devices
      <4>4. CASE device.codes = read[p].codes
        <5>1. overtaken' = overtaken
          BY <4>1, <4>4 DEF Overtaken
        <5>2. used[pick[p]] <= overtaken
          BY <3>1, <3>4, <4>2, <4>4
        <5> HIDE DEF MemoryInv, TypeOK
        <5> QED
          BY <3>1, <3>3, <3>4, <4>1, <4>3, <4>4, <5>1, <5>2 DEF AtMost
      <4>5. CASE device.codes # read[p].codes
        <5>1. overtaken' = AtMost(MaxUses, overtaken + 1)
          BY <4>1, <4>5 DEF Overtaken
        <5> HIDE DEF MemoryInv, TypeOK
        <5> QED
          BY <3>1, <3>3, <3>4, <4>1, <4>3, <5>1 DEF AtMost
      <4> QED
        BY <4>4, <4>5
    <3>5. CASE pick[p] \notin Codes
      <4>1. /\ device' = [device EXCEPT !.spent = (pick[p] = "now")]
            /\ stepUsed' = IF pick[p] = "now" THEN AtMost(MaxUses, stepUsed + 1) ELSE stepUsed
            /\ Overtaken(device.spent # read[p].spent)
            /\ used' = used
        BY <2>1, <3>5 DEF MarkUsed
      <4>2. ~read[p].spent /\ device.spent \in BOOLEAN
        BY <2>1, <3>1, <3>2, <3>5 DEF MarkUsed, PickInv, Devices
      <4>3. device'.codes = device.codes /\ device'.spent = (pick[p] = "now")
        BY <3>1, <4>1 DEF Devices
      <4>4. overtaken' = IF device.spent THEN AtMost(MaxUses, overtaken + 1) ELSE overtaken
        <5>1. read[p].spent = FALSE
          BY <3>2, <4>2 DEF Devices
        <5> QED
          BY <4>1, <4>2, <5>1 DEF Overtaken
      <4> HIDE DEF MemoryInv, TypeOK
      <4>5. overtaken' \in 0 .. MaxUses /\ overtaken <= overtaken'
        BY <4>4 DEF AtMost
      <4>6. /\ stepUsed' \in 0 .. MaxUses
            /\ stepUsed' <= 1 + overtaken' /\ (~device'.spent => stepUsed' <= overtaken')
        <5>1. stepUsed <= 1 + overtaken /\ (~device.spent => stepUsed <= overtaken)
          BY <3>1
        <5>2. CASE pick[p] = "now"
          <6>1. device'.spent /\ stepUsed' = AtMost(MaxUses, stepUsed + 1)
            BY <4>1, <4>3, <5>2
          <6> QED
            BY <4>2, <4>4, <5>1, <6>1 DEF AtMost
        <5>3. CASE pick[p] # "now"
          <6>1. stepUsed' = stepUsed
            BY <4>1, <5>3
          <6> QED
            BY <4>2, <4>4, <5>1, <6>1 DEF AtMost
        <5> QED
          BY <5>2, <5>3
      <4>7. ASSUME NEW c \in Codes
            PROVE  used'[c] <= 1 + overtaken' /\ (c \in device'.codes => used'[c] <= overtaken')
        BY <3>1, <4>1, <4>3, <4>5
      <4>8. device # None /\ device' # None
        BY <3>1
      <4> QED
        BY <3>1, <3>3, <4>1, <4>5, <4>6, <4>7, <4>8
    <3> QED
      BY <3>4, <3>5
  <2>2. ASSUME NEW p \in Requests, BeginSetup(p) PROVE FactorInv'
    BY <2>2 DEF BeginSetup, NewDevice
  <2>3. ASSUME NEW p \in Requests, ShowSecret(p) PROVE FactorInv'
    <3>1. /\ device # None /\ device' \in Devices /\ device \in Devices
          /\ device'.confirmed = device.confirmed /\ device'.spent = device.spent
          /\ device'.codes = device.codes
      BY <2>3, ShowSecretSaves DEF ShowSecret, StillThere, Devices
    <3>2. swapped' = (swapped \/ (device.confirmed /\ ~read[p].confirmed))
      BY <2>3 DEF ShowSecret
    <3>3. device' # None /\ UNCHANGED <<proven, used, stepUsed, overtaken>>
      BY <2>3, <3>1 DEF ShowSecret, Devices
    <3>4. ~read[p].confirmed
      BY <2>3 DEF ShowSecret, PickInv
    <3> QED
      BY <3>1, <3>2, <3>3, <3>4
  <2>4. ASSUME NEW p \in Requests, Confirm(p) PROVE FactorInv'
    <3>1. /\ used' = [c \in Codes |-> 0] /\ stepUsed' = 1 /\ overtaken' = 0
          /\ proven' = read[p].secret /\ swapped' = (device.secret # read[p].secret)
      BY <2>4 DEF Confirm
    <3>2. device' \in Devices /\ device'.secret = device.secret /\ device'.spent
      <4>1. device \in Devices
            /\ device' = [device EXCEPT !.confirmed = TRUE, !.codes = Codes, !.spent = TRUE]
            /\ device' \in Devices
        BY <2>4, ConfirmSaves
      <4> QED
        BY <4>1 DEF Devices
    <3>3. ~swapped' => device'.secret = proven'
      BY <3>1, <3>2
    <3>4. device # None /\ device' # None
      BY <2>4, <3>2 DEF Confirm, StillThere
    <3>5. /\ stepUsed' = 1 /\ overtaken' = 0
          /\ used' \in [Codes -> 0 .. MaxUses] /\ \A c \in Codes : used'[c] = 0
      BY <3>1
    <3> HIDE DEF MemoryInv, TypeOK
    <3> QED
      BY <3>2, <3>3, <3>4, <3>5
  <2>5. CASE Reset \/ \E p \in Requests : Remove(p)
    BY <2>5 DEF Reset, Remove, Deleted
  <2>6. CASE Tick \/ NextStep
    <3>1. NewStep /\ stepUsed' = 0 /\ UNCHANGED <<used, overtaken, swapped, proven>>
      BY <2>6 DEF Tick, NextStep, NewStep
    <3>2. CASE device = None
      BY <3>1, <3>2 DEF NewStep
    <3>3. CASE device # None
      <4>1. device \in Devices /\ device' = [device EXCEPT !.spent = FALSE] /\ device' \in Devices
        BY <3>1, <3>3, DeviceEdits DEF NewStep
      <4> QED
        <5>1. /\ device'.secret = device.secret /\ device'.confirmed = device.confirmed
              /\ device'.codes = device.codes
          BY <4>1 DEF Devices
        <5>2. device' # None
          BY <4>1
        <5> HIDE DEF MemoryInv, TypeOK
        <5> QED
          BY <3>1, <3>3, <5>1, <5>2
    <3> QED
      BY <3>2, <3>3
  <2>7. ASSUME UNCHANGED factor PROVE FactorInv'
    BY <2>7
  <2>8. CASE \E p \in Requests :
               \/ LockCheck(p) \/ TakeRow(p) \/ CountFailure(p) \/ SignedIn(p)
               \/ WrongPassword(p) \/ PasswordSuffices(p) \/ CodeIsAskedFor(p)
               \/ Accept(p) \/ Decline(p) \/ SaveFails(p) \/ BeginConfirm(p) \/ Disable(p)
    BY <2>7, <2>8 DEF LockCheck, TakeRow, CountFailure, SignedIn, WrongPassword,
       PasswordSuffices, CodeIsAskedFor, Accept, Decline, SaveFails, BeginConfirm, Disable
  <2>9. CASE Prune \/ UNCHANGED vars
    BY <2>7, <2>9 DEF Prune, vars
  <2> QED
    BY <2>1, <2>2, <2>3, <2>4, <2>5, <2>6, <2>8, <2>9 DEF Next, Step
<1> QED
  BY <1>1, <1>2, MemoryInvariant, PTL DEF Spec

\* A confirmed authenticator has the secret that was proven, for any number of set-ups
\* and confirmations, unless one of the first replaced it under one of the second.
THEOREM SecretIsProven == Spec => []ConfirmedIsProven
<1>1. FactorInv => ConfirmedIsProven
  BY DEF FactorInv, ConfirmedIsProven
<1> QED
  BY <1>1, FactorInvariant, PTL

\* A code is accepted once, and once more at most for each verification that was
\* overtaken, for any recovery codes and any number of verifications at once.
THEOREM EachCodeOnce == Spec => []CodesWorkOnce
<1>1. FactorInv => CodesWorkOnce
  BY DEF FactorInv, CodesWorkOnce
<1> QED
  BY <1>1, FactorInvariant, PTL


=============================================================================
