------------------------------- MODULE SignIn -------------------------------
(***************************************************************************)
(* Signing in to one account of the panel (apps/accounts/apis.py), the     *)
(* lock that follows repeated failures and the account's second factor     *)
(* (apps/security/services.py, models.py), and the pruning of old locks    *)
(* (tasks.py).                                                             *)
(*                                                                         *)
(* The lock's row is written under a row lock.  The second factor's row is *)
(* read and saved in two steps, with others in between.  A request that is *)
(* refused by its address, or for a disabled account, changes nothing.     *)
(*                                                                         *)
(* Stamps are relative to now, in ticks: a lock's end is that many ticks   *)
(* ahead.  The last time step that was used is kept as whether it is the   *)
(* present one.                                                            *)
(***************************************************************************)
EXTENDS Integers, FiniteSets

CONSTANTS
  Requests,    \* that may run at once
  Threshold,   \* lockout_threshold; not 0, which turns locking off
  Minutes,     \* lockout_minutes, in ticks
  Week,        \* how long an expired lock is kept, in ticks
  Codes,       \* the recovery codes of a device
  None,
  MaxCount,    \* bound: failures are not told apart beyond it
  MaxUses,     \* bound: nor are uses of a code
  MaxDevices,  \* bound: devices that are made
  MaxSetups    \* bound: secrets that are shown

ASSUME Assumptions ==
  /\ IsFiniteSet(Requests) /\ Requests # {}
  /\ Threshold \in Nat \ {0} /\ Minutes \in Nat \ {0} /\ Week \in Nat \ {0}
  /\ MaxCount \in Nat /\ MaxCount > Threshold
  /\ MaxUses \in Nat /\ MaxUses >= 2
  /\ MaxDevices \in Nat /\ MaxSetups \in Nat
  /\ Codes \cap {None, "now", "past"} = {}

VARIABLES
  lock,       \* the account's AccountLock, or None
  holder,     \* the request that holds its row
  tally,      \* the count a request has read there
  device,     \* the account's TotpDevice, or None
  made,       \* how many devices there have been: the newest one's key
  shown,      \* how many secrets have been shown: the newest one
  pc,         \* what a request does next
  goal,       \* what it has its code verified for
  read,       \* the device it has read
  pick,       \* the code it is about to mark as used
  failures,   \* history: failures since the count was last started
  late,       \* history: how many of them were added to a lock in force
  proven,     \* history: the secret of the last confirmed set-up
  used,       \* history: how often each recovery code was accepted
  stepUsed,   \* history: how many of the authenticator's codes this step accepted
  overtaken,  \* history: how many verifications, since the device was confirmed,
              \* saved a column that had changed since they read it
  swapped     \* history: the device's secret was replaced after it had been read to
              \* be confirmed

locking  == <<lock, holder, tally, failures, late>>
factor   == <<device, made, shown, proven, used, stepUsed, overtaken, swapped>>
progress == <<pc, goal, read, pick>>
vars     == <<locking, factor, progress>>

-----------------------------------------------------------------------------

Locks   == [count : 0 .. MaxCount, until : -Week .. Minutes, age : 0 .. Minutes + 1]
Devices == [key : 1 .. MaxDevices, secret : 0 .. MaxSetups, confirmed : BOOLEAN,
            codes : SUBSET Codes, spent : BOOLEAN]

ASSUME NoneAssumption == None \notin Locks \cup Devices \cup Requests

TypeOK ==
  /\ lock \in Locks \cup {None}
  /\ holder \in Requests \cup {None}
  /\ holder # None => lock # None /\ pc[holder] = "counting"
  /\ tally \in [Requests -> 0 .. MaxCount]
  /\ device \in Devices \cup {None}
  /\ device # None /\ ~device.confirmed => device.codes = {} /\ ~device.spent
  /\ made \in 0 .. MaxDevices /\ shown \in 0 .. MaxSetups /\ proven \in 0 .. MaxSetups
  /\ pc \in [Requests -> {"free", "password", "verify", "save", "failed", "counting",
                          "welcome", "remove", "setup", "confirm"}]
  /\ goal \in [Requests -> {"sign_in", "disable"}]
  /\ read \in [Requests -> Devices \cup {None}]
  /\ pick \in [Requests -> Codes \cup {None, "now", "past"}]

Init ==
  /\ lock = None /\ holder = None /\ tally = [p \in Requests |-> 0]
  /\ device = None /\ made = 0 /\ shown = 0
  /\ pc = [p \in Requests |-> "free"]
  /\ goal = [p \in Requests |-> "sign_in"]
  /\ read = [p \in Requests |-> None]
  /\ pick = [p \in Requests |-> None]
  /\ failures = 0 /\ late = 0 /\ proven = 0
  /\ used = [c \in Codes |-> 0] /\ stepUsed = 0 /\ overtaken = 0 /\ swapped = FALSE

AtMost(bound, n) == IF n > bound THEN bound ELSE n

Goto(p, from, to) == pc[p] = from /\ pc' = [pc EXCEPT ![p] = to]

-----------------------------------------------------------------------------
(* The lock.                                                               *)

Active == lock # None /\ lock.until > 0

\* Mutants: an account is not looked up before the password is; a refused request
\* counts as a failure.
CheckDropped  == "password"
RefusedCounts == IF Active THEN "failed" ELSE "password"

\* lock_check
AfterCheck == IF Active THEN "free" ELSE "password"

LockCheck(p) ==
  /\ Goto(p, "free", AfterCheck)
  /\ goal' = [goal EXCEPT ![p] = "sign_in"]
  /\ UNCHANGED <<locking, factor, read, pick>>

\* Mutant: the row is read without select_for_update.
NoRowLock == TRUE

\* Nobody holds the row.
RowIsFree == holder = None

\* lock_record_failure takes the row, or makes one.
TakeRow(p) ==
  /\ RowIsFree
  /\ Goto(p, "failed", "counting")
  /\ holder' = p
  /\ lock' = IF lock = None THEN [count |-> 0, until |-> 0, age |-> 0] ELSE lock
  /\ failures' = IF lock = None THEN 0 ELSE failures
  /\ tally' = [tally EXCEPT ![p] = lock'.count]
  /\ UNCHANGED <<late, factor, goal, read, pick>>

\* A count not added to for longer than a lock lasts may be started again.  A tick is
\* coarser than the stamps, and does not tell whether it is longer if it is equal.
MayRestart   == ~Active /\ lock.age >= Minutes
MustRestart  == ~Active /\ lock.age > Minutes

\* Mutant: a lock in force is prolonged by as much again.
Stacked == Minutes + (IF lock.until > 0 THEN lock.until ELSE 0)

\* How long the account is locked from now.
LockFor == Minutes

\* The rest of lock_record_failure.
CountFailure(p) ==
  /\ lock # None
  /\ Goto(p, "counting", "free")
  /\ \E restart \in BOOLEAN :
       /\ restart => MayRestart
       /\ MustRestart => restart
       /\ LET count == AtMost(MaxCount, (IF restart THEN 0 ELSE tally[p]) + 1)
          IN  lock' = [count |-> count,
                       until |-> IF count >= Threshold THEN LockFor ELSE lock.until,
                       age   |-> 0]
       /\ failures' = AtMost(MaxCount, (IF restart THEN 0 ELSE failures) + 1)
  /\ late' = IF Active THEN AtMost(Cardinality(Requests), late + 1) ELSE 0
  /\ holder' = None
  /\ tally' = [tally EXCEPT ![p] = 0]
  /\ UNCHANGED <<factor, goal, read, pick>>

Forget == lock' = None /\ failures' = 0 /\ late' = 0

\* lock_clear, at the end of a sign-in.
SignedIn(p) ==
  /\ RowIsFree
  /\ Goto(p, "welcome", "free")
  /\ Forget
  /\ UNCHANGED <<holder, tally, factor, goal, read, pick>>

\* security.prune_history
Prune ==
  /\ lock # None /\ lock.until <= -Week
  /\ RowIsFree
  /\ Forget
  /\ UNCHANGED <<holder, tally, factor, progress>>

-----------------------------------------------------------------------------
(* The password and the second factor.                                     *)

Confirmed == device # None /\ device.confirmed

WrongPassword(p) ==
  /\ Goto(p, "password", "failed")
  /\ UNCHANGED <<locking, factor, goal, read, pick>>

\* The account has no second factor yet.
PasswordSuffices(p) ==
  /\ ~Confirmed
  /\ Goto(p, "password", "welcome")
  /\ UNCHANGED <<locking, factor, goal, read, pick>>

\* The panel is to ask for a code, or it was given with the password.
CodeIsAskedFor(p) ==
  /\ Confirmed
  /\ \E next \in {"free", "verify"} : Goto(p, "password", next)
  /\ UNCHANGED <<locking, factor, goal, read, pick>>

\* totp_verify reads the device: the code is a recovery code it has, or its
\* authenticator's, for this time step or one beside it, and the first in this step.
Accept(p) ==
  /\ Confirmed
  /\ Goto(p, "verify", "save")
  /\ read' = [read EXCEPT ![p] = device]
  /\ \/ \E c \in device.codes : pick' = [pick EXCEPT ![p] = c]
     \/ ~device.spent /\ pick' = [pick EXCEPT ![p] = "now"]
  /\ UNCHANGED <<locking, factor, goal>>

\* It is neither, or there is no confirmed device any more.
Decline(p) ==
  /\ Goto(p, "verify", IF goal[p] = "sign_in" THEN "failed" ELSE "free")
  /\ UNCHANGED <<locking, factor, goal, read, pick>>

\* The row that was read is still there.  Otherwise saving it fails.
StillThere(p) == device # None /\ device.key = read[p].key

\* A verification's save, and whether another has changed the column that it saves.
Overtaken(changed) ==
  overtaken' = IF changed THEN AtMost(MaxUses, overtaken + 1) ELSE overtaken

\* A request lets go of what it read.
Drops(p) == read' = [read EXCEPT ![p] = None] /\ pick' = [pick EXCEPT ![p] = None]

\* Mutant: a recovery code is not taken out.
Kept(codes, c) == codes

Without(codes, c) == codes \ {c}

\* totp_verify saves that the code is used.
MarkUsed(p) ==
  /\ Goto(p, "save", IF goal[p] = "sign_in" THEN "welcome" ELSE "remove")
  /\ StillThere(p)
  /\ Drops(p)
  /\ IF pick[p] \in Codes
     THEN /\ device' = [device EXCEPT !.codes = Without(read[p].codes, pick[p])]
          /\ used' = [used EXCEPT ![pick[p]] = AtMost(MaxUses, @ + 1)]
          /\ Overtaken(device.codes # read[p].codes)
          /\ UNCHANGED stepUsed
     ELSE /\ device' = [device EXCEPT !.spent = pick[p] = "now"]
          /\ stepUsed' = IF pick[p] = "now" THEN AtMost(MaxUses, stepUsed + 1) ELSE stepUsed
          /\ Overtaken(device.spent # read[p].spent)
          /\ UNCHANGED used
  /\ UNCHANGED <<locking, made, shown, proven, swapped, goal>>

\* The device is not there any more: an error, and no failure.
SaveFails(p) ==
  /\ pc[p] \in {"save", "setup", "confirm"} /\ ~StillThere(p)
  /\ pc' = [pc EXCEPT ![p] = "free"]
  /\ Drops(p)
  /\ UNCHANGED <<locking, factor, goal>>

-----------------------------------------------------------------------------
(* Setting up the second factor, and removing it.                          *)

\* Mutant: a confirmed device is set up again.
AlwaysMay(d) == TRUE

\* An authenticator that is already set up has to be removed first.
MaySetUp(d) == ~d.confirmed

NewDevice == [key |-> made + 1, secret |-> 0, confirmed |-> FALSE, codes |-> {},
              spent |-> FALSE]

\* totp_begin_enrollment, up to the check.
BeginSetup(p) ==
  /\ shown < MaxSetups
  /\ Goto(p, "free", "setup")
  /\ IF device = None
     THEN made < MaxDevices /\ device' = NewDevice /\ made' = made + 1
     ELSE MaySetUp(device) /\ UNCHANGED <<device, made>>
  /\ read' = [read EXCEPT ![p] = device']
  /\ UNCHANGED <<locking, shown, proven, used, stepUsed, overtaken, swapped, goal, pick>>

\* Its save of a new secret, which is shown.
ShowSecret(p) ==
  /\ shown < MaxSetups
  /\ Goto(p, "setup", "free")
  /\ StillThere(p)
  /\ shown' = shown + 1
  /\ device' = [device EXCEPT !.secret = shown']
  /\ swapped' = (swapped \/ (device.confirmed /\ ~read[p].confirmed))
  /\ Drops(p)
  /\ UNCHANGED <<locking, made, proven, used, stepUsed, overtaken, goal>>

\* totp_confirm_enrollment, with a code of the secret it reads.
BeginConfirm(p) ==
  /\ device # None /\ ~device.confirmed /\ device.secret > 0
  /\ Goto(p, "free", "confirm")
  /\ read' = [read EXCEPT ![p] = device]
  /\ UNCHANGED <<locking, factor, goal, pick>>

\* Its save.
Confirm(p) ==
  /\ Goto(p, "confirm", "free")
  /\ StillThere(p)
  /\ device' = [device EXCEPT !.confirmed = TRUE, !.codes = Codes, !.spent = TRUE]
  /\ proven' = read[p].secret
  /\ used' = [c \in Codes |-> 0] /\ stepUsed' = 1 /\ overtaken' = 0
  /\ swapped' = (device.secret # read[p].secret)
  /\ Drops(p)
  /\ UNCHANGED <<locking, made, shown, goal>>

\* totp_disable, with the right password.
Disable(p) ==
  /\ Goto(p, "free", "verify")
  /\ goal' = [goal EXCEPT ![p] = "disable"]
  /\ UNCHANGED <<locking, factor, read, pick>>

Deleted ==
  /\ device' = None
  /\ proven' = 0 /\ used' = [c \in Codes |-> 0] /\ stepUsed' = 0
  /\ overtaken' = 0 /\ swapped' = FALSE
  /\ UNCHANGED <<made, shown>>

\* The end of totp_disable.
Remove(p) ==
  /\ Goto(p, "remove", "free")
  /\ Deleted
  /\ UNCHANGED <<locking, goal, read, pick>>

\* totp_reset_for_user, by another operator.
Reset ==
  /\ device # None
  /\ Deleted
  /\ UNCHANGED <<locking, progress>>

-----------------------------------------------------------------------------
(* Time.                                                                   *)

NewStep ==
  /\ device' = IF device = None THEN None ELSE [device EXCEPT !.spent = FALSE]
  /\ read' = [p \in Requests |->
                IF read[p] = None THEN None ELSE [read[p] EXCEPT !.spent = FALSE]]
  /\ pick' = [p \in Requests |-> IF pick[p] = "now" THEN "past" ELSE pick[p]]
  /\ stepUsed' = 0
  /\ UNCHANGED <<made, shown, proven, used, overtaken, swapped, pc, goal>>

\* The next thirty seconds of the authenticator's.
NextStep == NewStep /\ UNCHANGED locking

Tick ==
  /\ NewStep
  /\ lock' = IF lock = None THEN None
             ELSE [lock EXCEPT !.until = IF @ > -Week THEN @ - 1 ELSE @,
                               !.age = AtMost(Minutes + 1, @ + 1)]
  /\ UNCHANGED <<holder, tally, failures, late>>

-----------------------------------------------------------------------------

\* What a request that has begun does.
Step(p) ==
  \/ WrongPassword(p) \/ PasswordSuffices(p) \/ CodeIsAskedFor(p)
  \/ Accept(p) \/ Decline(p) \/ MarkUsed(p) \/ SaveFails(p)
  \/ TakeRow(p) \/ CountFailure(p) \/ SignedIn(p)
  \/ ShowSecret(p) \/ Confirm(p) \/ Remove(p)

Next ==
  \/ \E p \in Requests :
       LockCheck(p) \/ BeginSetup(p) \/ BeginConfirm(p) \/ Disable(p) \/ Step(p)
  \/ Prune
  \/ Reset
  \/ NextStep
  \/ Tick

Spec == Init /\ [][Next]_vars

\* Time passes.
FairSpec == Spec /\ WF_vars(Tick)

-----------------------------------------------------------------------------

\* However many requests fail at once, an account that has failed Threshold times since
\* its count was started is locked while the last failure is younger than a lock lasts.
ThresholdLocks ==
  lock # None /\ failures >= Threshold /\ lock.age < Minutes => Active

\* What fails on an account that is locked had begun before: no more than the other
\* requests that were under way.
LateFailuresAreFew == late < Cardinality(Requests)

\* A confirmed authenticator has the secret whose code was given to confirm it, in
\* however many tabs it is set up and confirmed; unless a set-up replaced the secret
\* between a confirmation's read and its save, or saved over a confirmation.
ConfirmedIsProven ==
  device # None /\ device.confirmed /\ ~swapped => device.secret = proven

\* A recovery code is accepted once, and in one time step one of the authenticator's
\* codes; and once more at most for each verification that was overtaken by another.
CodesWorkOnce ==
  device # None => /\ stepUsed <= 1 + overtaken
                   /\ \A c \in Codes : used[c] <= 1 + overtaken

\* No lock lasts for ever, however often the account is tried while it is locked.
LockEnds == []<>~Active

=============================================================================
