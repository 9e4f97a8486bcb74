---------------------------- MODULE Certificates ----------------------------
(***************************************************************************)
(* Certificates (apps/certificates/services.py and tasks.py): the row, the *)
(* files and the TLS columns of a domain, under the tasks and endpoints    *)
(* that change them.                                                       *)
(*                                                                         *)
(* certbot runs for minutes between two writes of a row, nothing locks the *)
(* row meanwhile, and a save of a row that has been deleted raises.  Rows  *)
(* are read and written back within a step where only database statements  *)
(* lie between.                                                            *)
(*                                                                         *)
(* The material in a file is a version; age says how near its expiry is.   *)
(* As in HealthDrain a deploy is one step.                                 *)
(***************************************************************************)
EXTENDS Naturals, Functions

CONSTANTS
  Domains,
  Workers,     \* run what the panel asks for: issue, renew, self-signed, import
  Sweepers,    \* run the daily renewals
  Syncers,     \* run the metadata synchronisation
  Deleters,    \* web processes that delete certificates
  Faults,
  Editable,    \* bound: domains whose auto_renew is edited
  MaxVersion,  \* bound: versions of material ever made
  MaxPk        \* bound: rows ever created for a domain

Procs == Workers \cup Sweepers \cup Syncers \cup Deleters

\* host_renewal  a certbot outside the system renews
\* task_death    a task is killed, or ended at its time limit
ASSUME FaultsAssumption == Faults \subseteq {"host_renewal", "task_death"}

\* A process runs one kind of issuance: a task of its own, or part of a sweep; and
\* deletions are for the web.
ASSUME RolesAssumption == Workers \cap (Sweepers \cup Deleters) = {}

ASSUME BoundsAssumption ==
  Editable \subseteq Domains /\ MaxVersion \in Nat /\ MaxPk \in Nat \ {0}

VARIABLES
  cert,     \* the certificate row of each domain
  site,     \* the TLS columns of each domain's row
  disk,     \* the versions in certbot's live directory and in Nginx's own
  age,      \* of each version: "fresh", "due" (within 30 days) or "expired"
  made,     \* how many versions there are
  pks,      \* how many rows have been created for each domain
  loaded,   \* the version Nginx serves for each domain, or None
  owed,     \* a deploy has been asked for and has not rendered yet
  unasked,  \* versions nobody asks a deploy for: made outside the system, or by
            \* a task that raised or died
  adrift,   \* domains whose row is busy since a task at it died, or since the
            \* synchronisation wrote so
  pc,       \* where each process has got to
  on,       \* the domain it works on
  mine,     \* the row it has in memory
  todo,     \* the rows a sweep or a synchronisation has still to visit
  renewed   \* the domains a sweep has renewed

rows  == <<cert, site, pks, adrift>>
files == <<disk, age, made, unasked>>
nginx == <<loaded, owed>>
procs == <<pc, on, mine, todo, renewed>>
vars  == <<rows, files, nginx, procs>>

-----------------------------------------------------------------------------
(* Types.                                                                  *)

None == 0

Versions == 1 .. MaxVersion
Places   == {"none", "live", "ssl"}
Statuses == {"pending", "requesting", "active", "renewing", "expired", "failed"}
Busy     == {"requesting", "renewing"}

\* A row; pk 0 is no row, issuer "own" is self-signed or imported.
Certs == [pk : 0 .. MaxPk, issuer : {"acme", "own"},
          status : Statuses, at : Places, auto : BOOLEAN,
          noted : Versions \cup {None}]

\* The part of a row that a process writes back.
Copies == [pk : 0 .. MaxPk, status : Statuses, at : Places]

NoCert == [pk |-> 0, issuer |-> "acme", status |-> "pending", at |-> "none",
           auto |-> TRUE, noted |-> None]

Steps == {"idle", "certbot", "record", "save", "note", "attach", "sweep",
          "request", "sync", "drop"}

Partial(S, T) == UNION {[R -> T] : R \in SUBSET S}

Nothing == [x \in {} |-> x]

TypeOK ==
  /\ cert \in [Domains -> Certs]
  /\ \A d \in Domains :
       cert[d].status \in {"active", "renewing", "expired"} => cert[d].at # "none"
  /\ site \in [Domains -> [ssl : BOOLEAN, at : Places]]
  /\ disk \in [Domains -> [{"live", "ssl"} -> Versions \cup {None}]]
  /\ age \in [Versions -> {"fresh", "due", "expired"}]
  /\ made \in 0 .. MaxVersion
  /\ pks \in [Domains -> 0 .. MaxPk]
  /\ loaded \in [Domains -> Versions \cup {None}]
  /\ owed \in BOOLEAN
  /\ unasked \subseteq Versions
  /\ adrift \subseteq Domains
  /\ pc \in [Procs -> Steps]
  /\ on \in [Procs -> Domains]
  /\ mine \in [Procs -> Copies]
  /\ todo \in [Procs -> Partial(Domains, Copies)]
  /\ renewed \in [Procs -> SUBSET Domains]

Exists(d) == cert[d].pk # 0

CopyOf(row) == [pk |-> row.pk, status |-> row.status, at |-> row.at]

Init ==
  /\ cert = [d \in Domains |-> NoCert]
  /\ site = [d \in Domains |-> [ssl |-> FALSE, at |-> "none"]]
  /\ disk = [d \in Domains |-> [place \in {"live", "ssl"} |-> None]]
  /\ age = [v \in Versions |-> "fresh"]
  /\ made = 0
  /\ pks = [d \in Domains |-> 0]
  /\ loaded = [d \in Domains |-> None]
  /\ owed = FALSE
  /\ unasked = {}
  /\ adrift = {}
  /\ pc = [p \in Procs |-> "idle"]
  /\ \E d \in Domains : on = [p \in Procs |-> d]
  /\ mine = [p \in Procs |-> CopyOf(NoCert)]
  /\ todo = [p \in Procs |-> Nothing]
  /\ renewed = [p \in Procs |-> {}]

-----------------------------------------------------------------------------
(* Steps of the processes.                                                 *)

Goto(p, step) == pc' = [pc EXCEPT ![p] = step]

\* A process ends, by itself or with an exception: what it had in memory is gone.
Stop(p) ==
  /\ Goto(p, "idle")
  /\ mine' = [mine EXCEPT ![p] = CopyOf(NoCert)]
  /\ todo' = [todo EXCEPT ![p] = Nothing]
  /\ renewed' = [renewed EXCEPT ![p] = {}]
  /\ UNCHANGED on

IsThere(d, copy) == cert[d].pk = copy.pk

\* certificate_ensure
Ensured(d) == IF Exists(d) THEN cert[d] ELSE [NoCert EXCEPT !.pk = pks[d] + 1]

\* The row an ensured one becomes.
SaveEnsured(d, row) ==
  /\ cert' = [cert EXCEPT ![d] = row]
  /\ pks' = IF Exists(d) THEN pks ELSE [pks EXCEPT ![d] = @ + 1]
  /\ adrift' = adrift \ {d}
  /\ UNCHANGED site

Write(d, row) ==
  /\ cert' = [cert EXCEPT ![d] = row]
  /\ adrift' = adrift \ {d}
  /\ UNCHANGED <<site, pks>>

\* New material in a file.
MakeVersion(d, place) ==
  /\ made < MaxVersion
  /\ made' = made + 1
  /\ disk' = [disk EXCEPT ![d][place] = made + 1]

-----------------------------------------------------------------------------
(* certificate_issue_acme, in a task of its own or in a sweep.             *)

\* The row while certbot runs.
Marked(row) ==
  [row EXCEPT !.issuer = "acme",
              !.status = IF row.status = "active" THEN "renewing" ELSE "requesting"]

Mark(p, d) ==
  LET row == Marked(Ensured(d))
  IN  /\ SaveEnsured(d, row)
      /\ Goto(p, "certbot")
      /\ on' = [on EXCEPT ![p] = d]
      /\ mine' = [mine EXCEPT ![p] = CopyOf(row)]

\* async_certificate_issue, and async_certificate_renew of an ACME certificate.
StartIssue(p, d) ==
  /\ pc[p] = "idle"
  /\ Mark(p, d)
  /\ UNCHANGED <<files, nginx, todo, renewed>>

\* certbot has new material in the live directory, or keeps what is far from expiry.
CertbotSucceeds(p) ==
  /\ pc[p] = "certbot"
  /\ \/ MakeVersion(on[p], "live")
     \/ /\ disk[on[p]]["live"] # None /\ age[disk[on[p]]["live"]] = "fresh"
        /\ UNCHANGED <<disk, made>>
  /\ Goto(p, "record")
  /\ UNCHANGED <<rows, age, unasked, nginx, on, mine, todo, renewed>>

\* Mutant: the failure is only logged.
StillBusy(row) == row

\* Mutant: the failure is taken for a success.
TakenForIssued(row) == [row EXCEPT !.status = "active", !.at = "live"]

Failed(row) == [row EXCEPT !.status = "failed"]

\* The rest of a task after a certificate it could not get.
AfterFailure(p) ==
  IF p \in Sweepers
  THEN Goto(p, "sweep") /\ UNCHANGED <<on, mine, todo, renewed>>
  ELSE Stop(p)

CertbotFails(p) ==
  /\ pc[p] = "certbot"
  /\ IsThere(on[p], mine[p])
  /\ Write(on[p], Failed(cert[on[p]]))
  /\ AfterFailure(p)
  /\ UNCHANGED <<files, nginx>>

\* Mutant: the paths are not among the saved columns.
WithoutPaths(row) == [row EXCEPT !.status = "active"]

Recorded(row) == [row EXCEPT !.status = "active", !.at = "live"]

Record(p) ==
  /\ pc[p] = "record"
  /\ IsThere(on[p], mine[p])
  /\ Write(on[p], Recorded(cert[on[p]]))
  /\ mine' = [mine EXCEPT ![p] = Recorded(@)]
  /\ Goto(p, "note")
  /\ UNCHANGED <<files, nginx, on, todo, renewed>>

\* certificate_sync_metadata: the row takes its dates from the file, and its
\* status from the copy in memory unless the dates say otherwise.
StatusNoted(d, copy) ==
  IF age[disk[d][copy.at]] = "expired" THEN "expired" ELSE copy.status

Noted(d, copy) ==
  [cert[d] EXCEPT !.noted = disk[d][copy.at], !.status = StatusNoted(d, copy)]

Note(p) ==
  /\ pc[p] = "note"
  /\ IsThere(on[p], mine[p])
  /\ Write(on[p], Noted(on[p], mine[p]))
  /\ mine' = [mine EXCEPT ![p].status = StatusNoted(on[p], mine[p])]
  /\ Goto(p, "attach")
  /\ UNCHANGED <<files, nginx, on, todo, renewed>>

\* Mutant: a domain that is on TLS already needs no deploy.
OnlyIfNew(p) == mine[p].status = "active" /\ ~site[on[p]].ssl

\* if certificate.status == ACTIVE
AsksForDeploy(p) == mine[p].status = "active"

\* _attach_to_domain, and what the task does with the certificate it gets back.
Attach(p) ==
  /\ pc[p] = "attach"
  /\ site' = [site EXCEPT ![on[p]] = [ssl |-> TRUE, at |-> mine[p].at]]
  /\ IF p \in Sweepers
     THEN /\ Goto(p, "sweep")
          /\ renewed' = IF AsksForDeploy(p)
                        THEN [renewed EXCEPT ![p] = @ \cup {on[p]}] ELSE renewed
          /\ UNCHANGED <<on, mine, todo>>
     ELSE IF mine[p].at = "ssl" \/ AsksForDeploy(p)
     THEN /\ Goto(p, "request")
          /\ UNCHANGED <<on, mine, todo, renewed>>
     ELSE Stop(p)
  /\ UNCHANGED <<cert, pks, adrift, files, nginx>>

\* request_config_deploy at the end of a task or an endpoint.
Request(p) ==
  /\ pc[p] = "request"
  /\ owed' = TRUE
  /\ Stop(p)
  /\ UNCHANGED <<rows, files, loaded>>

UnderWay(p) == pc[p] \in {"certbot", "record"}

\* Where the material is that a process has had made, or has kept.
PlaceInHand(p) ==
  CASE pc[p] = "record" -> "live"
    [] pc[p] = "save"   -> "ssl"
    [] OTHER            -> mine[p].at

\* The material for which a process that ends early has not asked a deploy.
Dropped(p) ==
  {disk[d]["live"] : d \in renewed[p]}
    \cup {disk[on[p]][place] : place \in {x \in {"live", "ssl"} :
            pc[p] \in {"record", "save", "note", "attach", "request"} /\ x = PlaceInHand(p)}}

\* save(update_fields=...) of a row that is gone raises, and ends the whole task.
Raise(p) ==
  /\ pc[p] \in {"certbot", "record", "note"}
  /\ ~IsThere(on[p], mine[p])
  /\ unasked' = unasked \cup Dropped(p)
  /\ Stop(p)
  /\ UNCHANGED <<rows, disk, age, made, nginx>>

\* A task ends where it is: its worker is killed, or it is past its time limit.  It
\* was acknowledged when it was received, so nothing runs it again.
TaskDies(p) ==
  /\ "task_death" \in Faults
  /\ \/ pc[p] \in {"certbot", "record", "save", "note", "attach", "sweep", "sync"}
     \/ pc[p] = "request" /\ p \in Workers
  /\ unasked' = unasked \cup Dropped(p)
  /\ adrift' = IF UnderWay(p) /\ cert[on[p]].status \in Busy
               THEN adrift \cup {on[p]} ELSE adrift
  /\ Stop(p)
  /\ UNCHANGED <<cert, site, pks, disk, age, made, nginx>>

-----------------------------------------------------------------------------
(* Self-signed and imported certificates.                                  *)

\* The files are written first.
StartOwn(p, d) ==
  /\ pc[p] = "idle"
  /\ MakeVersion(d, "ssl")
  /\ Goto(p, "save")
  /\ on' = [on EXCEPT ![p] = d]
  /\ UNCHANGED <<rows, age, unasked, nginx, mine, todo, renewed>>

\* The row is read and saved with all its columns.
SaveOwn(p) ==
  /\ pc[p] = "save"
  /\ LET row == [Ensured(on[p]) EXCEPT !.issuer = "own", !.status = "active",
                                       !.at = "ssl", !.auto = FALSE]
     IN  /\ SaveEnsured(on[p], row)
         /\ mine' = [mine EXCEPT ![p] = CopyOf(row)]
  /\ Goto(p, "note")
  /\ UNCHANGED <<files, nginx, on, todo, renewed>>

-----------------------------------------------------------------------------
(* The daily renewals.                                                     *)

\* Mutant: a certificate that failed once is not tried again.
IsDueIfActive(d) ==
  cert[d].status = "active" /\ cert[d].noted # None /\ age[cert[d].noted] # "fresh"

\* The remaining days of is_due_for_renewal.
IsDue(d) ==
  IF cert[d].noted = None THEN cert[d].status \in {"pending", "failed"}
                          ELSE age[cert[d].noted] # "fresh"

\* certificate_list_due_for_renewal with is_due_for_renewal.
DueForRenewal ==
  {d \in Domains : /\ Exists(d) /\ cert[d].auto /\ cert[d].issuer = "acme"
                   /\ cert[d].status \notin Busy
                   /\ IsDue(d)}

Copied(S) == [d \in S |-> CopyOf(cert[d])]

StartSweep(p) ==
  /\ pc[p] = "idle"
  /\ DueForRenewal # {}
  /\ todo' = [todo EXCEPT ![p] = Copied(DueForRenewal)]
  /\ Goto(p, "sweep")
  /\ UNCHANGED <<rows, files, nginx, on, mine, renewed>>

\* The issuer is that of the row as the sweep read it; certificate_issue_acme
\* reads the row again, and creates one if there is none.
RenewNext(p, d) ==
  /\ pc[p] = "sweep"
  /\ d \in DOMAIN todo[p]
  /\ Mark(p, d)
  /\ todo' = [todo EXCEPT ![p] = Restrict(@, DOMAIN @ \ {d})]
  /\ UNCHANGED <<files, nginx, renewed>>

EndSweep(p) ==
  /\ pc[p] = "sweep"
  /\ DOMAIN todo[p] = {}
  /\ owed' = (owed \/ renewed[p] # {})
  /\ Stop(p)
  /\ UNCHANGED <<rows, files, loaded>>

-----------------------------------------------------------------------------
(* The synchronisation with the files.                                     *)

\* Mutant: only certificates in use are looked at.
HasPathAndIsActive(d) == cert[d].at # "none" /\ cert[d].status = "active"

HasPath(d) == cert[d].at # "none"

StartSync(p) ==
  /\ pc[p] = "idle"
  /\ \E d \in Domains : HasPath(d)
  /\ todo' = [todo EXCEPT ![p] = Copied({d \in Domains : HasPath(d)})]
  /\ Goto(p, "sync")
  /\ UNCHANGED <<rows, files, nginx, on, mine, renewed>>

SyncNext(p, d) ==
  /\ pc[p] = "sync"
  /\ d \in DOMAIN todo[p]
  /\ IF IsThere(d, todo[p][d])
     THEN /\ cert' = [cert EXCEPT ![d] = Noted(d, todo[p][d])]
          /\ adrift' = IF StatusNoted(d, todo[p][d]) \in Busy
                       THEN adrift \cup {d} ELSE adrift \ {d}
          /\ todo' = [todo EXCEPT ![p] = Restrict(@, DOMAIN @ \ {d})]
          /\ UNCHANGED <<site, pks, pc, on, mine, renewed>>
     ELSE /\ Stop(p)
          /\ UNCHANGED rows
  /\ UNCHANGED <<files, nginx>>

EndSync(p) ==
  /\ pc[p] = "sync"
  /\ DOMAIN todo[p] = {}
  /\ Stop(p)
  /\ UNCHANGED <<rows, files, nginx>>

-----------------------------------------------------------------------------
(* Endpoints.                                                              *)

\* certificate_delete takes the domain off TLS,
StartDelete(p, d) ==
  /\ pc[p] = "idle"
  /\ Exists(d)
  /\ pks[d] < MaxPk
  /\ site' = [site EXCEPT ![d] = [ssl |-> FALSE, at |-> "none"]]
  /\ on' = [on EXCEPT ![p] = d]
  /\ mine' = [mine EXCEPT ![p] = CopyOf(cert[d])]
  /\ Goto(p, "drop")
  /\ UNCHANGED <<cert, pks, adrift, files, nginx, todo, renewed>>

\* and then deletes the row, which may be gone already.
Drop(p) ==
  /\ pc[p] = "drop"
  /\ cert' = IF IsThere(on[p], mine[p])
             THEN [cert EXCEPT ![on[p]] = NoCert] ELSE cert
  /\ adrift' = IF IsThere(on[p], mine[p]) THEN adrift \ {on[p]} ELSE adrift
  /\ Goto(p, "request")
  /\ UNCHANGED <<site, pks, files, nginx, on, mine, todo, renewed>>

\* certificate_update
EditAuto(d) ==
  /\ d \in Editable /\ Exists(d)
  /\ cert' = [cert EXCEPT ![d].auto = ~@]
  /\ UNCHANGED <<site, pks, adrift, files, nginx, procs>>

-----------------------------------------------------------------------------
(* The world.                                                              *)

Deploy ==
  /\ owed
  /\ owed' = FALSE
  /\ loaded' = [d \in Domains |-> IF site[d].ssl THEN disk[d][site[d].at] ELSE None]
  /\ UNCHANGED <<rows, files, procs>>

HostRenews(d) ==
  /\ "host_renewal" \in Faults
  /\ disk[d]["live"] # None
  /\ MakeVersion(d, "live")
  /\ unasked' = unasked \cup {made + 1}
  /\ UNCHANGED <<rows, age, nginx, procs>>

\* What a process has just had made or kept does not expire in its hands.
InHand(v) ==
  \E p \in Procs, place \in {"live", "ssl"} :
    pc[p] \in {"record", "save", "note", "attach"} /\ disk[on[p]][place] = v

GrowOld(v) ==
  /\ v <= made
  /\ age[v] = "fresh" \/ (age[v] = "due" /\ ~InHand(v))
  /\ age' = [age EXCEPT ![v] = IF @ = "fresh" THEN "due" ELSE "expired"]
  /\ UNCHANGED <<rows, disk, made, unasked, nginx, procs>>

-----------------------------------------------------------------------------

IssueStep(p) == \/ CertbotSucceeds(p) \/ CertbotFails(p) \/ Record(p) \/ Note(p)
                \/ Attach(p) \/ Request(p) \/ Raise(p) \/ SaveOwn(p)

SweepStep(p) == (\E d \in Domains : RenewNext(p, d)) \/ EndSweep(p)

SyncStep(p) == (\E d \in Domains : SyncNext(p, d)) \/ EndSync(p)

Next ==
  \/ \E p \in Workers, d \in Domains : StartIssue(p, d) \/ StartOwn(p, d)
  \/ \E p \in Sweepers : StartSweep(p) \/ SweepStep(p)
  \/ \E p \in Syncers : StartSync(p) \/ SyncStep(p)
  \/ \E p \in Deleters : (\E d \in Domains : StartDelete(p, d)) \/ Drop(p)
  \/ \E p \in Procs : IssueStep(p) \/ TaskDies(p)
  \/ \E d \in Domains : EditAuto(d) \/ HostRenews(d)
  \/ \E v \in Versions : GrowOld(v)
  \/ Deploy

Spec == Init /\ [][Next]_vars

\* What has started runs on, the periodic tasks start, and a deploy is run.
Fairness ==
  /\ \A p \in Procs : WF_vars(IssueStep(p) \/ Drop(p))
  /\ \A p \in Sweepers : SF_vars(StartSweep(p)) /\ WF_vars(SweepStep(p))
  /\ \A p \in Syncers : SF_vars(StartSync(p)) /\ WF_vars(SyncStep(p))
  /\ WF_vars(Deploy)

FairSpec == Spec /\ Fairness

-----------------------------------------------------------------------------
(* Properties.                                                             *)

\* What a row or a domain points at has been written.
FilesAreThere ==
  \A d \in Domains : /\ cert[d].at # "none" => disk[d][cert[d].at] # None
                     /\ site[d].ssl => /\ site[d].at # "none"
                                       /\ disk[d][site[d].at] # None

\* A row that says an issuance is under way has a process at it, without which
\* the sweep passes it over.  There are two other ways to such a row: its task
\* died, or the synchronisation wrote back what it had read during an issuance.
BusyHasWorker ==
  \A d \in Domains \ adrift :
    cert[d].status \in Busy =>
      \E p \in Procs : UnderWay(p) /\ on[p] = d /\ mine[p].pk = cert[d].pk

\* What a domain should serve.
Wanted(d) == IF site[d].ssl THEN disk[d][site[d].at] ELSE None

\* A process that will ask for a deploy, unless it raises.
WillAsk(p, d) ==
  \/ /\ pc[p] \in {"record", "save", "note", "attach", "request", "drop"}
     /\ on[p] = d
  \/ d \in renewed[p]

\* Nginx serves the material a recorded certificate's domain points at, or a
\* deploy is on its way.  Left aside is the material in unasked: what a certbot
\* outside the system renews, and what a task that raised or died had in hand.
ServedIsDeployed ==
  \A d \in Domains :
    cert[d].at # "none" /\ loaded[d] # Wanted(d) /\ Wanted(d) \notin unasked =>
      owed \/ \E p \in Procs : WillAsk(p, d)

\* The same of all material the tasks make.  (tasks.py: "Every task that changes
\* certificate material ends by asking the gateway to re-render and reload".)
EveryChangeIsDeployed ==
  \A d \in Domains :
    cert[d].at # "none" /\ loaded[d] # Wanted(d) =>
      owed \/ \E p \in Procs : WillAsk(p, d)

\* Once the panel asks for nothing more, a row's dates become those of its file,
\* whoever has written the file.
FileIsNoted ==
  \A d \in Domains :
    <>[](cert[d].at # "none" /\ \A p \in Workers : pc[p] = "idle")
      => []<>(cert[d].at # "none" /\ cert[d].noted = disk[d][cert[d].at])

\* An issuance of the domain's certificate is under way.
IsAttempted(d) == \E p \in Procs : UnderWay(p) /\ on[p] = d

\* A certificate that stays due for renewal is tried again and again, unless its
\* row says that somebody is at it when nobody is.
DueIsAttempted ==
  \A d \in Domains :
    <>[](/\ cert[d].auto /\ cert[d].issuer = "acme"
         /\ cert[d].noted # None /\ age[cert[d].noted] # "fresh"
         /\ cert[d].status \in Busy => IsAttempted(d))
      => []<>IsAttempted(d)

\* A certificate that stays within its last 30 days is tried again and again.
\* (DEPLOY.md: "Renewal then runs on its own, daily at 03:17".)
RenewalRunsOnItsOwn ==
  \A d \in Domains :
    <>[](/\ cert[d].auto /\ cert[d].issuer = "acme"
         /\ cert[d].noted # None /\ age[cert[d].noted] = "due")
      => []<>IsAttempted(d)
=============================================================================
