------------------------ MODULE CertificatesProofs ------------------------
(***************************************************************************)
(* Theorems about Certificates, for any domains, processes and versions:   *)
(* the types; that rows and domains point at files that have been written; *)
(* the two ways in which a row is left busy with nobody at it; and that    *)
(* new material is on its way to Nginx, or is known to be left to no one.  *)
(***************************************************************************)
EXTENDS Certificates, TLAPS

-----------------------------------------------------------------------------
(* The inductive invariants.                                               *)

\* A domain's row is the last one created for it, or there is none; while it
\* can be deleted, another can be created.
RowsInv ==
  \A d \in Domains : IF Exists(d) THEN cert[d].pk = pks[d]
                                  ELSE cert[d] = NoCert /\ pks[d] < MaxPk

\* A copy with a path, of a row that has existed: that row has a path as long as
\* it is there.
HasAPath(d, copy) ==
  /\ copy.pk \in 1 .. pks[d]
  /\ copy.at # "none"
  /\ IsThere(d, copy) => cert[d].at # "none"

\* What processes have in memory, of the rows.
CopiesFit(p) ==
  /\ pc[p] \in {"certbot", "record"} => mine[p].pk # 0
  /\ pc[p] = "note" => HasAPath(on[p], mine[p])
  /\ pc[p] = "attach" \/ (pc[p] = "request" /\ p \in Workers) => mine[p].at # "none"
  /\ pc[p] = "drop" => mine[p].pk \in 1 .. (MaxPk - 1)
  /\ pc[p] = "sync" => \A d \in DOMAIN todo[p] : HasAPath(d, todo[p][d])

CopiesInv == \A p \in Procs : CopiesFit(p)

TypeInv == TypeOK /\ RowsInv /\ CopiesInv

\* A process that has material in hand and has yet to hand it on,
Holding(p) == pc[p] \in {"record", "save", "note", "attach"}

\* or that leaves it without a deploy if it dies.
MayDrop(p) == Holding(p) \/ (pc[p] = "request" /\ p \in Workers)

\* The material is there, and what a sweep has renewed is.  Only tasks of their own make
\* other material than certbot's.
FilesFit(p) ==
  /\ MayDrop(p) => disk[on[p]][PlaceInHand(p)] # None
  /\ \A d \in renewed[p] : disk[d]["live"] # None
  /\ pc[p] = "save" => p \in Workers
  /\ pc[p] \in {"note", "attach"} /\ p \in Sweepers => mine[p].at = "live"

FilesInv ==
  /\ FilesAreThere
  /\ \A d \in Domains : site[d].ssl <=> site[d].at # "none"
  /\ \A p \in Procs : FilesFit(p)

\* What a process has in hand has not expired.
AgeFit(p) == Holding(p) => age[disk[on[p]][PlaceInHand(p)]] # "expired"

AgeInv ==
  /\ \A v \in Versions : v > made => age[v] = "fresh"
  /\ \A p \in Procs : AgeFit(p)

\* A process that has a domain's row busy.
Works(p, d) == UnderWay(p) /\ on[p] = d /\ mine[p].pk = cert[d].pk

\* What an issuance writes back to a row after its record does not say that it is
\* under way.
CalmFit(p) == pc[p] = "note" => mine[p].status \notin Busy

BusyInv == BusyHasWorker /\ \A p \in Procs : CalmFit(p)

\* So what is attached is active; and only a sweep has a list of renewals.
RolesFit(p) ==
  /\ pc[p] \in {"note", "attach"} => mine[p].status = "active"
  /\ renewed[p] # {} => /\ p \in Sweepers
                        /\ pc[p] \in {"sweep", "certbot", "record", "note", "attach"}

HandsInv == AgeInv /\ \A p \in Procs : RolesFit(p)

\* A process that will ask for a deploy, or if it raises will be known not to
\* have asked for the material that the domain points at.
AnswersFor(p, d) ==
  \/ pc[p] \in {"request", "drop"} /\ p \notin Workers /\ on[p] = d
  \/ MayDrop(p) /\ on[p] = d /\ site[d].at = PlaceInHand(p)
  \/ d \in renewed[p] /\ site[d].at = "live"

\* The material a domain points at is served, or somebody answers for it.
Answered(d) ==
  loaded[d] # Wanted(d) /\ Wanted(d) \notin unasked =>
    owed \/ \E p \in Procs : AnswersFor(p, d)

AnsweredInv == \A d \in Domains : Answered(d)

-----------------------------------------------------------------------------
(* Rows and copies.                                                        *)

\* Partial(S, T) holds the functions from a part of S to T.
LEMMA PartialDef ==
  ASSUME NEW S, NEW T, NEW f
  PROVE  f \in Partial(S, T) <=> /\ f = [x \in DOMAIN f |-> f[x]]
                                 /\ DOMAIN f \subseteq S
                                 /\ \A x \in DOMAIN f : f[x] \in T
<1>1. f \in Partial(S, T) <=> \E R \in SUBSET S : f \in [R -> T]
  BY DEF Partial
<1> QED
  BY <1>1

\* A list of rows without one of them is a list of rows.
LEMMA RestrictIsPartial ==
  ASSUME NEW S, NEW T, NEW f \in Partial(S, T), NEW R \in SUBSET DOMAIN f
  PROVE  Restrict(f, R) \in Partial(S, T)
<1>1. /\ DOMAIN f \subseteq S
      /\ \A x \in DOMAIN f : f[x] \in T
  BY PartialDef
<1>2. Restrict(f, R) \in [R -> T]
  BY <1>1 DEF Restrict
<1> QED
  BY <1>1, <1>2 DEF Partial

\* The empty list is one.
LEMMA NothingIsPartial ==
  ASSUME NEW S, NEW T
  PROVE  Nothing \in Partial(S, T)
<1>1. Nothing \in [{} -> T]
  BY DEF Nothing
<1> QED
  BY <1>1 DEF Partial

\* A row with a status that only rows with files have, has files.
IsARow(row) ==
  row \in Certs /\ (row.status \in {"active", "renewing", "expired"} => row.at # "none")

\* A copy of a row is a copy, with the row's columns.
LEMMA CopyIsACopy ==
  ASSUME NEW row \in Certs
  PROVE  /\ CopyOf(row) \in Copies
         /\ CopyOf(row).pk = row.pk /\ CopyOf(row).at = row.at
         /\ CopyOf(row).status = row.status
BY DEF CopyOf, Certs, Copies

\* The column values of a domain without a row are well-formed too.
LEMMA NoCertIsARow == IsARow(NoCert)
BY BoundsAssumption DEF IsARow, NoCert, Certs, Places, Statuses, None

\* A copy under the edits of a task is still a copy, and a row under the operator's a row.
LEMMA CopyEdits ==
  /\ \A copy \in Copies : /\ Recorded(copy) \in Copies
                            /\ Recorded(copy).at = "live" /\ Recorded(copy).pk = copy.pk
  /\ \A copy \in Copies, s \in Statuses :
       /\ [copy EXCEPT !.status = s] \in Copies
       /\ [copy EXCEPT !.status = s].at = copy.at
<1>1. ASSUME NEW copy \in Copies
      PROVE  /\ Recorded(copy) \in Copies
             /\ Recorded(copy).at = "live" /\ Recorded(copy).pk = copy.pk
  BY DEF Recorded, Copies, Places, Statuses
<1>2. ASSUME NEW copy \in Copies, NEW s \in Statuses
      PROVE  /\ [copy EXCEPT !.status = s] \in Copies
             /\ [copy EXCEPT !.status = s].at = copy.at
  BY DEF Copies
<1> QED
  BY <1>1, <1>2

\* The switch for renewal changes nothing else of a row.
LEMMA AutoIsEdited ==
  ASSUME NEW row, IsARow(row)
  PROVE  /\ IsARow([row EXCEPT !.auto = ~@])
         /\ [row EXCEPT !.auto = ~@].pk = row.pk /\ [row EXCEPT !.auto = ~@].at = row.at
<1> DEFINE edited == [row EXCEPT !.auto = ~@]
<1>1. /\ edited.pk = row.pk /\ edited.at = row.at
      /\ edited.status = row.status
  BY DEF IsARow, Certs
<1>2. (~row.auto) \in BOOLEAN
  OBVIOUS
<1>3. edited \in Certs
  BY <1>2 DEF IsARow, Certs
<1> HIDE DEF edited
<1>4. IsARow(edited) /\ edited.pk = row.pk /\ edited.at = row.at
  BY <1>1, <1>3 DEF IsARow
<1> QED
  BY <1>4 DEF edited

\* What an issuance makes of a row, before, after and in vain.
LEMMA ChangedRows ==
  ASSUME NEW row, IsARow(row)
  PROVE  /\ IsARow(Marked(row)) /\ IsARow(Failed(row)) /\ IsARow(Recorded(row))
         /\ Marked(row).pk = row.pk /\ Marked(row).at = row.at
         /\ Failed(row).pk = row.pk /\ Failed(row).at = row.at
         /\ Recorded(row).pk = row.pk /\ Recorded(row).at = "live"
         /\ Failed(row).status \notin Busy /\ Recorded(row).status \notin Busy
BY DEF IsARow, Marked, Failed, Recorded, Certs, Places, Statuses, Busy

\* The row of a domain that is about to have one.
LEMMA EnsuredIsARow ==
  ASSUME TypeOK, RowsInv, NEW d \in Domains
  PROVE  /\ IsARow(Ensured(d))
         /\ Ensured(d).pk = IF Exists(d) THEN pks[d] ELSE pks[d] + 1
         /\ Ensured(d).pk \in 1 .. MaxPk
         /\ Exists(d) => Ensured(d).at = cert[d].at
<1>1. CASE Exists(d)
  <2>1. cert[d] \in Certs /\ cert[d].pk \in 0 .. MaxPk /\ IsARow(cert[d])
    BY DEF TypeOK, IsARow, Certs
  <2>2. Ensured(d) = cert[d] /\ cert[d].pk # 0 /\ cert[d].pk = pks[d]
    BY <1>1 DEF RowsInv, Exists, Ensured
  <2> QED
    BY <1>1, <2>1, <2>2
<1>2. CASE ~Exists(d)
  <2>1. pks[d] + 1 \in 1 .. MaxPk
    BY <1>2, BoundsAssumption DEF TypeOK, RowsInv
  <2>2. Ensured(d) = [pk |-> pks[d] + 1, issuer |-> "acme", status |-> "pending",
                      at |-> "none", auto |-> TRUE, noted |-> None]
    BY <1>2 DEF Ensured, NoCert
  <2>3. Ensured(d).pk = pks[d] + 1
    BY <2>2
  <2>4. IsARow(Ensured(d))
    BY <2>1, <2>2, BoundsAssumption DEF IsARow, Certs, Places, Statuses, None
  <2> QED
    BY <1>2, <2>1, <2>3, <2>4
<1> QED
  BY <1>1, <1>2

\* How a row may change in a step: it is written, created or deleted.
RowStep(d) ==
  \/ cert'[d].pk = cert[d].pk /\ pks'[d] = pks[d] /\ (cert[d].at # "none" => cert'[d].at # "none")
  \/ ~Exists(d) /\ cert'[d].pk = pks[d] + 1 /\ pks'[d] = pks[d] + 1
  \/ cert'[d] = NoCert /\ pks'[d] = pks[d]

\* A copy with a path stays one, whatever happens to its row.
LEMMA PathsAreKept ==
  ASSUME TypeOK, RowsInv, NEW d \in Domains, RowStep(d), NEW copy, HasAPath(d, copy)
  PROVE  /\ copy.pk \in 1 .. pks'[d]
         /\ copy.at # "none"
         /\ cert'[d].pk = copy.pk => cert'[d].at # "none"
<1>1. pks[d] \in Nat /\ cert[d].pk \in Nat
  BY BoundsAssumption DEF TypeOK, Certs
<1>2. copy.pk \in 1 .. pks[d] /\ copy.at # "none" /\ (cert[d].pk = copy.pk => cert[d].at # "none")
  BY DEF HasAPath, IsThere
<1>3. CASE cert'[d].pk = cert[d].pk /\ pks'[d] = pks[d]
           /\ (cert[d].at # "none" => cert'[d].at # "none")
  BY <1>2, <1>3
<1>4. CASE cert'[d].pk = pks[d] + 1 /\ pks'[d] = pks[d] + 1
  BY <1>1, <1>2, <1>4
<1>5. CASE cert'[d] = NoCert /\ pks'[d] = pks[d]
  BY <1>1, <1>2, <1>5 DEF NoCert
<1> QED
  BY <1>3, <1>4, <1>5 DEF RowStep

-----------------------------------------------------------------------------
(* The types.                                                              *)

\* The writing of the row of an issuance, or of a certificate of its own.
LEMMA EnsuredIsSaved ==
  ASSUME TypeOK, RowsInv, NEW d \in Domains, NEW row, IsARow(row),
         row.pk = Ensured(d).pk, Exists(d) /\ cert[d].at # "none" => row.at # "none",
         SaveEnsured(d, row)
  PROVE  /\ cert' \in [Domains -> Certs] /\ pks' \in [Domains -> 0 .. MaxPk]
         /\ \A e \in Domains : IsARow(cert'[e])
         /\ adrift' \subseteq Domains
         /\ cert' = [cert EXCEPT ![d] = row] /\ pks'[d] = row.pk /\ row.pk \in 1 .. MaxPk
         /\ RowsInv'
         /\ \A e \in Domains : RowStep(e)
<1>1. /\ Ensured(d).pk = IF Exists(d) THEN pks[d] ELSE pks[d] + 1
      /\ Ensured(d).pk \in 1 .. MaxPk
  BY EnsuredIsARow
<1>2. /\ cert' = [cert EXCEPT ![d] = row]
      /\ pks' = IF Exists(d) THEN pks ELSE [pks EXCEPT ![d] = @ + 1]
      /\ adrift' \subseteq Domains
  BY DEF SaveEnsured, TypeOK
<1>3. cert' \in [Domains -> Certs] /\ \A e \in Domains : IsARow(cert'[e])
  BY <1>2 DEF TypeOK, IsARow
<1>4. pks'[d] = row.pk /\ pks' \in [Domains -> 0 .. MaxPk]
  BY <1>1, <1>2, BoundsAssumption DEF TypeOK
<1>5. \A e \in Domains : e # d => cert'[e] = cert[e] /\ pks'[e] = pks[e]
  BY <1>2 DEF TypeOK
<1>6. cert'[d] = row /\ row.pk # 0
  BY <1>1, <1>2, BoundsAssumption DEF TypeOK
<1>7. RowsInv'
  BY <1>4, <1>5, <1>6 DEF RowsInv, Exists
<1>8. \A e \in Domains : RowStep(e)
  BY <1>1, <1>4, <1>5, <1>6 DEF RowStep, RowsInv, Exists
<1> QED
  BY <1>1, <1>2, <1>3, <1>4, <1>7, <1>8

\* The writing of some columns of a row that is there.
LEMMA RowIsWritten ==
  ASSUME TypeOK, RowsInv, NEW d \in Domains, NEW row, IsARow(row),
         row.pk = cert[d].pk, Exists(d), cert[d].at # "none" => row.at # "none",
         cert' = [cert EXCEPT ![d] = row], UNCHANGED pks
  PROVE  /\ cert' \in [Domains -> Certs] /\ \A e \in Domains : IsARow(cert'[e])
         /\ RowsInv'
         /\ \A e \in Domains : RowStep(e)
<1>1. cert' \in [Domains -> Certs] /\ \A e \in Domains : IsARow(cert'[e])
  BY DEF TypeOK, IsARow
<1>2. cert'[d] = row /\ \A e \in Domains : e # d => cert'[e] = cert[e]
  BY DEF TypeOK
<1>3. RowsInv'
  BY <1>2 DEF RowsInv, Exists
<1>4. \A e \in Domains : RowStep(e)
  BY <1>2 DEF RowStep
<1> QED
  BY <1>1, <1>3, <1>4

\* A row stays as it is in a step that does not touch the rows.
LEMMA UntouchedRows ==
  ASSUME UNCHANGED <<cert, pks>>, RowsInv
  PROVE  RowsInv' /\ \A d \in Domains : RowStep(d)
BY DEF RowStep, RowsInv, Exists

\* What a process has in memory fits the rows after a step of another.
LEMMA OthersCopiesFit ==
  ASSUME TypeInv, \A d \in Domains : RowStep(d), NEW q \in Procs,
         pc'[q] = pc[q], on'[q] = on[q], mine'[q] = mine[q], todo'[q] = todo[q]
  PROVE  CopiesFit(q)'
<1>1. /\ on[q] \in Domains /\ DOMAIN todo[q] \subseteq Domains
  <2>1. todo[q] \in Partial(Domains, Copies)
    BY DEF TypeInv, TypeOK
  <2> QED
    BY <2>1, PartialDef DEF TypeInv, TypeOK
<1>2. CopiesFit(q)
  BY DEF TypeInv, CopiesInv
<1>3. ASSUME pc[q] = "note" PROVE HasAPath(on[q], mine[q])'
  <2>1. HasAPath(on[q], mine[q])
    BY <1>2, <1>3 DEF CopiesFit
  <2>2. /\ mine[q].pk \in 1 .. pks'[on[q]] /\ mine[q].at # "none"
        /\ cert'[on[q]].pk = mine[q].pk => cert'[on[q]].at # "none"
    BY <1>1, <2>1, PathsAreKept DEF TypeInv
  <2> QED
    BY <2>2 DEF HasAPath, IsThere
<1>4. ASSUME pc[q] = "sync", NEW d \in DOMAIN todo[q] PROVE HasAPath(d, todo[q][d])'
  <2>1. HasAPath(d, todo[q][d])
    BY <1>2, <1>4 DEF CopiesFit
  <2>2. /\ todo[q][d].pk \in 1 .. pks'[d] /\ todo[q][d].at # "none"
        /\ cert'[d].pk = todo[q][d].pk => cert'[d].at # "none"
    BY <1>1, <2>1, PathsAreKept DEF TypeInv
  <2> QED
    BY <2>2 DEF HasAPath, IsThere
<1> QED
  BY <1>2, <1>3, <1>4 DEF CopiesFit

\* The other processes in a step of one.
OnlyBy(p) ==
  \A q \in Procs : q # p => /\ pc'[q] = pc[q] /\ on'[q] = on[q] /\ mine'[q] = mine[q]
                            /\ todo'[q] = todo[q] /\ renewed'[q] = renewed[q]

\* What a process that has ended has in memory.
LEMMA StoppedTypes ==
  ASSUME TypeOK, NEW p \in Procs, Stop(p)
  PROVE  /\ pc' \in [Procs -> Steps] /\ on' \in [Procs -> Domains]
         /\ mine' \in [Procs -> Copies]
         /\ todo' \in [Procs -> Partial(Domains, Copies)]
         /\ renewed' \in [Procs -> SUBSET Domains]
         /\ pc'[p] = "idle" /\ renewed'[p] = {} /\ on' = on
         /\ OnlyBy(p)
<1>1. CopyOf(NoCert) \in Copies
  BY CopyIsACopy, NoCertIsARow DEF IsARow
<1>2. Nothing \in Partial(Domains, Copies)
  BY NothingIsPartial
<1>3. "idle" \in Steps
  BY DEF Steps
<1> QED
  BY <1>1, <1>2, <1>3 DEF Stop, Goto, TypeOK, OnlyBy

\* What has ended fits everything.
LEMMA StoppedCopiesFit ==
  ASSUME TypeInv, \A d \in Domains : RowStep(d), NEW p \in Procs, Stop(p)
  PROVE  CopiesInv'
<1>1. \A q \in Procs : q # p => CopiesFit(q)'
  BY StoppedTypes, OthersCopiesFit DEF TypeInv, OnlyBy
<1>2. CopiesFit(p)'
  BY StoppedTypes DEF CopiesFit, TypeInv
<1> QED
  BY <1>1, <1>2 DEF CopiesInv

\* After a step of one process, it is its own memory that remains to be looked at.
LEMMA OnesCopiesFit ==
  ASSUME TypeInv, \A d \in Domains : RowStep(d), NEW p \in Procs, OnlyBy(p), CopiesFit(p)'
  PROVE  CopiesInv'
BY OthersCopiesFit DEF CopiesInv, OnlyBy

\* The types, with what they need, hold at first,
LEMMA TypeInit == Init => TypeInv
<1> SUFFICES ASSUME Init PROVE TypeInv
  OBVIOUS
<1>1. /\ cert = [d \in Domains |-> NoCert] /\ site = [d \in Domains |-> [ssl |-> FALSE, at |-> "none"]]
      /\ pks = [d \in Domains |-> 0] /\ adrift = {}
  BY DEF Init
<1>2. cert \in [Domains -> Certs] /\ \A d \in Domains : IsARow(cert[d])
  BY <1>1, NoCertIsARow DEF IsARow
<1>3. site \in [Domains -> [ssl : BOOLEAN, at : Places]] /\ pks \in [Domains -> 0 .. MaxPk]
  BY <1>1, BoundsAssumption DEF Places
<1>4. /\ disk \in [Domains -> [{"live", "ssl"} -> Versions \cup {None}]]
      /\ age \in [Versions -> {"fresh", "due", "expired"}]
      /\ made \in 0 .. MaxVersion
      /\ loaded \in [Domains -> Versions \cup {None}]
      /\ owed \in BOOLEAN /\ unasked \subseteq Versions
  <2>1. [place \in {"live", "ssl"} |-> None] \in [{"live", "ssl"} -> Versions \cup {None}]
    OBVIOUS
  <2>2. disk = [d \in Domains |-> [place \in {"live", "ssl"} |-> None]]
    BY DEF Init
  <2>3. disk \in [Domains -> [{"live", "ssl"} -> Versions \cup {None}]]
    BY <2>1, <2>2
  <2>4. /\ age = [v \in Versions |-> "fresh"] /\ loaded = [d \in Domains |-> None]
        /\ made = 0 /\ owed = FALSE /\ unasked = {}
    BY DEF Init
  <2>5. age \in [Versions -> {"fresh", "due", "expired"}]
    BY <2>4
  <2>6. loaded \in [Domains -> Versions \cup {None}]
    BY <2>4
  <2>7. made \in 0 .. MaxVersion
    BY <2>4, BoundsAssumption
  <2> QED
    BY <2>3, <2>4, <2>5, <2>6, <2>7
<1>5. /\ pc \in [Procs -> Steps] /\ on \in [Procs -> Domains]
      /\ renewed \in [Procs -> SUBSET Domains]
  BY DEF Init, Steps
<1>6. mine \in [Procs -> Copies]
  BY CopyIsACopy, NoCertIsARow DEF Init, IsARow
<1>7. todo \in [Procs -> Partial(Domains, Copies)]
  BY NothingIsPartial DEF Init
<1>8. TypeOK
  BY <1>1, <1>2, <1>3, <1>4, <1>5, <1>6, <1>7 DEF TypeOK, IsARow
<1>9. RowsInv
  <2>1. \A d \in Domains : cert[d] = NoCert /\ pks[d] = 0 /\ NoCert.pk = 0
    BY <1>1 DEF NoCert
  <2> QED
    BY <2>1, BoundsAssumption DEF RowsInv, Exists
<1>10. CopiesInv
  BY DEF Init, CopiesInv, CopiesFit
<1> QED
  BY <1>8, <1>9, <1>10 DEF TypeInv

\* and are kept by the marking of a row,
LEMMA MarkKeepsTypes ==
  ASSUME TypeInv, NEW p \in Procs, NEW d \in Domains, Mark(p, d),
         UNCHANGED <<files, nginx, renewed>>,
         todo' \in [Procs -> Partial(Domains, Copies)],
         \A q \in Procs : q # p => todo'[q] = todo[q]
  PROVE  TypeInv'
<1> DEFINE row == Marked(Ensured(d))
<1>1. IsARow(Ensured(d)) /\ (Exists(d) => Ensured(d).at = cert[d].at)
  BY EnsuredIsARow DEF TypeInv
<1>2. IsARow(row) /\ row.pk = Ensured(d).pk /\ row.at = Ensured(d).at
  BY <1>1, ChangedRows
<1>3. CopyOf(row) \in Copies
  BY <1>2, CopyIsACopy DEF IsARow
<1>4. /\ SaveEnsured(d, row)
      /\ pc' = [pc EXCEPT ![p] = "certbot"]
      /\ on' = [on EXCEPT ![p] = d]
      /\ mine' = [mine EXCEPT ![p] = CopyOf(row)]
  BY DEF Mark, Goto
<1> HIDE DEF row
<1>5. /\ cert' \in [Domains -> Certs] /\ pks' \in [Domains -> 0 .. MaxPk]
      /\ \A e \in Domains : IsARow(cert'[e])
      /\ adrift' \subseteq Domains
      /\ RowsInv' /\ \A e \in Domains : RowStep(e)
  BY <1>1, <1>2, <1>4, EnsuredIsSaved DEF TypeInv
<1>6. /\ pc' \in [Procs -> Steps] /\ on' \in [Procs -> Domains] /\ mine' \in [Procs -> Copies]
      /\ pc'[p] = "certbot" /\ OnlyBy(p)
  BY <1>3, <1>4 DEF TypeInv, TypeOK, Steps, OnlyBy
<1>7. TypeOK'
  BY <1>4, <1>5, <1>6 DEF TypeInv, TypeOK, IsARow, SaveEnsured, files, nginx
<1>8. CopiesFit(p)'
  <2>1. mine'[p] = CopyOf(row) /\ CopyOf(row).pk = row.pk /\ row.pk # 0
    BY <1>2, <1>4, CopyIsACopy, EnsuredIsARow DEF TypeInv, TypeOK, IsARow
  <2> QED
    BY <1>6, <2>1 DEF CopiesFit
<1>9. CopiesInv'
  BY <1>5, <1>6, <1>8, OnesCopiesFit
<1> QED
  BY <1>5, <1>7, <1>9 DEF TypeInv

\* the end of a process,
LEMMA StopKeepsTypes ==
  ASSUME TypeInv, NEW p \in Procs, Stop(p), UNCHANGED <<cert, site, pks, disk, age, made, loaded>>,
         adrift' \subseteq Domains, owed' \in BOOLEAN, unasked' \subseteq Versions
  PROVE  TypeInv'
<1>1. RowsInv' /\ \A d \in Domains : RowStep(d)
  BY UntouchedRows DEF TypeInv
<1>2. TypeOK'
  BY StoppedTypes DEF TypeInv, TypeOK
<1>3. CopiesInv'
  BY <1>1, StoppedCopiesFit
<1> QED
  BY <1>1, <1>2, <1>3 DEF TypeInv

\* the making of material,
LEMMA VersionIsMade ==
  ASSUME TypeOK, NEW d \in Domains, NEW place \in {"live", "ssl"}, MakeVersion(d, place)
  PROVE  /\ disk' \in [Domains -> [{"live", "ssl"} -> Versions \cup {None}]]
         /\ made' \in 0 .. MaxVersion /\ made + 1 \in Versions
         /\ disk'[d][place] = made + 1
         /\ \A e \in Domains, x \in {"live", "ssl"} :
              e # d \/ x # place => disk'[e][x] = disk[e][x]
         /\ made' = made + 1
<1>1. made + 1 \in Versions /\ made' = made + 1 /\ made' \in 0 .. MaxVersion
  BY BoundsAssumption DEF MakeVersion, TypeOK, Versions
<1>2. disk' = [disk EXCEPT ![d][place] = made + 1]
  BY DEF MakeVersion
<1> QED
  BY <1>1, <1>2 DEF TypeOK

\* what the dates in a file make of a row,
LEMMA NotedIsARow ==
  ASSUME TypeOK, NEW d \in Domains, NEW copy \in Copies, HasAPath(d, copy), IsThere(d, copy)
  PROVE  /\ IsARow(Noted(d, copy)) /\ Noted(d, copy).pk = cert[d].pk
         /\ Noted(d, copy).at = cert[d].at
         /\ Noted(d, copy).status = StatusNoted(d, copy)
         /\ StatusNoted(d, copy) \in Statuses
         /\ StatusNoted(d, copy) \in Busy => copy.status \in Busy
         /\ Exists(d) /\ cert[d].at # "none"
<1>1. copy.at \in {"live", "ssl"} /\ copy.status \in Statuses
  BY DEF Copies, HasAPath, Places
<1>2. disk[d][copy.at] \in Versions \cup {None}
  BY <1>1 DEF TypeOK
<1>3. /\ StatusNoted(d, copy) \in Statuses
      /\ StatusNoted(d, copy) \in Busy => copy.status \in Busy
  BY <1>1 DEF StatusNoted, Statuses, Busy
<1>4. Exists(d) /\ cert[d].at # "none" /\ cert[d] \in Certs
  BY BoundsAssumption DEF HasAPath, IsThere, Exists, TypeOK
<1> QED
  BY <1>2, <1>3, <1>4 DEF Noted, IsARow, Certs

\* and the other steps.
LEMMA TypeNext == TypeInv /\ FilesInv /\ [Next]_vars => TypeInv'
<1> SUFFICES ASSUME TypeInv, FilesInv, [Next]_vars PROVE TypeInv'
  OBVIOUS
<1> USE DEF TypeInv, TypeOK, Goto, rows, files, nginx, procs, IsARow
<1>1. ASSUME NEW p \in Workers, NEW d \in Domains, StartIssue(p, d) PROVE TypeInv'
  <2> p \in Procs
    BY DEF Procs
  <2> QED
    BY <1>1, MarkKeepsTypes DEF StartIssue
<1>2. ASSUME NEW p \in Workers, NEW d \in Domains, StartOwn(p, d) PROVE TypeInv'
  <2> p \in Procs
    BY DEF Procs
  <2>1. MakeVersion(d, "ssl")
    BY <1>2 DEF StartOwn
  <2>2. OnlyBy(p) /\ pc'[p] = "save"
    BY <1>2 DEF StartOwn, OnlyBy
  <2>3. TypeOK'
    BY <1>2, <2>1, VersionIsMade DEF StartOwn, Steps
  <2>4. RowsInv' /\ \A e \in Domains : RowStep(e)
    BY <1>2, UntouchedRows DEF StartOwn
  <2>5. CopiesInv'
    BY <2>2, <2>4, OnesCopiesFit DEF CopiesFit
  <2> QED
    BY <2>3, <2>4, <2>5
<1>3. ASSUME NEW p \in Sweepers, StartSweep(p) PROVE TypeInv'
  <2> p \in Procs
    BY DEF Procs
  <2>1. Copied(DueForRenewal) \in Partial(Domains, Copies)
    <3>1. Copied(DueForRenewal) \in [DueForRenewal -> Copies] /\ DueForRenewal \subseteq Domains
      BY CopyIsACopy DEF Copied, DueForRenewal
    <3> QED
      BY <3>1 DEF Partial
  <2>2. OnlyBy(p) /\ pc'[p] = "sweep"
    BY <1>3 DEF StartSweep, OnlyBy
  <2>3. TypeOK'
    BY <1>3, <2>1 DEF StartSweep, Steps
  <2>4. RowsInv' /\ \A e \in Domains : RowStep(e)
    BY <1>3, UntouchedRows DEF StartSweep
  <2>5. CopiesInv'
    BY <2>2, <2>4, OnesCopiesFit DEF CopiesFit
  <2> QED
    BY <2>3, <2>4, <2>5
<1>4. ASSUME NEW p \in Sweepers, NEW d \in Domains, RenewNext(p, d) PROVE TypeInv'
  <2> p \in Procs
    BY DEF Procs
  <2>1. Restrict(todo[p], DOMAIN todo[p] \ {d}) \in Partial(Domains, Copies)
    BY RestrictIsPartial
  <2>2. /\ todo' \in [Procs -> Partial(Domains, Copies)]
        /\ \A q \in Procs : q # p => todo'[q] = todo[q]
    BY <1>4, <2>1 DEF RenewNext
  <2> QED
    BY <1>4, <2>2, MarkKeepsTypes DEF RenewNext
<1>5. ASSUME NEW p \in Sweepers, EndSweep(p) PROVE TypeInv'
  <2>1. Stop(p) /\ UNCHANGED <<rows, files, loaded>> /\ owed' \in BOOLEAN
    BY <1>5 DEF EndSweep
  <2> QED
    BY <2>1, StopKeepsTypes DEF Procs
<1>6. ASSUME NEW p \in Syncers, StartSync(p) PROVE TypeInv'
  <2> p \in Procs
    BY DEF Procs
  <2> DEFINE S == {d \in Domains : HasPath(d)}
  <2>1. Copied(S) \in Partial(Domains, Copies)
    <3>1. Copied(S) \in [S -> Copies] /\ S \subseteq Domains
      BY CopyIsACopy DEF Copied
    <3> QED
      BY <3>1 DEF Partial
  <2>2. OnlyBy(p) /\ pc'[p] = "sync" /\ todo'[p] = Copied(S)
    BY <1>6 DEF StartSync, OnlyBy
  <2>3. TypeOK'
    BY <1>6, <2>1 DEF StartSync, Steps
  <2>4. RowsInv' /\ (\A e \in Domains : RowStep(e)) /\ UNCHANGED <<cert, pks>>
    BY <1>6, UntouchedRows DEF StartSync
  <2>5. ASSUME NEW d \in S
        PROVE  /\ Copied(S)[d].pk \in 1 .. pks[d] /\ Copied(S)[d].at # "none"
               /\ cert[d].at # "none"
    <3>1. d \in Domains /\ cert[d].at # "none" /\ Copied(S)[d] = CopyOf(cert[d])
      BY <2>5 DEF Copied, HasPath
    <3>2. Copied(S)[d].at = cert[d].at /\ Copied(S)[d].pk = cert[d].pk
      BY <3>1, CopyIsACopy
    <3>3. cert[d].pk # 0 /\ cert[d].pk = pks[d] /\ pks[d] \in Nat
      BY <3>1, BoundsAssumption DEF RowsInv, Exists, NoCert
    <3> QED
      BY <3>1, <3>2, <3>3
  <2>6. CopiesFit(p)'
    <3>1. DOMAIN Copied(S) = S
      BY DEF Copied
    <3> HIDE DEF S
    <3> QED
      BY <2>2, <2>4, <2>5, <3>1 DEF CopiesFit, HasAPath, IsThere
  <2> QED
    BY <2>2, <2>3, <2>4, <2>6, OnesCopiesFit
<1>7. ASSUME NEW p \in Syncers, NEW d \in Domains, SyncNext(p, d) PROVE TypeInv'
  <2> p \in Procs
    BY DEF Procs
  <2>1. pc[p] = "sync" /\ d \in DOMAIN todo[p] /\ UNCHANGED <<files, nginx>>
    BY <1>7 DEF SyncNext
  <2>2. HasAPath(d, todo[p][d])
    BY <2>1 DEF CopiesInv, CopiesFit
  <2>3. DOMAIN todo[p] \subseteq Domains /\ todo[p][d] \in Copies
    BY <2>1, PartialDef
  <2>4. CASE IsThere(d, todo[p][d])
    <3> DEFINE row == Noted(d, todo[p][d])
    <3>1. /\ IsARow(row) /\ row.pk = cert[d].pk /\ row.at = cert[d].at /\ Exists(d)
      BY <2>2, <2>3, <2>4, NotedIsARow
    <3>2. /\ cert' = [cert EXCEPT ![d] = row] /\ UNCHANGED <<site, pks>> /\ adrift' \subseteq Domains
          /\ todo' = [todo EXCEPT ![p] = Restrict(@, DOMAIN @ \ {d})]
          /\ UNCHANGED <<pc, on, mine, renewed>>
      BY <1>7, <2>4 DEF SyncNext, Write
    <3> HIDE DEF row
    <3>3. /\ cert' \in [Domains -> Certs] /\ \A e \in Domains : IsARow(cert'[e])
          /\ RowsInv' /\ \A e \in Domains : RowStep(e)
      BY <3>1, <3>2, RowIsWritten
    <3>4. Restrict(todo[p], DOMAIN todo[p] \ {d}) \in Partial(Domains, Copies)
      BY RestrictIsPartial
    <3>5. TypeOK'
      BY <2>1, <3>2, <3>3, <3>4
    <3>6. CopiesInv'
      <4>1. OnlyBy(p)
        BY <3>2 DEF OnlyBy
      <4>2. CopiesFit(p)'
        <5>1. ASSUME NEW e \in DOMAIN todo'[p]
              PROVE  e \in DOMAIN todo[p] /\ todo'[p][e] = todo[p][e]
          BY <3>2 DEF Restrict
        <5>2. ASSUME NEW e \in DOMAIN todo[p]
              PROVE  /\ todo[p][e].pk \in 1 .. pks'[e] /\ todo[p][e].at # "none"
                     /\ cert'[e].pk = todo[p][e].pk => cert'[e].at # "none"
          <6>1. HasAPath(e, todo[p][e]) /\ e \in Domains
            BY <2>1, <2>3 DEF CopiesInv, CopiesFit
          <6> QED
            BY <3>3, <6>1, PathsAreKept
        <5>3. pc'[p] = "sync"
          BY <2>1, <3>2
        <5>4. \A e \in DOMAIN todo'[p] :
                /\ todo'[p][e].pk \in 1 .. pks'[e] /\ todo'[p][e].at # "none"
                /\ cert'[e].pk = todo'[p][e].pk => cert'[e].at # "none"
          BY <5>1, <5>2
        <5> QED
          BY <5>3, <5>4 DEF CopiesFit, HasAPath, IsThere
      <4> QED
        BY <3>3, <4>1, <4>2, OnesCopiesFit
    <3> QED
      BY <3>3, <3>5, <3>6
  <2>5. CASE ~IsThere(d, todo[p][d])
    <3>1. Stop(p) /\ UNCHANGED rows
      BY <1>7, <2>5 DEF SyncNext
    <3> QED
      BY <2>1, <3>1, StopKeepsTypes
  <2> QED
    BY <2>4, <2>5
<1>8. ASSUME NEW p \in Syncers, EndSync(p) PROVE TypeInv'
  BY <1>8, StopKeepsTypes DEF EndSync, Procs
<1>9. ASSUME NEW p \in Deleters, NEW d \in Domains, StartDelete(p, d) PROVE TypeInv'
  <2> p \in Procs
    BY DEF Procs
  <2>1. CopyOf(cert[d]) \in Copies /\ CopyOf(cert[d]).pk = cert[d].pk
    BY CopyIsACopy
  <2>2. OnlyBy(p) /\ pc'[p] = "drop" /\ mine'[p] = CopyOf(cert[d])
    BY <1>9 DEF StartDelete, OnlyBy
  <2>3. TypeOK'
    <3>1. site' \in [Domains -> [ssl : BOOLEAN, at : Places]]
      BY <1>9 DEF StartDelete, Places
    <3>2. pc' \in [Procs -> Steps] /\ mine' \in [Procs -> Copies] /\ on' \in [Procs -> Domains]
      BY <1>9, <2>1 DEF StartDelete, Steps
    <3> QED
      BY <1>9, <3>1, <3>2 DEF StartDelete
  <2>4. RowsInv' /\ \A e \in Domains : RowStep(e)
    BY <1>9, UntouchedRows DEF StartDelete
  <2>5. cert[d].pk \in 1 .. (MaxPk - 1)
    BY <1>9, BoundsAssumption DEF StartDelete, RowsInv, Exists
  <2>6. CopiesFit(p)'
    BY <2>1, <2>2, <2>5 DEF CopiesFit
  <2> QED
    BY <2>2, <2>3, <2>4, <2>6, OnesCopiesFit
<1>10. ASSUME NEW p \in Deleters, Drop(p) PROVE TypeInv'
  <2> p \in Procs
    BY DEF Procs
  <2>1. OnlyBy(p) /\ pc'[p] = "request" /\ pc' \in [Procs -> Steps]
    BY <1>10 DEF Drop, OnlyBy, Steps
  <2>2. /\ cert' = IF IsThere(on[p], mine[p]) THEN [cert EXCEPT ![on[p]] = NoCert] ELSE cert
        /\ UNCHANGED <<site, pks, files, nginx, on, mine, todo, renewed>>
        /\ adrift' \subseteq Domains
        /\ mine[p].pk \in 1 .. (MaxPk - 1) /\ on[p] \in Domains
    BY <1>10 DEF Drop, CopiesInv, CopiesFit
  <2>3. cert' \in [Domains -> Certs] /\ \A e \in Domains : IsARow(cert'[e])
    BY <2>2, NoCertIsARow
  <2>4. TypeOK'
    BY <2>1, <2>2, <2>3
  <2>5. \A e \in Domains : RowStep(e)
    BY <2>2 DEF RowStep
  <2>6. RowsInv'
    <3>1. CASE IsThere(on[p], mine[p])
      <4>1. cert[on[p]].pk = pks[on[p]] /\ pks[on[p]] < MaxPk
        BY <2>2, <3>1, BoundsAssumption DEF IsThere, RowsInv, Exists
      <4>2. \A e \in Domains : cert'[e] = IF e = on[p] THEN NoCert ELSE cert[e]
        BY <2>2, <3>1
      <4>3. NoCert.pk = 0
        BY DEF NoCert
      <4> QED
        BY <2>2, <4>1, <4>2, <4>3 DEF RowsInv, Exists
    <3>2. CASE ~IsThere(on[p], mine[p])
      BY <2>2, <3>2, UntouchedRows
    <3> QED
      BY <3>1, <3>2
  <2>7. CopiesFit(p)'
    BY <2>1, RolesAssumption DEF CopiesFit
  <2> QED
    BY <2>1, <2>4, <2>5, <2>6, <2>7, OnesCopiesFit
<1>11. ASSUME NEW p \in Procs, CertbotSucceeds(p) PROVE TypeInv'
  <2>1. \/ MakeVersion(on[p], "live")
        \/ UNCHANGED <<disk, made>>
    BY <1>11 DEF CertbotSucceeds
  <2>2. /\ pc[p] = "certbot" /\ pc' = [pc EXCEPT ![p] = "record"]
        /\ UNCHANGED <<rows, age, unasked, nginx, on, mine, todo, renewed>>
    BY <1>11 DEF CertbotSucceeds
  <2>3. /\ disk' \in [Domains -> [{"live", "ssl"} -> Versions \cup {None}]]
        /\ made' \in 0 .. MaxVersion
    BY <2>1, VersionIsMade
  <2>4. TypeOK'
    BY <2>2, <2>3 DEF Steps
  <2>5. RowsInv' /\ \A d \in Domains : RowStep(d)
    BY <2>2, UntouchedRows
  <2>6. OnlyBy(p) /\ CopiesFit(p)'
    BY <2>2 DEF OnlyBy, CopiesInv, CopiesFit
  <2> QED
    BY <2>4, <2>5, <2>6, OnesCopiesFit
<1>12. ASSUME NEW p \in Procs, CertbotFails(p) PROVE TypeInv'
  <2> DEFINE row == Failed(cert[on[p]])
  <2>1. /\ pc[p] = "certbot" /\ IsThere(on[p], mine[p]) /\ AfterFailure(p)
        /\ cert' = [cert EXCEPT ![on[p]] = row] /\ UNCHANGED <<site, pks, files, nginx>>
        /\ adrift' \subseteq Domains
    BY <1>12 DEF CertbotFails, Write
  <2>2. Exists(on[p])
    BY <2>1 DEF IsThere, Exists, CopiesInv, CopiesFit
  <2>3. IsARow(row) /\ row.pk = cert[on[p]].pk /\ row.at = cert[on[p]].at
    BY ChangedRows
  <2> HIDE DEF row
  <2>4. /\ cert' \in [Domains -> Certs] /\ \A e \in Domains : IsARow(cert'[e])
        /\ RowsInv' /\ \A e \in Domains : RowStep(e)
    BY <2>1, <2>2, <2>3, RowIsWritten
  <2>5. CASE p \in Sweepers
    <3>1. /\ pc' = [pc EXCEPT ![p] = "sweep"] /\ UNCHANGED <<on, mine, todo, renewed>>
      BY <2>1, <2>5 DEF AfterFailure
    <3>2. TypeOK'
      BY <2>1, <2>4, <3>1 DEF Steps
    <3>3. OnlyBy(p) /\ CopiesFit(p)'
      BY <3>1 DEF OnlyBy, CopiesFit
    <3> QED
      BY <2>4, <3>2, <3>3, OnesCopiesFit
  <2>6. CASE p \notin Sweepers
    <3>1. Stop(p)
      BY <2>1, <2>6 DEF AfterFailure
    <3>2. TypeOK'
      BY <2>1, <2>4, <3>1, StoppedTypes
    <3> QED
      BY <2>4, <3>1, <3>2, StoppedCopiesFit
  <2> QED
    BY <2>5, <2>6
<1>13. ASSUME NEW p \in Procs, Record(p) PROVE TypeInv'
  <2> DEFINE row == Recorded(cert[on[p]])
  <2>1. /\ pc[p] = "record" /\ IsThere(on[p], mine[p])
        /\ cert' = [cert EXCEPT ![on[p]] = row] /\ UNCHANGED <<site, pks, files, nginx>>
        /\ adrift' \subseteq Domains
        /\ mine' = [mine EXCEPT ![p] = Recorded(@)]
        /\ pc' = [pc EXCEPT ![p] = "note"]
        /\ UNCHANGED <<on, todo, renewed>>
    BY <1>13 DEF Record, Write
  <2>2. Exists(on[p])
    BY <2>1 DEF IsThere, Exists, CopiesInv, CopiesFit
  <2>3. IsARow(row) /\ row.pk = cert[on[p]].pk /\ row.at = "live"
    BY ChangedRows
  <2> HIDE DEF row
  <2>4. /\ cert' \in [Domains -> Certs] /\ \A e \in Domains : IsARow(cert'[e])
        /\ RowsInv' /\ \A e \in Domains : RowStep(e)
    BY <2>1, <2>2, <2>3, RowIsWritten
  <2>5. /\ Recorded(mine[p]) \in Copies /\ Recorded(mine[p]).at = "live"
        /\ Recorded(mine[p]).pk = mine[p].pk
    BY CopyEdits
  <2>6. TypeOK'
    BY <2>1, <2>4, <2>5 DEF Steps
  <2>7. OnlyBy(p)
    BY <2>1 DEF OnlyBy
  <2>8. CopiesFit(p)'
    <3>1. pc'[p] = "note" /\ on'[p] = on[p] /\ mine'[p] = Recorded(mine[p])
          /\ cert'[on[p]] = row /\ pks' = pks
      BY <2>1
    <3>2. mine[p].pk = cert[on[p]].pk /\ cert[on[p]].pk = pks[on[p]] /\ pks[on[p]] \in 1 .. MaxPk
      BY <2>1, <2>2, BoundsAssumption DEF IsThere, Exists, RowsInv
    <3>3. HasAPath(on[p], mine[p])'
      BY <2>3, <2>5, <3>1, <3>2 DEF HasAPath, IsThere
    <3> QED
      BY <3>1, <3>3 DEF CopiesFit
  <2> QED
    BY <2>4, <2>6, <2>7, <2>8, OnesCopiesFit
<1>14. ASSUME NEW p \in Procs, Note(p) PROVE TypeInv'
  <2> DEFINE row == Noted(on[p], mine[p])
  <2>1. /\ pc[p] = "note" /\ IsThere(on[p], mine[p])
        /\ cert' = [cert EXCEPT ![on[p]] = row] /\ UNCHANGED <<site, pks, files, nginx>>
        /\ adrift' \subseteq Domains
        /\ mine' = [mine EXCEPT ![p].status = StatusNoted(on[p], mine[p])]
        /\ pc' = [pc EXCEPT ![p] = "attach"]
        /\ UNCHANGED <<on, todo, renewed>>
    BY <1>14 DEF Note, Write
  <2>2. HasAPath(on[p], mine[p])
    BY <2>1 DEF CopiesInv, CopiesFit
  <2>3. /\ IsARow(row) /\ row.pk = cert[on[p]].pk /\ row.at = cert[on[p]].at
        /\ StatusNoted(on[p], mine[p]) \in Statuses
        /\ Exists(on[p])
    BY <2>1, <2>2, NotedIsARow
  <2> HIDE DEF row
  <2>4. /\ cert' \in [Domains -> Certs] /\ \A e \in Domains : IsARow(cert'[e])
        /\ RowsInv' /\ \A e \in Domains : RowStep(e)
    BY <2>1, <2>3, RowIsWritten
  <2>5. /\ mine' \in [Procs -> Copies] /\ mine'[p].at = mine[p].at
        /\ \A q \in Procs : q # p => mine'[q] = mine[q]
    <3>1. mine[p] \in Copies /\ mine' = [mine EXCEPT ![p].status = StatusNoted(on[p], mine[p])]
      BY <2>1
    <3> QED
      BY <2>3, <3>1, CopyEdits
  <2>6. TypeOK'
    BY <2>1, <2>4, <2>5 DEF Steps
  <2>7. OnlyBy(p)
    BY <2>1, <2>5 DEF OnlyBy
  <2>8. CopiesFit(p)'
    BY <2>1, <2>2, <2>5 DEF CopiesFit, HasAPath
  <2> QED
    BY <2>4, <2>6, <2>7, <2>8, OnesCopiesFit
<1>15. ASSUME NEW p \in Procs, Attach(p) PROVE TypeInv'
  <2>1. /\ pc[p] = "attach" /\ UNCHANGED <<cert, pks, adrift, files, nginx>>
        /\ site' = [site EXCEPT ![on[p]] = [ssl |-> TRUE, at |-> mine[p].at]]
    BY <1>15 DEF Attach
  <2>2. site' \in [Domains -> [ssl : BOOLEAN, at : Places]]
    BY <2>1 DEF Copies
  <2>3. RowsInv' /\ \A d \in Domains : RowStep(d)
    BY <2>1, UntouchedRows
  <2>4. CASE p \in Sweepers
    <3>1. /\ pc' = [pc EXCEPT ![p] = "sweep"] /\ UNCHANGED <<on, mine, todo>>
          /\ \/ renewed' = [renewed EXCEPT ![p] = @ \cup {on[p]}]
             \/ renewed' = renewed
      BY <1>15, <2>4 DEF Attach, AsksForDeploy
    <3>2. renewed' \in [Procs -> SUBSET Domains]
      BY <3>1
    <3>3. TypeOK'
      BY <2>1, <2>2, <3>1, <3>2 DEF Steps
    <3>4. OnlyBy(p)
      BY <3>1 DEF OnlyBy
    <3>5. CopiesFit(p)'
      BY <3>1 DEF CopiesFit
    <3> QED
      BY <2>3, <3>3, <3>4, <3>5, OnesCopiesFit
  <2>5. CASE p \notin Sweepers /\ (mine[p].at = "ssl" \/ AsksForDeploy(p))
    <3>1. /\ pc' = [pc EXCEPT ![p] = "request"] /\ UNCHANGED <<on, mine, todo, renewed>>
      BY <1>15, <2>5 DEF Attach
    <3>2. TypeOK'
      BY <2>1, <2>2, <3>1 DEF Steps
    <3>3. OnlyBy(p) /\ CopiesFit(p)'
      BY <2>1, <3>1 DEF OnlyBy, CopiesInv, CopiesFit
    <3> QED
      BY <2>3, <3>2, <3>3, OnesCopiesFit
  <2>6. CASE p \notin Sweepers /\ ~(mine[p].at = "ssl" \/ AsksForDeploy(p))
    <3>1. Stop(p)
      BY <1>15, <2>6 DEF Attach
    <3>2. TypeOK'
      BY <2>1, <2>2, <3>1, StoppedTypes
    <3> QED
      BY <2>3, <3>1, <3>2, StoppedCopiesFit
  <2> QED
    BY <2>4, <2>5, <2>6
<1>16. ASSUME NEW p \in Procs, Request(p) PROVE TypeInv'
  BY <1>16, StopKeepsTypes DEF Request
<1>17. ASSUME NEW p \in Procs, pc[p] = "request" => p \in Workers
       PROVE  Dropped(p) \subseteq Versions
  <2>1. FilesFit(p) /\ on[p] \in Domains
    BY DEF FilesInv
  <2>2. ASSUME NEW d \in renewed[p] PROVE disk[d]["live"] \in Versions
    BY <2>1, <2>2 DEF FilesFit
  <2>3. ASSUME NEW place \in {"live", "ssl"}, place = PlaceInHand(p),
               pc[p] \in {"record", "save", "note", "attach", "request"}
        PROVE  disk[on[p]][place] \in Versions
    BY <1>17, <2>1, <2>3 DEF FilesFit, MayDrop, Holding
  <2> QED
    BY <2>2, <2>3 DEF Dropped
<1>25. ASSUME NEW p \in Procs, Raise(p) PROVE TypeInv'
  BY <1>17, <1>25, StopKeepsTypes DEF Raise
<1>26. ASSUME NEW p \in Procs, TaskDies(p) PROVE TypeInv'
  <2>1. Dropped(p) \subseteq Versions
    BY <1>17, <1>26 DEF TaskDies
  <2>2. /\ Stop(p) /\ unasked' = unasked \cup Dropped(p) /\ adrift' \subseteq Domains
        /\ UNCHANGED <<cert, site, pks, disk, age, made, nginx>>
    BY <1>26 DEF TaskDies
  <2> QED
    BY <2>1, <2>2, StopKeepsTypes
<1>18. ASSUME NEW p \in Procs, SaveOwn(p) PROVE TypeInv'
  <2> DEFINE row == [Ensured(on[p]) EXCEPT !.issuer = "own", !.status = "active",
                                           !.at = "ssl", !.auto = FALSE]
  <2>1. /\ SaveEnsured(on[p], row)
        /\ mine' = [mine EXCEPT ![p] = CopyOf(row)]
        /\ pc' = [pc EXCEPT ![p] = "note"]
        /\ UNCHANGED <<files, nginx, on, todo, renewed>>
    BY <1>18 DEF SaveOwn
  <2>2. IsARow(Ensured(on[p]))
    BY EnsuredIsARow
  <2>3. IsARow(row) /\ row.pk = Ensured(on[p]).pk /\ row.at = "ssl"
    BY <2>2 DEF Certs, Places, Statuses
  <2>4. CopyOf(row) \in Copies /\ CopyOf(row).pk = row.pk /\ CopyOf(row).at = "ssl"
    BY <2>3, CopyIsACopy
  <2> HIDE DEF row
  <2>5. /\ cert' \in [Domains -> Certs] /\ pks' \in [Domains -> 0 .. MaxPk]
        /\ \A e \in Domains : IsARow(cert'[e])
        /\ adrift' \subseteq Domains
        /\ cert' = [cert EXCEPT ![on[p]] = row] /\ pks'[on[p]] = row.pk /\ row.pk \in 1 .. MaxPk
        /\ RowsInv' /\ \A e \in Domains : RowStep(e)
    BY <2>1, <2>3, EnsuredIsSaved
  <2>6. TypeOK'
    BY <2>1, <2>4, <2>5 DEF Steps, SaveEnsured
  <2>7. OnlyBy(p)
    BY <2>1 DEF OnlyBy
  <2>8. CopiesFit(p)'
    <3>1. pc'[p] = "note" /\ on'[p] = on[p] /\ mine'[p] = CopyOf(row) /\ cert'[on[p]] = row
      BY <2>1, <2>5
    <3>2. HasAPath(on[p], mine[p])'
      BY <2>3, <2>4, <2>5, <3>1, BoundsAssumption DEF HasAPath, IsThere
    <3> QED
      BY <3>1, <3>2 DEF CopiesFit
  <2> QED
    BY <2>5, <2>6, <2>7, <2>8, OnesCopiesFit
<1>19. ASSUME NEW d \in Domains, EditAuto(d) PROVE TypeInv'
  <2> DEFINE row == [cert[d] EXCEPT !.auto = ~@]
  <2>1. /\ cert' = [cert EXCEPT ![d] = row] /\ UNCHANGED <<site, pks, adrift, files, nginx, procs>>
        /\ Exists(d)
    BY <1>19 DEF EditAuto
  <2>2. IsARow(row) /\ row.pk = cert[d].pk /\ row.at = cert[d].at
    <3>1. IsARow(cert[d])
      BY <2>1
    <3> QED
      BY <3>1, AutoIsEdited
  <2> HIDE DEF row
  <2>3. /\ cert' \in [Domains -> Certs] /\ \A e \in Domains : IsARow(cert'[e])
        /\ RowsInv' /\ \A e \in Domains : RowStep(e)
    BY <2>1, <2>2, RowIsWritten
  <2>4. TypeOK'
    BY <2>1, <2>3
  <2>5. CopiesInv'
    BY <2>1, <2>3, OthersCopiesFit DEF CopiesInv
  <2> QED
    BY <2>3, <2>4, <2>5
<1>20. ASSUME TypeOK', UNCHANGED <<rows, procs>> PROVE TypeInv'
  <2>1. RowsInv' /\ \A e \in Domains : RowStep(e)
    BY <1>20, UntouchedRows
  <2>2. CopiesInv'
    BY <1>20, <2>1, OthersCopiesFit DEF CopiesInv
  <2> QED
    BY <1>20, <2>1, <2>2
<1>21. ASSUME NEW d \in Domains, HostRenews(d) PROVE TypeInv'
  <2>1. TypeOK'
    BY <1>21, VersionIsMade DEF HostRenews
  <2> QED
    BY <1>20, <1>21, <2>1 DEF HostRenews
<1>22. ASSUME NEW v \in Versions, GrowOld(v) PROVE TypeInv'
  <2>1. TypeOK'
    BY <1>22 DEF GrowOld
  <2> QED
    BY <1>20, <1>22, <2>1 DEF GrowOld
<1>23. CASE Deploy
  <2>1. ASSUME NEW d \in Domains, site[d].ssl PROVE disk[d][site[d].at] \in Versions \cup {None}
    BY <2>1 DEF FilesInv, Places
  <2>2. TypeOK'
    BY <1>23, <2>1 DEF Deploy
  <2> QED
    BY <1>20, <1>23, <2>2 DEF Deploy
<1>24. CASE UNCHANGED vars
  <2>1. TypeOK'
    BY <1>24 DEF vars
  <2> QED
    BY <1>20, <1>24, <2>1 DEF vars
<1> QED
  BY <1>1, <1>2, <1>3, <1>4, <1>5, <1>6, <1>7, <1>8, <1>9, <1>10, <1>11, <1>12, <1>13, <1>14,
     <1>15, <1>16, <1>18, <1>19, <1>21, <1>22, <1>23, <1>24, <1>25, <1>26
     DEF Next, IssueStep, SweepStep, SyncStep

-----------------------------------------------------------------------------
(* The files.                                                              *)

\* What is written stays written, whatever replaces it.
FilesStay ==
  \A d \in Domains, place \in {"live", "ssl"} :
    disk[d][place] # None => disk'[d][place] # None

\* No step of the code, or of certbot, removes a file: not even a deletion does.
LEMMA FilesAreNotLost ==
  ASSUME TypeOK, [Next]_vars
  PROVE  FilesStay
<1> USE DEF TypeOK, files, None
<1>1. ASSUME NEW d \in Domains, NEW place \in {"live", "ssl"}, MakeVersion(d, place)
      PROVE  FilesStay
  <2>1. /\ disk'[d][place] = made + 1 /\ made + 1 # 0
        /\ \A e \in Domains, x \in {"live", "ssl"} :
             e # d \/ x # place => disk'[e][x] = disk[e][x]
    BY <1>1, VersionIsMade
  <2> QED
    BY <2>1 DEF FilesStay
<1>2. ASSUME NEW p \in Procs, CertbotSucceeds(p) PROVE FilesStay
  <2>1. MakeVersion(on[p], "live") \/ UNCHANGED disk
    BY <1>2 DEF CertbotSucceeds
  <2> QED
    BY <1>1, <2>1 DEF FilesStay
<1>3. ASSUME UNCHANGED disk PROVE FilesStay
  BY <1>3 DEF FilesStay
<1>4. ASSUME NEW p \in Workers, NEW d \in Domains, StartIssue(p, d) \/ StartOwn(p, d) PROVE FilesStay
  BY <1>1, <1>3, <1>4 DEF StartIssue, StartOwn
<1>5. ASSUME NEW p \in Sweepers, StartSweep(p) \/ SweepStep(p) PROVE FilesStay
  BY <1>3, <1>5 DEF StartSweep, SweepStep, RenewNext, EndSweep
<1>6. ASSUME NEW p \in Syncers, StartSync(p) \/ SyncStep(p) PROVE FilesStay
  BY <1>3, <1>6 DEF StartSync, SyncStep, SyncNext, EndSync
<1>7. ASSUME NEW p \in Deleters, (\E d \in Domains : StartDelete(p, d)) \/ Drop(p) PROVE FilesStay
  BY <1>3, <1>7 DEF StartDelete, Drop
<1>8. ASSUME NEW p \in Procs, IssueStep(p) PROVE FilesStay
  BY <1>2, <1>3, <1>8 DEF IssueStep, CertbotFails, Record, Note, Attach, Request, Raise, SaveOwn
<1>12. ASSUME NEW p \in Procs, TaskDies(p) PROVE FilesStay
  BY <1>3, <1>12 DEF TaskDies
<1>9. ASSUME NEW d \in Domains, EditAuto(d) \/ HostRenews(d) PROVE FilesStay
  BY <1>1, <1>3, <1>9 DEF EditAuto, HostRenews
<1>10. ASSUME NEW v \in Versions, GrowOld(v) PROVE FilesStay
  BY <1>3, <1>10 DEF GrowOld
<1>11. CASE Deploy \/ UNCHANGED vars
  BY <1>3, <1>11 DEF Deploy, vars
<1> QED
  BY <1>4, <1>5, <1>6, <1>7, <1>8, <1>9, <1>10, <1>11, <1>12 DEF Next

\* A process that a step leaves alone still has its files.
LEMMA OthersFilesFit ==
  ASSUME TypeInv, FilesInv, FilesStay, NEW q \in Procs,
         pc'[q] = pc[q], on'[q] = on[q], mine'[q] = mine[q], renewed'[q] = renewed[q]
  PROVE  FilesFit(q)'
<1>1. FilesFit(q) /\ on[q] \in Domains /\ mine[q].at \in Places /\ renewed[q] \subseteq Domains
  BY DEF FilesInv, TypeInv, TypeOK, Copies
<1>2. MayDrop(q) => PlaceInHand(q) \in {"live", "ssl"}
  <2>1. pc[q] \in {"note", "attach"} \/ (pc[q] = "request" /\ q \in Workers) => mine[q].at # "none"
    BY DEF TypeInv, CopiesInv, CopiesFit, HasAPath
  <2> QED
    BY <1>1, <2>1 DEF MayDrop, Holding, PlaceInHand, Places
<1>3. MayDrop(q)' = MayDrop(q) /\ PlaceInHand(q)' = PlaceInHand(q)
  BY DEF MayDrop, Holding, PlaceInHand
<1>4. MayDrop(q)' => disk'[on[q]][PlaceInHand(q)] # None
  BY <1>1, <1>2, <1>3 DEF FilesStay, FilesFit
<1>5. \A d \in renewed[q] : disk'[d]["live"] # None
  BY <1>1 DEF FilesStay, FilesFit
<1> QED
  BY <1>1, <1>3, <1>4, <1>5 DEF FilesFit

\* The rows and the domains that a step leaves alone still have theirs.
LEMMA SettledFiles ==
  ASSUME TypeInv, FilesInv, FilesStay, NEW d \in Domains
  PROVE  /\ cert'[d].at \in {"none", cert[d].at} =>
              (cert'[d].at # "none" => disk'[d][cert'[d].at] # None)
         /\ site'[d] = site[d] =>
              /\ site'[d].ssl => site'[d].at # "none" /\ disk'[d][site'[d].at] # None
              /\ site'[d].ssl <=> site'[d].at # "none"
<1>1. /\ cert[d].at \in Places /\ site[d].at \in Places
      /\ cert[d].at # "none" => disk[d][cert[d].at] # None
      /\ site[d].ssl => site[d].at # "none" /\ disk[d][site[d].at] # None
      /\ site[d].ssl <=> site[d].at # "none"
  BY DEF TypeInv, TypeOK, FilesInv, FilesAreThere, Certs
<1> QED
  BY <1>1 DEF FilesStay, Places

\* So after a step of one process, or of none, there is little to look at.
LEMMA OnesFilesFit ==
  ASSUME TypeInv, FilesInv, FilesStay, NEW p \in Procs, OnlyBy(p), FilesFit(p)',
         \A d \in Domains :
           \/ cert'[d].at \in {"none", cert[d].at}
           \/ cert'[d].at # "none" => disk'[d][cert'[d].at] # None,
         \A d \in Domains :
           \/ site'[d] = site[d]
           \/ /\ site'[d].ssl => site'[d].at # "none" /\ disk'[d][site'[d].at] # None
              /\ site'[d].ssl <=> site'[d].at # "none"
  PROVE  FilesInv'
<1>1. FilesAreThere' /\ \A d \in Domains : site'[d].ssl <=> site'[d].at # "none"
  BY SettledFiles DEF FilesAreThere
<1>2. \A q \in Procs : FilesFit(q)'
  BY OthersFilesFit DEF OnlyBy
<1> QED
  BY <1>1, <1>2 DEF FilesInv

\* A step outside the processes that gives no row and no domain a path keeps the paths
\* right.
LEMMA UntouchedFiles ==
  ASSUME TypeInv, FilesInv, FilesStay, UNCHANGED <<site, pc, on, mine, renewed>>,
         \A d \in Domains : cert'[d].at \in {"none", cert[d].at}
  PROVE  FilesInv'
<1>1. FilesAreThere' /\ \A d \in Domains : site'[d].ssl <=> site'[d].at # "none"
  BY SettledFiles DEF FilesAreThere
<1>2. \A q \in Procs : FilesFit(q)'
  BY OthersFilesFit
<1> QED
  BY <1>1, <1>2 DEF FilesInv

\* Every step leaves files where something points.
LEMMA FilesNext == TypeInv /\ FilesInv /\ [Next]_vars => FilesInv'
<1> SUFFICES ASSUME TypeInv, FilesInv, [Next]_vars PROVE FilesInv'
  OBVIOUS
<1> USE DEF Goto, rows, files, nginx, procs
<1>0. FilesStay /\ TypeOK /\ \A p \in Procs : FilesFit(p) /\ CopiesFit(p)
  BY FilesAreNotLost DEF TypeInv, FilesInv, CopiesInv
<1>1. ASSUME NEW p \in Procs, Stop(p), UNCHANGED site,
             \A d \in Domains : cert'[d].at \in {"none", cert[d].at}
      PROVE  FilesInv'
  <2>1. OnlyBy(p) /\ pc'[p] = "idle" /\ renewed'[p] = {}
    BY <1>0, <1>1, StoppedTypes
  <2>2. FilesFit(p)'
    BY <2>1 DEF FilesFit, MayDrop, Holding
  <2> QED
    BY <1>0, <1>1, <2>1, <2>2, OnesFilesFit
<1>2. ASSUME NEW p \in Procs, OnlyBy(p), renewed'[p] = renewed[p],
             pc'[p] \notin {"record", "save", "note", "attach"}, UNCHANGED site,
             pc'[p] = "request" => p \notin Workers,
             \A d \in Domains : cert'[d].at \in {"none", cert[d].at}
      PROVE  FilesInv'
  <2>1. FilesFit(p)'
    BY <1>0, <1>2 DEF FilesFit, MayDrop, Holding, FilesStay, TypeOK
  <2> QED
    BY <1>0, <1>2, <2>1, OnesFilesFit
<1>3. ASSUME NEW p \in Procs, NEW d \in Domains, Mark(p, d), renewed' = renewed,
             \A q \in Procs : q # p => todo'[q] = todo[q]
      PROVE  FilesInv'
  <2> DEFINE row == Marked(Ensured(d))
  <2>1. IsARow(Ensured(d)) /\ (Exists(d) => Ensured(d).at = cert[d].at)
    BY EnsuredIsARow DEF TypeInv
  <2>2. ~Exists(d) => Ensured(d).at = "none"
    BY DEF Ensured, NoCert
  <2>3. row.at \in {"none", cert[d].at}
    BY <2>1, <2>2, ChangedRows
  <2>4. cert' = [cert EXCEPT ![d] = row] /\ UNCHANGED site
    BY <1>3 DEF Mark, SaveEnsured
  <2>5. OnlyBy(p) /\ pc'[p] = "certbot"
    BY <1>0, <1>3 DEF Mark, OnlyBy, TypeOK
  <2> HIDE DEF row
  <2>6. \A e \in Domains : cert'[e].at \in {"none", cert[e].at}
    BY <1>0, <2>3, <2>4 DEF TypeOK
  <2> QED
    BY <1>2, <1>3, <2>4, <2>5, <2>6
<1>4. ASSUME NEW p \in Workers, NEW d \in Domains, StartIssue(p, d) PROVE FilesInv'
  BY <1>3, <1>4 DEF StartIssue, Procs
<1>5. ASSUME NEW p \in Workers, NEW d \in Domains, StartOwn(p, d) PROVE FilesInv'
  <2>1. disk'[d]["ssl"] # None
    <3>1. disk'[d]["ssl"] = made + 1 /\ made + 1 \in Versions
      BY <1>0, <1>5, VersionIsMade DEF StartOwn
    <3> QED
      BY <3>1 DEF Versions, None
  <2>2. OnlyBy(p) /\ pc'[p] = "save" /\ on'[p] = d /\ renewed' = renewed /\ UNCHANGED <<cert, site>>
    BY <1>0, <1>5 DEF StartOwn, OnlyBy, TypeOK, Procs
  <2>3. FilesFit(p)'
    BY <1>0, <1>5, <2>1, <2>2 DEF FilesFit, MayDrop, Holding, PlaceInHand, FilesStay, TypeOK, Procs
  <2> QED
    BY <1>0, <2>2, <2>3, OnesFilesFit DEF Procs
<1>6. ASSUME NEW p \in Sweepers, StartSweep(p) PROVE FilesInv'
  BY <1>0, <1>2, <1>6 DEF StartSweep, OnlyBy, TypeOK, Procs
<1>7. ASSUME NEW p \in Sweepers, NEW d \in Domains, RenewNext(p, d) PROVE FilesInv'
  <2>1. \A q \in Procs : q # p => todo'[q] = todo[q]
    BY <1>0, <1>7 DEF RenewNext, TypeOK
  <2> QED
    BY <1>3, <1>7, <2>1 DEF RenewNext, Procs
<1>8. ASSUME NEW p \in Sweepers, EndSweep(p) PROVE FilesInv'
  BY <1>1, <1>8 DEF EndSweep, Procs
<1>9. ASSUME NEW p \in Syncers, StartSync(p) PROVE FilesInv'
  BY <1>0, <1>2, <1>9 DEF StartSync, OnlyBy, TypeOK, Procs
<1>10. ASSUME NEW p \in Syncers, NEW d \in Domains, SyncNext(p, d) PROVE FilesInv'
  <2>1. CASE IsThere(d, todo[p][d])
    <3>1. cert' = [cert EXCEPT ![d] = Noted(d, todo[p][d])]
          /\ UNCHANGED <<site, pc, on, mine, renewed>>
      BY <1>10, <2>1 DEF SyncNext, Write
    <3>2. HasAPath(d, todo[p][d]) /\ todo[p][d] \in Copies
      BY <1>0, <1>10, PartialDef DEF SyncNext, CopiesFit, TypeOK, Procs
    <3>3. Noted(d, todo[p][d]).at = cert[d].at
      BY <1>0, <2>1, <3>2, NotedIsARow
    <3>4. \A e \in Domains : cert'[e].at = cert[e].at
      BY <1>0, <3>1, <3>3 DEF TypeOK
    <3> QED
      BY <1>0, <3>1, <3>4, UntouchedFiles
  <2>2. CASE ~IsThere(d, todo[p][d])
    BY <1>1, <1>10, <2>2 DEF SyncNext, Procs
  <2> QED
    BY <2>1, <2>2
<1>11. ASSUME NEW p \in Syncers, EndSync(p) PROVE FilesInv'
  BY <1>1, <1>11 DEF EndSync, Procs
<1>12. ASSUME NEW p \in Deleters, NEW d \in Domains, StartDelete(p, d) PROVE FilesInv'
  <2>1. OnlyBy(p) /\ pc'[p] = "drop" /\ renewed' = renewed /\ UNCHANGED <<cert, disk>>
        /\ site' = [site EXCEPT ![d] = [ssl |-> FALSE, at |-> "none"]]
    BY <1>0, <1>12 DEF StartDelete, OnlyBy, TypeOK, Procs
  <2>2. FilesFit(p)'
    BY <1>0, <2>1 DEF FilesFit, MayDrop, Holding, Procs
  <2>3. \A e \in Domains : \/ site'[e] = site[e]
                           \/ ~site'[e].ssl /\ site'[e].at = "none"
    BY <1>0, <2>1 DEF TypeOK
  <2> QED
    BY <1>0, <2>1, <2>2, <2>3, OnesFilesFit DEF Procs
<1>13. ASSUME NEW p \in Deleters, Drop(p) PROVE FilesInv'
  <2>1. \A d \in Domains : cert'[d].at \in {"none", cert[d].at}
    BY <1>0, <1>13 DEF Drop, NoCert, TypeOK
  <2> QED
    BY <1>0, <1>2, <1>13, <2>1, RolesAssumption DEF Drop, OnlyBy, TypeOK, Procs
<1>14. ASSUME NEW p \in Procs, CertbotSucceeds(p) PROVE FilesInv'
  <2>1. disk'[on[p]]["live"] # None
    <3>1. CASE MakeVersion(on[p], "live")
      <4>1. disk'[on[p]]["live"] = made + 1 /\ made + 1 \in Versions
        BY <1>0, <3>1, VersionIsMade DEF TypeOK
      <4> QED
        BY <4>1 DEF Versions, None
    <3>2. CASE disk[on[p]]["live"] # None /\ UNCHANGED <<disk, made>>
      BY <3>2
    <3> QED
      BY <1>14, <3>1, <3>2 DEF CertbotSucceeds
  <2>2. OnlyBy(p) /\ pc'[p] = "record" /\ on' = on /\ renewed' = renewed /\ UNCHANGED <<cert, site>>
    BY <1>0, <1>14 DEF CertbotSucceeds, OnlyBy, TypeOK
  <2>3. FilesFit(p)'
    BY <1>0, <2>1, <2>2 DEF FilesFit, MayDrop, Holding, PlaceInHand, FilesStay, TypeOK
  <2> QED
    BY <1>0, <2>2, <2>3, OnesFilesFit
<1>15. ASSUME NEW p \in Procs, CertbotFails(p) PROVE FilesInv'
  <2>1. \A d \in Domains : cert'[d].at = cert[d].at
    <3>1. IsARow(cert[on[p]])
      BY <1>0 DEF TypeOK, IsARow
    <3>2. cert' = [cert EXCEPT ![on[p]] = Failed(cert[on[p]])]
      BY <1>15 DEF CertbotFails, Write
    <3> QED
      BY <1>0, <3>1, <3>2, ChangedRows DEF TypeOK
  <2>2. UNCHANGED site /\ AfterFailure(p)
    BY <1>15 DEF CertbotFails, Write
  <2>3. CASE Stop(p)
    BY <1>1, <2>1, <2>2, <2>3
  <2>4. CASE pc' = [pc EXCEPT ![p] = "sweep"] /\ UNCHANGED <<on, mine, todo, renewed>>
    BY <1>0, <1>2, <2>1, <2>2, <2>4 DEF OnlyBy, TypeOK
  <2> QED
    BY <2>2, <2>3, <2>4 DEF AfterFailure
<1>16. ASSUME NEW p \in Procs, Record(p) PROVE FilesInv'
  <2>1. /\ cert' = [cert EXCEPT ![on[p]] = Recorded(cert[on[p]])]
        /\ mine' = [mine EXCEPT ![p] = Recorded(@)] /\ pc' = [pc EXCEPT ![p] = "note"]
        /\ UNCHANGED <<site, disk, on, todo, renewed>> /\ pc[p] = "record"
    BY <1>16 DEF Record, Write
  <2>2. disk[on[p]]["live"] # None
    BY <1>0, <2>1 DEF FilesFit, MayDrop, Holding, PlaceInHand
  <2>3. Recorded(cert[on[p]]).at = "live" /\ Recorded(mine[p]).at = "live"
    BY <1>0 DEF Recorded, TypeOK, Certs, Copies
  <2>4. OnlyBy(p) /\ pc'[p] = "note" /\ mine'[p].at = "live"
    BY <1>0, <2>1, <2>3 DEF OnlyBy, TypeOK
  <2>5. FilesFit(p)'
    BY <1>0, <2>1, <2>2, <2>4 DEF FilesFit, MayDrop, Holding, PlaceInHand
  <2>6. \A d \in Domains : \/ cert'[d].at = cert[d].at
                           \/ disk'[d][cert'[d].at] # None
    BY <1>0, <2>1, <2>2, <2>3 DEF TypeOK
  <2> QED
    BY <1>0, <2>1, <2>4, <2>5, <2>6, OnesFilesFit
<1>17. ASSUME NEW p \in Procs, Note(p) PROVE FilesInv'
  <2>1. /\ cert' = [cert EXCEPT ![on[p]] = Noted(on[p], mine[p])]
        /\ mine' = [mine EXCEPT ![p].status = StatusNoted(on[p], mine[p])]
        /\ pc' = [pc EXCEPT ![p] = "attach"]
        /\ UNCHANGED <<site, disk, on, todo, renewed>> /\ pc[p] = "note" /\ IsThere(on[p], mine[p])
    BY <1>17 DEF Note, Write
  <2>2. Noted(on[p], mine[p]).at = cert[on[p]].at
    BY <1>0, <2>1, NotedIsARow DEF CopiesFit, TypeOK
  <2>3. OnlyBy(p) /\ pc'[p] = "attach" /\ mine'[p].at = mine[p].at
    BY <1>0, <2>1 DEF OnlyBy, TypeOK, Copies
  <2>4. FilesFit(p)'
    BY <1>0, <2>1, <2>3 DEF FilesFit, MayDrop, Holding, PlaceInHand
  <2>5. \A d \in Domains : cert'[d].at = cert[d].at
    BY <1>0, <2>1, <2>2 DEF TypeOK
  <2> QED
    BY <1>0, <2>1, <2>3, <2>4, <2>5, OnesFilesFit
<1>18. ASSUME NEW p \in Procs, Attach(p) PROVE FilesInv'
  <2>1. /\ pc[p] = "attach" /\ UNCHANGED <<cert, disk>>
        /\ site' = [site EXCEPT ![on[p]] = [ssl |-> TRUE, at |-> mine[p].at]]
    BY <1>18 DEF Attach
  <2>2. mine[p].at # "none" /\ disk[on[p]][mine[p].at] # None
    BY <1>0, <2>1 DEF FilesFit, MayDrop, Holding, PlaceInHand, CopiesFit
  <2>3. \A d \in Domains :
          \/ site'[d] = site[d]
          \/ site'[d].ssl /\ site'[d].at # "none" /\ disk'[d][site'[d].at] # None
    BY <1>0, <2>1, <2>2 DEF TypeOK
  <2>4. OnlyBy(p) /\ FilesFit(p)'
    <3>1. CASE p \in Sweepers
      <4>1. /\ pc' = [pc EXCEPT ![p] = "sweep"] /\ UNCHANGED <<on, mine, todo>>
            /\ \/ renewed' = [renewed EXCEPT ![p] = @ \cup {on[p]}]
               \/ renewed' = renewed
        BY <1>18, <3>1 DEF Attach
      <4>2. disk[on[p]]["live"] # None
        BY <1>0, <2>1, <2>2, <3>1 DEF FilesFit
      <4>3. OnlyBy(p)
        BY <1>0, <4>1 DEF OnlyBy, TypeOK
      <4>4. \A d \in renewed'[p] : d \in renewed[p] \/ d = on[p]
        BY <1>0, <4>1 DEF TypeOK
      <4>5. pc'[p] = "sweep"
        BY <1>0, <4>1 DEF TypeOK
      <4>6. FilesFit(p)'
        BY <1>0, <2>1, <4>2, <4>4, <4>5 DEF FilesFit, MayDrop, Holding
      <4> QED
        BY <4>3, <4>6
    <3>2. CASE pc' = [pc EXCEPT ![p] = "request"] /\ UNCHANGED <<on, mine, todo, renewed>>
      BY <1>0, <2>1, <2>2, <3>2 DEF PlaceInHand, OnlyBy, FilesFit, MayDrop, Holding, TypeOK
    <3>3. CASE Stop(p)
      BY <1>0, <3>3, StoppedTypes DEF FilesFit, MayDrop, Holding
    <3> QED
      BY <1>18, <3>1, <3>2, <3>3 DEF Attach
  <2> QED
    BY <1>0, <2>1, <2>3, <2>4, OnesFilesFit
<1>19. ASSUME NEW p \in Procs, Request(p) PROVE FilesInv'
  BY <1>1, <1>19 DEF Request
<1>20. ASSUME NEW p \in Procs, Raise(p) \/ TaskDies(p) PROVE FilesInv'
  BY <1>1, <1>20 DEF Raise, TaskDies
<1>21. ASSUME NEW p \in Procs, SaveOwn(p) PROVE FilesInv'
  <2> DEFINE row == [Ensured(on[p]) EXCEPT !.issuer = "own", !.status = "active",
                                           !.at = "ssl", !.auto = FALSE]
  <2>1. /\ cert' = [cert EXCEPT ![on[p]] = row] /\ UNCHANGED site
        /\ mine' = [mine EXCEPT ![p] = CopyOf(row)]
        /\ pc' = [pc EXCEPT ![p] = "note"]
        /\ UNCHANGED <<disk, on, todo, renewed>> /\ pc[p] = "save"
    BY <1>21 DEF SaveOwn, SaveEnsured
  <2>2. row.at = "ssl" /\ CopyOf(row).at = "ssl"
    <3>1. IsARow(Ensured(on[p]))
      BY <1>0, EnsuredIsARow DEF TypeInv, TypeOK
    <3> QED
      BY <3>1 DEF IsARow, Certs, CopyOf
  <2> HIDE DEF row
  <2>3. disk[on[p]]["ssl"] # None /\ p \notin Sweepers
    BY <1>0, <2>1, RolesAssumption DEF FilesFit, MayDrop, Holding, PlaceInHand
  <2>4. OnlyBy(p) /\ pc'[p] = "note" /\ mine'[p].at = "ssl"
    BY <1>0, <2>1, <2>2 DEF OnlyBy, TypeOK
  <2>5. FilesFit(p)'
    BY <1>0, <2>1, <2>3, <2>4 DEF FilesFit, MayDrop, Holding, PlaceInHand
  <2>6. \A d \in Domains : \/ cert'[d].at = cert[d].at
                           \/ disk'[d][cert'[d].at] # None
    BY <1>0, <2>1, <2>2, <2>3 DEF TypeOK
  <2> QED
    BY <1>0, <2>1, <2>4, <2>5, <2>6, OnesFilesFit
<1>22. ASSUME NEW d \in Domains, EditAuto(d) PROVE FilesInv'
  <2>1. \A e \in Domains : cert'[e].at = cert[e].at
    BY <1>0, <1>22 DEF EditAuto, TypeOK, Certs
  <2> QED
    BY <1>0, <1>22, <2>1, UntouchedFiles DEF EditAuto
<1>23. ASSUME UNCHANGED <<rows, procs>> PROVE FilesInv'
  BY <1>0, <1>23, UntouchedFiles
<1>24. ASSUME NEW d \in Domains, HostRenews(d) PROVE FilesInv'
  BY <1>23, <1>24 DEF HostRenews
<1>25. ASSUME NEW v \in Versions, GrowOld(v) PROVE FilesInv'
  BY <1>23, <1>25 DEF GrowOld
<1>26. CASE Deploy \/ UNCHANGED vars
  BY <1>23, <1>26 DEF Deploy, vars
<1> QED
  BY <1>4, <1>5, <1>6, <1>7, <1>8, <1>9, <1>10, <1>11, <1>12, <1>13, <1>14, <1>15, <1>16,
     <1>17, <1>18, <1>19, <1>20, <1>21, <1>22, <1>24, <1>25, <1>26
     DEF Next, IssueStep, SweepStep, SyncStep

\* The types and the files hold each other up: a step keeps the types only
\* where the files are that it looks at.
LEMMA TypesAndFiles == Spec => [](TypeInv /\ FilesInv)
<1>1. Init => FilesInv
  <2> SUFFICES ASSUME Init PROVE FilesInv
    OBVIOUS
  <2>1. \A d \in Domains : cert[d].at = "none" /\ ~site[d].ssl /\ site[d].at = "none"
    BY DEF Init, NoCert
  <2>2. \A p \in Procs : pc[p] = "idle" /\ renewed[p] = {}
    BY DEF Init
  <2> QED
    BY <2>1, <2>2 DEF Init, FilesInv, FilesAreThere, FilesFit, MayDrop, Holding
<1> QED
  BY <1>1, TypeInit, TypeNext, FilesNext, PTL DEF Spec

\* Every variable keeps its type, for any domains, processes and versions and
\* with any fault: a process whose row is deleted and created anew under it
\* writes nothing that is not a row.
THEOREM TypeCorrect == Spec => []TypeOK
BY TypesAndFiles, PTL DEF TypeInv

\* What a row or a domain points at has been written, in every course: neither
\* tasks that overlap nor a deletion in the middle of one leave Nginx with the
\* path of a file that is not there.
THEOREM PathsLeadToFiles == Spec => []FilesAreThere
BY TypesAndFiles, PTL DEF FilesInv

-----------------------------------------------------------------------------
(* Busy rows.                                                              *)

\* In a step of one process a row is or becomes no longer busy, or is known to be
\* left busy, or keeps its worker, or gets that process for a worker.
LEMMA OnesBusyFit ==
  ASSUME BusyInv, NEW p \in Procs, OnlyBy(p), CalmFit(p)',
         \A d \in Domains :
           \/ cert'[d].status \notin Busy
           \/ d \in adrift'
           \/ Works(p, d)'
           \/ /\ cert'[d].status = cert[d].status /\ cert'[d].pk = cert[d].pk
              /\ ~Works(p, d) /\ d \notin adrift
  PROVE  BusyInv'
<1>1. \A q \in Procs : CalmFit(q)'
  BY DEF BusyInv, CalmFit, OnlyBy
<1>2. ASSUME NEW d \in Domains, d \notin adrift', cert'[d].status \in Busy
      PROVE  \E q \in Procs : Works(q, d)'
  <2>1. CASE Works(p, d)'
    BY <2>1
  <2>2. CASE /\ cert'[d].status = cert[d].status /\ cert'[d].pk = cert[d].pk
             /\ ~Works(p, d) /\ d \notin adrift
    <3>1. PICK q \in Procs : Works(q, d)
      BY <1>2, <2>2 DEF BusyInv, BusyHasWorker, Works
    <3>2. Works(q, d)'
      BY <2>2, <3>1 DEF Works, UnderWay, OnlyBy
    <3> QED
      BY <3>2
  <2> QED
    BY <1>2, <2>1, <2>2
<1> QED
  BY <1>1, <1>2 DEF BusyInv, BusyHasWorker, Works

\* A step of no process leaves the workers at work.
LEMMA UntouchedBusyFit ==
  ASSUME BusyInv, UNCHANGED <<adrift, procs>>,
         \A d \in Domains : cert'[d].status = cert[d].status /\ cert'[d].pk = cert[d].pk
  PROVE  BusyInv'
<1>1. \A q \in Procs : CalmFit(q)'
  BY DEF BusyInv, CalmFit, procs
<1>2. ASSUME NEW d \in Domains \ adrift, cert'[d].status \in Busy
      PROVE  \E q \in Procs : Works(q, d)'
  <2>1. PICK q \in Procs : Works(q, d)
    BY <1>2 DEF BusyInv, BusyHasWorker, Works
  <2> QED
    BY <2>1 DEF Works, UnderWay, procs
<1> QED
  BY <1>1, <1>2 DEF BusyInv, BusyHasWorker, Works

\* Every step leaves a busy row its worker, or sets it adrift.
LEMMA BusyNext == TypeInv /\ FilesInv /\ BusyInv /\ [Next]_vars => BusyInv'
<1> SUFFICES ASSUME TypeInv, FilesInv, BusyInv, [Next]_vars PROVE BusyInv'
  OBVIOUS
<1> USE DEF Goto, rows, files, nginx
<1>0. TypeOK /\ RowsInv /\ \A p \in Procs : CopiesFit(p) /\ CalmFit(p)
  BY DEF TypeInv, CopiesInv, BusyInv
\* The end of a process that works at nothing, or whose row is known to be left,
<1>1. ASSUME NEW p \in Procs, Stop(p), UNCHANGED cert, adrift \subseteq adrift',
             \A d \in Domains : cert[d].status \in Busy /\ Works(p, d) => d \in adrift'
      PROVE  BusyInv'
  <2>1. OnlyBy(p) /\ CalmFit(p)'
    BY <1>0, <1>1, StoppedTypes DEF CalmFit
  <2> QED
    BY <1>1, <2>1, OnesBusyFit
\* a step of one, that leaves the rows alone,
<1>2. ASSUME NEW p \in Procs, OnlyBy(p), UNCHANGED <<cert, adrift>>,
             pc'[p] # "note", ~UnderWay(p)
      PROVE  BusyInv'
  <2>1. CalmFit(p)'
    BY <1>2 DEF CalmFit
  <2> QED
    BY <1>2, <2>1, OnesBusyFit DEF Works
\* a mark,
<1>3. ASSUME NEW p \in Procs, NEW d \in Domains, Mark(p, d), ~UnderWay(p), renewed' = renewed,
             \A q \in Procs : q # p => todo'[q] = todo[q]
      PROVE  BusyInv'
  <2> DEFINE row == Marked(Ensured(d))
  <2>1. IsARow(row)
    BY <1>0, EnsuredIsARow, ChangedRows
  <2>2. CopyOf(row).pk = row.pk
    BY <2>1, CopyIsACopy DEF IsARow
  <2>3. /\ cert' = [cert EXCEPT ![d] = row] /\ mine' = [mine EXCEPT ![p] = CopyOf(row)]
        /\ pc' = [pc EXCEPT ![p] = "certbot"] /\ on' = [on EXCEPT ![p] = d]
        /\ adrift' = adrift \ {d}
    BY <1>3 DEF Mark, SaveEnsured
  <2> HIDE DEF row
  <2>4. OnlyBy(p) /\ CalmFit(p)'
    BY <1>0, <1>3, <2>3 DEF OnlyBy, CalmFit, TypeOK
  <2>5. Works(p, d)'
    BY <1>0, <2>2, <2>3 DEF Works, UnderWay, TypeOK
  <2>6. \A e \in Domains : e # d => cert'[e] = cert[e]
    BY <1>0, <2>3 DEF TypeOK
  <2>7. \A e \in Domains : ~Works(p, e)
    BY <1>3 DEF Works
  <2> QED
    BY <2>3, <2>4, <2>5, <2>6, <2>7, OnesBusyFit
\* and a write of a row that is not busy.
<1>4. ASSUME NEW p \in Procs, NEW d \in Domains, NEW row, cert' = [cert EXCEPT ![d] = row],
             row.status \notin Busy, OnlyBy(p), CalmFit(p)', adrift \ {d} \subseteq adrift',
             \A e \in Domains : e # d => ~Works(p, e)
      PROVE  BusyInv'
  <2>1. \A e \in Domains : IF e = d THEN cert'[e] = row ELSE cert'[e] = cert[e]
    BY <1>0, <1>4 DEF TypeOK
  <2> QED
    BY <1>4, <2>1, OnesBusyFit
<1>5. ASSUME NEW p \in Workers, NEW d \in Domains, StartIssue(p, d) PROVE BusyInv'
  BY <1>3, <1>5 DEF StartIssue, Procs, UnderWay
<1>6. ASSUME NEW p \in Workers, NEW d \in Domains, StartOwn(p, d) PROVE BusyInv'
  BY <1>0, <1>2, <1>6 DEF StartOwn, OnlyBy, UnderWay, TypeOK, Procs
<1>7. ASSUME NEW p \in Sweepers, StartSweep(p) PROVE BusyInv'
  BY <1>0, <1>2, <1>7 DEF StartSweep, OnlyBy, UnderWay, TypeOK, Procs
<1>8. ASSUME NEW p \in Sweepers, NEW d \in Domains, RenewNext(p, d) PROVE BusyInv'
  <2>1. ~UnderWay(p) /\ \A q \in Procs : q # p => todo'[q] = todo[q]
    BY <1>0, <1>8 DEF RenewNext, UnderWay, TypeOK
  <2> QED
    BY <1>3, <1>8, <2>1 DEF RenewNext, Procs
<1>9. ASSUME NEW p \in Sweepers, EndSweep(p) PROVE BusyInv'
  BY <1>1, <1>9 DEF EndSweep, UnderWay, Works, Procs
<1>10. ASSUME NEW p \in Syncers, StartSync(p) PROVE BusyInv'
  BY <1>0, <1>2, <1>10 DEF StartSync, OnlyBy, UnderWay, TypeOK, Procs
<1>11. ASSUME NEW p \in Syncers, NEW d \in Domains, SyncNext(p, d) PROVE BusyInv'
  <2> p \in Procs
    BY DEF Procs
  <2>1. pc[p] = "sync" /\ d \in DOMAIN todo[p] /\ \A e \in Domains : ~Works(p, e)
    BY <1>11 DEF SyncNext, Works, UnderWay
  <2>2. CASE IsThere(d, todo[p][d])
    <3>1. /\ cert' = [cert EXCEPT ![d] = Noted(d, todo[p][d])]
          /\ adrift' = IF StatusNoted(d, todo[p][d]) \in Busy
                       THEN adrift \cup {d} ELSE adrift \ {d}
          /\ todo' = [todo EXCEPT ![p] = Restrict(@, DOMAIN @ \ {d})]
          /\ UNCHANGED <<pc, on, mine, renewed>>
      BY <1>11, <2>2 DEF SyncNext
    <3>2. HasAPath(d, todo[p][d]) /\ todo[p][d] \in Copies
      BY <1>0, <2>1, PartialDef DEF CopiesFit, TypeOK
    <3>3. Noted(d, todo[p][d]).status = StatusNoted(d, todo[p][d])
      BY <1>0, <2>2, <3>2, NotedIsARow
    <3>4. cert'[d].status \in Busy => d \in adrift'
      BY <1>0, <3>1, <3>3 DEF TypeOK
    <3>5. \A e \in Domains : e # d => cert'[e] = cert[e] /\ (e \in adrift => e \in adrift')
      BY <1>0, <3>1 DEF TypeOK
    <3>6. OnlyBy(p)
      BY <1>0, <3>1 DEF OnlyBy, TypeOK
    <3>7. CalmFit(p)'
      BY <2>1, <3>1 DEF CalmFit
    <3> QED
      BY <2>1, <3>4, <3>5, <3>6, <3>7, OnesBusyFit
  <2>3. CASE ~IsThere(d, todo[p][d])
    BY <1>1, <1>11, <2>1, <2>3 DEF SyncNext
  <2> QED
    BY <2>2, <2>3
<1>12. ASSUME NEW p \in Syncers, EndSync(p) PROVE BusyInv'
  BY <1>1, <1>12 DEF EndSync, UnderWay, Works, Procs
<1>13. ASSUME NEW p \in Deleters, NEW d \in Domains, StartDelete(p, d) PROVE BusyInv'
  BY <1>0, <1>2, <1>13 DEF StartDelete, OnlyBy, UnderWay, TypeOK, Procs
<1>14. ASSUME NEW p \in Deleters, Drop(p) PROVE BusyInv'
  <2>1. /\ \/ cert' = cert /\ adrift' = adrift
           \/ cert' = [cert EXCEPT ![on[p]] = NoCert] /\ adrift' = adrift \ {on[p]}
        /\ OnlyBy(p) /\ pc'[p] = "request" /\ ~UnderWay(p) /\ on[p] \in Domains /\ p \in Procs
    BY <1>0, <1>14 DEF Drop, OnlyBy, UnderWay, TypeOK, Procs
  <2>2. CASE cert' = cert /\ adrift' = adrift
    BY <1>2, <2>1, <2>2
  <2>3. CASE cert' = [cert EXCEPT ![on[p]] = NoCert] /\ adrift' = adrift \ {on[p]}
    <3>1. NoCert.status \notin Busy
      BY DEF NoCert, Busy
    <3>2. CalmFit(p)' /\ \A e \in Domains : ~Works(p, e)
      BY <2>1 DEF CalmFit, Works
    <3> QED
      BY <1>4, <2>1, <2>3, <3>1, <3>2
  <2> QED
    BY <2>1, <2>2, <2>3
<1>15. ASSUME NEW p \in Procs, CertbotSucceeds(p) PROVE BusyInv'
  <2>1. OnlyBy(p) /\ UNCHANGED <<cert, adrift>> /\ pc[p] = "certbot" /\ pc'[p] = "record" /\ UNCHANGED <<on, mine>>
    BY <1>0, <1>15 DEF CertbotSucceeds, OnlyBy, TypeOK
  <2>2. CalmFit(p)' /\ \A d \in Domains : Works(p, d) => Works(p, d)'
    BY <2>1 DEF CalmFit, Works, UnderWay
  <2> QED
    BY <2>1, <2>2, OnesBusyFit
<1>16. ASSUME NEW p \in Procs, CertbotFails(p) PROVE BusyInv'
  <2>1. /\ cert' = [cert EXCEPT ![on[p]] = Failed(cert[on[p]])] /\ AfterFailure(p)
        /\ adrift' = adrift \ {on[p]}
    BY <1>16 DEF CertbotFails, Write
  <2>2. Failed(cert[on[p]]).status \notin Busy
    BY <1>0, ChangedRows DEF TypeOK, IsARow
  <2>3. OnlyBy(p) /\ CalmFit(p)'
    <3>1. CASE pc' = [pc EXCEPT ![p] = "sweep"] /\ UNCHANGED <<on, mine, todo, renewed>>
      BY <1>0, <3>1 DEF OnlyBy, CalmFit, TypeOK
    <3>2. CASE Stop(p)
      BY <1>0, <3>2, StoppedTypes DEF CalmFit
    <3> QED
      BY <2>1, <3>1, <3>2 DEF AfterFailure
  <2>4. on[p] \in Domains /\ \A d \in Domains : d # on[p] => ~Works(p, d)
    BY <1>0 DEF Works, TypeOK
  <2> QED
    BY <1>4, <2>1, <2>2, <2>3, <2>4
<1>17. ASSUME NEW p \in Procs, Record(p) PROVE BusyInv'
  <2>1. /\ cert' = [cert EXCEPT ![on[p]] = Recorded(cert[on[p]])] /\ adrift' = adrift \ {on[p]}
        /\ mine' = [mine EXCEPT ![p] = Recorded(@)] /\ pc' = [pc EXCEPT ![p] = "note"]
        /\ UNCHANGED <<on, todo, renewed>>
    BY <1>17 DEF Record, Write
  <2>2. Recorded(cert[on[p]]).status \notin Busy /\ Recorded(mine[p]).status \notin Busy
    BY <1>0 DEF Recorded, Busy, TypeOK, Certs, Copies
  <2>3. OnlyBy(p) /\ CalmFit(p)'
    BY <1>0, <2>1, <2>2 DEF OnlyBy, CalmFit, TypeOK
  <2>4. on[p] \in Domains /\ \A d \in Domains : d # on[p] => ~Works(p, d)
    BY <1>0 DEF Works, TypeOK
  <2> QED
    BY <1>4, <2>1, <2>2, <2>3, <2>4
<1>18. ASSUME NEW p \in Procs, Note(p) PROVE BusyInv'
  <2>1. /\ cert' = [cert EXCEPT ![on[p]] = Noted(on[p], mine[p])] /\ adrift' = adrift \ {on[p]}
        /\ mine' = [mine EXCEPT ![p].status = StatusNoted(on[p], mine[p])]
        /\ pc' = [pc EXCEPT ![p] = "attach"]
        /\ UNCHANGED <<on, todo, renewed>> /\ pc[p] = "note" /\ IsThere(on[p], mine[p])
    BY <1>18 DEF Note, Write
  <2>2. Noted(on[p], mine[p]).status \notin Busy
    BY <1>0, <2>1, NotedIsARow DEF CopiesFit, CalmFit, TypeOK
  <2>3. OnlyBy(p) /\ CalmFit(p)'
    BY <1>0, <2>1 DEF OnlyBy, CalmFit, TypeOK
  <2>4. on[p] \in Domains /\ \A d \in Domains : d # on[p] => ~Works(p, d)
    BY <1>0 DEF Works, TypeOK
  <2> QED
    BY <1>4, <2>1, <2>2, <2>3, <2>4
<1>19. ASSUME NEW p \in Procs, Attach(p) PROVE BusyInv'
  <2>1. pc[p] = "attach" /\ UNCHANGED <<cert, adrift>>
    BY <1>19 DEF Attach
  <2>2. CASE Stop(p)
    BY <1>1, <2>1, <2>2 DEF UnderWay, Works
  <2>3. CASE \E step \in {"sweep", "request"} :
               pc' = [pc EXCEPT ![p] = step] /\ UNCHANGED <<on, mine, todo>>
             /\ \A q \in Procs : q # p => renewed'[q] = renewed[q]
    BY <1>0, <1>2, <2>1, <2>3 DEF OnlyBy, UnderWay, TypeOK
  <2>4. CASE p \in Sweepers
    <3>1. /\ pc' = [pc EXCEPT ![p] = "sweep"] /\ UNCHANGED <<on, mine, todo>>
          /\ \/ renewed' = [renewed EXCEPT ![p] = @ \cup {on[p]}]
             \/ renewed' = renewed
      BY <1>19, <2>4 DEF Attach
    <3>2. \A q \in Procs : q # p => renewed'[q] = renewed[q]
      BY <1>0, <3>1 DEF TypeOK
    <3> QED
      BY <2>3, <3>1, <3>2
  <2> QED
    BY <1>19, <2>2, <2>3, <2>4 DEF Attach
<1>20. ASSUME NEW p \in Procs, Request(p) PROVE BusyInv'
  BY <1>1, <1>20 DEF Request, UnderWay, Works
<1>21. ASSUME NEW p \in Procs, Raise(p) PROVE BusyInv'
  BY <1>1, <1>21 DEF Raise, IsThere, Works
<1>28. ASSUME NEW p \in Procs, TaskDies(p) PROVE BusyInv'
  <2>1. /\ Stop(p) /\ UNCHANGED cert
        /\ adrift' = IF UnderWay(p) /\ cert[on[p]].status \in Busy
                     THEN adrift \cup {on[p]} ELSE adrift
    BY <1>28 DEF TaskDies
  <2>2. \A d \in Domains : cert[d].status \in Busy /\ Works(p, d) => d \in adrift'
    BY <2>1 DEF Works
  <2> QED
    BY <1>1, <2>1, <2>2
<1>22. ASSUME NEW p \in Procs, SaveOwn(p) PROVE BusyInv'
  <2> DEFINE row == [Ensured(on[p]) EXCEPT !.issuer = "own", !.status = "active",
                                           !.at = "ssl", !.auto = FALSE]
  <2>1. /\ cert' = [cert EXCEPT ![on[p]] = row] /\ adrift' = adrift \ {on[p]}
        /\ mine' = [mine EXCEPT ![p] = CopyOf(row)]
        /\ pc' = [pc EXCEPT ![p] = "note"]
        /\ UNCHANGED <<on, todo, renewed>>
    BY <1>22 DEF SaveOwn, SaveEnsured
  <2>2. row.status \notin Busy /\ CopyOf(row).status \notin Busy
    <3>1. IsARow(Ensured(on[p]))
      BY <1>0, EnsuredIsARow DEF TypeOK
    <3> QED
      BY <3>1 DEF IsARow, Certs, CopyOf, Busy
  <2> HIDE DEF row
  <2>3. OnlyBy(p) /\ CalmFit(p)'
    BY <1>0, <2>1, <2>2 DEF OnlyBy, CalmFit, TypeOK
  <2>4. on[p] \in Domains /\ \A d \in Domains : d # on[p] => ~Works(p, d)
    BY <1>0 DEF Works, TypeOK
  <2> QED
    BY <1>4, <2>1, <2>2, <2>3, <2>4
<1>23. ASSUME NEW d \in Domains, EditAuto(d) PROVE BusyInv'
  <2>1. \A e \in Domains : cert'[e].status = cert[e].status /\ cert'[e].pk = cert[e].pk
    BY <1>0, <1>23 DEF EditAuto, TypeOK, Certs
  <2> QED
    BY <1>23, <2>1, UntouchedBusyFit DEF EditAuto
<1>24. ASSUME UNCHANGED <<cert, adrift, procs>> PROVE BusyInv'
  BY <1>24, UntouchedBusyFit
<1>25. ASSUME NEW d \in Domains, HostRenews(d) PROVE BusyInv'
  BY <1>24, <1>25 DEF HostRenews
<1>26. ASSUME NEW v \in Versions, GrowOld(v) PROVE BusyInv'
  BY <1>24, <1>26 DEF GrowOld
<1>27. CASE Deploy \/ UNCHANGED vars
  BY <1>24, <1>27 DEF Deploy, vars
<1> QED
  BY <1>5, <1>6, <1>7, <1>8, <1>9, <1>10, <1>11, <1>12, <1>13, <1>14, <1>15, <1>16, <1>17,
     <1>18, <1>19, <1>20, <1>21, <1>22, <1>23, <1>25, <1>26, <1>27, <1>28
     DEF Next, IssueStep, SweepStep, SyncStep

\* A row that says an issuance is under way has a process at it, whatever rows
\* are deleted and created meanwhile and whichever tasks overlap; or the last who
\* wrote so was the synchronisation, or the task that did died at it.
THEOREM BusyRowsAreWorkedOn == Spec => []BusyHasWorker
<1>1. Init => BusyInv
  <2> SUFFICES ASSUME Init PROVE BusyInv
    OBVIOUS
  <2>1. \A d \in Domains : cert[d].status \notin Busy
    BY DEF Init, NoCert, Busy
  <2>2. \A p \in Procs : pc[p] = "idle"
    BY DEF Init
  <2> QED
    BY <2>1, <2>2 DEF BusyInv, BusyHasWorker, CalmFit
<1> QED
  BY <1>1, BusyNext, TypesAndFiles, PTL DEF Spec, BusyInv

-----------------------------------------------------------------------------
(* What processes have in hand.                                            *)

\* New material is fresh, and nothing else grows younger or older.
MaterialStep ==
  /\ UNCHANGED age
  /\ \/ UNCHANGED <<disk, made>>
     \/ \E d \in Domains, place \in {"live", "ssl"} : MakeVersion(d, place)

\* In such a step a file stays as it was or is fresh.
LEMMA MaterialIsFresh ==
  ASSUME TypeOK, AgeInv, MaterialStep
  PROVE  /\ \A v \in Versions : v > made' => age'[v] = "fresh"
         /\ \A d \in Domains, place \in {"live", "ssl"} :
              \/ disk'[d][place] = disk[d][place]
              \/ age'[disk'[d][place]] = "fresh"
<1>1. CASE UNCHANGED <<disk, made>>
  BY <1>1 DEF AgeInv, MaterialStep
<1>2. ASSUME NEW d \in Domains, NEW place \in {"live", "ssl"}, MakeVersion(d, place)
      PROVE  /\ \A v \in Versions : v > made' => age'[v] = "fresh"
             /\ \A e \in Domains, x \in {"live", "ssl"} :
                  disk'[e][x] = disk[e][x] \/ age'[disk'[e][x]] = "fresh"
  <2>1. /\ made' = made + 1 /\ made + 1 \in Versions /\ made \in Nat
        /\ disk'[d][place] = made + 1
        /\ \A e \in Domains, x \in {"live", "ssl"} :
             e # d \/ x # place => disk'[e][x] = disk[e][x]
    BY <1>2, VersionIsMade, BoundsAssumption DEF TypeOK
  <2>2. age' = age /\ \A v \in Versions : v > made => age[v] = "fresh"
    BY DEF MaterialStep, AgeInv
  <2>3. made + 1 > made
    BY <2>1
  <2>4. age[made + 1] = "fresh"
    BY <2>1, <2>2, <2>3
  <2>5. \A v \in Versions : v > made' => v > made
    BY <2>1 DEF Versions
  <2> QED
    BY <2>1, <2>2, <2>4, <2>5
<1> QED
  BY <1>1, <1>2 DEF MaterialStep

\* What a process has in hand is somewhere.
LEMMA HandsAreSomewhere ==
  ASSUME TypeInv, NEW q \in Procs, MayDrop(q)
  PROVE  on[q] \in Domains /\ PlaceInHand(q) \in {"live", "ssl"}
<1>1. mine[q].at \in Places /\ on[q] \in Domains
  BY DEF TypeInv, TypeOK, Copies
<1>2. pc[q] \in {"note", "attach"} \/ (pc[q] = "request" /\ q \in Workers)
        => mine[q].at # "none"
  BY DEF TypeInv, CopiesInv, CopiesFit, HasAPath
<1> QED
  BY <1>1, <1>2 DEF MayDrop, Holding, PlaceInHand, Places

\* What a process has in hand stays right in the steps of the others.
LEMMA OthersHandsFit ==
  ASSUME TypeInv, HandsInv, MaterialStep, NEW q \in Procs,
         pc'[q] = pc[q], on'[q] = on[q], mine'[q] = mine[q], renewed'[q] = renewed[q]
  PROVE  AgeFit(q)' /\ RolesFit(q)'
<1>1. RolesFit(q)'
  BY DEF HandsInv, RolesFit
<1>2. ASSUME Holding(q)' PROVE age'[disk'[on'[q]][PlaceInHand(q)']] # "expired"
  <2>1. Holding(q) /\ PlaceInHand(q)' = PlaceInHand(q)
    BY <1>2 DEF Holding, PlaceInHand
  <2>2. age[disk[on[q]][PlaceInHand(q)]] # "expired" /\ age' = age
    BY <2>1 DEF HandsInv, AgeInv, AgeFit, MaterialStep
  <2>3. \/ disk'[on[q]][PlaceInHand(q)] = disk[on[q]][PlaceInHand(q)]
        \/ age'[disk'[on[q]][PlaceInHand(q)]] = "fresh"
    BY <2>1, HandsAreSomewhere, MaterialIsFresh DEF TypeInv, HandsInv, MayDrop
  <2> QED
    BY <2>1, <2>2, <2>3
<1> QED
  BY <1>1, <1>2 DEF AgeFit

\* So a step of one process is right if what it has in hand afterwards is.
LEMMA OnesHandsFit ==
  ASSUME TypeInv, HandsInv, MaterialStep, NEW p \in Procs, OnlyBy(p),
         AgeFit(p)', RolesFit(p)'
  PROVE  HandsInv'
<1>1. \A q \in Procs : AgeFit(q)' /\ RolesFit(q)'
  BY OthersHandsFit DEF OnlyBy
<1> QED
  BY <1>1, MaterialIsFresh DEF HandsInv, AgeInv, TypeInv

\* What is in hand stays unexpired, and what is attached active.
LEMMA HandsNext == TypeInv /\ FilesInv /\ HandsInv /\ [Next]_vars => HandsInv'
<1> SUFFICES ASSUME TypeInv, FilesInv, HandsInv, [Next]_vars PROVE HandsInv'
  OBVIOUS
<1> USE DEF Goto, rows, files, nginx
<1>0. TypeOK /\ \A p \in Procs : CopiesFit(p) /\ FilesFit(p) /\ AgeFit(p) /\ RolesFit(p)
  BY DEF TypeInv, CopiesInv, FilesInv, HandsInv, AgeInv
<1>1. ASSUME NEW p \in Procs, Stop(p), UNCHANGED <<disk, age, made>> PROVE HandsInv'
  <2>1. OnlyBy(p) /\ AgeFit(p)' /\ RolesFit(p)'
    BY <1>0, <1>1, StoppedTypes DEF AgeFit, RolesFit, Holding
  <2> QED
    BY <1>1, <2>1, OnesHandsFit DEF MaterialStep
<1>2. ASSUME NEW p \in Procs, OnlyBy(p), MaterialStep, renewed'[p] = renewed[p],
             pc'[p] \notin {"record", "save", "note", "attach"},
             \/ pc'[p] \in {"sweep", "certbot"}
             \/ pc[p] \notin {"sweep", "certbot", "record", "note", "attach"}
             \/ p \notin Sweepers
      PROVE  HandsInv'
  <2>1. AgeFit(p)' /\ RolesFit(p)'
    BY <1>0, <1>2 DEF AgeFit, RolesFit, Holding
  <2> QED
    BY <1>2, <2>1, OnesHandsFit
<1>3. ASSUME NEW p \in Workers, NEW d \in Domains, StartIssue(p, d) PROVE HandsInv'
  BY <1>0, <1>2, <1>3 DEF StartIssue, Mark, OnlyBy, MaterialStep, TypeOK, Procs
<1>4. ASSUME NEW p \in Workers, NEW d \in Domains, StartOwn(p, d) PROVE HandsInv'
  <2> p \in Procs
    BY DEF Procs
  <2>1. /\ MakeVersion(d, "ssl") /\ age' = age /\ pc[p] = "idle"
        /\ OnlyBy(p) /\ pc'[p] = "save" /\ on'[p] = d /\ UNCHANGED <<mine, renewed>>
    BY <1>0, <1>4 DEF StartOwn, OnlyBy, TypeOK
  <2>2. age'[disk'[d]["ssl"]] = "fresh"
    <3>1. disk'[d]["ssl"] = made + 1 /\ made + 1 \in Versions /\ made + 1 > made
      BY <1>0, <2>1, VersionIsMade, BoundsAssumption DEF TypeOK
    <3> QED
      BY <2>1, <3>1 DEF HandsInv, AgeInv
  <2>3. AgeFit(p)' /\ RolesFit(p)'
    BY <1>0, <2>1, <2>2 DEF AgeFit, RolesFit, Holding, PlaceInHand
  <2> QED
    BY <2>1, <2>3, OnesHandsFit DEF MaterialStep
<1>5. ASSUME NEW p \in Sweepers, StartSweep(p) PROVE HandsInv'
  BY <1>0, <1>2, <1>5 DEF StartSweep, OnlyBy, MaterialStep, TypeOK, Procs
<1>6. ASSUME NEW p \in Sweepers, NEW d \in Domains, RenewNext(p, d) PROVE HandsInv'
  BY <1>0, <1>2, <1>6 DEF RenewNext, Mark, OnlyBy, MaterialStep, TypeOK, Procs
<1>7. ASSUME NEW p \in Sweepers, EndSweep(p) PROVE HandsInv'
  BY <1>1, <1>7 DEF EndSweep, Procs
<1>8. ASSUME NEW p \in Syncers, StartSync(p) PROVE HandsInv'
  BY <1>0, <1>2, <1>8 DEF StartSync, OnlyBy, MaterialStep, TypeOK, Procs
<1>9. ASSUME NEW p \in Syncers, NEW d \in Domains, SyncNext(p, d) PROVE HandsInv'
  <2>1. CASE IsThere(d, todo[p][d])
    <3>1. /\ pc[p] = "sync" /\ UNCHANGED <<disk, age, made, pc, on, mine, renewed>>
          /\ todo' = [todo EXCEPT ![p] = Restrict(@, DOMAIN @ \ {d})]
      BY <1>9, <2>1 DEF SyncNext
    <3>2. OnlyBy(p) /\ MaterialStep /\ p \in Procs
      BY <1>0, <3>1 DEF OnlyBy, MaterialStep, TypeOK, Procs
    <3> QED
      BY <1>2, <3>1, <3>2
  <2>2. CASE ~IsThere(d, todo[p][d])
    BY <1>1, <1>9, <2>2 DEF SyncNext, Procs
  <2> QED
    BY <2>1, <2>2
<1>10. ASSUME NEW p \in Syncers, EndSync(p) PROVE HandsInv'
  BY <1>1, <1>10 DEF EndSync, Procs
<1>11. ASSUME NEW p \in Deleters, NEW d \in Domains, StartDelete(p, d) PROVE HandsInv'
  BY <1>0, <1>2, <1>11 DEF StartDelete, OnlyBy, MaterialStep, TypeOK, Procs
<1>12. ASSUME NEW p \in Deleters, Drop(p) PROVE HandsInv'
  BY <1>0, <1>2, <1>12 DEF Drop, OnlyBy, MaterialStep, TypeOK, Procs
<1>13. ASSUME NEW p \in Procs, CertbotSucceeds(p) PROVE HandsInv'
  <2>1. /\ age' = age /\ pc[p] = "certbot" /\ OnlyBy(p) /\ pc'[p] = "record"
        /\ UNCHANGED <<on, mine, renewed>>
    BY <1>0, <1>13 DEF CertbotSucceeds, OnlyBy, TypeOK
  <2>2. MaterialStep /\ age'[disk'[on[p]]["live"]] = "fresh"
    <3>1. CASE MakeVersion(on[p], "live")
      <4>1. disk'[on[p]]["live"] = made + 1 /\ made + 1 \in Versions /\ made + 1 > made
        BY <1>0, <3>1, VersionIsMade, BoundsAssumption DEF TypeOK
      <4> QED
        BY <1>0, <2>1, <3>1, <4>1 DEF HandsInv, AgeInv, MaterialStep, TypeOK
    <3>2. CASE age[disk[on[p]]["live"]] = "fresh" /\ UNCHANGED <<disk, made>>
      BY <2>1, <3>2 DEF MaterialStep
    <3> QED
      BY <1>13, <3>1, <3>2 DEF CertbotSucceeds
  <2>3. AgeFit(p)' /\ RolesFit(p)'
    BY <1>0, <2>1, <2>2 DEF AgeFit, RolesFit, Holding, PlaceInHand
  <2> QED
    BY <2>1, <2>2, <2>3, OnesHandsFit
<1>14. ASSUME NEW p \in Procs, CertbotFails(p) PROVE HandsInv'
  <2>1. UNCHANGED <<disk, age, made>> /\ AfterFailure(p) /\ pc[p] = "certbot"
    BY <1>14 DEF CertbotFails
  <2>2. CASE Stop(p)
    BY <1>1, <2>1, <2>2
  <2>3. CASE pc' = [pc EXCEPT ![p] = "sweep"] /\ UNCHANGED <<on, mine, todo, renewed>>
    BY <1>0, <1>2, <2>1, <2>3 DEF OnlyBy, MaterialStep, TypeOK
  <2> QED
    BY <2>1, <2>2, <2>3 DEF AfterFailure
<1>15. ASSUME NEW p \in Procs, Record(p) PROVE HandsInv'
  <2>1. /\ mine' = [mine EXCEPT ![p] = Recorded(@)] /\ pc' = [pc EXCEPT ![p] = "note"]
        /\ UNCHANGED <<disk, age, made, on, todo, renewed>> /\ pc[p] = "record"
    BY <1>15 DEF Record
  <2>2. Recorded(mine[p]).status = "active" /\ Recorded(mine[p]).at = "live"
    BY <1>0 DEF Recorded, TypeOK, Copies
  <2>3. OnlyBy(p) /\ pc'[p] = "note" /\ mine'[p].at = "live" /\ mine'[p].status = "active"
    BY <1>0, <2>1, <2>2 DEF OnlyBy, TypeOK
  <2>4. AgeFit(p)' /\ RolesFit(p)'
    BY <1>0, <2>1, <2>3 DEF AgeFit, RolesFit, Holding, PlaceInHand
  <2> QED
    BY <2>1, <2>3, <2>4, OnesHandsFit DEF MaterialStep
<1>16. ASSUME NEW p \in Procs, Note(p) PROVE HandsInv'
  <2>1. /\ mine' = [mine EXCEPT ![p].status = StatusNoted(on[p], mine[p])]
        /\ pc' = [pc EXCEPT ![p] = "attach"]
        /\ UNCHANGED <<disk, age, made, on, todo, renewed>> /\ pc[p] = "note"
    BY <1>16 DEF Note
  <2>2. StatusNoted(on[p], mine[p]) = "active"
    BY <1>0, <2>1 DEF StatusNoted, AgeFit, RolesFit, Holding, PlaceInHand
  <2>3. /\ OnlyBy(p) /\ pc'[p] = "attach" /\ mine'[p].at = mine[p].at
        /\ mine'[p].status = "active"
    BY <1>0, <2>1, <2>2 DEF OnlyBy, TypeOK, Copies
  <2>4. AgeFit(p)' /\ RolesFit(p)'
    BY <1>0, <2>1, <2>3 DEF AgeFit, RolesFit, Holding, PlaceInHand
  <2> QED
    BY <2>1, <2>3, <2>4, OnesHandsFit DEF MaterialStep
<1>17. ASSUME NEW p \in Procs, Attach(p) PROVE HandsInv'
  <2>1. UNCHANGED <<disk, age, made>> /\ pc[p] = "attach"
    BY <1>17 DEF Attach
  <2>2. CASE Stop(p)
    BY <1>1, <2>1, <2>2
  <2>3. CASE p \in Sweepers
    <3>1. /\ pc' = [pc EXCEPT ![p] = "sweep"] /\ UNCHANGED <<on, mine, todo>>
          /\ \/ renewed' = [renewed EXCEPT ![p] = @ \cup {on[p]}]
             \/ renewed' = renewed
      BY <1>17, <2>3 DEF Attach
    <3>2. OnlyBy(p) /\ pc'[p] = "sweep"
      BY <1>0, <3>1 DEF OnlyBy, TypeOK
    <3>3. AgeFit(p)' /\ RolesFit(p)'
      BY <2>3, <3>2 DEF AgeFit, RolesFit, Holding
    <3> QED
      BY <2>1, <3>2, <3>3, OnesHandsFit DEF MaterialStep
  <2>4. CASE p \notin Sweepers /\ pc' = [pc EXCEPT ![p] = "request"]
             /\ UNCHANGED <<on, mine, todo, renewed>>
    BY <1>0, <1>2, <2>1, <2>4 DEF OnlyBy, MaterialStep, TypeOK
  <2> QED
    BY <1>17, <2>2, <2>3, <2>4 DEF Attach
<1>18. ASSUME NEW p \in Procs, Request(p) PROVE HandsInv'
  BY <1>1, <1>18 DEF Request
<1>19. ASSUME NEW p \in Procs, Raise(p) \/ TaskDies(p) PROVE HandsInv'
  BY <1>1, <1>19 DEF Raise, TaskDies
<1>20. ASSUME NEW p \in Procs, SaveOwn(p) PROVE HandsInv'
  <2> DEFINE row == [Ensured(on[p]) EXCEPT !.issuer = "own", !.status = "active",
                                           !.at = "ssl", !.auto = FALSE]
  <2>1. /\ mine' = [mine EXCEPT ![p] = CopyOf(row)] /\ pc' = [pc EXCEPT ![p] = "note"]
        /\ UNCHANGED <<disk, age, made, on, todo, renewed>> /\ pc[p] = "save"
    BY <1>20 DEF SaveOwn
  <2>2. CopyOf(row).status = "active" /\ CopyOf(row).at = "ssl"
    <3>1. IsARow(Ensured(on[p]))
      BY <1>0, EnsuredIsARow DEF TypeInv, TypeOK
    <3> QED
      BY <3>1 DEF IsARow, Certs, CopyOf
  <2> HIDE DEF row
  <2>3. OnlyBy(p) /\ pc'[p] = "note" /\ mine'[p].at = "ssl" /\ mine'[p].status = "active"
    BY <1>0, <2>1, <2>2 DEF OnlyBy, TypeOK
  <2>4. AgeFit(p)' /\ RolesFit(p)'
    BY <1>0, <2>1, <2>3 DEF AgeFit, RolesFit, Holding, PlaceInHand
  <2> QED
    BY <2>1, <2>3, <2>4, OnesHandsFit DEF MaterialStep
<1>21. ASSUME MaterialStep, UNCHANGED procs PROVE HandsInv'
  <2>1. \A q \in Procs : AgeFit(q)' /\ RolesFit(q)'
    BY <1>21, OthersHandsFit DEF procs
  <2> QED
    BY <1>0, <1>21, <2>1, MaterialIsFresh DEF HandsInv, AgeInv
<1>22. ASSUME NEW d \in Domains, EditAuto(d) \/ HostRenews(d) PROVE HandsInv'
  BY <1>21, <1>22 DEF EditAuto, HostRenews, MaterialStep
<1>23. ASSUME NEW v \in Versions, GrowOld(v) PROVE HandsInv'
  <2>1. /\ v <= made /\ UNCHANGED <<disk, made, procs>>
        /\ age[v] = "fresh" \/ (age[v] = "due" /\ ~InHand(v))
        /\ age' = [age EXCEPT ![v] = IF @ = "fresh" THEN "due" ELSE "expired"]
    BY <1>23 DEF GrowOld
  <2>2. \A w \in Versions : w > made' => age'[w] = "fresh"
    BY <1>0, <2>1, BoundsAssumption DEF HandsInv, AgeInv, TypeOK, Versions
  <2>3. ASSUME NEW q \in Procs PROVE AgeFit(q)' /\ RolesFit(q)'
    <3>1. RolesFit(q)'
      BY <1>0, <2>1 DEF RolesFit, procs
    <3>2. ASSUME Holding(q) PROVE age'[disk[on[q]][PlaceInHand(q)]] # "expired"
      <4>1. on[q] \in Domains /\ PlaceInHand(q) \in {"live", "ssl"}
        BY <3>2, HandsAreSomewhere DEF MayDrop
      <4>2. age[disk[on[q]][PlaceInHand(q)]] # "expired" /\ disk[on[q]][PlaceInHand(q)] \in Versions
        BY <1>0, <3>2, <4>1 DEF AgeFit, FilesFit, MayDrop, TypeOK
      <4>3. disk[on[q]][PlaceInHand(q)] = v => InHand(v)
        BY <3>2, <4>1 DEF InHand, Holding
      <4> QED
        BY <1>0, <2>1, <4>2, <4>3 DEF TypeOK
    <3>3. Holding(q)' = Holding(q) /\ PlaceInHand(q)' = PlaceInHand(q) /\ on' = on /\ disk' = disk
      BY <2>1 DEF Holding, PlaceInHand, procs
    <3> QED
      BY <3>1, <3>2, <3>3 DEF AgeFit
  <2> QED
    BY <2>2, <2>3 DEF HandsInv, AgeInv
<1>24. CASE Deploy \/ UNCHANGED vars
  BY <1>21, <1>24 DEF Deploy, vars, MaterialStep
<1> QED
  BY <1>3, <1>4, <1>5, <1>6, <1>7, <1>8, <1>9, <1>10, <1>11, <1>12, <1>13, <1>14, <1>15,
     <1>16, <1>17, <1>18, <1>19, <1>20, <1>22, <1>23, <1>24
     DEF Next, IssueStep, SweepStep, SyncStep

-----------------------------------------------------------------------------
(* What is served.                                                         *)

\* A step of one process leaves a domain answered for if it changes nothing
\* about the domain, and the process still answers for it if it did.
LEMMA OnesAnswers ==
  ASSUME AnsweredInv, NEW p \in Procs, OnlyBy(p), NEW d \in Domains,
         loaded'[d] = loaded[d], site'[d] = site[d], Wanted(d)' = Wanted(d),
         unasked \subseteq unasked', owed => owed',
         AnswersFor(p, d) => AnswersFor(p, d)' \/ owed' \/ Wanted(d) \in unasked'
  PROVE  Answered(d)'
<1>1. Answered(d)
  BY DEF AnsweredInv
<1>2. \A q \in Procs : q # p /\ AnswersFor(q, d) => AnswersFor(q, d)'
  BY DEF AnswersFor, MayDrop, Holding, PlaceInHand, OnlyBy
<1> QED
  BY <1>1, <1>2 DEF Answered

\* So does a step of none.
LEMMA UntouchedAnswers ==
  ASSUME AnsweredInv, UNCHANGED procs, NEW d \in Domains,
         loaded'[d] = loaded[d], site'[d] = site[d], Wanted(d)' = Wanted(d),
         unasked \subseteq unasked', owed => owed'
  PROVE  Answered(d)'
<1>1. Answered(d)
  BY DEF AnsweredInv
<1>2. \A q \in Procs : AnswersFor(q, d) => AnswersFor(q, d)'
  BY DEF AnswersFor, MayDrop, Holding, PlaceInHand, procs
<1> QED
  BY <1>1, <1>2 DEF Answered

\* New material in a place that a domain does not point at changes nothing for it.
LEMMA OtherMaterial ==
  ASSUME TypeOK, NEW d \in Domains, NEW place \in {"live", "ssl"}, MakeVersion(d, place),
         UNCHANGED site, NEW e \in Domains, e # d \/ site[d].at # place,
         site[e].ssl <=> site[e].at # "none"
  PROVE  Wanted(e)' = Wanted(e)
<1>1. \A x \in {"live", "ssl"} : e # d \/ x # place => disk'[e][x] = disk[e][x]
  BY VersionIsMade
<1>2. site[e].at \in {"none", "live", "ssl"}
  BY DEF TypeOK, Places
<1> QED
  BY <1>1, <1>2 DEF Wanted

\* Every step leaves every domain answered for.
LEMMA AnsweredNext ==
  TypeInv /\ FilesInv /\ HandsInv /\ AnsweredInv /\ [Next]_vars => AnsweredInv'
<1> SUFFICES ASSUME TypeInv, FilesInv, HandsInv, AnsweredInv, [Next]_vars PROVE AnsweredInv'
  OBVIOUS
<1> USE DEF Goto, rows, files, nginx
<1>0. /\ TypeOK /\ \A p \in Procs : CopiesFit(p) /\ FilesFit(p) /\ AgeFit(p) /\ RolesFit(p)
      /\ \A d \in Domains : site[d].ssl <=> site[d].at # "none"
  BY DEF TypeInv, CopiesInv, FilesInv, HandsInv, AgeInv
\* The end of a process,
<1>1. ASSUME NEW p \in Procs, Stop(p), UNCHANGED <<site, disk, loaded>>,
             unasked \subseteq unasked', owed => owed',
             \A d \in Domains : AnswersFor(p, d) => owed' \/ Wanted(d) \in unasked'
      PROVE  AnsweredInv'
  <2>1. OnlyBy(p)
    BY <1>0, <1>1, StoppedTypes
  <2>2. \A d \in Domains : Wanted(d)' = Wanted(d)
    BY <1>1 DEF Wanted
  <2> QED
    BY <1>1, <2>1, <2>2, OnesAnswers DEF AnsweredInv
\* or a step of one that leaves sites and files alone.
<1>2. ASSUME NEW p \in Procs, OnlyBy(p), UNCHANGED <<site, disk, nginx, unasked>>,
             \A d \in Domains : AnswersFor(p, d) => AnswersFor(p, d)'
      PROVE  AnsweredInv'
  <2>1. \A d \in Domains : Wanted(d)' = Wanted(d)
    BY <1>2 DEF Wanted
  <2> QED
    BY <1>2, <2>1, OnesAnswers DEF AnsweredInv
\* From a step at which a process answers for what it has renewed only,
<1>3. ASSUME NEW p \in Procs, pc[p] \in {"idle", "sweep", "sync", "certbot"},
             NEW d \in Domains, AnswersFor(p, d)
      PROVE  d \in renewed[p] /\ site[d].at = "live"
  BY <1>3 DEF AnswersFor, MayDrop, Holding
\* it may go to any other, with its list.
<1>4. ASSUME NEW p \in Procs, pc[p] \in {"idle", "sweep", "sync", "certbot"},
             OnlyBy(p), UNCHANGED <<site, disk, nginx, unasked>>, renewed'[p] = renewed[p]
      PROVE  AnsweredInv'
  <2>1. ASSUME NEW d \in Domains, AnswersFor(p, d) PROVE AnswersFor(p, d)'
    BY <1>3, <1>4, <2>1 DEF AnswersFor, MayDrop, Holding
  <2> QED
    BY <1>2, <1>4, <2>1
<1>5. ASSUME NEW p \in Workers, NEW d \in Domains, StartIssue(p, d) PROVE AnsweredInv'
  BY <1>0, <1>4, <1>5 DEF StartIssue, Mark, SaveEnsured, OnlyBy, TypeOK, Procs
<1>6. ASSUME NEW p \in Workers, NEW d \in Domains, StartOwn(p, d) PROVE AnsweredInv'
  <2> p \in Procs
    BY DEF Procs
  <2>1. /\ MakeVersion(d, "ssl") /\ pc[p] = "idle" /\ OnlyBy(p) /\ pc'[p] = "save" /\ on'[p] = d
        /\ UNCHANGED <<site, unasked, nginx, mine, renewed>>
    BY <1>0, <1>6 DEF StartOwn, OnlyBy, TypeOK
  <2>2. ASSUME NEW e \in Domains PROVE Answered(e)'
    <3>1. CASE e = d /\ site[d].at = "ssl"
      <4>1. AnswersFor(p, e)'
        BY <2>1, <3>1 DEF AnswersFor, MayDrop, Holding, PlaceInHand
      <4> QED
        BY <4>1 DEF Answered
    <3>2. CASE e # d \/ site[d].at # "ssl"
      <4>1. Wanted(e)' = Wanted(e)
        BY <1>0, <2>1, <3>2, OtherMaterial
      <4>2. AnswersFor(p, e) => AnswersFor(p, e)'
        BY <1>3, <2>1 DEF AnswersFor, MayDrop, Holding
      <4> QED
        BY <2>1, <4>1, <4>2, OnesAnswers
    <3> QED
      BY <3>1, <3>2
  <2> QED
    BY <2>2 DEF AnsweredInv
<1>7. ASSUME NEW p \in Sweepers, StartSweep(p) PROVE AnsweredInv'
  BY <1>0, <1>4, <1>7 DEF StartSweep, OnlyBy, TypeOK, Procs
<1>8. ASSUME NEW p \in Sweepers, NEW d \in Domains, RenewNext(p, d) PROVE AnsweredInv'
  BY <1>0, <1>4, <1>8 DEF RenewNext, Mark, SaveEnsured, OnlyBy, TypeOK, Procs
<1>9. ASSUME NEW p \in Sweepers, EndSweep(p) PROVE AnsweredInv'
  <2>1. pc[p] = "sweep" /\ (renewed[p] # {} \/ owed => owed')
    BY <1>9 DEF EndSweep
  <2>2. \A d \in Domains : AnswersFor(p, d) => owed'
    BY <1>3, <2>1 DEF Procs
  <2> QED
    BY <1>1, <1>9, <2>1, <2>2 DEF EndSweep, Procs
<1>10. ASSUME NEW p \in Syncers, StartSync(p) PROVE AnsweredInv'
  BY <1>0, <1>4, <1>10 DEF StartSync, OnlyBy, TypeOK, Procs
<1>11. ASSUME NEW p \in Procs, pc[p] = "sync" PROVE \A d \in Domains : ~AnswersFor(p, d)
  BY <1>0, <1>3, <1>11 DEF RolesFit
<1>12. ASSUME NEW p \in Syncers, NEW d \in Domains, SyncNext(p, d) PROVE AnsweredInv'
  <2>1. CASE IsThere(d, todo[p][d])
    BY <1>0, <1>4, <1>12, <2>1 DEF SyncNext, Write, OnlyBy, TypeOK, Procs
  <2>2. CASE ~IsThere(d, todo[p][d])
    BY <1>1, <1>11, <1>12, <2>2 DEF SyncNext, Procs
  <2> QED
    BY <2>1, <2>2
<1>13. ASSUME NEW p \in Syncers, EndSync(p) PROVE AnsweredInv'
  BY <1>1, <1>11, <1>13 DEF EndSync, Procs
<1>14. ASSUME NEW p \in Deleters, NEW d \in Domains, StartDelete(p, d) PROVE AnsweredInv'
  <2> p \in Procs
    BY DEF Procs
  <2>1. /\ pc[p] = "idle" /\ OnlyBy(p) /\ pc'[p] = "drop" /\ on'[p] = d
        /\ site' = [site EXCEPT ![d] = [ssl |-> FALSE, at |-> "none"]]
        /\ UNCHANGED <<disk, unasked, nginx, renewed>>
    BY <1>0, <1>14 DEF StartDelete, OnlyBy, TypeOK
  <2>2. ASSUME NEW e \in Domains PROVE Answered(e)'
    <3>1. CASE e = d
      BY <2>1, <3>1, RolesAssumption DEF Answered, AnswersFor
    <3>2. CASE e # d
      <4>1. site'[e] = site[e] /\ Wanted(e)' = Wanted(e)
        BY <1>0, <2>1, <3>2 DEF Wanted, TypeOK
      <4>2. AnswersFor(p, e) => AnswersFor(p, e)'
        BY <1>3, <2>1, <4>1 DEF AnswersFor, MayDrop, Holding
      <4> QED
        BY <2>1, <4>1, <4>2, OnesAnswers
    <3> QED
      BY <3>1, <3>2
  <2> QED
    BY <2>2 DEF AnsweredInv
<1>15. ASSUME NEW p \in Deleters, Drop(p) PROVE AnsweredInv'
  <2> p \in Procs
    BY DEF Procs
  <2>1. /\ pc[p] = "drop" /\ OnlyBy(p) /\ pc'[p] = "request"
        /\ UNCHANGED <<site, disk, unasked, nginx, on, mine, renewed>>
    BY <1>0, <1>15 DEF Drop, OnlyBy, TypeOK
  <2>2. \A d \in Domains : AnswersFor(p, d) => AnswersFor(p, d)'
    BY <2>1 DEF AnswersFor, MayDrop, Holding
  <2> QED
    BY <1>2, <2>1, <2>2
<1>16. ASSUME NEW p \in Procs, CertbotSucceeds(p) PROVE AnsweredInv'
  <2>1. /\ pc[p] = "certbot" /\ OnlyBy(p) /\ pc'[p] = "record"
        /\ UNCHANGED <<site, unasked, nginx, on, mine, renewed>>
        /\ MakeVersion(on[p], "live") \/ UNCHANGED disk
    BY <1>0, <1>16 DEF CertbotSucceeds, OnlyBy, TypeOK
  <2>2. on[p] \in Domains
    BY <1>0 DEF TypeOK
  <2>3. CASE UNCHANGED disk
    BY <1>4, <2>1, <2>3
  <2>4. ASSUME MakeVersion(on[p], "live"), NEW e \in Domains PROVE Answered(e)'
    <3>1. CASE e = on[p] /\ site[e].at = "live"
      <4>1. AnswersFor(p, e)'
        BY <2>1, <3>1 DEF AnswersFor, MayDrop, Holding, PlaceInHand
      <4> QED
        BY <4>1 DEF Answered
    <3>2. CASE e # on[p] \/ site[on[p]].at # "live"
      <4>1. Wanted(e)' = Wanted(e)
        BY <1>0, <2>1, <2>2, <2>4, <3>2, OtherMaterial
      <4>2. AnswersFor(p, e) => AnswersFor(p, e)'
        BY <1>3, <2>1 DEF AnswersFor, MayDrop, Holding
      <4> QED
        BY <2>1, <4>1, <4>2, OnesAnswers
    <3> QED
      BY <3>1, <3>2
  <2> QED
    BY <2>1, <2>3, <2>4 DEF AnsweredInv
<1>17. ASSUME NEW p \in Procs, CertbotFails(p) PROVE AnsweredInv'
  <2>1. /\ pc[p] = "certbot" /\ UNCHANGED <<site, disk, unasked, nginx>> /\ AfterFailure(p)
    BY <1>17 DEF CertbotFails, Write
  <2>2. CASE p \in Sweepers
    BY <1>0, <1>4, <2>1, <2>2 DEF AfterFailure, OnlyBy, TypeOK
  <2>3. CASE p \notin Sweepers
    <3>1. \A d \in Domains : ~AnswersFor(p, d)
      BY <1>0, <1>3, <2>1, <2>3 DEF RolesFit
    <3> QED
      BY <1>1, <2>1, <2>3, <3>1 DEF AfterFailure
  <2> QED
    BY <2>2, <2>3
\* From one step to the next with the same material in hand.
<1>18. ASSUME NEW p \in Procs, OnlyBy(p), UNCHANGED <<site, disk, nginx, unasked, on, renewed>>,
              pc[p] \in {"record", "save", "note"}, pc'[p] \in {"note", "attach"},
              PlaceInHand(p)' = PlaceInHand(p)
       PROVE  AnsweredInv'
  <2>1. \A d \in Domains : AnswersFor(p, d) => AnswersFor(p, d)'
    BY <1>18 DEF AnswersFor, MayDrop, Holding
  <2> QED
    BY <1>2, <1>18, <2>1
<1>19. ASSUME NEW p \in Procs, Record(p) PROVE AnsweredInv'
  <2>1. /\ mine' = [mine EXCEPT ![p] = Recorded(@)] /\ pc' = [pc EXCEPT ![p] = "note"]
        /\ UNCHANGED <<site, disk, nginx, unasked, on, todo, renewed>> /\ pc[p] = "record"
    BY <1>19 DEF Record, Write
  <2>2. Recorded(mine[p]).at = "live"
    BY <1>0 DEF Recorded, TypeOK, Copies
  <2>3. OnlyBy(p) /\ pc'[p] = "note" /\ mine'[p].at = "live"
    BY <1>0, <2>1, <2>2 DEF OnlyBy, TypeOK
  <2> QED
    BY <1>18, <2>1, <2>3 DEF PlaceInHand
<1>20. ASSUME NEW p \in Procs, Note(p) PROVE AnsweredInv'
  <2>1. /\ OnlyBy(p) /\ pc'[p] = "attach" /\ pc[p] = "note"
        /\ UNCHANGED <<site, disk, nginx, unasked, on, renewed>>
    BY <1>0, <1>20 DEF Note, Write, OnlyBy, TypeOK
  <2>2. mine'[p].at = mine[p].at
    BY <1>0, <1>20 DEF Note, TypeOK, Copies
  <2> QED
    BY <1>18, <2>1, <2>2 DEF PlaceInHand
<1>21. ASSUME NEW p \in Procs, SaveOwn(p) PROVE AnsweredInv'
  <2> DEFINE row == [Ensured(on[p]) EXCEPT !.issuer = "own", !.status = "active",
                                           !.at = "ssl", !.auto = FALSE]
  <2>1. /\ mine' = [mine EXCEPT ![p] = CopyOf(row)] /\ pc' = [pc EXCEPT ![p] = "note"]
        /\ UNCHANGED <<site, disk, nginx, unasked, on, todo, renewed>> /\ pc[p] = "save"
    BY <1>21 DEF SaveOwn, SaveEnsured
  <2>2. CopyOf(row).at = "ssl"
    <3>1. IsARow(Ensured(on[p]))
      BY <1>0, EnsuredIsARow DEF TypeInv, TypeOK
    <3> QED
      BY <3>1 DEF IsARow, Certs, CopyOf
  <2> HIDE DEF row
  <2>3. OnlyBy(p) /\ pc'[p] = "note" /\ mine'[p].at = "ssl"
    BY <1>0, <2>1, <2>2 DEF OnlyBy, TypeOK
  <2> QED
    BY <1>18, <2>1, <2>3 DEF PlaceInHand
<1>22. ASSUME NEW p \in Procs, Attach(p) PROVE AnsweredInv'
  <2>1. /\ pc[p] = "attach" /\ UNCHANGED <<disk, unasked, nginx>>
        /\ site' = [site EXCEPT ![on[p]] = [ssl |-> TRUE, at |-> mine[p].at]]
        /\ on[p] \in Domains /\ AsksForDeploy(p)
    BY <1>0, <1>22 DEF Attach, AsksForDeploy, RolesFit, TypeOK
  <2>2. /\ OnlyBy(p)
        /\ \A d \in Domains :
             d = on[p] \/ (d \in renewed[p] /\ site[d].at = "live") => AnswersFor(p, d)'
    <3>1. CASE p \in Sweepers
      <4>1. /\ pc' = [pc EXCEPT ![p] = "sweep"] /\ UNCHANGED <<on, mine, todo>>
            /\ renewed' = [renewed EXCEPT ![p] = @ \cup {on[p]}]
        BY <1>22, <2>1, <3>1 DEF Attach
      <4>2. OnlyBy(p) /\ renewed'[p] = renewed[p] \cup {on[p]}
        BY <1>0, <4>1 DEF OnlyBy, TypeOK
      <4>3. \A d \in Domains : site'[d].at = IF d = on[p] THEN "live" ELSE site[d].at
        BY <1>0, <2>1, <3>1 DEF FilesFit, TypeOK
      <4> QED
        BY <4>2, <4>3 DEF AnswersFor, MayDrop, Holding
    <3>2. CASE p \notin Sweepers
      <4>1. pc' = [pc EXCEPT ![p] = "request"] /\ UNCHANGED <<on, mine, todo, renewed>>
        BY <1>22, <2>1, <3>2 DEF Attach
      <4>2. OnlyBy(p) /\ pc'[p] = "request" /\ renewed[p] = {}
        BY <1>0, <3>2, <4>1 DEF OnlyBy, RolesFit, TypeOK
      <4>3. site'[on[p]].at = mine[p].at
        BY <1>0, <2>1 DEF TypeOK
      <4> QED
        BY <4>1, <4>2, <4>3 DEF AnswersFor, MayDrop, PlaceInHand
    <3> QED
      BY <3>1, <3>2
  <2>3. ASSUME NEW d \in Domains PROVE Answered(d)'
    <3>1. CASE d = on[p]
      BY <2>2, <3>1 DEF Answered
    <3>2. CASE d # on[p]
      <4>1. site'[d] = site[d] /\ Wanted(d)' = Wanted(d)
        BY <1>0, <2>1, <3>2 DEF Wanted, TypeOK
      <4>2. AnswersFor(p, d) => AnswersFor(p, d)'
        BY <2>1, <2>2, <3>2 DEF AnswersFor, MayDrop, Holding
      <4> QED
        BY <2>1, <2>2, <4>1, <4>2, OnesAnswers
    <3> QED
      BY <3>1, <3>2
  <2> QED
    BY <2>3 DEF AnsweredInv
<1>23. ASSUME NEW p \in Procs, Request(p) PROVE AnsweredInv'
  BY <1>1, <1>23 DEF Request
\* What a task answers for is what it drops.
<1>24. ASSUME NEW p \in Procs, pc[p] \in {"request", "drop"} => p \in Workers,
              NEW d \in Domains, AnswersFor(p, d)
       PROVE  Wanted(d) \in Dropped(p)
  <2>1. CASE d \in renewed[p] /\ site[d].at = "live"
    <3>1. Wanted(d) = disk[d]["live"]
      BY <1>0, <2>1 DEF Wanted
    <3> QED
      BY <2>1, <3>1 DEF Dropped
  <2>2. CASE MayDrop(p) /\ on[p] = d /\ site[d].at = PlaceInHand(p)
    <3>1. PlaceInHand(p) \in {"live", "ssl"}
      BY <2>2, HandsAreSomewhere
    <3>2. Wanted(d) = disk[on[p]][PlaceInHand(p)]
      BY <1>0, <2>2, <3>1 DEF Wanted
    <3>3. pc[p] \in {"record", "save", "note", "attach", "request"}
      BY <2>2 DEF MayDrop, Holding
    <3> QED
      BY <3>1, <3>2, <3>3 DEF Dropped
  <2> QED
    BY <1>24, <2>1, <2>2 DEF AnswersFor
<1>30. ASSUME NEW p \in Procs, Raise(p) \/ TaskDies(p) PROVE AnsweredInv'
  <2>1. /\ unasked' = unasked \cup Dropped(p) /\ Stop(p) /\ UNCHANGED <<site, disk, nginx>>
        /\ pc[p] \in {"request", "drop"} => p \in Workers
    BY <1>30 DEF Raise, TaskDies
  <2> QED
    BY <1>1, <1>24, <2>1
<1>25. ASSUME NEW d \in Domains, EditAuto(d) PROVE AnsweredInv'
  <2>1. UNCHANGED <<site, disk, unasked, nginx, procs>>
    BY <1>25 DEF EditAuto
  <2> QED
    BY <2>1, UntouchedAnswers DEF AnsweredInv, Wanted
<1>26. ASSUME NEW d \in Domains, HostRenews(d) PROVE AnsweredInv'
  <2>1. /\ MakeVersion(d, "live") /\ unasked' = unasked \cup {made + 1}
        /\ UNCHANGED <<site, nginx, procs>>
    BY <1>26 DEF HostRenews
  <2>2. ASSUME NEW e \in Domains PROVE Answered(e)'
    <3>1. CASE e = d /\ site[d].at = "live"
      <4>1. Wanted(e)' = made + 1
        BY <1>0, <2>1, <3>1, VersionIsMade DEF Wanted
      <4> QED
        BY <2>1, <4>1 DEF Answered
    <3>2. CASE e # d \/ site[d].at # "live"
      <4>1. Wanted(e)' = Wanted(e)
        BY <1>0, <2>1, <3>2, OtherMaterial
      <4> QED
        BY <2>1, <4>1, UntouchedAnswers
    <3> QED
      BY <3>1, <3>2
  <2> QED
    BY <2>2 DEF AnsweredInv
<1>27. ASSUME NEW v \in Versions, GrowOld(v) PROVE AnsweredInv'
  <2>1. UNCHANGED <<site, disk, unasked, nginx, procs>>
    BY <1>27 DEF GrowOld
  <2> QED
    BY <2>1, UntouchedAnswers DEF AnsweredInv, Wanted
<1>28. CASE Deploy
  <2>1. \A d \in Domains : loaded'[d] = Wanted(d)'
    BY <1>28 DEF Deploy, Wanted
  <2> QED
    BY <2>1 DEF AnsweredInv, Answered
<1>29. CASE UNCHANGED vars
  BY <1>29, UntouchedAnswers DEF vars, AnsweredInv, Wanted
<1> QED
  BY <1>5, <1>6, <1>7, <1>8, <1>9, <1>10, <1>12, <1>13, <1>14, <1>15, <1>16, <1>17, <1>19,
     <1>20, <1>21, <1>22, <1>23, <1>25, <1>26, <1>27, <1>28, <1>29, <1>30
     DEF Next, IssueStep, SweepStep, SyncStep

\* Nginx serves what a recorded certificate's domain points at, or a deploy is on
\* its way, for any number of tasks, sweeps and deletions at once: left aside is
\* only the material of a certbot outside the system, and what a task that raised
\* or died had made, kept or renewed.
THEOREM NewMaterialIsDeployed == Spec => []ServedIsDeployed
<1>1. Init => HandsInv /\ AnsweredInv
  <2> SUFFICES ASSUME Init PROVE HandsInv /\ AnsweredInv
    OBVIOUS
  <2>1. HandsInv
    BY DEF Init, HandsInv, AgeInv, AgeFit, RolesFit, Holding
  <2>2. \A d \in Domains : loaded[d] = None /\ ~site[d].ssl
    BY DEF Init
  <2> QED
    BY <2>1, <2>2 DEF AnsweredInv, Answered, Wanted
<1>2. AnsweredInv => ServedIsDeployed
  BY DEF AnsweredInv, Answered, ServedIsDeployed, AnswersFor, MayDrop, Holding, WillAsk
<1> QED
  BY <1>1, <1>2, HandsNext, AnsweredNext, TypesAndFiles, PTL DEF Spec
=============================================================================
