------------------------- MODULE SyncExchangeProofs -------------------------
(***************************************************************************)
(* What SyncExchange promises, for any set of paths, folders, contents and *)
(* times and any tolerance.  The runs of MCSyncExchange check the same     *)
(* invariants on two files and a folder.                                   *)
(***************************************************************************)
EXTENDS SyncExchange, TLAPS

-----------------------------------------------------------------------------
(* Manifests and decisions                                                 *)

\* The paths a manifest lists, and what its hash tells of one path.
LEMMA HashAtPath ==
    ASSUME NEW m \in Manifest, NEW p \in Paths
    PROVE  /\ p \in Files(m) => m.files[p] \in FileEntry /\ HashAt(m, p) = m.files[p].hash
           /\ p \notin Files(m) => m.files[p] = NoFile /\ HashAt(m, p) = NoFile
           /\ HashAt(m, p) = NoFile <=> p \notin Files(m)
    BY DecisionAssumption DEF Manifest, Files, HashAt, FileEntry

\* Two manifests have one hash exactly when they agree on every path and on the
\* folders.
LEMMA SameHash ==
    ASSUME NEW l \in Manifest, NEW r \in Manifest
    PROVE  ManifestHash(l) = ManifestHash(r) <=>
               /\ \A p \in Paths : HashAt(l, p) = HashAt(r, p)
               /\ l.dirs = r.dirs
    BY DEF ManifestHash

\* sameFiles is the same comparison without the folders.
LEMMA SameFilesPathwise ==
    ASSUME NEW l \in Manifest, NEW r \in Manifest
    PROVE  SameFiles(l, r) <=> \A p \in Paths : HashAt(l, p) = HashAt(r, p)
<1>1. ASSUME SameFiles(l, r), NEW p \in Paths
      PROVE  HashAt(l, p) = HashAt(r, p)
  BY <1>1, HashAtPath DEF SameFiles
<1>2. ASSUME \A p \in Paths : HashAt(l, p) = HashAt(r, p)
      PROVE  SameFiles(l, r)
  <2>1. \A p \in Paths : p \in Files(l) <=> p \in Files(r)
    BY <1>2, HashAtPath
  <2>2. Files(l) = Files(r)
    BY <2>1 DEF Files
  <2>3. \A p \in Files(l) : l.files[p].hash = r.files[p].hash
    BY <1>2, <2>2, HashAtPath DEF Files
  <2> QED BY <2>2, <2>3 DEF SameFiles
<1> QED BY <1>1, <1>2

\* Of a file that differs the sides decide opposite things, unless the times tie.
LEMMA NewerIsOneSided ==
    ASSUME NEW l \in Manifest, NEW r \in Manifest, NEW p \in Paths
    PROVE  /\ p \in Differing(l, r) <=> p \in Differing(r, l)
           /\ p \in RemoteNewer(l, r) => p \in Differing(l, r)
           /\ p \in Differing(l, r) => (p \in LocalNewer(l, r) <=> p \notin RemoteNewer(l, r))
           /\ p \in Differing(l, r) /\ l.files[p].mtime # r.files[p].mtime =>
                  (p \in LocalNewer(l, r) <=> p \in RemoteNewer(r, l))
<1>1. p \in Files(l) \cap Files(r) => l.files[p].mtime \in Nat /\ r.files[p].mtime \in Nat
  BY HashAtPath, DecisionAssumption DEF FileEntry
<1> QED BY <1>1 DEF Differing, RemoteNewer, LocalNewer

\* What Compute returns on two manifests.
LEMMA ComputeType ==
    ASSUME NEW l \in Manifest, NEW r \in Manifest, NEW lineage \in Lineage
    PROVE  Compute(l, r, lineage) \in Decision
<1> DEFINE d == Compute(l, r, lineage)
<1>1. /\ d.pull \subseteq Paths /\ d.push \subseteq Paths
      /\ d.deleteOnPeer \subseteq Paths /\ d.deleteLocally \subseteq Paths
  BY DEF Compute, FilesToPull, RemoteNewer, LocalNewer, Differing, Files
<1>2. /\ d.pullDirs \subseteq Dirs /\ d.pushDirs \subseteq Dirs
      /\ d.deleteDirsOnPeer \subseteq Dirs /\ d.deleteDirsLocally \subseteq Dirs
  BY DEF Compute, DirsToPull, Manifest
<1> QED BY <1>1, <1>2 DEF Compute, Decision

-----------------------------------------------------------------------------
(* Type correctness                                                        *)

\* A device that applies its plan, and loses what the peer deletes, has a save.
LEMMA AppliedType ==
    ASSUME NEW l \in Manifest, NEW r \in Manifest, NEW mine \in Decision, NEW theirs \in Decision
    PROVE  Applied(l, r, mine, theirs) \in Manifest
<1>1. \A p \in Paths : l.files[p] \in FileEntry \cup {NoFile} /\ r.files[p] \in FileEntry \cup {NoFile}
  BY DEF Manifest
<1>2. mine.pullDirs \subseteq Dirs /\ l.dirs \subseteq Dirs
  BY DEF Decision, Manifest
<1> QED BY <1>1, <1>2 DEF Applied, Manifest

\* The lineage of the common past is a lineage.
LEMMA LastLineageType == base \in Manifest \cup {NoBase} => LastLineage \in Lineage
    BY DEF LastLineage, Lineage, EmptyLineage, IntersectLineage, Files, Manifest

\* The save folders stay well-formed through an exchange.
THEOREM ExchangeTypeCorrect == Spec => []TypeOK
<1>1. Init => TypeOK
  BY DEF Init, TypeOK, CommonPast, LeftBehindBy
<1>2. TypeOK /\ [Next]_vars => TypeOK'
  <2> SUFFICES ASSUME TypeOK, [Next]_vars PROVE TypeOK'
    OBVIOUS
  <2>1. CASE Ask
    BY <2>1 DEF Ask, TypeOK
  <2>2. CASE Exchange
    <3> DEFINE mine   == Compute(here, there, LastLineage)
               theirs == Compute(there, here, LastLineage)
    <3>1. mine \in Decision /\ theirs \in Decision
      BY ComputeType, LastLineageType DEF TypeOK
    <3>2. Applied(here, there, mine, theirs) \in Manifest /\ Applied(there, here, theirs, mine) \in Manifest
      BY <3>1, AppliedType DEF TypeOK
    <3> QED BY <2>2, <3>2 DEF Exchange, TypeOK
  <2>3. CASE UNCHANGED vars
    BY <2>3 DEF vars, TypeOK
  <2> QED BY <2>1, <2>2, <2>3 DEF Next
<1> QED BY <1>1, <1>2, PTL DEF Spec

-----------------------------------------------------------------------------
(* The inductive invariant                                                 *)

Here  == before[1]
There == before[2]
Mine   == Compute(Here, There, LastLineage)
Theirs == Compute(There, Here, LastLineage)

\* None of the promises is inductive: they speak of what was there before the
\* exchange.  What is: the saves are as the users left them until the exchange,
\* and are what both plans make of them afterwards.
IsOutcome ==
    /\ base \in CommonPast \cup {NoBase}
    /\ Here \in LeftBehindBy(base) /\ There \in LeftBehindBy(base)
    /\ stage # "exchanged" => here = Here /\ there = There
    /\ stage = "exchanged" =>
           /\ ~Asks(Here, There) /\ ~Asks(There, Here)
           /\ here = Applied(Here, There, Mine, Theirs)
           /\ there = Applied(There, Here, Theirs, Mine)

\* IsOutcome holds from the start and no step leaves it.
THEOREM ExchangeOutcome == Spec => [](TypeOK /\ IsOutcome)
<1>1. Init => IsOutcome
  BY DEF Init, IsOutcome, Here, There
<1>2. TypeOK /\ IsOutcome /\ [Next]_vars => IsOutcome'
  <2> SUFFICES ASSUME TypeOK, IsOutcome, [Next]_vars PROVE IsOutcome'
    OBVIOUS
  <2>1. CASE Ask
    BY <2>1 DEF Ask, IsOutcome, Here, There
  <2>2. CASE Exchange
    <3>1. stage # "exchanged" /\ stage' = "exchanged"
      BY <2>2 DEF Exchange
    <3>2. here = Here /\ there = There
      BY <3>1 DEF IsOutcome
    <3>3. /\ here' = Applied(Here, There, Mine, Theirs)
          /\ there' = Applied(There, Here, Theirs, Mine)
          /\ ~Asks(Here, There) /\ ~Asks(There, Here)
      BY <2>2, <3>2 DEF Exchange, Mine, Theirs
    <3>4. UNCHANGED <<base, before>>
      BY <2>2 DEF Exchange
    <3>5. /\ Here' = Here /\ There' = There /\ Mine' = Mine /\ Theirs' = Theirs
          /\ Asks(Here, There)' = Asks(Here, There)
          /\ Asks(There, Here)' = Asks(There, Here)
          /\ CommonPast' = CommonPast /\ LeftBehindBy(base)' = LeftBehindBy(base)
      BY <3>4 DEF Here, There, Mine, Theirs, Asks, LastLineage, LastSync, HealedBase, Agreed,
                  CommonPast, LeftBehindBy
    <3>6. /\ here' = Applied(Here, There, Mine, Theirs)'
          /\ there' = Applied(There, Here, Theirs, Mine)'
      BY <3>3, <3>5 DEF Applied
    <3> QED BY <3>1, <3>3, <3>4, <3>5, <3>6 DEF IsOutcome
  <2>3. CASE UNCHANGED vars
    BY <2>3 DEF vars, IsOutcome, Here, There, Mine, Theirs, Asks, LastLineage, LastSync,
                HealedBase, Agreed, CommonPast, LeftBehindBy, Applied
  <2> QED BY <2>1, <2>2, <2>3 DEF Next
<1> QED BY <1>1, <1>2, ExchangeTypeCorrect, PTL DEF Spec

-----------------------------------------------------------------------------
(* One path after an exchange                                              *)

\* What is under p on this side afterwards, by who held p before.
LEMMA AppliedPath ==
    ASSUME NEW l \in Manifest, NEW r \in Manifest, NEW lineage \in Lineage, NEW p \in Paths
    PROVE  LET after == HashAt(Applied(l, r, Compute(l, r, lineage), Compute(r, l, lineage)), p)
           IN  /\ p \in Files(l) /\ p \notin Files(r) =>
                      after = IF p \in lineage.files THEN NoFile ELSE HashAt(l, p)
               /\ p \notin Files(l) /\ p \in Files(r) =>
                      after = IF p \in lineage.files THEN NoFile ELSE HashAt(r, p)
               /\ p \notin Files(l) /\ p \notin Files(r) => after = NoFile
               /\ p \in Files(l) /\ p \in Files(r) =>
                      after = IF p \in RemoteNewer(l, r) THEN HashAt(r, p) ELSE HashAt(l, p)
<1> DEFINE mine   == Compute(l, r, lineage)
           theirs == Compute(r, l, lineage)
           m      == Applied(l, r, mine, theirs)
<1>1. m \in Manifest
  BY AppliedType, ComputeType
<1>2. m.files[p] = IF p \in mine.pull THEN r.files[p]
                   ELSE IF p \in mine.deleteLocally \cup theirs.deleteOnPeer THEN NoFile
                   ELSE l.files[p]
  BY DEF Applied
<1>3. p \in mine.pull <=> \/ p \in Files(r) /\ p \notin Files(l) /\ p \notin lineage.files
                          \/ p \in RemoteNewer(l, r)
  BY DEF Compute, FilesToPull
<1>4. p \in mine.deleteLocally \cup theirs.deleteOnPeer <=>
          p \in Files(l) /\ p \notin Files(r) /\ p \in lineage.files
  BY DEF Compute
<1>5. p \in RemoteNewer(l, r) => p \in Files(l) /\ p \in Files(r)
  BY DEF RemoteNewer, Differing
<1>6. /\ m.files[p] = l.files[p] => HashAt(m, p) = HashAt(l, p)
      /\ m.files[p] = r.files[p] => HashAt(m, p) = HashAt(r, p)
      /\ m.files[p] = NoFile => HashAt(m, p) = NoFile
  BY DEF HashAt
<1>7. p \notin Files(l) => l.files[p] = NoFile /\ HashAt(l, p) = NoFile
  BY HashAtPath
<1> QED BY <1>2, <1>3, <1>4, <1>5, <1>6, <1>7

\* Which folders are here afterwards: the three-way merge of the two sides.
LEMMA AppliedDirs ==
    ASSUME NEW l \in Manifest, NEW r \in Manifest, NEW lineage \in Lineage
    PROVE  Applied(l, r, Compute(l, r, lineage), Compute(r, l, lineage)).dirs =
               {x \in l.dirs \cup r.dirs : x \in l.dirs \cap r.dirs \/ x \notin lineage.dirs}
    BY DEF Applied, Compute, DirsToPull

\* Both sides end with one content under p, unless its times tie.
LEMMA PathConverges ==
    ASSUME NEW l \in Manifest, NEW r \in Manifest, NEW lineage \in Lineage, NEW p \in Paths,
           p \in Differing(l, r) => l.files[p].mtime # r.files[p].mtime
    PROVE  HashAt(Applied(l, r, Compute(l, r, lineage), Compute(r, l, lineage)), p) =
           HashAt(Applied(r, l, Compute(r, l, lineage), Compute(l, r, lineage)), p)
<1>1. CASE p \in Files(l) /\ p \in Files(r)
  <2>1. CASE p \in Differing(l, r)
    BY <1>1, <2>1, AppliedPath, NewerIsOneSided
  <2>2. CASE p \notin Differing(l, r)
    <3>1. HashAt(l, p) = HashAt(r, p)
      BY <1>1, <2>2, HashAtPath DEF Differing
    <3>2. p \notin RemoteNewer(l, r) /\ p \notin RemoteNewer(r, l)
      BY <2>2, NewerIsOneSided
    <3> QED BY <1>1, <3>1, <3>2, AppliedPath
  <2> QED BY <2>1, <2>2
<1>2. CASE ~(p \in Files(l) /\ p \in Files(r))
  BY <1>2, AppliedPath
<1> QED BY <1>1, <1>2

-----------------------------------------------------------------------------
(* The promises                                                            *)

\* What the invariant gives of the saves and the lineage, for the proofs below.
LEMMA OutcomeTypes ==
    ASSUME TypeOK, IsOutcome
    PROVE  /\ Here \in Manifest /\ There \in Manifest
           /\ LastLineage \in Lineage
           /\ base # NoBase => base \in Manifest
    BY LastLineageType DEF TypeOK, IsOutcome, LeftBehindBy, CommonPast

\* After an exchange both devices hold the same files and folders: the decisions
\* that SyncWithPeer takes on the two sides of one pair of manifests fit together.
THEOREM ExchangeConvergesAlways == Spec => []ExchangeConverges
<1>1. TypeOK /\ IsOutcome => ExchangeConverges
  <2> SUFFICES ASSUME TypeOK, IsOutcome, stage = "exchanged", ~Tie
               PROVE  ManifestHash(here) = ManifestHash(there)
    BY DEF ExchangeConverges
  <2>1. Here \in Manifest /\ There \in Manifest /\ LastLineage \in Lineage
    BY OutcomeTypes
  <2>2. here = Applied(Here, There, Mine, Theirs) /\ there = Applied(There, Here, Theirs, Mine)
    BY DEF IsOutcome
  <2>3. \A p \in Paths : HashAt(here, p) = HashAt(there, p)
    BY <2>1, <2>2, PathConverges DEF Tie, Differing, Files, Here, There, Mine, Theirs
  <2>4. here.dirs = there.dirs
    <3>1. here.dirs = {x \in Here.dirs \cup There.dirs :
                           x \in Here.dirs \cap There.dirs \/ x \notin LastLineage.dirs}
      BY <2>1, <2>2, AppliedDirs DEF Mine, Theirs
    <3>2. there.dirs = {x \in There.dirs \cup Here.dirs :
                            x \in There.dirs \cap Here.dirs \/ x \notin LastLineage.dirs}
      BY <2>1, <2>2, AppliedDirs DEF Mine, Theirs
    <3> QED BY <3>1, <3>2
  <2> QED BY <2>3, <2>4, SameHash DEF TypeOK
<1> QED BY <1>1, ExchangeOutcome, PTL

\* Folders merge three ways, whatever both sides did to them.
THEOREM FoldersMergeAlways == Spec => []FoldersMerge
<1>1. TypeOK /\ IsOutcome => FoldersMerge
  <2> SUFFICES ASSUME TypeOK, IsOutcome, stage = "exchanged", base # NoBase
               PROVE  here.dirs = {x \in Here.dirs \cup There.dirs :
                                       x \in Here.dirs \cap There.dirs \/ x \notin base.dirs}
    BY DEF FoldersMerge, Here, There
  <2>1. LastLineage.dirs = base.dirs
    BY DEF LastLineage, IntersectLineage
  <2>2. here = Applied(Here, There, Mine, Theirs)
    BY DEF IsOutcome
  <2> QED BY <2>1, <2>2, OutcomeTypes, AppliedDirs DEF Mine, Theirs
<1> QED BY <1>1, ExchangeOutcome, PTL

\* The side that changed wins on one path: l is what its user left behind, r is
\* still the common past b.
LEMMA ChangedPathWins ==
    ASSUME NEW b \in CommonPast, NEW l \in LeftBehindBy(b), NEW r \in LeftBehindBy(b),
           NEW lineage \in Lineage, NEW p \in Paths,
           b # NoBase, lineage.files = Files(b), ManifestHash(r) = ManifestHash(b),
           p \in Files(l) /\ l.files[p].hash # BaseVersion => l.files[p].mtime > BaseMtime
    PROVE  /\ HashAt(Applied(l, r, Compute(l, r, lineage), Compute(r, l, lineage)), p) = HashAt(l, p)
           /\ HashAt(Applied(r, l, Compute(r, l, lineage), Compute(l, r, lineage)), p) = HashAt(l, p)
<1>1. b \in Manifest /\ l \in Manifest /\ r \in Manifest
  BY DEF CommonPast, LeftBehindBy
<1>2. HashAt(r, p) = HashAt(b, p) /\ (p \in Files(r) <=> p \in lineage.files)
  BY <1>1, SameHash, HashAtPath
<1>3. CASE p \in Files(l) /\ p \in Files(r)
  <2>1. CASE p \in Differing(l, r)
    <3>1. r.files[p].hash = BaseVersion /\ r.files[p].mtime = BaseMtime
      BY <1>1, <1>2, <1>3, HashAtPath DEF CommonPast, LeftBehindBy
    <3>2. l.files[p].mtime > r.files[p].mtime
      BY <1>3, <2>1, <3>1 DEF Differing
    <3>3. p \notin RemoteNewer(l, r)
      BY <3>2, <2>1 DEF LocalNewer, RemoteNewer
    <3>4. BaseMtime \in Nat /\ l.files[p].mtime \in Nat
      BY <1>1, <1>3, HashAtPath, DecisionAssumption, ExchangeAssumption DEF FileEntry
    <3>5. p \in RemoteNewer(r, l)
      BY <1>1, <2>1, <3>1, <3>2, <3>3, <3>4, NewerIsOneSided
    <3> QED BY <1>1, <1>3, <3>3, <3>5, AppliedPath
  <2>2. CASE p \notin Differing(l, r)
    BY <1>1, <1>3, <2>2, HashAtPath, NewerIsOneSided, AppliedPath DEF Differing
  <2> QED BY <2>1, <2>2
<1>4. CASE ~(p \in Files(l) /\ p \in Files(r))
  BY <1>1, <1>2, <1>4, HashAtPath, AppliedPath
<1> QED BY <1>3, <1>4

\* With a known common past and clocks that agree that an edit came later, both
\* devices end with exactly the files of the side that changed: the three-way
\* merge that SyncWithPeer keeps a merge-base for.
THEOREM ChangedSideWinsAlways == Spec => []ChangedSideWins
<1>1. TypeOK /\ IsOutcome => ChangedSideWins
  <2> SUFFICES ASSUME TypeOK, IsOutcome, stage = "exchanged", HonestClocks
               PROVE  /\ Unchanged(There) => SameFiles(here, Here) /\ SameFiles(there, Here)
                      /\ Unchanged(Here) => SameFiles(here, There) /\ SameFiles(there, There)
    BY DEF ChangedSideWins, Here, There
  <2>1. /\ Here \in Manifest /\ There \in Manifest /\ LastLineage \in Lineage
        /\ here \in Manifest /\ there \in Manifest
    BY OutcomeTypes DEF TypeOK
  <2>2. here = Applied(Here, There, Mine, Theirs) /\ there = Applied(There, Here, Theirs, Mine)
    BY DEF IsOutcome
  <2>3. Here \in LeftBehindBy(base) /\ There \in LeftBehindBy(base)
    BY DEF IsOutcome
  <2>4. base # NoBase => base \in CommonPast /\ LastLineage.files = Files(base)
    BY DEF IsOutcome, LastLineage, IntersectLineage
  <2>5. \A p \in Paths :
            /\ p \in Files(Here) /\ Here.files[p].hash # BaseVersion => Here.files[p].mtime > BaseMtime
            /\ p \in Files(There) /\ There.files[p].hash # BaseVersion => There.files[p].mtime > BaseMtime
    BY DEF HonestClocks, Here, There
  <2>6. ASSUME Unchanged(There)
        PROVE  \A p \in Paths : HashAt(here, p) = HashAt(Here, p) /\ HashAt(there, p) = HashAt(Here, p)
    BY <2>1, <2>2, <2>3, <2>4, <2>5, <2>6, ChangedPathWins DEF Unchanged, Mine, Theirs
  <2>7. ASSUME Unchanged(Here)
        PROVE  \A p \in Paths : HashAt(here, p) = HashAt(There, p) /\ HashAt(there, p) = HashAt(There, p)
    BY <2>1, <2>2, <2>3, <2>4, <2>5, <2>7, ChangedPathWins DEF Unchanged, Mine, Theirs
  <2> QED BY <2>1, <2>6, <2>7, SameFilesPathwise
<1> QED BY <1>1, ExchangeOutcome, PTL

\* Two devices that share no past lose nothing: either the user is asked, or every
\* file of either side ends up on both.
THEOREM FirstContactKeepsEverythingAlways == Spec => []FirstContactKeepsEverything
<1>1. TypeOK /\ IsOutcome => FirstContactKeepsEverything
  <2> SUFFICES ASSUME TypeOK, IsOutcome, stage = "exchanged", base = NoBase, NEW p \in Paths
               PROVE  /\ p \in Files(Here) => /\ HashAt(here, p) = HashAt(Here, p)
                                              /\ HashAt(there, p) = HashAt(Here, p)
                      /\ p \in Files(There) => /\ HashAt(here, p) = HashAt(There, p)
                                               /\ HashAt(there, p) = HashAt(There, p)
    BY OutcomeTypes, HashAtPath DEF FirstContactKeepsEverything, Here, There, Files
  <2>1. Here \in Manifest /\ There \in Manifest /\ LastLineage \in Lineage
    BY OutcomeTypes
  <2>2. here = Applied(Here, There, Mine, Theirs) /\ there = Applied(There, Here, Theirs, Mine)
    BY DEF IsOutcome
  <2>3. p \notin LastLineage.files
    BY DEF LastLineage, EmptyLineage
  <2>4. HashAt(Here, p) = HashAt(There, p) \/ p \notin Files(Here) \/ p \notin Files(There)
    <3>1. ~DetectConflict(Here, There, 0, NoHash)
      BY DEF IsOutcome, Asks, LastSync, HealedBase, Agreed
    <3> QED BY <2>1, <3>1, SameHash, SameFilesPathwise DEF DetectConflict, BothModifiedSince
  <2>5. p \in Files(Here) /\ p \in Files(There) =>
            p \notin Differing(Here, There) /\ HashAt(Here, p) = HashAt(There, p)
    BY <2>1, <2>4, HashAtPath DEF Differing
  <2>6. p \notin Differing(Here, There) => p \notin RemoteNewer(Here, There) /\ p \notin RemoteNewer(There, Here)
    BY <2>1, NewerIsOneSided
  <2> QED BY <2>1, <2>2, <2>3, <2>5, <2>6, AppliedPath DEF Mine, Theirs
<1> QED BY <1>1, ExchangeOutcome, PTL
=============================================================================
