--------------------------- MODULE SaveHistoryProofs ---------------------------
(***************************************************************************)
(* The theorems about SaveHistory: what a goroutine is at makes sense, a    *)
(* restore finds its archive, a listed snapshot is true as long as one      *)
(* process takes them, the branch in play stays and owns the folder, and a  *)
(* branch made with a copy of the save keeps one, as long as one goroutine  *)
(* at a time works on it.                                                   *)
(***************************************************************************)
EXTENDS SaveHistory, FiniteSetTheorems, WellFoundedInduction, TLAPS

-----------------------------------------------------------------------------
(* Types                                                                   *)

\* What a goroutine has in its variables at each step.
Sensible(t) ==
    /\ t.step \in {"zip", "claim", "name", "insert", "place", "register"} => t.onto \in Branches
    /\ t.step \in {"name", "insert", "place", "register"} => t.id \in Ids
    /\ t.step = "enter" => t.op \in {"import", "track"}
    /\ t.step = "enter" /\ t.op = "import" => t.old \in Ids
    /\ t.op \in {"switch", "restore"} => t.target \in Branches
    /\ t.op = "track" => t.old = 0
    /\ t.step = "fill" => t.source # Missing
    /\ t.step \in {"open", "fill"} => t.op \in {"restore", "switch", "track"}
    /\ t.step \in {"clear", "flip", "latest"} => t.op = "switch"
    /\ t.step \in {"place", "register"} => t.op = "import"
    /\ t.step = "aside" => t.op = "track"
    /\ t.step = "sweep" => t.op = "cleanup"
    /\ t.step = "drop" => t.op \in {"delete", "branch", "cleanup"}
    /\ t.safe => t.op = "import" \/ t.source # Missing

TasksMakeSense == \A a \in Actors : Sensible(tasks[a])
RowsMakeSense == \A i \in Ids : rows[i].branch = NoBranch => rows[i] = NoRow

Typed == TypeOK /\ TasksMakeSense /\ RowsMakeSense

\* A task that an action may leave a goroutine at.
Proper(t) == t \in Task /\ Sensible(t)

LEMMA NoTaskProper == Proper(NoTask)
  BY HistoryAssumption DEF Proper, Sensible, NoTask, Task, Contents, Steps, Missing, Ids

LEMMA TypedInit == Init => Typed
<1> SUFFICES ASSUME Init PROVE Typed
  OBVIOUS
<1>1. \A a \in Actors : Proper(tasks[a])
  BY NoTaskProper DEF Init
<1>2. tasks \in [Actors -> Task]
  BY NoTaskProper DEF Init, Proper
<1>3. NoRow \in Row
  BY DEF NoRow, Row
<1> QED BY <1>1, <1>2, <1>3, HistoryAssumption
     DEF Init, Typed, TypeOK, TasksMakeSense, RowsMakeSense, Proper, Contents, Missing, Empty, Ids, NoRow

LEMMA GoProper ==
    ASSUME Typed, NEW a \in Actors, NEW v, Proper(v), Go(a, v)
    PROVE  tasks' \in [Actors -> Task] /\ TasksMakeSense'
  BY DEF Typed, TypeOK, TasksMakeSense, Proper, Go

LEMMA TaskIsProper ==
    ASSUME Typed, NEW a \in Actors
    PROVE  Proper(tasks[a])
  BY DEF Typed, TypeOK, TasksMakeSense, Proper

\* What a snapshot row says.
LEMMA RowFacts ==
    ASSUME Typed, NEW i \in Ids
    PROVE  /\ rows[i] \in Row
           /\ Recorded(i) => rows[i].branch \in Branches
           /\ ArchiveOf(i) \in Contents
           /\ \A b \in Branches : archives[b][i] \in Contents /\ (i \in OnBranch(b) => Recorded(i))
<1>1. rows[i] \in Row /\ (Recorded(i) => rows[i].branch \in Branches)
  BY DEF Typed, TypeOK, RowsMakeSense, Recorded, Row
<1>2. \A b \in Branches : archives[b][i] \in Contents
  BY DEF Typed, TypeOK
<1>3. Missing \in Contents
  BY HistoryAssumption DEF Missing, Contents
<1>4. \A b \in Branches : i \in OnBranch(b) => Recorded(i)
  BY HistoryAssumption DEF OnBranch, Recorded, NoRow
<1> QED BY <1>1, <1>2, <1>3, <1>4 DEF ArchiveOf

LEMMA OnBranchType == \A b : OnBranch(b) \subseteq Ids
  BY DEF OnBranch

-----------------------------------------------------------------------------
(* Tasks: what the parts of an action leave                                *)

LEMMA AfterSnapshotProper ==
    ASSUME NEW t, Proper(t)
    PROVE  Proper(AfterSnapshot(t))
<1>1. CASE t.op = "restore"
  BY <1>1 DEF AfterSnapshot, Proper, Sensible, Task, Steps
<1>2. CASE t.op = "switch"
  BY <1>2 DEF AfterSnapshot, Proper, Sensible, Task, Steps
<1>3. CASE t.op \notin {"restore", "switch"}
  BY <1>3, NoTaskProper DEF AfterSnapshot
<1> QED BY <1>1, <1>2, <1>3

LEMMA DeletingProper ==
    ASSUME NEW t, Proper(t), t.op \in {"delete", "branch", "cleanup"}, NEW b \in Branches \cup {NoBranch}
    PROVE  Proper(Deleting(t, b))
<1> DEFINE d == OnBranch(b)
<1>1. d \in SUBSET Ids
  BY OnBranchType
<1> HIDE DEF d
<1>2. Deleting(t, b) = [t EXCEPT !.step = "drop", !.target = b, !.doomed = d]
  BY DEF Deleting, d
<1> QED BY <1>1, <1>2 DEF Proper, Sensible, Task, Steps

LEMMA AfterFailureProper ==
    ASSUME NEW t, Proper(t)
    PROVE  Proper(AfterFailure(t))
<1>1. CASE t.op = "restore"
  BY <1>1 DEF AfterFailure, Proper, Sensible, Task, Steps
<1>2. CASE t.op = "branch" /\ t.target # active
  <2>1. Proper(Deleting(t, t.target))
    BY <1>2, DeletingProper DEF Proper, Task
  <2> QED BY <1>2, <2>1 DEF AfterFailure
<1>3. CASE t.op # "restore" /\ ~(t.op = "branch" /\ t.target # active)
  BY <1>3, NoTaskProper DEF AfterFailure
<1> QED BY <1>1, <1>2, <1>3

LEMMA PruningProper ==
    ASSUME Typed, NEW t, Proper(t)
    PROVE  Proper(Pruning(t))
<1>1. CASE Prunes
  <2>1. branches \subseteq Branches
    BY DEF Typed, TypeOK
  <2> DEFINE v == [t EXCEPT !.step = "prune", !.listed = branches, !.id = 0]
  <2>2. v \in Task
    <3>1. 0 \in 0..MaxId
      BY HistoryAssumption
    <3> QED BY <2>1, <3>1 DEF Proper, Task, Steps
  <2>3. /\ v.step = "prune" /\ v.op = t.op /\ v.target = t.target /\ v.old = t.old /\ v.source = t.source
        /\ v.safe <=> t.safe
    BY DEF Proper, Task
  <2>4. Pruning(t) = v
    BY <1>1 DEF Pruning
  <2> HIDE DEF v
  <2> QED BY <2>2, <2>3, <2>4 DEF Proper, Sensible
<1>2. CASE ~Prunes
  BY <1>2, AfterSnapshotProper DEF Pruning
<1> QED BY <1>1, <1>2

LEMMA RestoringProper ==
    ASSUME Typed, NEW i \in Ids, Recorded(i)
    PROVE  Proper(Restoring(NoTask, i)) /\ Restoring(NoTask, i).op = "restore"
<1> DEFINE s == [NoTask EXCEPT !.op = "restore", !.step = "open", !.old = i, !.target = rows[i].branch]
           c == [s EXCEPT !.source = ArchiveOf(i)]
           v == [c EXCEPT !.step = "zip", !.onto = active, !.safe = ArchiveOf(i) # Missing]
<1>1. i \in 0..MaxId /\ rows[i].branch \in Branches /\ active \in Branches /\ ArchiveOf(i) \in Contents
  BY RowFacts, HistoryAssumption DEF Typed, TypeOK, Ids
<1>2. Proper(s) /\ s.op = "restore" /\ s.old = i /\ s.safe = FALSE
  BY <1>1, NoTaskProper DEF Proper, Sensible, NoTask, Task, Ops, Steps
<1>3. s.step = "open"
  BY DEF NoTask
<1>4. c = Copied(s)
  BY <1>2 DEF Copied
<1> HIDE DEF s
<1>5. Proper(c) /\ c.op = "restore" /\ c.source = ArchiveOf(i)
  <2>1. c \in Task
    BY <1>1, <1>2 DEF Proper, Task
  <2>2. c.op = "restore" /\ c.source = ArchiveOf(i) /\ c.safe = FALSE
    BY <1>1, <1>2 DEF Proper, Task
  <2>3. c.step = s.step /\ c.onto = s.onto /\ c.id = s.id /\ c.old = s.old /\ c.target = s.target /\ c.step = "open"
    BY <1>1, <1>2, <1>3 DEF Proper, Task
  <2> HIDE DEF c
  <2> QED BY <1>2, <2>1, <2>2, <2>3 DEF Proper, Sensible
<1> HIDE DEF c
<1>6. Proper(v) /\ v.op = "restore"
  BY <1>1, <1>5 DEF Proper, Sensible, Task, Steps
<1>7. Restoring(NoTask, i) = IF save = Empty THEN s ELSE v
  BY <1>4 DEF Restoring, s
<1> QED BY <1>2, <1>6, <1>7

-----------------------------------------------------------------------------
(* Tasks: every action                                                     *)

\* The goroutine's task is a proper one after the action.
Moves(a) == tasks' = tasks \/ \E v : Proper(v) /\ Go(a, v)

LEMMA BoundsOfIds == 0 \in 0..MaxId /\ Ids \subseteq 0..MaxId
  BY HistoryAssumption DEF Ids

LEMMA AskedMoves ==
    ASSUME Typed, NEW a \in Actors, Asked(a)
    PROVE  Moves(a)
<1>1. active \in Branches /\ branches \subseteq Branches /\ save \in Contents
  BY DEF Typed, TypeOK
<1>2. CASE \E auto \in BOOLEAN : BeginCreate(a, auto)
  <2>1. PICK auto \in BOOLEAN : BeginCreate(a, auto)
    BY <1>2
  <2> DEFINE v == [NoTask EXCEPT !.op = "create", !.step = "zip", !.onto = active, !.auto = auto]
  <2>2. Proper(v)
    BY <1>1, NoTaskProper DEF Proper, Sensible, NoTask, Task, Ops, Steps
  <2>3. Go(a, v)
    BY <2>1 DEF BeginCreate
  <2> QED BY <2>2, <2>3 DEF Moves
<1>3. CASE BeginCleanup(a)
  <2> DEFINE l == IF Prunes THEN branches ELSE {}
             v == [NoTask EXCEPT !.op = "cleanup", !.step = "prune", !.listed = l]
  <2>1. l \subseteq Branches
    BY <1>1
  <2> HIDE DEF l
  <2>2. Proper(v)
    BY <2>1, NoTaskProper DEF Proper, Sensible, NoTask, Task, Ops, Steps
  <2>3. Go(a, v)
    BY <1>3 DEF BeginCleanup, l
  <2> QED BY <2>2, <2>3 DEF Moves
<1>4. Proper(Initial)
  BY HistoryAssumption, NoTaskProper DEF Initial, Proper, Sensible, NoTask, Task, Ops, Steps
<1>5. CASE Track(a)
  BY <1>4, <1>5 DEF Track, Moves
<1>6. CASE Untrack(a)
  BY <1>6 DEF Untrack, Moves
<1>7. CASE \E i \in Ids : BeginRestore(a, i) \/ DeleteSnapshot(a, i)
  BY <1>7, RestoringProper DEF BeginRestore, DeleteSnapshot, Moves
<1>8. CASE \E b \in Branches : BeginSwitch(a, b)
  <2>1. PICK b \in Branches : BeginSwitch(a, b)
    BY <1>8
  <2> DEFINE s == IF save = Empty THEN "clear" ELSE "zip"
             v == [NoTask EXCEPT !.op = "switch", !.target = b, !.onto = active, !.step = s]
  <2>2. s \in {"clear", "zip"}
    OBVIOUS
  <2>3. Go(a, v)
    BY <2>1 DEF BeginSwitch
  <2> HIDE DEF s
  <2>4. Proper(v)
    BY <1>1, <2>2, NoTaskProper DEF Proper, Sensible, NoTask, Task, Ops, Steps
  <2> QED BY <2>3, <2>4 DEF Moves
<1>9. CASE \E b \in Branches : BeginDelete(a, b)
  <2>1. PICK b \in Branches : BeginDelete(a, b)
    BY <1>9
  <2> DEFINE v == [NoTask EXCEPT !.op = "delete"]
  <2>2. Proper(v) /\ v.op = "delete"
    BY NoTaskProper DEF Proper, Sensible, NoTask, Task, Ops, Steps
  <2>3. Go(a, Deleting(v, b))
    BY <2>1 DEF BeginDelete
  <2> HIDE DEF v
  <2>4. Proper(Deleting(v, b))
    BY <2>2, DeletingProper
  <2> QED BY <2>3, <2>4 DEF Moves
<1>10. CASE \E b \in Branches, copy \in BOOLEAN : BeginBranch(a, b, copy)
  <2>1. PICK b \in Branches, copy \in BOOLEAN : BeginBranch(a, b, copy)
    BY <1>10
  <2> DEFINE v == [NoTask EXCEPT !.op = "branch", !.step = "zip", !.onto = b, !.target = b]
  <2>2. Proper(v)
    BY NoTaskProper DEF Proper, Sensible, NoTask, Task, Ops, Steps
  <2>3. Go(a, v) \/ tasks' = tasks
    BY <2>1 DEF BeginBranch
  <2> QED BY <2>2, <2>3 DEF Moves
<1>11. CASE \E c \in 2..newest : BeginBring(a, c)
  <2>1. PICK c \in 2..newest : BeginBring(a, c)
    BY <1>11
  <2> DEFINE s == IF save = Empty THEN "open" ELSE "aside"
             v == [NoTask EXCEPT !.op = "track", !.source = c, !.step = s]
  <2>2. s \in {"open", "aside"} /\ c \in Contents /\ c # Missing
    BY HistoryAssumption DEF Typed, TypeOK, Contents, Missing
  <2>3. Go(a, v)
    BY <2>1 DEF BeginBring
  <2> HIDE DEF s
  <2>4. Proper(v)
    BY <2>2, NoTaskProper DEF Proper, Sensible, NoTask, Task, Ops, Steps
  <2> QED BY <2>3, <2>4 DEF Moves
<1>12. CASE \E c \in 2..newest, overwrite \in BOOLEAN : BeginImport(a, c, overwrite)
  <2>1. PICK c \in 2..newest, overwrite \in BOOLEAN : BeginImport(a, c, overwrite)
    BY <1>12
  <2> DEFINE v == [NoTask EXCEPT !.op = "import", !.step = "place", !.onto = active, !.id = clock,
                                 !.staged = c, !.safe = overwrite]
  <2>2. c \in Contents /\ clock \in Ids /\ clock \in 0..MaxId
    BY HistoryAssumption DEF Typed, TypeOK, Contents, Ids
  <2>3. Go(a, v)
    BY <2>1 DEF BeginImport
  <2>4. Proper(v)
    BY <1>1, <2>2, NoTaskProper DEF Proper, Sensible, NoTask, Task, Ops, Steps
  <2> QED BY <2>3, <2>4 DEF Moves
<1> QED BY <1>2, <1>3, <1>5, <1>6, <1>7, <1>8, <1>9, <1>10, <1>11, <1>12 DEF Asked

LEMMA SnapshotMoves ==
    ASSUME Typed, NEW a \in Actors,
           \/ Zip(a) \/ Claim(a) \/ WalkOn(a) \/ Name(a) \/ Insert(a) \/ Collide(a) \/ FailInsert(a)
           \/ FailSnapshot(a)
    PROVE  Moves(a)
<1> DEFINE t == tasks[a]
<1>1. Proper(t)
  BY TaskIsProper
<1> HIDE DEF t
<1>2. CASE Zip(a)
  <2> DEFINE v == [t EXCEPT !.step = "claim", !.staged = save]
  <2>1. t.step = "zip" /\ Go(a, v)
    BY <1>2 DEF Zip, At, t
  <2>2. Proper(v)
    BY <1>1, <2>1 DEF Proper, Sensible, Task, Steps, Typed, TypeOK
  <2> QED BY <2>1, <2>2 DEF Moves
<1>3. CASE Claim(a)
  <2> DEFINE v == [t EXCEPT !.step = "name", !.id = clock]
  <2>1. t.step = "claim" /\ Go(a, v)
    BY <1>3 DEF Claim, At, t
  <2>2. clock \in Ids /\ clock \in 0..MaxId
    BY HistoryAssumption DEF Typed, TypeOK, Ids
  <2>3. Proper(v)
    BY <1>1, <2>1, <2>2 DEF Proper, Sensible, Task, Steps
  <2> QED BY <2>1, <2>3 DEF Moves
<1>4. CASE WalkOn(a)
  <2> DEFINE n == t.id + 1
             v == [t EXCEPT !.id = n]
  <2>1. t.step = "name" /\ t.id < MaxId /\ Go(a, v)
    BY <1>4 DEF WalkOn, At, t
  <2>2. n \in Ids /\ n \in 0..MaxId
    BY <1>1, <2>1, HistoryAssumption DEF Proper, Task, Ids
  <2> HIDE DEF n
  <2>3. Proper(v)
    BY <1>1, <2>1, <2>2 DEF Proper, Sensible, Task
  <2> QED BY <2>1, <2>3 DEF Moves
<1>5. CASE Name(a)
  <2> DEFINE v == [t EXCEPT !.step = "insert"]
  <2>1. t.step = "name" /\ Go(a, v)
    BY <1>5 DEF Name, At, t
  <2>2. Proper(v)
    BY <1>1, <2>1 DEF Proper, Sensible, Task, Steps
  <2> QED BY <2>1, <2>2 DEF Moves
<1>6. CASE Insert(a)
  <2>1. Go(a, Pruning(t))
    BY <1>6 DEF Insert, t
  <2> QED BY <1>1, <2>1, PruningProper DEF Moves
<1>7. CASE Collide(a)
  <2> DEFINE n == t.id + 1
             c == archives[t.onto][t.id]
             v == [t EXCEPT !.step = "name", !.id = n, !.staged = c]
  <2>1. t.step = "insert" /\ t.id < MaxId /\ (Go(a, v) \/ Go(a, AfterFailure(t)))
    BY <1>7 DEF Collide, At, t
  <2>2. n \in Ids /\ n \in 0..MaxId
    BY <1>1, <2>1, HistoryAssumption DEF Proper, Task, Ids
  <2>3. c \in Contents
    BY <1>1, <2>1 DEF Proper, Sensible, Typed, TypeOK
  <2> HIDE DEF n, c
  <2>4. Proper(v)
    BY <1>1, <2>1, <2>2, <2>3 DEF Proper, Sensible, Task, Steps
  <2> QED BY <1>1, <2>1, <2>4, AfterFailureProper DEF Moves
<1>8. CASE FailInsert(a) \/ FailSnapshot(a)
  <2>1. Go(a, AfterFailure(t))
    BY <1>8 DEF FailInsert, FailSnapshot, t
  <2> QED BY <1>1, <2>1, AfterFailureProper DEF Moves
<1> QED BY <1>2, <1>3, <1>4, <1>5, <1>6, <1>7, <1>8

LEMMA RetentionMoves ==
    ASSUME Typed, NEW a \in Actors,
           PruneBranch(a) \/ PruneSnapshot(a) \/ EndPrune(a) \/ Sweep(a) \/ DropSnapshot(a) \/ DropBranch(a)
    PROVE  Moves(a)
<1> DEFINE t == tasks[a]
<1>1. Proper(t) /\ branches \subseteq Branches
  BY TaskIsProper DEF Typed, TypeOK
<1> HIDE DEF t
<1>2. CASE PruneBranch(a)
  <2>1. PICK b \in t.listed :
             Go(a, [t EXCEPT !.listed = @ \ {b}, !.doomed = SnapshotsBeyondRetentionByKind(b)])
    BY <1>2 DEF PruneBranch, t
  <2> DEFINE d == SnapshotsBeyondRetentionByKind(b)
             l == t.listed \ {b}
             v == [t EXCEPT !.listed = l, !.doomed = d]
  <2>2. d \subseteq Ids /\ l \subseteq Branches
    BY <1>1, OnBranchType DEF SnapshotsBeyondRetentionByKind, Proper, Task
  <2>3. Go(a, v) /\ t.step = "prune"
    BY <1>2, <2>1 DEF PruneBranch, At, t
  <2> HIDE DEF d, l
  <2>4. Proper(v)
    BY <1>1, <2>2, <2>3 DEF Proper, Sensible, Task
  <2> QED BY <2>3, <2>4 DEF Moves
<1>3. CASE PruneSnapshot(a) \/ DropSnapshot(a)
  <2>1. PICK i \in t.doomed : Forget(a, i)
    BY <1>3 DEF PruneSnapshot, DropSnapshot, t
  <2> DEFINE d == t.doomed \ {i}
             v == [t EXCEPT !.doomed = d]
  <2>2. d \subseteq Ids
    BY <1>1 DEF Proper, Task
  <2>3. Go(a, v)
    BY <2>1 DEF Forget, t
  <2> HIDE DEF d
  <2>4. Proper(v)
    BY <1>1, <2>2 DEF Proper, Sensible, Task
  <2> QED BY <2>3, <2>4 DEF Moves
<1>4. CASE EndPrune(a)
  <2>1. CASE t.op = "cleanup"
    <3> DEFINE l == branches \cap Leftovers
               v == [t EXCEPT !.step = "sweep", !.listed = l]
    <3>1. l \subseteq Branches
      BY <1>1
    <3>2. Go(a, v)
      BY <1>4, <2>1 DEF EndPrune, t
    <3> HIDE DEF l
    <3>3. Proper(v)
      BY <1>1, <2>1, <3>1 DEF Proper, Sensible, Task, Steps
    <3> QED BY <3>2, <3>3 DEF Moves
  <2>2. CASE t.op # "cleanup"
    BY <1>1, <1>4, <2>2, AfterSnapshotProper DEF EndPrune, Moves, t
  <2> QED BY <2>1, <2>2
<1>5. CASE Sweep(a)
  <2>1. CASE t.listed = {}
    BY <1>5, <2>1, NoTaskProper DEF Sweep, Finish, Moves, t
  <2>2. CASE t.listed # {}
    <3>1. PICK b \in t.listed :
               Go(a, IF Spared(b) THEN [t EXCEPT !.listed = @ \ {b}]
                     ELSE Deleting([t EXCEPT !.listed = @ \ {b}], b))
      BY <1>5, <2>2 DEF Sweep, t
    <3> DEFINE l == t.listed \ {b}
               v == [t EXCEPT !.listed = l]
    <3>2. l \subseteq Branches /\ b \in Branches /\ t.op = "cleanup"
      BY <1>1, <1>5 DEF Proper, Sensible, Task, Sweep, At, t
    <3>3. Go(a, v) \/ Go(a, Deleting(v, b))
      BY <3>1
    <3> HIDE DEF l
    <3>4. Proper(v) /\ v.op = "cleanup"
      BY <1>1, <3>2 DEF Proper, Sensible, Task
    <3> HIDE DEF v
    <3> QED BY <3>2, <3>3, <3>4, DeletingProper DEF Moves
  <2> QED BY <2>1, <2>2
<1>6. CASE DropBranch(a)
  <2>1. CASE t.op = "cleanup"
    <3> DEFINE v == [t EXCEPT !.step = "sweep", !.target = NoBranch]
    <3>1. Go(a, v)
      BY <1>6, <2>1 DEF DropBranch, t
    <3>2. Proper(v)
      BY <1>1, <2>1 DEF Proper, Sensible, Task, Steps
    <3> QED BY <3>1, <3>2 DEF Moves
  <2>2. CASE t.op # "cleanup"
    BY <1>6, <2>2, NoTaskProper DEF DropBranch, Moves, t
  <2> QED BY <2>1, <2>2
<1> QED BY <1>2, <1>3, <1>4, <1>5, <1>6

LEMMA ReadableType ==
    ASSUME Typed, NEW t, Proper(t), t.step = "open"
    PROVE  Readable(t) \in Contents
<1>1. t.source \in Contents /\ Missing \in Contents
  BY HistoryAssumption DEF Proper, Task, Missing, Contents
<1>2. t.old # 0 => t.target \in Branches /\ t.old \in Ids
  BY HistoryAssumption DEF Proper, Sensible, Task, Ids
<1>3. t.old # 0 => archives[t.target][t.old] \in Contents
  BY <1>2, RowFacts
<1> QED BY <1>1, <1>3 DEF Readable

\* A branch with a snapshot has a newest one.
LEMMA LatestExists ==
    ASSUME NEW b, OnBranch(b) # {}
    PROVE  (CHOOSE i \in OnBranch(b) : \A j \in OnBranch(b) : j <= i) \in Ids
<1> DEFINE on == OnBranch(b)
           below == {n \in Nat : MaxId - n \in on}
<1>1. \A i \in on : i \in Nat /\ MaxId - i \in Nat /\ MaxId - (MaxId - i) = i /\ i \in Ids
  BY HistoryAssumption DEF OnBranch, Ids
<1>2. below # {}
  BY <1>1
<1>3. PICK n \in below : \A m \in below : ~ (<<m, n>> \in OpToRel(<, Nat))
  BY <1>2, NatLessThanWellFounded, WFMin
<1>4. ASSUME NEW m \in below PROVE n <= m
  <2>1. m \in Nat /\ n \in Nat /\ ~ (<<m, n>> \in OpToRel(<, Nat))
    BY <1>3
  <2>2. m < n => <<m, n>> \in OpToRel(<, Nat)
    BY <2>1 DEF OpToRel
  <2>3. m \in Nat /\ n \in Nat /\ ~ (m < n)
    BY <2>1, <2>2
  <2> HIDE DEF on, below
  <2> QED BY <2>3
<1>5. \E i \in on : \A j \in on : j <= i
  <2>1. MaxId - n \in on
    OBVIOUS
  <2>2. ASSUME NEW j \in on PROVE j <= MaxId - n
    <3>1. MaxId - j \in below
      BY <1>1
    <3>2. n <= MaxId - j /\ n \in Nat /\ MaxId \in Nat /\ j \in Nat
      BY <1>1, <1>4, <3>1, HistoryAssumption
    <3> QED BY <3>2
  <2> QED BY <2>1, <2>2
<1> QED BY <1>1, <1>5

LEMMA FolderMoves ==
    ASSUME Typed, NEW a \in Actors,
           Open(a) \/ Fill(a) \/ FailFill(a) \/ Clear(a) \/ Flip(a) \/ Latest(a)
    PROVE  Moves(a)
<1> DEFINE t == tasks[a]
<1>1. Proper(t)
  BY TaskIsProper
<1> HIDE DEF t
<1>2. CASE Open(a)
  <2>1. t.step = "open" /\ (Go(a, NoTask) \/ Go(a, [t EXCEPT !.step = "fill", !.source = Readable(t)]))
    BY <1>2 DEF Open, At, Finish, t
  <2> DEFINE r == Readable(t)
             v == [t EXCEPT !.step = "fill", !.source = r]
  <2>2. r \in Contents
    BY <1>1, <2>1, ReadableType
  <2>3. Go(a, NoTask) \/ (Go(a, v) /\ r # Missing)
    BY <1>2 DEF Open, Finish, t
  <2> HIDE DEF r
  <2>4. r # Missing => Proper(v)
    BY <1>1, <2>1, <2>2 DEF Proper, Sensible, Task, Steps
  <2> QED BY <2>3, <2>4, NoTaskProper DEF Moves
<1>3. CASE Fill(a)
  <2>1. CASE t.op = "track"
    <3> DEFINE v == [t EXCEPT !.step = "enter"]
    <3>1. Go(a, v)
      BY <1>3, <2>1 DEF Fill, t
    <3>2. Proper(v)
      BY <1>1, <2>1 DEF Proper, Sensible, Task, Steps
    <3> QED BY <3>1, <3>2 DEF Moves
  <2>2. CASE t.op # "track"
    BY <1>3, <2>2, NoTaskProper DEF Fill, Moves, t
  <2> QED BY <2>1, <2>2
<1>4. CASE FailFill(a)
  BY <1>4, NoTaskProper DEF FailFill, Finish, Moves
<1>5. CASE Clear(a)
  <2> DEFINE v == [t EXCEPT !.step = "flip"]
  <2>1. t.step = "clear" /\ Go(a, v)
    BY <1>5 DEF Clear, At, t
  <2>2. Proper(v)
    BY <1>1, <2>1 DEF Proper, Sensible, Task, Steps
  <2> QED BY <2>1, <2>2 DEF Moves
<1>6. CASE Flip(a)
  <2> DEFINE v == [t EXCEPT !.step = "latest"]
  <2>1. t.step = "flip" /\ (Go(a, v) \/ Go(a, NoTask))
    BY <1>6 DEF Flip, At, Finish, t
  <2>2. Proper(v)
    BY <1>1, <2>1 DEF Proper, Sensible, Task, Steps
  <2> QED BY <2>1, <2>2, NoTaskProper DEF Moves
<1>7. CASE Latest(a)
  <2> DEFINE on == OnBranch(t.target)
  <2>1. CASE on = {}
    BY <1>7, <2>1, NoTaskProper DEF Latest, Moves, t
  <2>2. CASE on # {}
    <3> DEFINE n == CHOOSE i \in on : \A j \in on : j <= i
               v == [t EXCEPT !.step = "open", !.old = n]
    <3>1. t.step = "latest" /\ Go(a, v)
      BY <1>7, <2>2 DEF Latest, At, t
    <3>2. n \in 0..MaxId
      BY <1>1, <2>2, LatestExists, BoundsOfIds
    <3> HIDE DEF n
    <3>3. Proper(v)
      BY <1>1, <3>1, <3>2 DEF Proper, Sensible, Task, Steps
    <3> QED BY <3>1, <3>3 DEF Moves
  <2> QED BY <2>1, <2>2
<1> QED BY <1>2, <1>3, <1>4, <1>5, <1>6, <1>7

LEMMA ImportMoves ==
    ASSUME Typed, NEW a \in Actors,
           \/ Place(a) \/ Register(a) \/ RestoreImported(a) \/ CopyAside(a) \/ FailCopyAside(a)
           \/ TrackImported(a)
    PROVE  Moves(a)
<1> DEFINE t == tasks[a]
<1>1. Proper(t)
  BY TaskIsProper
<1> HIDE DEF t
<1>2. CASE Place(a)
  <2> DEFINE v == [t EXCEPT !.step = "register"]
  <2>1. t.step = "place" /\ Go(a, v)
    BY <1>2 DEF Place, At, t
  <2>2. Proper(v)
    BY <1>1, <2>1 DEF Proper, Sensible, Task, Steps
  <2> QED BY <2>1, <2>2 DEF Moves
<1>3. CASE Register(a)
  <2> DEFINE v == [NoTask EXCEPT !.op = "import", !.step = "enter", !.old = t.id]
  <2>1. t.step = "register" /\ (Go(a, v) \/ Go(a, NoTask))
    BY <1>3 DEF Register, At, Finish, t
  <2>2. t.id \in Ids /\ t.id \in 0..MaxId
    BY <1>1, <2>1, BoundsOfIds DEF Proper, Sensible
  <2>3. Proper(v)
    BY <2>2, NoTaskProper DEF Proper, Sensible, NoTask, Task, Ops, Steps
  <2> QED BY <2>1, <2>3, NoTaskProper DEF Moves
<1>4. CASE RestoreImported(a)
  <2>1. t.old \in Ids
    BY <1>1, <1>4 DEF Proper, Sensible, RestoreImported, At, t
  <2>2. Go(a, NoTask) \/ (Recorded(t.old) /\ Go(a, Restoring(NoTask, t.old)))
    BY <1>4 DEF RestoreImported, t
  <2> QED BY <2>1, <2>2, NoTaskProper, RestoringProper DEF Moves
<1>5. CASE CopyAside(a) \/ FailCopyAside(a)
  <2> DEFINE v == [t EXCEPT !.step = "open"]
  <2>1. t.step = "aside" /\ Go(a, v)
    BY <1>5 DEF CopyAside, FailCopyAside, At, t
  <2>2. Proper(v)
    BY <1>1, <2>1 DEF Proper, Sensible, Task, Steps
  <2> QED BY <2>1, <2>2 DEF Moves
<1>6. CASE TrackImported(a)
  <2>1. Proper(Initial)
    BY HistoryAssumption, NoTaskProper DEF Initial, Proper, Sensible, NoTask, Task, Ops, Steps
  <2> QED BY <1>6, <2>1, NoTaskProper DEF TrackImported, Finish, Moves
<1> QED BY <1>2, <1>3, <1>4, <1>5, <1>6

-----------------------------------------------------------------------------
(* Tables and bounds: every action                                         *)

TablesTyped ==
    /\ save \in Contents \ {Missing}
    /\ tracked \in BOOLEAN
    /\ active \in Branches
    /\ branches \subseteq Branches
    /\ rows \in [Ids -> Row] /\ RowsMakeSense
    /\ archives \in [Branches -> [Ids -> Contents]]
    /\ aside \subseteq Contents
    /\ clock \in 1..MaxClock /\ newest \in 1..MaxSave
    /\ begun \in 0..MaxTasks /\ faults \in 0..MaxFaults
    /\ taken \in [Ids -> Contents]
    /\ imported \subseteq Ids /\ given \subseteq Contents
    /\ home \in Branches
    /\ seeded \subseteq Branches

LEMMA TypedIsTables == Typed => TablesTyped
  BY DEF Typed, TypeOK, TablesTyped

LEMMA BoundsStep ==
    ASSUME TablesTyped
    PROVE  /\ Fault => faults' \in 0..MaxFaults
           /\ begun < MaxTasks /\ begun' = begun + 1 => begun' \in 0..MaxTasks
  BY HistoryAssumption DEF Fault, TablesTyped

LEMMA SpecialContents == Missing \in Contents /\ Empty \in Contents \ {Missing}
  BY HistoryAssumption DEF Missing, Empty, Contents

LEMMA NoRowType == NoRow \in Row
  BY DEF NoRow, Row

\* A row goes; so do all of a branch.
LEMMA RowsForget ==
    ASSUME TablesTyped, NEW i \in Ids, rows' = [rows EXCEPT ![i] = NoRow]
    PROVE  rows' \in [Ids -> Row] /\ RowsMakeSense'
  BY NoRowType DEF TablesTyped, RowsMakeSense

LEMMA RowsDrop ==
    ASSUME TablesTyped, NEW S, rows' = [i \in Ids |-> IF i \in S THEN NoRow ELSE rows[i]]
    PROVE  rows' \in [Ids -> Row] /\ RowsMakeSense'
  BY NoRowType DEF TablesTyped, RowsMakeSense

LEMMA RowsAdd ==
    ASSUME TablesTyped, NEW i \in Ids, NEW b \in Branches, NEW auto \in BOOLEAN,
           rows' = [rows EXCEPT ![i] = [branch |-> b, auto |-> auto]]
    PROVE  rows' \in [Ids -> Row] /\ RowsMakeSense'
<1> DEFINE r == [branch |-> b, auto |-> auto]
<1>1. r \in Row /\ r.branch = b /\ b # NoBranch
  BY HistoryAssumption DEF Row
<1> HIDE DEF r
<1>2. rows' = [rows EXCEPT ![i] = r]
  BY DEF r
<1> QED BY <1>1, <1>2 DEF TablesTyped, RowsMakeSense

LEMMA ArchiveSet ==
    ASSUME TablesTyped, NEW b \in Branches, NEW i \in Ids, NEW c \in Contents,
           archives' = [archives EXCEPT ![b][i] = c]
    PROVE  archives' \in [Branches -> [Ids -> Contents]]
  BY DEF TablesTyped

LEMMA GivenTyped ==
    ASSUME Typed, NEW S \in SUBSET Ids, given' = given \cup {ArchiveOf(i) : i \in S}
    PROVE  given' \subseteq Contents
<1>1. \A i \in S : ArchiveOf(i) \in Contents
  BY RowFacts
<1> QED BY <1>1 DEF Typed, TypeOK

LEMMA ForgetTables ==
    ASSUME Typed, NEW a, NEW i \in Ids, Forget(a, i)
    PROVE  /\ rows' \in [Ids -> Row] /\ RowsMakeSense'
           /\ archives' \in [Branches -> [Ids -> Contents]]
<1>1. CASE Recorded(i)
  <2>1. rows[i].branch \in Branches
    BY <1>1, RowFacts
  <2>2. archives' = [archives EXCEPT ![rows[i].branch][i] = Missing]
    BY <1>1 DEF Forget
  <2>3. archives' \in [Branches -> [Ids -> Contents]]
    BY <2>1, <2>2, ArchiveSet, SpecialContents, TypedIsTables
  <2> QED BY <2>3, RowsForget, TypedIsTables DEF Forget
<1>2. CASE ~Recorded(i)
  <2>1. archives' = archives
    BY <1>2 DEF Forget
  <2> QED BY <2>1, RowsForget, TypedIsTables DEF Forget, TablesTyped
<1> QED BY <1>1, <1>2

\* Actions that are about their goroutine only.
LEMMA QuietTables ==
    ASSUME TablesTyped, UNCHANGED <<disk, game, clock, newest, history>>,
           begun' \in 0..MaxTasks, faults' \in 0..MaxFaults
    PROVE  TablesTyped'
  BY DEF TablesTyped, disk, game, history, RowsMakeSense

LEMMA AskedTables ==
    ASSUME Typed, NEW a \in Actors, Asked(a)
    PROVE  TablesTyped'
<1> USE TypedIsTables
<1>1. begun' \in 0..MaxTasks /\ UNCHANGED <<clock, newest, faults>>
  BY BoundsStep DEF Asked, BeginCreate, BeginCleanup, Track, Untrack, BeginRestore, DeleteSnapshot, BeginSwitch,
                    BeginDelete, BeginBranch, BeginBring, BeginImport, Begin
<1>2. faults' \in 0..MaxFaults
  BY <1>1 DEF TablesTyped
<1>3. CASE UNCHANGED <<disk, game, history>>
  BY <1>1, <1>2, <1>3, QuietTables
<1>4. CASE Track(a)
  BY <1>1, <1>2, <1>4, HistoryAssumption DEF Track, Tracked, TablesTyped, disk, RowsMakeSense
<1>5. CASE Untrack(a)
  <2>1. rows' = [i \in Ids |-> IF i \in Ids THEN NoRow ELSE rows[i]]
    BY <1>5 DEF Untrack
  <2>2. rows' \in [Ids -> Row] /\ RowsMakeSense'
    BY <2>1, RowsDrop
  <2>3. given' \subseteq Contents
    BY <1>5, GivenTyped DEF Untrack
  <2> QED BY <1>1, <1>2, <1>5, <2>2, <2>3 DEF Untrack, TablesTyped, disk
<1>6. CASE \E i \in Ids : DeleteSnapshot(a, i)
  <2>1. PICK i \in Ids : DeleteSnapshot(a, i)
    BY <1>6
  <2>2. rows' \in [Ids -> Row] /\ RowsMakeSense'
    BY <2>1, RowsForget DEF DeleteSnapshot
  <2>3. archives' \in [Branches -> [Ids -> Contents]]
    BY <2>1, RowFacts, ArchiveSet, SpecialContents DEF DeleteSnapshot
  <2>4. given' \subseteq Contents
    BY <2>1, RowFacts DEF DeleteSnapshot, TablesTyped
  <2> QED BY <1>1, <1>2, <2>1, <2>2, <2>3, <2>4 DEF DeleteSnapshot, TablesTyped
<1>7. CASE \E b \in Branches, copy \in BOOLEAN : BeginBranch(a, b, copy)
  BY <1>1, <1>2, <1>7 DEF BeginBranch, TablesTyped, disk, RowsMakeSense
<1> QED BY <1>3, <1>4, <1>5, <1>6, <1>7
     DEF Asked, BeginCreate, BeginCleanup, BeginRestore, BeginSwitch, BeginDelete, BeginBring, BeginImport

LEMMA SnapshotTables ==
    ASSUME Typed, NEW a \in Actors,
           \/ Zip(a) \/ Claim(a) \/ WalkOn(a) \/ Name(a) \/ Insert(a) \/ Collide(a) \/ RefuseRow(a)
           \/ LoseRow(a) \/ FailSnapshot(a)
    PROVE  TablesTyped'
<1> USE TypedIsTables
<1> DEFINE t == tasks[a]
<1>1. Proper(t)
  BY TaskIsProper
<1> HIDE DEF t
<1>2. begun' \in 0..MaxTasks /\ faults' \in 0..MaxFaults /\ UNCHANGED <<clock, newest>>
  <2>1. CASE FailSnapshot(a) \/ LoseRow(a)
    BY <2>1, BoundsStep DEF FailSnapshot, LoseRow, FailInsert, TablesTyped
  <2>2. CASE ~(FailSnapshot(a) \/ LoseRow(a))
    BY <2>2 DEF Zip, Claim, WalkOn, Name, Insert, Collide, RefuseRow, FailInsert, TablesTyped, bounds
  <2> QED BY <2>1, <2>2
<1>3. CASE Zip(a) \/ Claim(a) \/ WalkOn(a) \/ FailSnapshot(a)
  BY <1>2, <1>3, QuietTables DEF Zip, Claim, WalkOn, FailSnapshot
<1>4. CASE Name(a)
  <2>1. t.onto \in Branches /\ t.id \in Ids /\ t.staged \in Contents
    BY <1>1, <1>4 DEF Name, At, Proper, Sensible, Task, t
  <2>2. archives' \in [Branches -> [Ids -> Contents]]
    BY <1>4, <2>1, ArchiveSet DEF Name, t
  <2> QED BY <1>2, <1>4, <2>2 DEF Name, TablesTyped, game, history, RowsMakeSense
<1>5. CASE Insert(a)
  <2>1. t.onto \in Branches /\ t.id \in Ids /\ t.staged \in Contents /\ t.auto \in BOOLEAN
    BY <1>1, <1>5 DEF Insert, At, Proper, Sensible, Task, t
  <2>2. rows' \in [Ids -> Row] /\ RowsMakeSense'
    BY <1>5, <2>1, RowsAdd DEF Insert, t
  <2>3. taken' \in [Ids -> Contents]
    BY <1>5, <2>1 DEF Insert, TablesTyped, t
  <2> QED BY <1>2, <1>5, <2>2, <2>3 DEF Insert, TablesTyped, disk
<1>6. CASE Collide(a) \/ FailInsert(a)
  <2>1. t.onto \in Branches /\ t.id \in Ids
    BY <1>1, <1>6 DEF Collide, FailInsert, At, Proper, Sensible, t
  <2>2. archives' \in [Branches -> [Ids -> Contents]]
    BY <1>6, <2>1, ArchiveSet, SpecialContents DEF Collide, FailInsert, TakeBack, t
  <2> QED BY <1>2, <1>6, <2>2 DEF Collide, FailInsert, TablesTyped, game, history, RowsMakeSense
<1> QED BY <1>3, <1>4, <1>5, <1>6 DEF RefuseRow, LoseRow

LEMMA RetentionTables ==
    ASSUME Typed, NEW a \in Actors,
           PruneBranch(a) \/ PruneSnapshot(a) \/ EndPrune(a) \/ Sweep(a) \/ DropSnapshot(a) \/ DropBranch(a)
    PROVE  TablesTyped'
<1> USE TypedIsTables
<1>1. begun' \in 0..MaxTasks /\ faults' \in 0..MaxFaults /\ UNCHANGED <<clock, newest>>
  BY DEF PruneBranch, PruneSnapshot, EndPrune, Sweep, DropSnapshot, DropBranch, bounds, TablesTyped
<1>2. CASE PruneBranch(a) \/ EndPrune(a) \/ Sweep(a)
  BY <1>1, <1>2, QuietTables DEF PruneBranch, EndPrune, Sweep
<1>3. CASE PruneSnapshot(a) \/ DropSnapshot(a)
  <2>1. PICK i \in tasks[a].doomed : Forget(a, i) /\ (given' = given \/ given' = given \cup {ArchiveOf(i)})
    BY <1>3 DEF PruneSnapshot, DropSnapshot, history
  <2>2. i \in Ids
    BY TaskIsProper DEF Proper, Task
  <2>3. given' \subseteq Contents
    BY <2>1, <2>2, RowFacts DEF TablesTyped
  <2> QED BY <1>1, <1>3, <2>1, <2>2, <2>3, ForgetTables DEF PruneSnapshot, DropSnapshot, TablesTyped, history
<1>4. CASE DropBranch(a)
  <2> DEFINE S == OnBranch(tasks[a].target)
  <2>1. rows' = [i \in Ids |-> IF i \in S THEN NoRow ELSE rows[i]]
    BY <1>4 DEF DropBranch, OnBranch
  <2>2. rows' \in [Ids -> Row] /\ RowsMakeSense'
    BY <2>1, RowsDrop
  <2>3. given' \subseteq Contents
    BY <1>4, GivenTyped, OnBranchType DEF DropBranch
  <2> QED BY <1>1, <1>4, <2>2, <2>3 DEF DropBranch, TablesTyped, disk
<1> QED BY <1>2, <1>3, <1>4

LEMMA FolderTables ==
    ASSUME Typed, NEW a \in Actors,
           Open(a) \/ Fill(a) \/ FailFill(a) \/ Clear(a) \/ Flip(a) \/ Latest(a)
    PROVE  TablesTyped'
<1> USE TypedIsTables
<1> DEFINE t == tasks[a]
<1>1. Proper(t)
  BY TaskIsProper
<1> HIDE DEF t
<1>2. begun' \in 0..MaxTasks /\ faults' \in 0..MaxFaults /\ UNCHANGED <<clock, newest>>
  <2>1. CASE FailFill(a)
    BY <2>1, BoundsStep DEF FailFill, TablesTyped
  <2>2. CASE ~FailFill(a)
    BY <2>2 DEF Open, Fill, Clear, Flip, Latest, bounds, TablesTyped
  <2> QED BY <2>1, <2>2
<1>3. CASE FailFill(a) \/ Latest(a)
  BY <1>2, <1>3, QuietTables DEF FailFill, Latest
<1>4. CASE Open(a) \/ Clear(a)
  <2>1. save' = save \/ save' = Empty
    BY <1>4 DEF Open, Clear
  <2> QED BY <1>2, <1>4, <2>1, SpecialContents DEF Open, Clear, TablesTyped, game, history, RowsMakeSense
<1>5. CASE Fill(a)
  <2>1. t.source \in Contents \ {Missing} /\ save' = t.source
    BY <1>1, <1>5 DEF Fill, At, Proper, Sensible, Task, t
  <2>2. home' \in Branches
    BY <1>1, <1>5 DEF Fill, Proper, Sensible, TablesTyped, t
  <2> QED BY <1>2, <1>5, <2>1, <2>2 DEF Fill, TablesTyped, game, RowsMakeSense
<1>6. CASE Flip(a)
  <2>1. t.target \in Branches
    BY <1>1, <1>6 DEF Flip, At, Proper, Sensible, t
  <2>2. active' \in Branches
    BY <1>6, <2>1 DEF Flip, Flipped, TablesTyped, t
  <2> QED BY <1>2, <1>6, <2>2 DEF Flip, TablesTyped, disk, history, RowsMakeSense
<1> QED BY <1>3, <1>4, <1>5, <1>6

LEMMA ImportTables ==
    ASSUME Typed, NEW a \in Actors,
           \/ Place(a) \/ Register(a) \/ RestoreImported(a) \/ CopyAside(a) \/ FailCopyAside(a)
           \/ TrackImported(a)
    PROVE  TablesTyped'
<1> USE TypedIsTables
<1> DEFINE t == tasks[a]
<1>1. Proper(t)
  BY TaskIsProper
<1> HIDE DEF t
<1>2. begun' \in 0..MaxTasks /\ faults' \in 0..MaxFaults /\ UNCHANGED <<clock, newest>>
  <2>1. CASE FailCopyAside(a)
    BY <2>1, BoundsStep DEF FailCopyAside, TablesTyped
  <2>2. CASE ~FailCopyAside(a)
    BY <2>2 DEF Place, Register, RestoreImported, CopyAside, TrackImported, bounds, TablesTyped
  <2> QED BY <2>1, <2>2
<1>3. CASE RestoreImported(a) \/ FailCopyAside(a)
  BY <1>2, <1>3, QuietTables DEF RestoreImported, FailCopyAside
<1>4. CASE Place(a)
  <2>1. t.onto \in Branches /\ t.id \in Ids /\ t.staged \in Contents
    BY <1>1, <1>4 DEF Place, At, Proper, Sensible, Task, t
  <2>2. archives' \in [Branches -> [Ids -> Contents]] /\ imported' \subseteq Ids
    BY <1>4, <2>1, ArchiveSet DEF Place, TablesTyped, t
  <2> QED BY <1>2, <1>4, <2>2 DEF Place, TablesTyped, game, RowsMakeSense
<1>5. CASE Register(a)
  <2>1. t.onto \in Branches /\ t.id \in Ids /\ t.staged \in Contents
    BY <1>1, <1>5 DEF Register, At, Proper, Sensible, Task, t
  <2>2. CASE UNCHANGED <<branches, rows, taken>>
    BY <1>2, <1>5, <2>2 DEF Register, TablesTyped, disk, RowsMakeSense
  <2>3. CASE /\ branches' = branches \cup {t.onto}
             /\ rows' = [rows EXCEPT ![t.id] = [branch |-> t.onto, auto |-> TRUE]]
             /\ taken' = [taken EXCEPT ![t.id] = t.staged]
    <3>1. rows' \in [Ids -> Row] /\ RowsMakeSense'
      BY <2>1, <2>3, RowsAdd
    <3> QED BY <1>2, <1>5, <2>1, <2>3, <3>1 DEF Register, TablesTyped, disk
  <2> QED BY <1>5, <2>2, <2>3 DEF Register, t
<1>6. CASE CopyAside(a)
  BY <1>2, <1>6 DEF CopyAside, TablesTyped, game, history, RowsMakeSense
<1>7. CASE TrackImported(a)
  <2>1. UNCHANGED <<tracked, active, branches, home>> \/ Tracked
    BY <1>7 DEF TrackImported
  <2>2. tracked' \in BOOLEAN /\ active' \in Branches /\ branches' \subseteq Branches /\ home' \in Branches
    BY <2>1, HistoryAssumption DEF Tracked, TablesTyped
  <2> QED BY <1>2, <1>7, <2>2 DEF TrackImported, TablesTyped, disk, RowsMakeSense
<1> QED BY <1>3, <1>4, <1>5, <1>6, <1>7

LEMMA TypedNext == Typed /\ [Next]_vars => Typed'
<1> SUFFICES ASSUME Typed, [Next]_vars PROVE Typed'
  OBVIOUS
<1> USE TypedIsTables
<1>1. ASSUME TablesTyped', tasks' \in [Actors -> Task], TasksMakeSense' PROVE Typed'
  BY <1>1 DEF Typed, TypeOK, TablesTyped
<1>2. tasks' = tasks => tasks' \in [Actors -> Task] /\ TasksMakeSense'
  BY DEF Typed, TypeOK, TasksMakeSense
<1>3. ASSUME NEW a \in Actors, Moves(a) PROVE tasks' \in [Actors -> Task] /\ TasksMakeSense'
  BY <1>2, <1>3, GoProper DEF Moves
<1>4. CASE UNCHANGED vars
  BY <1>4 DEF vars, disk, game, bounds, history, Typed, TypeOK, TasksMakeSense, RowsMakeSense
<1>5. CASE Play
  <2>1. newest' \in 1..MaxSave /\ save' \in Contents \ {Missing}
    BY <1>5, HistoryAssumption DEF Play, TablesTyped, Contents, Missing
  <2>2. TablesTyped'
    BY <1>5, <2>1 DEF Play, TablesTyped, game, RowsMakeSense
  <2> QED BY <1>1, <1>2, <1>5, <2>2 DEF Play
<1>6. CASE Tick
  <2>1. clock' \in 1..MaxClock
    BY <1>6, HistoryAssumption DEF Tick, TablesTyped
  <2>2. TablesTyped'
    BY <1>6, <2>1 DEF Tick, TablesTyped, disk, game, history, RowsMakeSense
  <2> QED BY <1>1, <1>2, <1>6, <2>2 DEF Tick
<1>7. CASE \E a \in Actors : Asked(a) \/ Working(a) \/ Failing(a)
  <2>1. PICK a \in Actors : Asked(a) \/ Working(a) \/ Failing(a)
    BY <1>7
  <2>2. CASE Asked(a)
    BY <1>1, <1>3, <2>2, AskedMoves, AskedTables
  <2>3. CASE \/ Zip(a) \/ Claim(a) \/ WalkOn(a) \/ Name(a) \/ Insert(a) \/ Collide(a) \/ RefuseRow(a)
             \/ LoseRow(a) \/ FailSnapshot(a)
    BY <1>1, <1>3, <2>3, SnapshotMoves, SnapshotTables DEF RefuseRow, LoseRow
  <2>4. CASE PruneBranch(a) \/ PruneSnapshot(a) \/ EndPrune(a) \/ Sweep(a) \/ DropSnapshot(a) \/ DropBranch(a)
    BY <1>1, <1>3, <2>4, RetentionMoves, RetentionTables
  <2>5. CASE Open(a) \/ Fill(a) \/ FailFill(a) \/ Clear(a) \/ Flip(a) \/ Latest(a)
    BY <1>1, <1>3, <2>5, FolderMoves, FolderTables
  <2>6. CASE \/ Place(a) \/ Register(a) \/ RestoreImported(a) \/ CopyAside(a) \/ FailCopyAside(a)
             \/ TrackImported(a)
    BY <1>1, <1>3, <2>6, ImportMoves, ImportTables
  <2> QED BY <2>1, <2>2, <2>3, <2>4, <2>5, <2>6 DEF Working, Failing
<1>8. CASE \E p \in Processes : Crash(p)
  <2>1. PICK p \in Processes : Crash(p)
    BY <1>8
  <2>2. /\ Fault /\ UNCHANGED <<disk, game, clock, newest, begun, taken, imported, given, home>>
        /\ seeded' \subseteq seeded
        /\ tasks' = [a \in Actors |-> IF ProcessOf[a] = p THEN NoTask ELSE tasks[a]]
    BY <2>1 DEF Crash
  <2>3. TablesTyped'
    BY <2>2, BoundsStep DEF TablesTyped, disk, game, RowsMakeSense
  <2>4. \A a \in Actors : Proper(tasks'[a])
    BY <2>2, TaskIsProper, NoTaskProper
  <2>5. tasks' \in [Actors -> Task]
    BY <2>2, NoTaskProper DEF Typed, TypeOK, Proper
  <2> QED BY <1>1, <2>3, <2>4, <2>5 DEF TasksMakeSense, Proper
<1> QED BY <1>4, <1>5, <1>6, <1>7, <1>8 DEF Next

\* Every variable keeps its type, no goroutine of any operation (createOnBranch, Restore,
\* SwitchBranch, DeleteBranch, PruneAllGames, importBackupV2) uses a branch, an id or a
\* copy it does not have, and no folder is filled with nothing.
THEOREM HistoryTypeCorrect == Spec => []Typed
  BY TypedInit, TypedNext, PTL DEF Spec

\* A restore finds its archive, whatever pruned or deleted it since it was copied
\* (Restore copies it before the safety snapshot).
THEOREM RestoreFindsArchive == Spec => []RestoreHasItsArchive
<1>1. Typed => RestoreHasItsArchive
  <2> SUFFICES ASSUME Typed, NEW a \in Actors, At(a, "open"), tasks[a].safe
               PROVE  Readable(tasks[a]) # Missing
    BY DEF RestoreHasItsArchive
  <2>1. Sensible(tasks[a])
    BY TaskIsProper DEF Proper
  <2>2. tasks[a].source # Missing
    BY <2>1 DEF Sensible, At
  <2> QED BY <2>2 DEF Readable
<1> QED BY <1>1, HistoryTypeCorrect, PTL

-----------------------------------------------------------------------------
(* Invariants                                                              *)

\* One process takes the snapshots: its lock is everybody's.
OnlyProcess == \A a, b \in Actors : ProcessOf[a] = ProcessOf[b]

LockHeld ==
    \A a, b \in Actors :
        tasks[a].step \in {"name", "insert"} /\ tasks[b].step \in {"name", "insert"} =>
        a = b \/ ProcessOf[a] # ProcessOf[b]

\* A row is added only to the archive that was just named.
NamedIsThere ==
    \A a \in Actors : tasks[a].step = "insert" /\ tasks[a].id \notin imported =>
        ~Recorded(tasks[a].id) /\ archives[tasks[a].onto][tasks[a].id] = tasks[a].staged

ImportsChose == \A a \in Actors : tasks[a].step = "register" => tasks[a].id \in imported

SnapInv == LockHeld /\ ImportsChose /\ NamedIsThere /\ SnapshotsKeepTheirContent

\* One goroutine at a time makes, deletes or switches branches, or tracks the game.
BranchesHaveOneHand(u) ==
    \A a \in Actors \ {u} : Does[a] \cap {"switch", "branch", "delete", "cleanup", "track"} = {}

\* What it does needs the game, and does not drop the branch in play.
BranchInv(u) ==
    /\ ActiveBranchExists
    /\ \A a \in Actors \ {u} : tasks[a].op \notin {"switch", "branch", "delete", "cleanup"}
    /\ tasks[u].op \in {"switch", "branch", "delete", "cleanup"} => tracked
    /\ tasks[u].op = "switch" /\ tasks[u].step \notin {"latest", "open", "fill"} => tasks[u].target \in branches
    /\ tasks[u].step = "drop" => tasks[u].target # active

\* One goroutine at a time fills the folder, or tracks the game.
FolderHasOneHand(u) ==
    \A a \in Actors \ {u} : Does[a] \cap {"switch", "restore", "import", "track"} = {}

\* A switch moves the pointer while the folder is clear, and fills it from where the
\* pointer then is.
FolderInv(u) ==
    /\ tracked /\ save # Empty => home = active
    /\ \A a \in Actors \ {u} : tasks[a].op \notin {"switch", "restore", "import", "track"}
    /\ tasks[u].step = "flip" => save = Empty
    /\ tasks[u].op = "switch" /\ tasks[u].step \in {"latest", "open", "fill"} => active = tasks[u].target

-----------------------------------------------------------------------------
(* Snapshots: proof                                                        *)

LEMMA GoTasks ==
    ASSUME Typed, NEW a \in Actors, NEW v, Go(a, v)
    PROVE  tasks'[a] = v /\ \A b \in Actors \ {a} : tasks'[b] = tasks[b]
  BY DEF Go, Typed, TypeOK

LEMMA AfterSteps ==
    ASSUME NEW t, Proper(t)
    PROVE  /\ NoTask.step = "idle"
           /\ AfterSnapshot(t).step \in {"open", "clear", "idle"}
           /\ AfterFailure(t).step \in {"open", "drop", "idle"}
           /\ Pruning(t).step \in {"prune", "open", "clear", "idle"}
<1>1. NoTask.step = "idle"
  BY DEF NoTask
<1>2. AfterSnapshot(t).step \in {"open", "clear", "idle"}
  <2>1. CASE t.op = "restore"
    BY <2>1 DEF AfterSnapshot, Proper, Task
  <2>2. CASE t.op = "switch"
    BY <2>2 DEF AfterSnapshot, Proper, Task
  <2>3. CASE t.op \notin {"restore", "switch"}
    BY <1>1, <2>3 DEF AfterSnapshot
  <2> QED BY <2>1, <2>2, <2>3
<1>3. AfterFailure(t).step \in {"open", "drop", "idle"}
  <2>1. CASE t.op = "restore"
    BY <2>1 DEF AfterFailure, Proper, Task
  <2>2. CASE t.op = "branch" /\ t.target # active
    <3>1. AfterFailure(t) = Deleting(t, t.target)
      BY <2>2 DEF AfterFailure
    <3> QED BY <3>1 DEF Deleting, Proper, Task
  <2>3. CASE t.op # "restore" /\ ~(t.op = "branch" /\ t.target # active)
    BY <1>1, <2>3 DEF AfterFailure
  <2> QED BY <2>1, <2>2, <2>3
<1>4. Prunes => Pruning(t).step = "prune"
  BY DEF Pruning, Proper, Task
<1>5. ~Prunes => Pruning(t) = AfterSnapshot(t)
  BY DEF Pruning
<1> QED BY <1>1, <1>2, <1>3, <1>4, <1>5

LEMMA RestoringStep ==
    ASSUME NEW i \in Ids
    PROVE  Restoring(NoTask, i).step \in {"open", "zip"}
<1> DEFINE s == [NoTask EXCEPT !.op = "restore", !.step = "open", !.old = i, !.target = rows[i].branch]
<1>1. s.step = "open"
  BY DEF NoTask
<1>2. [Copied(s) EXCEPT !.step = "zip", !.onto = active, !.safe = ArchiveOf(i) # Missing].step = "zip"
  BY DEF Copied, NoTask
<1> QED BY <1>1, <1>2 DEF Restoring

\* Outside the lock.
OutsideLock(t) == t.step \notin {"name", "insert", "register"}

Leaves(a) == /\ tasks' = tasks \/ OutsideLock(tasks'[a])
             /\ \A b \in Actors \ {a} : tasks'[b] = tasks[b]

LEMMA LeavesBy ==
    ASSUME Typed, NEW a \in Actors, NEW v, OutsideLock(v), Go(a, v)
    PROVE  Leaves(a)
  BY GoTasks DEF Leaves

LEMMA AskedLeaves ==
    ASSUME Typed, NEW a \in Actors, Asked(a)
    PROVE  Leaves(a)
<1>1. CASE tasks' = tasks
  BY <1>1 DEF Leaves
<1>2. CASE \E auto \in BOOLEAN : BeginCreate(a, auto)
  <2>1. PICK auto \in BOOLEAN : BeginCreate(a, auto)
    BY <1>2
  <2> DEFINE v == [NoTask EXCEPT !.op = "create", !.step = "zip", !.onto = active, !.auto = auto]
  <2>2. OutsideLock(v) /\ Go(a, v)
    BY <2>1 DEF BeginCreate, OutsideLock, NoTask
  <2> QED BY <2>2, LeavesBy
<1>3. CASE BeginCleanup(a)
  <2> DEFINE v == [NoTask EXCEPT !.op = "cleanup", !.step = "prune", !.listed = IF Prunes THEN branches ELSE {}]
  <2>1. OutsideLock(v) /\ Go(a, v)
    BY <1>3 DEF BeginCleanup, OutsideLock, NoTask
  <2> QED BY <2>1, LeavesBy
<1>4. CASE Track(a)
  <2>1. OutsideLock(Initial)
    BY DEF Initial, OutsideLock, NoTask
  <2> QED BY <1>4, <2>1, LeavesBy DEF Track
<1>5. CASE \E i \in Ids : BeginRestore(a, i)
  BY <1>5, RestoringStep, LeavesBy DEF BeginRestore, OutsideLock
<1>6. CASE \E b \in Branches : BeginSwitch(a, b)
  <2>1. PICK b \in Branches : BeginSwitch(a, b)
    BY <1>6
  <2> DEFINE v == [NoTask EXCEPT !.op = "switch", !.target = b, !.onto = active,
                                 !.step = IF save = Empty THEN "clear" ELSE "zip"]
  <2>2. OutsideLock(v) /\ Go(a, v)
    BY <2>1 DEF BeginSwitch, OutsideLock, NoTask
  <2> QED BY <2>2, LeavesBy
<1>7. CASE \E b \in Branches : BeginDelete(a, b)
  <2>1. PICK b \in Branches : BeginDelete(a, b)
    BY <1>7
  <2> DEFINE v == Deleting([NoTask EXCEPT !.op = "delete"], b)
  <2>2. OutsideLock(v) /\ Go(a, v)
    BY <2>1 DEF BeginDelete, OutsideLock, NoTask, Deleting
  <2> QED BY <2>2, LeavesBy
<1>8. CASE \E b \in Branches, copy \in BOOLEAN : BeginBranch(a, b, copy)
  <2>1. PICK b \in Branches, copy \in BOOLEAN : BeginBranch(a, b, copy)
    BY <1>8
  <2> DEFINE v == [NoTask EXCEPT !.op = "branch", !.step = "zip", !.onto = b, !.target = b]
  <2>2. OutsideLock(v) /\ (Go(a, v) \/ tasks' = tasks)
    BY <2>1 DEF BeginBranch, OutsideLock, NoTask
  <2> QED BY <1>1, <2>2, LeavesBy
<1>9. CASE \E c \in 2..newest : BeginBring(a, c)
  <2>1. PICK c \in 2..newest : BeginBring(a, c)
    BY <1>9
  <2> DEFINE v == [NoTask EXCEPT !.op = "track", !.source = c, !.step = IF save = Empty THEN "open" ELSE "aside"]
  <2>2. OutsideLock(v) /\ Go(a, v)
    BY <2>1 DEF BeginBring, OutsideLock, NoTask
  <2> QED BY <2>2, LeavesBy
<1>10. CASE \E c \in 2..newest, overwrite \in BOOLEAN : BeginImport(a, c, overwrite)
  <2>1. PICK c \in 2..newest, overwrite \in BOOLEAN : BeginImport(a, c, overwrite)
    BY <1>10
  <2> DEFINE v == [NoTask EXCEPT !.op = "import", !.step = "place", !.onto = active, !.id = clock,
                                 !.staged = c, !.safe = overwrite]
  <2>2. OutsideLock(v) /\ Go(a, v)
    BY <2>1 DEF BeginImport, OutsideLock, NoTask
  <2> QED BY <2>2, LeavesBy
<1>11. Untrack(a) \/ (\E i \in Ids : DeleteSnapshot(a, i)) => tasks' = tasks
  BY DEF Untrack, DeleteSnapshot
<1> QED BY <1>1, <1>2, <1>3, <1>4, <1>5, <1>6, <1>7, <1>8, <1>9, <1>10, <1>11 DEF Asked

LEMMA WorkLeaves ==
    ASSUME Typed, NEW a \in Actors,
           \/ Zip(a) \/ Insert(a) \/ FailInsert(a) \/ FailSnapshot(a)
           \/ PruneBranch(a) \/ PruneSnapshot(a) \/ EndPrune(a) \/ Sweep(a) \/ DropSnapshot(a) \/ DropBranch(a)
           \/ Open(a) \/ Fill(a) \/ FailFill(a) \/ Clear(a) \/ Flip(a) \/ Latest(a)
           \/ Register(a) \/ RestoreImported(a) \/ CopyAside(a) \/ FailCopyAside(a) \/ TrackImported(a)
    PROVE  Leaves(a)
<1> DEFINE t == tasks[a]
<1>1. Proper(t) /\ t \in Task
  BY TaskIsProper DEF Proper
<1>2. OutsideLock(NoTask) /\ OutsideLock(Initial) /\ OutsideLock(AfterSnapshot(t)) /\ OutsideLock(AfterFailure(t))
      /\ OutsideLock(Pruning(t))
  BY <1>1, AfterSteps DEF OutsideLock, Initial, NoTask
<1>3. ASSUME NEW b PROVE OutsideLock(Deleting(t, b)) /\ OutsideLock(Deleting([t EXCEPT !.listed = @ \ {b}], b))
  BY <1>1 DEF OutsideLock, Deleting, Task
<1> HIDE DEF t
<1>4. CASE Zip(a)
  BY <1>1, <1>4, LeavesBy DEF Zip, OutsideLock, Task, t
<1>5. CASE Insert(a) \/ FailInsert(a) \/ FailSnapshot(a)
  BY <1>2, <1>5, LeavesBy DEF Insert, FailInsert, FailSnapshot, t
<1>6. CASE PruneBranch(a)
  <2>1. PICK b \in t.listed :
             Go(a, [t EXCEPT !.listed = @ \ {b}, !.doomed = SnapshotsBeyondRetentionByKind(b)])
    BY <1>6 DEF PruneBranch, t
  <2> DEFINE v == [t EXCEPT !.listed = @ \ {b}, !.doomed = SnapshotsBeyondRetentionByKind(b)]
  <2>2. v.step = "prune"
    BY <1>1, <1>6 DEF PruneBranch, At, Task, t
  <2> QED BY <2>1, <2>2, LeavesBy DEF OutsideLock
<1>7. CASE PruneSnapshot(a) \/ DropSnapshot(a)
  <2>1. PICK i \in t.doomed : Forget(a, i)
    BY <1>7 DEF PruneSnapshot, DropSnapshot, t
  <2> DEFINE v == [t EXCEPT !.doomed = @ \ {i}]
  <2>2. v.step \in {"prune", "drop"}
    BY <1>1, <1>7 DEF PruneSnapshot, DropSnapshot, At, Task, t
  <2>3. Go(a, v)
    BY <2>1 DEF Forget, t
  <2> QED BY <2>2, <2>3, LeavesBy DEF OutsideLock
<1>8. CASE EndPrune(a)
  <2> DEFINE v == [t EXCEPT !.step = "sweep", !.listed = branches \cap Leftovers]
  <2>1. OutsideLock(v)
    BY <1>1 DEF OutsideLock, Task
  <2>2. Go(a, v) \/ Go(a, AfterSnapshot(t))
    BY <1>8 DEF EndPrune, t
  <2> QED BY <1>2, <2>1, <2>2, LeavesBy
<1>9. CASE Sweep(a)
  <2>1. CASE t.listed = {}
    BY <1>2, <1>9, <2>1, LeavesBy DEF Sweep, Finish, t
  <2>2. CASE t.listed # {}
    <3>1. PICK b \in t.listed :
               Go(a, IF Spared(b) THEN [t EXCEPT !.listed = @ \ {b}]
                     ELSE Deleting([t EXCEPT !.listed = @ \ {b}], b))
      BY <1>9, <2>2 DEF Sweep, t
    <3> DEFINE v == [t EXCEPT !.listed = @ \ {b}]
    <3>2. OutsideLock(v)
      BY <1>1, <1>9 DEF OutsideLock, Task, Sweep, At, t
    <3> QED BY <1>3, <3>1, <3>2, LeavesBy
  <2> QED BY <2>1, <2>2
<1>10. CASE DropBranch(a)
  <2> DEFINE v == [t EXCEPT !.step = "sweep", !.target = NoBranch]
  <2>1. OutsideLock(v)
    BY <1>1 DEF OutsideLock, Task
  <2>2. Go(a, v) \/ Go(a, NoTask)
    BY <1>10 DEF DropBranch, t
  <2> QED BY <1>2, <2>1, <2>2, LeavesBy
<1>11. CASE Open(a) \/ Latest(a) \/ FailFill(a)
  <2> DEFINE v(s) == [t EXCEPT !.step = "fill", !.source = s]
             w(s) == [t EXCEPT !.step = "open", !.old = s]
  <2>1. \A s : OutsideLock(v(s)) /\ OutsideLock(w(s))
    BY <1>1 DEF OutsideLock, Task
  <2>2. Go(a, NoTask) \/ (\E s : Go(a, v(s)) \/ Go(a, w(s)))
    BY <1>11 DEF Open, Latest, FailFill, Finish, t
  <2> HIDE DEF v, w
  <2> QED BY <1>2, <2>1, <2>2, LeavesBy
<1>12. CASE Fill(a) \/ Clear(a) \/ Flip(a) \/ CopyAside(a) \/ FailCopyAside(a)
  <2> DEFINE v(s) == [t EXCEPT !.step = s]
  <2>1. \A s \in {"enter", "flip", "latest", "open"} : OutsideLock(v(s))
    BY <1>1 DEF OutsideLock, Task
  <2>2. Go(a, NoTask) \/ (\E s \in {"enter", "flip", "latest", "open"} : Go(a, v(s)))
    BY <1>12 DEF Fill, Clear, Flip, CopyAside, FailCopyAside, Finish, t
  <2> HIDE DEF v
  <2> QED BY <1>2, <2>1, <2>2, LeavesBy
<1>13. CASE Register(a)
  <2> DEFINE v == [NoTask EXCEPT !.op = "import", !.step = "enter", !.old = t.id]
  <2>1. OutsideLock(v)
    BY DEF OutsideLock, NoTask
  <2>2. Go(a, v) \/ Go(a, NoTask)
    BY <1>13 DEF Register, Finish, t
  <2> QED BY <1>2, <2>1, <2>2, LeavesBy
<1>14. CASE RestoreImported(a)
  <2>1. t.old \in Ids
    BY <1>1, <1>14 DEF Proper, Sensible, RestoreImported, At, t
  <2>2. OutsideLock(Restoring(NoTask, t.old))
    BY <2>1, RestoringStep DEF OutsideLock
  <2>3. Go(a, NoTask) \/ Go(a, Restoring(NoTask, t.old))
    BY <1>14 DEF RestoreImported, t
  <2> QED BY <1>2, <2>2, <2>3, LeavesBy
<1>15. CASE TrackImported(a)
  BY <1>2, <1>15, LeavesBy DEF TrackImported, Finish
<1> QED BY <1>4, <1>5, <1>6, <1>7, <1>8, <1>9, <1>10, <1>11, <1>12, <1>13, <1>14, <1>15

\* Steps outside the lock that take rows away, or work on ids that imports chose.
LEMMA RowsAreSpared ==
    ASSUME Typed, SnapInv, NEW a \in Actors, Leaves(a), imported \subseteq imported',
           \A i \in Ids \ imported' :
               \/ rows'[i] = NoRow
               \/ /\ rows'[i] = rows[i] /\ taken'[i] = taken[i]
                  /\ Recorded(i) => archives'[rows[i].branch][i] = archives[rows[i].branch][i],
           \A i \in Ids \ imported' : ~Recorded(i) => \A b \in Branches : archives'[b][i] = archives[b][i]
    PROVE  SnapInv'
<1>1. \A b \in Actors : tasks'[b] = tasks[b] \/ OutsideLock(tasks'[b])
  BY DEF Leaves
<1>2. LockHeld'
  BY <1>1 DEF LockHeld, OutsideLock, SnapInv
<1>3. ImportsChose'
  BY <1>1 DEF ImportsChose, OutsideLock, SnapInv
<1>4. NamedIsThere'
  <2> SUFFICES ASSUME NEW b \in Actors, tasks'[b].step = "insert", tasks'[b].id \notin imported'
               PROVE  /\ rows'[tasks'[b].id] = NoRow
                      /\ archives'[tasks'[b].onto][tasks'[b].id] = tasks'[b].staged
    BY DEF NamedIsThere, Recorded
  <2>1. tasks'[b] = tasks[b]
    BY <1>1 DEF OutsideLock
  <2>2. tasks[b].id \in Ids /\ tasks[b].onto \in Branches
    BY <2>1, TaskIsProper DEF Proper, Sensible
  <2>3. ~Recorded(tasks[b].id) /\ archives[tasks[b].onto][tasks[b].id] = tasks[b].staged
    BY <2>1 DEF NamedIsThere, SnapInv
  <2> QED BY <2>1, <2>2, <2>3 DEF Recorded
<1>5. SnapshotsKeepTheirContent'
  <2> SUFFICES ASSUME NEW i \in Ids, rows'[i] # NoRow, i \notin imported'
               PROVE  archives'[rows'[i].branch][i] = taken'[i]
    BY DEF SnapshotsKeepTheirContent, Recorded, ArchiveOf
  <2>1. rows'[i] = rows[i] /\ taken'[i] = taken[i] /\ archives'[rows[i].branch][i] = archives[rows[i].branch][i]
        /\ Recorded(i)
    BY DEF Recorded
  <2>2. ArchiveOf(i) = taken[i]
    BY <2>1 DEF SnapInv, SnapshotsKeepTheirContent
  <2> QED BY <2>1, <2>2 DEF ArchiveOf
<1> QED BY <1>2, <1>3, <1>4, <1>5 DEF SnapInv

LEMMA SnapQuiet ==
    ASSUME Typed, SnapInv, NEW a \in Actors, Leaves(a), UNCHANGED <<rows, archives, taken, imported>>
    PROVE  SnapInv'
  BY RowsAreSpared

\* An archive that no snapshot but that of its id uses.
LEMMA ArchiveSetAt ==
    ASSUME Typed, NEW b, NEW i, NEW c, archives' = [archives EXCEPT ![b][i] = c]
    PROVE  \A d \in Branches, j \in Ids : d # b \/ j # i => archives'[d][j] = archives[d][j]
  BY DEF Typed, TypeOK

LEMMA ForgetSpares ==
    ASSUME Typed, NEW a, NEW i \in Ids, Forget(a, i)
    PROVE  /\ \A j \in Ids : rows'[j] = IF j = i THEN NoRow ELSE rows[j]
           /\ \A j \in Ids, b \in Branches : j # i \/ ~Recorded(j) => archives'[b][j] = archives[b][j]
<1>1. \A j \in Ids : rows'[j] = IF j = i THEN NoRow ELSE rows[j]
  BY DEF Forget, Typed, TypeOK
<1>2. CASE Recorded(i)
  <2>1. archives' = [archives EXCEPT ![rows[i].branch][i] = Missing]
    BY <1>2 DEF Forget
  <2> QED BY <1>1, <1>2, <2>1, ArchiveSetAt
<1>3. CASE ~Recorded(i)
  BY <1>1, <1>3 DEF Forget
<1> QED BY <1>2, <1>3

LEMMA SnapRowsGo ==
    ASSUME Typed, SnapInv, NEW a \in Actors, PruneSnapshot(a) \/ DropSnapshot(a) \/ DropBranch(a)
    PROVE  SnapInv'
<1>1. Leaves(a)
  BY WorkLeaves
<1>2. CASE PruneSnapshot(a) \/ DropSnapshot(a)
  <2>1. PICK i \in tasks[a].doomed : Forget(a, i)
    BY <1>2 DEF PruneSnapshot, DropSnapshot
  <2>2. i \in Ids /\ UNCHANGED <<taken, imported>>
    BY <1>2, TaskIsProper DEF Proper, Task, PruneSnapshot, DropSnapshot, history
  <2>3. \A j \in Ids : Recorded(j) => rows[j].branch \in Branches
    BY RowFacts
  <2>4. /\ \A j \in Ids : rows'[j] = IF j = i THEN NoRow ELSE rows[j]
        /\ \A j \in Ids, b \in Branches : j # i \/ ~Recorded(j) => archives'[b][j] = archives[b][j]
    BY <2>1, <2>2, ForgetSpares
  <2> QED BY <1>1, <2>2, <2>3, <2>4, RowsAreSpared
<1>3. CASE DropBranch(a)
  <2>1. /\ UNCHANGED <<archives, taken, imported>>
        /\ \A i \in Ids : rows'[i] = NoRow \/ rows'[i] = rows[i]
    BY <1>3 DEF DropBranch, disk
  <2> QED BY <1>1, <2>1, RowsAreSpared
<1> QED BY <1>2, <1>3

LEMMA SnapAsked ==
    ASSUME Typed, SnapInv, NEW a \in Actors, Asked(a)
    PROVE  SnapInv'
<1>1. Leaves(a)
  BY AskedLeaves
<1>2. CASE Untrack(a)
  <2>1. UNCHANGED <<archives, taken, imported>> /\ \A i \in Ids : rows'[i] = NoRow
    BY <1>2 DEF Untrack, disk
  <2> QED BY <1>1, <2>1, RowsAreSpared
<1>3. CASE \E i \in Ids : DeleteSnapshot(a, i)
  <2>1. PICK i \in Ids : DeleteSnapshot(a, i)
    BY <1>3
  <2>2. /\ \A j \in Ids : rows'[j] = IF j = i THEN NoRow ELSE rows[j]
        /\ UNCHANGED <<taken, imported>> /\ Recorded(i)
    BY <2>1 DEF DeleteSnapshot, Typed, TypeOK
  <2>3. archives' = [archives EXCEPT ![rows[i].branch][i] = Missing]
    BY <2>1 DEF DeleteSnapshot
  <2>4. \A b \in Branches, j \in Ids : j # i => archives'[b][j] = archives[b][j]
    BY <2>3, ArchiveSetAt
  <2>5. \A j \in Ids : Recorded(j) => rows[j].branch \in Branches
    BY RowFacts
  <2> QED BY <1>1, <2>2, <2>4, <2>5, RowsAreSpared
<1>4. CASE UNCHANGED <<rows, archives, taken, imported>>
  BY <1>1, <1>4, SnapQuiet
<1> QED BY <1>2, <1>3, <1>4
     DEF Asked, BeginCreate, BeginCleanup, Track, BeginRestore, BeginSwitch, BeginDelete, BeginBranch, BeginBring,
         BeginImport, disk, game, history

\* Places and rows of imports.
LEMMA SnapImport ==
    ASSUME Typed, SnapInv, NEW a \in Actors, Place(a) \/ Register(a)
    PROVE  SnapInv'
<1> DEFINE t == tasks[a]
<1>1. Proper(t) /\ t \in Task
  BY TaskIsProper DEF Proper
<1> HIDE DEF t
<1>2. \A i \in Ids : Recorded(i) => rows[i].branch \in Branches
  BY RowFacts
<1>3. CASE Register(a)
  <2>1. Leaves(a)
    BY <1>3, WorkLeaves
  <2>2. t.id \in Ids /\ t.id \in imported /\ UNCHANGED <<archives, imported>>
    BY <1>1, <1>3 DEF Register, At, Proper, Sensible, SnapInv, ImportsChose, disk, t
  <2>3. UNCHANGED <<rows, taken>> \/ /\ rows' = [rows EXCEPT ![t.id] = [branch |-> t.onto, auto |-> TRUE]]
                                     /\ taken' = [taken EXCEPT ![t.id] = t.staged]
    BY <1>3 DEF Register, t
  <2>4. \A i \in Ids \ imported : rows'[i] = rows[i] /\ taken'[i] = taken[i]
    BY <2>2, <2>3 DEF Typed, TypeOK
  <2> QED BY <2>1, <2>2, <2>4, RowsAreSpared
<1>4. CASE Place(a)
  <2> DEFINE v == [t EXCEPT !.step = "register"]
  <2>1. /\ t.step = "place" /\ Go(a, v) /\ UNCHANGED <<rows, taken>>
        /\ archives' = [archives EXCEPT ![t.onto][t.id] = t.staged]
        /\ imported' = imported \cup {t.id}
    BY <1>4 DEF Place, At, game, t
  <2>2. t.id \in Ids /\ v.step = "register" /\ v.id = t.id
    BY <1>1, <2>1 DEF Proper, Sensible, Task
  <2> HIDE DEF v
  <2>3. tasks'[a] = v /\ \A b \in Actors \ {a} : tasks'[b] = tasks[b]
    BY <2>1, GoTasks
  <2>4. \A b \in Branches, i \in Ids : i # t.id => archives'[b][i] = archives[b][i]
    BY <2>1, ArchiveSetAt
  <2>5. LockHeld'
    <3> SUFFICES ASSUME NEW b \in Actors, NEW c \in Actors,
                        tasks'[b].step \in {"name", "insert"}, tasks'[c].step \in {"name", "insert"}
                 PROVE  b = c \/ ProcessOf[b] # ProcessOf[c]
      BY DEF LockHeld
    <3>1. b # a /\ c # a
      BY <2>2, <2>3
    <3> QED BY <2>3, <3>1 DEF SnapInv, LockHeld
  <2>6. ImportsChose'
    BY <2>1, <2>2, <2>3 DEF SnapInv, ImportsChose
  <2>7. NamedIsThere'
    <3> SUFFICES ASSUME NEW b \in Actors, tasks'[b].step = "insert", tasks'[b].id \notin imported'
                 PROVE  /\ rows'[tasks'[b].id] = NoRow
                        /\ archives'[tasks'[b].onto][tasks'[b].id] = tasks'[b].staged
      BY DEF NamedIsThere, Recorded
    <3>1. tasks'[b] = tasks[b]
      BY <2>2, <2>3
    <3>2. tasks[b].id \in Ids /\ tasks[b].onto \in Branches
      BY <3>1, TaskIsProper DEF Proper, Sensible
    <3>3. ~Recorded(tasks[b].id) /\ archives[tasks[b].onto][tasks[b].id] = tasks[b].staged
      BY <2>1, <3>1 DEF NamedIsThere, SnapInv
    <3> QED BY <2>1, <2>4, <3>1, <3>2, <3>3 DEF Recorded
  <2>8. SnapshotsKeepTheirContent'
    BY <1>2, <2>1, <2>4 DEF SnapInv, SnapshotsKeepTheirContent, Recorded, ArchiveOf
  <2> QED BY <2>5, <2>6, <2>7, <2>8 DEF SnapInv
<1> QED BY <1>3, <1>4

\* The row of the archive that was just named.
LEMMA SnapInsert ==
    ASSUME Typed, SnapInv, NEW a \in Actors, OnlyProcess, Insert(a)
    PROVE  SnapInv'
<1> DEFINE t == tasks[a]
<1>1. Proper(t) /\ t \in Task
  BY TaskIsProper DEF Proper
<1> HIDE DEF t
<1>2. Leaves(a)
  BY WorkLeaves
<1>3. /\ t.step = "insert" /\ t.onto \in Branches /\ t.id \in Ids
      /\ UNCHANGED <<archives, imported>>
      /\ rows' = [rows EXCEPT ![t.id] = [branch |-> t.onto, auto |-> t.auto]]
      /\ taken' = [taken EXCEPT ![t.id] = t.staged]
  BY <1>1 DEF Insert, At, Proper, Sensible, disk, t
<1>4. \A b \in Actors : b # a => tasks'[b].step \notin {"name", "insert"} /\ tasks'[b] = tasks[b]
  BY <1>2, <1>3 DEF Leaves, SnapInv, LockHeld, OnlyProcess, t
<1>5. OutsideLock(tasks'[a])
  <2>1. Go(a, Pruning(t))
    BY DEF Insert, t
  <2> QED BY <1>1, <2>1, AfterSteps, GoTasks DEF OutsideLock
<1>6. LockHeld' /\ ImportsChose' /\ NamedIsThere'
  BY <1>3, <1>4, <1>5 DEF LockHeld, ImportsChose, NamedIsThere, OutsideLock, SnapInv
<1>7. SnapshotsKeepTheirContent'
  <2> SUFFICES ASSUME NEW i \in Ids, rows'[i] # NoRow, i \notin imported
               PROVE  archives[rows'[i].branch][i] = taken'[i]
    BY <1>3 DEF SnapshotsKeepTheirContent, Recorded, ArchiveOf
  <2>1. CASE i = t.id
    <3>1. archives[t.onto][t.id] = t.staged
      BY <1>3, <2>1 DEF SnapInv, NamedIsThere, t
    <3>2. rows'[i].branch = t.onto /\ taken'[i] = t.staged
      BY <1>3, <2>1 DEF Typed, TypeOK
    <3> QED BY <2>1, <3>1, <3>2
  <2>2. CASE i # t.id
    <3>1. rows'[i] = rows[i] /\ taken'[i] = taken[i]
      BY <1>3, <2>2 DEF Typed, TypeOK
    <3> QED BY <3>1 DEF SnapInv, SnapshotsKeepTheirContent, Recorded, ArchiveOf
  <2> QED BY <2>1, <2>2
<1> QED BY <1>6, <1>7 DEF SnapInv

\* Inside the lock: the id is looked for, the archive named, and taken back.
LEMMA SnapClaim ==
    ASSUME Typed, SnapInv, NEW a \in Actors, OnlyProcess,
           Claim(a) \/ WalkOn(a) \/ Name(a) \/ Collide(a) \/ FailInsert(a)
    PROVE  SnapInv'
<1> DEFINE t == tasks[a]
<1>1. Proper(t) /\ t \in Task
  BY TaskIsProper DEF Proper
<1> HIDE DEF t
<1>2. /\ t.step \in {"claim", "name", "insert"} /\ t.onto \in Branches
      /\ t.step \in {"name", "insert"} => t.id \in Ids
      /\ UNCHANGED <<rows, taken, imported>>
  BY <1>1 DEF Claim, WalkOn, Name, Collide, FailInsert, At, Proper, Sensible, disk, game, history, t
<1>3. \A i \in Ids : Recorded(i) => rows[i].branch \in Branches
  BY RowFacts
<1>4. \E v : /\ Go(a, v)
             /\ \/ v.step = "name"
                \/ OutsideLock(v)
                \/ /\ v.step = "insert" /\ v.onto = t.onto /\ v.id = t.id /\ v.staged = t.staged
                   /\ Name(a)
  <2>1. CASE Claim(a)
    <3> DEFINE v == [t EXCEPT !.step = "name", !.id = clock]
    <3>1. Go(a, v) /\ v.step = "name"
      BY <1>1, <2>1 DEF Claim, Task, t
    <3> QED BY <3>1
  <2>2. CASE WalkOn(a)
    <3> DEFINE v == [t EXCEPT !.id = @ + 1]
    <3>1. Go(a, v) /\ v.step = "name"
      BY <1>1, <2>2 DEF WalkOn, At, Task, t
    <3> QED BY <3>1
  <2>3. CASE Name(a)
    <3> DEFINE v == [t EXCEPT !.step = "insert"]
    <3>1. /\ Go(a, v)
          /\ v.step = "insert" /\ v.onto = t.onto /\ v.id = t.id /\ v.staged = t.staged
      BY <1>1, <2>3 DEF Name, Task, t
    <3> QED BY <2>3, <3>1
  <2>4. CASE Collide(a)
    <3> DEFINE v == [t EXCEPT !.step = "name", !.id = @ + 1, !.staged = archives[t.onto][t.id]]
    <3>1. v.step = "name"
      BY <1>1 DEF Task
    <3>2. Go(a, v) \/ Go(a, AfterFailure(t))
      BY <2>4 DEF Collide, t
    <3> HIDE DEF v
    <3>3. OutsideLock(AfterFailure(t))
      BY <1>1, AfterSteps DEF OutsideLock
    <3> QED BY <3>1, <3>2, <3>3
  <2>5. CASE FailInsert(a)
    <3>1. OutsideLock(AfterFailure(t)) /\ Go(a, AfterFailure(t))
      BY <1>1, <2>5, AfterSteps DEF FailInsert, OutsideLock, t
    <3> QED BY <3>1
  <2> QED BY <2>1, <2>2, <2>3, <2>4, <2>5
<1>5. PICK v : /\ Go(a, v)
               /\ \/ v.step = "name"
                  \/ OutsideLock(v)
                  \/ /\ v.step = "insert" /\ v.onto = t.onto /\ v.id = t.id /\ v.staged = t.staged
                     /\ Name(a)
  BY <1>4
<1>6. tasks'[a] = v /\ \A b \in Actors \ {a} : tasks'[b] = tasks[b]
  BY <1>5, GoTasks
<1>7. \A b \in Actors \ {a} : tasks[b].step \notin {"name", "insert"} \/ OutsideLock(v)
  <2>1. CASE t.step = "claim"
    <3>1. Unlocked(ProcessOf[a])
      BY <2>1 DEF Claim, WalkOn, Name, Collide, FailInsert, At, t
    <3> QED BY <3>1 DEF Unlocked, OnlyProcess
  <2>2. CASE t.step \in {"name", "insert"}
    BY <2>2 DEF SnapInv, LockHeld, OnlyProcess, t
  <2> QED BY <1>2, <2>1, <2>2
<1>8. LockHeld'
  BY <1>6, <1>7 DEF SnapInv, LockHeld, OutsideLock
<1>9. ImportsChose'
  BY <1>2, <1>5, <1>6 DEF SnapInv, ImportsChose, OutsideLock
<1>10. \/ archives' = archives
       \/ /\ t.step = "name" /\ archives' = [archives EXCEPT ![t.onto][t.id] = t.staged] /\ ~Recorded(t.id)
       \/ /\ t.step = "insert" /\ archives' = [archives EXCEPT ![t.onto][t.id] = Missing]
  BY DEF Claim, WalkOn, Name, Collide, FailInsert, TakeBack, Taken, At, disk, t
<1>11. t.step = "insert" => t.id \in imported \/ ~Recorded(t.id)
  BY DEF SnapInv, NamedIsThere, t
<1>12. SnapshotsKeepTheirContent'
  <2> SUFFICES ASSUME NEW i \in Ids, Recorded(i), i \notin imported
               PROVE  archives'[rows[i].branch][i] = taken[i]
    BY <1>2 DEF SnapshotsKeepTheirContent, Recorded, ArchiveOf
  <2>1. archives[rows[i].branch][i] = taken[i]
    BY DEF SnapInv, SnapshotsKeepTheirContent, ArchiveOf
  <2>2. CASE archives' = archives
    BY <2>1, <2>2
  <2>3. CASE archives' # archives
    <3>1. t.id # i
      BY <1>10, <1>11, <2>3
    <3>2. \A b \in Branches : archives'[b][i] = archives[b][i]
      <4>1. \E c : archives' = [archives EXCEPT ![t.onto][t.id] = c]
        BY <1>10, <2>3
      <4> QED BY <3>1, <4>1, ArchiveSetAt
    <3> QED BY <1>3, <2>1, <3>2
  <2> QED BY <2>2, <2>3
<1>13. NamedIsThere'
  <2> SUFFICES ASSUME NEW b \in Actors, tasks'[b].step = "insert", tasks'[b].id \notin imported
               PROVE  /\ ~Recorded(tasks'[b].id)
                      /\ archives'[tasks'[b].onto][tasks'[b].id] = tasks'[b].staged
    BY <1>2 DEF NamedIsThere, Recorded
  <2>1. CASE b = a
    <3>1. Name(a) /\ v.onto = t.onto /\ v.id = t.id /\ v.staged = t.staged /\ t.id \in Ids
      BY <1>2, <1>5, <1>6, <2>1 DEF OutsideLock, Name, At, t
    <3>2. ~Recorded(t.id) /\ archives' = [archives EXCEPT ![t.onto][t.id] = t.staged]
      BY <3>1 DEF Name, Taken, t
    <3>3. archives'[t.onto][t.id] = t.staged
      BY <1>2, <3>1, <3>2 DEF Typed, TypeOK
    <3> QED BY <1>6, <2>1, <3>1, <3>2, <3>3
  <2>2. CASE b # a
    <3>1. tasks'[b] = tasks[b] /\ OutsideLock(v)
      BY <1>6, <1>7, <2>2
    <3>2. t.step = "claim"
      BY <1>2, <2>2, <3>1 DEF SnapInv, LockHeld, OnlyProcess, t
    <3>3. archives' = archives
      BY <1>10, <3>2
    <3> QED BY <3>1, <3>3 DEF SnapInv, NamedIsThere
  <2> QED BY <2>1, <2>2
<1> QED BY <1>8, <1>9, <1>12, <1>13 DEF SnapInv

LEMMA SnapInvNext == OnlyProcess /\ Typed /\ SnapInv /\ [Next]_vars => SnapInv'
<1> SUFFICES ASSUME OnlyProcess, Typed, SnapInv, [Next]_vars PROVE SnapInv'
  OBVIOUS
<1>1. CASE UNCHANGED <<tasks, rows, archives, taken, imported>>
  BY <1>1 DEF SnapInv, LockHeld, ImportsChose, NamedIsThere, SnapshotsKeepTheirContent, Recorded, ArchiveOf
<1>2. UNCHANGED vars \/ Play \/ Tick => UNCHANGED <<tasks, rows, archives, taken, imported>>
  BY DEF vars, disk, game, history, Play, Tick
<1>3. CASE \E a \in Actors : Asked(a) \/ Working(a) \/ Failing(a)
  <2>1. PICK a \in Actors : Asked(a) \/ Working(a) \/ Failing(a)
    BY <1>3
  <2>2. CASE Asked(a)
    BY <2>2, SnapAsked
  <2>3. CASE Insert(a)
    BY <2>3, SnapInsert
  <2>4. CASE Claim(a) \/ WalkOn(a) \/ Name(a) \/ Collide(a) \/ FailInsert(a)
    BY <2>4, SnapClaim
  <2>5. CASE PruneSnapshot(a) \/ DropSnapshot(a) \/ DropBranch(a)
    BY <2>5, SnapRowsGo
  <2>6. CASE Place(a) \/ Register(a)
    BY <2>6, SnapImport
  <2>7. CASE \/ Zip(a) \/ FailSnapshot(a) \/ PruneBranch(a) \/ EndPrune(a) \/ Sweep(a)
             \/ Open(a) \/ Fill(a) \/ FailFill(a) \/ Clear(a) \/ Flip(a) \/ Latest(a)
             \/ RestoreImported(a) \/ CopyAside(a) \/ FailCopyAside(a) \/ TrackImported(a)
    <3>1. Leaves(a)
      BY <2>7, WorkLeaves
    <3>2. UNCHANGED <<rows, archives, taken, imported>>
      BY <2>7 DEF Zip, FailSnapshot, PruneBranch, EndPrune, Sweep, Open, Fill, FailFill, Clear, Flip, Latest,
                  RestoreImported, CopyAside, FailCopyAside, TrackImported, disk, game, history
    <3> QED BY <3>1, <3>2, SnapQuiet
  <2> QED BY <2>1, <2>2, <2>3, <2>4, <2>5, <2>6, <2>7 DEF Working, Failing, RefuseRow, LoseRow
<1>4. CASE \E p \in Processes : Crash(p)
  <2>1. PICK p \in Processes : Crash(p)
    BY <1>4
  <2>2. /\ UNCHANGED <<rows, archives, taken, imported>>
        /\ \A a \in Actors : tasks'[a] = NoTask \/ tasks'[a] = tasks[a]
    BY <2>1 DEF Crash, disk, game
  <2>3. NoTask.step = "idle"
    BY DEF NoTask
  <2> QED BY <2>2, <2>3 DEF SnapInv, LockHeld, ImportsChose, NamedIsThere, SnapshotsKeepTheirContent, Recorded,
                            ArchiveOf
<1> QED BY <1>1, <1>2, <1>3, <1>4 DEF Next

\* While one process takes the snapshots, a listed one is there and holds what the save
\* was when it was taken, whatever is pruned, deleted, imported or taken meanwhile
\* (claimAndInsert names, inserts and takes back under idMu).
THEOREM ListedSnapshotsAreTrue == OnlyProcess => (Spec => []SnapshotsKeepTheirContent)
<1> SUFFICES ASSUME OnlyProcess PROVE Spec => []SnapshotsKeepTheirContent
  OBVIOUS
<1>1. Init => SnapInv
  BY DEF Init, SnapInv, LockHeld, ImportsChose, NamedIsThere, SnapshotsKeepTheirContent, Recorded, NoTask
<1>2. SnapInv => SnapshotsKeepTheirContent
  BY DEF SnapInv
<1>3. Typed /\ SnapInv /\ [Next]_vars => SnapInv'
  BY SnapInvNext
<1> QED BY <1>1, <1>2, <1>3, HistoryTypeCorrect, PTL DEF Spec

-----------------------------------------------------------------------------
(* Branches and the folder: what goroutines go on to                       *)

Continues(t, v) ==
    \/ v \in {NoTask, Initial}
    \/ /\ v.op = t.op \/ (t.op = "import" /\ v.op = "restore")
       /\ v.op = "switch" =>
              /\ v.target = t.target
              /\ t.step \in {"latest", "open", "fill"} => v.step \in {"open", "fill"}
              /\ v.step \in {"latest", "open", "fill"} => t.step \in {"flip", "latest", "open"}
       /\ v.step = "flip" => t.step = "clear"
       /\ v.step = "drop" => v.target # active \/ (t.step = "drop" /\ v.target = t.target)

\* A goroutine goes on with what it is at, or is done, or takes a first snapshot.
GoesOn(a) == \E v : Go(a, v) /\ Continues(tasks[a], v)

LEMMA AfterContinues ==
    ASSUME Typed, NEW t, Proper(t), t.step \in {"zip", "claim", "name", "insert", "prune"}
    PROVE  /\ Continues(t, AfterSnapshot(t))
           /\ Continues(t, AfterFailure(t))
           /\ t.step # "prune" => Continues(t, Pruning(t))
<1>1. t \in Task
  BY DEF Proper
<1>2. Continues(t, AfterSnapshot(t))
  <2>1. CASE t.op = "restore"
    BY <1>1, <2>1 DEF AfterSnapshot, Continues, Task
  <2>2. CASE t.op = "switch"
    BY <1>1, <2>2 DEF AfterSnapshot, Continues, Task
  <2>3. CASE t.op \notin {"restore", "switch"}
    BY <2>3 DEF AfterSnapshot, Continues
  <2> QED BY <2>1, <2>2, <2>3
<1>3. Continues(t, AfterFailure(t))
  <2>1. CASE t.op = "restore"
    BY <1>1, <2>1 DEF AfterFailure, Continues, Task
  <2>2. CASE t.op = "branch" /\ t.target # active
    <3> DEFINE v == Deleting(t, t.target)
    <3>1. v.op = "branch" /\ v.step = "drop" /\ v.target = t.target
      BY <1>1, <2>2 DEF Deleting, Task
    <3>2. AfterFailure(t) = v
      BY <2>2 DEF AfterFailure
    <3> HIDE DEF v
    <3> QED BY <2>2, <3>1, <3>2 DEF Continues
  <2>3. CASE t.op # "restore" /\ ~(t.op = "branch" /\ t.target # active)
    BY <2>3 DEF AfterFailure, Continues
  <2> QED BY <2>1, <2>2, <2>3
<1>4. CASE Prunes
  <2> DEFINE v == [t EXCEPT !.step = "prune", !.listed = branches, !.id = 0]
  <2>1. v.op = t.op /\ v.step = "prune" /\ v.target = t.target
    BY <1>1 DEF Task
  <2>2. Pruning(t) = v
    BY <1>4 DEF Pruning
  <2> HIDE DEF v
  <2>3. Continues(t, Pruning(t))
    BY <2>1, <2>2 DEF Continues
  <2> QED BY <1>2, <1>3, <2>3
<1>5. CASE ~Prunes
  BY <1>2, <1>3, <1>5 DEF Pruning
<1> QED BY <1>4, <1>5

LEMMA SnapshotGoesOn ==
    ASSUME Typed, NEW a \in Actors,
           \/ Zip(a) \/ Claim(a) \/ WalkOn(a) \/ Name(a) \/ Insert(a) \/ Collide(a) \/ FailInsert(a)
           \/ FailSnapshot(a)
    PROVE  GoesOn(a)
<1> DEFINE t == tasks[a]
<1>1. Proper(t) /\ t \in Task
  BY TaskIsProper DEF Proper
<1> HIDE DEF t
<1>2. t.step \in {"zip", "claim", "name", "insert"}
  BY DEF Zip, Claim, WalkOn, Name, Insert, Collide, FailInsert, FailSnapshot, At, t
<1>3. CASE Zip(a) \/ Claim(a) \/ Name(a)
  <2> DEFINE v(s, c, i) == [t EXCEPT !.step = s, !.staged = c, !.id = i]
  <2>1. \A s, c, i : v(s, c, i).op = t.op /\ v(s, c, i).step = s /\ v(s, c, i).target = t.target
    BY <1>1 DEF Task
  <2>2. \A s, c, i : s \in {"claim", "name", "insert"} => Continues(t, v(s, c, i))
    <3> HIDE DEF v
    <3> QED BY <1>2, <2>1 DEF Continues
  <2>3. Zip(a) => Go(a, v("claim", save, t.id))
    BY <1>1 DEF Zip, Task, t
  <2>4. Claim(a) => Go(a, v("name", t.staged, clock))
    BY <1>1 DEF Claim, Task, t
  <2>5. Name(a) => Go(a, v("insert", t.staged, t.id))
    BY <1>1 DEF Name, Task, t
  <2> HIDE DEF v
  <2> QED BY <1>3, <2>2, <2>3, <2>4, <2>5 DEF GoesOn, t
<1>4. CASE WalkOn(a)
  <2> DEFINE v == [t EXCEPT !.id = @ + 1]
  <2>1. v.op = t.op /\ v.step = t.step /\ v.target = t.target /\ Go(a, v)
    BY <1>1, <1>4 DEF Task, WalkOn, t
  <2> HIDE DEF v
  <2> QED BY <1>2, <2>1 DEF GoesOn, Continues, t
<1>5. CASE Collide(a)
  <2> DEFINE v == [t EXCEPT !.step = "name", !.id = @ + 1, !.staged = archives[t.onto][t.id]]
  <2>1. v.op = t.op /\ v.step = "name" /\ v.target = t.target
    BY <1>1 DEF Task
  <2>2. Go(a, v) \/ Go(a, AfterFailure(t))
    BY <1>5 DEF Collide, t
  <2> HIDE DEF v
  <2>3. Continues(t, v)
    BY <1>2, <2>1 DEF Continues
  <2> QED BY <1>1, <1>2, <2>2, <2>3, AfterContinues DEF GoesOn, t
<1>6. CASE Insert(a) \/ FailInsert(a) \/ FailSnapshot(a)
  BY <1>1, <1>2, <1>6, AfterContinues DEF Insert, FailInsert, FailSnapshot, GoesOn, t
<1> QED BY <1>3, <1>4, <1>5, <1>6

LEMMA RetentionGoesOn ==
    ASSUME Typed, NEW a \in Actors,
           PruneBranch(a) \/ PruneSnapshot(a) \/ EndPrune(a) \/ Sweep(a) \/ DropSnapshot(a) \/ DropBranch(a)
    PROVE  GoesOn(a)
<1> DEFINE t == tasks[a]
<1>1. Proper(t) /\ t \in Task
  BY TaskIsProper DEF Proper
<1> HIDE DEF t
<1>2. Continues(t, NoTask)
  BY DEF Continues
<1>3. CASE PruneBranch(a)
  <2>1. PICK b \in t.listed :
             Go(a, [t EXCEPT !.listed = @ \ {b}, !.doomed = SnapshotsBeyondRetentionByKind(b)])
    BY <1>3 DEF PruneBranch, t
  <2> DEFINE v == [t EXCEPT !.listed = @ \ {b}, !.doomed = SnapshotsBeyondRetentionByKind(b)]
  <2>2. t.step = "prune" /\ v.op = t.op /\ v.step = t.step /\ v.target = t.target /\ Go(a, v)
    BY <1>1, <1>3, <2>1 DEF Task, PruneBranch, At, t
  <2> HIDE DEF v
  <2> QED BY <2>2 DEF GoesOn, Continues, t
<1>4. CASE PruneSnapshot(a) \/ DropSnapshot(a)
  <2>1. PICK i \in t.doomed : Forget(a, i)
    BY <1>4 DEF PruneSnapshot, DropSnapshot, t
  <2> DEFINE v == [t EXCEPT !.doomed = @ \ {i}]
  <2>2. /\ t.step \in {"prune", "drop"} /\ v.op = t.op /\ v.step = t.step /\ v.target = t.target
        /\ Go(a, v)
    BY <1>1, <1>4, <2>1 DEF Task, Forget, PruneSnapshot, DropSnapshot, At, t
  <2> HIDE DEF v
  <2> QED BY <2>2 DEF GoesOn, Continues, t
<1>5. CASE EndPrune(a)
  <2> DEFINE v == [t EXCEPT !.step = "sweep", !.listed = branches \cap Leftovers]
  <2>1. t.step = "prune" /\ (Go(a, v) \/ Go(a, AfterSnapshot(t)))
    BY <1>5 DEF EndPrune, At, t
  <2>2. v.op = t.op /\ v.step = "sweep" /\ v.target = t.target
    BY <1>1 DEF Task
  <2> HIDE DEF v
  <2>3. Continues(t, v)
    BY <2>1, <2>2 DEF Continues
  <2> QED BY <1>1, <2>1, <2>3, AfterContinues DEF GoesOn, t
<1>6. CASE Sweep(a)
  <2>1. CASE t.listed = {}
    BY <1>2, <1>6, <2>1 DEF Sweep, Finish, GoesOn, t
  <2>2. CASE t.listed # {}
    <3>1. PICK b \in t.listed :
               Go(a, IF Spared(b) THEN [t EXCEPT !.listed = @ \ {b}]
                     ELSE Deleting([t EXCEPT !.listed = @ \ {b}], b))
      BY <1>6, <2>2 DEF Sweep, t
    <3> DEFINE v == [t EXCEPT !.listed = @ \ {b}]
               w == Deleting(v, b)
    <3>2. t.step = "sweep" /\ t.op = "cleanup"
      BY <1>1, <1>6 DEF Sweep, At, Proper, Sensible, t
    <3>3. v.op = "cleanup" /\ v.step = "sweep" /\ v.target = t.target
      BY <1>1, <3>2 DEF Task
    <3>4. w.op = "cleanup" /\ w.step = "drop" /\ w.target = b
      BY <1>1, <3>2 DEF Task, Deleting
    <3>5. Go(a, v) \/ (Go(a, w) /\ b # active)
      BY <3>1 DEF Spared
    <3> HIDE DEF v, w
    <3> QED BY <3>2, <3>3, <3>4, <3>5 DEF GoesOn, Continues, t
  <2> QED BY <2>1, <2>2
<1>7. CASE DropBranch(a)
  <2> DEFINE v == [t EXCEPT !.step = "sweep", !.target = NoBranch]
  <2>1. t.step = "drop" /\ (Go(a, NoTask) \/ (t.op = "cleanup" /\ Go(a, v)))
    BY <1>7 DEF DropBranch, At, t
  <2>2. v.op = t.op /\ v.step = "sweep"
    BY <1>1 DEF Task
  <2> HIDE DEF v
  <2> QED BY <1>2, <2>1, <2>2 DEF GoesOn, Continues, t
<1> QED BY <1>3, <1>4, <1>5, <1>6, <1>7

LEMMA OthersGoOn ==
    ASSUME Typed, NEW a \in Actors,
           \/ Open(a) \/ Fill(a) \/ FailFill(a) \/ Clear(a) \/ Flip(a) \/ Latest(a)
           \/ Place(a) \/ Register(a) \/ RestoreImported(a) \/ CopyAside(a) \/ FailCopyAside(a)
           \/ TrackImported(a)
    PROVE  GoesOn(a)
<1> DEFINE t == tasks[a]
<1>1. Proper(t) /\ t \in Task
  BY TaskIsProper DEF Proper
<1> HIDE DEF t
<1>2. Continues(t, NoTask) /\ Continues(t, Initial)
  BY DEF Continues
<1>3. CASE Open(a) \/ Latest(a) \/ FailFill(a)
  <2> DEFINE v(s) == [t EXCEPT !.step = "fill", !.source = s]
             w(s) == [t EXCEPT !.step = "open", !.old = s]
  <2>1. \A s : /\ v(s).op = t.op /\ v(s).step = "fill" /\ v(s).target = t.target
               /\ w(s).op = t.op /\ w(s).step = "open" /\ w(s).target = t.target
    BY <1>1 DEF Task
  <2>2. \/ Go(a, NoTask)
        \/ t.step = "open" /\ \E s : Go(a, v(s))
        \/ t.step = "latest" /\ \E s : Go(a, w(s))
    BY <1>3 DEF Open, Latest, FailFill, Finish, At, t
  <2> HIDE DEF v, w
  <2> QED BY <1>2, <2>1, <2>2 DEF GoesOn, Continues, t
<1>4. CASE Fill(a) \/ Clear(a) \/ Flip(a) \/ CopyAside(a) \/ FailCopyAside(a) \/ Place(a)
  <2> DEFINE v(s) == [t EXCEPT !.step = s]
  <2>1. \A s : v(s).op = t.op /\ v(s).step = s /\ v(s).target = t.target
    BY <1>1 DEF Task
  <2>2. \/ Go(a, NoTask)
        \/ t.op = "track" /\ Go(a, v("enter"))
        \/ t.step = "clear" /\ Go(a, v("flip"))
        \/ t.step = "flip" /\ Go(a, v("latest"))
        \/ t.op = "track" /\ Go(a, v("open"))
        \/ t.op = "import" /\ Go(a, v("register"))
    BY <1>1, <1>4 DEF Fill, Clear, Flip, CopyAside, FailCopyAside, Place, Finish, At, Proper, Sensible, t
  <2> HIDE DEF v
  <2> QED BY <1>2, <2>1, <2>2 DEF GoesOn, Continues, t
<1>5. CASE Register(a)
  <2> DEFINE v == [NoTask EXCEPT !.op = "import", !.step = "enter", !.old = t.id]
  <2>1. v.op = "import" /\ v.step = "enter"
    BY DEF NoTask
  <2>2. t.op = "import" /\ (Go(a, v) \/ Go(a, NoTask))
    BY <1>1, <1>5 DEF Register, Finish, At, Proper, Sensible, t
  <2> HIDE DEF v
  <2> QED BY <1>2, <2>1, <2>2 DEF GoesOn, Continues, t
<1>6. CASE RestoreImported(a)
  <2>1. /\ t.old \in Ids /\ t.op = "import"
        /\ Go(a, NoTask) \/ (Recorded(t.old) /\ Go(a, Restoring(NoTask, t.old)))
    BY <1>1, <1>6 DEF Proper, Sensible, RestoreImported, At, t
  <2> DEFINE v == Restoring(NoTask, t.old)
  <2>2. v.step \in {"open", "zip"}
    BY <2>1, RestoringStep
  <2>3. Recorded(t.old) => v.op = "restore"
    BY <2>1, RestoringProper
  <2> HIDE DEF v
  <2>4. Recorded(t.old) => Continues(t, v)
    BY <2>1, <2>2, <2>3 DEF Continues
  <2> QED BY <1>2, <2>1, <2>4 DEF GoesOn, t, v
<1>7. CASE TrackImported(a)
  BY <1>2, <1>7 DEF TrackImported, Finish, GoesOn, t
<1> QED BY <1>3, <1>4, <1>5, <1>6, <1>7

LEMMA WorkGoesOn ==
    ASSUME Typed, NEW a \in Actors, Working(a) \/ Failing(a)
    PROVE  GoesOn(a)
  BY SnapshotGoesOn, RetentionGoesOn, OthersGoOn DEF Working, Failing, RefuseRow, LoseRow

\* What a user's call begins.
Begins(a, v) ==
    /\ \/ v.op \in Does[a]
       \/ v.op = "track" /\ "import" \in Does[a]
       \/ v.op = "create" /\ "track" \in Does[a]
    /\ v.op \in {"switch", "branch", "delete", "cleanup"} => tracked
    /\ v.op = "switch" => v.target \in branches /\ v.step \in {"zip", "clear"}
    /\ v.step = "drop" => v.target # active
    /\ v.step # "flip"

LEMMA AskedBegins ==
    ASSUME Typed, NEW a \in Actors, Asked(a)
    PROVE  tasks' = tasks \/ \E v : Go(a, v) /\ Begins(a, v)
<1>1. CASE \E auto \in BOOLEAN : BeginCreate(a, auto)
  <2>1. PICK auto \in BOOLEAN : BeginCreate(a, auto)
    BY <1>1
  <2> DEFINE v == [NoTask EXCEPT !.op = "create", !.step = "zip", !.onto = active, !.auto = auto]
  <2>2. v.op = "create" /\ v.step = "zip"
    BY DEF NoTask
  <2>3. "create" \in Does[a] /\ Go(a, v)
    BY <2>1 DEF BeginCreate, Begin
  <2> HIDE DEF v
  <2> QED BY <2>2, <2>3 DEF Begins
<1>2. CASE BeginCleanup(a)
  <2> DEFINE v == [NoTask EXCEPT !.op = "cleanup", !.step = "prune", !.listed = IF Prunes THEN branches ELSE {}]
  <2>1. v.op = "cleanup" /\ v.step = "prune"
    BY DEF NoTask
  <2>2. "cleanup" \in Does[a] /\ tracked /\ Go(a, v)
    BY <1>2 DEF BeginCleanup, Begin
  <2> HIDE DEF v
  <2> QED BY <2>1, <2>2 DEF Begins
<1>3. CASE Track(a)
  <2>1. Initial.op = "create" /\ Initial.step = "zip"
    BY DEF Initial, NoTask
  <2> QED BY <1>3, <2>1 DEF Track, Begin, Begins
<1>4. CASE \E i \in Ids : BeginRestore(a, i)
  <2>1. PICK i \in Ids : BeginRestore(a, i)
    BY <1>4
  <2> DEFINE v == Restoring(NoTask, i)
  <2>2. Recorded(i) /\ "restore" \in Does[a] /\ Go(a, v)
    BY <2>1 DEF BeginRestore, Begin
  <2>3. v.op = "restore" /\ v.step \in {"open", "zip"}
    BY <2>2, RestoringProper, RestoringStep
  <2> HIDE DEF v
  <2> QED BY <2>2, <2>3 DEF Begins
<1>5. CASE \E b \in Branches : BeginSwitch(a, b)
  <2>1. PICK b \in Branches : BeginSwitch(a, b)
    BY <1>5
  <2> DEFINE v == [NoTask EXCEPT !.op = "switch", !.target = b, !.onto = active,
                                 !.step = IF save = Empty THEN "clear" ELSE "zip"]
  <2>2. v.op = "switch" /\ v.target = b /\ v.step \in {"zip", "clear"}
    BY DEF NoTask
  <2>3. "switch" \in Does[a] /\ tracked /\ b \in branches /\ Go(a, v)
    BY <2>1 DEF BeginSwitch, Begin
  <2> HIDE DEF v
  <2> QED BY <2>2, <2>3 DEF Begins
<1>6. CASE \E b \in Branches : BeginDelete(a, b)
  <2>1. PICK b \in Branches : BeginDelete(a, b)
    BY <1>6
  <2> DEFINE v == Deleting([NoTask EXCEPT !.op = "delete"], b)
  <2>2. v.op = "delete" /\ v.target = b /\ v.step = "drop"
    BY DEF NoTask, Deleting
  <2>3. "delete" \in Does[a] /\ tracked /\ b # active /\ Go(a, v)
    BY <2>1 DEF BeginDelete, Begin
  <2> HIDE DEF v
  <2> QED BY <2>2, <2>3 DEF Begins
<1>7. CASE \E b \in Branches, copy \in BOOLEAN : BeginBranch(a, b, copy)
  <2>1. PICK b \in Branches, copy \in BOOLEAN : BeginBranch(a, b, copy)
    BY <1>7
  <2> DEFINE v == [NoTask EXCEPT !.op = "branch", !.step = "zip", !.onto = b, !.target = b]
  <2>2. v.op = "branch" /\ v.step = "zip"
    BY DEF NoTask
  <2>3. "branch" \in Does[a] /\ tracked /\ (Go(a, v) \/ tasks' = tasks)
    BY <2>1 DEF BeginBranch, Begin
  <2> HIDE DEF v
  <2> QED BY <2>2, <2>3 DEF Begins
<1>8. CASE \E c \in 2..newest : BeginBring(a, c)
  <2>1. PICK c \in 2..newest : BeginBring(a, c)
    BY <1>8
  <2> DEFINE v == [NoTask EXCEPT !.op = "track", !.source = c, !.step = IF save = Empty THEN "open" ELSE "aside"]
  <2>2. v.op = "track" /\ v.step \in {"open", "aside"}
    BY DEF NoTask
  <2>3. "import" \in Does[a] /\ Go(a, v)
    BY <2>1 DEF BeginBring, Begin
  <2> HIDE DEF v
  <2> QED BY <2>2, <2>3 DEF Begins
<1>9. CASE \E c \in 2..newest, overwrite \in BOOLEAN : BeginImport(a, c, overwrite)
  <2>1. PICK c \in 2..newest, overwrite \in BOOLEAN : BeginImport(a, c, overwrite)
    BY <1>9
  <2> DEFINE v == [NoTask EXCEPT !.op = "import", !.step = "place", !.onto = active, !.id = clock,
                                 !.staged = c, !.safe = overwrite]
  <2>2. v.op = "import" /\ v.step = "place"
    BY DEF NoTask
  <2>3. "import" \in Does[a] /\ Go(a, v)
    BY <2>1 DEF BeginImport, Begin
  <2> HIDE DEF v
  <2> QED BY <2>2, <2>3 DEF Begins
<1>10. Untrack(a) \/ (\E i \in Ids : DeleteSnapshot(a, i)) => tasks' = tasks
  BY DEF Untrack, DeleteSnapshot
<1> QED BY <1>1, <1>2, <1>3, <1>4, <1>5, <1>6, <1>7, <1>8, <1>9, <1>10 DEF Asked

-----------------------------------------------------------------------------
(* The branch in play: proof                                               *)

BranchOps == {"switch", "branch", "delete", "cleanup"}

LEMMA NoBranchOps ==
    /\ NoTask.op \notin BranchOps /\ Initial.op \notin BranchOps
    /\ NoTask.step = "idle" /\ Initial.step = "zip"
  BY DEF NoTask, Initial, BranchOps

\* A goroutine that is not the one, or no goroutine, moved.
LEMMA BranchesElsewhere ==
    ASSUME Typed, NEW u \in Actors, BranchInv(u), tasks'[u] \in {tasks[u], NoTask, Initial},
           \A a \in Actors \ {u} : tasks'[a].op \notin BranchOps,
           \/ UNCHANGED <<tracked, active>> /\ branches \subseteq branches'
           \/ tracked' /\ active' \in branches' /\ ~tracked
    PROVE  BranchInv(u)'
<1>1. ActiveBranchExists'
  BY DEF BranchInv, ActiveBranchExists
<1>2. CASE tasks'[u] = tasks[u]
  <2>1. \/ UNCHANGED <<tracked, active>> /\ branches \subseteq branches'
        \/ tasks[u].op \notin BranchOps /\ tasks[u].step # "drop"
    <3>1. tasks[u].step = "drop" => tasks[u].op \in BranchOps
      BY TaskIsProper DEF Proper, Sensible, BranchOps
    <3> QED BY <3>1 DEF BranchInv, BranchOps
  <2> QED BY <1>1, <1>2, <2>1 DEF BranchInv, BranchOps
<1>3. CASE tasks'[u] \in {NoTask, Initial}
  BY <1>1, <1>3, NoBranchOps DEF BranchInv, BranchOps
<1> QED BY <1>2, <1>3

LEMMA BranchesAsked ==
    ASSUME Typed, NEW u \in Actors, BranchesHaveOneHand(u), BranchInv(u), NEW a \in Actors, Asked(a)
    PROVE  BranchInv(u)'
<1>1. CASE Untrack(a)
  <2>1. a = u /\ tasks' = tasks /\ tasks[u] = NoTask /\ tracked' = FALSE
    BY <1>1 DEF Untrack, Begin, BranchesHaveOneHand
  <2> QED BY <2>1, NoBranchOps DEF BranchInv, ActiveBranchExists, BranchOps
<1>2. CASE Track(a)
  <2>1. a = u /\ Go(u, Initial)
    BY <1>2 DEF Track, Begin, BranchesHaveOneHand
  <2>2. tasks'[u] = Initial /\ \A b \in Actors \ {u} : tasks'[b] = tasks[b]
    BY <2>1, GoTasks
  <2>3. tracked' /\ active' \in branches' /\ ~tracked
    BY <1>2 DEF Track, Tracked
  <2>4. \A b \in Actors \ {u} : tasks'[b].op \notin BranchOps
    BY <2>2 DEF BranchInv, BranchOps
  <2> QED BY <2>2, <2>3, <2>4, BranchesElsewhere
<1>3. CASE ~Untrack(a) /\ ~Track(a)
  <2>1. UNCHANGED <<tracked, active>> /\ branches \subseteq branches'
    BY <1>3 DEF Asked, BeginCreate, BeginCleanup, BeginRestore, DeleteSnapshot, BeginSwitch, BeginDelete,
                BeginBranch, BeginBring, BeginImport, game
  <2>2. CASE tasks' = tasks
    <3>1. \A b \in Actors \ {u} : tasks'[b].op \notin BranchOps
      BY <2>2 DEF BranchInv, BranchOps
    <3> QED BY <2>1, <2>2, <3>1, BranchesElsewhere
  <2>3. ASSUME NEW v, Go(a, v), Begins(a, v) PROVE BranchInv(u)'
    <3>1. tasks'[a] = v /\ \A b \in Actors \ {a} : tasks'[b] = tasks[b]
      BY <2>3, GoTasks
    <3>2. a # u => v.op \notin BranchOps
      BY <2>3 DEF Begins, BranchesHaveOneHand, BranchOps
    <3>3. \A b \in Actors \ {u} : tasks'[b].op \notin BranchOps
      BY <3>1, <3>2 DEF BranchInv, BranchOps
    <3>4. CASE a # u
      BY <2>1, <3>1, <3>3, <3>4, BranchesElsewhere
    <3>5. CASE a = u
      BY <2>1, <2>3, <3>1, <3>3, <3>5 DEF BranchInv, Begins, ActiveBranchExists, BranchOps
    <3> QED BY <3>4, <3>5
  <2> QED BY <2>2, <2>3, AskedBegins
<1> QED BY <1>1, <1>2, <1>3

LEMMA BranchesWork ==
    ASSUME Typed, NEW u \in Actors, BranchInv(u), NEW a \in Actors, Working(a) \/ Failing(a)
    PROVE  BranchInv(u)'
<1> DEFINE t == tasks[a]
<1>1. PICK v : Go(a, v) /\ Continues(t, v)
  BY WorkGoesOn DEF GoesOn
<1>2. Sensible(t)
  BY TaskIsProper DEF Proper
<1>3. tasks'[a] = v /\ \A b \in Actors \ {a} : tasks'[b] = tasks[b]
  BY <1>1, GoTasks
<1>4. a # u => t.op \notin BranchOps
  BY DEF BranchInv, BranchOps
<1> HIDE DEF t
<1>5. v.op \in BranchOps => v.op = t.op
  BY <1>1, NoBranchOps DEF Continues, BranchOps
<1>6. \A b \in Actors \ {u} : tasks'[b].op \notin BranchOps
  BY <1>3, <1>4, <1>5 DEF BranchInv, BranchOps
<1>7. CASE Flip(a) /\ tracked
  <2>1. t.step = "flip" /\ UNCHANGED <<tracked, branches>> /\ active' = t.target /\ t.op = "switch"
    BY <1>2, <1>7 DEF Flip, Flipped, At, Sensible, t
  <2>2. a = u
    BY <1>4, <2>1 DEF BranchOps
  <2>3. t.target \in branches /\ tracked
    BY <1>7, <2>1, <2>2 DEF BranchInv, t
  <2>4. v.step = "latest"
    <3> DEFINE w == [tasks[a] EXCEPT !.step = "latest"]
    <3>1. Go(a, w) /\ w.step = "latest"
      BY <1>7 DEF Flip, Typed, TypeOK, Task
    <3> HIDE DEF w
    <3> QED BY <1>3, <3>1, GoTasks
  <2> QED BY <1>3, <1>6, <2>1, <2>2, <2>3, <2>4 DEF BranchInv, ActiveBranchExists, BranchOps
<1>8. CASE DropBranch(a)
  <2>1. /\ t.step = "drop" /\ t.op \in BranchOps /\ UNCHANGED <<tracked, active>>
        /\ branches' = branches \ {t.target}
    BY <1>2, <1>8 DEF DropBranch, At, Sensible, BranchOps, t
  <2>2. a = u /\ tracked /\ t.target # active
    BY <1>4, <2>1 DEF BranchInv, BranchOps, t
  <2>3. v.op # "switch" /\ v.step # "drop"
    <3> DEFINE w == [tasks[a] EXCEPT !.step = "sweep", !.target = NoBranch]
    <3>1. Go(a, NoTask) \/ Go(a, w)
      BY <1>8 DEF DropBranch
    <3>2. w.step = "sweep" /\ w.op = t.op
      BY DEF Typed, TypeOK, Task, t
    <3>3. v = NoTask \/ v = w
      <4> HIDE DEF w
      <4> QED BY <1>3, <3>1, GoTasks
    <3> HIDE DEF w
    <3>4. t.op # "switch"
      BY <1>2, <2>1 DEF Sensible
    <3> QED BY <3>2, <3>3, <3>4, NoBranchOps DEF BranchOps
  <2> QED BY <1>3, <1>6, <2>1, <2>2, <2>3 DEF BranchInv, ActiveBranchExists, BranchOps
<1>9. CASE TrackImported(a) /\ ~tracked
  <2>1. Go(a, Initial) /\ tracked' /\ active' \in branches'
    BY <1>9 DEF TrackImported, Tracked
  <2>2. tasks'[u] \in {tasks[u], Initial}
    BY <2>1, GoTasks
  <2> QED BY <1>6, <1>9, <2>1, <2>2, BranchesElsewhere
<1>10. CASE ~(Flip(a) /\ tracked) /\ ~DropBranch(a) /\ ~(TrackImported(a) /\ ~tracked)
  <2>1. UNCHANGED <<tracked, active>> /\ branches \subseteq branches'
    BY <1>10 DEF Working, Failing, RefuseRow, LoseRow, Zip, Claim, WalkOn, Name, Insert, Collide, FailInsert,
                 FailSnapshot, PruneBranch, PruneSnapshot, EndPrune, Sweep, Open, Fill, FailFill, Clear, Flip,
                 Latest, DropSnapshot, Place, Register, RestoreImported, CopyAside, FailCopyAside,
                 TrackImported, game
  <2>2. CASE a # u
    BY <1>3, <1>6, <2>1, <2>2, BranchesElsewhere
  <2>3. CASE a = u
    <3>1. tasks[u] = t /\ tasks'[u] = v
      BY <1>3, <2>3 DEF t
    <3>2. v.op \in BranchOps => tracked'
      BY <1>5, <2>1, <3>1 DEF BranchInv, BranchOps
    <3>3. v.op = "switch" /\ v.step \notin {"latest", "open", "fill"} => v.target \in branches'
      BY <1>1, <1>5, <2>1, <3>1, NoBranchOps DEF BranchInv, BranchOps, Continues
    <3>4. v.step = "drop" => v.target # active'
      BY <1>1, <2>1, <3>1, NoBranchOps DEF BranchInv, Continues
    <3>5. ActiveBranchExists'
      BY <2>1 DEF BranchInv, ActiveBranchExists
    <3> QED BY <1>6, <3>1, <3>2, <3>3, <3>4, <3>5 DEF BranchInv, BranchOps
  <2> QED BY <2>2, <2>3
<1> QED BY <1>7, <1>8, <1>9, <1>10

LEMMA BranchInvNext ==
    ASSUME NEW u \in Actors, BranchesHaveOneHand(u), Typed, BranchInv(u), [Next]_vars
    PROVE  BranchInv(u)'
<1>1. CASE UNCHANGED vars \/ Play \/ Tick
  <2>1. UNCHANGED <<tracked, active, branches, tasks>>
    BY <1>1 DEF Play, Tick, vars, game
  <2> QED BY <2>1 DEF BranchInv, ActiveBranchExists
<1>2. CASE \E a \in Actors : Asked(a) \/ Working(a) \/ Failing(a)
  BY <1>2, BranchesAsked, BranchesWork
<1>3. CASE \E p \in Processes : Crash(p)
  <2>1. PICK p \in Processes : Crash(p)
    BY <1>3
  <2>2. UNCHANGED <<tracked, active, branches>> /\ \A a \in Actors : tasks'[a] \in {NoTask, tasks[a]}
    BY <2>1 DEF Crash, game
  <2>3. \A a \in Actors \ {u} : tasks'[a].op \notin BranchOps
    BY <2>2, NoBranchOps DEF BranchInv, BranchOps
  <2> QED BY <2>2, <2>3, BranchesElsewhere
<1> QED BY <1>1, <1>2, <1>3 DEF Next

\* While one goroutine at a time makes, deletes and switches branches and tracks the
\* game, the branch in play has its row: no cleanup, no undone copy and no deletion
\* takes it, whatever snapshots, restores and imports run meanwhile and whatever fails.
THEOREM BranchInPlayStays ==
    ASSUME NEW u \in Actors, BranchesHaveOneHand(u)
    PROVE  Spec => []ActiveBranchExists
<1>1. Init => BranchInv(u)
  BY NoBranchOps DEF Init, BranchInv, ActiveBranchExists, BranchOps
<1>2. BranchInv(u) => ActiveBranchExists
  BY DEF BranchInv
<1>3. Typed /\ BranchInv(u) /\ [Next]_vars => BranchInv(u)'
  BY BranchInvNext
<1> QED BY <1>1, <1>2, <1>3, HistoryTypeCorrect, PTL DEF Spec

-----------------------------------------------------------------------------
(* The save folder: proof                                                  *)

FolderOps == {"switch", "restore", "import", "track"}

LEMMA NoFolderOps ==
    /\ NoTask.op \notin FolderOps /\ Initial.op \notin FolderOps
    /\ NoTask.step = "idle" /\ Initial.step = "zip"
  BY DEF NoTask, Initial, FolderOps

\* A goroutine that is not the one, or no goroutine, moved.
LEMMA FolderElsewhere ==
    ASSUME NEW u \in Actors, FolderInv(u), tasks'[u] \in {tasks[u], NoTask},
           \A a \in Actors \ {u} : tasks'[a].op \notin FolderOps,
           UNCHANGED <<save, tracked, active, home>>
    PROVE  FolderInv(u)'
<1>1. CASE tasks'[u] = tasks[u]
  BY <1>1 DEF FolderInv, FolderOps
<1>2. CASE tasks'[u] = NoTask
  BY <1>2, NoFolderOps DEF FolderInv, FolderOps
<1> QED BY <1>1, <1>2

\* The game is tracked, and takes the folder for its main branch's.
LEMMA FolderTracked ==
    ASSUME NEW u \in Actors, FolderInv(u), tasks'[u] = Initial, Tracked,
           \A a \in Actors \ {u} : tasks'[a].op \notin FolderOps
    PROVE  FolderInv(u)'
  BY NoFolderOps DEF FolderInv, FolderOps, Tracked

LEMMA FolderAsked ==
    ASSUME Typed, NEW u \in Actors, FolderHasOneHand(u), FolderInv(u), NEW a \in Actors, Asked(a)
    PROVE  FolderInv(u)'
<1>1. CASE Untrack(a)
  <2>1. /\ a = u /\ tasks' = tasks /\ tasks[u] = NoTask
        /\ tracked' = FALSE /\ UNCHANGED <<save, active>>
    BY <1>1 DEF Untrack, Begin, FolderHasOneHand, disk
  <2> QED BY <2>1, NoFolderOps DEF FolderInv, FolderOps
<1>2. CASE Track(a)
  <2>1. a = u /\ Go(u, Initial) /\ Tracked
    BY <1>2 DEF Track, Begin, FolderHasOneHand
  <2>2. tasks'[u] = Initial /\ \A b \in Actors \ {u} : tasks'[b] = tasks[b]
    BY <2>1, GoTasks
  <2>3. \A b \in Actors \ {u} : tasks'[b].op \notin FolderOps
    BY <2>2 DEF FolderInv, FolderOps
  <2> QED BY <2>1, <2>2, <2>3, FolderTracked
<1>3. CASE ~Untrack(a) /\ ~Track(a)
  <2>1. UNCHANGED <<save, tracked, active, home>>
    BY <1>3 DEF Asked, BeginCreate, BeginCleanup, BeginRestore, DeleteSnapshot, BeginSwitch, BeginDelete,
                BeginBranch, BeginBring, BeginImport, game, disk, history
  <2>2. CASE tasks' = tasks
    <3>1. \A b \in Actors \ {u} : tasks'[b].op \notin FolderOps
      BY <2>2 DEF FolderInv, FolderOps
    <3> QED BY <2>1, <2>2, <3>1, FolderElsewhere
  <2>3. ASSUME NEW v, Go(a, v), Begins(a, v) PROVE FolderInv(u)'
    <3>1. tasks'[a] = v /\ \A b \in Actors \ {a} : tasks'[b] = tasks[b]
      BY <2>3, GoTasks
    <3>2. a # u => v.op \notin FolderOps
      BY <2>3 DEF Begins, FolderHasOneHand, FolderOps
    <3>3. \A b \in Actors \ {u} : tasks'[b].op \notin FolderOps
      BY <3>1, <3>2 DEF FolderInv, FolderOps
    <3>4. CASE a # u
      BY <2>1, <3>1, <3>3, <3>4, FolderElsewhere
    <3>5. CASE a = u
      BY <2>1, <2>3, <3>1, <3>3, <3>5 DEF FolderInv, Begins, FolderOps
    <3> QED BY <3>4, <3>5
  <2> QED BY <2>2, <2>3, AskedBegins
<1> QED BY <1>1, <1>2, <1>3

\* Who clears, fills or re-labels the folder.
Handles(a) == Open(a) \/ Fill(a) \/ Clear(a) \/ (Flip(a) /\ tracked) \/ (TrackImported(a) /\ ~tracked)

LEMMA FolderHandled ==
    ASSUME Typed, NEW u \in Actors, FolderInv(u), NEW a \in Actors, Handles(a)
    PROVE  FolderInv(u)'
<1> DEFINE t == tasks[a]
<1>1. Proper(t) /\ t \in Task
  BY TaskIsProper DEF Proper
<1>2. /\ t.step \in {"open", "fill"} => t.op \in {"restore", "switch", "track"}
      /\ t.step \in {"clear", "flip"} => t.op = "switch"
  BY <1>1 DEF Proper, Sensible
<1>3. a = u
  BY <1>2 DEF Handles, Open, Fill, Clear, Flip, TrackImported, At, FolderInv
<1>4. ASSUME NEW v, Go(a, v) PROVE tasks'[u] = v /\ \A b \in Actors \ {u} : tasks'[b].op \notin FolderOps
  <2>1. tasks'[u] = v /\ \A b \in Actors \ {u} : tasks'[b] = tasks[b]
    BY <1>3, <1>4, GoTasks
  <2> QED BY <2>1 DEF FolderInv, FolderOps
<1>5. /\ tracked /\ save # Empty => home = active
      /\ t.step = "flip" => save = Empty
      /\ t.op = "switch" /\ t.step \in {"latest", "open", "fill"} => active = t.target
  BY <1>3 DEF FolderInv
<1>6. CASE Open(a)
  <2> DEFINE v == [t EXCEPT !.step = "fill", !.source = Readable(t)]
  <2>1. v.op = t.op /\ v.step = "fill" /\ v.target = t.target
    BY <1>1 DEF Task
  <2>2. /\ UNCHANGED <<tracked, active, home>> /\ save' \in {save, Empty} /\ t.step = "open"
        /\ Go(a, NoTask) \/ Go(a, v)
    BY <1>6 DEF Open, Finish, At, game, history
  <2> HIDE DEF t, v
  <2>3. CASE Go(a, NoTask)
    BY <1>4, <1>5, <2>2, <2>3, NoFolderOps DEF FolderInv, FolderOps
  <2>4. CASE Go(a, v)
    BY <1>4, <1>5, <2>1, <2>2, <2>4 DEF FolderInv, FolderOps
  <2> QED BY <2>2, <2>3, <2>4
<1>7. CASE Fill(a)
  <2> DEFINE v == [t EXCEPT !.step = "enter"]
  <2>1. v.op = t.op /\ v.step = "enter"
    BY <1>1 DEF Task
  <2>2. /\ UNCHANGED <<tracked, active>> /\ t.step = "fill"
        /\ home' = IF t.op = "switch" THEN t.target ELSE active
        /\ Go(a, NoTask) \/ (t.op = "track" /\ Go(a, v))
    BY <1>7 DEF Fill, At, game
  <2>3. home' = active'
    BY <1>5, <2>2
  <2> HIDE DEF t, v
  <2>4. CASE Go(a, NoTask)
    BY <1>4, <2>3, <2>4, NoFolderOps DEF FolderInv, FolderOps
  <2>5. CASE t.op = "track" /\ Go(a, v)
    BY <1>4, <2>1, <2>3, <2>5 DEF FolderInv, FolderOps
  <2> QED BY <2>2, <2>4, <2>5
<1>8. CASE Clear(a)
  <2> DEFINE v == [t EXCEPT !.step = "flip"]
  <2>1. v.step = "flip" /\ save' = Empty /\ Go(a, v)
    BY <1>1, <1>8 DEF Task, Clear
  <2> HIDE DEF t, v
  <2> QED BY <1>4, <2>1 DEF FolderInv, FolderOps
<1>9. CASE Flip(a) /\ tracked
  <2> DEFINE v == [t EXCEPT !.step = "latest"]
  <2>1. v.step = "latest" /\ v.target = t.target
    BY <1>1 DEF Task
  <2>2. save' = save /\ t.step = "flip" /\ active' = t.target /\ Go(a, v)
    BY <1>9 DEF Flip, Flipped, At, disk
  <2> HIDE DEF t, v
  <2> QED BY <1>4, <1>5, <2>1, <2>2 DEF FolderInv, FolderOps
<1>10. CASE TrackImported(a) /\ ~tracked
  <2>1. Go(a, Initial) /\ Tracked
    BY <1>10 DEF TrackImported
  <2> QED BY <1>4, <2>1, FolderTracked
<1> QED BY <1>6, <1>7, <1>8, <1>9, <1>10 DEF Handles

LEMMA FolderWork ==
    ASSUME Typed, NEW u \in Actors, FolderInv(u), NEW a \in Actors, Working(a) \/ Failing(a), ~Handles(a)
    PROVE  FolderInv(u)'
<1> DEFINE t == tasks[a]
<1>1. PICK v : Go(a, v) /\ Continues(t, v)
  BY WorkGoesOn DEF GoesOn
<1>2. tasks'[a] = v /\ \A b \in Actors \ {a} : tasks'[b] = tasks[b]
  BY <1>1, GoTasks
<1>3. UNCHANGED <<save, tracked, active, home>>
  BY DEF Handles, Working, Failing, RefuseRow, LoseRow, Zip, Claim, WalkOn, Name, Insert, Collide, FailInsert,
         FailSnapshot, PruneBranch, PruneSnapshot, EndPrune, Sweep, FailFill, Flip, Latest, DropSnapshot,
         DropBranch, Place, Register, RestoreImported, CopyAside, FailCopyAside, TrackImported,
         game, disk, history
<1>4. t.step # "clear" /\ (t.step = "flip" => v = NoTask)
  <2>1. Flip(a) => t.step = "flip"
    BY DEF Flip, At
  <2>2. ASSUME ~Flip(a) PROVE t.step \notin {"clear", "flip"}
    <3>1. \/ At(a, "zip") \/ At(a, "claim") \/ At(a, "name") \/ At(a, "insert") \/ At(a, "prune") \/ At(a, "sweep")
          \/ At(a, "fill") \/ At(a, "latest") \/ At(a, "drop") \/ At(a, "place") \/ At(a, "register")
          \/ At(a, "enter") \/ At(a, "aside")
      <4>1. FailSnapshot(a) => At(a, "zip") \/ At(a, "claim")
        BY DEF FailSnapshot, At
      <4> HIDE DEF t
      <4> QED BY <2>2, <4>1 DEF Handles, Working, Failing, RefuseRow, LoseRow, Zip, Claim, WalkOn, Name, Insert,
               Collide, FailInsert, PruneBranch, PruneSnapshot, EndPrune, Sweep, FailFill, Latest, DropSnapshot,
               DropBranch, Place, Register, RestoreImported, CopyAside, FailCopyAside, TrackImported
    <3> QED BY <3>1 DEF At
  <2>3. t.step # "clear" /\ (t.step = "flip" => Flip(a) /\ ~tracked)
    BY <2>1, <2>2 DEF Handles, Flip, At
  <2>4. t.step = "flip" => Go(a, NoTask)
    BY <2>3 DEF Flip, Finish
  <2> QED BY <1>2, <2>3, <2>4, GoTasks
<1>5. a # u => t.op \notin FolderOps
  BY DEF FolderInv, FolderOps
<1> HIDE DEF t
<1>6. v.op \in FolderOps => t.op \in FolderOps
  BY <1>1, NoFolderOps DEF Continues, FolderOps
<1>7. \A b \in Actors \ {u} : tasks'[b].op \notin FolderOps
  BY <1>2, <1>5, <1>6 DEF FolderInv, FolderOps
<1>8. CASE a # u
  BY <1>2, <1>3, <1>7, <1>8, FolderElsewhere
<1>9. CASE a = u
  <2>1. tasks[u] = t /\ tasks'[u] = v
    BY <1>2, <1>9 DEF t
  <2>2. v.step # "flip"
    BY <1>1, <1>4, NoFolderOps DEF Continues
  <2>3. v.op = "switch" /\ v.step \in {"latest", "open", "fill"} =>
          t.op = "switch" /\ t.step \in {"latest", "open"} /\ v.target = t.target
    BY <1>1, <1>4, NoFolderOps DEF Continues, FolderOps
  <2> QED BY <1>3, <1>7, <2>1, <2>2, <2>3 DEF FolderInv, FolderOps
<1> QED BY <1>8, <1>9

LEMMA FolderInvNext ==
    ASSUME NEW u \in Actors, FolderHasOneHand(u), Typed, FolderInv(u), [Next]_vars
    PROVE  FolderInv(u)'
<1>1. CASE UNCHANGED vars \/ Tick
  <2>1. UNCHANGED <<save, tracked, active, home, tasks>>
    BY <1>1 DEF Tick, vars, game, disk, history
  <2> QED BY <2>1 DEF FolderInv
<1>2. CASE Play
  <2>1. UNCHANGED <<tracked, active, tasks>> /\ home' = IF save = Empty THEN active ELSE home
    BY <1>2 DEF Play, game
  <2>2. tasks[u].step # "flip"
    <3>1. tasks[u].step = "flip" => Cleared(u)
      BY TaskIsProper DEF Proper, Sensible, Cleared
    <3> QED BY <1>2, <3>1 DEF Play
  <2> QED BY <2>1, <2>2 DEF FolderInv
<1>3. CASE \E a \in Actors : Asked(a) \/ Working(a) \/ Failing(a)
  BY <1>3, FolderAsked, FolderHandled, FolderWork
<1>4. CASE \E p \in Processes : Crash(p)
  <2>1. PICK p \in Processes : Crash(p)
    BY <1>4
  <2>2. UNCHANGED <<save, tracked, active, home>> /\ \A a \in Actors : tasks'[a] \in {NoTask, tasks[a]}
    BY <2>1 DEF Crash, game, disk
  <2>3. \A a \in Actors \ {u} : tasks'[a].op \notin FolderOps
    BY <2>2, NoFolderOps DEF FolderInv, FolderOps
  <2> QED BY <2>2, <2>3, FolderElsewhere
<1> QED BY <1>1, <1>2, <1>3, <1>4 DEF Next

\* While one goroutine at a time switches, restores, imports and tracks, the folder of
\* a tracked game is empty or holds the save of the branch in play, whatever snapshots,
\* retention and deletions run meanwhile, and after a switch that failed or died
\* half-way.
THEOREM FolderMatchesBranch ==
    ASSUME NEW u \in Actors, FolderHasOneHand(u)
    PROVE  Spec => []SaveMatchesBranch
<1>1. Init => FolderInv(u)
  BY NoFolderOps DEF Init, FolderInv, FolderOps
<1>2. FolderInv(u) => SaveMatchesBranch
  BY DEF FolderInv, SaveMatchesBranch
<1>3. Typed /\ FolderInv(u) /\ [Next]_vars => FolderInv(u)'
  BY FolderInvNext
<1> QED BY <1>1, <1>2, <1>3, HistoryTypeCorrect, PTL DEF Spec
-----------------------------------------------------------------------------
(* Branches made with a copy: proof                                        *)

Copying == {"zip", "claim", "name", "insert"}
Seeds(t) == t.op = "branch" /\ t.step \in Copying
SeedsOn(t, b) == Seeds(t) /\ t.target = b
Drops(t, b) == t.step = "drop" /\ t.target = b

\* Timing: the id a snapshot is about to get is not on a list of snapshots that somebody
\* is deleting.  It would be that of a snapshot made and gone since the id was looked for.
ClaimsAreNotDoomed ==
    \A a, c \in Actors : tasks[a].step \in {"insert", "register"} /\ tasks[a].id \in tasks[c].doomed =>
        Recorded(tasks[a].id)

RowsOnBranches == \A i \in Ids : Recorded(i) => tracked /\ rows[i].branch \in branches

DoomedAreListed == \A a \in Actors : tasks[a].step \notin {"prune", "drop"} => tasks[a].doomed = {}

SeedsElsewhere(u) == Seeds(tasks[u]) => tasks[u].target # active /\ tasks[u].onto = tasks[u].target

DropsItsOwn(u) ==
    tasks[u].step = "drop" =>
        \A i \in tasks[u].doomed : Recorded(i) => rows[i].branch = tasks[u].target

\* Retention deletes a snapshot only while a newer one of its kind is on the branch.
HasNewer(i) == \E j \in Ids : j > i /\ rows[j] = rows[i]

NewestSpared(u) ==
    \A c \in Actors : \A i \in tasks[c].doomed :
        Recorded(i) /\ rows[i].branch \in seeded /\ ~Drops(tasks[u], rows[i].branch) => HasNewer(i)

SeededOrWorking(u) ==
    \A b \in seeded : OnBranch(b) # {} \/ SeedsOn(tasks[u], b) \/ Drops(tasks[u], b)

SeedInv(u) ==
    /\ RowsOnBranches
    /\ DoomedAreListed
    /\ SeedsElsewhere(u)
    /\ DropsItsOwn(u)
    /\ NewestSpared(u)
    /\ SeededOrWorking(u)

\* Rows go one by one, each with a newer one of its kind left or its branch being dropped.
LEMMA SeedRowsGo ==
    ASSUME Typed, NEW u \in Actors, SeedInv(u),
           RowsOnBranches', DoomedAreListed', SeedsElsewhere(u)', DropsItsOwn(u)',
           seeded' \subseteq seeded,
           \A i \in Ids : rows'[i] \in {rows[i], NoRow},
           \A c \in Actors : \A i \in tasks'[c].doomed :
               i \in tasks[c].doomed
               \/ (Recorded(i) /\ rows[i].branch \in seeded' /\ ~Drops(tasks'[u], rows[i].branch) => HasNewer(i)),
           \A i \in Ids : Recorded(i) /\ rows[i].branch \in seeded' /\ ~Drops(tasks'[u], rows[i].branch) =>
               \E j \in Ids : j >= i /\ rows'[j] = rows[i],
           \A b \in seeded' : (SeedsOn(tasks[u], b) => SeedsOn(tasks'[u], b) \/ Drops(tasks'[u], b))
                              /\ (Drops(tasks[u], b) => Drops(tasks'[u], b)),
           \A c \in Actors : tasks'[c].doomed \subseteq Ids
    PROVE  SeedInv(u)'
<1>1. NewestSpared(u)'
  <2> SUFFICES ASSUME NEW c \in Actors, NEW i \in tasks'[c].doomed, rows'[i] # NoRow,
                      rows'[i].branch \in seeded', ~Drops(tasks'[u], rows'[i].branch)
               PROVE  \E j \in Ids : j > i /\ rows'[j] = rows'[i]
    BY DEF NewestSpared, Recorded, HasNewer, Drops
  <2>1. i \in Ids /\ rows'[i] = rows[i] /\ Recorded(i)
    BY DEF Recorded
  <2>2. HasNewer(i)
    <3>1. ~Drops(tasks[u], rows[i].branch)
      BY <2>1
    <3> QED BY <2>1, <3>1 DEF SeedInv, NewestSpared
  <2>3. PICK j \in Ids : j > i /\ rows[j] = rows[i]
    BY <2>2 DEF HasNewer
  <2>4. PICK k \in Ids : k >= j /\ rows'[k] = rows[j]
    BY <2>1, <2>3 DEF Recorded
  <2>5. k > i
    BY <2>1, <2>3, <2>4 DEF Ids
  <2> QED BY <2>1, <2>3, <2>4, <2>5
<1>2. SeededOrWorking(u)'
  <2> SUFFICES ASSUME NEW b \in seeded', ~SeedsOn(tasks'[u], b), ~Drops(tasks'[u], b)
               PROVE  \E i \in Ids : rows'[i].branch = b
    BY DEF SeededOrWorking, OnBranch, SeedsOn, Drops, Seeds
  <2>1. OnBranch(b) # {}
    BY DEF SeedInv, SeededOrWorking
  <2>2. PICK i \in Ids : rows[i].branch = b
    BY <2>1 DEF OnBranch
  <2>3. Recorded(i)
    <3>1. b \in Branches
      BY DEF Typed, TypeOK
    <3> QED BY <2>2, <3>1, RowFacts DEF OnBranch
  <2> QED BY <2>2, <2>3
<1> QED BY <1>1, <1>2 DEF SeedInv

\* A goroutine goes on with its list, its copy or its deletion, or has none of these.
Follows(t, v) ==
    /\ v.doomed \subseteq t.doomed
    /\ v.step \notin {"prune", "drop"} => v.doomed = {}
    /\ Seeds(v) <=> Seeds(t)
    /\ v.step = "drop" <=> t.step = "drop"
    /\ Seeds(t) \/ t.step = "drop" => v.target = t.target /\ v.onto = t.onto

LEMMA SeedFollows ==
    ASSUME Typed, NEW u \in Actors, SeedInv(u), NEW a \in Actors, NEW v, Go(a, v), Follows(tasks[a], v),
           RowsOnBranches', seeded' \subseteq seeded,
           \A i \in Ids : rows'[i] \in {rows[i], NoRow},
           Seeds(tasks[u]) => active' = active,
           \A i \in Ids : Recorded(i) /\ rows[i].branch \in seeded' /\ ~Drops(tasks[u], rows[i].branch) =>
               \E j \in Ids : j >= i /\ rows'[j] = rows[i]
    PROVE  SeedInv(u)'
<1>1. tasks'[a] = v /\ \A c \in Actors \ {a} : tasks'[c] = tasks[c]
  BY GoTasks
<1>2. \A c \in Actors : tasks[c].doomed \subseteq Ids
  BY TaskIsProper DEF Proper, Task
<1>3. \A c \in Actors : tasks'[c].doomed \subseteq tasks[c].doomed
  BY <1>1 DEF Follows
<1>4. DoomedAreListed'
  BY <1>1 DEF SeedInv, DoomedAreListed, Follows
<1>5. /\ Seeds(tasks'[u]) <=> Seeds(tasks[u])
      /\ tasks'[u].step = "drop" <=> tasks[u].step = "drop"
      /\ Seeds(tasks[u]) \/ tasks[u].step = "drop" =>
             tasks'[u].target = tasks[u].target /\ tasks'[u].onto = tasks[u].onto
  BY <1>1 DEF Follows
<1>6. SeedsElsewhere(u)'
  <2>1. Seeds(tasks'[u]) => tasks'[u].target # active' /\ tasks'[u].onto = tasks'[u].target
    BY <1>5 DEF SeedInv, SeedsElsewhere
  <2> QED BY <2>1 DEF SeedsElsewhere, Seeds
<1>7. DropsItsOwn(u)'
  <2> SUFFICES ASSUME tasks'[u].step = "drop", NEW i \in tasks'[u].doomed, rows'[i] # NoRow
               PROVE  rows'[i].branch = tasks'[u].target
    BY DEF DropsItsOwn, Recorded
  <2>1. i \in Ids /\ i \in tasks[u].doomed
    BY <1>2, <1>3
  <2>2. rows'[i] = rows[i] /\ Recorded(i)
    BY <2>1 DEF Recorded
  <2> QED BY <1>5, <2>1, <2>2 DEF SeedInv, DropsItsOwn
<1>8. \A b : /\ SeedsOn(tasks[u], b) => SeedsOn(tasks'[u], b)
             /\ Drops(tasks[u], b) <=> Drops(tasks'[u], b)
  BY <1>5 DEF SeedsOn, Drops
<1>9. \A c \in Actors : tasks'[c].doomed \subseteq Ids
  BY <1>2, <1>3
<1> QED BY <1>3, <1>4, <1>6, <1>7, <1>8, <1>9, SeedRowsGo

\* The common case: the rows stay.
LEMMA SeedQuiet ==
    ASSUME Typed, NEW u \in Actors, SeedInv(u), NEW a \in Actors, NEW v, Go(a, v), Follows(tasks[a], v),
           UNCHANGED <<rows, seeded>>,
           (UNCHANGED tracked /\ branches \subseteq branches') \/ ~tracked,
           Seeds(tasks[u]) => active' = active
    PROVE  SeedInv(u)'
<1>1. RowsOnBranches'
  BY DEF SeedInv, RowsOnBranches, Recorded
<1>2. \A i \in Ids : i >= i /\ rows'[i] = rows[i]
  BY DEF Ids
<1> QED BY <1>1, <1>2, SeedFollows

\* What neither copies nor deletes, and has no list.
Plain(t) == t.doomed = {} /\ ~Seeds(t) /\ t.step # "drop"

LEMMA PlainFollows == \A t, v : Plain(t) /\ Plain(v) => Follows(t, v)
  BY DEF Plain, Follows

LEMMA NoTaskPlain == Plain(NoTask) /\ Plain(Initial)
  BY DEF Plain, Seeds, NoTask, Initial

LEMMA RestoringPlain ==
    ASSUME NEW i \in Ids
    PROVE  Plain(Restoring(NoTask, i))
<1> DEFINE s == [NoTask EXCEPT !.op = "restore", !.step = "open", !.old = i, !.target = rows[i].branch]
<1>1. Plain(s)
  BY DEF NoTask, Plain, Seeds
<1>2. Plain([Copied(s) EXCEPT !.step = "zip", !.onto = active, !.safe = ArchiveOf(i) # Missing])
  BY DEF Copied, NoTask, Plain, Seeds
<1> QED BY <1>1, <1>2 DEF Restoring

LEMMA AfterSnapshotPlain ==
    ASSUME NEW t, Proper(t), t.doomed = {}
    PROVE  Plain(AfterSnapshot(t))
<1>1. CASE t.op = "restore"
  BY <1>1 DEF AfterSnapshot, Proper, Task, Plain, Seeds
<1>2. CASE t.op = "switch"
  BY <1>2 DEF AfterSnapshot, Proper, Task, Plain, Seeds
<1>3. CASE t.op \notin {"restore", "switch"}
  BY <1>3, NoTaskPlain DEF AfterSnapshot
<1> QED BY <1>1, <1>2, <1>3

LEMMA PruningPlain ==
    ASSUME NEW t, Proper(t), t.doomed = {}
    PROVE  Plain(Pruning(t))
<1> DEFINE v == [t EXCEPT !.step = "prune", !.listed = branches, !.id = 0]
<1>1. v.step = "prune" /\ v.doomed = {}
  BY DEF Proper, Task
<1>2. Prunes => Pruning(t) = v
  BY DEF Pruning
<1>3. ~Prunes => Pruning(t) = AfterSnapshot(t)
  BY DEF Pruning
<1> HIDE DEF v
<1>4. Plain(v)
  BY <1>1 DEF Plain, Seeds, Copying
<1> QED BY <1>2, <1>3, <1>4, AfterSnapshotPlain

\* A snapshot that failed: the branch it was to seed is dropped with what is on it.
LEMMA AfterFailurePlain ==
    ASSUME NEW t, Proper(t), t.doomed = {}
    PROVE  \/ Plain(AfterFailure(t)) /\ ~(t.op = "branch" /\ t.target # active)
           \/ t.op = "branch" /\ t.target # active /\ AfterFailure(t) = Deleting(t, t.target)
<1>1. CASE t.op = "restore"
  BY <1>1 DEF AfterFailure, Proper, Task, Plain, Seeds
<1>2. CASE t.op = "branch" /\ t.target # active
  BY <1>2 DEF AfterFailure
<1>3. CASE t.op # "restore" /\ ~(t.op = "branch" /\ t.target # active)
  BY <1>3, NoTaskPlain DEF AfterFailure
<1> QED BY <1>1, <1>2, <1>3

\* What has neither a list nor a copy or deletion under way is plain.
LEMMA OthersPlain ==
    ASSUME Typed, NEW u \in Actors, SeedInv(u), NEW a \in Actors,
           tasks[a].step \notin Copying \cup {"prune", "drop"}
    PROVE  Plain(tasks[a])
  BY DEF SeedInv, DoomedAreListed, Plain, Seeds

\* Steps that leave the rows alone, and the lists of others.
LEMMA SnapshotFollows ==
    ASSUME Typed, NEW u \in Actors, SeedInv(u), NEW a \in Actors, Zip(a) \/ Claim(a) \/ WalkOn(a) \/ Name(a)
    PROVE  \E v : Go(a, v) /\ Follows(tasks[a], v)
<1> DEFINE t == tasks[a]
<1>1. t \in Task /\ t.step \in Copying
  BY TaskIsProper DEF Proper, Zip, Claim, WalkOn, Name, At, Copying
<1>2. t.doomed = {}
  BY <1>1 DEF SeedInv, DoomedAreListed, Copying
<1> HIDE DEF t
<1> DEFINE v(s, c, i) == [t EXCEPT !.step = s, !.staged = c, !.id = i]
<1>3. ASSUME NEW s \in Copying, NEW c, NEW i PROVE Follows(t, v(s, c, i))
  <2>1. /\ v(s, c, i).op = t.op /\ v(s, c, i).step = s /\ v(s, c, i).target = t.target
        /\ v(s, c, i).onto = t.onto /\ v(s, c, i).doomed = t.doomed
    BY <1>1 DEF Task
  <2> HIDE DEF v
  <2> QED BY <1>1, <1>2, <2>1 DEF Follows, Seeds, Copying
<1>4. Zip(a) => Go(a, v("claim", save, t.id))
  BY <1>1 DEF Zip, Task, t
<1>5. Claim(a) => Go(a, v("name", t.staged, clock))
  BY <1>1 DEF Claim, Task, t
<1>6. Name(a) => Go(a, v("insert", t.staged, t.id))
  BY <1>1 DEF Name, Task, t
<1>7. WalkOn(a) => Go(a, v("name", t.staged, t.id + 1))
  BY <1>1 DEF WalkOn, At, Task, t
<1> HIDE DEF v
<1> QED BY <1>3, <1>4, <1>5, <1>6, <1>7 DEF Copying, t

LEMMA FolderFollows ==
    ASSUME Typed, NEW u \in Actors, SeedInv(u), NEW a \in Actors,
           \/ Open(a) \/ Fill(a) \/ FailFill(a) \/ Clear(a) \/ Flip(a) \/ Latest(a)
           \/ Place(a) \/ Register(a) \/ RestoreImported(a) \/ CopyAside(a) \/ FailCopyAside(a) \/ TrackImported(a)
    PROVE  \E v : Go(a, v) /\ Plain(v) /\ Plain(tasks[a])
<1> DEFINE t == tasks[a]
<1>1. Proper(t) /\ t \in Task
  BY TaskIsProper DEF Proper
<1>2. Plain(t)
  BY OthersPlain DEF Open, Fill, FailFill, Clear, Flip, Latest, Place, Register, RestoreImported, CopyAside,
     FailCopyAside, TrackImported, At, Copying
<1> HIDE DEF t
<1>3. CASE Open(a) \/ Latest(a) \/ FailFill(a)
  <2> DEFINE v(s) == [t EXCEPT !.step = "fill", !.source = s]
             w(s) == [t EXCEPT !.step = "open", !.old = s]
  <2>1. \A s : Plain(v(s)) /\ Plain(w(s))
    BY <1>1, <1>2 DEF Task, Plain, Seeds, Copying
  <2>2. Go(a, NoTask) \/ (\E s : Go(a, v(s)) \/ Go(a, w(s)))
    BY <1>3 DEF Open, Latest, FailFill, Finish, t
  <2> HIDE DEF v, w
  <2> QED BY <1>2, <2>1, <2>2, NoTaskPlain DEF t
<1>4. CASE Fill(a) \/ Clear(a) \/ Flip(a) \/ CopyAside(a) \/ FailCopyAside(a) \/ Place(a)
  <2> DEFINE v(s) == [t EXCEPT !.step = s]
  <2>1. \A s \in {"enter", "flip", "latest", "open", "register"} : Plain(v(s))
    BY <1>1, <1>2 DEF Task, Plain, Seeds, Copying
  <2>2. Go(a, NoTask) \/ (\E s \in {"enter", "flip", "latest", "open", "register"} : Go(a, v(s)))
    BY <1>4 DEF Fill, Clear, Flip, CopyAside, FailCopyAside, Place, Finish, t
  <2> HIDE DEF v
  <2> QED BY <1>2, <2>1, <2>2, NoTaskPlain DEF t
<1>5. CASE Register(a)
  <2> DEFINE v == [NoTask EXCEPT !.op = "import", !.step = "enter", !.old = t.id]
  <2>1. Plain(v)
    BY DEF NoTask, Plain, Seeds
  <2>2. Go(a, v) \/ Go(a, NoTask)
    BY <1>5 DEF Register, Finish, t
  <2> QED BY <1>2, <2>1, <2>2, NoTaskPlain DEF t
<1>6. CASE RestoreImported(a)
  <2>1. t.old \in Ids
    BY <1>1, <1>6 DEF Proper, Sensible, RestoreImported, At, t
  <2>2. Go(a, NoTask) \/ Go(a, Restoring(NoTask, t.old))
    BY <1>6 DEF RestoreImported, t
  <2> QED BY <1>2, <2>1, <2>2, NoTaskPlain, RestoringPlain DEF t
<1>7. CASE TrackImported(a)
  BY <1>2, <1>7, NoTaskPlain DEF TrackImported, Finish, t
<1> QED BY <1>3, <1>4, <1>5, <1>6, <1>7

LEMMA OnlyOneDrops ==
    ASSUME Typed, NEW u \in Actors, BranchInv(u), NEW a \in Actors
    PROVE  tasks[a].step \in {"drop", "sweep"} \/ Seeds(tasks[a]) => a = u /\ tracked
  BY TaskIsProper DEF Proper, Sensible, BranchInv, Seeds

\* A deletion begins, of a branch and the snapshots on it.
LEMMA SeedDeleting ==
    ASSUME Typed, NEW u \in Actors, SeedInv(u), NEW t \in Task, NEW b \in Branches, Go(u, Deleting(t, b)),
           Plain(tasks[u]) \/ SeedsOn(tasks[u], b),
           UNCHANGED <<rows, seeded, tracked, active, branches>>
    PROVE  SeedInv(u)'
<1> DEFINE v == Deleting(t, b)
           on == OnBranch(b)
<1>1. on \subseteq Ids
  BY OnBranchType
<1>2. v.step = "drop" /\ v.target = b /\ v.doomed = on
  <2> HIDE DEF on
  <2> QED BY DEF Deleting, Task, on
<1>3. tasks'[u] = v /\ \A c \in Actors \ {u} : tasks'[c] = tasks[c]
  BY GoTasks
<1> HIDE DEF v
<1>4. Drops(tasks'[u], b) /\ ~Seeds(tasks'[u])
  BY <1>2, <1>3 DEF Drops, Seeds, Copying
<1>5. DoomedAreListed'
  BY <1>2, <1>3 DEF SeedInv, DoomedAreListed
<1>6. SeedsElsewhere(u)'
  BY <1>4 DEF SeedsElsewhere, Seeds
<1>7. \A i \in on : Recorded(i) => rows[i].branch = b
  BY DEF OnBranch
<1>8. DropsItsOwn(u)'
  BY <1>2, <1>3, <1>7 DEF DropsItsOwn, Recorded
<1>9. RowsOnBranches'
  BY DEF SeedInv, RowsOnBranches, Recorded
<1>10. \A c \in Actors : \A i \in tasks'[c].doomed :
           i \in tasks[c].doomed
           \/ (Recorded(i) /\ rows[i].branch \in seeded' /\ ~Drops(tasks'[u], rows[i].branch) => HasNewer(i))
  BY <1>2, <1>3, <1>4, <1>7
<1>11. \A d : (SeedsOn(tasks[u], d) => SeedsOn(tasks'[u], d) \/ Drops(tasks'[u], d))
              /\ (Drops(tasks[u], d) => Drops(tasks'[u], d))
  BY <1>4 DEF SeedsOn, Drops, Plain, Seeds, Copying
<1>12. \A c \in Actors : tasks[c].doomed \subseteq Ids
  BY TaskIsProper DEF Proper, Task
<1>13. \A c \in Actors : tasks'[c].doomed \subseteq Ids
  BY <1>1, <1>2, <1>3, <1>12
<1>14. \A i \in Ids : i >= i /\ rows'[i] = rows[i]
  BY DEF Ids
<1> QED BY <1>5, <1>6, <1>8, <1>9, <1>10, <1>11, <1>13, <1>14, SeedRowsGo

\* Retention spares the newest of a kind: what it dooms has a newer one.
LEMMA BeyondHasNewer ==
    ASSUME Typed, NEW b \in Branches, NEW i \in SnapshotsBeyondRetentionByKind(b)
    PROVE  i \in Ids /\ HasNewer(i)
<1>1. i \in Ids /\ rows[i].branch = b /\ Limit(rows[i].auto) > 0
      /\ Cardinality(NewerOfKind(i)) >= Limit(rows[i].auto)
  BY DEF SnapshotsBeyondRetentionByKind, OnBranch
<1>2. Limit(rows[i].auto) \in Nat
  BY HistoryAssumption DEF Limit
<1>3. NewerOfKind(i) # {}
  <2>1. SUFFICES ASSUME NewerOfKind(i) = {} PROVE FALSE
    OBVIOUS
  <2>2. Cardinality(NewerOfKind(i)) = 0
    BY <2>1, FS_EmptySet
  <2> QED BY <1>1, <1>2, <2>2
<1>4. PICK j \in Ids : rows[j].branch = rows[i].branch /\ rows[j].auto = rows[i].auto /\ j > i
  BY <1>3 DEF NewerOfKind, OnBranch
<1>5. rows[j] = rows[i]
  BY <1>1, <1>4 DEF Typed, TypeOK, Row
<1> QED BY <1>1, <1>4, <1>5 DEF HasNewer

LEMMA SeedPruneBranch ==
    ASSUME Typed, NEW u \in Actors, SeedInv(u), NEW a \in Actors, PruneBranch(a)
    PROVE  SeedInv(u)'
<1> DEFINE t == tasks[a]
<1>1. t \in Task /\ t.step = "prune" /\ UNCHANGED <<rows, seeded, tracked, active, branches>>
  BY TaskIsProper DEF Proper, PruneBranch, At, game, history
<1>2. PICK b \in t.listed :
           Go(a, [t EXCEPT !.listed = @ \ {b}, !.doomed = SnapshotsBeyondRetentionByKind(b)])
  BY DEF PruneBranch
<1>3. b \in Branches
  BY <1>1, <1>2 DEF Task
<1> DEFINE d == SnapshotsBeyondRetentionByKind(b)
           v == [t EXCEPT !.listed = @ \ {b}, !.doomed = d]
<1>4. \A i \in d : i \in Ids /\ HasNewer(i)
  BY <1>3, BeyondHasNewer
<1> HIDE DEF d
<1>5. v.step = "prune" /\ v.op = t.op /\ v.doomed = d /\ v.target = t.target
  BY <1>1 DEF Task
<1>6. Go(a, v)
  BY <1>2 DEF d
<1> HIDE DEF v
<1>7. tasks'[a] = v /\ \A c \in Actors \ {a} : tasks'[c] = tasks[c]
  BY <1>6, GoTasks
<1>8. (a = u => ~Seeds(tasks'[u]) /\ tasks'[u].step # "drop" /\ ~Seeds(tasks[u]) /\ tasks[u].step # "drop")
      /\ (a # u => tasks'[u] = tasks[u])
  BY <1>1, <1>5, <1>7 DEF Seeds, Copying
<1> HIDE DEF t
<1>9. DoomedAreListed'
  BY <1>5, <1>7 DEF SeedInv, DoomedAreListed
<1>10. SeedsElsewhere(u)' /\ DropsItsOwn(u)'
  <2>1. CASE a = u
    BY <1>8, <2>1 DEF SeedsElsewhere, DropsItsOwn, Seeds
  <2>2. CASE a # u
    BY <1>1, <1>8, <2>2 DEF SeedInv, SeedsElsewhere, DropsItsOwn, Seeds, Recorded
  <2> QED BY <2>1, <2>2
<1>11. RowsOnBranches'
  BY <1>1 DEF SeedInv, RowsOnBranches, Recorded
<1>12. \A c \in Actors : \A i \in tasks'[c].doomed : i \in tasks[c].doomed \/ HasNewer(i)
  BY <1>4, <1>5, <1>7
<1>13. \A e : /\ SeedsOn(tasks[u], e) <=> SeedsOn(tasks'[u], e)
              /\ Drops(tasks[u], e) <=> Drops(tasks'[u], e)
  BY <1>8 DEF SeedsOn, Drops
<1>14. \A c \in Actors : tasks[c].doomed \subseteq Ids
  BY TaskIsProper DEF Proper, Task
<1>15. \A c \in Actors : tasks'[c].doomed \subseteq Ids
  BY <1>4, <1>5, <1>7, <1>14
<1>16. \A i \in Ids : i >= i /\ rows'[i] = rows[i]
  BY <1>1 DEF Ids
<1> QED BY <1>1, <1>9, <1>10, <1>11, <1>12, <1>13, <1>15, <1>16, SeedRowsGo

\* One snapshot of a list goes, by retention or with its branch.
LEMMA SeedForgets ==
    ASSUME Typed, NEW u \in Actors, BranchInv(u), SeedInv(u), NEW a \in Actors,
           PruneSnapshot(a) \/ DropSnapshot(a)
    PROVE  SeedInv(u)'
<1> DEFINE t == tasks[a]
<1>1. PICK i \in t.doomed : Forget(a, i)
  BY DEF PruneSnapshot, DropSnapshot
<1>2. t \in Task /\ t.step \in {"prune", "drop"} /\ UNCHANGED <<seeded, tracked, active, branches>> /\ i \in Ids
  BY TaskIsProper DEF Proper, Task, PruneSnapshot, DropSnapshot, At, history
<1> DEFINE v == [t EXCEPT !.doomed = @ \ {i}]
<1>3. v.step = t.step /\ v.op = t.op /\ v.doomed = t.doomed \ {i} /\ v.target = t.target /\ v.onto = t.onto
  BY <1>2 DEF Task
<1>4. Go(a, v)
  BY <1>1 DEF Forget
<1> HIDE DEF v
<1>5. Follows(t, v)
  BY <1>2, <1>3 DEF Follows, Seeds, Copying
<1>6. \A j \in Ids : rows'[j] = IF j = i THEN NoRow ELSE rows[j]
  BY <1>1, <1>2, ForgetSpares
<1>7. RowsOnBranches'
  BY <1>2, <1>6 DEF SeedInv, RowsOnBranches, Recorded
<1>8. ASSUME NEW j \in Ids, Recorded(j), rows[j].branch \in seeded', ~Drops(tasks[u], rows[j].branch)
      PROVE  \E k \in Ids : k >= j /\ rows'[k] = rows[j]
  <2>1. CASE j # i
    BY <1>6, <2>1 DEF Ids
  <2>2. CASE j = i
    <3>1. HasNewer(i)
      BY <1>2, <1>8, <2>2 DEF SeedInv, NewestSpared
    <3>2. PICK k \in Ids : k > i /\ rows[k] = rows[i]
      BY <3>1 DEF HasNewer
    <3> QED BY <1>2, <1>6, <2>2, <3>2 DEF Ids
  <2> QED BY <2>1, <2>2
<1> QED BY <1>2, <1>4, <1>5, <1>6, <1>7, <1>8, SeedFollows

LEMMA SeedDropBranch ==
    ASSUME Typed, NEW u \in Actors, BranchInv(u), SeedInv(u), NEW a \in Actors, DropBranch(a)
    PROVE  SeedInv(u)'
<1> DEFINE t == tasks[a]
<1>1. /\ t \in Task /\ t.step = "drop" /\ t.doomed = {} /\ UNCHANGED <<tracked, active>>
      /\ branches' = branches \ {t.target} /\ seeded' = seeded \ {t.target}
      /\ rows' = [i \in Ids |-> IF rows[i].branch = t.target THEN NoRow ELSE rows[i]]
  BY TaskIsProper DEF Proper, DropBranch, At
<1>2. a = u
  BY <1>1, OnlyOneDrops
<1> DEFINE w == [t EXCEPT !.step = "sweep", !.target = NoBranch]
<1>3. PICK v : Go(a, v) /\ Plain(v)
  <2>1. Plain(w)
    BY <1>1 DEF Task, Plain, Seeds, Copying
  <2>2. Go(a, w) \/ Go(a, NoTask)
    BY DEF DropBranch
  <2> HIDE DEF w
  <2> QED BY <2>1, <2>2, NoTaskPlain
<1>4. tasks'[a] = v /\ \A c \in Actors \ {a} : tasks'[c] = tasks[c]
  BY <1>3, GoTasks
<1>5. \A i \in Ids : rows'[i] = IF rows[i].branch = t.target THEN NoRow ELSE rows[i]
  BY <1>1
<1>6. RowsOnBranches'
  BY <1>1, <1>5 DEF SeedInv, RowsOnBranches, Recorded
<1>7. DoomedAreListed' /\ SeedsElsewhere(u)' /\ DropsItsOwn(u)'
  BY <1>2, <1>3, <1>4 DEF SeedInv, DoomedAreListed, SeedsElsewhere, DropsItsOwn, Plain, Seeds
<1>8. \A c \in Actors : tasks'[c].doomed \subseteq tasks[c].doomed /\ tasks[c].doomed \subseteq Ids
  BY <1>3, <1>4, TaskIsProper DEF Plain, Proper, Task
<1>9. \A b \in seeded' : ~SeedsOn(tasks[u], b) /\ ~Drops(tasks[u], b)
  BY <1>1, <1>2 DEF SeedsOn, Seeds, Copying, Drops
<1>10. \A i \in Ids : rows[i].branch \in seeded' => i >= i /\ rows'[i] = rows[i]
  BY <1>1, <1>5 DEF Ids
<1> QED BY <1>1, <1>5, <1>6, <1>7, <1>8, <1>9, <1>10, SeedRowsGo

LEMMA SeedRetention ==
    ASSUME Typed, NEW u \in Actors, BranchInv(u), SeedInv(u), NEW a \in Actors, EndPrune(a) \/ Sweep(a)
    PROVE  SeedInv(u)'
<1> DEFINE t == tasks[a]
<1>1. /\ Proper(t) /\ t \in Task /\ t.doomed = {} /\ t.step \in {"prune", "sweep"}
      /\ UNCHANGED <<rows, seeded, tracked, active, branches>>
  BY TaskIsProper DEF Proper, SeedInv, DoomedAreListed, EndPrune, Sweep, At, game, history
<1>2. Plain(t)
  BY <1>1 DEF Plain, Seeds, Copying
<1>3. ASSUME NEW v, Go(a, v), Plain(v) PROVE SeedInv(u)'
  BY <1>1, <1>2, <1>3, PlainFollows, SeedQuiet
<1>4. CASE EndPrune(a)
  <2> DEFINE v == [t EXCEPT !.step = "sweep", !.listed = branches \cap Leftovers]
  <2>1. Plain(v)
    BY <1>1 DEF Task, Plain, Seeds, Copying
  <2>2. Go(a, v) \/ Go(a, AfterSnapshot(t))
    BY <1>4 DEF EndPrune
  <2> HIDE DEF v
  <2> QED BY <1>1, <1>3, <2>1, <2>2, AfterSnapshotPlain
<1>5. CASE Sweep(a)
  <2>1. CASE t.listed = {}
    BY <1>3, <1>5, <2>1, NoTaskPlain DEF Sweep, Finish
  <2>2. CASE t.listed # {}
    <3>1. PICK b \in t.listed :
               Go(a, IF Spared(b) THEN [t EXCEPT !.listed = @ \ {b}]
                     ELSE Deleting([t EXCEPT !.listed = @ \ {b}], b))
      BY <1>5, <2>2 DEF Sweep
    <3> DEFINE v == [t EXCEPT !.listed = @ \ {b}]
    <3>2. v \in Task /\ Plain(v) /\ b \in Branches
      BY <1>1, <1>2, <3>1 DEF Task, Plain, Seeds
    <3>3. a = u
      BY <1>5, OnlyOneDrops DEF Sweep, At
    <3>4. Go(a, v) \/ Go(a, Deleting(v, b))
      BY <3>1
    <3> HIDE DEF v
    <3> QED BY <1>1, <1>2, <1>3, <3>2, <3>3, <3>4, SeedDeleting
  <2> QED BY <2>1, <2>2
<1> QED BY <1>4, <1>5

LEMMA SeedFailure ==
    ASSUME Typed, NEW u \in Actors, BranchInv(u), SeedInv(u), NEW a \in Actors,
           FailInsert(a) \/ FailSnapshot(a) \/ Collide(a)
    PROVE  SeedInv(u)'
<1> DEFINE t == tasks[a]
<1>1. /\ Proper(t) /\ t \in Task /\ t.step \in Copying /\ t.onto \in Branches
      /\ UNCHANGED <<rows, seeded, tracked, active, branches>>
  BY TaskIsProper DEF Proper, Sensible, Copying, FailInsert, FailSnapshot, Collide, At, game, history
<1>2. t.doomed = {}
  BY <1>1 DEF SeedInv, DoomedAreListed, Copying
<1>3. CASE Go(a, AfterFailure(t))
  <2>1. CASE Plain(AfterFailure(t)) /\ ~(t.op = "branch" /\ t.target # active)
    <3>1. ~Seeds(t)
      BY <2>1, OnlyOneDrops DEF SeedInv, SeedsElsewhere, Seeds
    <3>2. Plain(t)
      BY <1>1, <1>2, <3>1 DEF Plain, Copying
    <3> QED BY <1>1, <1>3, <2>1, <3>2, PlainFollows, SeedQuiet
  <2>2. CASE t.op = "branch" /\ t.target # active /\ AfterFailure(t) = Deleting(t, t.target)
    <3>1. Seeds(t)
      BY <1>1, <2>2 DEF Seeds
    <3>2. a = u
      BY <3>1, OnlyOneDrops
    <3>3. t.target \in Branches /\ SeedsOn(t, t.target)
      BY <1>1, <3>1, <3>2 DEF SeedInv, SeedsElsewhere, SeedsOn
    <3> QED BY <1>1, <1>3, <2>2, <3>2, <3>3, SeedDeleting
  <2> QED BY <1>1, <1>2, <2>1, <2>2, AfterFailurePlain
<1>4. CASE ~Go(a, AfterFailure(t))
  <2> DEFINE v == [t EXCEPT !.step = "name", !.id = @ + 1, !.staged = archives[t.onto][t.id]]
  <2>1. Go(a, v)
    BY <1>4 DEF Collide, FailInsert, FailSnapshot
  <2>2. v.op = t.op /\ v.step = "name" /\ v.target = t.target /\ v.onto = t.onto /\ v.doomed = t.doomed
    BY <1>1 DEF Task
  <2> HIDE DEF v, t
  <2>3. Follows(t, v)
    BY <1>1, <1>2, <2>2 DEF Follows, Seeds, Copying
  <2> QED BY <1>1, <2>1, <2>3, SeedQuiet DEF t
<1> QED BY <1>3, <1>4

\* A row is added, under an id that is on nobody's list.
LEMMA SeedRowComes ==
    ASSUME Typed, NEW u \in Actors, BranchInv(u), SeedInv(u), NEW a \in Actors, NEW v, Go(a, v), Plain(v),
           NEW k \in Ids, ~Recorded(k), \A c \in Actors : k \notin tasks[c].doomed,
           NEW r \in Row, rows' = [rows EXCEPT ![k] = r],
           tracked, r.branch \in branches', branches \subseteq branches',
           UNCHANGED <<seeded, tracked, active>>,
           tasks[a].doomed = {}, tasks[a].step # "drop",
           Seeds(tasks[a]) => r.branch = tasks[a].onto
    PROVE  SeedInv(u)'
<1>1. \A i \in Ids : rows'[i] = IF i = k THEN r ELSE rows[i]
  BY DEF Typed, TypeOK
<1>2. tasks'[a] = v /\ \A c \in Actors \ {a} : tasks'[c] = tasks[c]
  BY GoTasks
<1>3. \A c \in Actors : tasks'[c].doomed \subseteq tasks[c].doomed /\ tasks[c].doomed \subseteq Ids
  BY <1>2, TaskIsProper DEF Plain, Proper, Task
<1>4. RowsOnBranches' /\ DoomedAreListed'
  BY <1>1, <1>2 DEF SeedInv, RowsOnBranches, DoomedAreListed, Recorded, Plain
<1>5. tasks'[u] = tasks[u] \/ (a = u /\ ~Seeds(tasks'[u]) /\ tasks'[u].step # "drop")
  BY <1>2 DEF Plain
<1>6. SeedsElsewhere(u)'
  BY <1>5 DEF SeedInv, SeedsElsewhere, Seeds
<1>7. DropsItsOwn(u)'
  BY <1>1, <1>3, <1>5 DEF SeedInv, DropsItsOwn, Recorded
<1>8. \A b : Drops(tasks[u], b) <=> Drops(tasks'[u], b)
  BY <1>5 DEF Drops
<1>9. NewestSpared(u)'
  <2> SUFFICES ASSUME NEW c \in Actors, NEW i \in tasks'[c].doomed, rows'[i] # NoRow,
                      rows'[i].branch \in seeded, ~Drops(tasks[u], rows'[i].branch)
               PROVE  \E j \in Ids : j > i /\ rows'[j] = rows'[i]
    BY <1>8 DEF NewestSpared, Recorded, HasNewer, Drops
  <2>1. i \in tasks[c].doomed /\ i # k /\ i \in Ids
    BY <1>3
  <2>2. rows'[i] = rows[i] /\ Recorded(i)
    BY <1>1, <2>1 DEF Recorded
  <2>3. HasNewer(i)
    BY <2>1, <2>2 DEF SeedInv, NewestSpared
  <2>4. PICK j \in Ids : j > i /\ rows[j] = rows[i]
    BY <2>3 DEF HasNewer
  <2>5. j # k
    BY <2>2, <2>4 DEF Recorded
  <2> QED BY <1>1, <2>2, <2>4, <2>5
<1>10. SeededOrWorking(u)'
  <2> SUFFICES ASSUME NEW b \in seeded, ~SeedsOn(tasks'[u], b), ~Drops(tasks[u], b)
               PROVE  \E i \in Ids : rows'[i].branch = b
    BY <1>8 DEF SeededOrWorking, OnBranch, SeedsOn, Drops, Seeds
  <2>1. CASE SeedsOn(tasks[u], b)
    <3>1. a = u /\ r.branch = b
      BY <1>5, <2>1 DEF SeedsOn, SeedInv, SeedsElsewhere
    <3> QED BY <1>1, <3>1
  <2>2. CASE ~SeedsOn(tasks[u], b)
    <3>1. OnBranch(b) # {}
      BY <2>2 DEF SeedInv, SeededOrWorking
    <3>2. PICK i \in Ids : rows[i].branch = b
      BY <3>1 DEF OnBranch
    <3>3. Recorded(i)
      <4>1. b \in Branches
        BY DEF Typed, TypeOK
      <4> QED BY <3>2, <4>1, RowFacts DEF OnBranch
    <3>4. i # k
      BY <3>3
    <3> QED BY <1>1, <3>2, <3>4
  <2> QED BY <2>1, <2>2
<1> QED BY <1>4, <1>6, <1>7, <1>9, <1>10 DEF SeedInv

LEMMA SeedInsert ==
    ASSUME Typed, NEW u \in Actors, BranchInv(u), SeedInv(u), ClaimsAreNotDoomed, NEW a \in Actors,
           Insert(a)
    PROVE  SeedInv(u)'
<1> DEFINE t == tasks[a]
<1>1. Proper(t) /\ t \in Task /\ t.step = "insert" /\ t.id \in Ids /\ t.onto \in Branches
  BY TaskIsProper DEF Proper, Sensible, Insert, At
<1>2. t.doomed = {}
  BY <1>1 DEF SeedInv, DoomedAreListed
<1> DEFINE r == [branch |-> t.onto, auto |-> t.auto]
<1>3. /\ ~Recorded(t.id) /\ tracked /\ t.onto \in branches /\ rows' = [rows EXCEPT ![t.id] = r]
      /\ Go(a, Pruning(t)) /\ UNCHANGED <<seeded, tracked, active, branches>>
  BY DEF Insert
<1>4. r \in Row /\ r.branch = t.onto
  BY <1>1 DEF Row, Task
<1>5. Plain(Pruning(t))
  BY <1>1, <1>2, PruningPlain
<1>6. \A c \in Actors : t.id \notin tasks[c].doomed
  BY <1>1, <1>3 DEF ClaimsAreNotDoomed
<1> HIDE DEF r
<1> QED BY <1>1, <1>2, <1>3, <1>4, <1>5, <1>6, SeedRowComes

LEMMA SeedRegister ==
    ASSUME Typed, NEW u \in Actors, BranchInv(u), SeedInv(u), ClaimsAreNotDoomed, NEW a \in Actors,
           Register(a)
    PROVE  SeedInv(u)'
<1> DEFINE t == tasks[a]
<1>1. Proper(t) /\ t \in Task /\ t.step = "register" /\ t.id \in Ids /\ t.onto \in Branches
  BY TaskIsProper DEF Proper, Sensible, Register, At
<1>2. PICK v : Go(a, v) /\ Plain(v) /\ Plain(t)
  BY FolderFollows
<1>3. UNCHANGED <<seeded, tracked, active>>
  BY DEF Register
<1>4. CASE UNCHANGED <<branches, rows>>
  BY <1>2, <1>3, <1>4, PlainFollows, SeedQuiet
<1>5. CASE ~UNCHANGED <<branches, rows>>
  <2> DEFINE r == [branch |-> t.onto, auto |-> TRUE]
  <2>1. /\ ~Recorded(t.id) /\ tracked /\ branches' = branches \cup {t.onto}
        /\ rows' = [rows EXCEPT ![t.id] = r]
    BY <1>5 DEF Register
  <2>2. r \in Row /\ r.branch = t.onto
    BY <1>1 DEF Row
  <2>3. \A c \in Actors : t.id \notin tasks[c].doomed
    BY <1>1, <2>1 DEF ClaimsAreNotDoomed
  <2>4. t.doomed = {} /\ t.step # "drop"
    BY <1>2 DEF Plain
  <2>5. r.branch \in branches' /\ branches \subseteq branches'
    BY <2>1, <2>2
  <2> HIDE DEF r
  <2> QED BY <1>1, <1>2, <1>3, <2>1, <2>2, <2>3, <2>4, <2>5, SeedRowComes
<1> QED BY <1>4, <1>5

LEMMA SeedWork ==
    ASSUME Typed, NEW u \in Actors, BranchInv(u), SeedInv(u), ClaimsAreNotDoomed, NEW a \in Actors,
           Working(a) \/ Failing(a)
    PROVE  SeedInv(u)'
<1>1. CASE Zip(a) \/ Claim(a) \/ WalkOn(a) \/ Name(a)
  <2>1. UNCHANGED <<rows, seeded, tracked, active, branches>>
    BY <1>1 DEF Zip, Claim, WalkOn, Name, game, history
  <2> QED BY <1>1, <2>1, SnapshotFollows, SeedQuiet
<1>2. CASE \/ Open(a) \/ Fill(a) \/ FailFill(a) \/ Clear(a) \/ Flip(a) \/ Latest(a)
           \/ Place(a) \/ RestoreImported(a) \/ CopyAside(a) \/ FailCopyAside(a) \/ TrackImported(a)
  <2>1. PICK v : Go(a, v) /\ Plain(v) /\ Plain(tasks[a])
    BY <1>2, FolderFollows
  <2>2. UNCHANGED <<rows, seeded>>
    BY <1>2 DEF Open, Fill, FailFill, Clear, Flip, Latest, Place, RestoreImported, CopyAside, FailCopyAside,
                TrackImported, game, history
  <2>3. UNCHANGED <<tracked, branches>> \/ ~tracked
    BY <1>2 DEF Open, Fill, FailFill, Clear, Flip, Latest, Place, RestoreImported, CopyAside, FailCopyAside,
                TrackImported, game
  <2>4. Seeds(tasks[u]) => active' = active
    <3> SUFFICES ASSUME Seeds(tasks[u]), active' # active PROVE FALSE
      OBVIOUS
    <3>1. tracked /\ tasks[u].op = "branch"
      BY OnlyOneDrops DEF Seeds
    <3>2. Flip(a)
      BY <1>2, <3>1 DEF Open, Fill, FailFill, Clear, Latest, Place, RestoreImported, CopyAside, FailCopyAside,
                        TrackImported, game
    <3>3. tasks[a].op = "switch"
      BY <3>2, TaskIsProper DEF Proper, Sensible, Flip, At
    <3> QED BY <3>1, <3>3 DEF BranchInv
  <2> QED BY <2>1, <2>2, <2>3, <2>4, PlainFollows, SeedQuiet
<1> QED BY <1>1, <1>2, SeedFailure, SeedInsert, SeedRegister, SeedPruneBranch, SeedForgets, SeedDropBranch,
           SeedRetention
        DEF Working, Failing, RefuseRow, LoseRow

LEMMA SeedBegins ==
    ASSUME Typed, NEW u \in Actors, BranchInv(u), SeedInv(u), NEW a \in Actors, tasks[a] = NoTask,
           NEW v, Go(a, v), Plain(v), UNCHANGED <<rows, seeded>>,
           UNCHANGED <<tracked, active, branches>> \/ ~tracked
    PROVE  SeedInv(u)'
<1>1. Seeds(tasks[u]) => active' = active
  BY OnlyOneDrops
<1> QED BY <1>1, NoTaskPlain, PlainFollows, SeedQuiet

LEMMA SeedBegun ==
    ASSUME Typed, NEW u \in Actors, BranchInv(u), SeedInv(u), NEW a \in Actors,
           \/ \E auto \in BOOLEAN : BeginCreate(a, auto)
           \/ BeginCleanup(a) \/ Track(a)
           \/ \E i \in Ids : BeginRestore(a, i)
           \/ \E b \in Branches : BeginSwitch(a, b)
           \/ \E c \in 2..newest : BeginBring(a, c) \/ \E overwrite \in BOOLEAN : BeginImport(a, c, overwrite)
    PROVE  SeedInv(u)'
<1>1. CASE \E auto \in BOOLEAN : BeginCreate(a, auto)
  <2>1. PICK auto \in BOOLEAN : BeginCreate(a, auto)
    BY <1>1
  <2> DEFINE v == [NoTask EXCEPT !.op = "create", !.step = "zip", !.onto = active, !.auto = auto]
  <2>2. Plain(v)
    BY DEF NoTask, Plain, Seeds
  <2>3. tasks[a] = NoTask /\ Go(a, v) /\ UNCHANGED <<rows, seeded, tracked, active, branches>>
    BY <2>1 DEF BeginCreate, Begin, game, history
  <2> HIDE DEF v
  <2> QED BY <2>2, <2>3, SeedBegins
<1>2. CASE BeginCleanup(a)
  <2> DEFINE v == [NoTask EXCEPT !.op = "cleanup", !.step = "prune", !.listed = IF Prunes THEN branches ELSE {}]
  <2>1. Plain(v)
    BY DEF NoTask, Plain, Seeds
  <2>2. tasks[a] = NoTask /\ Go(a, v) /\ UNCHANGED <<rows, seeded, tracked, active, branches>>
    BY <1>2 DEF BeginCleanup, Begin, game, history
  <2> HIDE DEF v
  <2> QED BY <2>1, <2>2, SeedBegins
<1>3. CASE Track(a)
  <2>1. tasks[a] = NoTask /\ Go(a, Initial) /\ UNCHANGED <<rows, seeded>> /\ ~tracked
    BY <1>3 DEF Track, Begin
  <2> QED BY <2>1, NoTaskPlain, SeedBegins
<1>4. CASE \E i \in Ids : BeginRestore(a, i)
  <2>1. PICK i \in Ids : BeginRestore(a, i)
    BY <1>4
  <2>2. tasks[a] = NoTask /\ Go(a, Restoring(NoTask, i)) /\ UNCHANGED <<rows, seeded, tracked, active, branches>>
    BY <2>1 DEF BeginRestore, Begin, game, history
  <2> QED BY <2>2, RestoringPlain, SeedBegins
<1>5. CASE \E b \in Branches : BeginSwitch(a, b)
  <2>1. PICK b \in Branches : BeginSwitch(a, b)
    BY <1>5
  <2> DEFINE v == [NoTask EXCEPT !.op = "switch", !.target = b, !.onto = active,
                                 !.step = IF save = Empty THEN "clear" ELSE "zip"]
  <2>2. Plain(v)
    BY DEF NoTask, Plain, Seeds
  <2>3. tasks[a] = NoTask /\ Go(a, v) /\ UNCHANGED <<rows, seeded, tracked, active, branches>>
    BY <2>1 DEF BeginSwitch, Begin, game, history
  <2> HIDE DEF v
  <2> QED BY <2>2, <2>3, SeedBegins
<1>6. CASE \E c \in 2..newest : BeginBring(a, c)
  <2>1. PICK c \in 2..newest : BeginBring(a, c)
    BY <1>6
  <2> DEFINE v == [NoTask EXCEPT !.op = "track", !.source = c, !.step = IF save = Empty THEN "open" ELSE "aside"]
  <2>2. Plain(v)
    BY DEF NoTask, Plain, Seeds
  <2>3. tasks[a] = NoTask /\ Go(a, v) /\ UNCHANGED <<rows, seeded, tracked, active, branches>>
    BY <2>1 DEF BeginBring, Begin, game, history
  <2> HIDE DEF v
  <2> QED BY <2>2, <2>3, SeedBegins
<1>7. CASE \E c \in 2..newest, overwrite \in BOOLEAN : BeginImport(a, c, overwrite)
  <2>1. PICK c \in 2..newest, overwrite \in BOOLEAN : BeginImport(a, c, overwrite)
    BY <1>7
  <2> DEFINE v == [NoTask EXCEPT !.op = "import", !.step = "place", !.onto = active, !.id = clock,
                                 !.staged = c, !.safe = overwrite]
  <2>2. Plain(v)
    BY DEF NoTask, Plain, Seeds
  <2>3. tasks[a] = NoTask /\ Go(a, v) /\ UNCHANGED <<rows, seeded, tracked, active, branches>>
    BY <2>1 DEF BeginImport, Begin, game, history
  <2> HIDE DEF v
  <2> QED BY <2>2, <2>3, SeedBegins
<1> QED BY <1>1, <1>2, <1>3, <1>4, <1>5, <1>6, <1>7

\* A branch is made, with a copy or empty: nothing is on it yet.
LEMMA SeedMade ==
    ASSUME Typed, NEW u \in Actors, BranchesHaveOneHand(u), BranchInv(u), SeedInv(u), NEW a \in Actors,
           NEW b \in Branches, NEW copy \in BOOLEAN, BeginBranch(a, b, copy)
    PROVE  SeedInv(u)'
<1>1. /\ a = u /\ tasks[u] = NoTask /\ tracked /\ b \notin branches /\ branches' = branches \cup {b}
      /\ UNCHANGED <<tracked, active, rows>>
  BY DEF BeginBranch, Begin, BranchesHaveOneHand
<1>2. b # active
  BY <1>1 DEF BranchInv, ActiveBranchExists
<1>3. \A i \in Ids : Recorded(i) => rows[i].branch # b
  BY <1>1 DEF SeedInv, RowsOnBranches
<1>4. RowsOnBranches'
  BY <1>1 DEF SeedInv, RowsOnBranches, Recorded
<1>5. Plain(tasks[u])
  BY <1>1, NoTaskPlain
<1>6. CASE UNCHANGED <<tasks, seeded>>
  BY <1>1, <1>4, <1>6
     DEF SeedInv, DoomedAreListed, SeedsElsewhere, DropsItsOwn, NewestSpared, SeededOrWorking, Seeds, SeedsOn,
         Drops, HasNewer, OnBranch, Recorded
<1>7. CASE ~UNCHANGED <<tasks, seeded>>
  <2> DEFINE v == [NoTask EXCEPT !.op = "branch", !.step = "zip", !.onto = b, !.target = b]
  <2>1. Go(u, v) /\ seeded' = seeded \cup {b}
    BY <1>1, <1>7 DEF BeginBranch
  <2>2. v.step = "zip" /\ v.op = "branch" /\ v.onto = b /\ v.target = b /\ v.doomed = {}
    BY DEF NoTask
  <2>3. tasks'[u] = v /\ \A c \in Actors \ {u} : tasks'[c] = tasks[c]
    BY <2>1, GoTasks
  <2> HIDE DEF v
  <2>4. DoomedAreListed' /\ SeedsElsewhere(u)' /\ DropsItsOwn(u)'
    BY <1>1, <1>2, <2>2, <2>3 DEF SeedInv, DoomedAreListed, SeedsElsewhere, DropsItsOwn
  <2>5. \A d : ~Drops(tasks[u], d) /\ ~SeedsOn(tasks[u], d)
    BY <1>5 DEF Plain, Drops, SeedsOn
  <2>6. NewestSpared(u)'
    <3> SUFFICES ASSUME NEW c \in Actors, NEW i \in tasks'[c].doomed, Recorded(i), rows[i].branch \in seeded'
                 PROVE  HasNewer(i)
      BY <1>1 DEF NewestSpared, Recorded, HasNewer
    <3>1. c # u /\ i \in tasks[c].doomed
      BY <2>2, <2>3
    <3>2. i \in Ids
      BY <3>1, TaskIsProper DEF Proper, Task
    <3> QED BY <1>3, <2>1, <2>5, <3>1, <3>2 DEF SeedInv, NewestSpared
  <2>7. SeededOrWorking(u)'
    <3> SUFFICES ASSUME NEW d \in seeded' PROVE OnBranch(d) # {} \/ SeedsOn(tasks'[u], d)
      BY <1>1 DEF SeededOrWorking, OnBranch, SeedsOn, Seeds
    <3>1. SeedsOn(tasks'[u], b)
      BY <2>2, <2>3 DEF SeedsOn, Seeds, Copying
    <3>2. d # b => OnBranch(d) # {}
      BY <2>1, <2>5 DEF SeedInv, SeededOrWorking
    <3> QED BY <3>1, <3>2
  <2> QED BY <1>4, <2>4, <2>6, <2>7 DEF SeedInv
<1> QED BY <1>6, <1>7

\* The user deletes: a branch, a snapshot, or the game from the list.
LEMMA SeedGivenUp ==
    ASSUME Typed, NEW u \in Actors, BranchesHaveOneHand(u), BranchInv(u), SeedInv(u), NEW a \in Actors,
           \/ \E b \in Branches : BeginDelete(a, b)
           \/ \E i \in Ids : DeleteSnapshot(a, i)
           \/ Untrack(a)
    PROVE  SeedInv(u)'
<1>1. CASE \E b \in Branches : BeginDelete(a, b)
  <2>1. PICK b \in Branches : BeginDelete(a, b)
    BY <1>1
  <2> DEFINE t == [NoTask EXCEPT !.op = "delete"]
  <2>2. t \in Task
    BY NoTaskProper DEF Proper, NoTask, Task, Ops
  <2>3. /\ a = u /\ tasks[u] = NoTask /\ Go(u, Deleting(t, b))
        /\ UNCHANGED <<rows, seeded, tracked, active, branches>>
    BY <2>1 DEF BeginDelete, Begin, BranchesHaveOneHand, game, history
  <2> HIDE DEF t
  <2> QED BY <2>2, <2>3, NoTaskPlain, SeedDeleting
<1>2. CASE (\E i \in Ids : DeleteSnapshot(a, i)) \/ Untrack(a)
  <2>1. tasks' = tasks /\ seeded' \subseteq seeded /\ UNCHANGED active
    BY <1>2 DEF Untrack, DeleteSnapshot
  <2>2. \A i \in Ids : \/ rows'[i] = rows[i]
                       \/ rows'[i] = NoRow /\ rows[i].branch \notin seeded'
    BY <1>2 DEF Untrack, DeleteSnapshot, Typed, TypeOK
  <2>3. RowsOnBranches'
    <3>1. CASE Untrack(a)
      BY <3>1 DEF Untrack, RowsOnBranches, Recorded
    <3>2. CASE \E i \in Ids : DeleteSnapshot(a, i)
      BY <2>2, <3>2 DEF DeleteSnapshot, SeedInv, RowsOnBranches, Recorded
    <3> QED BY <1>2, <3>1, <3>2
  <2>4. DoomedAreListed' /\ SeedsElsewhere(u)'
    BY <2>1 DEF SeedInv, DoomedAreListed, SeedsElsewhere, Seeds
  <2>5. \A c \in Actors : tasks[c].doomed \subseteq Ids
    BY TaskIsProper DEF Proper, Task
  <2>6. DropsItsOwn(u)'
    BY <2>1, <2>2, <2>5 DEF SeedInv, DropsItsOwn, Recorded
  <2>7. \A i \in Ids : rows[i].branch \in seeded' => i >= i /\ rows'[i] = rows[i]
    BY <2>2 DEF Ids
  <2> QED BY <2>1, <2>2, <2>3, <2>4, <2>5, <2>6, <2>7, SeedRowsGo
<1> QED BY <1>1, <1>2

LEMMA SeedCrash ==
    ASSUME Typed, NEW u \in Actors, SeedInv(u), NEW p \in Processes, Crash(p)
    PROVE  SeedInv(u)'
<1> DEFINE dead == {a \in Actors : ProcessOf[a] = p}
<1>1. /\ UNCHANGED <<rows, tracked, active, branches>>
      /\ seeded' = seeded \ {tasks[a].target : a \in dead}
      /\ \A a \in Actors : tasks'[a] = IF a \in dead THEN NoTask ELSE tasks[a]
  BY DEF Crash, game
<1>2. \A a \in Actors : tasks'[a] = tasks[a] \/ Plain(tasks'[a])
  BY <1>1, NoTaskPlain
<1>3. \A b \in seeded' : u \in dead => tasks[u].target # b
  BY <1>1
<1>4. \A c \in Actors : tasks'[c].doomed \subseteq tasks[c].doomed /\ tasks[c].doomed \subseteq Ids
  BY <1>2, TaskIsProper DEF Plain, Proper, Task
<1>5. RowsOnBranches' /\ DoomedAreListed' /\ SeedsElsewhere(u)' /\ DropsItsOwn(u)'
  BY <1>1, <1>2 DEF SeedInv, RowsOnBranches, DoomedAreListed, SeedsElsewhere, DropsItsOwn, Plain, Seeds, Recorded
<1>6. \A b \in seeded' : (SeedsOn(tasks[u], b) => SeedsOn(tasks'[u], b)) /\ (Drops(tasks[u], b) => Drops(tasks'[u], b))
  BY <1>1, <1>3 DEF SeedsOn, Drops
<1>7. \A i \in Ids : i >= i /\ rows'[i] = rows[i]
  BY <1>1 DEF Ids
<1>8. seeded' \subseteq seeded
  BY <1>1
<1> HIDE DEF dead
<1> QED BY <1>1, <1>4, <1>5, <1>6, <1>7, <1>8, SeedRowsGo

LEMMA SeedInvNext ==
    ASSUME NEW u \in Actors, BranchesHaveOneHand(u), Typed, BranchInv(u), SeedInv(u), ClaimsAreNotDoomed,
           [Next]_vars
    PROVE  SeedInv(u)'
<1>1. CASE UNCHANGED <<tasks, tracked, active, branches, rows, seeded>>
  BY <1>1 DEF SeedInv, RowsOnBranches, DoomedAreListed, SeedsElsewhere, DropsItsOwn, NewestSpared,
              SeededOrWorking, Seeds, SeedsOn, Drops, HasNewer, OnBranch, Recorded
<1>2. UNCHANGED vars \/ Play \/ Tick => UNCHANGED <<tasks, tracked, active, branches, rows, seeded>>
  BY DEF vars, game, history, Play, Tick
<1>3. CASE \E a \in Actors : Asked(a)
  <2>1. PICK a \in Actors : Asked(a)
    BY <1>3
  <2> QED BY <2>1, SeedBegun, SeedMade, SeedGivenUp DEF Asked
<1> QED BY <1>1, <1>2, <1>3, SeedWork, SeedCrash DEF Next

\* A branch made with a copy of the save has a snapshot by the time nobody works on it
\* any more, or is gone, whatever fails, and whatever retention, restores and imports
\* prune or add meanwhile (CreateBranch, pruneGameAllBranches).
THEOREM SeededBranchesHaveSaves ==
    ASSUME NEW u \in Actors, BranchesHaveOneHand(u)
    PROVE  Spec /\ []ClaimsAreNotDoomed => []SeededBranchHasSave
<1>1. Init => BranchInv(u) /\ SeedInv(u)
  <2> SUFFICES ASSUME Init PROVE BranchInv(u) /\ SeedInv(u)
    OBVIOUS
  <2>1. \A a \in Actors : tasks[a] = NoTask
    BY DEF Init
  <2>2. \A i \in Ids : ~Recorded(i)
    BY DEF Init, Recorded
  <2>3. \A a \in Actors : Plain(tasks[a])
    BY <2>1, NoTaskPlain
  <2>4. SeedInv(u)
    BY <2>2, <2>3 DEF Init, SeedInv, RowsOnBranches, DoomedAreListed, SeedsElsewhere, DropsItsOwn, NewestSpared,
                      SeededOrWorking, Plain
  <2> QED BY <2>4, NoBranchOps DEF Init, BranchInv, ActiveBranchExists, BranchOps
<1>2. SeedInv(u) => SeededBranchHasSave
  BY DEF SeedInv, SeededOrWorking, SeedsOn, Drops, SeededBranchHasSave
<1>3. Typed /\ BranchInv(u) /\ SeedInv(u) /\ ClaimsAreNotDoomed /\ [Next]_vars => BranchInv(u)' /\ SeedInv(u)'
  BY BranchInvNext, SeedInvNext
<1> QED BY <1>1, <1>2, <1>3, HistoryTypeCorrect, PTL DEF Spec
================================================================================
