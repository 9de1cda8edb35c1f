---------------------------- MODULE TrackingProofs ----------------------------
(***************************************************************************)
(* Type correctness of Tracking and its invariants, for any set of         *)
(* devices, ids and folders and any bounds.                                *)
(***************************************************************************)
EXTENDS Tracking, FiniteSetTheorems, TLAPS

USE DEF tables, history, vars

-----------------------------------------------------------------------------
(* Tasks                                                                   *)

TaskSteps == {"clear", "create", "check", "watch", "unwatch", "delete", "entomb", "alias", "absorb",
              "restore", "update", "list", "apply", "look", "judge"}

\* What a task holds: a folder where it will make a row, a game to link to.
Sensible(t) ==
    /\ t.op \in {"track", "relocate", "ensure"} => t.folder # NoFolder
    /\ t.op = "unlink" /\ t.step # "alias" => t.folder # NoFolder
    /\ t.op = "link" => /\ t.other \in Ids /\ t.other # t.id
                        /\ t.step \in {"alias", "absorb", "delete"}

TasksMakeSense ==
    /\ \A t \in work : Sensible(t)
    /\ \A t \in work : t.op \in {"track", "untrack"} => ops # 0

Typed == TypeOK /\ TasksMakeSense

\* A task that goes on differs in its step.
LEMMA StepOn ==
    ASSUME NEW t \in Task, NEW s \in TaskSteps
    PROVE  LET u == [t EXCEPT !.step = s] IN
           /\ u \in Task /\ u.step = s /\ u.dev = t.dev /\ u.op = t.op /\ u.id = t.id
           /\ u.other = t.other /\ u.folder = t.folder /\ u.app = t.app
           /\ u.want = t.want /\ u.left = t.left
    BY DEF Task, TaskSteps

\* What is handed to NewTask, it holds.
LEMMA NewTaskType ==
    ASSUME NEW d \in Devices, NEW i \in Ids, NEW s \in TaskSteps,
           NEW op \in {"track", "untrack", "mirror", "clear", "link", "unlink", "relocate", "resync", "ensure"}
    PROVE  LET u == NewTask(d, op, s, i) IN
           /\ u \in Task /\ u.dev = d /\ u.op = op /\ u.step = s /\ u.id = i /\ u.app = TRUE
           /\ u.other = NoId /\ u.folder = NoFolder
    BY DEF Task, TaskSteps, NewTask, NoWant, Folder

\* The resync that a command of the CLI leaves behind.
LEMMA ResyncType ==
    ASSUME NEW d \in Devices, Ids # {}
    PROVE  /\ Resync(d) \in Task /\ Resync(d).dev = d
           /\ Resync(d).op = "resync" /\ Resync(d).step = "list" /\ Sensible(Resync(d))
<1> DEFINE j == CHOOSE i \in Ids : TRUE
           u == NewTask(d, "resync", "list", j)
<1>1. j \in Ids
  OBVIOUS
<1> HIDE DEF j
<1>2. /\ u \in Task /\ u.dev = d /\ u.op = "resync" /\ u.step = "list"
  BY <1>1 DEF NewTask, Task, NoWant, Folder
<1>3. Resync(d) = u
  BY DEF Resync, j
<1> HIDE DEF u
<1> QED BY <1>2, <1>3 DEF Sensible

\* How the set of tasks may change.
LEMMA GoOnTyped ==
    ASSUME Typed, NEW t \in work, NEW s \in TaskSteps, GoTo(t, s), Sensible([t EXCEPT !.step = s]), ops' = ops
    PROVE  work' \subseteq Task /\ TasksMakeSense'
<1> DEFINE u == [t EXCEPT !.step = s]
<1>1. t \in Task /\ u \in Task /\ u.op = t.op
  BY StepOn DEF Typed, TypeOK
<1>2. work' = (work \ {t}) \cup {u}
  BY DEF GoTo, Go
<1>3. Sensible(u)
  OBVIOUS
<1> HIDE DEF u
<1>4. \A v : Sensible(v)' <=> Sensible(v)
  BY DEF Sensible
<1> QED BY <1>1, <1>2, <1>3, <1>4 DEF Typed, TypeOK, TasksMakeSense

LEMMA EndTyped ==
    ASSUME Typed, NEW t \in work, End(t) \/ EndOf(t), ops' = ops
    PROVE  work' \subseteq Task /\ TasksMakeSense'
<1>1. t \in Task /\ t.dev \in Devices /\ Ids # {}
  BY DEF Typed, TypeOK, Task
<1>2. work' \subseteq work \cup {Resync(t.dev)}
  BY DEF End, EndOf
<1>3. \A v : Sensible(v)' <=> Sensible(v)
  BY DEF Sensible
<1>4. Resync(t.dev) \in Task /\ Sensible(Resync(t.dev)) /\ Resync(t.dev).op = "resync"
  BY <1>1, ResyncType
<1> QED BY <1>2, <1>3, <1>4 DEF Typed, TypeOK, TasksMakeSense

LEMMA NewTyped ==
    ASSUME Typed, NEW u \in Task, work' \subseteq work \cup {u}, Sensible(u), ops' \in Nat, ops' >= ops,
           u.op \in {"track", "untrack"} => ops' # 0
    PROVE  work' \subseteq Task /\ TasksMakeSense'
<1>1. \A v : Sensible(v)' <=> Sensible(v)
  BY DEF Sensible
<1>2. ops \in Nat
  BY TrackingAssumption DEF Typed, TypeOK
<1> QED BY <1>1, <1>2 DEF Typed, TypeOK, TasksMakeSense

-----------------------------------------------------------------------------
(* Type correctness                                                        *)

\* All but the tasks and the two histories that Next itself keeps.
TablesTyped ==
    /\ rows \in [Devices -> [Ids -> Folder]]
    /\ guests \in [Devices -> SUBSET Ids]
    /\ tombs \in [Devices -> SUBSET Ids]
    /\ alias \in [Devices -> [Ids -> Ids \cup {NoId}]]
    /\ remembered \in [Devices -> [Ids -> Folder]]
    /\ watched \in [Devices -> [Ids -> Folder]]
    /\ wire \subseteq Notice
    /\ ops \in 0..MaxOps /\ asked \in 0..MaxAsked /\ faults \in 0..MaxFaults
    /\ lastWord \in [Ids -> [word : Words, alone : BOOLEAN]]
    /\ absorbed \in [Devices -> SUBSET Ids]

TypedStep == TablesTyped' /\ work' \subseteq Task /\ TasksMakeSense'

LEMMA TypedInit == Init => Typed
<1> SUFFICES ASSUME Init PROVE Typed
  OBVIOUS
<1>1. rows \in [Devices -> [Ids -> Folder]]
  BY TrackingAssumption DEF Init, Folder
<1> QED BY <1>1, TrackingAssumption DEF Init, Typed, TypeOK, TasksMakeSense, Folder, Words

LEMMA SaidType ==
    ASSUME Typed, NEW i \in Ids, NEW word \in {"track", "untrack"}, Said(i, word) \/ Disturbed(i)
    PROVE  lastWord' \in [Ids -> [word : Words, alone : BOOLEAN]]
<1>1. CASE Said(i, word)
  <2> DEFINE a == About(i) = {}
             l == [word |-> word, alone |-> a]
  <2>1. l \in [word : Words, alone : BOOLEAN]
    <3>1. a \in BOOLEAN
      OBVIOUS
    <3> HIDE DEF a
    <3> QED BY <3>1 DEF Words
  <2>2. lastWord' = [lastWord EXCEPT ![i] = l]
    BY <1>1 DEF Said
  <2> HIDE DEF l
  <2> QED BY <2>1, <2>2 DEF Typed, TypeOK
<1>2. CASE Disturbed(i)
  BY <1>2 DEF Disturbed, Typed, TypeOK
<1> QED BY <1>1, <1>2

LEMMA TypedAsk ==
    ASSUME Typed, NEW u \in Task, Ask(u), Sensible(u),
           lastWord' \in [Ids -> [word : Words, alone : BOOLEAN]]
    PROVE  TypedStep
<1>1. ops \in 0..MaxOps /\ ops' = ops + 1 /\ ops < MaxOps /\ MaxOps \in Nat
  BY TrackingAssumption DEF Typed, TypeOK, Ask
<1>2. work' \subseteq Task /\ TasksMakeSense'
  BY <1>1, NewTyped DEF Ask
<1> QED BY <1>1, <1>2 DEF Ask, TypedStep, TablesTyped, Typed, TypeOK

LEMMA TypedOperation ==
    ASSUME Typed, Operation
    PROVE  TypedStep
<1>1. PICK d \in Devices, i \in Ids, app \in BOOLEAN :
           \/ \E f \in Folders : Track(d, i, f, app) \/ Relocate(d, i, f, app)
           \/ Untrack(d, i, app)
           \/ app /\ Unlink(d, i)
           \/ \E j \in Ids : app /\ Link(d, i, j)
  BY DEF Operation
<1>2. ASSUME NEW f \in Folders, Track(d, i, f, app) PROVE TypedStep
  <2> DEFINE u == [NewTask(d, "track", "clear", i) EXCEPT !.folder = f, !.app = app]
  <2>1. u \in Task /\ Sensible(u)
    BY TrackingAssumption DEF NewTask, Task, NoWant, Folder, Sensible
  <2> HIDE DEF u
  <2>2. Ask(u) /\ Said(i, "track")
    BY <1>2 DEF Track, u
  <2> QED BY <2>1, <2>2, SaidType, TypedAsk
<1>3. ASSUME NEW f \in Folders, Relocate(d, i, f, app) PROVE TypedStep
  <2> DEFINE u == [NewTask(d, "relocate", "update", i) EXCEPT !.folder = f, !.app = app]
  <2>1. u \in Task /\ Sensible(u)
    BY TrackingAssumption DEF NewTask, Task, NoWant, Folder, Sensible
  <2> HIDE DEF u
  <2>2. Ask(u) /\ Disturbed(i)
    BY <1>3 DEF Relocate, u
  <2> QED BY <2>1, <2>2, SaidType, TypedAsk
<1>4. CASE Untrack(d, i, app)
  <2> DEFINE u == [NewTask(d, "untrack", "unwatch", i) EXCEPT !.app = app]
  <2>1. u \in Task /\ Sensible(u)
    BY DEF NewTask, Task, NoWant, Folder, Sensible
  <2> HIDE DEF u
  <2>2. Ask(u) /\ Said(i, "untrack")
    BY <1>4 DEF Untrack, u
  <2> QED BY <2>1, <2>2, SaidType, TypedAsk
<1>5. CASE Unlink(d, i)
  <2> DEFINE u == [NewTask(d, "unlink", "alias", i) EXCEPT !.folder = remembered[d][i]]
  <2>0. remembered[d][i] \in Folder
    BY DEF Typed, TypeOK
  <2>1. u \in Task /\ Sensible(u)
    BY <2>0 DEF NewTask, Task, NoWant, Folder, Sensible
  <2> HIDE DEF u
  <2>2. Ask(u) /\ Disturbed(i)
    BY <1>5 DEF Unlink, u
  <2> QED BY <2>1, <2>2, SaidType, TypedAsk
<1>6. ASSUME NEW j \in Ids, Link(d, i, j) PROVE TypedStep
  <2> DEFINE u == [NewTask(d, "link", "alias", i) EXCEPT !.other = j]
  <2>1. u \in Task /\ Sensible(u)
    BY <1>6 DEF Link, NewTask, Task, NoWant, Folder, Sensible
  <2> HIDE DEF u
  <2>2. Ask(u) /\ Disturbed(i)
    BY <1>6 DEF Link, u
  <2> QED BY <2>1, <2>2, SaidType, TypedAsk
<1> QED BY <1>1, <1>2, <1>3, <1>4, <1>5, <1>6

LEMMA RowType ==
    ASSUME TablesTyped, NEW d \in Devices, NEW i \in Ids, NEW f \in Folder, Row(d, i, f)
    PROVE  /\ rows' \in [Devices -> [Ids -> Folder]]
           /\ \A e \in Devices, j \in Ids : rows'[e][j] = IF e = d /\ j = i THEN f ELSE rows[e][j]
    BY DEF TablesTyped, Row

\* What goes with a game's row.
LEMMA CascadeGuests ==
    ASSUME TablesTyped, NEW d \in Devices, NEW i \in Ids, Cascade(d, i)
    PROVE  \A e \in Devices : guests'[e] = IF e = d THEN guests[d] \ {i} ELSE guests[e]
    BY DEF Cascade, TablesTyped

LEMMA CascadeAlias ==
    ASSUME TablesTyped, NEW d \in Devices, NEW i \in Ids, Cascade(d, i)
    PROVE  \A e \in Devices, j \in Ids :
               alias'[e][j] = IF e = d /\ alias[d][j] = i THEN NoId ELSE alias[e][j]
    BY DEF Cascade, TablesTyped

LEMMA CascadeRemembered ==
    ASSUME TablesTyped, NEW d \in Devices, NEW i \in Ids, Cascade(d, i)
    PROVE  \A e \in Devices, j \in Ids :
               remembered'[e][j] = IF e = d /\ alias[d][j] = i THEN NoFolder ELSE remembered[e][j]
    BY DEF Cascade, TablesTyped

LEMMA CascadeType ==
    ASSUME TablesTyped, NEW d \in Devices, NEW i \in Ids, Cascade(d, i)
    PROVE  /\ rows' \in [Devices -> [Ids -> Folder]]
           /\ guests' \in [Devices -> SUBSET Ids]
           /\ alias' \in [Devices -> [Ids -> Ids \cup {NoId}]]
           /\ remembered' \in [Devices -> [Ids -> Folder]]
    BY DEF Cascade, Row, TablesTyped, Folder

\* Each step of a task keeps the types.
LEMMA TypedStepOfTask ==
    ASSUME Typed, NEW t \in work, Step(t)
    PROVE  TypedStep
<1>1. /\ t \in Task /\ Sensible(t) /\ t.dev \in Devices /\ t.id \in Ids /\ t.folder \in Folder
      /\ t.app \in BOOLEAN /\ TablesTyped /\ (t.op \in {"track", "untrack"} => ops \in 1..MaxOps)
  BY DEF Typed, TypeOK, TablesTyped, TasksMakeSense, Task
<1>2. \A f \in Folder : Row(t.dev, t.id, f) => rows' \in [Devices -> [Ids -> Folder]]
  BY <1>1, RowType
<1>3. \A s \in TaskSteps : LET u == [t EXCEPT !.step = s] IN
          /\ t.op \notin {"unlink", "link"} => Sensible(u)
          /\ t.op = "unlink" => (Sensible(u) <=> (s # "alias" => t.folder # NoFolder))
          /\ t.op = "link" => (Sensible(u) <=> s \in {"alias", "absorb", "delete"})
  BY <1>1, StepOn DEF Sensible
<1>4. CASE TrackClears(t)
  <2>1. wire' \subseteq Notice
    BY <1>1, <1>4 DEF TrackClears, At, Retrack, Notice, TablesTyped
  <2>2. work' \subseteq Task /\ TasksMakeSense'
    BY <1>1, <1>3, <1>4, GoOnTyped DEF TrackClears, At, TaskSteps
  <2> QED BY <1>1, <1>4, <2>1, <2>2 DEF TrackClears, TypedStep, TablesTyped
<1>5. CASE TrackCreates(t)
  <2>1. work' \subseteq Task /\ TasksMakeSense'
    BY <1>1, <1>3, <1>5, GoOnTyped, EndTyped DEF TrackCreates, At, TaskSteps
  <2>2. rows' \in [Devices -> [Ids -> Folder]]
    BY <1>1, <1>2, <1>5 DEF TrackCreates, TablesTyped
  <2> QED BY <1>1, <1>5, <2>1, <2>2 DEF TrackCreates, TypedStep, TablesTyped
<1>6. CASE TrackChecks(t)
  <2>1. work' \subseteq Task /\ TasksMakeSense'
    BY <1>1, <1>3, <1>6, GoOnTyped, EndTyped DEF TrackChecks, At, TaskSteps
  <2> QED BY <1>1, <1>6, <2>1 DEF TrackChecks, TypedStep, TablesTyped
<1>7. CASE BeginWatch(t)
  <2>1. work' \subseteq Task /\ TasksMakeSense'
    BY <1>7, EndTyped DEF BeginWatch
  <2> QED BY <1>1, <1>7, <2>1 DEF BeginWatch, TypedStep, TablesTyped, Watch
<1>8. CASE Relocates(t)
  <2>1. work' \subseteq Task /\ TasksMakeSense'
    BY <1>1, <1>3, <1>8, GoOnTyped, EndTyped DEF Relocates, At, TaskSteps
  <2>2. rows' \in [Devices -> [Ids -> Folder]]
    BY <1>1, <1>2, <1>8 DEF Relocates, TablesTyped
  <2>3. guests' \in [Devices -> SUBSET Ids]
    BY <1>1, <1>8 DEF Relocates, TablesTyped
  <2> QED BY <1>1, <1>8, <2>1, <2>2, <2>3 DEF Relocates, TypedStep, TablesTyped
<1>9. CASE StopsWatch(t)
  <2>1. work' \subseteq Task /\ TasksMakeSense'
    BY <1>1, <1>3, <1>9, GoOnTyped DEF StopsWatch, At, TaskSteps
  <2> QED BY <1>1, <1>9, <2>1 DEF StopsWatch, TypedStep, TablesTyped, Watch, Folder
<1>10. CASE Deletes(t)
  <2>1. work' \subseteq Task /\ TasksMakeSense'
    BY <1>1, <1>3, <1>10, GoOnTyped, EndTyped DEF Deletes, At, TaskSteps
  <2>2. CASE Tracked(t.dev, t.id) \/ t.op = "mirror"
    <3>1. Cascade(t.dev, t.id) /\ absorbed' = [absorbed EXCEPT ![t.dev] = @ \ Lost(t.dev, t.id)]
          /\ UNCHANGED <<lastWord, tombs, watched, wire, ops, asked, faults>>
      BY <1>10, <2>2 DEF Deletes
    <3>2. absorbed' \in [Devices -> SUBSET Ids]
      BY <1>1, <3>1 DEF TablesTyped
    <3> QED BY <1>1, <2>1, <3>1, <3>2, CascadeType DEF TypedStep, TablesTyped
  <2>3. CASE ~(Tracked(t.dev, t.id) \/ t.op = "mirror")
    <3>1. Disturbed(t.id) /\ UNCHANGED <<rows, guests, alias, remembered, absorbed>>
          /\ UNCHANGED <<tombs, watched, wire, ops, asked, faults>>
      BY <1>10, <2>3 DEF Deletes
    <3> QED BY <1>1, <2>1, <3>1, SaidType DEF TypedStep, TablesTyped
  <2> QED BY <2>2, <2>3
<1>11. CASE Entombs(t)
  <2>1. work' \subseteq Task /\ TasksMakeSense'
    BY <1>11, EndTyped DEF Entombs
  <2>2. wire' \subseteq Notice
    BY <1>1, <1>11 DEF Entombs, Notify, Notice, TablesTyped
  <2> QED BY <1>1, <1>11, <2>1, <2>2 DEF Entombs, Entombed, TypedStep, TablesTyped
<1>12. CASE RetrackFromPeer(t)
  <2>1. work' \subseteq Task /\ TasksMakeSense'
    BY <1>12, EndTyped DEF RetrackFromPeer
  <2> QED BY <1>1, <1>12, <2>1 DEF RetrackFromPeer, TypedStep, TablesTyped
<1>13. CASE LinkRecords(t)
  <2>1. work' \subseteq Task /\ TasksMakeSense'
    BY <1>1, <1>3, <1>13, GoOnTyped, EndTyped DEF LinkRecords, At, TaskSteps
  <2>2. t.other \in Ids
    BY <1>1, <1>13 DEF LinkRecords, At, Sensible
  <2>3. /\ remembered' = remembered
        /\ alias' = alias \/ alias' = [alias EXCEPT ![t.dev][t.id] = t.other]
    <3>1. \/ AddGameAlias(t.dev, t.id, t.other)
          \/ UNCHANGED <<alias, remembered>>
      BY <1>13 DEF LinkRecords
    <3> QED BY <3>1 DEF AddGameAlias, Remembered
  <2>4. alias' \in [Devices -> [Ids -> Ids \cup {NoId}]]
    <3>1. CASE alias' = alias
      BY <1>1, <3>1 DEF TablesTyped
    <3>2. CASE alias' = [alias EXCEPT ![t.dev][t.id] = t.other]
      BY <1>1, <2>2, <3>2 DEF TablesTyped
    <3> QED BY <2>3, <3>1, <3>2
  <2> QED BY <1>1, <1>13, <2>1, <2>3, <2>4 DEF LinkRecords, TypedStep, TablesTyped
<1>14. CASE LinkAbsorbs(t)
  <2>1. work' \subseteq Task /\ TasksMakeSense'
    BY <1>1, <1>3, <1>14, GoOnTyped, EndTyped DEF LinkAbsorbs, At, TaskSteps
  <2>2. rows[t.dev][t.id] \in Folder /\ NoFolder \in Folder
    BY <1>1 DEF TablesTyped, Folder
  <2>3. remembered' \in [Devices -> [Ids -> Folder]]
    <3>1. \/ remembered' = remembered
          \/ remembered' = [remembered EXCEPT ![t.dev][t.id] = rows[t.dev][t.id]]
      BY <1>14 DEF LinkAbsorbs
    <3>2. CASE remembered' = remembered
      BY <1>1, <3>2 DEF TablesTyped
    <3>3. CASE remembered' = [remembered EXCEPT ![t.dev][t.id] = rows[t.dev][t.id]]
      BY <1>1, <2>2, <3>3 DEF TablesTyped
    <3> QED BY <3>1, <3>2, <3>3
  <2>4. watched' \in [Devices -> [Ids -> Folder]]
    <3>1. watched' = watched \/ watched' = [watched EXCEPT ![t.dev][t.id] = NoFolder]
      BY <1>14 DEF LinkAbsorbs, Watch
    <3>2. CASE watched' = watched
      BY <1>1, <3>2 DEF TablesTyped
    <3>3. CASE watched' = [watched EXCEPT ![t.dev][t.id] = NoFolder]
      BY <1>1, <2>2, <3>3 DEF TablesTyped
    <3> QED BY <3>1, <3>2, <3>3
  <2> QED BY <1>1, <1>14, <2>1, <2>3, <2>4 DEF LinkAbsorbs, TypedStep, TablesTyped
<1>15. CASE LinkDeletes(t)
  <2>1. work' \subseteq Task /\ TasksMakeSense'
    BY <1>15, EndTyped DEF LinkDeletes
  <2>2. absorbed' \in [Devices -> SUBSET Ids]
    BY <1>1, <1>15 DEF LinkDeletes, TablesTyped
  <2> QED BY <1>1, <1>15, <2>1, <2>2, CascadeType DEF LinkDeletes, TypedStep, TablesTyped
<1>16. CASE UnlinkRemoves(t)
  <2>1. work' \subseteq Task /\ TasksMakeSense'
    BY <1>1, <1>3, <1>16, GoOnTyped, EndTyped DEF UnlinkRemoves, At, TaskSteps
  <2>2. alias' \in [Devices -> [Ids -> Ids \cup {NoId}]]
    BY <1>1, <1>16 DEF UnlinkRemoves, TablesTyped
  <2>3. remembered' \in [Devices -> [Ids -> Folder]]
    BY <1>1, <1>16 DEF UnlinkRemoves, TablesTyped, Folder
  <2> QED BY <1>1, <1>16, <2>1, <2>2, <2>3 DEF UnlinkRemoves, TypedStep, TablesTyped
<1>17. CASE UnlinkRestores(t)
  <2>0. t.op = "unlink" /\ t.folder # NoFolder
    BY <1>1, <1>17 DEF UnlinkRestores, At, Sensible
  <2>1. work' \subseteq Task /\ TasksMakeSense'
    BY <1>1, <1>3, <1>17, <2>0, GoOnTyped, EndTyped DEF UnlinkRestores, TaskSteps
  <2>2. rows' \in [Devices -> [Ids -> Folder]]
    BY <1>1, <1>2, <1>17 DEF UnlinkRestores, TablesTyped
  <2> QED BY <1>1, <1>17, <2>1, <2>2 DEF UnlinkRestores, TypedStep, TablesTyped
<1>18. CASE EnsureLooks(t)
  <2>1. work' \subseteq Task /\ TasksMakeSense'
    BY <1>1, <1>3, <1>18, GoOnTyped, EndTyped DEF EnsureLooks, At, TaskSteps
  <2> QED BY <1>1, <1>18, <2>1 DEF EnsureLooks, TypedStep, TablesTyped
<1>19. CASE EnsureJudges(t)
  <2>1. work' \subseteq Task /\ TasksMakeSense'
    BY <1>1, <1>3, <1>19, GoOnTyped, EndTyped DEF EnsureJudges, At, TaskSteps
  <2>2. ASSUME NEW j \in Ids, AddGameAlias(t.dev, t.id, j)
        PROVE  alias' \in [Devices -> [Ids -> Ids \cup {NoId}]] /\ remembered' = remembered
    BY <1>1, <2>2 DEF AddGameAlias, Remembered, TablesTyped
  <2>3. alias' \in [Devices -> [Ids -> Ids \cup {NoId}]] /\ remembered' = remembered
    <3> DEFINE match == CHOOSE i \in SameApp(t.dev) : TRUE
    <3>1. \/ match \in Ids /\ AddGameAlias(t.dev, t.id, match)
          \/ UNCHANGED <<alias, remembered>>
      <4>1. MatchByAppID /\ Cardinality(SameApp(t.dev)) = 1 => match \in SameApp(t.dev)
        BY FS_EmptySet
      <4> QED BY <1>19, <4>1 DEF EnsureJudges, SameApp
    <3> HIDE DEF match
    <3> QED BY <1>1, <2>2, <3>1 DEF TablesTyped
  <2> QED BY <1>1, <1>19, <2>1, <2>3 DEF EnsureJudges, TypedStep, TablesTyped
<1>20. CASE EnsureCreates(t)
  <2>1. work' \subseteq Task /\ TasksMakeSense'
    BY <1>20, EndTyped DEF EnsureCreates
  <2>2. rows' \in [Devices -> [Ids -> Folder]]
    BY <1>1, <1>2, <1>20 DEF EnsureCreates, TablesTyped
  <2>3. guests' \in [Devices -> SUBSET Ids]
    <3>1. guests' = guests \/ guests' = [guests EXCEPT ![t.dev] = @ \cup {t.id}]
      BY <1>20 DEF EnsureCreates
    <3>2. CASE guests' = guests
      BY <1>1, <3>2 DEF TablesTyped
    <3>3. CASE guests' = [guests EXCEPT ![t.dev] = @ \cup {t.id}]
      BY <1>1, <3>3 DEF TablesTyped
    <3> QED BY <3>1, <3>2, <3>3
  <2> QED BY <1>1, <1>20, <2>1, <2>2, <2>3 DEF EnsureCreates, TypedStep, TablesTyped
<1>21. CASE ResyncLists(t)
  <2> DEFINE u == [t EXCEPT !.step = "apply", !.want = rows[t.dev], !.left = Ids]
  <2>1. rows[t.dev] \in [Ids -> Folder]
    BY <1>1 DEF TablesTyped
  <2>2. u \in Task /\ u.op = "resync"
    BY <1>1, <1>21, <2>1 DEF Task, ResyncLists, At
  <2>3. work' \subseteq work \cup {u}
    BY <1>21 DEF ResyncLists, Go
  <2> HIDE DEF u
  <2>4. work' \subseteq Task /\ TasksMakeSense'
    <3>1. Sensible(u) /\ ops' = ops /\ ops \in Nat
      BY <1>1, <1>21, <2>2, TrackingAssumption DEF ResyncLists, Sensible, TablesTyped
    <3>2. ops' \in Nat /\ ops' >= ops /\ (u.op \in {"track", "untrack"} => ops' # 0)
      BY <2>2, <3>1
    <3> QED BY <2>2, <2>3, <3>1, <3>2, NewTyped
  <2> QED BY <1>1, <1>21, <2>4 DEF ResyncLists, TypedStep, TablesTyped
<1>22. CASE ResyncApplies(t)
  <2>1. PICK i \in t.left :
          /\ watched' = [watched EXCEPT ![t.dev][i] = t.want[i]]
          /\ IF t.left = {i} THEN End(t) ELSE Go(t, [t EXCEPT !.left = @ \ {i}])
    BY <1>22 DEF ResyncApplies, Reconciled
  <2> DEFINE u == [t EXCEPT !.left = @ \ {i}]
  <2>2. u \in Task /\ u.op = "resync" /\ i \in Ids /\ t.want[i] \in Folder
    BY <1>1, <1>22, <2>1 DEF Task, ResyncApplies, At
  <2>3. work' \subseteq work \cup {u}
    BY <2>1 DEF End, Go
  <2> HIDE DEF u
  <2>4. work' \subseteq Task /\ TasksMakeSense'
    <3>1. Sensible(u) /\ ops' = ops /\ ops \in Nat
      BY <1>1, <1>22, <2>2, TrackingAssumption DEF ResyncApplies, Sensible, TablesTyped
    <3>2. ops' \in Nat /\ ops' >= ops /\ (u.op \in {"track", "untrack"} => ops' # 0)
      BY <2>2, <3>1
    <3> QED BY <2>2, <2>3, <3>1, <3>2, NewTyped
  <2>5. watched' \in [Devices -> [Ids -> Folder]]
    BY <1>1, <2>1, <2>2 DEF TablesTyped
  <2> QED BY <1>1, <1>22, <2>4, <2>5 DEF ResyncApplies, TypedStep, TablesTyped
<1> QED BY <1>4, <1>5, <1>6, <1>7, <1>8, <1>9, <1>10, <1>11, <1>12, <1>13, <1>14, <1>15,
           <1>16, <1>17, <1>18, <1>19, <1>20, <1>21, <1>22 DEF Step

\* Notices and manifest requests too.
LEMMA TypedNotice ==
    ASSUME Typed, NEW m \in wire, Deliver(m) \/ LoseNotice(m)
    PROVE  TypedStep
<1>1. /\ m.op \in {"untrack", "retrack"} /\ m.to \in Devices /\ m.id \in Ids /\ TablesTyped
      /\ ops \in Nat /\ MaxFaults \in Nat
  BY TrackingAssumption DEF Typed, TypeOK, TablesTyped, Notice
<1>2. CASE Deliver(m)
  <2> DEFINE u == IF m.op = "untrack" THEN NewTask(m.to, "mirror", "unwatch", m.id)
                                      ELSE NewTask(m.to, "clear", "clear", m.id)
  <2>1. u \in Task /\ u.op \in {"mirror", "clear"}
    BY <1>1 DEF NewTask, Task, NoWant, Folder
  <2>2. /\ work' = work \cup {u} /\ wire' \subseteq wire
        /\ UNCHANGED <<tables, watched, ops, asked, faults, history>>
    BY <1>2 DEF Deliver
  <2> HIDE DEF u
  <2>3. Sensible(u)
    BY <2>1 DEF Sensible
  <2>4. ops' \in Nat /\ ops' >= ops /\ (u.op \in {"track", "untrack"} => ops' # 0)
    BY <1>1, <2>1, <2>2
  <2>5. work' \subseteq Task /\ TasksMakeSense'
    BY <2>1, <2>2, <2>3, <2>4, NewTyped
  <2> QED BY <1>1, <2>2, <2>5 DEF TypedStep, TablesTyped
<1>3. CASE LoseNotice(m)
  <2>1. lastWord' \in [Ids -> [word : Words, alone : BOOLEAN]]
    BY <1>1, <1>3, SaidType DEF LoseNotice
  <2>2. work' \subseteq Task /\ TasksMakeSense'
    BY <1>3 DEF LoseNotice, Typed, TypeOK, TasksMakeSense, Sensible
  <2> QED BY <1>1, <1>3, <2>1, <2>2 DEF LoseNotice, TypedStep, TablesTyped
<1> QED BY <1>2, <1>3

LEMMA TypedAskManifest ==
    ASSUME Typed, NEW d \in Devices, NEW e \in Devices, NEW i \in Ids, AskManifest(d, e, i)
    PROVE  TypedStep
<1> DEFINE u == [NewTask(e, "ensure", "look", i) EXCEPT !.folder = rows[d][i]]
<1>1. TablesTyped /\ rows[d][i] \in Folder /\ rows[d][i] # NoFolder /\ ops \in Nat /\ MaxAsked \in Nat
  BY TrackingAssumption DEF Typed, TypeOK, TablesTyped, AskManifest, Tracked
<1>2. u \in Task /\ u.op = "ensure" /\ u.folder # NoFolder
  BY <1>1 DEF NewTask, Task, NoWant, Folder
<1>3. /\ work' = work \cup {u} /\ asked < MaxAsked /\ asked' = asked + 1
      /\ UNCHANGED <<tables, watched, wire, ops, faults, history>>
  BY DEF AskManifest
<1> HIDE DEF u
<1>4. Sensible(u)
  BY <1>2 DEF Sensible
<1>5. ops' \in Nat /\ ops' >= ops /\ (u.op \in {"track", "untrack"} => ops' # 0)
  BY <1>1, <1>2, <1>3
<1>6. work' \subseteq Task /\ TasksMakeSense'
  BY <1>2, <1>3, <1>4, <1>5, NewTyped
<1> QED BY <1>1, <1>3, <1>6 DEF TypedStep, TablesTyped

LEMMA TypedNext == Typed /\ [Next]_vars => Typed'
<1> SUFFICES ASSUME Typed, [Next]_vars PROVE Typed'
  OBVIOUS
<1>1. CASE Next
  <2>1. TypedStep
    BY <1>1, TypedOperation, TypedStepOfTask, TypedNotice, TypedAskManifest DEF Next
  <2>2. steady' \in [Devices -> BOOLEAN] /\ undone' \in [Devices -> SUBSET Ids]
    <3>1. steady' \in [Devices -> BOOLEAN]
      BY <1>1 DEF Next
    <3>2. undone' \in [Devices -> SUBSET Ids]
      BY <1>1 DEF Next, Typed, TypeOK
    <3> QED BY <3>1, <3>2
  <2> QED BY <2>1, <2>2 DEF TypedStep, TablesTyped, Typed, TypeOK
<1>2. CASE UNCHANGED vars
  BY <1>2 DEF Typed, TypeOK, TasksMakeSense, Sensible
<1> QED BY <1>1, <1>2

\* Type correctness of the tracking tables and of what is under way.
THEOREM TrackingTypeCorrect == Spec => []Typed
  BY TypedInit, TypedNext, PTL DEF Spec

-----------------------------------------------------------------------------
(* The inductive invariants                                                *)

\* A guest has a row, and one that is linked is about to lose it.
GuestsAreTracked == \A d \in Devices : \A i \in guests[d] : Tracked(d, i)
LinkedGuestsGo == \A d \in Devices : \A i \in guests[d] : alias[d][i] # NoId => Linking(d, i)

GuestInv == GuestsAreTracked /\ LinkedGuestsGo

\* A link under way finds its alias, and from the time it has seen the game it
\* absorbs the folder on it, unless somebody removed the alias.
NoSelfAlias == \A d \in Devices, i \in Ids : alias[d][i] # i
LinkHolds ==
    \A t \in work : t.op = "link" /\ t.id \notin undone[t.dev] =>
        /\ t.step \in {"absorb", "delete"} => alias[t.dev][t.id] # NoId
        /\ t.step = "delete" => remembered[t.dev][t.id] # NoFolder

MergeInv == NoSelfAlias /\ LinkHolds /\ MergedCanComeBack

\* While nothing but resyncs runs, the rows are what they were listed as.
SteadyMeansResync == \A d \in Devices : steady[d] => \A t \in work : t.dev = d => t.op = "resync"
ResyncSeesRows ==
    \A t \in work : t.op = "resync" /\ t.step = "apply" /\ steady[t.dev] =>
        /\ t.want = rows[t.dev]
        /\ \A i \in Ids \ t.left : watched[t.dev][i] = rows[t.dev][i]

ResyncInv == SteadyMeansResync /\ ResyncSeesRows

\* A device has the tombstone, or something under way will put it there; nothing
\* under way will take it.
UntrackSpreads(i) ==
    /\ \A t \in work : t.id = i => t.op \notin {"track", "clear"}
    /\ \A m \in wire : m.id = i => m.op = "untrack"
    /\ \A d \in Devices :
        \/ i \in tombs[d]
        \/ \E t \in work : t.id = i /\ (t.op = "untrack" \/ (t.op = "mirror" /\ t.dev = d))
        \/ \E m \in wire : m.id = i /\ m.to = d

RetrackSpreads(i) ==
    /\ \A t \in work : t.id = i => t.op \notin {"untrack", "mirror"}
    /\ \A m \in wire : m.id = i => m.op = "retrack"
    /\ \A d \in Devices :
        \/ i \notin tombs[d]
        \/ \E t \in work : t.id = i /\ ((t.op = "track" /\ t.step = "clear") \/ (t.op = "clear" /\ t.dev = d))
        \/ \E m \in wire : m.id = i /\ m.to = d

WordSpreads(i) ==
    lastWord[i].alone => /\ lastWord[i].word = "untrack" => UntrackSpreads(i)
                         /\ lastWord[i].word = "track" => RetrackSpreads(i)

TombInv == \A i \in Ids : WordSpreads(i)

-----------------------------------------------------------------------------
(* Guests: proof                                                           *)

\* A step of a task leaves every other task.
LEMMA OneTaskMoves ==
    ASSUME NEW t \in work, Step(t)
    PROVE  work \ {t} \subseteq work'
<1>1. ASSUME NEW s, GoTo(t, s) PROVE work \ {t} \subseteq work'
  BY <1>1 DEF GoTo, Go
<1>2. ASSUME End(t) \/ EndOf(t) PROVE work \ {t} \subseteq work'
  BY <1>2 DEF End, EndOf
<1>3. ASSUME NEW u, Go(t, u) PROVE work \ {t} \subseteq work'
  BY <1>3 DEF Go
<1>4. CASE TrackClears(t) \/ TrackCreates(t) \/ TrackChecks(t) \/ BeginWatch(t) \/ Relocates(t)
  BY <1>1, <1>2, <1>4 DEF TrackClears, TrackCreates, TrackChecks, BeginWatch, Relocates
<1>5. CASE StopsWatch(t) \/ Deletes(t) \/ Entombs(t) \/ RetrackFromPeer(t)
  BY <1>1, <1>2, <1>5 DEF StopsWatch, Deletes, Entombs, RetrackFromPeer
<1>6. CASE LinkRecords(t) \/ LinkAbsorbs(t) \/ LinkDeletes(t) \/ UnlinkRemoves(t) \/ UnlinkRestores(t)
  BY <1>1, <1>2, <1>6 DEF LinkRecords, LinkAbsorbs, LinkDeletes, UnlinkRemoves, UnlinkRestores
<1>7. CASE EnsureLooks(t) \/ EnsureJudges(t) \/ EnsureCreates(t)
  BY <1>1, <1>2, <1>7 DEF EnsureLooks, EnsureJudges, EnsureCreates
<1>8. CASE ResyncLists(t) \/ ResyncApplies(t)
  BY <1>2, <1>3, <1>8 DEF ResyncLists, ResyncApplies
<1> QED BY <1>4, <1>5, <1>6, <1>7, <1>8 DEF Step

\* What only adds tasks leaves links under way.
LEMMA LinkingStays ==
    ASSUME NEW t, t \notin work \/ t.op # "link", work \ {t} \subseteq work'
    PROVE  \A d, i : Linking(d, i) => Linking(d, i)'
    BY DEF Linking

\* Guests that were guests, with the rows they had and no new alias.
LEMMA GuestsLeave ==
    ASSUME GuestInv, \A d, i : Linking(d, i) => Linking(d, i)',
           \A d \in Devices : \A i \in guests'[d] :
               i \in guests[d] /\ rows'[d][i] # NoFolder /\ alias'[d][i] \in {alias[d][i], NoId}
    PROVE  GuestInv'
    BY DEF GuestInv, GuestsAreTracked, LinkedGuestsGo, Tracked

\* Only one game has the App ID: the match of an id that is tracked is itself.
LEMMA MatchIsItself ==
    ASSUME NEW d \in Devices, Cardinality(SameApp(d)) = 1, NEW i \in SameApp(d), NEW j \in SameApp(d)
    PROVE  i = j
<1>1. IsFiniteSet(SameApp(d))
  BY FS_Subset, TrackingAssumption DEF SameApp
<1>2. IsFiniteSet(SameApp(d) \ {i}) /\ Cardinality(SameApp(d) \ {i}) = 0
  BY <1>1, FS_RemoveElement
<1>3. SameApp(d) \ {i} = {}
  BY <1>2, FS_EmptySet
<1> QED BY <1>3

LEMMA GuestStep ==
    ASSUME Typed, GuestInv, NEW t \in work, Step(t)
    PROVE  GuestInv'
<1>1. /\ t \in Task /\ Sensible(t) /\ t.dev \in Devices /\ t.id \in Ids /\ t.folder \in Folder
      /\ TablesTyped /\ NoFolder \in Folder
      /\ \A d \in Devices : guests[d] \subseteq Ids
      /\ \A d \in Devices : \A i \in guests[d] : rows[d][i] # NoFolder
  BY DEF Typed, TypeOK, TablesTyped, TasksMakeSense, Task, Folder, GuestInv, GuestsAreTracked, Tracked
<1>2. work \ {t} \subseteq work' /\ (t.op # "link" => \A d, i : Linking(d, i) => Linking(d, i)')
  BY OneTaskMoves, LinkingStays
<1>3. CASE t.op # "link" /\ UNCHANGED <<rows, guests, alias>>
  BY <1>1, <1>2, <1>3, GuestsLeave
<1>4. CASE TrackCreates(t) \/ UnlinkRestores(t)
  <2>1. t.op # "link" /\ UNCHANGED <<guests, alias>> /\ t.folder # NoFolder
    BY <1>1, <1>4 DEF TrackCreates, UnlinkRestores, At, Sensible
  <2>2. UNCHANGED rows \/ Row(t.dev, t.id, t.folder)
    BY <1>4 DEF TrackCreates, UnlinkRestores
  <2>3. \A d \in Devices, i \in Ids : rows[d][i] # NoFolder => rows'[d][i] # NoFolder
    BY <1>1, <2>1, <2>2, RowType
  <2> QED BY <1>1, <1>2, <2>1, <2>3, GuestsLeave
<1>5. CASE Relocates(t)
  <2>1. t.op # "link" /\ UNCHANGED alias /\ t.folder # NoFolder
    BY <1>1, <1>5 DEF Relocates, At, Sensible
  <2>2. /\ UNCHANGED rows \/ Row(t.dev, t.id, t.folder)
        /\ UNCHANGED guests \/ guests' = [guests EXCEPT ![t.dev] = @ \ {t.id}]
    BY <1>5 DEF Relocates
  <2>3. \A d \in Devices, i \in Ids : rows[d][i] # NoFolder => rows'[d][i] # NoFolder
    BY <1>1, <2>1, <2>2, RowType
  <2>4. \A d \in Devices : guests'[d] \subseteq guests[d]
    <3>1. CASE UNCHANGED guests
      BY <3>1
    <3>2. CASE guests' = [guests EXCEPT ![t.dev] = @ \ {t.id}]
      BY <1>1, <3>2 DEF TablesTyped
    <3> QED BY <2>2, <3>1, <3>2
  <2> QED BY <1>1, <1>2, <2>1, <2>3, <2>4, GuestsLeave
<1>6. ASSUME Cascade(t.dev, t.id)
      PROVE  \A d \in Devices : \A i \in guests'[d] :
                 /\ i \in guests[d] /\ rows'[d][i] # NoFolder /\ alias'[d][i] \in {alias[d][i], NoId}
                 /\ d # t.dev \/ i # t.id
  <2>1. \A d \in Devices, i \in Ids : rows'[d][i] = IF d = t.dev /\ i = t.id THEN NoFolder ELSE rows[d][i]
    BY <1>1, <1>6, RowType DEF Cascade
  <2>2. t.dev \in Devices /\ t.id \in Ids /\ TablesTyped
    BY <1>1
  <2>3. /\ \A d \in Devices : guests'[d] = IF d = t.dev THEN guests[t.dev] \ {t.id} ELSE guests[d]
        /\ \A d \in Devices, i \in Ids :
             alias'[d][i] = IF d = t.dev /\ alias[t.dev][i] = t.id THEN NoId ELSE alias[d][i]
    <3>1. \A d \in Devices : guests'[d] = IF d = t.dev THEN guests[t.dev] \ {t.id} ELSE guests[d]
      BY <1>6, <2>2, CascadeGuests
    <3>2. \A d \in Devices, i \in Ids :
             alias'[d][i] = IF d = t.dev /\ alias[t.dev][i] = t.id THEN NoId ELSE alias[d][i]
      BY <1>6, <2>2, CascadeAlias
    <3> QED BY <3>1, <3>2
  <2> QED BY <1>1, <2>1, <2>3
<1>7. CASE Deletes(t)
  <2>1. t.op # "link" /\ (UNCHANGED <<rows, guests, alias>> \/ Cascade(t.dev, t.id))
    BY <1>7 DEF Deletes, At
  <2> QED BY <1>2, <1>3, <1>6, <2>1, GuestsLeave
<1>8. CASE LinkDeletes(t)
  <2>1. Cascade(t.dev, t.id) /\ t.op = "link"
    BY <1>8 DEF LinkDeletes, At
  <2>2. \A d \in Devices, i \in Ids : Linking(d, i) /\ (d # t.dev \/ i # t.id) => Linking(d, i)'
    BY <1>2 DEF Linking
  <2> QED BY <1>1, <1>6, <2>1, <2>2 DEF GuestInv, GuestsAreTracked, LinkedGuestsGo, Tracked
<1>9. CASE LinkRecords(t)
  <2>1. t.op = "link" /\ t.step = "alias" /\ UNCHANGED <<rows, guests>>
    BY <1>9 DEF LinkRecords, At
  <2>2. \A d, i : Linking(d, i) => Linking(d, i)'
    BY <1>2, <2>1 DEF Linking
  <2>3. CASE UNCHANGED alias
    BY <1>1, <2>1, <2>2, <2>3, GuestsLeave
  <2>4. CASE alias' = [alias EXCEPT ![t.dev][t.id] = t.other] /\ GoTo(t, "absorb")
    <3>1. Linking(t.dev, t.id)'
      <4> DEFINE u == [t EXCEPT !.step = "absorb"]
      <4>1. u \in work'
        BY <2>4 DEF GoTo, Go
      <4>2. u.dev = t.dev /\ u.op = "link" /\ u.id = t.id /\ u.step # "alias"
        BY <1>1, <2>1, StepOn DEF TaskSteps
      <4> HIDE DEF u
      <4> QED BY <4>1, <4>2 DEF Linking
    <3>2. \A d \in Devices, i \in Ids : alias'[d][i] = IF d = t.dev /\ i = t.id THEN t.other ELSE alias[d][i]
      BY <1>1, <2>4 DEF TablesTyped
    <3> QED BY <1>1, <2>1, <2>2, <3>1, <3>2 DEF GuestInv, GuestsAreTracked, LinkedGuestsGo, Tracked
  <2> QED BY <1>9, <2>3, <2>4 DEF LinkRecords, AddGameAlias
<1>10. CASE LinkAbsorbs(t)
  <2>1. t.op = "link" /\ t.step = "absorb" /\ UNCHANGED <<rows, guests, alias>>
    BY <1>10 DEF LinkAbsorbs, At
  <2>2. CASE rows[t.dev][t.id] # NoFolder
    <3> DEFINE u == [t EXCEPT !.step = "delete"]
    <3>1. u \in work'
      BY <1>10, <2>2 DEF LinkAbsorbs, Tracked, GoTo, Go
    <3>2. u.dev = t.dev /\ u.op = "link" /\ u.id = t.id /\ u.step # "alias"
      BY <1>1, <2>1, StepOn DEF TaskSteps
    <3> HIDE DEF u
    <3>3. \A d, i : Linking(d, i) => Linking(d, i)'
      BY <1>2, <2>1, <3>1, <3>2 DEF Linking
    <3> QED BY <1>1, <2>1, <3>3, GuestsLeave
  <2>3. CASE rows[t.dev][t.id] = NoFolder
    <3>1. \A d \in Devices, i \in Ids : Linking(d, i) /\ (d # t.dev \/ i # t.id) => Linking(d, i)'
      BY <1>2 DEF Linking
    <3> QED BY <1>1, <2>1, <2>3, <3>1 DEF GuestInv, GuestsAreTracked, LinkedGuestsGo, Tracked
  <2> QED BY <2>2, <2>3
<1>11. CASE UnlinkRemoves(t)
  <2>1. t.op # "link" /\ UNCHANGED <<rows, guests>> /\ alias' = [alias EXCEPT ![t.dev][t.id] = NoId]
    BY <1>11 DEF UnlinkRemoves, At
  <2>2. \A d \in Devices, i \in Ids : alias'[d][i] \in {alias[d][i], NoId}
    BY <1>1, <2>1 DEF TablesTyped
  <2> QED BY <1>1, <1>2, <2>1, <2>2, GuestsLeave
<1>12. CASE EnsureJudges(t)
  <2>1. t.op # "link" /\ UNCHANGED <<rows, guests>>
    BY <1>12 DEF EnsureJudges, At
  <2> DEFINE match == CHOOSE i \in SameApp(t.dev) : TRUE
  <2>2. \/ UNCHANGED alias
        \/ /\ alias' = [alias EXCEPT ![t.dev][t.id] = match]
           /\ match # t.id /\ Cardinality(SameApp(t.dev)) = 1
    BY <1>12 DEF EnsureJudges, AddGameAlias
  <2>3. CASE UNCHANGED alias
    BY <1>3, <2>1, <2>3
  <2>4. CASE /\ alias' = [alias EXCEPT ![t.dev][t.id] = match]
             /\ match # t.id /\ Cardinality(SameApp(t.dev)) = 1
    <3>1. match \in SameApp(t.dev)
      BY <2>4, FS_EmptySet
    <3>2. t.id \notin SameApp(t.dev)
      BY <1>1, <2>4, <3>1, MatchIsItself
    <3>3. t.id \notin guests[t.dev]
      BY <1>1, <3>2 DEF SameApp, Tracked
    <3> HIDE DEF match
    <3>4. \A d \in Devices, i \in Ids : d # t.dev \/ i # t.id => alias'[d][i] = alias[d][i]
      BY <1>1, <2>4 DEF TablesTyped
    <3> QED BY <1>1, <1>2, <2>1, <3>3, <3>4, GuestsLeave
  <2> QED BY <2>2, <2>3, <2>4
<1>13. CASE EnsureCreates(t)
  <2>1. t.op = "ensure" /\ t.folder # NoFolder /\ UNCHANGED alias
    BY <1>1, <1>13 DEF EnsureCreates, At, Sensible
  <2>2. CASE UNCHANGED <<rows, guests>>
    BY <1>3, <2>1, <2>2
  <2>3. CASE /\ UnlessAliased(t.dev, t.id) /\ Row(t.dev, t.id, t.folder)
             /\ guests' = [guests EXCEPT ![t.dev] = @ \cup {t.id}]
    <3>1. \A d \in Devices, i \in Ids :
              rows'[d][i] = IF d = t.dev /\ i = t.id THEN t.folder ELSE rows[d][i]
      BY <1>1, <2>3, RowType
    <3>2. alias[t.dev][t.id] = NoId
      BY <2>3 DEF UnlessAliased
    <3>3. \A d \in Devices : \A i \in guests'[d] : i \in guests[d] \/ (d = t.dev /\ i = t.id)
      BY <1>1, <2>3 DEF TablesTyped
    <3> QED BY <1>1, <1>2, <2>1, <3>1, <3>2, <3>3 DEF GuestInv, GuestsAreTracked, LinkedGuestsGo, Tracked
  <2> QED BY <1>13, <2>2, <2>3 DEF EnsureCreates
<1>14. CASE TrackClears(t) \/ TrackChecks(t) \/ BeginWatch(t)
  BY <1>3, <1>14 DEF TrackClears, TrackChecks, BeginWatch, At
<1>15. CASE StopsWatch(t) \/ Entombs(t) \/ RetrackFromPeer(t)
  BY <1>3, <1>15 DEF StopsWatch, Entombs, RetrackFromPeer, At
<1>16. CASE EnsureLooks(t) \/ ResyncLists(t) \/ ResyncApplies(t)
  BY <1>3, <1>16 DEF EnsureLooks, ResyncLists, ResyncApplies, At
<1> QED BY <1>4, <1>5, <1>7, <1>8, <1>9, <1>10, <1>11, <1>12, <1>13, <1>14, <1>15, <1>16 DEF Step

\* All else than a step of a task leaves the tables, and the tasks.
LEMMA OthersAddTasks ==
    ASSUME \/ Operation
           \/ \E m \in wire : Deliver(m) \/ LoseNotice(m)
           \/ \E d, e \in Devices, i \in Ids : AskManifest(d, e, i)
    PROVE  UNCHANGED <<tables, watched, absorbed>> /\ work \subseteq work'
<1>1. CASE Operation
  <2>1. \E t : Ask(t)
    BY <1>1 DEF Operation, Track, Untrack, Link, Unlink, Relocate
  <2> QED BY <2>1 DEF Ask
<1>2. CASE \E m \in wire : Deliver(m) \/ LoseNotice(m)
  BY <1>2 DEF Deliver, LoseNotice
<1>3. CASE \E d, e \in Devices, i \in Ids : AskManifest(d, e, i)
  BY <1>3 DEF AskManifest
<1> QED BY <1>1, <1>2, <1>3

LEMMA GuestInvNext == Typed /\ GuestInv /\ [Next]_vars => GuestInv'
<1> SUFFICES ASSUME Typed, GuestInv, [Next]_vars PROVE GuestInv'
  OBVIOUS
<1>1. CASE \E t \in work : Step(t)
  BY <1>1, GuestStep
<1>2. CASE UNCHANGED <<tables, work>> \/ (UNCHANGED <<tables, watched, absorbed>> /\ work \subseteq work')
  <2>1. UNCHANGED <<rows, guests, alias>> /\ work \subseteq work'
    BY <1>2
  <2>2. \A d, i : Linking(d, i) => Linking(d, i)'
    BY <2>1 DEF Linking
  <2> QED BY <2>1, <2>2 DEF GuestInv, GuestsAreTracked, LinkedGuestsGo, Tracked
<1> QED BY <1>1, <1>2, OthersAddTasks DEF Next

\* A peer's game that was linked is never tracked a second time beside the game it
\* was linked to (CreateGameUnlessAliased), however many links, requests of peers and
\* notices are under way.
THEOREM GuestsLinkedOnce == Spec => []LinkedOnce
<1>1. Init => GuestInv
  BY DEF Init, GuestInv, GuestsAreTracked, LinkedGuestsGo
<1>2. GuestInv => LinkedOnce
  BY DEF GuestInv, LinkedGuestsGo, LinkedOnce, Linking
<1> QED BY <1>1, <1>2, GuestInvNext, TrackingTypeCorrect, PTL DEF Spec

-----------------------------------------------------------------------------
(* What a link merges away: proof                                          *)

StepFacts(t) ==
    /\ t \in Task /\ Sensible(t) /\ t.dev \in Devices /\ t.id \in Ids /\ t.folder \in Folder
    /\ TablesTyped /\ NoFolder \in Folder

LEMMA StepHasFacts == ASSUME Typed, NEW t \in work PROVE StepFacts(t)
    BY DEF StepFacts, Typed, TypeOK, TablesTyped, TasksMakeSense, Task, Folder

\* A folder is remembered as long as the alias is there.
LEMMA RememberedStays ==
    ASSUME Typed, NEW t \in work, Step(t)
    PROVE  \A d \in Devices, i \in Ids :
               remembered[d][i] # NoFolder /\ alias'[d][i] # NoId => remembered'[d][i] # NoFolder
<1>1. t.dev \in Devices /\ t.id \in Ids /\ TablesTyped
  BY StepHasFacts DEF StepFacts
<1>2. CASE UNCHANGED remembered
  BY <1>2
<1>3. CASE Cascade(t.dev, t.id)
  <2>1. \A d \in Devices, i \in Ids :
            alias'[d][i] = IF d = t.dev /\ alias[t.dev][i] = t.id THEN NoId ELSE alias[d][i]
    BY <1>1, <1>3, CascadeAlias
  <2>2. \A d \in Devices, i \in Ids :
            remembered'[d][i] = IF d = t.dev /\ alias[t.dev][i] = t.id THEN NoFolder ELSE remembered[d][i]
    BY <1>1, <1>3, CascadeRemembered
  <2> QED BY <2>1, <2>2
<1>4. CASE UnlinkRemoves(t)
  <2>1. /\ alias' = [alias EXCEPT ![t.dev][t.id] = NoId]
        /\ remembered' = [remembered EXCEPT ![t.dev][t.id] = NoFolder]
    BY <1>4 DEF UnlinkRemoves
  <2>2. alias'[t.dev][t.id] = NoId
    BY <1>1, <2>1 DEF TablesTyped
  <2>3. \A d \in Devices, i \in Ids : d # t.dev \/ i # t.id => remembered'[d][i] = remembered[d][i]
    BY <1>1, <2>1 DEF TablesTyped
  <2> QED BY <2>2, <2>3
<1>5. CASE LinkAbsorbs(t)
  <2>1. \/ UNCHANGED remembered
        \/ /\ remembered' = [remembered EXCEPT ![t.dev][t.id] = rows[t.dev][t.id]]
           /\ rows[t.dev][t.id] # NoFolder
    BY <1>5 DEF LinkAbsorbs, Tracked
  <2>2. CASE /\ remembered' = [remembered EXCEPT ![t.dev][t.id] = rows[t.dev][t.id]]
             /\ rows[t.dev][t.id] # NoFolder
    BY <1>1, <2>2 DEF TablesTyped
  <2> QED BY <1>2, <2>1, <2>2
<1>6. CASE Deletes(t) \/ LinkDeletes(t)
  BY <1>2, <1>3, <1>6 DEF Deletes, LinkDeletes
<1>7. CASE LinkRecords(t) \/ EnsureJudges(t) \/ EnsureCreates(t) \/ EnsureLooks(t) \/ UnlinkRestores(t)
  BY <1>2, <1>7 DEF LinkRecords, EnsureJudges, EnsureCreates, EnsureLooks, UnlinkRestores, AddGameAlias, Remembered
<1>8. CASE TrackClears(t) \/ TrackCreates(t) \/ TrackChecks(t) \/ BeginWatch(t) \/ Relocates(t)
  BY <1>2, <1>8 DEF TrackClears, TrackCreates, TrackChecks, BeginWatch, Relocates
<1>9. CASE StopsWatch(t) \/ Entombs(t) \/ RetrackFromPeer(t) \/ ResyncLists(t) \/ ResyncApplies(t)
  BY <1>2, <1>9 DEF StopsWatch, Entombs, RetrackFromPeer, ResyncLists, ResyncApplies
<1> QED BY <1>4, <1>5, <1>6, <1>7, <1>8, <1>9 DEF Step

\* Where an alias changes: no game becomes its own, and what was absorbed keeps it.
LEMMA AliasMoves ==
    ASSUME Typed, MergeInv, NEW t \in work, Step(t)
    PROVE  /\ NoSelfAlias'
           /\ \A d \in Devices : \A i \in absorbed'[d] : alias[d][i] # NoId => alias'[d][i] # NoId
<1>1. /\ t.dev \in Devices /\ t.id \in Ids /\ TablesTyped /\ Sensible(t) /\ NoId \notin Ids
      /\ \A d \in Devices, i \in Ids : alias[d][i] # i
  BY StepHasFacts, TrackingAssumption DEF StepFacts, MergeInv, NoSelfAlias
<1>2. CASE UNCHANGED alias
  BY <1>1, <1>2 DEF NoSelfAlias
<1>3. ASSUME NEW j \in Ids, j # t.id, alias' = [alias EXCEPT ![t.dev][t.id] = j], UNCHANGED absorbed
      PROVE  /\ NoSelfAlias'
             /\ \A d \in Devices : \A i \in absorbed'[d] : alias[d][i] # NoId => alias'[d][i] # NoId
  <2>1. \A d \in Devices, i \in Ids : alias'[d][i] = IF d = t.dev /\ i = t.id THEN j ELSE alias[d][i]
    BY <1>1, <1>3 DEF TablesTyped
  <2>2. \A d \in Devices : absorbed'[d] \subseteq Ids
    BY <1>1, <1>3 DEF TablesTyped
  <2> QED BY <1>1, <1>3, <2>1, <2>2 DEF NoSelfAlias
<1>4. CASE LinkRecords(t)
  <2>1. t.other \in Ids /\ t.other # t.id
    BY <1>1, <1>4 DEF LinkRecords, At, Sensible
  <2>2. UNCHANGED alias \/ (alias' = [alias EXCEPT ![t.dev][t.id] = t.other] /\ UNCHANGED absorbed)
    BY <1>4 DEF LinkRecords, AddGameAlias
  <2> QED BY <1>2, <1>3, <2>1, <2>2
<1>5. CASE EnsureJudges(t)
  <2> DEFINE match == CHOOSE i \in SameApp(t.dev) : TRUE
  <2>1. \/ UNCHANGED alias
        \/ /\ alias' = [alias EXCEPT ![t.dev][t.id] = match] /\ UNCHANGED absorbed
           /\ match # t.id /\ Cardinality(SameApp(t.dev)) = 1
    BY <1>5 DEF EnsureJudges, AddGameAlias
  <2>2. Cardinality(SameApp(t.dev)) = 1 => match \in Ids
    <3>1. Cardinality(SameApp(t.dev)) = 1 => match \in SameApp(t.dev)
      BY FS_EmptySet
    <3> QED BY <3>1 DEF SameApp
  <2> HIDE DEF match
  <2> QED BY <1>2, <1>3, <2>1, <2>2
<1>6. CASE UnlinkRemoves(t)
  <2>1. /\ alias' = [alias EXCEPT ![t.dev][t.id] = NoId]
        /\ absorbed' = [absorbed EXCEPT ![t.dev] = @ \ {t.id}]
    BY <1>6 DEF UnlinkRemoves
  <2>2. \A d \in Devices, i \in Ids : alias'[d][i] = IF d = t.dev /\ i = t.id THEN NoId ELSE alias[d][i]
    BY <1>1, <2>1 DEF TablesTyped
  <2>3. \A d \in Devices : \A i \in absorbed'[d] : i \in Ids /\ (d # t.dev \/ i # t.id)
    BY <1>1, <2>1 DEF TablesTyped
  <2> QED BY <1>1, <2>2, <2>3 DEF NoSelfAlias
<1>7. ASSUME Cascade(t.dev, t.id),
             \A d \in Devices : \A i \in absorbed'[d] :
                 i \in Ids /\ (d # t.dev \/ alias[d][i] # t.id)
      PROVE  /\ NoSelfAlias'
             /\ \A d \in Devices : \A i \in absorbed'[d] : alias[d][i] # NoId => alias'[d][i] # NoId
  <2>1. \A d \in Devices, i \in Ids :
            alias'[d][i] = IF d = t.dev /\ alias[t.dev][i] = t.id THEN NoId ELSE alias[d][i]
    BY <1>1, <1>7, CascadeAlias
  <2> QED BY <1>1, <1>7, <2>1 DEF NoSelfAlias
<1>8. CASE Deletes(t)
  <2>1. CASE Cascade(t.dev, t.id) /\ absorbed' = [absorbed EXCEPT ![t.dev] = @ \ Lost(t.dev, t.id)]
    <3>1. \A d \in Devices : \A i \in absorbed'[d] : i \in Ids /\ (d # t.dev \/ alias[d][i] # t.id)
      BY <1>1, <2>1 DEF TablesTyped, Lost
    <3> QED BY <1>7, <2>1, <3>1
  <2> QED BY <1>2, <1>8, <2>1 DEF Deletes
<1>9. CASE LinkDeletes(t)
  <2>1. /\ Cascade(t.dev, t.id)
        /\ \A d \in Devices : \A i \in absorbed'[d] : i \in Ids /\ (d # t.dev \/ alias[d][i] # t.id)
    <3> DEFINE new == IF Tracked(t.dev, t.id) /\ alias[t.dev][t.id] # NoId THEN {t.id} ELSE {}
    <3>1. /\ Cascade(t.dev, t.id)
          /\ absorbed' = [absorbed EXCEPT ![t.dev] = (@ \ Lost(t.dev, t.id)) \cup new]
      BY <1>9 DEF LinkDeletes
    <3>2. new \subseteq {t.id}
      OBVIOUS
    <3> HIDE DEF new
    <3> QED BY <1>1, <3>1, <3>2 DEF TablesTyped, Lost
  <2> QED BY <1>7, <2>1
<1>10. CASE LinkAbsorbs(t) \/ EnsureCreates(t) \/ EnsureLooks(t) \/ UnlinkRestores(t)
  BY <1>2, <1>10 DEF LinkAbsorbs, EnsureCreates, EnsureLooks, UnlinkRestores
<1>11. CASE TrackClears(t) \/ TrackCreates(t) \/ TrackChecks(t) \/ BeginWatch(t) \/ Relocates(t)
  BY <1>2, <1>11 DEF TrackClears, TrackCreates, TrackChecks, BeginWatch, Relocates
<1>12. CASE StopsWatch(t) \/ Entombs(t) \/ RetrackFromPeer(t) \/ ResyncLists(t) \/ ResyncApplies(t)
  BY <1>2, <1>12 DEF StopsWatch, Entombs, RetrackFromPeer, ResyncLists, ResyncApplies
<1> QED BY <1>4, <1>5, <1>6, <1>8, <1>9, <1>10, <1>11, <1>12 DEF Step

\* A link under way is one that was, or goes on with its alias there, and the folder of
\* what it found on it.
LEMMA LinksMove ==
    ASSUME Typed, NEW t \in work, Step(t)
    PROVE  \A u \in work' : u.op = "link" =>
               \/ u \in work
               \/ u.step = "absorb" /\ alias'[u.dev][u.id] # NoId
               \/ /\ u.step = "delete" /\ u.dev = t.dev /\ u.id = t.id
                  /\ t.op = "link" /\ t.step = "absorb" /\ UNCHANGED alias
                  /\ alias[t.dev][t.id] # NoId => remembered'[t.dev][t.id] # NoFolder
<1>1. t \in Task /\ Sensible(t) /\ t.dev \in Devices /\ t.id \in Ids /\ TablesTyped /\ NoId \notin Ids
  BY StepHasFacts, TrackingAssumption DEF StepFacts
<1>2. CASE t.op # "link"
  <2>1. \A s \in TaskSteps : [t EXCEPT !.step = s].op # "link"
    BY <1>1, <1>2, StepOn
  <2>2. Resync(t.dev).op # "link"
    BY <1>1, ResyncType
  <2>3. ASSUME NEW s \in TaskSteps, GoTo(t, s) PROVE \A u \in work' : u.op = "link" => u \in work
    BY <2>1, <2>3 DEF GoTo, Go
  <2>4. ASSUME End(t) \/ EndOf(t) PROVE \A u \in work' : u.op = "link" => u \in work
    BY <2>2, <2>4 DEF End, EndOf
  <2>5. CASE TrackClears(t) \/ TrackCreates(t) \/ TrackChecks(t) \/ BeginWatch(t) \/ Relocates(t)
    BY <2>3, <2>4, <2>5 DEF TrackClears, TrackCreates, TrackChecks, BeginWatch, Relocates, TaskSteps
  <2>6. CASE StopsWatch(t) \/ Deletes(t) \/ Entombs(t) \/ RetrackFromPeer(t)
    BY <2>3, <2>4, <2>6 DEF StopsWatch, Deletes, Entombs, RetrackFromPeer, TaskSteps
  <2>7. CASE UnlinkRemoves(t) \/ UnlinkRestores(t) \/ EnsureLooks(t) \/ EnsureJudges(t) \/ EnsureCreates(t)
    BY <2>3, <2>4, <2>7 DEF UnlinkRemoves, UnlinkRestores, EnsureLooks, EnsureJudges, EnsureCreates, TaskSteps
  <2>8. CASE ResyncLists(t)
    <3> DEFINE u == [t EXCEPT !.step = "apply", !.want = rows[t.dev], !.left = Ids]
    <3>1. u.op # "link"
      BY <1>1, <1>2 DEF Task
    <3>2. work' \subseteq work \cup {u}
      BY <2>8 DEF ResyncLists, Go
    <3> HIDE DEF u
    <3> QED BY <3>1, <3>2
  <2>9. CASE ResyncApplies(t)
    <3>1. PICK i \in t.left : IF t.left = {i} THEN End(t) ELSE Go(t, [t EXCEPT !.left = @ \ {i}])
      BY <2>9 DEF ResyncApplies
    <3> DEFINE u == [t EXCEPT !.left = @ \ {i}]
    <3>2. u.op # "link"
      BY <1>1, <1>2 DEF Task
    <3>3. work' \subseteq work \cup {u}
      BY <3>1 DEF End, Go
    <3> HIDE DEF u
    <3> QED BY <3>2, <3>3
  <2>10. ~LinkRecords(t) /\ ~LinkAbsorbs(t) /\ ~LinkDeletes(t)
    BY <1>2 DEF LinkRecords, LinkAbsorbs, LinkDeletes, At
  <2> QED BY <2>4, <2>5, <2>6, <2>7, <2>8, <2>9, <2>10 DEF Step
<1>3. CASE LinkRecords(t)
  <2>1. t.other \in Ids /\ t.op = "link"
    BY <1>1, <1>3 DEF LinkRecords, At, Sensible
  <2>2. CASE End(t)
    BY <2>2 DEF End
  <2>3. CASE alias' = [alias EXCEPT ![t.dev][t.id] = t.other] /\ GoTo(t, "absorb")
    <3> DEFINE u == [t EXCEPT !.step = "absorb"]
    <3>1. u.step = "absorb" /\ u.dev = t.dev /\ u.id = t.id
      BY <1>1, StepOn DEF TaskSteps
    <3>2. work' = (work \ {t}) \cup {u}
      BY <2>3 DEF GoTo, Go
    <3>3. alias'[t.dev][t.id] # NoId
      BY <1>1, <2>1, <2>3 DEF TablesTyped
    <3> HIDE DEF u
    <3> QED BY <3>1, <3>2, <3>3
  <2> QED BY <1>3, <2>2, <2>3 DEF LinkRecords, AddGameAlias
<1>4. CASE LinkAbsorbs(t)
  <2>1. t.op = "link" /\ t.step = "absorb" /\ UNCHANGED alias
    BY <1>4 DEF LinkAbsorbs, At
  <2>2. CASE End(t)
    BY <2>2 DEF End
  <2>3. CASE Tracked(t.dev, t.id) /\ GoTo(t, "delete")
    <3> DEFINE u == [t EXCEPT !.step = "delete"]
    <3>1. u.step = "delete" /\ u.dev = t.dev /\ u.id = t.id
      BY <1>1, StepOn DEF TaskSteps
    <3>2. work' = (work \ {t}) \cup {u}
      BY <2>3 DEF GoTo, Go
    <3>3. ASSUME alias[t.dev][t.id] # NoId PROVE remembered'[t.dev][t.id] # NoFolder
      <4>1. remembered' = [remembered EXCEPT ![t.dev][t.id] = rows[t.dev][t.id]]
        BY <1>4, <2>3, <3>3 DEF LinkAbsorbs
      <4> QED BY <1>1, <2>3, <4>1 DEF TablesTyped, Tracked
    <3> HIDE DEF u
    <3> QED BY <2>1, <3>1, <3>2, <3>3
  <2> QED BY <1>4, <2>2, <2>3 DEF LinkAbsorbs
<1>5. CASE LinkDeletes(t)
  BY <1>5 DEF LinkDeletes, End
<1>6. t.op = "link" => LinkRecords(t) \/ LinkAbsorbs(t) \/ LinkDeletes(t)
  BY DEF Step, TrackClears, TrackCreates, TrackChecks, BeginWatch, Relocates, StopsWatch, Deletes, Entombs,
         RetrackFromPeer, UnlinkRemoves, UnlinkRestores, EnsureLooks, EnsureJudges, EnsureCreates,
         ResyncLists, ResyncApplies, At
<1> QED BY <1>2, <1>3, <1>4, <1>5, <1>6

\* What is absorbed now was absorbed before, or is what a link just removed.
LEMMA AbsorbedMoves ==
    ASSUME Typed, NEW t \in work, Step(t)
    PROVE  \A d \in Devices : \A i \in absorbed'[d] :
               \/ i \in absorbed[d]
               \/ /\ d = t.dev /\ i = t.id /\ t.op = "link" /\ t.step = "delete" /\ alias[d][i] # NoId
<1>1. t.dev \in Devices /\ t.id \in Ids /\ TablesTyped
  BY StepHasFacts DEF StepFacts
<1>2. CASE UNCHANGED absorbed
  BY <1>2
<1>3. CASE LinkDeletes(t)
  <2> DEFINE new == IF Tracked(t.dev, t.id) /\ alias[t.dev][t.id] # NoId THEN {t.id} ELSE {}
  <2>1. /\ t.op = "link" /\ t.step = "delete"
        /\ absorbed' = [absorbed EXCEPT ![t.dev] = (@ \ Lost(t.dev, t.id)) \cup new]
    BY <1>3 DEF LinkDeletes, At
  <2>2. \A i \in new : i = t.id /\ alias[t.dev][t.id] # NoId
    OBVIOUS
  <2> HIDE DEF new
  <2> QED BY <1>1, <2>1, <2>2 DEF TablesTyped
<1>4. CASE Deletes(t)
  <2>1. CASE absorbed' = [absorbed EXCEPT ![t.dev] = @ \ Lost(t.dev, t.id)]
    BY <1>1, <2>1 DEF TablesTyped
  <2> QED BY <1>2, <1>4, <2>1 DEF Deletes
<1>5. CASE UnlinkRemoves(t)
  <2>1. absorbed' = [absorbed EXCEPT ![t.dev] = @ \ {t.id}]
    BY <1>5 DEF UnlinkRemoves
  <2> QED BY <1>1, <2>1 DEF TablesTyped
<1>6. CASE TrackClears(t) \/ TrackCreates(t) \/ TrackChecks(t) \/ BeginWatch(t) \/ Relocates(t)
  BY <1>2, <1>6 DEF TrackClears, TrackCreates, TrackChecks, BeginWatch, Relocates
<1>7. CASE StopsWatch(t) \/ Entombs(t) \/ RetrackFromPeer(t) \/ ResyncLists(t) \/ ResyncApplies(t)
  BY <1>2, <1>7 DEF StopsWatch, Entombs, RetrackFromPeer, ResyncLists, ResyncApplies
<1>8. CASE \/ LinkRecords(t) \/ LinkAbsorbs(t) \/ UnlinkRestores(t)
           \/ EnsureLooks(t) \/ EnsureJudges(t) \/ EnsureCreates(t)
  BY <1>2, <1>8 DEF LinkRecords, LinkAbsorbs, UnlinkRestores, EnsureLooks, EnsureJudges, EnsureCreates
<1> QED BY <1>3, <1>4, <1>5, <1>6, <1>7, <1>8 DEF Step

\* The history of Next: an alias that goes while its link is under way is undone.
LEMMA UndoneGrows ==
    ASSUME Typed, Next
    PROVE  \A d \in Devices : \A i \in Ids \ undone'[d] :
               /\ i \notin undone[d]
               /\ alias[d][i] # NoId /\ Linking(d, i) => alias'[d][i] # NoId
    BY DEF Next

LEMMA MergeStep ==
    ASSUME Typed, MergeInv, Next, NEW t \in work, Step(t)
    PROVE  MergeInv'
<1>1. /\ t \in Task /\ t.dev \in Devices /\ t.id \in Ids /\ TablesTyped
      /\ work' \subseteq Task /\ work \subseteq Task
  BY StepHasFacts, TypedStepOfTask DEF StepFacts, TypedStep, Typed, TypeOK
<1>2. LinkHolds'
  <2> SUFFICES ASSUME NEW u \in work', u.op = "link", u.id \notin undone'[u.dev]
               PROVE  /\ u.step \in {"absorb", "delete"} => alias'[u.dev][u.id] # NoId
                      /\ u.step = "delete" => remembered'[u.dev][u.id] # NoFolder
    BY DEF LinkHolds
  <2>1. /\ u.dev \in Devices /\ u.id \in Ids /\ u.id \notin undone[u.dev]
        /\ alias[u.dev][u.id] # NoId /\ Linking(u.dev, u.id) => alias'[u.dev][u.id] # NoId
    BY <1>1, UndoneGrows DEF Task
  <2>2. CASE u \in work
    <3>1. u.step \in {"absorb", "delete"} => Linking(u.dev, u.id) /\ alias[u.dev][u.id] # NoId
      BY <2>1, <2>2 DEF MergeInv, LinkHolds, Linking
    <3>2. u.step = "delete" => remembered[u.dev][u.id] # NoFolder
      BY <2>1, <2>2 DEF MergeInv, LinkHolds
    <3> QED BY <2>1, <3>1, <3>2, RememberedStays
  <2>3. CASE /\ u.step = "delete" /\ u.dev = t.dev /\ u.id = t.id
             /\ t.op = "link" /\ t.step = "absorb" /\ UNCHANGED alias
             /\ alias[t.dev][t.id] # NoId => remembered'[t.dev][t.id] # NoFolder
    <3>1. alias[t.dev][t.id] # NoId
      BY <2>1, <2>3 DEF MergeInv, LinkHolds
    <3> QED BY <2>3, <3>1
  <2> QED BY <2>2, <2>3, LinksMove
<1>3. MergedCanComeBack'
  <2> SUFFICES ASSUME NEW d \in Devices, NEW i \in absorbed'[d], i \notin undone'[d]
               PROVE  alias'[d][i] # NoId /\ remembered'[d][i] # NoFolder
    BY DEF MergedCanComeBack
  <2>1. i \in Ids /\ i \notin undone[d]
    <3>1. i \in Ids
      BY TypedStepOfTask DEF TypedStep, TablesTyped
    <3> QED BY <3>1, UndoneGrows
  <2>2. alias[d][i] # NoId /\ remembered[d][i] # NoFolder
    BY <2>1, AbsorbedMoves DEF MergeInv, MergedCanComeBack, LinkHolds
  <2>3. alias'[d][i] # NoId
    BY <2>2, AliasMoves
  <2> QED BY <2>1, <2>2, <2>3, RememberedStays
<1> QED BY <1>2, <1>3, AliasMoves DEF MergeInv

LEMMA MergeInvNext == Typed /\ MergeInv /\ [Next]_vars => MergeInv'
<1> SUFFICES ASSUME Typed, MergeInv, [Next]_vars PROVE MergeInv'
  OBVIOUS
<1>1. CASE UNCHANGED vars
  BY <1>1 DEF MergeInv, NoSelfAlias, LinkHolds, MergedCanComeBack
<1>2. CASE Next /\ \E t \in work : Step(t)
  BY <1>2, MergeStep
<1>3. CASE Next /\ ~(\E t \in work : Step(t))
  <2>1. \/ Operation
        \/ \E m \in wire : Deliver(m) \/ LoseNotice(m)
        \/ \E d, e \in Devices, i \in Ids : AskManifest(d, e, i)
    BY <1>3 DEF Next
  <2>2. UNCHANGED <<alias, remembered, absorbed>>
    BY <2>1, OthersAddTasks
  <2>3. ASSUME NEW u \in work' PROVE u \in work \/ u.op # "link" \/ u.step = "alias"
    <3>1. CASE Operation
      <4>1. PICK d \in Devices, i \in Ids, app \in BOOLEAN :
                 \/ \E f \in Folders : Track(d, i, f, app) \/ Relocate(d, i, f, app)
                 \/ Untrack(d, i, app) \/ Unlink(d, i)
                 \/ \E j \in Ids : Link(d, i, j)
        BY <3>1 DEF Operation
      <4>2. ASSUME NEW f PROVE /\ [NewTask(d, "track", "clear", i) EXCEPT !.folder = f, !.app = app].op # "link"
                               /\ [NewTask(d, "relocate", "update", i) EXCEPT !.folder = f, !.app = app].op # "link"
                               /\ [NewTask(d, "unlink", "alias", i) EXCEPT !.folder = f].op # "link"
                               /\ [NewTask(d, "untrack", "unwatch", i) EXCEPT !.app = app].op # "link"
                               /\ [NewTask(d, "link", "alias", i) EXCEPT !.other = f].step = "alias"
        BY DEF NewTask
      <4>3. CASE \E f \in Folders : Track(d, i, f, app) \/ Relocate(d, i, f, app)
        BY <4>2, <4>3 DEF Track, Relocate, Ask
      <4>4. CASE Untrack(d, i, app) \/ Unlink(d, i) \/ \E j \in Ids : Link(d, i, j)
        BY <4>2, <4>4 DEF Untrack, Unlink, Link, Ask
      <4> QED BY <4>1, <4>3, <4>4
    <3>2. CASE \E m \in wire : Deliver(m) \/ LoseNotice(m)
      BY <3>2 DEF Deliver, LoseNotice, NewTask
    <3>3. CASE \E d, e \in Devices, i \in Ids : AskManifest(d, e, i)
      BY <3>3 DEF AskManifest, NewTask
    <3> QED BY <2>1, <3>1, <3>2, <3>3
  <2>4. \A d \in Devices, i \in Ids : i \notin undone'[d] => i \notin undone[d]
    BY <1>3, UndoneGrows
  <2>5. /\ \A u \in work' : u.dev \in Devices /\ u.id \in Ids
        /\ \A d \in Devices : absorbed[d] \subseteq Ids
    <3>1. Typed'
      BY TypedNext
    <3> QED BY <3>1 DEF Typed, TypeOK, Task
  <2>6. LinkHolds'
    BY <2>2, <2>3, <2>4, <2>5 DEF MergeInv, LinkHolds
  <2> QED BY <2>2, <2>4, <2>5, <2>6 DEF MergeInv, NoSelfAlias, MergedCanComeBack
<1> QED BY <1>1, <1>2, <1>3

\* What a link merged away stays remembered, so that unlinking brings it back
\* (0008_alias_restore.sql), however often and to whatever it is linked again, unless
\* its link was removed before LinkGames was done with it.
THEOREM MergedIsRemembered == Spec => []MergedCanComeBack
<1>1. Init => MergeInv
  BY TrackingAssumption DEF Init, MergeInv, NoSelfAlias, LinkHolds, MergedCanComeBack
<1>2. MergeInv => MergedCanComeBack
  BY DEF MergeInv
<1> QED BY <1>1, <1>2, MergeInvNext, TrackingTypeCorrect, PTL DEF Spec

-----------------------------------------------------------------------------
(* Resyncs: proof                                                          *)

\* A step is about its own device.
LEMMA OwnDeviceOnly ==
    ASSUME Typed, NEW t \in work, Step(t)
    PROVE  \A d \in Devices \ {t.dev} : rows'[d] = rows[d] /\ watched'[d] = watched[d]
<1>1. t.dev \in Devices /\ t.id \in Ids /\ TablesTyped
  BY StepHasFacts DEF StepFacts
<1>2. ASSUME UNCHANGED rows \/ \E f : Row(t.dev, t.id, f) PROVE \A d \in Devices \ {t.dev} : rows'[d] = rows[d]
  BY <1>1, <1>2 DEF Row, TablesTyped
<1>3. ASSUME UNCHANGED watched \/ \E i, f : watched' = [watched EXCEPT ![t.dev][i] = f]
      PROVE  \A d \in Devices \ {t.dev} : watched'[d] = watched[d]
  BY <1>1, <1>3 DEF TablesTyped
<1>4. ASSUME NEW f, Watch(t, t.id, f)
      PROVE  UNCHANGED watched \/ \E i, g : watched' = [watched EXCEPT ![t.dev][i] = g]
  BY <1>4 DEF Watch
<1>5. CASE TrackClears(t) \/ TrackCreates(t) \/ TrackChecks(t) \/ Relocates(t)
  BY <1>2, <1>3, <1>5 DEF TrackClears, TrackCreates, TrackChecks, Relocates
<1>6. CASE BeginWatch(t) \/ StopsWatch(t)
  BY <1>2, <1>3, <1>4, <1>6 DEF BeginWatch, StopsWatch
<1>7. CASE Deletes(t) \/ LinkDeletes(t)
  BY <1>2, <1>3, <1>7 DEF Deletes, LinkDeletes, Cascade
<1>8. CASE Entombs(t) \/ RetrackFromPeer(t) \/ LinkRecords(t) \/ UnlinkRemoves(t) \/ UnlinkRestores(t)
  BY <1>2, <1>3, <1>8 DEF Entombs, RetrackFromPeer, LinkRecords, UnlinkRemoves, UnlinkRestores
<1>9. CASE LinkAbsorbs(t)
  BY <1>2, <1>3, <1>4, <1>9 DEF LinkAbsorbs
<1>10. CASE EnsureLooks(t) \/ EnsureJudges(t) \/ EnsureCreates(t) \/ ResyncLists(t)
  BY <1>2, <1>3, <1>10 DEF EnsureLooks, EnsureJudges, EnsureCreates, ResyncLists
<1>11. CASE ResyncApplies(t)
  BY <1>2, <1>3, <1>11 DEF ResyncApplies
<1> QED BY <1>5, <1>6, <1>7, <1>8, <1>9, <1>10, <1>11 DEF Step

\* What a step leaves in place of its task.
LEMMA TaskGoesOn ==
    ASSUME Typed, NEW t \in work, Step(t)
    PROVE  \A u \in work' : u \notin work =>
               /\ u.dev = t.dev
               /\ \/ u = Resync(t.dev)
                  \/ t.op # "resync" /\ u.op = t.op /\ u.id = t.id /\ u.step # "clear"
                  \/ t.op = "resync" /\ u.op = "resync"
<1>1. t \in Task /\ t.dev \in Devices
  BY StepHasFacts DEF StepFacts
<1>2. Resync(t.dev).dev = t.dev
  BY <1>1, ResyncType DEF Task
<1>3. ASSUME NEW s \in TaskSteps \ {"clear"}, GoTo(t, s), t.op # "resync"
      PROVE  \A u \in work' : u \notin work =>
                 /\ u.dev = t.dev /\ u.op = t.op /\ u.id = t.id /\ u.step # "clear"
  <2> DEFINE v == [t EXCEPT !.step = s]
  <2>1. v.dev = t.dev /\ v.op = t.op /\ v.id = t.id /\ v.step # "clear"
    BY <1>1, <1>3, StepOn
  <2>2. work' = (work \ {t}) \cup {v}
    BY <1>3 DEF GoTo, Go
  <2> HIDE DEF v
  <2> QED BY <2>1, <2>2
<1>4. ASSUME End(t) \/ EndOf(t) PROVE \A u \in work' : u \notin work => u = Resync(t.dev)
  BY <1>4 DEF End, EndOf
<1>5. CASE TrackClears(t) \/ TrackCreates(t) \/ TrackChecks(t) \/ BeginWatch(t) \/ Relocates(t)
  BY <1>2, <1>3, <1>4, <1>5 DEF TrackClears, TrackCreates, TrackChecks, BeginWatch, Relocates, TaskSteps, At
<1>6. CASE StopsWatch(t) \/ Deletes(t) \/ Entombs(t) \/ RetrackFromPeer(t)
  BY <1>2, <1>3, <1>4, <1>6 DEF StopsWatch, Deletes, Entombs, RetrackFromPeer, TaskSteps, At
<1>7. CASE LinkRecords(t) \/ LinkAbsorbs(t) \/ LinkDeletes(t) \/ UnlinkRemoves(t) \/ UnlinkRestores(t)
  BY <1>2, <1>3, <1>4, <1>7 DEF LinkRecords, LinkAbsorbs, LinkDeletes, UnlinkRemoves, UnlinkRestores, TaskSteps, At
<1>8. CASE EnsureLooks(t) \/ EnsureJudges(t) \/ EnsureCreates(t)
  BY <1>2, <1>3, <1>4, <1>8 DEF EnsureLooks, EnsureJudges, EnsureCreates, TaskSteps, At
<1>9. CASE ResyncLists(t)
  <2> DEFINE v == [t EXCEPT !.step = "apply", !.want = rows[t.dev], !.left = Ids]
  <2>1. v.dev = t.dev /\ v.op = "resync" /\ t.op = "resync"
    BY <1>1, <1>9 DEF Task, ResyncLists, At
  <2>2. work' = (work \ {t}) \cup {v}
    BY <1>9 DEF ResyncLists, Go
  <2> HIDE DEF v
  <2> QED BY <2>1, <2>2
<1>10. CASE ResyncApplies(t)
  <2>1. PICK i \in t.left : IF t.left = {i} THEN End(t) ELSE Go(t, [t EXCEPT !.left = @ \ {i}])
    BY <1>10 DEF ResyncApplies
  <2> DEFINE v == [t EXCEPT !.left = @ \ {i}]
  <2>2. v.dev = t.dev /\ v.op = "resync" /\ t.op = "resync"
    BY <1>1, <1>10 DEF Task, ResyncApplies, At
  <2>3. work' \subseteq work \cup {v}
    BY <2>1 DEF End, Go
  <2> HIDE DEF v
  <2> QED BY <2>2, <2>3
<1> QED BY <1>5, <1>6, <1>7, <1>8, <1>9, <1>10 DEF Step

\* What a task of a resync does.
LEMMA ResyncStep ==
    ASSUME Typed, ResyncInv, NEW t \in work, Step(t), t.op = "resync"
    PROVE  /\ UNCHANGED rows
           /\ steady[t.dev] => \A i \in Ids :
                 watched'[t.dev][i] \in {watched[t.dev][i], rows[t.dev][i]}
           /\ \A u \in work' : u \notin work /\ steady[t.dev] /\ t.step = "apply" =>
                 u.want = rows[t.dev] /\ \A i \in Ids \ u.left : watched'[t.dev][i] = rows[t.dev][i]
           /\ \A u \in work' : u \notin work /\ t.step # "apply" => u.want = rows[t.dev] /\ u.left = Ids
<1>1. t \in Task /\ t.dev \in Devices /\ TablesTyped
  BY StepHasFacts DEF StepFacts
<1>2. CASE ResyncLists(t)
  <2> DEFINE v == [t EXCEPT !.step = "apply", !.want = rows[t.dev], !.left = Ids]
  <2>1. v.want = rows[t.dev] /\ v.left = Ids /\ t.step = "list"
    BY <1>1, <1>2 DEF Task, ResyncLists, At
  <2>2. work' = (work \ {t}) \cup {v} /\ UNCHANGED <<rows, watched>>
    BY <1>2 DEF ResyncLists, Go
  <2> HIDE DEF v
  <2> QED BY <2>1, <2>2
<1>3. CASE ResyncApplies(t)
  <2>1. PICK i \in t.left :
          /\ watched' = [watched EXCEPT ![t.dev][i] = t.want[i]]
          /\ IF t.left = {i} THEN End(t) ELSE Go(t, [t EXCEPT !.left = @ \ {i}])
    BY <1>3 DEF ResyncApplies, Reconciled
  <2> DEFINE v == [t EXCEPT !.left = @ \ {i}]
  <2>2. v.want = t.want /\ v.left = t.left \ {i} /\ t.left \subseteq Ids /\ t.step = "apply" /\ UNCHANGED rows
    BY <1>1, <1>3 DEF Task, ResyncApplies, At
  <2>3. work' \subseteq work \cup {v}
    BY <2>1 DEF End, Go
  <2> HIDE DEF v
  <2>4. \A j \in Ids : watched'[t.dev][j] = IF j = i THEN t.want[i] ELSE watched[t.dev][j]
    BY <1>1, <2>1, <2>2 DEF TablesTyped
  <2>5. steady[t.dev] => /\ t.want = rows[t.dev]
                         /\ \A j \in Ids \ t.left : watched[t.dev][j] = rows[t.dev][j]
    BY <2>2 DEF ResyncInv, ResyncSeesRows
  <2> QED BY <2>1, <2>2, <2>3, <2>4, <2>5
<1>4. ResyncLists(t) \/ ResyncApplies(t)
  BY DEF Step, TrackClears, TrackCreates, TrackChecks, BeginWatch, Relocates, StopsWatch, Deletes, Entombs,
         RetrackFromPeer, LinkRecords, LinkAbsorbs, LinkDeletes, UnlinkRemoves, UnlinkRestores,
         EnsureLooks, EnsureJudges, EnsureCreates, At
<1> QED BY <1>2, <1>3, <1>4

\* What all else adds is no resync.
LEMMA OthersAddNoResync ==
    ASSUME \/ Operation
           \/ \E m \in wire : Deliver(m) \/ LoseNotice(m)
           \/ \E d, e \in Devices, i \in Ids : AskManifest(d, e, i)
    PROVE  \A u \in work' : u \in work \/ u.op # "resync"
<1>1. CASE Operation
  <2>1. PICK d \in Devices, i \in Ids, app \in BOOLEAN :
             \/ \E f \in Folders : Track(d, i, f, app) \/ Relocate(d, i, f, app)
             \/ Untrack(d, i, app) \/ Unlink(d, i)
             \/ \E j \in Ids : Link(d, i, j)
    BY <1>1 DEF Operation
  <2>2. ASSUME NEW f PROVE /\ [NewTask(d, "track", "clear", i) EXCEPT !.folder = f, !.app = app].op # "resync"
                           /\ [NewTask(d, "relocate", "update", i) EXCEPT !.folder = f, !.app = app].op # "resync"
                           /\ [NewTask(d, "unlink", "alias", i) EXCEPT !.folder = f].op # "resync"
                           /\ [NewTask(d, "untrack", "unwatch", i) EXCEPT !.app = app].op # "resync"
                           /\ [NewTask(d, "link", "alias", i) EXCEPT !.other = f].op # "resync"
    BY DEF NewTask
  <2>3. CASE \E f \in Folders : Track(d, i, f, app) \/ Relocate(d, i, f, app)
    BY <2>2, <2>3 DEF Track, Relocate, Ask
  <2>4. CASE Untrack(d, i, app) \/ Unlink(d, i) \/ \E j \in Ids : Link(d, i, j)
    BY <2>2, <2>4 DEF Untrack, Unlink, Link, Ask
  <2> QED BY <2>1, <2>3, <2>4
<1>2. CASE \E m \in wire : Deliver(m) \/ LoseNotice(m)
  BY <1>2 DEF Deliver, LoseNotice, NewTask
<1>3. CASE \E d, e \in Devices, i \in Ids : AskManifest(d, e, i)
  BY <1>3 DEF AskManifest, NewTask
<1> QED BY <1>1, <1>2, <1>3

LEMMA ResyncInvNext == Typed /\ ResyncInv /\ [Next]_vars => ResyncInv'
<1> SUFFICES ASSUME Typed, ResyncInv, [Next]_vars PROVE ResyncInv'
  OBVIOUS
<1>1. CASE UNCHANGED vars
  BY <1>1 DEF ResyncInv, SteadyMeansResync, ResyncSeesRows
<1>2. CASE Next
  <2>1. \A d \in Devices : steady'[d] => /\ \A u \in work' : u.dev = d => u.op = "resync"
                                         /\ steady[d] \/ ~Applying(d, work)
    <3>1. steady' = [d \in Devices |-> /\ \A u \in work' : u.dev = d => u.op = "resync"
                                       /\ steady[d] \/ ~Applying(d, work)]
      BY <1>2 DEF Next
    <3> QED BY <3>1, Zenon
  <2>2. SteadyMeansResync'
    <3> SUFFICES ASSUME NEW d \in Devices, steady'[d], NEW u \in work', u.dev = d PROVE u.op = "resync"
      BY Zenon DEF SteadyMeansResync
    <3> QED BY <2>1, Zenon
  <2>3. ResyncSeesRows'
    <3> SUFFICES ASSUME NEW u \in work', u.op = "resync", u.step = "apply", steady'[u.dev]
                 PROVE  /\ u.want = rows'[u.dev]
                        /\ \A i \in Ids \ u.left : watched'[u.dev][i] = rows'[u.dev][i]
      BY DEF ResyncSeesRows
    <3>1. u.dev \in Devices
      BY TypedNext DEF Typed, TypeOK, Task
    <3>2. u \in work => /\ steady[u.dev] /\ u.want = rows[u.dev]
                        /\ \A i \in Ids \ u.left : watched[u.dev][i] = rows[u.dev][i]
      BY <2>1, <3>1 DEF Applying, ResyncInv, ResyncSeesRows
    <3>3. CASE ~(\E t \in work : Step(t))
      BY <1>2, <3>2, <3>3, OthersAddTasks, OthersAddNoResync DEF Next
    <3>4. ASSUME NEW t \in work, Step(t)
          PROVE  /\ u.want = rows'[u.dev]
                 /\ \A i \in Ids \ u.left : watched'[u.dev][i] = rows'[u.dev][i]
      <4>1. CASE u \in work /\ u.dev # t.dev
        BY <3>1, <3>2, <3>4, <4>1, OwnDeviceOnly
      <4>2. CASE u \in work /\ u.dev = t.dev
        <5>1. t.op = "resync"
          BY <3>1, <3>2, <4>2 DEF ResyncInv, SteadyMeansResync
        <5> QED BY <3>2, <3>4, <4>2, <5>1, ResyncStep
      <4>3. CASE u \notin work
        <5>1. u.dev = t.dev /\ u # Resync(t.dev)
          BY <3>1, <3>4, <4>3, TaskGoesOn, ResyncType, StepHasFacts DEF StepFacts
        <5>2. t.op = "resync"
          BY <3>4, <4>3, <5>1, TaskGoesOn
        <5>3. t.step = "apply" => steady[t.dev]
          BY <2>1, <3>1, <5>1, <5>2 DEF Applying
        <5> QED BY <3>4, <4>3, <5>1, <5>2, <5>3, ResyncStep
      <4> QED BY <4>1, <4>2, <4>3
    <3> QED BY <3>3, <3>4
  <2> QED BY <2>2, <2>3 DEF ResyncInv
<1> QED BY <1>1, <1>2

\* A resync that nothing but other resyncs overlaps leaves the app watching what the
\* tables say, as far as it has come (ResyncWatchers).
THEOREM ResyncIsFaithful == Spec => []ResyncRepairs
<1>1. Init => ResyncInv
  BY DEF Init, ResyncInv, SteadyMeansResync, ResyncSeesRows
<1>2. ResyncInv => ResyncRepairs
  BY DEF ResyncInv, ResyncSeesRows, ResyncRepairs
<1> QED BY <1>1, <1>2, ResyncInvNext, TrackingTypeCorrect, PTL DEF Spec

-----------------------------------------------------------------------------
(* Tombstones: proof                                                       *)

\* Which words a step leaves.
LEMMA DisturbedWords ==
    ASSUME Typed, NEW i \in Ids, Disturbed(i)
    PROVE  /\ lastWord'[i].alone = FALSE
           /\ \A j \in Ids : j # i => lastWord'[j] = lastWord[j]
    BY DEF Disturbed, Typed, TypeOK

\* Tasks and notices about another id do not matter to the word on this one.
LEMMA OtherIds ==
    ASSUME TombInv, NEW i \in Ids, lastWord'[i] = lastWord[i],
           \A d \in Devices : i \in tombs'[d] <=> i \in tombs[d],
           \A u \in work : u.id = i => u \in work',
           \A u \in work' : u.id = i /\ u \notin work => u.op \notin {"track", "clear", "untrack", "mirror"},
           \A m \in wire \cup wire' : m.id = i => (m \in wire <=> m \in wire')
    PROVE  WordSpreads(i)'
<1>1. ASSUME UntrackSpreads(i) PROVE UntrackSpreads(i)'
  <2>1. \A u \in work' : u.id = i => u.op \notin {"track", "clear"}
    BY <1>1 DEF UntrackSpreads
  <2>2. \A m \in wire' : m.id = i => m.op = "untrack"
    BY <1>1 DEF UntrackSpreads
  <2>3. ASSUME NEW d \in Devices
        PROVE  \/ i \in tombs'[d]
               \/ \E u \in work' : u.id = i /\ (u.op = "untrack" \/ (u.op = "mirror" /\ u.dev = d))
               \/ \E m \in wire' : m.id = i /\ m.to = d
    BY <1>1 DEF UntrackSpreads
  <2> QED BY <2>1, <2>2, <2>3 DEF UntrackSpreads
<1>2. ASSUME RetrackSpreads(i) PROVE RetrackSpreads(i)'
  <2>1. \A u \in work' : u.id = i => u.op \notin {"untrack", "mirror"}
    BY <1>2 DEF RetrackSpreads
  <2>2. \A m \in wire' : m.id = i => m.op = "retrack"
    BY <1>2 DEF RetrackSpreads
  <2>3. ASSUME NEW d \in Devices
        PROVE  \/ i \notin tombs'[d]
               \/ \E u \in work' : u.id = i /\ ((u.op = "track" /\ u.step = "clear") \/ (u.op = "clear" /\ u.dev = d))
               \/ \E m \in wire' : m.id = i /\ m.to = d
    BY <1>2 DEF RetrackSpreads
  <2> QED BY <2>1, <2>2, <2>3 DEF RetrackSpreads
<1> QED BY <1>1, <1>2 DEF TombInv, WordSpreads

\* A step that leaves the tombstones and the notices, of a task that goes on, or
\* that was not about them.
LEMMA QuietStep ==
    ASSUME Typed, TombInv, NEW t \in work, Step(t), NEW i \in Ids,
           UNCHANGED <<tombs, wire>>, lastWord'[i] = lastWord[i],
           t.op # "clear" /\ ~(t.op = "track" /\ t.step = "clear"),
           t.op \in {"untrack", "mirror"} => \E u \in work' : u.op = t.op /\ u.id = t.id /\ u.dev = t.dev
    PROVE  WordSpreads(i)'
<1>1. \A u \in work' : u \notin work => u.op = "resync" \/ (u.op = t.op /\ u.id = t.id)
  BY TaskGoesOn, StepHasFacts, ResyncType DEF StepFacts
<1>2. work \ {t} \subseteq work'
  BY OneTaskMoves
<1>3. ASSUME UntrackSpreads(i) PROVE UntrackSpreads(i)'
  <2>1. \A u \in work' : u.id = i => u.op \notin {"track", "clear"}
    BY <1>1, <1>3 DEF UntrackSpreads
  <2>2. ASSUME NEW d \in Devices
        PROVE  \/ i \in tombs'[d]
               \/ \E u \in work' : u.id = i /\ (u.op = "untrack" \/ (u.op = "mirror" /\ u.dev = d))
               \/ \E m \in wire' : m.id = i /\ m.to = d
    BY <1>2, <1>3 DEF UntrackSpreads
  <2> QED BY <1>3, <2>1, <2>2 DEF UntrackSpreads
<1>4. ASSUME RetrackSpreads(i) PROVE RetrackSpreads(i)'
  <2>1. \A u \in work' : u.id = i => u.op \notin {"untrack", "mirror"}
    BY <1>1, <1>4 DEF RetrackSpreads
  <2>2. ASSUME NEW d \in Devices
        PROVE  \/ i \notin tombs'[d]
               \/ \E u \in work' : u.id = i /\ ((u.op = "track" /\ u.step = "clear") \/ (u.op = "clear" /\ u.dev = d))
               \/ \E m \in wire' : m.id = i /\ m.to = d
    BY <1>2, <1>4 DEF RetrackSpreads
  <2> QED BY <1>4, <2>1, <2>2 DEF RetrackSpreads
<1> QED BY <1>3, <1>4 DEF TombInv, WordSpreads

\* What Retrack and Notify put on the wire.
Sent(d, word, i) == wire' = wire \cup {[op |-> word, to |-> e, id |-> i, nr |-> ops] : e \in Devices \ {d}}

LEMMA NoticesSent ==
    ASSUME NEW d, NEW i, NEW word, Sent(d, word, i)
    PROVE  /\ wire \subseteq wire'
           /\ \A m \in wire' : m \in wire \/ (m.op = word /\ m.id = i)
           /\ \A e \in Devices \ {d} : \E m \in wire' : m.id = i /\ m.to = e
<1> DEFINE m(e) == [op |-> word, to |-> e, id |-> i, nr |-> ops]
<1>1. \A e : m(e).op = word /\ m(e).to = e /\ m(e).id = i
  OBVIOUS
<1>2. wire' = wire \cup {m(e) : e \in Devices \ {d}}
  BY DEF Sent
<1> HIDE DEF m
<1>3. \A e \in Devices \ {d} : m(e) \in wire'
  BY <1>2
<1>4. \A n \in wire' : n \in wire \/ \E e : n = m(e)
  BY <1>2
<1>5. wire \subseteq wire'
  BY <1>2
<1> QED BY <1>1, <1>3, <1>4, <1>5

LEMMA TombStep ==
    ASSUME Typed, TombInv, NEW t \in work, Step(t)
    PROVE  TombInv'
<1> SUFFICES ASSUME NEW i \in Ids PROVE WordSpreads(i)'
  BY DEF TombInv
<1>1. /\ t \in Task /\ t.dev \in Devices /\ t.id \in Ids /\ TablesTyped
      /\ work \ {t} \subseteq work' /\ WordSpreads(i)
  BY StepHasFacts, OneTaskMoves DEF StepFacts, TombInv
<1>2. \A u \in work' : u \notin work => u.op = "resync" \/ (u.op = t.op /\ u.id = t.id /\ u.step # "clear")
  BY TaskGoesOn, StepHasFacts, ResyncType DEF StepFacts
<1>3. CASE TrackClears(t)
  <2>1. /\ t.op = "track" /\ UNCHANGED lastWord
        /\ tombs' = [tombs EXCEPT ![t.dev] = @ \ {t.id}]
        /\ wire' = wire \cup {[op |-> "retrack", to |-> e, id |-> t.id, nr |-> ops] : e \in Devices \ {t.dev}}
    BY <1>3 DEF TrackClears, At, Retrack
  <2>2. \A d \in Devices : tombs'[d] = IF d = t.dev THEN tombs[d] \ {t.id} ELSE tombs[d]
    BY <1>1, <2>1 DEF TablesTyped
  <2>3. /\ wire \subseteq wire' /\ \A m \in wire' : m \in wire \/ (m.op = "retrack" /\ m.id = t.id)
        /\ \A e \in Devices \ {t.dev} : \E m \in wire' : m.id = t.id /\ m.to = e
    <3>1. Sent(t.dev, "retrack", t.id)
      BY <2>1 DEF Sent
    <3> QED BY <3>1, NoticesSent
  <2>4. CASE i # t.id
    BY <1>1, <1>2, <2>1, <2>2, <2>3, <2>4, OtherIds
  <2>5. CASE i = t.id
    <3>1. ~UntrackSpreads(i)
      BY <2>1, <2>5 DEF UntrackSpreads
    <3>2. ASSUME RetrackSpreads(i) PROVE RetrackSpreads(i)'
      <4>1. \A u \in work' : u.id = i => u.op \notin {"untrack", "mirror"}
        BY <1>2, <2>1, <3>2 DEF RetrackSpreads
      <4>2. \A m \in wire' : m.id = i => m.op = "retrack"
        BY <2>3, <3>2 DEF RetrackSpreads
      <4>3. \A d \in Devices : i \notin tombs'[d] \/ \E m \in wire' : m.id = i /\ m.to = d
        BY <2>2, <2>3, <2>5
      <4> QED BY <4>1, <4>2, <4>3 DEF RetrackSpreads
    <3> QED BY <1>1, <2>1, <3>1, <3>2 DEF WordSpreads
  <2> QED BY <2>4, <2>5
<1>4. CASE Entombs(t)
  <2>1. /\ t.op \in {"untrack", "mirror"} /\ UNCHANGED lastWord
        /\ tombs' = [tombs EXCEPT ![t.dev] = @ \cup {t.id}]
        /\ \/ t.op = "mirror" /\ wire' = wire
           \/ /\ t.op = "untrack"
              /\ wire' = wire \cup {[op |-> "untrack", to |-> e, id |-> t.id, nr |-> ops] : e \in Devices \ {t.dev}}
    BY <1>4 DEF Entombs, Entombed, At, Notify
  <2>2. \A d \in Devices : tombs'[d] = IF d = t.dev THEN tombs[d] \cup {t.id} ELSE tombs[d]
    BY <1>1, <2>1 DEF TablesTyped
  <2>3. /\ wire \subseteq wire' /\ \A m \in wire' : m \in wire \/ (m.op = "untrack" /\ m.id = t.id)
        /\ t.op = "untrack" => \A e \in Devices \ {t.dev} : \E m \in wire' : m.id = t.id /\ m.to = e
    <3>1. CASE wire' = wire /\ t.op # "untrack"
      BY <3>1
    <3>2. CASE wire' = wire \cup {[op |-> "untrack", to |-> e, id |-> t.id, nr |-> ops] : e \in Devices \ {t.dev}}
      <4>1. Sent(t.dev, "untrack", t.id)
        BY <3>2 DEF Sent
      <4> QED BY <4>1, NoticesSent
    <3> QED BY <2>1, <3>1, <3>2
  <2>4. \A u \in work' : u \notin work => u.op = "resync"
    BY <1>1, <1>4, ResyncType DEF Entombs, EndOf
  <2>5. CASE i # t.id
    BY <1>1, <2>1, <2>2, <2>3, <2>4, <2>5, OtherIds
  <2>6. CASE i = t.id
    <3>1. ~RetrackSpreads(i)
      BY <2>1, <2>6 DEF RetrackSpreads
    <3>2. ASSUME UntrackSpreads(i) PROVE UntrackSpreads(i)'
      <4>1. \A u \in work' : u.id = i => u.op \notin {"track", "clear"}
        BY <2>4, <3>2 DEF UntrackSpreads
      <4>2. \A m \in wire' : m.id = i => m.op = "untrack"
        BY <2>3, <3>2 DEF UntrackSpreads
      <4>3. ASSUME NEW d \in Devices \ {t.dev}
            PROVE  \/ i \in tombs'[d]
                   \/ \E u \in work' : u.id = i /\ (u.op = "untrack" \/ (u.op = "mirror" /\ u.dev = d))
                   \/ \E m \in wire' : m.id = i /\ m.to = d
        BY <1>1, <2>1, <2>2, <2>3, <2>6, <3>2 DEF UntrackSpreads
      <4>4. i \in tombs'[t.dev]
        BY <1>1, <2>2, <2>6
      <4> QED BY <4>1, <4>2, <4>3, <4>4 DEF UntrackSpreads
    <3> QED BY <1>1, <2>1, <3>1, <3>2 DEF WordSpreads
  <2> QED BY <2>5, <2>6
<1>5. CASE RetrackFromPeer(t)
  <2>1. /\ t.op = "clear" /\ UNCHANGED <<wire, lastWord>> /\ work' = work \ {t}
        /\ tombs' = [tombs EXCEPT ![t.dev] = @ \ {t.id}]
    BY <1>5 DEF RetrackFromPeer, At, End
  <2>2. \A d \in Devices : tombs'[d] = IF d = t.dev THEN tombs[d] \ {t.id} ELSE tombs[d]
    BY <1>1, <2>1 DEF TablesTyped
  <2>3. CASE i # t.id
    BY <2>1, <2>2, <2>3, OtherIds
  <2>4. CASE i = t.id
    <3>1. ~UntrackSpreads(i)
      BY <2>1, <2>4 DEF UntrackSpreads
    <3>2. ASSUME RetrackSpreads(i) PROVE RetrackSpreads(i)'
      <4>1. ASSUME NEW d \in Devices
            PROVE  \/ i \notin tombs'[d]
                   \/ \E u \in work' : u.id = i /\ ((u.op = "track" /\ u.step = "clear") \/ (u.op = "clear" /\ u.dev = d))
                   \/ \E m \in wire' : m.id = i /\ m.to = d
        BY <2>1, <2>2, <2>4, <3>2 DEF RetrackSpreads
      <4> QED BY <2>1, <3>2, <4>1 DEF RetrackSpreads
    <3> QED BY <1>1, <2>1, <3>1, <3>2 DEF WordSpreads
  <2> QED BY <2>3, <2>4
<1>6. ASSUME NEW s \in TaskSteps, GoTo(t, s)
      PROVE  \E u \in work' : u.op = t.op /\ u.id = t.id /\ u.dev = t.dev
  <2> DEFINE u == [t EXCEPT !.step = s]
  <2>1. u.op = t.op /\ u.id = t.id /\ u.dev = t.dev
    BY <1>1, StepOn
  <2>2. u \in work'
    BY <1>6 DEF GoTo, Go
  <2> HIDE DEF u
  <2> QED BY <2>1, <2>2
<1>7. CASE StopsWatch(t)
  BY <1>6, <1>7, QuietStep DEF StopsWatch, At, TaskSteps
<1>8. CASE Deletes(t)
  <2>1. t.op \in {"untrack", "mirror"} /\ UNCHANGED <<tombs, wire>>
    BY <1>8 DEF Deletes, At
  <2>2. CASE GoTo(t, "entomb") /\ UNCHANGED lastWord
    BY <1>6, <2>1, <2>2, QuietStep DEF TaskSteps
  <2>3. CASE EndOf(t) /\ Disturbed(t.id)
    <3>1. \A u \in work' : u \notin work => u.op = "resync"
      BY <1>1, <2>3, ResyncType DEF EndOf
    <3>2. CASE i = t.id
      BY <1>1, <2>3, <3>2, DisturbedWords DEF WordSpreads
    <3>3. CASE i # t.id
      <4>1. lastWord'[i] = lastWord[i]
        BY <1>1, <2>3, <3>3, DisturbedWords
      <4> QED BY <1>1, <2>1, <3>1, <3>3, <4>1, OtherIds
    <3> QED BY <3>2, <3>3
  <2> QED BY <1>8, <2>2, <2>3 DEF Deletes
<1>9. CASE TrackCreates(t) \/ TrackChecks(t) \/ BeginWatch(t) \/ Relocates(t)
  BY <1>9, QuietStep DEF TrackCreates, TrackChecks, BeginWatch, Relocates, At
<1>10. CASE LinkRecords(t) \/ LinkAbsorbs(t) \/ LinkDeletes(t) \/ UnlinkRemoves(t) \/ UnlinkRestores(t)
  BY <1>10, QuietStep DEF LinkRecords, LinkAbsorbs, LinkDeletes, UnlinkRemoves, UnlinkRestores, At
<1>11. CASE EnsureLooks(t) \/ EnsureJudges(t) \/ EnsureCreates(t) \/ ResyncLists(t) \/ ResyncApplies(t)
  BY <1>11, QuietStep DEF EnsureLooks, EnsureJudges, EnsureCreates, ResyncLists, ResyncApplies, At
<1> QED BY <1>3, <1>4, <1>5, <1>7, <1>8, <1>9, <1>10, <1>11 DEF Step

LEMMA SaidWords ==
    ASSUME Typed, NEW i \in Ids, NEW word, Said(i, word)
    PROVE  /\ lastWord'[i].word = word
           /\ lastWord'[i].alone => About(i) = {}
           /\ \A j \in Ids : j # i => lastWord'[j] = lastWord[j]
    BY DEF Said, Typed, TypeOK

\* What a user asks for is disturbed, or is under way with nothing before it.
LEMMA AskSpreads ==
    ASSUME Typed, TombInv, NEW u, NEW i \in Ids, Ask(u), u.id = i,
           \/ Disturbed(i)
           \/ Said(i, "track") /\ u.op = "track" /\ u.step = "clear"
           \/ Said(i, "untrack") /\ u.op = "untrack"
    PROVE  TombInv'
<1> SUFFICES ASSUME NEW j \in Ids PROVE WordSpreads(j)'
  BY DEF TombInv
<1>1. work' = work \cup {u} /\ tombs' = tombs /\ wire' = wire
  BY DEF Ask, tables
<1>2. j # i => lastWord'[j] = lastWord[j]
  BY DisturbedWords, SaidWords
<1>3. CASE j # i
  BY <1>1, <1>2, <1>3, OtherIds
<1>4. CASE j = i /\ Disturbed(i)
  BY <1>4, DisturbedWords DEF WordSpreads
<1>5. ASSUME j = i, Said(i, "track") \/ Said(i, "untrack"), lastWord'[i].alone
      PROVE  \A t \in work' : t.id = i => t = u
  <2>1. About(i) = {}
    BY <1>5, SaidWords
  <2> QED BY <1>1, <2>1 DEF About
<1>6. ASSUME j = i, Said(i, "track") \/ Said(i, "untrack"), lastWord'[i].alone
      PROVE  \A m \in wire' : m.id # i
  <2>1. About(i) = {}
    BY <1>6, SaidWords
  <2> QED BY <1>1, <2>1 DEF About
<1>7. CASE j = i /\ Said(i, "track") /\ u.op = "track" /\ u.step = "clear"
  <2>1. lastWord'[i].word = "track"
    BY <1>7, SaidWords
  <2> SUFFICES ASSUME lastWord'[i].alone PROVE RetrackSpreads(i)'
    BY <1>7, <2>1 DEF WordSpreads
  <2> QED BY <1>1, <1>5, <1>6, <1>7 DEF RetrackSpreads
<1>8. CASE j = i /\ Said(i, "untrack") /\ u.op = "untrack"
  <2>1. lastWord'[i].word = "untrack"
    BY <1>8, SaidWords
  <2> SUFFICES ASSUME lastWord'[i].alone PROVE UntrackSpreads(i)'
    BY <1>8, <2>1 DEF WordSpreads
  <2> QED BY <1>1, <1>5, <1>6, <1>8 DEF UntrackSpreads
<1> QED BY <1>3, <1>4, <1>7, <1>8

\* Every operation asks so.
LEMMA TombOperation ==
    ASSUME Typed, TombInv, Operation
    PROVE  TombInv'
<1>1. PICK d \in Devices, i \in Ids, app \in BOOLEAN :
           \/ \E f \in Folders : Track(d, i, f, app) \/ Relocate(d, i, f, app)
           \/ Untrack(d, i, app) \/ Unlink(d, i)
           \/ \E j \in Ids : Link(d, i, j)
  BY DEF Operation
<1>2. ASSUME NEW f
      PROVE /\ LET u == [NewTask(d, "track", "clear", i) EXCEPT !.folder = f, !.app = app]
               IN  u.op = "track" /\ u.step = "clear" /\ u.id = i
            /\ [NewTask(d, "relocate", "update", i) EXCEPT !.folder = f, !.app = app].id = i
            /\ [NewTask(d, "unlink", "alias", i) EXCEPT !.folder = f].id = i
            /\ LET u == [NewTask(d, "untrack", "unwatch", i) EXCEPT !.app = app]
               IN  u.op = "untrack" /\ u.id = i
            /\ [NewTask(d, "link", "alias", i) EXCEPT !.other = f].id = i
  BY DEF NewTask
<1>3. \E u : /\ Ask(u) /\ u.id = i
             /\ \/ Disturbed(i)
                \/ Said(i, "track") /\ u.op = "track" /\ u.step = "clear"
                \/ Said(i, "untrack") /\ u.op = "untrack"
  <2>1. CASE \E f \in Folders : Track(d, i, f, app)
    BY <1>2, <2>1 DEF Track
  <2>2. CASE \E f \in Folders : Relocate(d, i, f, app)
    BY <1>2, <2>2 DEF Relocate
  <2>3. CASE Untrack(d, i, app)
    BY <1>2, <2>3 DEF Untrack
  <2>4. CASE Unlink(d, i)
    BY <1>2, <2>4 DEF Unlink
  <2>5. CASE \E j \in Ids : Link(d, i, j)
    BY <1>2, <2>5 DEF Link
  <2> QED BY <1>1, <2>1, <2>2, <2>3, <2>4, <2>5
<1> QED BY <1>3, AskSpreads

\* A notice that arrives becomes the task that does what it says; one that is lost
\* disturbs the word.
LEMMA TombNotice ==
    ASSUME Typed, TombInv, NEW m \in wire, Deliver(m) \/ LoseNotice(m)
    PROVE  TombInv'
<1> SUFFICES ASSUME NEW i \in Ids PROVE WordSpreads(i)'
  BY DEF TombInv
<1>1. m \in Notice /\ m.id \in Ids
  BY DEF Typed, TypeOK, Notice
<1>2. CASE LoseNotice(m)
  <2>1. wire' = wire \ {m} /\ UNCHANGED <<tombs, work>> /\ Disturbed(m.id)
    BY <1>2 DEF LoseNotice, tables
  <2>2. CASE i = m.id
    BY <1>1, <2>1, <2>2, DisturbedWords DEF WordSpreads
  <2>3. CASE i # m.id
    <3>1. lastWord'[i] = lastWord[i]
      BY <1>1, <2>1, <2>3, DisturbedWords
    <3> QED BY <2>1, <2>3, <3>1, OtherIds
  <2> QED BY <2>2, <2>3
<1>3. CASE Deliver(m)
  <2>1. \E t : /\ work' = work \cup {t} /\ t.id = m.id /\ t.dev = m.to
               /\ \/ m.op = "untrack" /\ t.op = "mirror"
                  \/ m.op = "retrack" /\ t.op = "clear"
    <3>1. CASE m.op = "untrack"
      <4> DEFINE t == NewTask(m.to, "mirror", "unwatch", m.id)
      <4>1. t.id = m.id /\ t.dev = m.to /\ t.op = "mirror"
        BY DEF NewTask
      <4>2. work' = work \cup {t}
        BY <1>3, <3>1 DEF Deliver
      <4> HIDE DEF t
      <4> QED BY <3>1, <4>1, <4>2
    <3>2. CASE m.op = "retrack"
      <4> DEFINE t == NewTask(m.to, "clear", "clear", m.id)
      <4>1. t.id = m.id /\ t.dev = m.to /\ t.op = "clear"
        BY DEF NewTask
      <4>2. work' = work \cup {t}
        BY <1>3, <3>2 DEF Deliver
      <4> HIDE DEF t
      <4> QED BY <3>2, <4>1, <4>2
    <3> QED BY <1>1, <3>1, <3>2 DEF Notice
  <2>2. PICK t : /\ work' = work \cup {t} /\ t.id = m.id /\ t.dev = m.to
                 /\ \/ m.op = "untrack" /\ t.op = "mirror"
                    \/ m.op = "retrack" /\ t.op = "clear"
    BY <2>1
  <2>3. wire' = wire \ {m} /\ UNCHANGED <<tombs, lastWord>>
    BY <1>3 DEF Deliver, tables, history
  <2>4. CASE i # m.id
    BY <2>2, <2>3, <2>4, OtherIds
  <2>5. ASSUME i = m.id, UntrackSpreads(i) PROVE UntrackSpreads(i)'
    <3>1. t.op = "mirror"
      BY <2>2, <2>5 DEF UntrackSpreads
    <3>2. ASSUME NEW d \in Devices
          PROVE  \/ i \in tombs'[d]
                 \/ \E u \in work' : u.id = i /\ (u.op = "untrack" \/ (u.op = "mirror" /\ u.dev = d))
                 \/ \E n \in wire' : n.id = i /\ n.to = d
      <4>1. CASE d = m.to
        BY <2>2, <2>5, <3>1, <4>1
      <4>2. CASE d # m.to
        BY <2>2, <2>3, <2>5, <4>2 DEF UntrackSpreads
      <4> QED BY <4>1, <4>2
    <3> QED BY <2>2, <2>3, <2>5, <3>1, <3>2 DEF UntrackSpreads
  <2>6. ASSUME i = m.id, RetrackSpreads(i) PROVE RetrackSpreads(i)'
    <3>1. t.op = "clear"
      BY <2>2, <2>6 DEF RetrackSpreads
    <3>2. ASSUME NEW d \in Devices
          PROVE  \/ i \notin tombs'[d]
                 \/ \E u \in work' : u.id = i /\ ((u.op = "track" /\ u.step = "clear") \/ (u.op = "clear" /\ u.dev = d))
                 \/ \E n \in wire' : n.id = i /\ n.to = d
      <4>1. CASE d = m.to
        BY <2>2, <2>6, <3>1, <4>1
      <4>2. CASE d # m.to
        BY <2>2, <2>3, <2>6, <4>2 DEF RetrackSpreads
      <4> QED BY <4>1, <4>2
    <3> QED BY <2>2, <2>3, <2>6, <3>1, <3>2 DEF RetrackSpreads
  <2> QED BY <2>3, <2>4, <2>5, <2>6 DEF TombInv, WordSpreads
<1> QED BY <1>2, <1>3

LEMMA TombInvNext == Typed /\ TombInv /\ [Next]_vars => TombInv'
<1> SUFFICES ASSUME Typed, TombInv, [Next]_vars PROVE TombInv'
  OBVIOUS
<1>1. CASE UNCHANGED vars
  BY <1>1 DEF vars, tables, history, TombInv, WordSpreads, UntrackSpreads, RetrackSpreads
<1>2. CASE Operation
  BY <1>2, TombOperation
<1>3. CASE \E t \in work : Step(t)
  BY <1>3, TombStep
<1>4. CASE \E m \in wire : Deliver(m) \/ LoseNotice(m)
  BY <1>4, TombNotice
<1>5. CASE \E d, e \in Devices, i \in Ids : AskManifest(d, e, i)
  <2>1. /\ work \subseteq work' /\ \A u \in work' : u \in work \/ u.op = "ensure"
        /\ UNCHANGED <<tombs, wire, lastWord>>
    BY <1>5 DEF AskManifest, NewTask, tables, history
  <2> SUFFICES ASSUME NEW i \in Ids PROVE WordSpreads(i)'
    BY DEF TombInv
  <2> QED BY <2>1, OtherIds
<1> QED BY <1>1, <1>2, <1>3, <1>4, <1>5 DEF Next

\* When everything has arrived, untracking has left a tombstone on every device and
\* tracking again none, unless a notice was lost or another operation on the game
\* overlapped (RecordUntrack, ClearUntrack and the notices of p2p/engine.go).
THEOREM LastWordSpreads == Spec => []TombstonesFollowTheLastWord
<1>1. Init => TombInv
  BY DEF Init, TombInv, WordSpreads
<1>2. TombInv => TombstonesFollowTheLastWord
  BY DEF TombInv, WordSpreads, UntrackSpreads, RetrackSpreads, TombstonesFollowTheLastWord, AtRest
<1> QED BY <1>1, <1>2, TombInvNext, TrackingTypeCorrect, PTL DEF Spec
=============================================================================
