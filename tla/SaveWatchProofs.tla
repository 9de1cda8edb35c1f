--------------------------- MODULE SaveWatchProofs ---------------------------
(***************************************************************************)
(* What SaveWatch promises, for any number of watches, contents, requests  *)
(* and tries: the run of MCSaveWatch checks the same invariants for two    *)
(* watches and three contents.                                             *)
(***************************************************************************)
EXTENDS SaveWatch, FiniteSetTheorems, TLAPS

-----------------------------------------------------------------------------
(* The watches and who holds them                                          *)

\* handleChange counts its tries from nothing.
TriesInBounds ==
    \A s \in Slots : /\ watch[s].at \in {"free", "registered", "listen", "guard"} => watch[s].tries = 0
                     /\ watch[s].at \in {"zip", "insert"} => watch[s].tries < MaxTries

\* A call holds a new watch, nobody else's, until it puts it into the games,
\* and an old one only to wait for its end.
CallsHold ==
    /\ \A c \in Callers :
         /\ caller[c].at \in {"lock", "await"} =>
              /\ caller[c].new # 0 /\ watch[caller[c].new].at = "registered"
              /\ ~watch[caller[c].new].cancelled
              /\ \A d \in Callers \ {c} : caller[d].new # caller[c].new
         /\ caller[c].at \notin {"lock", "await"} => caller[c].new = 0
    /\ \A c \in {Tracker, Handler} : caller[c].at \notin {"gone", "await"} => caller[c].old = 0
    /\ caller[Quitter].at = "idle"
    /\ ~closed => caller[Quitter].old = 0

\* The watch that answers for the game was never told to end, and a watch that
\* is over leaves nothing in its slot.
GamesRuns ==
    /\ games # 0 => ~watch[games].cancelled
    /\ \A s \in Slots : watch[s].at = "free" => watch[s] = Free

\* Contents are numbered as they come, and only a restore of a captured one
\* brings an old number back.
Numbered ==
    /\ captured \subseteq 0..newest
    /\ recorded # Unknown => recorded <= newest
    /\ \A s \in Slots : watch[s].hash <= newest /\ watch[s].zipped <= newest

WatchInv == TypeOK /\ TriesInBounds /\ CallsHold /\ GamesRuns

-----------------------------------------------------------------------------
(* No change is lost                                                       *)

\* The save is in a snapshot, or was given up.
Settled == save \in captured \/ passedOver

\* The hash a watch is about to record, or has recorded, is that of a content
\* the save no longer has or that is settled - also when the watch has been told
\* to end and hears of no change any more.
HashesAreSettled ==
    /\ recorded = save => Settled
    /\ \A s \in Slots :
         /\ watch[s].at = "insert" /\ watch[s].hash = save => watch[s].zipped = save \/ Settled
         /\ watch[s].at = "record" /\ watch[s].hash = save => Settled

\* What is still to happen to the last change a watch was told of: it will look
\* again, or what it has in its hands is the save as it is.
InHand(w) ==
    /\ w.at \in {"registered", "listen"} => w.armed \/ Settled
    /\ w.at \in {"zip", "pause", "insert"} => w.hash = save
    /\ w.at = "insert" => w.zipped = save
    /\ w.at = "record" => save \in captured

SeenIsInHand ==
    \A s \in Slots :
        watch[s].saw => /\ watch[s].at # "free" /\ ~watch[s].cancelled
                        /\ watch[s].event \/ InHand(watch[s])

SeenInv == HashesAreSettled /\ SeenIsInHand

-----------------------------------------------------------------------------
(* No finished wait is undone                                              *)

\* Every watch that is not over is the game's, is held by a call, or has leaked.
Owned ==
    \A s \in Slots : watch[s].at # "free" =>
        \/ s \in leaked \/ s = games
        \/ \E c \in Callers : caller[c].new = s \/ caller[c].old = s

\* Watcher.Stop closed the watcher, and what is put into the games after it leaks.
ClosedLeaks ==
    /\ closed <=> Past("syncs")
    /\ closed /\ games # 0 => games \in leaked

\* What each wait of Stop found stays so, unless something was late.
WaitsHold ==
    /\ Past("server") => caller[Handler].at = "idle"
    /\ Past("syncs") => syncs["tied"] = "none"
    /\ Past("watches") => Ended(Quitter)
    /\ Past("snapshots") => /\ syncs["loose"] # "zipping"
                            /\ \A s \in leaked : watch[s].at # "insert"
    /\ Past("initial") => caller[Tracker].at = "idle"
    /\ Past("uploads") => ~uploading

DrainInv == Owned /\ ClosedLeaks /\ (~rushed => WaitsHold)

-----------------------------------------------------------------------------
(* Lemmas about the constants and the stages                               *)

LEMMA CallersDiffer == Tracker # Handler /\ Tracker # Quitter /\ Handler # Quitter
<1>1. \A x, y : Cardinality({x, y}) <= 2 
  <2> TAKE x, y
  <2>1. IsFiniteSet({x}) /\ Cardinality({x}) = 1
    BY FS_Singleton
  <2>2. {x, y} = {x} \cup {y}
    OBVIOUS
  <2> QED BY <2>1, <2>2, FS_AddElement
<1>2. ASSUME NEW x, NEW y, {Tracker, Handler, Quitter} = {x, y} PROVE FALSE
  <2>1. Cardinality({x, y}) = 3
    BY <1>2, WatchAssumption, Zenon
  <2>2. Cardinality({x, y}) <= 2
    BY <1>1
  <2> QED BY <2>1, <2>2
<1>3. ASSUME Tracker = Handler PROVE {Tracker, Handler, Quitter} = {Handler, Quitter}
  BY <1>3
<1>4. ASSUME Tracker = Quitter PROVE {Tracker, Handler, Quitter} = {Handler, Quitter}
  BY <1>4
<1>5. ASSUME Handler = Quitter PROVE {Tracker, Handler, Quitter} = {Tracker, Quitter}
  BY <1>5
<1> QED BY <1>2, <1>3, <1>4, <1>5

\* The stages of Stop come in the order of daemon.Stop.
LEMMA StagesInOrder ==
    /\ Nth("up") = 1 /\ Nth("server") = 2 /\ Nth("syncs") = 3 /\ Nth("watches") = 4
    /\ Nth("snapshots") = 5 /\ Nth("initial") = 6 /\ Nth("uploads") = 7 /\ Nth("closed") = 8
<1>1. ASSUME NEW k \in 1..8 PROVE Nth(Stages[k]) = k
  <2>1. Len(Stages) = 8 /\ \A i \in 1..8 : Stages[i] = Stages[k] => i = k
    BY DEF Stages
  <2> QED BY <2>1 DEF Nth
<1>2. /\ Stages[1] = "up" /\ Stages[2] = "server" /\ Stages[3] = "syncs" /\ Stages[4] = "watches"
      /\ Stages[5] = "snapshots" /\ Stages[6] = "initial" /\ Stages[7] = "uploads" /\ Stages[8] = "closed"
  BY DEF Stages
<1>3. 1 \in 1..8 /\ 2 \in 1..8 /\ 3 \in 1..8 /\ 4 \in 1..8 /\ 5 \in 1..8 /\ 6 \in 1..8 /\ 7 \in 1..8 /\ 8 \in 1..8
  OBVIOUS
<1> QED BY <1>1, <1>2, <1>3

LEMMA StageSet ==
    {Stages[i] : i \in 1..Len(Stages)}
        = {"up", "server", "syncs", "watches", "snapshots", "initial", "uploads", "closed"}
    BY DEF Stages

LEMMA StageDrains ==
    ASSUME TypeOK, Advance
    PROVE  /\ Drained \in BOOLEAN
           /\ stage = "server" => Drained = (caller[Handler].at = "idle")
           /\ stage = "syncs" => Drained = (syncs["tied"] = "none")
           /\ stage = "watches" => Drained = Ended(Quitter)
           /\ stage = "snapshots" => Drained = ~InFlight
           /\ stage = "initial" => Drained = (caller[Tracker].at = "idle")
           /\ stage = "uploads" => Drained = ~uploading
<1>1. stage \in {"server", "syncs", "watches", "snapshots", "initial", "uploads"}
  BY StageSet DEF Advance, TypeOK
<1>2. uploading \in BOOLEAN /\ Ended(Quitter) \in BOOLEAN /\ InFlight \in BOOLEAN
  BY DEF TypeOK, Ended, InFlight
<1> QED BY <1>1, <1>2 DEF Drained

LEMMA NextStage ==
    ASSUME TypeOK, Advance
    PROVE  \/ stage = "server" /\ stage' = "syncs"
           \/ stage = "syncs" /\ stage' = "watches"
           \/ stage = "watches" /\ stage' = "snapshots"
           \/ stage = "snapshots" /\ stage' = "initial"
           \/ stage = "initial" /\ stage' = "uploads"
           \/ stage = "uploads" /\ stage' = "closed"
<1>1. stage' = Stages[Nth(stage) + 1] /\ stage \notin {"up", "closed"}
  BY DEF Advance
<1>2. stage \in {"up", "server", "syncs", "watches", "snapshots", "initial", "uploads", "closed"}
  BY DEF TypeOK, Stages
<1>3. /\ Stages[3] = "syncs" /\ Stages[4] = "watches" /\ Stages[5] = "snapshots"
      /\ Stages[6] = "initial" /\ Stages[7] = "uploads" /\ Stages[8] = "closed"
  BY DEF Stages
<1> QED BY <1>1, <1>2, <1>3, StagesInOrder

-----------------------------------------------------------------------------
(* The watches and who holds them: proof                                   *)

LEMMA FreeType == Free \in Watch
<1>1. MaxContent \in Nat /\ MaxTries \in Nat
  BY WatchAssumption
<1>2. 0 \in 0..MaxContent /\ 0 \in 0..MaxTries
  BY <1>1
<1> QED BY <1>2 DEF Free, Watch, Contents

LEMMA ChangedWatchType ==
    ASSUME NEW w \in Watch
    PROVE  /\ [w EXCEPT !.at = "listen"] \in Watch
           /\ [w EXCEPT !.event = TRUE, !.saw = TRUE] \in Watch
           /\ [Free EXCEPT !.at = "listen", !.event = w.event, !.cancelled = w.cancelled,
                           !.saw = w.saw] \in Watch
    BY FreeType DEF Watch, Free

LEMMA WatchInvInit == Init => WatchInv
<1> SUFFICES ASSUME Init PROVE WatchInv
  OBVIOUS
<1>1. Free \in Watch /\ [Free EXCEPT !.at = "listen"] \in Watch
  BY FreeType, ChangedWatchType
<1>2. NoCall \in Caller /\ [NoCall EXCEPT !.at = "zip"] \in Caller
  BY DEF NoCall, Caller
<1>3. games \in Slots \cup {0} /\ watch \in [Slots -> Watch] /\ caller \in [Callers -> Caller]
  <2>1. (CHOOSE s \in Slots : TRUE) \in Slots
    BY WatchAssumption
  <2> QED BY <1>1, <1>2, <2>1 DEF Init
<1>4. games # 0 => games \in Slots /\ watch[games].at = "listen" /\ ~watch[games].cancelled
  BY <1>3 DEF Init, Free
<1>5. stage \in {Stages[i] : i \in 1..Len(Stages)}
  <2>1. stage = Stages[1] /\ 1 \in 1..Len(Stages)
    BY DEF Init, Stages
  <2> QED BY <2>1
<1>6. TypeOK
  <2>1. MaxContent \in Nat /\ MaxRequests \in Nat
    BY WatchAssumption
  <2>2. /\ newest \in Contents /\ save \in 0..newest /\ busy \in BOOLEAN
        /\ recorded \in Contents \cup {Unknown} /\ captured \subseteq Contents
        /\ requests \in 0..MaxRequests
    <3>1. newest = 0 /\ save = 0 /\ busy = FALSE /\ recorded = Unknown /\ captured = {} /\ requests = 0
      BY DEF Init
    <3>2. 0 \in 0..MaxContent /\ 0 \in 0..0 /\ 0 \in 0..MaxRequests
      BY <2>1
    <3> QED BY <3>1, <3>2 DEF Contents
  <2>3. /\ syncs \in [{"tied", "loose"} -> {"none", "running", "zipping"}]
        /\ passedOver \in BOOLEAN /\ closed \in BOOLEAN /\ uploading \in BOOLEAN
        /\ rushed \in BOOLEAN /\ leaked \subseteq Slots
    BY DEF Init
  <2>4. games # 0 => watch[games].at \notin {"free", "registered"}
    BY <1>4
  <2> QED BY <1>3, <1>5, <2>2, <2>3, <2>4 DEF TypeOK
<1>7. TriesInBounds /\ GamesRuns
  <2>1. \A s \in Slots : watch[s] = Free \/ watch[s] = [Free EXCEPT !.at = "listen"]
    BY DEF Init
  <2>2. \A s \in Slots : watch[s].at \in {"free", "listen"} /\ watch[s].tries = 0
                        /\ (watch[s].at = "free" => watch[s] = Free)
    BY <2>1 DEF Free
  <2> QED BY <1>4, <2>2 DEF TriesInBounds, GamesRuns
<1>8. CallsHold
  <2>1. \A c \in Callers : /\ caller[c] = NoCall \/ (c = Tracker /\ caller[c] = [NoCall EXCEPT !.at = "zip"])
    BY DEF Init
  <2>2. \A c \in Callers : caller[c].at \in {"idle", "zip"} /\ caller[c].new = 0 /\ caller[c].old = 0
    BY <2>1 DEF NoCall
  <2>3. caller[Quitter].at = "idle"
    BY <2>1, CallersDiffer DEF NoCall, Callers
  <2> QED BY <2>2, <2>3 DEF CallsHold, Callers
<1> QED BY <1>6, <1>7, <1>8 DEF WatchInv

\* A change that reaches the watches moves none of them.
LEMMA NotifiedMovesNone ==
    ASSUME WatchInv, watch' = Notified, UNCHANGED <<games, caller, closed>>
    PROVE  watch' \in [Slots -> Watch] /\ TriesInBounds' /\ CallsHold' /\ GamesRuns'
           /\ (games' # 0 => watch'[games'].at \notin {"free", "registered"})
<1>1. \A s \in Slots : /\ watch'[s] \in Watch
                       /\ watch'[s].at = watch[s].at /\ watch'[s].tries = watch[s].tries
                       /\ watch'[s].cancelled = watch[s].cancelled
  <2> TAKE s \in Slots
  <2>1. watch[s] \in Watch
    BY DEF WatchInv, TypeOK
  <2>2. watch'[s] = watch[s] \/ watch'[s] = [watch[s] EXCEPT !.event = TRUE, !.saw = TRUE]
    BY DEF Notified
  <2>3. watch'[s] \in Watch
    BY <2>1, <2>2, ChangedWatchType
  <2> QED BY <2>1, <2>2, <2>3 DEF Watch
<1>2. watch' \in [Slots -> Watch]
  BY <1>1 DEF Notified
<1>3. TriesInBounds' /\ GamesRuns'
  BY <1>1 DEF WatchInv, TypeOK, TriesInBounds, GamesRuns, Notified
<1>4. CallsHold'
  <2>1. \A c \in Callers : caller[c].new \in Slots \cup {0}
    BY DEF WatchInv, TypeOK, Caller
  <2> QED BY <1>1, <2>1 DEF WatchInv, CallsHold
<1> QED BY <1>1, <1>2, <1>3, <1>4 DEF WatchInv, TypeOK

\* One watch that is neither registered nor free makes a step of its own.
LEMMA OneWatchMoves ==
    ASSUME WatchInv, NEW s \in Slots, NEW w \in Watch, watch' = [watch EXCEPT ![s] = w],
           watch[s].at \notin {"free", "registered"}, UNCHANGED <<games, caller, closed>>,
           w.at # "registered", w = Free \/ (w.at # "free" /\ w.cancelled = watch[s].cancelled),
           w.at = "free" => games # s,
           w.at \in {"free", "listen", "guard"} => w.tries = 0,
           w.at \in {"zip", "insert"} => w.tries < MaxTries
    PROVE  watch' \in [Slots -> Watch] /\ TriesInBounds' /\ CallsHold' /\ GamesRuns'
           /\ (games' # 0 => watch'[games'].at \notin {"free", "registered"})
<1>1. watch' \in [Slots -> Watch] /\ watch'[s] = w
  BY DEF WatchInv, TypeOK
<1>2. \A t \in Slots \ {s} : watch'[t] = watch[t]
  BY DEF WatchInv, TypeOK
<1>3. TriesInBounds'
  BY <1>1, <1>2 DEF WatchInv, TypeOK, TriesInBounds
<1>4. GamesRuns' /\ (games' # 0 => watch'[games'].at \notin {"free", "registered"})
  <2>1. games # s => games = 0 \/ watch'[games] = watch[games]
    BY <1>2 DEF WatchInv, TypeOK
  <2>2. games = s => s = 0 \/ (~w.cancelled /\ w.at \notin {"free", "registered"})
    BY DEF WatchInv, GamesRuns, Free
  <2>3. \A t \in Slots : watch'[t].at = "free" => watch'[t] = Free
    BY <1>1, <1>2 DEF WatchInv, GamesRuns
  <2> QED BY <1>1, <2>1, <2>2, <2>3 DEF WatchInv, TypeOK, GamesRuns
<1>5. CallsHold'
  <2>1. \A c \in Callers : caller[c].new \in Slots \cup {0}
    BY DEF WatchInv, TypeOK, Caller
  <2>2. \A c \in Callers : caller[c].at \in {"lock", "await"} => watch'[caller[c].new] = watch[caller[c].new]
    BY <1>2, <2>1 DEF WatchInv, CallsHold
  <2> QED BY <2>2 DEF WatchInv, CallsHold
<1> QED BY <1>1, <1>3, <1>4, <1>5

\* handleChange that ends leaves the watch listening.
LEMMA OverType ==
    ASSUME WatchInv, NEW s \in Slots
    PROVE  \E w \in Watch : /\ Over(s) = [watch EXCEPT ![s] = w]
                            /\ w.at = "listen" /\ w.tries = 0 /\ ~w.armed
                            /\ w.hash = 0 /\ w.zipped = 0
                            /\ w.event = watch[s].event /\ w.cancelled = watch[s].cancelled
                            /\ w.saw = watch[s].saw
<1> DEFINE w == [Free EXCEPT !.at = "listen", !.event = watch[s].event,
                             !.cancelled = watch[s].cancelled, !.saw = watch[s].saw]
<1>1. watch[s] \in Watch
  BY DEF WatchInv, TypeOK
<1>2. w \in Watch
  BY <1>1, ChangedWatchType
<1> QED BY <1>2 DEF Over, Free

\* A step of a watch's goroutine.
LEMMA WatchInvRun ==
    ASSUME WatchInv, NEW s \in Slots, Run(s)
    PROVE  WatchInv'
<1>1. watch[s] \in Watch /\ watch \in [Slots -> Watch]
  BY DEF WatchInv, TypeOK
<1>2. save \in Contents /\ MaxTries \in Nat \ {0} /\ newest \in Nat
  BY WatchAssumption DEF WatchInv, TypeOK, Contents
<1>3. PICK w \in Watch : Over(s) = [watch EXCEPT ![s] = w] /\ w.at = "listen" /\ w.tries = 0
                          /\ w.cancelled = watch[s].cancelled
  BY OverType
<1>4. /\ watch[s].at \in {"listen", "guard"} => watch[s].tries = 0
      /\ watch[s].at \in {"zip", "insert"} => watch[s].tries < MaxTries
      /\ games = s => ~watch[s].cancelled
      /\ 0 \notin Slots
  BY WatchAssumption DEF WatchInv, TriesInBounds, GamesRuns
<1> DEFINE Kept == /\ watch' \in [Slots -> Watch] /\ TriesInBounds' /\ CallsHold' /\ GamesRuns'
                   /\ (games' # 0 => watch'[games'].at \notin {"free", "registered"})
<1>5. CASE Return(s)
  <2>1. Kept
    BY <1>5, <1>4, FreeType, OneWatchMoves DEF Return, Free, running
  <2> QED BY <1>5, <2>1 DEF Return, WatchInv, TypeOK, folder, history, running
<1>6. CASE Arm(s) \/ TimerFires(s) \/ Check(s) \/ Zip(s) \/ FailSnapshot(s) \/ Retry(s)
  <2>1. \E v \in Watch :
          /\ watch' = [watch EXCEPT ![s] = v] /\ v.at \notin {"free", "registered"}
          /\ v.cancelled = watch[s].cancelled
          /\ v.at \in {"listen", "guard"} => v.tries = 0
          /\ v.at \in {"zip", "insert"} => v.tries < MaxTries
    <3>1. CASE Arm(s)
      <4> DEFINE v == [watch[s] EXCEPT !.event = FALSE, !.armed = TRUE]
      <4>1. v \in Watch
        BY <1>1 DEF Watch
      <4> QED BY <3>1, <4>1, <1>1, <1>4 DEF Arm, Watch
    <3>2. CASE TimerFires(s)
      <4> DEFINE v == [watch[s] EXCEPT !.at = "guard", !.armed = FALSE]
      <4>1. v \in Watch
        BY <1>1 DEF Watch
      <4>2. watch' = [watch EXCEPT ![s] = v]
        BY <3>2, <1>1 DEF TimerFires, Watch
      <4>3. v.at = "guard" /\ v.cancelled = watch[s].cancelled /\ v.tries = 0
        BY <3>2, <1>1, <1>4 DEF TimerFires, Watch
      <4> HIDE DEF v
      <4> QED BY <4>1, <4>2, <4>3
    <3>3. CASE Check(s)
      <4> DEFINE v == [watch[s] EXCEPT !.at = "zip", !.hash = save]
      <4>1. v \in Watch
        BY <1>1, <1>2 DEF Watch
      <4>2. v.at = "zip" /\ v.cancelled = watch[s].cancelled /\ v.tries = 0 /\ watch[s].at = "guard"
        BY <3>3, <1>1, <1>4 DEF Check, Watch
      <4>3. watch' = [watch EXCEPT ![s] = v] \/ watch' = Over(s)
        BY <3>3, <1>1 DEF Check, Watch
      <4>4. v.tries < MaxTries
        BY <4>2, <1>2
      <4> HIDE DEF v
      <4> QED BY <1>3, <4>1, <4>2, <4>3, <4>4
    <3>4. CASE Zip(s)
      <4> DEFINE v == [watch[s] EXCEPT !.at = "insert", !.zipped = save]
      <4>1. v \in Watch
        BY <1>1, <1>2 DEF Watch
      <4> QED BY <3>4, <4>1, <1>1, <1>4 DEF Zip, Watch
    <3>5. CASE FailSnapshot(s)
      <4> DEFINE v == [watch[s] EXCEPT !.at = "pause", !.tries = @ + 1, !.zipped = 0]
      <4>1. watch[s].tries + 1 \in 0..MaxTries /\ 0 \in Contents
        BY <3>5, <1>1, <1>2, <1>4 DEF FailSnapshot, Watch, Contents
      <4>2. v \in Watch
        BY <1>1, <4>1 DEF Watch
      <4> QED BY <3>5, <4>2, <1>1, <1>4 DEF FailSnapshot, Watch
    <3>6. CASE Retry(s)
      <4> DEFINE v == [watch[s] EXCEPT !.at = "zip"]
      <4>1. v \in Watch
        BY <1>1 DEF Watch
      <4> QED BY <3>6, <4>1, <1>1, <1>4 DEF Retry, Goes, Watch
    <3> QED BY <1>6, <3>1, <3>2, <3>3, <3>4, <3>5, <3>6
  <2>2. /\ watch[s].at \notin {"free", "registered"}
        /\ UNCHANGED <<folder, history, games, closed, leaked, caller, requests, syncs, stage>>
        /\ rushed' \in BOOLEAN
    BY <1>6 DEF Arm, TimerFires, Check, Zip, FailSnapshot, Retry, running, WatchInv, TypeOK, Late, Past
  <2>3. Kept
    BY <2>1, <2>2, <1>4, OneWatchMoves
  <2> QED BY <2>2, <2>3 DEF WatchInv, TypeOK, folder, history
<1>7. CASE FailCheck(s) \/ GiveUp(s) \/ Record(s)
  <2>1. /\ watch' = [watch EXCEPT ![s] = w] /\ watch[s].at \in {"guard", "pause", "record"}
        /\ UNCHANGED <<folder, captured, uploading, games, closed, leaked, caller, requests, stage, rushed>>
    BY <1>7, <1>3 DEF FailCheck, GiveUp, Record, running
  <2>2. passedOver' \in BOOLEAN
    BY <1>7 DEF FailCheck, GiveUp, Record, WatchInv, TypeOK
  <2>3. recorded' \in Contents \cup {Unknown}
    BY <1>7, <1>1 DEF FailCheck, GiveUp, Record, Watch, WatchInv, TypeOK
  <2>4. syncs' \in [{"tied", "loose"} -> {"none", "running", "zipping"}]
    BY <1>7 DEF FailCheck, GiveUp, Record, Synced, WatchInv, TypeOK, running
  <2>5. Kept
    BY <2>1, <1>3, <1>4, OneWatchMoves
  <2> QED BY <2>1, <2>2, <2>3, <2>4, <2>5 DEF WatchInv, TypeOK, folder
<1>8. CASE Insert(s)
  <2> DEFINE v == [watch[s] EXCEPT !.at = "record", !.zipped = 0]
  <2>1. v \in Watch
    BY <1>1, <1>2, FreeType DEF Watch, Free
  <2>2. /\ watch' = [watch EXCEPT ![s] = v] /\ watch[s].at = "insert"
        /\ v.at = "record" /\ v.cancelled = watch[s].cancelled
        /\ UNCHANGED <<folder, recorded, passedOver, games, closed, leaked, running>>
        /\ captured' = captured \cup {watch[s].zipped} /\ uploading' = TRUE
    BY <1>8, <1>1 DEF Insert, Taken, Watch
  <2>3. Kept
    BY <2>1, <2>2, <1>4, OneWatchMoves DEF running
  <2>4. captured' \subseteq Contents
    BY <2>2, <1>1 DEF Watch, WatchInv, TypeOK
  <2> QED BY <2>2, <2>3, <2>4 DEF WatchInv, TypeOK, folder, running
<1> QED BY <1>5, <1>6, <1>7, <1>8 DEF Run, HandleChange

\* The watch of the game is told to end and leaves the games.
LEMMA CancelledType ==
    ASSUME WatchInv, watch' = Cancelled
    PROVE  /\ watch' \in [Slots -> Watch]
           /\ \A s \in Slots : /\ watch'[s].at = watch[s].at /\ watch'[s].tries = watch[s].tries
                               /\ watch'[s].hash = watch[s].hash /\ watch'[s].zipped = watch[s].zipped
                               /\ watch'[s].event = watch[s].event /\ watch'[s].armed = watch[s].armed
                               /\ s # games => watch'[s] = watch[s]
                               /\ s = games => ~watch'[s].saw
           /\ TriesInBounds'
<1>1. watch \in [Slots -> Watch] /\ games \in Slots \cup {0} /\ 0 \notin Slots
  BY WatchAssumption DEF WatchInv, TypeOK
<1>2. CASE games = 0
  BY <1>1, <1>2 DEF Cancelled, WatchInv, TriesInBounds
<1>3. CASE games # 0
  <2> DEFINE v == [watch[games] EXCEPT !.cancelled = TRUE, !.saw = FALSE]
  <2>1. games \in Slots /\ watch[games] \in Watch
    BY <1>1, <1>3
  <2>2. /\ v \in Watch /\ v.at = watch[games].at /\ v.tries = watch[games].tries /\ ~v.saw
        /\ v.hash = watch[games].hash /\ v.zipped = watch[games].zipped
        /\ v.event = watch[games].event /\ v.armed = watch[games].armed
    BY <2>1 DEF Watch
  <2>3. watch' = [watch EXCEPT ![games] = v]
    BY <1>3, <2>1 DEF Cancelled, Watch
  <2> HIDE DEF v
  <2> QED BY <1>1, <2>1, <2>2, <2>3 DEF WatchInv, TriesInBounds
<1> QED BY <1>2, <1>3

\* What a step of a call leaves to show of the type.
LEMMA RestTyped ==
    ASSUME WatchInv, UNCHANGED <<folder, history, closed, requests, stage, rushed>>,
           watch' \in [Slots -> Watch], caller' \in [Callers -> Caller], games' \in Slots \cup {0},
           games' # 0 => watch'[games'].at \notin {"free", "registered"},
           leaked' \subseteq Slots, syncs' \in [{"tied", "loose"} -> {"none", "running", "zipping"}]
    PROVE  TypeOK'
    BY DEF WatchInv, TypeOK, folder, history

\* A call that ends holds nothing; the new watches of the others stay as they are.
LEMMA CallEnds ==
    ASSUME WatchInv, NEW c \in Callers, c # Quitter, closed' = closed,
           caller'[c] = NoCall, \A d \in Callers \ {c} : caller'[d] = caller[d],
           \A t \in Slots \ {caller[c].new} : watch[t].at = "registered" => watch'[t] = watch[t]
    PROVE  CallsHold'
<1>1. \A d \in Callers : caller[d].new \in Slots \cup {0}
  BY DEF WatchInv, TypeOK, Caller
<1>2. \A d \in Callers \ {c} : caller[d].at \in {"lock", "await"} => caller[d].new # caller[c].new
  BY DEF WatchInv, CallsHold
<1>3. \A d \in Callers \ {c} : caller[d].at \in {"lock", "await"} => watch'[caller[d].new] = watch[caller[d].new]
  BY <1>1, <1>2 DEF WatchInv, CallsHold
<1>4. NoCall.at = "idle" /\ NoCall.new = 0 /\ NoCall.old = 0
  BY DEF NoCall
<1> QED BY <1>2, <1>3, <1>4 DEF WatchInv, CallsHold, Callers

\* A step of a call that starts, replaces or ends a watch.
LEMMA WatchInvLock ==
    ASSUME WatchInv, NEW c \in {Tracker, Handler}, Register(c) \/ Lock(c) \/ Replace(c)
    PROVE  WatchInv'
<1>1. /\ watch \in [Slots -> Watch] /\ caller \in [Callers -> Caller] /\ games \in Slots \cup {0}
      /\ 0 \notin Slots /\ c \in Callers /\ c # Quitter
      /\ \A d \in Callers : caller[d].new \in Slots \cup {0} /\ caller[d].old \in Slots \cup {0}
  BY WatchAssumption, CallersDiffer DEF WatchInv, TypeOK, Callers, Caller
<1>2. UNCHANGED <<folder, history, closed, requests, stage, rushed>>
  BY DEF Register, Lock, Replace
<1>3. NoCall \in Caller
  BY DEF NoCall, Caller
<1>4. CASE Register(c)
  <2>1. PICK s \in Unused : /\ watch' = [watch EXCEPT ![s].at = "registered"]
                            /\ caller' = [caller EXCEPT ![c].at = "lock", ![c].new = s]
                            /\ UNCHANGED <<games, leaked, syncs>> /\ caller[c].at = "register"
    BY <1>4 DEF Register
  <2> DEFINE v == [watch[s] EXCEPT !.at = "registered"]
             k == [caller[c] EXCEPT !.at = "lock", !.new = s]
  <2>2. s \in Slots /\ watch[s].at = "free" /\ \A d \in Callers : caller[d].new # s /\ caller[d].old # s
    BY <2>1 DEF Unused, Held
  <2>3. v \in Watch /\ v.at = "registered" /\ v.tries = watch[s].tries /\ v.cancelled = watch[s].cancelled
    BY <1>1, <2>2 DEF Watch
  <2>4. k \in Caller /\ k.at = "lock" /\ k.new = s /\ k.old = caller[c].old
    BY <1>1, <2>2 DEF Caller
  <2>5. watch' = [watch EXCEPT ![s] = v] /\ caller' = [caller EXCEPT ![c] = k]
    BY <2>1, <1>1, <2>2 DEF Watch, Caller
  <2> HIDE DEF v, k
  <2>6. TypeOK'
    <3>1. watch' \in [Slots -> Watch] /\ caller' \in [Callers -> Caller]
      BY <1>1, <2>2, <2>3, <2>4, <2>5
    <3>2. games' # 0 => watch'[games'].at \notin {"free", "registered"}
      BY <1>1, <2>1, <2>2, <2>5 DEF WatchInv, TypeOK
    <3>3. /\ games' \in Slots \cup {0} /\ leaked' \subseteq Slots
          /\ syncs' \in [{"tied", "loose"} -> {"none", "running", "zipping"}]
      BY <2>1 DEF WatchInv, TypeOK
    <3> QED BY <1>2, <3>1, <3>2, <3>3, RestTyped
  <2>7. TriesInBounds' /\ GamesRuns'
    BY <1>1, <2>1, <2>2, <2>3, <2>5 DEF WatchInv, TypeOK, TriesInBounds, GamesRuns
  <2>8. CallsHold'
    <3>1. \A d \in Callers \ {c} : caller'[d] = caller[d]
      BY <1>1, <2>5
    <3>2. caller'[c] = k
      BY <1>1, <2>5
    <3>3. \A t \in Slots \ {s} : watch'[t] = watch[t]
      BY <1>1, <2>5
    <3>4. watch'[s] = v /\ ~v.cancelled
      BY <1>1, <2>2, <2>3, <2>5 DEF WatchInv, GamesRuns, Free
    <3>5. caller[c].old = 0
      BY <2>1 DEF WatchInv, CallsHold
    <3>6. ASSUME NEW d \in Callers, caller'[d].at \in {"lock", "await"}
          PROVE  /\ caller'[d].new # 0 /\ watch'[caller'[d].new].at = "registered"
                 /\ ~watch'[caller'[d].new].cancelled
                 /\ \A e \in Callers \ {d} : caller'[e].new # caller'[d].new
      <4>1. CASE d = c
        BY <4>1, <1>1, <2>2, <2>3, <2>4, <3>1, <3>2, <3>4
      <4>2. CASE d # c
        BY <4>2, <3>6, <1>1, <2>2, <2>4, <3>1, <3>2, <3>3 DEF WatchInv, CallsHold
      <4> QED BY <4>1, <4>2
    <3>7. \A d \in Callers : caller'[d].at \notin {"lock", "await"} => caller'[d].new = 0
      BY <2>4, <3>1, <3>2 DEF WatchInv, CallsHold
    <3>8. /\ \A d \in {Tracker, Handler} : caller'[d].at \notin {"gone", "await"} => caller'[d].old = 0
          /\ caller'[Quitter] = caller[Quitter]
      BY <1>1, <2>4, <3>1, <3>2, <3>5 DEF WatchInv, CallsHold, Callers
    <3> QED BY <1>2, <3>6, <3>7, <3>8 DEF WatchInv, CallsHold
  <2> QED BY <2>6, <2>7, <2>8 DEF WatchInv
<1>5. ASSUME Put(c), caller[c].at \in {"lock", "await"}
      PROVE  WatchInv'
  <2> DEFINE s == caller[c].new
             v == [watch[s] EXCEPT !.at = "listen"]
  <2>1. /\ s \in Slots /\ watch[s].at = "registered" /\ ~watch[s].cancelled
        /\ \A d \in Callers \ {c} : caller[d].new # s
    BY <1>1, <1>5 DEF WatchInv, CallsHold
  <2>2. /\ watch' = [watch EXCEPT ![s] = v] /\ games' = s /\ caller' = [caller EXCEPT ![c] = NoCall]
        /\ leaked' \subseteq Slots /\ syncs' \in {syncs, Synced}
    BY <1>1, <1>5, <2>1 DEF Put, EndWatch, WatchInv, TypeOK, Watch
  <2>3. v \in Watch /\ v.at = "listen" /\ v.tries = 0 /\ ~v.cancelled
    <3>1. watch[s] \in Watch /\ watch[s].tries = 0
      BY <1>1, <2>1 DEF WatchInv, TriesInBounds
    <3> QED BY <2>1, <3>1, ChangedWatchType DEF Watch
  <2> HIDE DEF v
  <2>4. watch'[s] = v /\ \A t \in Slots \ {s} : watch'[t] = watch[t]
    BY <1>1, <2>1, <2>2
  <2>5. caller'[c] = NoCall /\ \A d \in Callers \ {c} : caller'[d] = caller[d]
    BY <1>1, <2>2
  <2>6. TypeOK'
    <3>1. watch' \in [Slots -> Watch] /\ caller' \in [Callers -> Caller] /\ games' \in Slots \cup {0}
      BY <1>1, <1>3, <2>1, <2>2, <2>3
    <3>2. syncs' \in [{"tied", "loose"} -> {"none", "running", "zipping"}]
      BY <2>2 DEF Synced, WatchInv, TypeOK
    <3> QED BY <1>2, <2>1, <2>2, <2>3, <2>4, <3>1, <3>2, RestTyped
  <2>7. TriesInBounds' /\ GamesRuns'
    BY <2>1, <2>2, <2>3, <2>4 DEF WatchInv, TriesInBounds, GamesRuns
  <2>8. CallsHold'
    BY <1>1, <1>2, <2>1, <2>4, <2>5, CallEnds
  <2> QED BY <2>6, <2>7, <2>8 DEF WatchInv
\* Refused: the watcher is closed, and the new watch is given up.
<1>6. ASSUME caller[c].at = "lock", watch' = [watch EXCEPT ![caller[c].new] = Free],
             UNCHANGED <<games, leaked>>, EndWatch(c)
      PROVE  WatchInv'
  <2> DEFINE s == caller[c].new
  <2>1. s \in Slots /\ watch[s].at = "registered"
    BY <1>1, <1>6 DEF WatchInv, CallsHold
  <2>2. watch'[s] = Free /\ \A t \in Slots \ {s} : watch'[t] = watch[t]
    BY <1>1, <1>6, <2>1
  <2>3. caller' = [caller EXCEPT ![c] = NoCall] /\ syncs' \in {syncs, Synced}
    BY <1>6 DEF EndWatch
  <2>4. caller'[c] = NoCall /\ \A d \in Callers \ {c} : caller'[d] = caller[d]
    BY <1>1, <2>3
  <2>5. games # s
    BY <2>1, <1>1 DEF WatchInv, TypeOK
  <2>6. TypeOK'
    <3>1. /\ watch' \in [Slots -> Watch] /\ caller' \in [Callers -> Caller]
          /\ games' \in Slots \cup {0} /\ leaked' \subseteq Slots
      BY <1>1, <1>3, <1>6, <2>3, FreeType DEF WatchInv, TypeOK
    <3>2. syncs' \in [{"tied", "loose"} -> {"none", "running", "zipping"}]
      BY <2>3 DEF Synced, WatchInv, TypeOK
    <3>3. games' # 0 => watch'[games'].at \notin {"free", "registered"}
      BY <1>1, <1>6, <2>2, <2>5 DEF WatchInv, TypeOK
    <3> QED BY <1>2, <3>1, <3>2, <3>3, RestTyped
  <2>7. TriesInBounds' /\ GamesRuns'
    BY <1>1, <1>6, <2>2, <2>5 DEF WatchInv, TriesInBounds, GamesRuns, Free
  <2>8. CallsHold'
    BY <1>1, <1>2, <2>1, <2>2, <2>4, CallEnds
  <2> QED BY <2>6, <2>7, <2>8 DEF WatchInv
\* The old watch is taken out first.
<1>7. ASSUME caller[c].at = "lock", games # 0, watch' = Cancelled, games' = 0, UNCHANGED <<leaked, syncs>>,
             caller' = [caller EXCEPT ![c].at = "await", ![c].old = games]
      PROVE  WatchInv'
  <2> DEFINE k == [caller[c] EXCEPT !.at = "await", !.old = games]
  <2>1. k \in Caller /\ k.at = "await" /\ k.new = caller[c].new
    BY <1>1 DEF Caller
  <2>2. caller' = [caller EXCEPT ![c] = k]
    BY <1>1, <1>7 DEF Caller
  <2> HIDE DEF k
  <2>3. caller'[c] = k /\ \A d \in Callers \ {c} : caller'[d] = caller[d]
    BY <1>1, <2>2
  <2>4. /\ watch' \in [Slots -> Watch] /\ TriesInBounds'
        /\ \A s \in Slots : watch'[s].at = watch[s].at /\ (s # games => watch'[s] = watch[s])
    BY <1>7, CancelledType
  <2>5. TypeOK'
    <3>1. /\ caller' \in [Callers -> Caller] /\ games' \in Slots \cup {0} /\ leaked' \subseteq Slots
          /\ syncs' \in [{"tied", "loose"} -> {"none", "running", "zipping"}]
      BY <1>1, <1>7, <2>1, <2>2 DEF WatchInv, TypeOK
    <3> QED BY <1>2, <1>7, <2>4, <3>1, RestTyped
  <2>6. games \in Slots /\ watch[games].at \notin {"free", "registered"}
    BY <1>1, <1>7 DEF WatchInv, TypeOK
  <2>7. GamesRuns'
    BY <1>7, <2>4, <2>6 DEF WatchInv, GamesRuns
  <2>8. \A d \in Callers : caller[d].at \in {"lock", "await"} => watch'[caller[d].new] = watch[caller[d].new]
    BY <1>1, <2>4, <2>6 DEF WatchInv, CallsHold
  <2>9. CallsHold'
    <3>1. ASSUME NEW d \in Callers, caller'[d].at \in {"lock", "await"}
          PROVE  caller[d].at \in {"lock", "await"} /\ caller'[d].new = caller[d].new
      BY <3>1, <1>7, <2>1, <2>3
    <3>2. \A d \in Callers : caller'[d].new = caller[d].new
      BY <2>1, <2>3
    <3>3. \A d \in Callers : caller'[d].at \notin {"lock", "await"} => caller'[d].new = 0
      BY <2>1, <2>3 DEF WatchInv, CallsHold
    <3>4. /\ \A d \in {Tracker, Handler} : caller'[d].at \notin {"gone", "await"} => caller'[d].old = 0
          /\ caller'[Quitter] = caller[Quitter]
      BY <1>1, <2>1, <2>3 DEF WatchInv, CallsHold, Callers
    <3> QED BY <1>2, <2>8, <3>1, <3>2, <3>3, <3>4 DEF WatchInv, CallsHold
  <2> QED BY <2>4, <2>5, <2>7, <2>9 DEF WatchInv
<1>8. CASE Lock(c)
  BY <1>8, <1>5, <1>6, <1>7 DEF Lock
<1>9. CASE Replace(c)
  BY <1>9, <1>5 DEF Replace
<1> QED BY <1>4, <1>8, <1>9

\* The remaining steps: the save changes, a snapshot or a sync goes on.
LEMMA WatchInvOthers ==
    ASSUME WatchInv, Numbered,
           \/ Play \/ Release \/ FinishUploads \/ BeginFirstSnapshot \/ FirstSnapshot
           \/ Restore \/ ResolveConflict \/ Quit
           \/ \E k \in {"tied", "loose"} :
                  SyncPulls(k) \/ BeginSyncSnapshot(k) \/ SyncSnapshot(k) \/ EndSync(k)
    PROVE  WatchInv'
<1> USE DEF WatchInv
<1>1. /\ newest \in Nat /\ save \in 0..newest /\ MaxContent \in Nat /\ MaxRequests \in Nat
      /\ newest <= MaxContent /\ requests \in 0..MaxRequests /\ captured \subseteq 0..newest
  BY WatchAssumption DEF TypeOK, Contents, Numbered
<1>2. CASE Play \/ Restore \/ ResolveConflict \/ \E k \in {"tied", "loose"} : SyncPulls(k)
  <2>1. /\ watch' = Notified
        /\ UNCHANGED <<games, closed, leaked, caller, syncs, stage, rushed>>
        /\ busy' \in BOOLEAN /\ passedOver' \in BOOLEAN /\ uploading' \in BOOLEAN
    BY <1>2 DEF Play, Restore, ResolveConflict, SyncPulls, Rewritten, Taken, running, TypeOK
  <2>2. \/ newest < MaxContent /\ newest' = newest + 1 /\ save' = newest'
        \/ newest' = newest /\ save' \in captured \cup {save}
    BY <1>2 DEF Play, Restore, ResolveConflict, SyncPulls, Rewritten
  <2>3. newest' \in Contents /\ save' \in 0..newest' /\ save' \in Contents
    <3>1. CASE newest < MaxContent /\ newest' = newest + 1 /\ save' = newest'
      BY <1>1, <3>1 DEF Contents
    <3>2. CASE newest' = newest /\ save' \in captured \cup {save}
      <4>1. save' \in 0..newest
        BY <1>1, <3>2
      <4> QED BY <1>1, <3>2, <4>1 DEF Contents
    <3> QED BY <2>2, <3>1, <3>2
  <2>4. captured' \in {captured, captured \cup {save}}
    BY <1>2 DEF Play, Restore, ResolveConflict, SyncPulls, Taken
  <2>5. recorded' \in {recorded, save'}
    BY <1>2 DEF Play, Restore, ResolveConflict, SyncPulls
  <2>6. requests' \in 0..MaxRequests
    BY <1>1, <1>2 DEF Play, Restore, ResolveConflict, SyncPulls, running
  <2>7. captured' \subseteq Contents /\ recorded' \in Contents \cup {Unknown}
    BY <1>1, <2>3, <2>4, <2>5 DEF TypeOK, Contents
  <2>8. watch' \in [Slots -> Watch] /\ TriesInBounds' /\ CallsHold' /\ GamesRuns'
        /\ (games' # 0 => watch'[games'].at \notin {"free", "registered"})
    BY <2>1, NotifiedMovesNone
  <2> QED BY <2>1, <2>3, <2>6, <2>7, <2>8 DEF TypeOK
<1>3. CASE Release \/ FinishUploads \/ Quit
  <2>1. /\ UNCHANGED <<save, newest, recorded, captured, passedOver, watching, caller, requests, syncs, rushed>>
        /\ busy' \in BOOLEAN /\ uploading' \in BOOLEAN
    BY <1>3 DEF Release, FinishUploads, Quit, folder, history, running, TypeOK
  <2>2. stage' \in {Stages[i] : i \in 1..Len(Stages)}
    <3>1. Stages[2] = "server" /\ 2 \in 1..Len(Stages)
      BY DEF Stages
    <3> QED BY <1>3, <3>1 DEF Release, FinishUploads, Quit, running, TypeOK
  <2> QED BY <2>1, <2>2 DEF watching, TypeOK, TriesInBounds, CallsHold, GamesRuns
<1>4. CASE BeginFirstSnapshot \/ FirstSnapshot
  <2>1. /\ UNCHANGED <<folder, recorded, passedOver, watching, requests, syncs, stage, rushed>>
        /\ captured' \in {captured, captured \cup {save}} /\ uploading' \in BOOLEAN
        /\ caller[Tracker].at \in {"zip", "insert"}
        /\ \E at \in {"insert", "register"} : caller' = [caller EXCEPT ![Tracker].at = at]
    BY <1>4 DEF BeginFirstSnapshot, FirstSnapshot, Taken, history, TypeOK
  <2>2. PICK at \in {"insert", "register"} : caller' = [caller EXCEPT ![Tracker].at = at]
    BY <2>1
  <2> DEFINE k == [caller[Tracker] EXCEPT !.at = at]
  <2>3. caller \in [Callers -> Caller] /\ Tracker \in Callers /\ Tracker # Quitter
    BY CallersDiffer DEF TypeOK, Callers
  <2>4. k \in Caller /\ k.at = at /\ k.new = caller[Tracker].new /\ k.old = caller[Tracker].old
    BY <2>3 DEF Caller
  <2>5. caller' = [caller EXCEPT ![Tracker] = k]
    BY <2>2, <2>3 DEF Caller
  <2> HIDE DEF k
  <2>6. caller' \in [Callers -> Caller] /\ caller'[Tracker] = k
        /\ \A d \in Callers \ {Tracker} : caller'[d] = caller[d]
    BY <2>3, <2>4, <2>5
  <2>7. captured' \subseteq Contents
    BY <1>1, <2>1 DEF Contents
  <2>8. TypeOK' /\ TriesInBounds' /\ GamesRuns'
    BY <2>1, <2>6, <2>7 DEF TypeOK, TriesInBounds, GamesRuns, folder, watching
  <2>9. CallsHold'
    BY <2>1, <2>3, <2>4, <2>6 DEF CallsHold, watching, Callers
  <2> QED BY <2>8, <2>9
<1>5. ASSUME NEW k \in {"tied", "loose"}, BeginSyncSnapshot(k) \/ SyncSnapshot(k) \/ EndSync(k)
      PROVE  WatchInv'
  <2>1. /\ UNCHANGED <<folder, recorded, passedOver, watching, caller, requests, stage>>
        /\ captured' \in {captured, captured \cup {save}} /\ uploading' \in BOOLEAN /\ rushed' \in BOOLEAN
    BY <1>5 DEF BeginSyncSnapshot, SyncSnapshot, EndSync, Taken, history, TypeOK, Late, Past
  <2>2. syncs' \in [{"tied", "loose"} -> {"none", "running", "zipping"}]
    BY <1>5 DEF BeginSyncSnapshot, SyncSnapshot, EndSync, TypeOK
  <2>3. captured' \subseteq Contents
    BY <1>1, <2>1 DEF Contents
  <2> QED BY <2>1, <2>2, <2>3 DEF TypeOK, TriesInBounds, CallsHold, GamesRuns, folder, watching
<1> QED BY <1>2, <1>3, <1>4, <1>5

\* A request that ends the watch, the end of its wait, and the stages of Stop.
LEMMA WatchInvEnds ==
    ASSUME WatchInv, Request \/ Unwatched \/ Advance
    PROVE  WatchInv'
<1> USE DEF WatchInv
<1>1. /\ caller \in [Callers -> Caller] /\ Handler \in Callers /\ Quitter \in Callers
      /\ Handler # Quitter /\ Handler # Tracker /\ Tracker # Quitter /\ games \in Slots \cup {0}
      /\ MaxRequests \in Nat /\ requests \in 0..MaxRequests
  BY CallersDiffer, WatchAssumption DEF TypeOK, Callers
<1>2. NoCall \in Caller /\ NoCall.at = "idle" /\ NoCall.new = 0 /\ NoCall.old = 0
  BY DEF NoCall, Caller
\* A call of the handler that starts or goes on without a new watch.
<1>3. ASSUME NEW k \in Caller, caller' = [caller EXCEPT ![Handler] = k],
             k.at \in {"idle", "gone", "register"}, k.new = 0, k.at # "gone" => k.old = 0,
             UNCHANGED <<watch, games, closed, leaked>>
      PROVE  /\ caller' \in [Callers -> Caller] /\ TriesInBounds' /\ GamesRuns' /\ CallsHold'
             /\ (games' # 0 => watch'[games'].at \notin {"free", "registered"})
  <2>1. caller' \in [Callers -> Caller] /\ caller'[Handler] = k
        /\ \A d \in Callers \ {Handler} : caller'[d] = caller[d]
    BY <1>1, <1>3
  <2>2. CallsHold'
    <3>1. ASSUME NEW d \in Callers, caller'[d].at \in {"lock", "await"}
          PROVE  /\ caller'[d].new # 0 /\ watch'[caller'[d].new].at = "registered"
                 /\ ~watch'[caller'[d].new].cancelled
                 /\ \A e \in Callers \ {d} : caller'[e].new # caller'[d].new
      BY <3>1, <1>3, <2>1 DEF CallsHold
    <3>2. \A d \in Callers : caller'[d].at \notin {"lock", "await"} => caller'[d].new = 0
      BY <1>3, <2>1 DEF CallsHold
    <3>3. /\ \A d \in {Tracker, Handler} : caller'[d].at \notin {"gone", "await"} => caller'[d].old = 0
          /\ caller'[Quitter] = caller[Quitter]
      BY <1>1, <1>3, <2>1 DEF CallsHold, Callers
    <3> QED BY <1>3, <3>1, <3>2, <3>3 DEF CallsHold
  <2> QED BY <1>3, <2>1, <2>2 DEF TypeOK, TriesInBounds, GamesRuns
<1>4. CASE Unwatched
  <2> DEFINE k == IF caller[Handler].again THEN [NoCall EXCEPT !.at = "register"] ELSE NoCall
  <2>1. k \in Caller /\ k.at \in {"idle", "register"} /\ k.new = 0 /\ k.old = 0
    BY <1>2 DEF Caller, NoCall
  <2>2. caller' = [caller EXCEPT ![Handler] = k]
    BY <1>4 DEF Unwatched
  <2>3. UNCHANGED <<folder, history, watching, requests, syncs, stage, rushed>>
    BY <1>4 DEF Unwatched
  <2> HIDE DEF k
  <2> QED BY <1>3, <2>1, <2>2, <2>3 DEF TypeOK, folder, history, watching
\* The watch of the game is told to end, on behalf of c.
<1>5. ASSUME NEW c \in {Handler, Quitter}, NEW k \in Caller, caller' = [caller EXCEPT ![c] = k],
             c = Handler => k.at = "gone", c = Quitter => k.at = "idle", k.new = 0,
             watch' = Cancelled, games' = 0, closed' \in BOOLEAN, closed => closed',
             c = Quitter => closed'
      PROVE  /\ watch' \in [Slots -> Watch] /\ caller' \in [Callers -> Caller]
             /\ TriesInBounds' /\ GamesRuns' /\ CallsHold'
  <2>1. caller' \in [Callers -> Caller] /\ caller'[c] = k /\ c \in Callers
        /\ \A d \in Callers \ {c} : caller'[d] = caller[d]
    BY <1>1, <1>5
  <2>2. /\ watch' \in [Slots -> Watch] /\ TriesInBounds'
        /\ \A s \in Slots : watch'[s].at = watch[s].at /\ (s # games => watch'[s] = watch[s])
    BY <1>5, CancelledType
  <2>3. games # 0 => watch[games].at \notin {"free", "registered"}
    BY DEF TypeOK
  <2>4. games' = 0 /\ \A s \in Slots : watch'[s].at = "free" => watch'[s] = Free
    <3>1. \A s \in Slots : watch[s].at = "free" => watch[s] = Free /\ s # games
      BY <2>3, WatchAssumption DEF GamesRuns
    <3> QED BY <1>5, <2>2, <3>1
  <2>5. GamesRuns'
    BY <2>4 DEF GamesRuns
  <2>6. \A d \in Callers : caller[d].new \in Slots \cup {0}
    BY <1>1 DEF Caller
  <2>7. \A d \in Callers : caller[d].at \in {"lock", "await"} => watch'[caller[d].new] = watch[caller[d].new]
    BY <2>2, <2>3, <2>6 DEF CallsHold
  <2>8. ASSUME NEW d \in Callers, caller'[d].at \in {"lock", "await"}
        PROVE  /\ caller'[d].new # 0 /\ watch'[caller'[d].new].at = "registered"
               /\ ~watch'[caller'[d].new].cancelled
               /\ \A e \in Callers \ {d} : caller'[e].new # caller'[d].new
    BY <2>8, <1>5, <2>1, <2>7 DEF CallsHold
  <2>9. /\ \A d \in Callers : caller'[d].at \notin {"lock", "await"} => caller'[d].new = 0
        /\ \A d \in {Tracker, Handler} : caller'[d].at \notin {"gone", "await"} => caller'[d].old = 0
        /\ caller'[Quitter].at = "idle" /\ (~closed' => caller'[Quitter].old = 0)
    BY <1>1, <1>5, <2>1 DEF CallsHold, Callers
  <2> QED BY <2>1, <2>2, <2>5, <2>8, <2>9 DEF CallsHold
<1>6. CASE Request
  <2>1. /\ UNCHANGED <<folder, history, syncs, stage, rushed, closed, leaked>>
        /\ requests' \in 0..MaxRequests
    BY <1>1, <1>6 DEF Request, Unwatch, watching
  <2>2. ASSUME NEW again \in BOOLEAN, Unwatch(again)
        PROVE  WatchInv'
    <3> DEFINE k == [at |-> "gone", new |-> 0, old |-> games, again |-> again]
    <3>1. k \in Caller /\ k.at = "gone" /\ k.new = 0
      BY <1>1 DEF Caller
    <3>2. caller' = [caller EXCEPT ![Handler] = k] /\ watch' = Cancelled /\ games' = 0
      BY <2>2 DEF Unwatch
    <3> HIDE DEF k
    <3>3. closed \in BOOLEAN
      BY DEF TypeOK
    <3>4. /\ watch' \in [Slots -> Watch] /\ caller' \in [Callers -> Caller]
          /\ TriesInBounds' /\ GamesRuns' /\ CallsHold'
      BY <1>1, <1>5, <2>1, <3>1, <3>2, <3>3
    <3> QED BY <2>1, <3>2, <3>4 DEF TypeOK, folder, history
  <2>3. ASSUME caller' = [caller EXCEPT ![Handler].at = "register"], UNCHANGED watching,
               caller[Handler].at = "idle"
        PROVE  WatchInv'
    <3> DEFINE k == [caller[Handler] EXCEPT !.at = "register"]
    <3>1. k \in Caller /\ k.at = "register" /\ k.new = 0 /\ k.old = 0
      BY <1>1, <2>3 DEF Caller, CallsHold
    <3>2. caller' = [caller EXCEPT ![Handler] = k]
      BY <1>1, <2>3 DEF Caller
    <3> HIDE DEF k
    <3> QED BY <1>3, <2>1, <2>3, <3>1, <3>2 DEF TypeOK, folder, history, watching
  <2> QED BY <1>6, <2>2, <2>3 DEF Request
<1>7. CASE Advance
  <2>1. /\ UNCHANGED <<folder, history, requests, syncs>> /\ rushed' \in BOOLEAN
    <3>1. Drained \in BOOLEAN
      BY <1>7, StageDrains
    <3> QED BY <1>7, <3>1 DEF Advance, TypeOK
  <2>2. stage' \in {Stages[i] : i \in 1..Len(Stages)}
    <3>1. stage' \in {"syncs", "watches", "snapshots", "initial", "uploads", "closed"}
      BY <1>7, NextStage
    <3> QED BY <3>1, StageSet
  <2>3. CASE stage' = "watches"
    <3>1. StopWatcher
      BY <1>7, <2>3 DEF Advance
    <3> DEFINE k == [caller[Quitter] EXCEPT !.old = games]
    <3>2. k \in Caller /\ k.at = "idle" /\ k.new = 0
      BY <1>1 DEF Caller, CallsHold
    <3>3. caller' = [caller EXCEPT ![Quitter] = k] /\ watch' = Cancelled /\ games' = 0
          /\ closed' = TRUE /\ leaked' = leaked
      BY <1>1, <3>1 DEF StopWatcher, Caller
    <3> HIDE DEF k
    <3>4. /\ watch' \in [Slots -> Watch] /\ caller' \in [Callers -> Caller]
          /\ TriesInBounds' /\ GamesRuns' /\ CallsHold'
      BY <1>1, <1>5, <3>2, <3>3
    <3> QED BY <2>1, <2>2, <3>3, <3>4 DEF TypeOK, folder, history
  <2>4. CASE stage' # "watches"
    BY <1>7, <2>1, <2>2, <2>4 DEF Advance, TypeOK, TriesInBounds, GamesRuns, CallsHold, folder, history, watching
  <2> QED BY <2>3, <2>4
<1> QED BY <1>4, <1>6, <1>7

\* What a step does to the numbers of the contents.
LEMMA NumberedInit == Init => Numbered
<1> SUFFICES ASSUME Init PROVE Numbered
  OBVIOUS
<1>1. \A s \in Slots : watch[s] = Free \/ watch[s] = [Free EXCEPT !.at = "listen"]
  BY DEF Init
<1>2. \A s \in Slots : watch[s].hash = 0 /\ watch[s].zipped = 0
  BY <1>1 DEF Free
<1> QED BY <1>2 DEF Init, Numbered

LEMMA NumberedNext ==
    ASSUME WatchInv, Numbered, [Next]_vars
    PROVE  Numbered'
<1>1. /\ newest \in Nat /\ save \in 0..newest /\ captured \subseteq 0..newest
      /\ recorded # Unknown => recorded <= newest
      /\ \A s \in Slots : watch[s] \in Watch /\ watch[s].hash \in 0..newest /\ watch[s].zipped \in 0..newest
      /\ watch \in [Slots -> Watch]
  BY WatchAssumption DEF WatchInv, TypeOK, Contents, Numbered, Watch
<1>2. ASSUME newest' = newest, captured' \subseteq captured \cup {save},
             recorded' = recorded,
             \A s \in Slots : /\ watch'[s].hash \in {0, watch[s].hash, save}
                              /\ watch'[s].zipped \in {0, watch[s].zipped, save}
      PROVE  Numbered'
  <2>1. save <= newest /\ 0 <= newest /\ save \in 0..newest
    BY <1>1
  <2>2. \A s \in Slots : watch'[s].hash <= newest /\ watch'[s].zipped <= newest
    BY <1>1, <1>2, <2>1
  <2>3. captured' \subseteq 0..newest
    BY <1>1, <1>2
  <2>4. Unknown' = Unknown
    BY DEF Unknown
  <2> QED BY <1>1, <1>2, <2>2, <2>3, <2>4 DEF Numbered
<1>3. Free.hash = 0 /\ Free.zipped = 0
  BY DEF Free
<1>4. ASSUME NEW s \in Slots, Run(s) PROVE Numbered'
  <2>1. PICK w \in Watch : Over(s) = [watch EXCEPT ![s] = w] /\ w.hash = 0 /\ w.zipped = 0
    BY OverType
  <2>2. \A t \in Slots : Over(s)[t].hash \in {0, watch[t].hash} /\ Over(s)[t].zipped \in {0, watch[t].zipped}
    BY <1>1, <2>1
  <2>3. CASE Record(s)
    <3>1. newest' = newest /\ captured' = captured /\ recorded' = watch[s].hash /\ watch' = Over(s)
      BY <2>3 DEF Record, folder
    <3>2. \A t \in Slots : watch'[t].hash <= newest /\ watch'[t].zipped <= newest
      BY <1>1, <2>2, <3>1
    <3> QED BY <1>1, <3>1, <3>2 DEF Numbered
  <2>4. CASE Insert(s)
    <3>1. newest' = newest /\ captured' = captured \cup {watch[s].zipped} /\ recorded' = recorded
      BY <2>4 DEF Insert, Taken, folder
    <3>2. \A t \in Slots : watch'[t].hash = watch[t].hash /\ watch'[t].zipped \in {0, watch[t].zipped}
      BY <2>4, <1>1 DEF Insert, Watch
    <3>3. captured' \subseteq 0..newest
      BY <1>1, <3>1
    <3>4. \A t \in Slots : watch'[t].hash <= newest /\ watch'[t].zipped <= newest
      BY <1>1, <3>2
    <3>5. recorded' # Unknown' => recorded' <= newest
      BY <1>1, <3>1 DEF Unknown
    <3> QED BY <3>1, <3>3, <3>4, <3>5 DEF Numbered
  <2>5. CASE FailCheck(s) \/ GiveUp(s)
    <3>1. newest' = newest /\ captured' = captured /\ recorded' = recorded /\ watch' = Over(s)
      BY <2>5 DEF FailCheck, GiveUp, folder
    <3> QED BY <1>2, <2>2, <3>1
  <2>6. CASE Check(s)
    <3>1. newest' = newest /\ captured' = captured /\ recorded' = recorded
      BY <2>6 DEF Check, folder, history
    <3>2. CASE watch' = Over(s)
      BY <1>2, <2>2, <3>1, <3>2
    <3>3. CASE watch' = [watch EXCEPT ![s].at = "zip", ![s].hash = save]
      <4>1. \A t \in Slots : watch'[t].hash \in {0, watch[t].hash, save} /\ watch'[t].zipped = watch[t].zipped
        BY <1>1, <3>3 DEF Watch
      <4> QED BY <1>2, <3>1, <4>1
    <3> QED BY <2>6, <3>2, <3>3 DEF Check
  <2>7. CASE Return(s) \/ Arm(s) \/ TimerFires(s) \/ Zip(s) \/ FailSnapshot(s) \/ Retry(s)
    <3>1. newest' = newest /\ captured' = captured /\ recorded' = recorded
      BY <2>7 DEF Return, Arm, TimerFires, Zip, FailSnapshot, Retry, folder, history
    <3>2. \A t \in Slots : /\ watch'[t].hash \in {0, watch[t].hash, save}
                           /\ watch'[t].zipped \in {0, watch[t].zipped, save}
      <4>1. CASE Return(s)
        BY <4>1, <1>1, <1>3 DEF Return
      <4>2. CASE Arm(s) \/ TimerFires(s) \/ Retry(s)
        BY <4>2, <1>1 DEF Arm, TimerFires, Retry, Goes, Watch
      <4>3. CASE Zip(s) \/ FailSnapshot(s)
        BY <4>3, <1>1 DEF Zip, FailSnapshot, Watch
      <4> QED BY <2>7, <4>1, <4>2, <4>3
    <3> QED BY <1>2, <3>1, <3>2
  <2> QED BY <1>4, <2>3, <2>4, <2>5, <2>6, <2>7 DEF Run, HandleChange
<1>5. CASE Play \/ Restore \/ ResolveConflict \/ \E k \in {"tied", "loose"} : SyncPulls(k)
  <2>1. watch' = Notified
    BY <1>5 DEF Play, Restore, ResolveConflict, SyncPulls, Rewritten
  <2>2. \A s \in Slots : watch'[s].hash = watch[s].hash /\ watch'[s].zipped = watch[s].zipped
    BY <1>1, <2>1 DEF Notified, Watch
  <2>3. \/ newest' = newest + 1 /\ save' = newest'
        \/ newest' = newest /\ save' \in captured \cup {save}
    BY <1>5 DEF Play, Restore, ResolveConflict, SyncPulls, Rewritten
  <2>4. captured' \subseteq captured \cup {save} /\ recorded' \in {recorded, save'}
    BY <1>5 DEF Play, Restore, ResolveConflict, SyncPulls, Taken
  <2>5. newest <= newest' /\ save' <= newest' /\ newest' \in Nat
    <3>1. save <= newest /\ \A x \in captured \cup {save} : x <= newest
      BY <1>1
    <3>2. CASE newest' = newest + 1 /\ save' = newest'
      BY <1>1, <3>2
    <3>3. CASE newest' = newest /\ save' \in captured \cup {save}
      BY <1>1, <3>1, <3>3
    <3> QED BY <2>3, <3>2, <3>3
  <2>6. captured' \subseteq 0..newest'
    BY <1>1, <2>4, <2>5
  <2>7. \A s \in Slots : watch'[s].hash <= newest' /\ watch'[s].zipped <= newest'
    BY <1>1, <2>2, <2>5
  <2>8. recorded' # Unknown => recorded' <= newest'
    BY <1>1, <2>4, <2>5 DEF WatchInv, TypeOK, Contents
  <2> QED BY <2>6, <2>7, <2>8 DEF Numbered, Unknown
<1>6. CASE Release \/ FinishUploads \/ Unwatched \/ BeginFirstSnapshot \/ FirstSnapshot \/ Quit
           \/ \E k \in {"tied", "loose"} : BeginSyncSnapshot(k) \/ SyncSnapshot(k) \/ EndSync(k)
  <2>1. newest' = newest /\ captured' \subseteq captured \cup {save} /\ recorded' = recorded /\ watch' = watch
    BY <1>6 DEF Release, FinishUploads, Unwatched, BeginFirstSnapshot, FirstSnapshot, Quit,
                BeginSyncSnapshot, SyncSnapshot, EndSync, Taken, folder, history, watching
  <2> QED BY <1>2, <2>1
<1>7. CASE Request \/ Advance \/ \E c \in {Tracker, Handler} : Register(c) \/ Lock(c) \/ Replace(c)
  <2>1. newest' = newest /\ captured' = captured /\ recorded' = recorded
    BY <1>7 DEF Request, Advance, Register, Lock, Replace, folder, history
  <2>2. \/ watch' \in {watch, Cancelled}
        \/ \E s \in Slots \cup {0} : \/ watch' = [watch EXCEPT ![s].at = "registered"]
                                     \/ watch' = [watch EXCEPT ![s].at = "listen"]
                                     \/ watch' = [watch EXCEPT ![s] = Free]
    BY <1>7 DEF Request, Unwatch, Advance, StopWatcher, Register, Unused, Lock, Put, Replace, watching,
                WatchInv, TypeOK, Caller, Callers
  <2>3. \A s \in Slots : watch'[s].hash \in {0, watch[s].hash} /\ watch'[s].zipped \in {0, watch[s].zipped}
    <3>1. CASE watch' = Cancelled
      BY <3>1, CancelledType
    <3>2. CASE watch' # Cancelled
      BY <1>1, <1>3, <2>2, <3>2 DEF Watch
    <3> QED BY <3>1, <3>2
  <2> QED BY <1>2, <2>1, <2>3
<1>8. CASE UNCHANGED vars
  BY <1>2, <1>8 DEF vars, folder, history, watching
<1> QED BY <1>4, <1>5, <1>6, <1>7, <1>8 DEF Next

\* The watches and the contents stay well-formed through every step of the
\* watcher, of the calls that start and end watches, and of Stop.
THEOREM WatchTypeCorrect == Spec => [](WatchInv /\ Numbered)
<1>1. Init => WatchInv /\ Numbered
  BY WatchInvInit, NumberedInit
<1>2. (WatchInv /\ Numbered) /\ [Next]_vars => (WatchInv /\ Numbered)'
  <2> SUFFICES ASSUME WatchInv, Numbered, [Next]_vars PROVE WatchInv' /\ Numbered'
    OBVIOUS
  <2>1. CASE UNCHANGED vars
    <3>1. TypeOK'
      BY <2>1 DEF vars, folder, history, watching, running, WatchInv, TypeOK
    <3>2. TriesInBounds' /\ CallsHold' /\ GamesRuns'
      BY <2>1 DEF vars, folder, history, watching, running, WatchInv, TriesInBounds, CallsHold, GamesRuns
    <3> QED BY <2>1, <3>1, <3>2, NumberedNext DEF WatchInv
  <2> QED BY <2>1, NumberedNext, WatchInvRun, WatchInvLock, WatchInvOthers, WatchInvEnds DEF Next
<1> QED BY <1>1, <1>2, PTL DEF Spec

-----------------------------------------------------------------------------
(* No change is lost: proof                                                *)

\* What HashesAreSettled and SeenIsInHand say of one watch.
Clear(w) ==
    /\ w.at = "insert" /\ w.hash = save => w.zipped = save \/ Settled
    /\ w.at = "record" /\ w.hash = save => Settled
    /\ w.saw => w.at # "free" /\ ~w.cancelled /\ (w.event \/ InHand(w))

LEMMA SeenIsClear ==
    SeenInv <=> ((recorded = save => Settled) /\ \A s \in Slots : Clear(watch[s]))
    BY DEF SeenInv, HashesAreSettled, SeenIsInHand, Clear

LEMMA SeenInvInit == Init => SeenInv
<1> SUFFICES ASSUME Init PROVE SeenInv
  OBVIOUS
<1>1. \A s \in Slots : watch[s] = Free \/ watch[s] = [Free EXCEPT !.at = "listen"]
  BY DEF Init
<1>2. \A s \in Slots : watch[s].at \in {"free", "listen"} /\ ~watch[s].saw
  BY <1>1 DEF Free
<1>3. recorded # save
  BY WatchAssumption DEF Init, Unknown
<1> QED BY <1>2, <1>3, SeenIsClear DEF Clear

\* As long as the save stays, snapshots and given-up changes only settle more.
LEMMA StaysClear ==
    ASSUME SeenInv, save' = save, captured \subseteq captured', passedOver => passedOver',
           recorded' = recorded \/ (recorded' = save => Settled'),
           \A t \in Slots : watch'[t] = watch[t] \/ Clear(watch[t])'
    PROVE  SeenInv'
<1>1. Settled => Settled'
  BY DEF Settled
<1>2. \A w : Clear(w) => Clear(w)'
  BY <1>1 DEF Clear, InHand
<1>3. \A t \in Slots : Clear(watch[t]) 
  BY SeenIsClear
<1>4. \A t \in Slots : Clear(watch[t])'
  BY <1>2, <1>3
<1>5. recorded' = save' => Settled'
  BY <1>1, SeenIsClear
<1> QED BY <1>4, <1>5 DEF SeenInv, HashesAreSettled, SeenIsInHand, Clear

\* When the save changes, every watch that is listening is told, and the content
\* is a new one unless it comes from a snapshot.
LEMMA SeenInvChanges ==
    ASSUME WatchInv, Numbered, SeenInv,
           Play \/ Restore \/ ResolveConflict \/ \E k \in {"tied", "loose"} : SyncPulls(k)
    PROVE  SeenInv'
<1>1. watch' = Notified
  BY DEF Play, Restore, ResolveConflict, SyncPulls, Rewritten
<1>2. /\ newest \in Nat /\ MaxContent \in Nat
      /\ \A s \in Slots : watch[s] \in Watch /\ watch[s].hash \in 0..newest
  BY WatchAssumption DEF WatchInv, TypeOK, Contents, Numbered, Watch
<1>3. Settled' \/ (save' = newest + 1 /\ newest < MaxContent /\ recorded' = recorded)
  BY DEF Play, Restore, ResolveConflict, SyncPulls, Rewritten, Taken, Settled
<1>4. recorded' = save' => Settled'
  BY <1>2, <1>3 DEF Numbered, Unknown
<1>5. ASSUME NEW s \in Slots PROVE Clear(watch[s])'
  <2>1. /\ watch'[s].at = watch[s].at /\ watch'[s].hash = watch[s].hash
        /\ watch'[s].cancelled = watch[s].cancelled
        /\ watch[s].at = "free" \/ watch[s].cancelled => watch'[s].saw = watch[s].saw
        /\ watch[s].at # "free" /\ ~watch[s].cancelled => watch'[s].event
    BY <1>1, <1>2 DEF Notified, Watch
  <2>2. watch[s].hash = save' => Settled'
    BY <1>2, <1>3
  <2>3. watch[s].saw => watch[s].at # "free" /\ ~watch[s].cancelled
    BY DEF SeenInv, SeenIsInHand
  <2> QED BY <2>1, <2>2, <2>3 DEF Clear
<1> QED BY <1>4, <1>5 DEF SeenInv, HashesAreSettled, SeenIsInHand, Clear

LEMMA SeenInvRun ==
    ASSUME WatchInv, SeenInv, NEW s \in Slots, Run(s)
    PROVE  SeenInv'
<1>1. watch \in [Slots -> Watch] /\ watch[s] \in Watch
  BY DEF WatchInv, TypeOK
<1>2. Clear(watch[s]) /\ (recorded = save => Settled)
  BY SeenIsClear
<1>3. PICK w \in Watch : /\ Over(s) = [watch EXCEPT ![s] = w]
                         /\ w.at = "listen" /\ w.event = watch[s].event
                         /\ w.cancelled = watch[s].cancelled /\ w.saw = watch[s].saw
  BY OverType
<1>4. watch' = Over(s) => watch'[s] = w /\ \A t \in Slots \ {s} : watch'[t] = watch[t]
  BY <1>1, <1>3
<1>5. CASE Return(s)
  <2>1. watch'[s] = Free /\ \A t \in Slots \ {s} : watch'[t] = watch[t]
    BY <1>1, <1>5 DEF Return
  <2>2. Clear(watch[s])'
    BY <2>1 DEF Clear, Free
  <2> QED BY <1>5, <2>1, <2>2, StaysClear DEF Return, folder, history
<1>6. CASE Arm(s) \/ TimerFires(s)
  <2>1. /\ \A t \in Slots \ {s} : watch'[t] = watch[t]
        /\ watch[s].at = "listen" /\ watch'[s].saw = watch[s].saw /\ watch'[s].cancelled = watch[s].cancelled
        /\ watch'[s].at \in {"listen", "guard"} /\ (watch'[s].at = "listen" => watch'[s].armed)
    BY <1>1, <1>6 DEF Arm, TimerFires, Watch
  <2>2. Clear(watch[s])'
    BY <1>2, <2>1 DEF Clear, InHand
  <2> QED BY <1>6, <2>1, <2>2, StaysClear DEF Arm, TimerFires, folder, history
<1>7. CASE Check(s)
  <2>1. UNCHANGED <<save, captured, passedOver, recorded>> /\ watch[s].at = "guard"
    BY <1>7 DEF Check, folder, history
  <2>2. CASE save = recorded
    <3>1. watch' = Over(s) /\ Settled'
      BY <1>2, <1>7, <2>1, <2>2 DEF Check, Settled
    <3>2. Clear(watch[s])'
      BY <1>2, <1>3, <1>4, <2>1, <3>1 DEF Clear, InHand
    <3> QED BY <1>4, <2>1, <3>1, <3>2, StaysClear
  <2>3. CASE save # recorded
    <3>1. /\ \A t \in Slots \ {s} : watch'[t] = watch[t]
          /\ watch'[s].at = "zip" /\ watch'[s].hash = save /\ watch'[s].saw = watch[s].saw
          /\ watch'[s].cancelled = watch[s].cancelled
      BY <1>1, <1>7, <2>3 DEF Check, Watch
    <3>2. Clear(watch[s])'
      BY <1>2, <2>1, <3>1 DEF Clear, InHand
    <3> QED BY <2>1, <3>1, <3>2, StaysClear
  <2> QED BY <2>2, <2>3
<1>8. CASE FailCheck(s) \/ GiveUp(s)
  <2>1. /\ UNCHANGED <<save, captured, recorded>> /\ watch' = Over(s) /\ (passedOver => passedOver')
        /\ \/ Settled'
           \/ watch[s].at = "pause" /\ save # watch[s].hash
    BY <1>8 DEF FailCheck, GiveUp, folder, Settled
  <2>2. Clear(watch[s])'
    BY <1>2, <1>3, <1>4, <2>1 DEF Clear, InHand
  <2> QED BY <1>4, <2>1, <2>2, StaysClear
<1>9. CASE Zip(s)
  <2>1. /\ UNCHANGED <<save, captured, passedOver, recorded>> /\ watch[s].at = "zip"
        /\ \A t \in Slots \ {s} : watch'[t] = watch[t]
        /\ watch'[s].at = "insert" /\ watch'[s].hash = watch[s].hash /\ watch'[s].zipped = save
        /\ watch'[s].saw = watch[s].saw /\ watch'[s].event = watch[s].event
        /\ watch'[s].cancelled = watch[s].cancelled
    BY <1>1, <1>9 DEF Zip, Watch, folder, history
  <2>2. Clear(watch[s])'
    BY <1>2, <2>1 DEF Clear, InHand
  <2> QED BY <2>1, <2>2, StaysClear
<1>10. CASE Insert(s)
  <2>1. /\ UNCHANGED <<save, passedOver, recorded>> /\ captured' = captured \cup {watch[s].zipped}
        /\ watch[s].at = "insert"
        /\ \A t \in Slots \ {s} : watch'[t] = watch[t]
        /\ watch'[s].at = "record" /\ watch'[s].hash = watch[s].hash
        /\ watch'[s].saw = watch[s].saw /\ watch'[s].event = watch[s].event
        /\ watch'[s].cancelled = watch[s].cancelled
    BY <1>1, <1>10 DEF Insert, Taken, Watch, folder
  <2>2. Clear(watch[s])'
    BY <1>2, <2>1 DEF Clear, InHand, Settled
  <2> QED BY <2>1, <2>2, StaysClear
<1>11. CASE FailSnapshot(s) \/ Retry(s)
  <2>1. /\ UNCHANGED <<save, captured, passedOver, recorded>> /\ watch[s].at \in {"zip", "insert", "pause"}
        /\ \A t \in Slots \ {s} : watch'[t] = watch[t]
        /\ watch'[s].at \in {"pause", "zip"} /\ watch'[s].hash = watch[s].hash
        /\ watch'[s].saw = watch[s].saw /\ watch'[s].event = watch[s].event
        /\ watch'[s].cancelled = watch[s].cancelled
    BY <1>1, <1>11 DEF FailSnapshot, Retry, Goes, Watch, folder, history
  <2>2. Clear(watch[s])'
    BY <1>2, <2>1 DEF Clear, InHand
  <2> QED BY <2>1, <2>2, StaysClear
<1>12. CASE Record(s)
  <2>1. /\ UNCHANGED <<save, captured, passedOver>> /\ watch' = Over(s)
        /\ watch[s].at = "record" /\ recorded' = watch[s].hash
    BY <1>12 DEF Record, folder
  <2>2. recorded' = save => Settled'
    BY <1>2, <2>1 DEF Clear, Settled
  <2>3. Clear(watch[s])'
    BY <1>2, <1>3, <1>4, <2>1 DEF Clear, InHand, Settled
  <2> QED BY <1>4, <2>1, <2>2, <2>3, StaysClear
<1> QED BY <1>5, <1>6, <1>7, <1>8, <1>9, <1>10, <1>11, <1>12 DEF Run, HandleChange

\* Nothing else touches the hashes, and a new watch or one told to end has not
\* been told of anything.
LEMMA SeenInvCalls ==
    ASSUME WatchInv, SeenInv,
           Request \/ Advance \/ \E c \in {Tracker, Handler} : Register(c) \/ Lock(c) \/ Replace(c)
    PROVE  SeenInv'
<1>1. watch \in [Slots -> Watch] /\ 0 \notin Slots
  BY WatchAssumption DEF WatchInv, TypeOK
<1>2. UNCHANGED <<save, captured, passedOver, recorded>>
  BY DEF Request, Advance, Register, Lock, Replace, folder, history
<1>3. \A t \in Slots : Clear(watch[t]) 
  BY SeenIsClear
<1>4. CASE watch' \in {watch, Cancelled}
  <2>1. ASSUME NEW t \in Slots, watch' = Cancelled PROVE Clear(watch[t])' \/ watch'[t] = watch[t]
    BY <1>2, <1>3, <2>1, CancelledType DEF Clear, Settled
  <2> QED BY <1>2, <1>4, <2>1, StaysClear
<1>5. ASSUME NEW s \in Slots, watch[s].at = "free", watch' = [watch EXCEPT ![s].at = "registered"]
      PROVE  SeenInv'
  <2>1. /\ \A t \in Slots \ {s} : watch'[t] = watch[t]
        /\ watch'[s].at = "registered" /\ ~watch'[s].saw
    BY <1>1, <1>3, <1>5 DEF Clear, Watch
  <2> QED BY <1>2, <2>1, StaysClear DEF Clear
<1>6. ASSUME NEW s \in Slots, watch[s].at = "registered", watch' = [watch EXCEPT ![s].at = "listen"]
      PROVE  SeenInv'
  <2>1. /\ \A t \in Slots \ {s} : watch'[t] = watch[t]
        /\ watch'[s].at = "listen" /\ watch'[s].saw = watch[s].saw /\ watch'[s].event = watch[s].event
        /\ watch'[s].armed = watch[s].armed /\ watch'[s].cancelled = watch[s].cancelled
    BY <1>1, <1>6 DEF Watch
  <2>2. Clear(watch[s])'
    BY <1>2, <1>3, <1>6, <2>1 DEF Clear, InHand, Settled
  <2> QED BY <1>2, <2>1, <2>2, StaysClear
<1>7. ASSUME NEW s \in Slots, watch' = [watch EXCEPT ![s] = Free]
      PROVE  SeenInv'
  <2>1. watch'[s] = Free /\ \A t \in Slots \ {s} : watch'[t] = watch[t]
    BY <1>1, <1>7
  <2> QED BY <1>2, <2>1, StaysClear DEF Clear, Free
<1>8. \A c \in {Tracker, Handler} : caller[c].at \in {"lock", "await"} =>
          caller[c].new \in Slots /\ watch[caller[c].new].at = "registered"
  BY DEF WatchInv, CallsHold, TypeOK, Callers, Caller
<1>9. CASE Request \/ Advance
  BY <1>4, <1>9 DEF Request, Unwatch, Advance, StopWatcher, watching
<1>10. ASSUME NEW c \in {Tracker, Handler}, Register(c) \/ Lock(c) \/ Replace(c)
       PROVE  SeenInv'
  BY <1>4, <1>5, <1>6, <1>7, <1>8, <1>10 DEF Register, Unused, Lock, Put, Replace
<1> QED BY <1>9, <1>10

LEMMA SeenInvNext ==
    ASSUME WatchInv, Numbered, SeenInv, [Next]_vars
    PROVE  SeenInv'
<1>1. CASE Release \/ FinishUploads \/ Unwatched \/ BeginFirstSnapshot \/ FirstSnapshot \/ Quit
           \/ \E k \in {"tied", "loose"} : BeginSyncSnapshot(k) \/ SyncSnapshot(k) \/ EndSync(k)
  <2>1. save' = save /\ captured \subseteq captured' /\ recorded' = recorded /\ watch' = watch
        /\ passedOver' = passedOver
    BY <1>1 DEF Release, FinishUploads, Unwatched, BeginFirstSnapshot, FirstSnapshot, Quit,
                BeginSyncSnapshot, SyncSnapshot, EndSync, Taken, folder, history, watching
  <2> QED BY <2>1, StaysClear
<1>2. CASE UNCHANGED vars
  BY <1>2, StaysClear DEF vars, folder, history, watching
<1> QED BY <1>1, <1>2, SeenInvChanges, SeenInvRun, SeenInvCalls DEF Next

\* When the watch of the game is at rest, a change it was told of is in some
\* snapshot, or was given up or decided in a conflict, whatever changed while its
\* snapshots were taken (watcher.go:297-395, manager.go's Create).
THEOREM ChangesAreCaptured == Spec => []SeenIsCaptured
<1>1. WatchInv /\ SeenInv => SeenIsCaptured
  <2> SUFFICES ASSUME WatchInv, SeenInv, games # 0, watch[games].at = "listen",
                      ~watch[games].event, ~watch[games].armed, watch[games].saw
               PROVE  save \in captured \/ passedOver
    BY DEF SeenIsCaptured
  <2>1. games \in Slots
    BY DEF WatchInv, TypeOK
  <2> QED BY <2>1, SeenIsClear DEF Clear, InHand, Settled
<1>2. Init => SeenInv
  BY SeenInvInit
<1>3. WatchInv /\ Numbered /\ SeenInv /\ [Next]_vars => SeenInv'
  BY SeenInvNext
<1> QED BY <1>1, <1>2, <1>3, WatchTypeCorrect, PTL DEF Spec

-----------------------------------------------------------------------------
(* No finished wait is undone: proof                                       *)

LEMMA PastInOrder ==
    ASSUME TypeOK
    PROVE  /\ Past("syncs") => Past("server")
           /\ Past("watches") => Past("syncs")
           /\ Past("snapshots") => Past("watches")
           /\ Past("initial") => Past("snapshots")
           /\ Past("uploads") => Past("initial")
           /\ stage = "closed" <=> Past("uploads")
           /\ stage = "up" => ~Past("server")
           /\ stage = "server" => ~Past("server")
           /\ stage = "syncs" => ~Past("syncs")
           /\ stage = "watches" => Past("syncs") /\ ~Past("watches")
           /\ stage = "snapshots" => Past("syncs") /\ ~Past("snapshots")
           /\ stage = "initial" => Past("syncs") /\ ~Past("initial")
           /\ stage = "uploads" => Past("syncs") /\ ~Past("uploads")
<1>1. stage \in {"up", "server", "syncs", "watches", "snapshots", "initial", "uploads", "closed"}
  BY StageSet DEF TypeOK
<1> QED BY <1>1, StagesInOrder DEF Past

LEMMA DrainInvInit == Init => DrainInv
<1> SUFFICES ASSUME Init PROVE DrainInv
  OBVIOUS
<1>1. \A s \in Slots : watch[s].at # "free" => s = games
  BY DEF Init, Free
<1>2. stage = "up" /\ closed = FALSE
  BY DEF Init
<1>3. ~Past("server") /\ ~Past("syncs") /\ ~Past("watches") /\ ~Past("snapshots")
      /\ ~Past("initial") /\ ~Past("uploads")
  BY <1>2, StagesInOrder DEF Past
<1> QED BY <1>1, <1>2, <1>3 DEF DrainInv, Owned, ClosedLeaks, WaitsHold

\* Steps that move no watch and give none from hand to hand.
LEMMA DrainInvQuiet ==
    ASSUME WatchInv, DrainInv,
           \/ Play \/ Release \/ FinishUploads \/ BeginFirstSnapshot \/ FirstSnapshot
           \/ Restore \/ ResolveConflict
           \/ \E k \in {"tied", "loose"} :
                  SyncPulls(k) \/ BeginSyncSnapshot(k) \/ SyncSnapshot(k) \/ EndSync(k)
    PROVE  DrainInv'
<1>1. \A s \in Slots : watch'[s].at = watch[s].at
  <2>1. watch' = watch \/ watch' = Notified
    BY DEF Play, Release, FinishUploads, BeginFirstSnapshot, FirstSnapshot, Restore, ResolveConflict,
           SyncPulls, BeginSyncSnapshot, SyncSnapshot, EndSync, Rewritten, watching
  <2>2. \A s \in Slots : watch[s] \in Watch
    BY DEF WatchInv, TypeOK
  <2>3. CASE watch' = Notified
    BY <2>2, <2>3 DEF Notified, Watch
  <2> QED BY <2>1, <2>3
<1>2. UNCHANGED <<games, leaked, closed, stage>>
  BY DEF Play, Release, FinishUploads, BeginFirstSnapshot, FirstSnapshot, Restore, ResolveConflict,
         SyncPulls, BeginSyncSnapshot, SyncSnapshot, EndSync, watching, running
<1>3. \A c \in Callers : /\ caller'[c].new = caller[c].new /\ caller'[c].old = caller[c].old
                         /\ caller[c].at = "idle" => caller'[c].at = "idle"
  <2>1. \/ caller' = caller
        \/ /\ caller[Tracker].at \in {"zip", "insert"}
           /\ \E at \in {"insert", "register"} : caller' = [caller EXCEPT ![Tracker].at = at]
    BY DEF Play, Release, FinishUploads, BeginFirstSnapshot, FirstSnapshot, Restore, ResolveConflict,
           SyncPulls, BeginSyncSnapshot, SyncSnapshot, EndSync, running
  <2>2. caller \in [Callers -> Caller]
    BY DEF WatchInv, TypeOK
  <2> QED BY <2>1, <2>2 DEF Caller
<1>4. Owned' /\ ClosedLeaks'
  <2>1. Owned'
    <3> SUFFICES ASSUME NEW s \in Slots, watch'[s].at # "free"
                 PROVE  \/ s \in leaked \/ s = games
                        \/ \E c \in Callers : caller'[c].new = s \/ caller'[c].old = s
      BY <1>2 DEF Owned
    <3>1. watch[s].at # "free"
      BY <1>1
    <3>2. \/ s \in leaked \/ s = games
          \/ \E c \in Callers : caller[c].new = s \/ caller[c].old = s
      BY <3>1 DEF DrainInv, Owned
    <3> QED BY <3>2, <1>3
  <2>2. ClosedLeaks'
    BY <1>2 DEF DrainInv, ClosedLeaks, Past
  <2> QED BY <2>1, <2>2
<1>5. ASSUME ~rushed' PROVE WaitsHold'
  <2>1. ~rushed
    BY <1>5 DEF Play, Release, FinishUploads, BeginFirstSnapshot, FirstSnapshot, Restore, ResolveConflict,
           SyncPulls, BeginSyncSnapshot, SyncSnapshot, EndSync, running, Late
  <2>2. WaitsHold /\ TypeOK
    BY <2>1 DEF DrainInv, WatchInv
  <2>3. Past("syncs") => syncs'["tied"] = "none"
    BY <2>2, <1>2 DEF WaitsHold, Play, Release, FinishUploads, BeginFirstSnapshot, FirstSnapshot, Restore,
           ResolveConflict, SyncPulls, BeginSyncSnapshot, SyncSnapshot, EndSync, running, TypeOK
  <2>4. Past("snapshots") => syncs'["loose"] # "zipping"
    <3>1. ASSUME Past("snapshots"), NEW k \in {"tied", "loose"},
                 BeginSyncSnapshot(k) \/ SyncSnapshot(k) \/ EndSync(k)
          PROVE  syncs'["loose"] # "zipping"
      <4>1. syncs["tied"] = "none" /\ syncs["loose"] # "zipping"
        BY <3>1, <2>2, PastInOrder DEF WaitsHold
      <4>2. k = "loose" /\ ~BeginSyncSnapshot(k)
        BY <3>1, <4>1, <1>5 DEF BeginSyncSnapshot, SyncSnapshot, EndSync, Late
      <4> QED BY <3>1, <4>1, <4>2 DEF SyncSnapshot, EndSync, TypeOK, WatchInv
    <3>2. syncs' = syncs \/ \E k \in {"tied", "loose"} : BeginSyncSnapshot(k) \/ SyncSnapshot(k) \/ EndSync(k)
      BY DEF Play, Release, FinishUploads, BeginFirstSnapshot, FirstSnapshot, Restore, ResolveConflict,
             SyncPulls, running
    <3> QED BY <3>1, <3>2, <2>2 DEF WaitsHold
  <2>5. Past("uploads") => FALSE
    BY <2>2, PastInOrder DEF Play, Release, FinishUploads, BeginFirstSnapshot, FirstSnapshot, Restore,
           ResolveConflict, SyncPulls, BeginSyncSnapshot, SyncSnapshot, EndSync, Alive
  <2>6. Ended(Quitter) => Ended(Quitter)'
    <3>1. Quitter \in Callers /\ caller[Quitter].old \in Slots \cup {0}
      BY DEF Callers, WatchInv, TypeOK, Caller
    <3>2. caller'[Quitter].old = caller[Quitter].old
      BY <3>1, <1>3
    <3>3. caller[Quitter].old # 0 => watch'[caller[Quitter].old].at = watch[caller[Quitter].old].at
      BY <3>1, <1>1
    <3> QED BY <3>2, <3>3 DEF Ended
  <2>7. \A x : Past(x)' <=> Past(x)
    BY <1>2 DEF Past
  <2>8. Past("snapshots") => \A s \in leaked' : watch'[s].at # "insert"
    BY <2>2, <1>1, <1>2 DEF WaitsHold, TypeOK
  <2>9. /\ Past("server") => caller'[Handler].at = "idle"
        /\ Past("initial") => caller'[Tracker].at = "idle"
    BY <2>2, <1>3 DEF WaitsHold, Callers
  <2> QED BY <2>2, <2>3, <2>4, <2>5, <2>6, <2>7, <2>8, <2>9 DEF WaitsHold
<1> QED BY <1>4, <1>5 DEF DrainInv

\* A watch of its own accord only ends, or goes on with handleChange.
LEMMA DrainInvRun ==
    ASSUME WatchInv, DrainInv, NEW s \in Slots, Run(s)
    PROVE  DrainInv'
<1>1. watch \in [Slots -> Watch] /\ watch[s].at # "free" /\ Alive
  BY DEF Run, HandleChange, Return, Arm, TimerFires, Check, FailCheck, Zip, Insert, FailSnapshot,
         Retry, GiveUp, Record, WatchInv, TypeOK
<1>2. /\ UNCHANGED <<games, closed, caller, stage>>
      /\ \A t \in Slots \ {s} : watch'[t] = watch[t]
      /\ watch'[s].at # "free" => leaked' = leaked
      /\ leaked' \in {leaked, leaked \ {s}} /\ (leaked' # leaked => watch[s].cancelled)
      /\ watch'[s].at = "insert" => (s \in leaked => (Late => rushed'))
      /\ rushed => rushed'
      /\ syncs' \in {syncs, Synced}
  <2>1. PICK w \in Watch : Over(s) = [watch EXCEPT ![s] = w] /\ w.at = "listen"
    BY OverType
  <2>7. rushed => Late
    BY DEF Late
  <2>2. CASE Return(s)
    BY <2>2, <1>1 DEF Return, Free, running
  <2>3. CASE Arm(s) \/ TimerFires(s) \/ Insert(s) \/ FailSnapshot(s) \/ Retry(s)
    BY <2>3, <1>1 DEF Arm, TimerFires, Insert, FailSnapshot, Retry, Goes, running, Watch
  <2>4. CASE Zip(s)
    BY <2>4, <2>7, <1>1 DEF Zip, running, Watch
  <2>5. CASE Check(s)
    BY <2>5, <1>1, <2>1 DEF Check, running, Watch
  <2>6. CASE FailCheck(s) \/ GiveUp(s) \/ Record(s)
    BY <2>6, <1>1, <2>1 DEF FailCheck, GiveUp, Record, running
  <2> QED BY <2>2, <2>3, <2>4, <2>5, <2>6 DEF Run, HandleChange
<1>3. Owned'
  BY <1>1, <1>2 DEF DrainInv, Owned
<1>4. ClosedLeaks'
  BY <1>2 DEF DrainInv, ClosedLeaks, Past, WatchInv, GamesRuns
<1>5. ASSUME ~rushed' PROVE WaitsHold'
  <2>1. ~rushed /\ WaitsHold /\ TypeOK
    BY <1>5, <1>2 DEF DrainInv, WatchInv
  <2>2. Past("syncs") => syncs' = syncs
    BY <1>2, <2>1, PastInOrder DEF Synced
  <2>3. ~Past("uploads")
    BY <1>1, <2>1, PastInOrder DEF Alive
  <2>4. Ended(Quitter) => Ended(Quitter)'
    <3>1. Quitter \in Callers /\ caller[Quitter].old \in Slots \cup {0}
      BY DEF Callers, WatchInv, TypeOK, Caller
    <3> QED BY <3>1, <1>1, <1>2 DEF Ended
  <2>5. Past("snapshots") => \A t \in leaked' : watch'[t].at # "insert"
    <3>1. leaked \subseteq Slots
      BY <2>1 DEF TypeOK
    <3> QED BY <3>1, <1>1, <1>2, <1>5, <2>1 DEF WaitsHold, Late
  <2>6. Past("snapshots") => syncs'["loose"] # "zipping"
    BY <2>1, <2>2, PastInOrder DEF WaitsHold
  <2> QED BY <1>2, <2>1, <2>2, <2>3, <2>4, <2>5, <2>6 DEF WaitsHold, Past
<1> QED BY <1>3, <1>4, <1>5 DEF DrainInv

\* What the steps of the calls have in common: they take no stage further.
LEMMA WaitsHoldCalls ==
    ASSUME WatchInv, DrainInv, UNCHANGED <<stage, rushed, uploading>>, ~rushed',
           caller'[Quitter] = caller[Quitter],
           caller[Handler].at = "idle" => caller'[Handler].at = "idle",
           caller[Tracker].at = "idle" => caller'[Tracker].at = "idle",
           syncs' \in {syncs, Synced},
           \A s \in Slots : \/ watch'[s].at = watch[s].at
                            \/ watch'[s].at # "insert" /\ (watch[s].at = "free" => caller[Quitter].old # s),
           \A s \in leaked' : s \in leaked \/ ~closed \/ watch'[s].at # "insert",
           leaked' \subseteq Slots
    PROVE  WaitsHold'
<1>1. WaitsHold /\ TypeOK /\ ClosedLeaks
  BY DEF DrainInv, WatchInv
<1>2. \A x : Past(x)' <=> Past(x)
  BY DEF Past
<1>3. Past("syncs") => syncs' = syncs
  BY <1>1, PastInOrder DEF Synced
<1>4. Past("watches") => Ended(Quitter)'
  <2>1. caller[Quitter].old \in Slots \cup {0}
    BY <1>1 DEF TypeOK, Callers, Caller
  <2>2. caller[Quitter].old # 0 /\ watch[caller[Quitter].old].at = "free"
          => watch'[caller[Quitter].old].at = "free"
    BY <2>1
  <2> QED BY <1>1, <2>2 DEF WaitsHold, Ended
<1>5. Past("snapshots") => closed /\ \A s \in leaked' : watch'[s].at # "insert"
  BY <1>1, PastInOrder DEF WaitsHold, ClosedLeaks
<1>6. Past("snapshots") => syncs'["loose"] # "zipping"
  BY <1>1, <1>3, PastInOrder DEF WaitsHold
<1> QED BY <1>1, <1>2, <1>3, <1>4, <1>5, <1>6 DEF WaitsHold

\* A watch passes from the call that made it to the games, and from the games
\* to the call that waits for its end.
LEMMA DrainInvLock ==
    ASSUME WatchInv, DrainInv, NEW c \in {Tracker, Handler}, Register(c) \/ Lock(c) \/ Replace(c)
    PROVE  DrainInv'
<1>1. /\ watch \in [Slots -> Watch] /\ caller \in [Callers -> Caller] /\ games \in Slots \cup {0}
      /\ 0 \notin Slots /\ c \in Callers /\ c # Quitter /\ leaked \subseteq Slots
      /\ Handler \in Callers /\ Tracker \in Callers /\ Quitter \in Callers
      /\ \A d \in Callers : caller[d].new \in Slots \cup {0} /\ caller[d].old \in Slots \cup {0}
  BY WatchAssumption, CallersDiffer DEF WatchInv, TypeOK, Callers, Caller
<1>2. UNCHANGED <<closed, stage, rushed, uploading>>
  BY DEF Register, Lock, Replace, history
<1>3. \A x : Past(x)' <=> Past(x)
  BY <1>2 DEF Past
<1>4. caller[c].at \in {"register", "lock", "await"}
  BY DEF Register, Lock, Replace
<1>5. \A d \in Callers \ {c} : caller'[d] = caller[d]
  BY <1>1 DEF Register, Lock, Replace, Put, EndWatch
<1>6. CASE Register(c)
  <2>1. PICK s \in Unused : /\ watch' = [watch EXCEPT ![s].at = "registered"]
                            /\ caller' = [caller EXCEPT ![c].at = "lock", ![c].new = s]
                            /\ UNCHANGED <<games, leaked, syncs>> /\ caller[c].at = "register"
    BY <1>6 DEF Register
  <2>2. s \in Slots /\ watch[s].at = "free" /\ caller[Quitter].old # s
    BY <1>1, <2>1 DEF Unused, Held
  <2>3. /\ watch'[s].at = "registered" /\ \A t \in Slots \ {s} : watch'[t] = watch[t]
        /\ caller'[c].new = s /\ caller'[c].old = caller[c].old
    BY <1>1, <2>1, <2>2 DEF Watch, Caller
  <2>4. caller[c].new = 0
    BY <1>1, <2>1 DEF WatchInv, CallsHold
  <2>5. Owned'
    <3> SUFFICES ASSUME NEW t \in Slots, watch'[t].at # "free"
                 PROVE  \/ t \in leaked \/ t = games
                        \/ \E d \in Callers : caller'[d].new = t \/ caller'[d].old = t
      BY <2>1 DEF Owned
    <3>1. CASE t = s
      BY <1>1, <2>3, <3>1
    <3>2. CASE t # s
      <4>1. \/ t \in leaked \/ t = games
            \/ \E d \in Callers : caller[d].new = t \/ caller[d].old = t
        BY <2>3, <3>2 DEF DrainInv, Owned
      <4> QED BY <4>1, <1>1, <1>5, <2>3, <2>4
    <3> QED BY <3>1, <3>2
  <2>6. ClosedLeaks'
    BY <1>2, <1>3, <2>1 DEF DrainInv, ClosedLeaks
  <2>7. ASSUME ~rushed' PROVE WaitsHold'
    BY <2>7, <1>1, <1>2, <1>5, <2>1, <2>2, <2>3, WaitsHoldCalls
  <2> QED BY <2>5, <2>6, <2>7 DEF DrainInv
<1>7. ASSUME Put(c), Ended(c), caller[c].at \in {"lock", "await"}
      PROVE  DrainInv'
  <2> DEFINE s == caller[c].new
  <2>1. s \in Slots /\ watch[s].at = "registered"
    BY <1>1, <1>7 DEF WatchInv, CallsHold
  <2>2. /\ watch'[s].at = "listen" /\ \A t \in Slots \ {s} : watch'[t] = watch[t]
        /\ games' = s /\ caller'[c] = NoCall /\ syncs' \in {syncs, Synced}
        /\ leaked' = leaked \cup ({games} \ {0}) \cup (IF closed THEN {s} ELSE {})
    BY <1>1, <1>7, <2>1 DEF Put, EndWatch, Watch
  <2>3. caller[c].old # 0 => watch[caller[c].old].at = "free"
    BY <1>7 DEF Ended
  <2>4. Owned'
    <3> SUFFICES ASSUME NEW t \in Slots, watch'[t].at # "free"
                 PROVE  \/ t \in leaked' \/ t = games'
                        \/ \E d \in Callers : caller'[d].new = t \/ caller'[d].old = t
      BY DEF Owned
    <3>1. CASE t = s
      BY <2>2, <3>1
    <3>2. CASE t # s
      <4>1. \/ t \in leaked \/ t = games
            \/ \E d \in Callers : caller[d].new = t \/ caller[d].old = t
        BY <2>2, <3>2 DEF DrainInv, Owned
      <4>2. caller[c].new # t /\ caller[c].old # t
        BY <1>1, <2>2, <2>3, <3>2
      <4>3. t = games => t \in leaked'
        BY <1>1, <2>2
      <4> QED BY <4>1, <4>2, <4>3, <1>5, <2>2
    <3> QED BY <3>1, <3>2
  <2>5. ClosedLeaks'
    BY <1>2, <1>3, <2>2 DEF DrainInv, ClosedLeaks
  <2>6. ASSUME ~rushed' PROVE WaitsHold'
    <3>1. /\ caller'[Quitter] = caller[Quitter]
          /\ caller[Handler].at = "idle" => caller'[Handler].at = "idle"
          /\ caller[Tracker].at = "idle" => caller'[Tracker].at = "idle"
      BY <1>1, <1>4, <1>5
    <3>2. leaked' \subseteq Slots
      BY <1>1, <2>1, <2>2
    <3>3. \A t \in leaked' : t \in leaked \/ ~closed \/ watch'[t].at # "insert"
      BY <1>1, <2>2 DEF DrainInv, ClosedLeaks
    <3>4. \A t \in Slots : \/ watch'[t].at = watch[t].at
                           \/ watch'[t].at # "insert" /\ (watch[t].at = "free" => caller[Quitter].old # t)
      BY <2>1, <2>2
    <3> QED BY <2>6, <1>2, <2>2, <3>1, <3>2, <3>3, <3>4, WaitsHoldCalls
  <2> QED BY <2>4, <2>5, <2>6 DEF DrainInv
<1>8. ASSUME caller[c].at = "lock", watch' = [watch EXCEPT ![caller[c].new] = Free],
             UNCHANGED <<games, leaked>>, EndWatch(c)
      PROVE  DrainInv'
  <2> DEFINE s == caller[c].new
  <2>1. s \in Slots /\ watch[s].at = "registered" /\ caller[c].old = 0
    BY <1>1, <1>8 DEF WatchInv, CallsHold
  <2>2. /\ watch'[s].at = "free" /\ \A t \in Slots \ {s} : watch'[t] = watch[t]
        /\ caller'[c] = NoCall /\ syncs' \in {syncs, Synced}
    BY <1>1, <1>8, <2>1 DEF EndWatch, Free
  <2>3. Owned'
    <3> SUFFICES ASSUME NEW t \in Slots, watch'[t].at # "free"
                 PROVE  \/ t \in leaked \/ t = games
                        \/ \E d \in Callers : caller'[d].new = t \/ caller'[d].old = t
      BY <1>8 DEF Owned
    <3>1. t # s
      BY <2>2
    <3>2. \/ t \in leaked \/ t = games
          \/ \E d \in Callers : caller[d].new = t \/ caller[d].old = t
      BY <2>2, <3>1 DEF DrainInv, Owned
    <3>3. caller[c].new # t /\ caller[c].old # t
      BY <1>1, <2>1, <3>1
    <3> QED BY <3>2, <3>3, <1>5
  <2>4. ClosedLeaks'
    BY <1>2, <1>3, <1>8 DEF DrainInv, ClosedLeaks
  <2>5. ASSUME ~rushed' PROVE WaitsHold'
    <3>1. /\ caller'[Quitter] = caller[Quitter] /\ leaked' \subseteq Slots
          /\ caller[Handler].at = "idle" => caller'[Handler].at = "idle"
          /\ caller[Tracker].at = "idle" => caller'[Tracker].at = "idle"
      BY <1>1, <1>5, <1>8
    <3>2. \A t \in leaked' : t \in leaked \/ ~closed \/ watch'[t].at # "insert"
      BY <1>8
    <3>3. \A t \in Slots : \/ watch'[t].at = watch[t].at
                           \/ watch'[t].at # "insert" /\ (watch[t].at = "free" => caller[Quitter].old # t)
      BY <2>1, <2>2
    <3> QED BY <2>5, <1>2, <2>2, <3>1, <3>2, <3>3, WaitsHoldCalls
  <2> QED BY <2>3, <2>4, <2>5 DEF DrainInv
<1>9. ASSUME caller[c].at = "lock", games # 0, watch' = Cancelled, games' = 0, UNCHANGED <<leaked, syncs>>,
             caller' = [caller EXCEPT ![c].at = "await", ![c].old = games]
      PROVE  DrainInv'
  <2>1. \A t \in Slots : watch'[t].at = watch[t].at
    BY <1>9, CancelledType
  <2>2. caller'[c].new = caller[c].new /\ caller'[c].old = games /\ caller[c].old = 0
    BY <1>1, <1>9 DEF Caller, WatchInv, CallsHold
  <2>3. Owned'
    <3> SUFFICES ASSUME NEW t \in Slots, watch[t].at # "free"
                 PROVE  \/ t \in leaked
                        \/ \E d \in Callers : caller'[d].new = t \/ caller'[d].old = t
      BY <1>9, <2>1 DEF Owned
    <3>1. \/ t \in leaked \/ t = games
          \/ \E d \in Callers : caller[d].new = t \/ caller[d].old = t
      BY DEF DrainInv, Owned
    <3>2. caller[c].old # t
      BY <1>1, <2>2
    <3> QED BY <3>1, <3>2, <1>1, <1>5, <2>2
  <2>4. ClosedLeaks'
    BY <1>2, <1>3, <1>9 DEF DrainInv, ClosedLeaks
  <2>5. ASSUME ~rushed' PROVE WaitsHold'
    <3>1. /\ caller'[Quitter] = caller[Quitter] /\ leaked' \subseteq Slots
          /\ caller[Handler].at = "idle" => caller'[Handler].at = "idle"
          /\ caller[Tracker].at = "idle" => caller'[Tracker].at = "idle"
      BY <1>1, <1>5, <1>9
    <3>2. \A t \in leaked' : t \in leaked \/ ~closed \/ watch'[t].at # "insert"
      BY <1>9
    <3> QED BY <2>5, <1>2, <1>9, <2>1, <3>1, <3>2, WaitsHoldCalls
  <2> QED BY <2>3, <2>4, <2>5 DEF DrainInv
<1>10. CASE Lock(c)
  <2>1. caller[c].old = 0 /\ Ended(c)
    BY <1>1, <1>10 DEF Lock, WatchInv, CallsHold, Ended
  <2> QED BY <1>10, <1>7, <1>8, <1>9, <2>1 DEF Lock
<1>11. CASE Replace(c)
  BY <1>11, <1>7 DEF Replace
<1> QED BY <1>6, <1>10, <1>11

\* The handler's part: a request, and the end of its wait.
LEMMA DrainInvHandler ==
    ASSUME WatchInv, DrainInv, Request \/ Unwatched
    PROVE  DrainInv'
<1>1. /\ watch \in [Slots -> Watch] /\ caller \in [Callers -> Caller] /\ games \in Slots \cup {0}
      /\ 0 \notin Slots /\ leaked \subseteq Slots
      /\ Handler \in Callers /\ Tracker \in Callers /\ Quitter \in Callers
      /\ Handler # Quitter /\ Handler # Tracker
      /\ \A d \in Callers : caller[d].new \in Slots \cup {0} /\ caller[d].old \in Slots \cup {0}
  BY WatchAssumption, CallersDiffer DEF WatchInv, TypeOK, Callers, Caller
<1>2. UNCHANGED <<closed, stage, rushed, uploading, syncs, leaked>>
  BY DEF Request, Unwatched, Unwatch, history, watching
<1>3. \A x : Past(x)' <=> Past(x)
  BY <1>2 DEF Past
<1>4. /\ \A d \in Callers \ {Handler} : caller'[d] = caller[d]
      /\ caller[Handler].at \in {"idle", "gone"} /\ caller[Handler].new = 0 /\ caller'[Handler].new = 0
      /\ games' \in {games, 0} /\ watch' \in {watch, Cancelled}
      /\ games' = games \/ caller'[Handler].old = games
      /\ caller[Handler].at = "idle" => caller[Handler].old = 0
  <2>1. CASE Unwatched
    BY <1>1, <2>1 DEF Unwatched, WatchInv, CallsHold, NoCall, watching
  <2>2. CASE Request
    BY <1>1, <2>2 DEF Request, Unwatch, WatchInv, CallsHold, Caller, watching
  <2> QED BY <2>1, <2>2
<1>5. \A t \in Slots : watch'[t].at = watch[t].at
  BY <1>4, CancelledType
<1>6. caller[Handler].old = 0 \/ watch[caller[Handler].old].at = "free"
  BY <1>4 DEF Request, Unwatched, Ended
<1>7. Owned'
  <2> SUFFICES ASSUME NEW t \in Slots, watch[t].at # "free"
               PROVE  \/ t \in leaked \/ t = games'
                      \/ \E d \in Callers : caller'[d].new = t \/ caller'[d].old = t
    BY <1>2, <1>5 DEF Owned
  <2>1. \/ t \in leaked \/ t = games
        \/ \E d \in Callers : caller[d].new = t \/ caller[d].old = t
    BY DEF DrainInv, Owned
  <2>2. caller[Handler].old # t /\ caller[Handler].new # t
    BY <1>1, <1>4, <1>6
  <2> QED BY <2>1, <2>2, <1>1, <1>4
<1>8. ClosedLeaks'
  BY <1>2, <1>3, <1>4 DEF DrainInv, ClosedLeaks
<1>9. ASSUME ~rushed' PROVE WaitsHold'
  <2>1. ~rushed /\ WaitsHold /\ TypeOK
    BY <1>2, <1>9 DEF DrainInv, WatchInv
  <2>2. ~Past("server")
    <3>1. stage = "up" \/ caller[Handler].at = "gone"
      BY DEF Request, Unwatched
    <3> QED BY <2>1, <3>1, PastInOrder DEF WaitsHold
  <2> QED BY <1>3, <2>1, <2>2, PastInOrder DEF WaitsHold
<1> QED BY <1>7, <1>8, <1>9 DEF DrainInv

\* Each wait of Stop leaves what it found to the next.
LEMMA DrainInvStop ==
    ASSUME WatchInv, DrainInv, Quit \/ Advance
    PROVE  DrainInv'
<1>1. /\ watch \in [Slots -> Watch] /\ caller \in [Callers -> Caller] /\ games \in Slots \cup {0}
      /\ Handler \in Callers /\ Tracker \in Callers /\ Quitter \in Callers /\ TypeOK
      /\ Handler # Quitter /\ Tracker # Quitter /\ leaked \subseteq Slots /\ 0 \notin Slots
      /\ \A d \in Callers : caller[d].new \in Slots \cup {0} /\ caller[d].old \in Slots \cup {0}
  BY WatchAssumption, CallersDiffer DEF WatchInv, TypeOK, Callers, Caller
<1>2. CASE Quit
  <2>1. /\ UNCHANGED <<watch, games, closed, leaked, caller, syncs, rushed, uploading>>
        /\ stage = "up" /\ stage' = "server"
    BY <1>2 DEF Quit, watching, history
  <2>2. /\ ~Past("syncs") /\ ~Past("server")' /\ ~Past("syncs")' /\ ~Past("watches")'
        /\ ~Past("snapshots")' /\ ~Past("initial")' /\ ~Past("uploads")'
    BY <2>1, StagesInOrder DEF Past
  <2> QED BY <2>1, <2>2 DEF DrainInv, Owned, ClosedLeaks, WaitsHold
<1>3. CASE Advance
  <2>1. UNCHANGED <<syncs, uploading>> /\ (~rushed' => ~rushed /\ Drained)
    BY <1>3 DEF Advance, history
  <2>2. CASE stage' = "watches"
    <3>1. stage = "syncs" /\ StopWatcher
      BY <1>1, <1>3, <2>2, NextStage DEF Advance
    <3>2. /\ \A t \in Slots : watch'[t].at = watch[t].at
          /\ games' = 0 /\ closed' = TRUE /\ leaked' = leaked
          /\ caller'[Quitter].old = games /\ caller'[Quitter].new = caller[Quitter].new
          /\ \A d \in Callers \ {Quitter} : caller'[d] = caller[d]
      BY <1>1, <3>1, CancelledType DEF StopWatcher, Caller
    <3>3. caller[Quitter].old = 0
      BY <1>1, <3>1, PastInOrder DEF WatchInv, CallsHold, DrainInv, ClosedLeaks
    <3>4. Owned'
      <4> SUFFICES ASSUME NEW t \in Slots, watch[t].at # "free"
                   PROVE  \/ t \in leaked
                          \/ \E d \in Callers : caller'[d].new = t \/ caller'[d].old = t
        BY <3>2 DEF Owned
      <4>1. \/ t \in leaked \/ t = games
            \/ \E d \in Callers : caller[d].new = t \/ caller[d].old = t
        BY DEF DrainInv, Owned
      <4>2. caller[Quitter].old # t
        BY <1>1, <3>3
      <4> QED BY <4>1, <4>2, <1>1, <3>2
    <3>5. /\ Past("syncs")' /\ ~Past("watches")' /\ ~Past("snapshots")' /\ ~Past("initial")' /\ ~Past("uploads")'
          /\ Past("server")
      BY <2>2, <3>1, StagesInOrder DEF Past
    <3>6. ~rushed' => syncs["tied"] = "none" /\ WaitsHold
      BY <1>1, <1>3, <2>1, <3>1, StageDrains DEF DrainInv
    <3> QED BY <3>2, <3>4, <3>5, <3>6, <2>1, <1>1 DEF DrainInv, ClosedLeaks, WaitsHold
  <2>3. CASE stage' # "watches"
    <3>1. UNCHANGED <<watch, games, closed, leaked, caller>>
      BY <1>3, <2>3 DEF Advance, watching
    <3>2. /\ stage \in {"server", "syncs", "watches", "snapshots", "initial", "uploads"}
          /\ \/ stage = "server" /\ stage' = "syncs"
             \/ stage = "watches" /\ stage' = "snapshots"
             \/ stage = "snapshots" /\ stage' = "initial"
             \/ stage = "initial" /\ stage' = "uploads"
             \/ stage = "uploads" /\ stage' = "closed"
      BY <1>1, <1>3, <2>3, NextStage
    <3>3. Owned' /\ ClosedLeaks'
      <4>1. Past("syncs")' <=> Past("syncs")
        BY <3>2, StagesInOrder DEF Past
      <4> QED BY <3>1, <4>1 DEF DrainInv, Owned, ClosedLeaks
    <3>4. ASSUME ~rushed' PROVE WaitsHold'
      <4>1. WaitsHold /\ Drained
        BY <2>1, <3>4 DEF DrainInv
      <4>2. /\ Past("server")' => Past("server") \/ caller[Handler].at = "idle"
            /\ Past("syncs")' => Past("syncs")
            /\ Past("watches")' => Past("watches") \/ Ended(Quitter)
            /\ Past("snapshots")' => Past("snapshots") \/ ~InFlight
            /\ Past("initial")' => Past("initial") \/ caller[Tracker].at = "idle"
            /\ Past("uploads")' => Past("uploads") \/ ~uploading
        <5>1. /\ stage = "server" => caller[Handler].at = "idle"
              /\ stage = "watches" => Ended(Quitter)
              /\ stage = "snapshots" => ~InFlight
              /\ stage = "initial" => caller[Tracker].at = "idle"
              /\ stage = "uploads" => ~uploading
          BY <1>1, <1>3, <4>1, StageDrains
        <5>2. /\ Past("server")' => Past("server") \/ stage = "server"
              /\ Past("syncs")' => Past("syncs")
              /\ Past("watches")' => Past("watches") \/ stage = "watches"
              /\ Past("snapshots")' => Past("snapshots") \/ stage = "snapshots"
              /\ Past("initial")' => Past("initial") \/ stage = "initial"
              /\ Past("uploads")' => Past("uploads") \/ stage = "uploads"
          BY <3>2, StagesInOrder DEF Past
        <5> QED BY <5>1, <5>2
      <4>3. ~InFlight => syncs["loose"] # "zipping" /\ \A t \in leaked : watch[t].at # "insert"
        BY <1>1 DEF InFlight, TypeOK
      <4> QED BY <2>1, <3>1, <4>1, <4>2, <4>3 DEF WaitsHold, Ended
    <3> QED BY <3>3, <3>4 DEF DrainInv
  <2> QED BY <2>2, <2>3
<1> QED BY <1>2, <1>3

\* When the database closes, nothing that Stop waits for is under way, unless a
\* wait ran out or something outside the waits began a snapshot late: each wait
\* finds what the ones before it left, whatever still ran meanwhile
\* (daemon.go's Stop).
THEOREM StopDrains == Spec => []DrainedBeforeClose
<1>1. WatchInv /\ DrainInv => DrainedBeforeClose
  <2> SUFFICES ASSUME WatchInv, DrainInv, stage = "closed", ~rushed
               PROVE  /\ ~InFlight /\ ~uploading
                      /\ syncs["tied"] = "none" /\ caller[Tracker].at = "idle"
                      /\ \A s \in Slots \ leaked : watch[s].at = "free"
    BY DEF DrainedBeforeClose
  <2>1. /\ Past("server") /\ Past("syncs") /\ Past("watches") /\ Past("snapshots")
        /\ Past("initial") /\ Past("uploads")
    BY PastInOrder DEF WatchInv
  <2>2. /\ caller[Handler].at = "idle" /\ caller[Tracker].at = "idle" /\ syncs["tied"] = "none"
        /\ syncs["loose"] # "zipping" /\ ~uploading /\ Ended(Quitter)
        /\ \A s \in leaked : watch[s].at # "insert"
    BY <2>1 DEF DrainInv, WaitsHold
  <2>3. ASSUME NEW s \in Slots \ leaked PROVE watch[s].at = "free"
    <3>1. s # games
      BY <2>1, WatchAssumption DEF DrainInv, ClosedLeaks
    <3>2. \A c \in Callers : caller[c].new = 0 /\ (c # Quitter => caller[c].old = 0)
      BY <2>2 DEF WatchInv, CallsHold, Callers
    <3>3. s = caller[Quitter].old => watch[s].at = "free"
      BY <2>2, WatchAssumption DEF Ended
    <3> QED BY <3>1, <3>2, <3>3, WatchAssumption DEF DrainInv, Owned
  <2>4. ~InFlight
    <3>1. DOMAIN syncs = {"tied", "loose"}
      BY DEF WatchInv, TypeOK
    <3> QED BY <2>2, <2>3, <3>1 DEF InFlight
  <2> QED BY <2>2, <2>3, <2>4
<1>2. Init => DrainInv
  BY DrainInvInit
<1>3. WatchInv /\ DrainInv /\ [Next]_vars => DrainInv'
  <2> SUFFICES ASSUME WatchInv, DrainInv, [Next]_vars PROVE DrainInv'
    OBVIOUS
  <2>1. CASE UNCHANGED vars
    BY <2>1 DEF vars, watching, running, history, DrainInv, Owned, ClosedLeaks, WaitsHold, Past, Ended
  <2> QED BY <2>1, DrainInvQuiet, DrainInvRun, DrainInvLock, DrainInvHandler, DrainInvStop DEF Next
<1> QED BY <1>1, <1>2, <1>3, WatchTypeCorrect, PTL DEF Spec
=============================================================================
