----------------------------- MODULE CloudMirror -----------------------------
(***************************************************************************)
(* The cloud mirror of one branch of one game (cloud/cloud.go, daemon.go's *)
(* upload hook, api/routes_cloud.go): every snapshot is uploaded by a      *)
(* goroutine of its own, which then trims the remote copies; the user      *)
(* pushes what is missing, deletes copies, restores one.  Every call reads *)
(* the configuration row and fetches a token first (CloudAuth.tla).        *)
(*                                                                         *)
(* A destination keeps its files in the order of their creation times.     *)
(* The folder shows a file while it is being written and keeps one file    *)
(* per name; Google Drive shows a file when its last chunk has arrived and *)
(* keeps every file it is sent.  A file, like a local archive, is whole or *)
(* part of the snapshot whose name it bears.                               *)
(***************************************************************************)
EXTENDS CloudAuth

CONSTANTS
    Ids,            \* snapshots, 1..n in the order they are taken
    Push,           \* the goroutine of handleCloudSyncLocal
    Clean,          \* the one of handleCloudDelete and handleCloudDeleteGame
    Fetch,          \* the one of handleCloudRestore
    Overwrites,     \* destinations with one file per name
    ShowsParts,     \* destinations that show a file while it is written
    Keep,           \* MaxSnapshots of the game
    MaxParts        \* bound: copies of an archive in part that pushes send to such a place

ASSUME MirrorAssumption ==
    /\ IsFiniteSet(Ids) /\ Ids = 1..Cardinality(Ids)
    /\ Callers = Ids \cup {Push, Clean, Fetch}
    /\ Cardinality({Push, Clean, Fetch} \ Ids) = 3
    /\ Overwrites \subseteq Providers /\ ShowsParts \subseteq Overwrites
    /\ ShowsParts \cap SignIn = {}
    /\ Keep \in Nat \ {0} /\ MaxParts \in Nat

VARIABLES
    kind,           \* per snapshot: "none" before it is taken, else "auto" or "manual"
    rows,           \* snapshots the database lists
    archive,        \* the local zip of each
    remote,         \* per destination: its files, the oldest first
    sent,           \* files sent to destinations that keep them all: the ids so far
    work,           \* per goroutine: what it is at
    disturbed       \* history: the user deleted copies, or the destination changed

mirror == <<kind, rows, archive, remote, sent, work, disturbed>>
copies == <<kind, rows, archive, remote, sent>>
vars == <<account, ops, faults, mirror>>

-----------------------------------------------------------------------------
(* State                                                                   *)

Sizes == {"part", "whole"}

\* Google Drive tells its files apart by an id.
File == [name : Ids, size : Sizes, id : Nat]

\* todo: the files a goroutine still has to upload, delete or fetch.  A call holds
\* the destination and the token it was made with.
Steps == {"idle", "list", "upload", "copying", "prune", "delete", "download", "receiving"}

Idle == [step |-> "idle", todo |-> <<>>, call |-> "none", to |-> "", token |-> 0]
At(step, todo) == [Idle EXCEPT !.step = step, !.todo = todo]

TypeOK ==
    /\ AccountTypeOK
    /\ kind \in [Ids -> {"none", "auto", "manual"}]
    /\ rows \subseteq Ids
    /\ archive \in [Ids -> Sizes \cup {"none"}]
    /\ DOMAIN remote = Providers /\ \A p \in Providers : remote[p] \in Seq(File)
    /\ sent \in Nat
    /\ \A c \in Callers : /\ work[c].step \in Steps /\ work[c].todo \in Seq(File)
                          /\ work[c].call \in {"none", "open"}
                          /\ work[c].to \in Providers \cup {""} /\ work[c].token \in 0..MaxFlows
    /\ disturbed \in BOOLEAN

Init ==
    /\ AccountInit
    /\ kind = [i \in Ids |-> "none"]
    /\ rows = {}
    /\ archive = [i \in Ids |-> "none"]
    /\ remote = [p \in Providers |-> <<>>] /\ sent = 0
    /\ work = [c \in Callers |-> Idle]
    /\ disturbed = FALSE

Named(files, i) == \E k \in DOMAIN files : files[k].name = i
FileOf(i, size) == [name |-> i, size |-> size, id |-> 0]

\* The members of a finite set of numbers from the lowest up, and the files at some
\* positions, in their order.
Ordered(K) == [j \in 1..Cardinality(K) |-> CHOOSE k \in K : Cardinality({m \in K : m <= k}) = j]
Picked(files, K) == [j \in 1..Cardinality(K) |-> files[Ordered(K)[j]]]

Without(p, name) == Picked(remote[p], {k \in DOMAIN remote[p] : remote[p][k].name # name})

\* A destination with one file per name replaces it; either way it is now the newest.
Put(p, file) ==
    IF p \in Overwrites
    THEN /\ remote' = [remote EXCEPT ![p] = Append(Without(p, file.name), file)]
         /\ UNCHANGED sent
    ELSE /\ remote' = [remote EXCEPT ![p] = Append(@, [file EXCEPT !.id = sent + 1])]
         /\ sent' = sent + 1

\* Deleted by name, or by the id the listing gave.
Same(p, g, file) == IF p \in Overwrites THEN g.name = file.name ELSE g.id = file.id
Drop(p, file) ==
    [remote EXCEPT ![p] = Picked(@, {k \in DOMAIN remote[p] : ~Same(p, remote[p][k], file)})]

Destination == disturbed' = (disturbed \/ config'.provider # config.provider)

-----------------------------------------------------------------------------
(* A call: config(), then a token                                          *)

\* A goroutine in the middle of something makes a call.
Calling(c) == work[c].step \in {"list", "upload", "prune", "delete", "download"}

\* os.Open of the archive comes before the token.
Readable(c) == work[c].step = "upload" => archive[work[c].todo[1].name] # "none"

Callable(c) == Calling(c) /\ work[c].call = "none" /\ ~Refreshing(c)

Opened(c, token) ==
    work' = [work EXCEPT ![c].call = "open", ![c].to = config.provider, ![c].token = token]

Open(c) ==
    /\ Callable(c) /\ config.enabled /\ Readable(c)
    /\ \/ /\ config.provider \notin SignIn
          /\ Opened(c, 0)
          /\ UNCHANGED <<config, refresh>>
       \/ /\ config.provider \in SignIn /\ HasToken
          /\ Opened(c, config.session)
          /\ UNCHANGED <<config, refresh>>
       \/ /\ config.provider \in SignIn
          /\ BeginRefresh(c)
          /\ UNCHANGED work
    /\ Free
    /\ UNCHANGED <<signing, copies, disturbed>>

EndRefresh(c) ==
    /\ Refreshing(c)
    /\ Refreshed(c)
    /\ work' = [work EXCEPT ![c].call = "open", ![c].to = refresh[c].provider,
                            ![c].token = refresh[c].session]
    /\ Free
    /\ Destination
    /\ UNCHANGED <<signing, copies>>

\* The next file, if there is one, and a call of its own.
Onward(c) ==
    IF Len(work[c].todo) > 1
    THEN At(IF work[c].step = "copying" THEN "upload" ELSE work[c].step, Tail(work[c].todo))
    ELSE Idle

\* After a call that failed a push, a deletion and a prune go on; the rest is over.
AfterFailure(c) == IF c \in {Push, Clean} \/ work[c].step = "prune" THEN Onward(c) ELSE Idle

\* A push that finds backup turned off stops at once.
NotConfigured(c) ==
    /\ Callable(c)
    /\ \/ /\ ~config.enabled
          /\ work' = [work EXCEPT ![c] = IF c = Push THEN Idle ELSE AfterFailure(c)]
       \/ /\ config.enabled
          /\ ~Readable(c) \/ (config.provider \in SignIn /\ config.session = 0)
          /\ work' = [work EXCEPT ![c] = AfterFailure(c)]
    /\ Free
    /\ UNCHANGED <<account, copies, disturbed>>

NoToken(c) ==
    /\ \/ Expired(c) /\ Free
       \/ RefreshFails(c) /\ Fault
    /\ work' = [work EXCEPT ![c] = AfterFailure(c)]
    /\ Destination
    /\ UNCHANGED <<signing, copies>>

\* The provider answers a call whose grant it still honours.
Answers(c) ==
    /\ work[c].call = "open"
    /\ work[c].to \in SignIn => work[c].token \in live

\* A call that is refused or breaks off; a download removes what it has written.
CallFails(c) ==
    /\ work[c].call = "open"
    /\ \/ ~Answers(c) /\ Free
       \/ Answers(c) /\ Fault
    /\ work' = [work EXCEPT ![c] = AfterFailure(c)]
    /\ archive' = IF work[c].step = "receiving"
                  THEN [archive EXCEPT ![work[c].todo[1].name] = "none"] ELSE archive
    /\ UNCHANGED <<account, kind, rows, remote, sent, disturbed>>

-----------------------------------------------------------------------------
(* Uploading                                                               *)

Autos == {i \in rows : kind[i] = "auto"}
Newest(S, n) == {i \in S : Cardinality({j \in S : j > i}) < n}

\* Manager.Create: local retention spends the automatic snapshots only, and the upload
\* hook starts a goroutine.
TakeSnapshot(i, k) ==
    /\ Op
    /\ kind[i] = "none" /\ \A j \in 1..(i - 1) : kind[j] # "none"
    /\ kind' = [kind EXCEPT ![i] = k]
    /\ LET all  == IF k = "auto" THEN Autos \cup {i} ELSE Autos
           gone == all \ Newest(all, Keep)
       IN  /\ rows' = (rows \cup {i}) \ gone
           /\ archive' = [j \in Ids |-> IF j = i THEN "whole"
                                        ELSE IF j \in gone THEN "none" ELSE archive[j]]
    /\ work' = [work EXCEPT ![i] = At("upload", <<FileOf(i, "whole")>>)]
    /\ UNCHANGED <<account, remote, sent, disturbed>>

\* The file is created and truncated, a session is started.  An archive that retention
\* has removed since it was opened is still read.
BeginUpload(c) ==
    /\ work[c].step = "upload" /\ work[c].call = "open"
    /\ LET file == IF archive[work[c].todo[1].name] = "none" THEN work[c].todo[1]
                   ELSE FileOf(work[c].todo[1].name, archive[work[c].todo[1].name])
       IN  /\ work' = [work EXCEPT ![c].step = "copying", ![c].todo[1] = file]
           /\ IF work[c].to \in ShowsParts THEN Put(work[c].to, [file EXCEPT !.size = "part"])
              ELSE UNCHANGED <<remote, sent>>
    /\ Free
    /\ UNCHANGED <<account, kind, rows, archive, disturbed>>

\* The last byte is there, unless someone deleted the file meanwhile.  The hook goes on to
\* trim the copies, a push goes on.
EndUpload(c) ==
    /\ work[c].step = "copying"
    /\ Answers(c)
    /\ IF work[c].to \in ShowsParts => Named(remote[work[c].to], work[c].todo[1].name)
       THEN Put(work[c].to, work[c].todo[1]) ELSE UNCHANGED <<remote, sent>>
    /\ work' = [work EXCEPT ![c] = IF c = Push THEN Onward(c) ELSE At("list", <<>>)]
    /\ Free
    /\ UNCHANGED <<account, kind, rows, archive, disturbed>>

\* runCloudUpload: all but the Keep newest copies, newest first, those of manual
\* snapshots apart; a copy whose row is gone cannot be told and counts.  (Mutants: one
\* too few is kept; every copy counts.)
MutantSpends(i) == TRUE
Spends(i) == ~(i \in rows /\ kind[i] = "manual")

MutantBeyond(files) == SubSeq(files, 1, Len(files) - Keep + 1)
Beyond(files) == SubSeq(files, 1, Len(files) - Keep)

Candidates(copied) == {k \in DOMAIN copied : Spends(copied[k].name)}

PruneList(c) ==
    /\ c \in Ids /\ work[c].step = "list"
    /\ Answers(c)
    /\ LET copied == remote[work[c].to]
           doomed == Beyond(Picked(copied, Candidates(copied)))
       IN  work' = [work EXCEPT ![c] = IF doomed = <<>> THEN Idle ELSE At("prune", Reverse(doomed))]
    /\ Free
    /\ UNCHANGED <<account, copies, disturbed>>

\* Delete reads the row again: it deletes where the mirror is now.
PruneDelete(c) ==
    /\ work[c].step = "prune"
    /\ Answers(c)
    /\ remote' = Drop(work[c].to, work[c].todo[1])
    /\ work' = [work EXCEPT ![c] = Onward(c)]
    /\ Free
    /\ UNCHANGED <<account, kind, rows, archive, sent, disturbed>>

-----------------------------------------------------------------------------
(* What the user asks for                                                  *)

Begin(c, w) ==
    /\ work[c] = Idle
    /\ work' = [work EXCEPT ![c] = w]
    /\ UNCHANGED <<account, copies>>

\* handleCloudSyncLocal, as often as the user likes ...
StartPush ==
    /\ Begin(Push, At("list", <<>>))
    /\ Free
    /\ UNCHANGED disturbed

\* ... uploads, the newest first, what has no copy of the right size.  (Mutant: no copy
\* of that name.)
MutantMirrored(p, i) == Named(remote[p], i)
Mirrored(p, i) == \E k \in DOMAIN remote[p] :
    remote[p][k].name = i /\ remote[p][k].size = "whole"

PartsSent(p, i) ==
    Cardinality({k \in DOMAIN remote[p] : remote[p][k].name = i /\ remote[p][k].size = "part"})

Missing(p) ==
    {i \in rows : ~Mirrored(p, i) /\ (archive[i] = "part" => PartsSent(p, i) < MaxParts)}

PushList ==
    /\ work[Push].step = "list"
    /\ Answers(Push)
    /\ LET newestFirst == Reverse(Ordered(Missing(work[Push].to)))
       IN  work' = [work EXCEPT ![Push] =
                       IF newestFirst = <<>> THEN Idle
                       ELSE At("upload", [k \in 1..Len(newestFirst) |->
                                             FileOf(newestFirst[k], "whole")])]
    /\ Free
    /\ UNCHANGED <<account, copies, disturbed>>

\* handleCloudDelete: one copy the listing showed; handleCloudDeleteGame: all of them.
StartDelete(p) ==
    /\ Op
    /\ config.provider = p /\ remote[p] # <<>>
    /\ \/ \E k \in DOMAIN remote[p] : Begin(Clean, At("delete", <<remote[p][k]>>))
       \/ Begin(Clean, At("list", <<>>))
    /\ disturbed' = TRUE

CleanList ==
    /\ work[Clean].step = "list"
    /\ Answers(Clean)
    /\ work' = [work EXCEPT ![Clean] = IF remote[work[Clean].to] = <<>> THEN Idle
                                       ELSE At("delete", remote[work[Clean].to])]
    /\ Free
    /\ UNCHANGED <<account, copies, disturbed>>

Delete ==
    /\ work[Clean].step = "delete"
    /\ Answers(Clean)
    /\ remote' = Drop(work[Clean].to, work[Clean].todo[1])
    /\ work' = [work EXCEPT ![Clean] = Onward(Clean)]
    /\ Free
    /\ UNCHANGED <<account, kind, rows, archive, sent, disturbed>>

\* handleCloudRestore: the archive of that snapshot is truncated and written anew, ...
StartRestore(p) ==
    /\ Op
    /\ config.provider = p
    /\ \E k \in DOMAIN remote[p] : Begin(Fetch, At("download", <<remote[p][k]>>))
    /\ UNCHANGED disturbed

Download ==
    /\ work[Fetch].step = "download"
    /\ Answers(Fetch)
    /\ LET i == work[Fetch].todo[1].name IN
          IF Named(remote[work[Fetch].to], i)
          THEN \E k \in DOMAIN remote[work[Fetch].to] :
                  /\ remote[work[Fetch].to][k].name = i
                  /\ archive' = [archive EXCEPT ![i] = "part"]
                  /\ work' = [work EXCEPT ![Fetch].step = "receiving",
                                          ![Fetch].todo[1] = remote[work[Fetch].to][k]]
          ELSE work' = [work EXCEPT ![Fetch] = Idle] /\ UNCHANGED archive
    /\ Free
    /\ UNCHANGED <<account, kind, rows, remote, sent, disturbed>>

\* ... and the snapshot registered, as an automatic one, unless its row is there
\* (EnsureImportedSnapshot).  What Manager.Restore does then is in SaveHistory.tla.
Received ==
    /\ work[Fetch].step = "receiving"
    /\ Answers(Fetch)
    /\ LET file == work[Fetch].todo[1] IN
          /\ archive' = [archive EXCEPT ![file.name] = file.size]
          /\ rows' = rows \cup {file.name}
          /\ kind' = IF file.name \in rows THEN kind ELSE [kind EXCEPT ![file.name] = "auto"]
    /\ work' = [work EXCEPT ![Fetch] = Idle]
    /\ Free
    /\ UNCHANGED <<account, remote, sent, disturbed>>

-----------------------------------------------------------------------------

\* The process ends, after at most thirty seconds of Stop's waiting: what was being
\* copied stays as it is, and what was in memory is gone.
Exit ==
    /\ Fault
    /\ work' = [c \in Callers |-> Idle]
    /\ refresh' = [c \in Callers |-> NoRow]
    /\ pending' = 0 /\ listening' = FALSE /\ posting' = 0
    /\ exchange' = [n \in Flows |-> 0]
    /\ granted' = {}
    /\ UNCHANGED <<config, flow, live, kind, rows, archive, remote, sent, disturbed>>

Proceed(c) ==
    \/ Open(c) \/ EndRefresh(c) \/ NotConfigured(c) \/ NoToken(c) \/ CallFails(c)
    \/ BeginUpload(c) \/ EndUpload(c) \/ PruneList(c) \/ PruneDelete(c)
    \/ c = Push /\ PushList
    \/ c = Clean /\ (CleanList \/ Delete)
    \/ c = Fetch /\ (Download \/ Received)

AccountStep == (SigningIn \/ ChangingRow) /\ Destination /\ UNCHANGED <<copies, work>>

Next ==
    \/ AccountStep
    \/ \E i \in Ids, k \in {"auto", "manual"} : TakeSnapshot(i, k)
    \/ StartPush
    \/ \E p \in Providers : StartDelete(p) \/ StartRestore(p)
    \/ \E c \in Callers : Proceed(c)
    \/ Exit

Spec == Init /\ [][Next]_vars

\* Goroutines go on (every transfer has a deadline), the user pushes again and again,
\* and access tokens expire.
FairSpec ==
    /\ Spec
    /\ \A c \in Callers : WF_vars(Proceed(c))
    /\ WF_vars(StartPush)
    /\ WF_vars(Expire /\ UNCHANGED mirror)

-----------------------------------------------------------------------------
(* Properties                                                              *)

Reachable ==
    /\ config.enabled
    /\ config.provider \in SignIn => config.session \in live

WholeCopy(p, i) == [name |-> i, size |-> "whole"] \in
                       {[name |-> remote[p][k].name, size |-> remote[p][k].size] :
                           k \in DOMAIN remote[p]}

\* Pushing again repairs whatever an interrupted upload left: with a reachable
\* destination every snapshot whose archive is whole ends up with a whole copy, whatever
\* was cut off, refused or deleted before ("an archive that arrived truncated stays
\* truncated forever", handleCloudSyncLocal).
PushRepairs ==
    <>[]Reachable =>
        <>[](\A i \in rows : archive[i] = "whole" => WholeCopy(config.provider, i))

\* A session the provider has ended is not shown as connected for ever: while the mirror
\* is in use, the row forgets it ("so the UI stops claiming connected",
\* getOrRefreshAccessToken).
DeadSessionForgotten ==
    <>[](config.enabled /\ config.provider \in SignIn)
        => \A n \in Flows : [](n \notin live /\ config.session = n => <>(config.session # n))

\* No goroutine's trimming removes the copy of a manual snapshot that the database still
\* lists, whatever was listed, switched or restored in between (runCloudUpload: "not the
\* automatic budget's to spend").
ManualCopiesStay ==
    [][\A c \in Ids : PruneDelete(c) =>
          \A p \in Providers, i \in rows :
             kind[i] = "manual" /\ Named(remote[p], i) => Named(remote'[p], i)]_vars

\* However many uploads trim at once, each from a listing of its own, where copies keep
\* their order what is deleted is older than Keep copies that stay, as long as the user
\* neither deletes any nor switches.  (Where a rewritten file becomes the newest, two
\* trims can delete every copy.)
TrimmingSparesKeep ==
    [][\A c \in Ids : PruneDelete(c) /\ ~disturbed /\ work[c].to \notin Overwrites =>
          LET left == remote'[work[c].to]
          IN  Cardinality({k \in Candidates(left) : left[k].id > work[c].todo[1].id})
                  >= Keep]_vars

\* "keep the newest maxSnapshots per branch, delete the rest" (runCloudUpload): what
\* trimming deletes is older than Keep copies that stay.
MirrorKeepsNewest ==
    [][\A c \in Ids : PruneDelete(c) =>
          Cardinality({i \in Ids : i > work[c].todo[1].name /\ Named(remote'[work[c].to], i)})
              >= Keep]_vars
=============================================================================
