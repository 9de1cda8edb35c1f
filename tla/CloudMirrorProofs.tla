-------------------------- MODULE CloudMirrorProofs --------------------------
(***************************************************************************)
(* The theorems about CloudMirror: what a goroutine, the row and a         *)
(* destination are made of, and what trimming may delete, for any number   *)
(* of snapshots, destinations, sign-ins and faults, and any retention.     *)
(***************************************************************************)
EXTENDS CloudMirror, FiniteSetTheorems, TLAPS

-----------------------------------------------------------------------------
(* Sequences that keep the order of what they were picked from             *)

UpTo(K, k) == {m \in K : m <= k}
Rank(K) == [k \in K |-> Cardinality(UpTo(K, k))]

LEMMA RankIsBijection ==
    ASSUME NEW K \in SUBSET Nat, IsFiniteSet(K)
    PROVE  /\ Cardinality(K) \in Nat
           /\ Rank(K) \in [K -> 1..Cardinality(K)]
           /\ \A k, l \in K : k < l => Rank(K)[k] < Rank(K)[l]
           /\ \A j \in 1..Cardinality(K) : \E k \in K : Rank(K)[k] = j
<1> DEFINE n == Cardinality(K)
<1>1. n \in Nat
  BY FS_CardinalityType
<1>2. ASSUME NEW k \in K
      PROVE  IsFiniteSet(UpTo(K, k)) /\ Cardinality(UpTo(K, k)) \in 1..n
  <2>1. IsFiniteSet(UpTo(K, k)) /\ Cardinality(UpTo(K, k)) <= n
    BY FS_Subset DEF UpTo
  <2>2. k \in UpTo(K, k)
    BY DEF UpTo
  <2>3. Cardinality(UpTo(K, k)) \in Nat /\ Cardinality(UpTo(K, k)) # 0
    BY <2>1, <2>2, FS_CardinalityType, FS_EmptySet
  <2> QED BY <1>1, <2>1, <2>3
<1>3. Rank(K) \in [K -> 1..n]
  BY <1>2 DEF Rank
<1>4. ASSUME NEW k \in K, NEW l \in K, k < l
      PROVE  Rank(K)[k] < Rank(K)[l]
  <2>1. UpTo(K, k) \subseteq UpTo(K, l) /\ l \in UpTo(K, l) /\ l \notin UpTo(K, k)
    <3>1. k \in Nat /\ l \in Nat
      OBVIOUS
    <3>2. ASSUME NEW m \in K, m <= k PROVE m <= l
      <4>1. m \in Nat
        OBVIOUS
      <4> QED BY <1>4, <3>1, <3>2, <4>1
    <3>3. l <= l /\ ~(l <= k)
      BY <1>4, <3>1
    <3> QED BY <3>2, <3>3 DEF UpTo
  <2>2. Cardinality(UpTo(K, k)) <= Cardinality(UpTo(K, l)) /\ Cardinality(UpTo(K, k)) # Cardinality(UpTo(K, l))
    BY <1>2, <2>1, FS_Subset
  <2> QED BY <1>2, <2>2 DEF Rank
<1>5. Rank(K) \in Injection(K, 1..n)
  <2>1. \A k, l \in K : Rank(K)[k] = Rank(K)[l] => k = l
    BY <1>3, <1>4
  <2> QED BY <1>3, <2>1 DEF Injection, IsInjective
<1>6. IsFiniteSet(1..n) /\ Cardinality(1..n) = n
  BY <1>1, FS_Interval
<1>7. Rank(K) \in Surjection(K, 1..n)
  BY <1>5, <1>6, FS_Injection
<1> QED BY <1>1, <1>3, <1>4, <1>7 DEF Surjection

\* From the lowest up, all of them.
LEMMA OrderedGoesUp ==
    ASSUME NEW K \in SUBSET Nat, IsFiniteSet(K)
    PROVE  /\ Cardinality(K) \in Nat
           /\ Ordered(K) \in [1..Cardinality(K) -> K]
           /\ \A i, j \in 1..Cardinality(K) : i < j => Ordered(K)[i] < Ordered(K)[j]
           /\ \A k \in K : \E j \in 1..Cardinality(K) : Ordered(K)[j] = k
<1> DEFINE n == Cardinality(K)
           r == Rank(K)
<1>1. /\ n \in Nat /\ r \in [K -> 1..n]
      /\ \A k, l \in K : k < l => r[k] < r[l]
      /\ \A j \in 1..n : \E k \in K : r[k] = j
  BY RankIsBijection
<1>2. \A k \in K : r[k] = Cardinality({m \in K : m <= k})
  BY DEF Rank, UpTo
<1>3. ASSUME NEW j \in 1..n
      PROVE  Ordered(K)[j] \in K /\ r[Ordered(K)[j]] = j
  <2>1. Ordered(K)[j] = CHOOSE k \in K : Cardinality({m \in K : m <= k}) = j
    BY DEF Ordered
  <2>2. \E k \in K : Cardinality({m \in K : m <= k}) = j
    BY <1>1, <1>2
  <2>3. Ordered(K)[j] \in K /\ Cardinality({m \in K : m <= Ordered(K)[j]}) = j
    BY <2>1, <2>2
  <2> QED BY <1>2, <2>3
<1>4. \A j \in 1..n : (CHOOSE k \in K : Cardinality({m \in K : m <= k}) = j) \in K
  BY <1>3 DEF Ordered
<1>5. Ordered(K) \in [1..n -> K]
  BY <1>4 DEF Ordered
<1> DEFINE o == Ordered(K)
<1> HIDE DEF r, n, o
<1>6. ASSUME NEW i \in 1..n, NEW j \in 1..n, i < j
      PROVE  o[i] < o[j]
  <2>1. o[i] \in Nat /\ o[j] \in Nat /\ i # j
    <3>1. o[i] \in K /\ o[j] \in K
      BY <1>3 DEF o
    <3>2. o[i] \in Nat /\ o[j] \in Nat
      BY <3>1
    <3>3. n \in Nat => i # j
      BY <1>6
    <3> QED BY <1>1, <3>2, <3>3
  <2>2. o[i] # o[j]
    BY <1>3, <2>1 DEF o
  <2>3. ~(o[j] < o[i])
    <3>1. o[j] < o[i] => r[o[j]] < r[o[i]]
      BY <1>1, <1>3 DEF o
    <3>2. r[o[i]] = i /\ r[o[j]] = j
      BY <1>3 DEF o
    <3>3. ~(j < i)
      BY <1>1, <1>6
    <3> QED BY <3>1, <3>2, <3>3
  <2> QED BY <2>1, <2>2, <2>3
<1>7. ASSUME NEW k \in K
      PROVE  \E j \in 1..n : o[j] = k
  <2>1. r[k] \in 1..n
    BY <1>1
  <2>2. o[r[k]] \in K /\ r[o[r[k]]] = r[k]
    BY <1>3, <2>1 DEF o
  <2>3. o[r[k]] = k
    <3>1. o[r[k]] \in Nat /\ k \in Nat
      BY <2>2
    <3>2. r[k] \in Nat
      BY <1>1, <2>1
    <3>3. ~(o[r[k]] < k) /\ ~(k < o[r[k]])
      <4>1. ~(r[k] < r[k])
        BY <3>2
      <4>2. \A a, b \in K : a < b => r[a] < r[b]
        BY <1>1
      <4> QED BY <2>2, <4>1, <4>2
    <3> QED BY <3>1, <3>3
  <2> QED BY <2>1, <2>3
<1> QED BY <1>1, <1>5, <1>6, <1>7 DEF n, o

\* What is picked from a sequence stands in it, in the same order, and nothing else is left out.
LEMMA PickedFrom ==
    ASSUME NEW S, NEW files \in Seq(S), NEW K \in SUBSET (DOMAIN files)
    PROVE  /\ Picked(files, K) \in Seq(S)
           /\ DOMAIN Picked(files, K) = 1..Cardinality(K) /\ Cardinality(K) \in Nat
           /\ \A j \in DOMAIN Picked(files, K) :
                 Ordered(K)[j] \in K /\ Picked(files, K)[j] = files[Ordered(K)[j]]
           /\ \A i, j \in DOMAIN Picked(files, K) : i < j => Ordered(K)[i] < Ordered(K)[j]
           /\ \A k \in K : \E j \in DOMAIN Picked(files, K) : Picked(files, K)[j] = files[k]
<1>1. IsFiniteSet(DOMAIN files)
  BY FS_Interval
<1>2. K \in SUBSET Nat /\ IsFiniteSet(K)
  BY <1>1, FS_Subset
<1>3. /\ Cardinality(K) \in Nat
      /\ Ordered(K) \in [1..Cardinality(K) -> K]
      /\ \A i, j \in 1..Cardinality(K) : i < j => Ordered(K)[i] < Ordered(K)[j]
      /\ \A k \in K : \E j \in 1..Cardinality(K) : Ordered(K)[j] = k
  BY <1>2, OrderedGoesUp
<1>4. /\ DOMAIN Picked(files, K) = 1..Cardinality(K)
      /\ \A j \in 1..Cardinality(K) : Picked(files, K)[j] = files[Ordered(K)[j]]
  BY DEF Picked
<1>5. \A j \in 1..Cardinality(K) : Ordered(K)[j] \in K /\ files[Ordered(K)[j]] \in S
  BY <1>3
<1>6. Picked(files, K) \in Seq(S)
  BY <1>3, <1>5 DEF Picked
<1> QED BY <1>3, <1>4, <1>5, <1>6

-----------------------------------------------------------------------------
(* Types                                                                   *)

RowTyped == config \in Row /\ refresh \in [Callers -> Row \cup {NoRow}]

FlowStates == {"none", "shown", "hidden", "approved", "spent"}

\* A sign-in that has begun has a provider, wherever it is on its way.
Begun(n) == flow[n].provider \in SignIn
SignInsTyped ==
    /\ flow \in [Flows -> [provider : SignIn \cup {""}, state : FlowStates]]
    /\ pending \in 0..MaxFlows /\ posting \in 0..MaxFlows
    /\ listening \in BOOLEAN
    /\ exchange \in [Flows -> 0..MaxFlows]
    /\ granted \subseteq Flows /\ live \subseteq Flows
    /\ \A n \in Flows : flow[n].state # "none" \/ n \in granted \/ exchange[n] # 0 \/ posting = n => Begun(n)

Counted == ops \in 0..MaxOps /\ faults \in 0..MaxFaults

\* What a goroutine is at, with a file to work on where the step needs one.
WorkRecord == [step : Steps, todo : Seq(File), call : {"none", "open"},
               to : Providers \cup {""}, token : 0..MaxFlows]
Filed == {"upload", "copying", "prune", "delete", "download", "receiving"}
Proper(w) ==
    /\ w \in WorkRecord
    /\ w.step \in Filed => w.todo # <<>>
    /\ w.call = "open" => w.to \in Providers

SnapshotsTyped ==
    /\ kind \in [Ids -> {"none", "auto", "manual"}]
    /\ rows \subseteq Ids
    /\ archive \in [Ids -> Sizes \cup {"none"}]
RemoteTyped == remote \in [Providers -> Seq(File)] /\ sent \in Nat
WorkTyped == DOMAIN work = Callers /\ \A c \in Callers : Proper(work[c])

Typed ==
    /\ RowTyped /\ SignInsTyped /\ Counted
    /\ SnapshotsTyped /\ RemoteTyped /\ WorkTyped
    /\ disturbed \in BOOLEAN

LEMMA TypedIsTypeOK == Typed => TypeOK
  BY DEF Typed, TypeOK, AccountTypeOK, RowTyped, SignInsTyped, Counted, SnapshotsTyped, RemoteTyped,
         WorkTyped, Proper, WorkRecord, FlowStates

LEMMA Numbers ==
    /\ MaxFlows \in Nat \ {0} /\ MaxOps \in Nat /\ MaxFaults \in Nat
    /\ SignIn \subseteq Providers /\ ShowsParts \subseteq Overwrites /\ Overwrites \subseteq Providers
    /\ Ids \subseteq Nat /\ IsFiniteSet(Ids)
    /\ Ids \subseteq Callers /\ Push \in Callers /\ Clean \in Callers /\ Fetch \in Callers
    /\ Keep \in Nat \ {0}
<1>1. Cardinality(Ids) \in Nat
  BY MirrorAssumption, FS_CardinalityType
<1>2. Ids \subseteq Nat
  BY <1>1, MirrorAssumption
<1> QED BY <1>2, MirrorAssumption, AccountAssumption

LEMMA CountersMove ==
    ASSUME Counted, Op \/ Fault \/ Free
    PROVE  Counted'
  BY Numbers DEF Counted, Op, Fault, Free

LEMMA IdleProper == Proper(Idle)
<1>1. 0 \in 0..MaxFlows /\ <<>> \in Seq(File)
  BY Numbers
<1> QED BY <1>1 DEF Proper, Idle, WorkRecord, Steps, Filed

LEMMA AtProper ==
    ASSUME NEW step \in Steps, NEW todo \in Seq(File), step \in Filed => todo # <<>>
    PROVE  Proper(At(step, todo))
<1>1. 0 \in 0..MaxFlows
  BY Numbers
<1> QED BY <1>1 DEF Proper, At, Idle, WorkRecord

LEMMA FileOfIsFile ==
    ASSUME NEW i \in Ids, NEW size \in Sizes
    PROVE  FileOf(i, size) \in File
  BY DEF FileOf, File

\* A goroutine's task is replaced.
LEMMA WorkGoesOn ==
    ASSUME WorkTyped, NEW c \in Callers, NEW w, Proper(w), work' = [work EXCEPT ![c] = w]
    PROVE  WorkTyped'
  BY DEF WorkTyped

LEMMA FirstFile ==
    ASSUME WorkTyped, NEW c \in Callers, work[c].step \in Filed
    PROVE  work[c].todo \in Seq(File) /\ 1 \in DOMAIN work[c].todo /\ work[c].todo[1] \in File
<1>1. work[c].todo \in Seq(File) /\ work[c].todo # <<>>
  BY DEF WorkTyped, Proper, WorkRecord
<1>2. \A s \in Seq(File) : s # <<>> => 1 \in DOMAIN s /\ s[1] \in File
  OBVIOUS
<1> QED BY <1>1, <1>2

LEMMA OnwardProper ==
    ASSUME WorkTyped, NEW c \in Callers
    PROVE  Proper(Onward(c)) /\ Proper(AfterFailure(c))
<1>1. Proper(Onward(c))
  <2>1. CASE Len(work[c].todo) > 1
    <3> DEFINE step == IF work[c].step = "copying" THEN "upload" ELSE work[c].step
    <3>1. work[c].todo \in Seq(File) /\ step \in Steps
      BY DEF WorkTyped, Proper, WorkRecord, Steps
    <3>2. Tail(work[c].todo) \in Seq(File) /\ Tail(work[c].todo) # <<>>
      BY <2>1, <3>1
    <3>3. Onward(c) = At(step, Tail(work[c].todo))
      BY <2>1 DEF Onward
    <3> HIDE DEF step
    <3> QED BY <3>1, <3>2, <3>3, AtProper
  <2> QED BY <2>1, IdleProper DEF Onward
<1> QED BY <1>1, IdleProper DEF AfterFailure

LEMMA PutTyped ==
    ASSUME RemoteTyped, NEW p \in Providers, NEW file \in File, Put(p, file)
    PROVE  RemoteTyped'
<1>1. CASE p \in Overwrites
  <2>1. Without(p, file.name) \in Seq(File)
    BY PickedFrom DEF Without, RemoteTyped
  <2>2. Append(Without(p, file.name), file) \in Seq(File)
    BY <2>1
  <2> QED BY <1>1, <2>2 DEF Put, RemoteTyped
<1>2. CASE p \notin Overwrites
  <2>1. [file EXCEPT !.id = sent + 1] \in File /\ sent + 1 \in Nat
    <3>1. sent + 1 \in Nat
      BY DEF RemoteTyped
    <3> QED BY <3>1 DEF File
  <2>2. Append(remote[p], [file EXCEPT !.id = sent + 1]) \in Seq(File)
    BY <2>1 DEF RemoteTyped
  <2> QED BY <1>2, <2>1, <2>2 DEF Put, RemoteTyped
<1> QED BY <1>1, <1>2

LEMMA DropTyped ==
    ASSUME RemoteTyped, NEW p \in Providers, NEW file
    PROVE  Drop(p, file) \in [Providers -> Seq(File)]
<1> DEFINE K == {k \in DOMAIN remote[p] : ~Same(p, remote[p][k], file)}
<1>1. remote[p] \in Seq(File) /\ K \subseteq DOMAIN remote[p]
  BY DEF RemoteTyped
<1> HIDE DEF K
<1>2. Picked(remote[p], K) \in Seq(File)
  BY <1>1, PickedFrom
<1>3. Drop(p, file) = [remote EXCEPT ![p] = Picked(remote[p], K)]
  BY DEF Drop, K
<1> QED BY <1>2, <1>3 DEF RemoteTyped

\* Every step of a sign-in begins from one that has a provider.
LEMMA SigningInTyped ==
    ASSUME RowTyped, SignInsTyped, Counted, SigningIn
    PROVE  RowTyped' /\ SignInsTyped' /\ Counted'
<1> USE DEF Begun, FlowStates
<1>0. Flows \subseteq 0..MaxFlows /\ 0 \in 0..MaxFlows /\ 0 \notin Flows
      /\ \A k \in 0..MaxFlows : k # 0 => k \in Flows
  BY Numbers DEF Flows
<1>1. ASSUME NEW n \in Flows, NEW p \in SignIn, NEW printed \in {"shown", "hidden"}, BeginFlow(n, p, printed)
      PROVE  /\ flow' \in [Flows -> [provider : SignIn \cup {""}, state : FlowStates]]
             /\ pending' \in 0..MaxFlows /\ listening' \in BOOLEAN
             /\ flow'[n].provider = p
             /\ \A m \in Flows : m # n => flow'[m] = flow[m]
  BY <1>0, <1>1 DEF BeginFlow, SignInsTyped
<1>2. ASSUME NEW n \in Flows, NEW p \in SignIn, AuthStart(n, p)
      PROVE  RowTyped' /\ SignInsTyped' /\ Counted'
  <2>1. BeginFlow(n, p, "shown") /\ Op /\ UNCHANGED <<config, posting, exchange, granted, live, refresh>>
    BY <1>2 DEF AuthStart
  <2> QED BY <1>1, <2>1, CountersMove DEF RowTyped, SignInsTyped
<1>3. ASSUME NEW n \in Flows, NEW p \in SignIn, NEW code \in Flows, CliConnect(n, p, code)
      PROVE  RowTyped' /\ SignInsTyped' /\ Counted'
  <2>1. BeginFlow(n, p, "hidden") /\ Op /\ UNCHANGED <<config, exchange, granted, live, refresh>>
        /\ posting' = code /\ flow[code].state = "approved"
    BY <1>3 DEF CliConnect
  <2>2. code \in 0..MaxFlows
    BY <1>0
  <2> QED BY <1>1, <2>1, <2>2, CountersMove DEF RowTyped, SignInsTyped
<1>4. ASSUME NEW n \in Flows, Approve(n) \/ Denied(n)
      PROVE  RowTyped' /\ SignInsTyped' /\ Counted'
  <2>1. PICK to \in FlowStates : flow' = [flow EXCEPT ![n].state = to]
    BY <1>4 DEF Approve, Denied
  <2>2. /\ flow[n].state # "none" /\ Free /\ pending' \in {pending, 0}
        /\ UNCHANGED <<config, listening, posting, exchange, granted, live, refresh>>
    BY <1>4 DEF Approve, Denied
  <2>3. /\ flow' \in [Flows -> [provider : SignIn \cup {""}, state : FlowStates]]
        /\ \A m \in Flows : flow'[m].provider = flow[m].provider /\ (m # n => flow'[m].state = flow[m].state)
    BY <2>1 DEF SignInsTyped
  <2> QED BY <1>0, <2>2, <2>3, CountersMove DEF RowTyped, SignInsTyped
<1>5. ASSUME NEW n \in Flows, Begun(n), TakePending(n)
      PROVE  /\ pending' \in 0..MaxFlows /\ exchange' \in [Flows -> 0..MaxFlows]
             /\ \A m \in Flows : exchange'[m] # 0 => exchange[m] # 0 \/ Begun(m)
  BY <1>0, <1>5 DEF TakePending, SignInsTyped
<1>6. ASSUME NEW n \in Flows, Redirect(n) \/ PasteCode(n)
      PROVE  RowTyped' /\ SignInsTyped' /\ Counted'
  <2>1. TakePending(n) /\ Free /\ flow[n].state = "approved"
        /\ UNCHANGED <<config, flow, listening, posting, granted, live, refresh>>
    BY <1>6 DEF Redirect, PasteCode
  <2>2. Begun(n)
    BY <2>1 DEF SignInsTyped
  <2> QED BY <1>5, <2>1, <2>2, CountersMove DEF RowTyped, SignInsTyped
<1>7. ASSUME PostCode
      PROVE  RowTyped' /\ SignInsTyped' /\ Counted'
  <2>1. TakePending(posting) /\ Free /\ posting' = 0 /\ posting # 0
        /\ UNCHANGED <<config, flow, listening, granted, live, refresh>>
    BY <1>7 DEF PostCode
  <2>2. posting \in Flows /\ Begun(posting)
    BY <1>0, <2>1 DEF SignInsTyped
  <2> QED BY <1>0, <1>5, <2>1, <2>2, CountersMove DEF RowTyped, SignInsTyped
<1>8. ASSUME ListenerCloses
      PROVE  RowTyped' /\ SignInsTyped' /\ Counted'
  BY <1>8, CountersMove DEF ListenerCloses, RowTyped, SignInsTyped
<1>9. ASSUME NEW n \in Flows, Exchange(n)
      PROVE  RowTyped' /\ SignInsTyped' /\ Counted'
  <2> QED BY <1>0, <1>9, CountersMove DEF Exchange, Exchanged, NotExchanged, RowTyped, SignInsTyped
<1>10. ASSUME NEW n \in Flows, SaveSignIn(n)
       PROVE  RowTyped' /\ SignInsTyped' /\ Counted'
  <2>1. flow[n].provider \in Providers /\ n \in 0..MaxFlows
    BY <1>0, <1>10, Numbers DEF SaveSignIn, SignInsTyped
  <2>2. RowTyped'
    BY <1>10, <2>1 DEF SaveSignIn, RowTyped, Row
  <2> QED BY <1>10, <2>2, CountersMove DEF SaveSignIn, SignInsTyped
<1> QED BY <1>2, <1>3, <1>4, <1>6, <1>7, <1>8, <1>9, <1>10 DEF SigningIn

LEMMA ChangingRowTyped ==
    ASSUME RowTyped, SignInsTyped, Counted, ChangingRow
    PROVE  RowTyped' /\ SignInsTyped' /\ Counted'
<1>1. 0 \in 0..MaxFlows
  BY Numbers
<1>2. ASSUME UNCHANGED <<refresh, signing>>, Op \/ Free, config' \in Row
      PROVE  RowTyped' /\ SignInsTyped' /\ Counted'
  BY <1>2, CountersMove DEF signing, RowTyped, SignInsTyped, Begun
<1>3. CASE Disconnect
  BY <1>1, <1>2, <1>3 DEF Disconnect, RowTyped, Row
<1>4. CASE Expire
  BY <1>2, <1>4 DEF Expire, RowTyped, Row
<1>5. CASE \E p \in Providers, on \in BOOLEAN : PatchCloud(p, on)
  BY <1>2, <1>5 DEF PatchCloud, RowTyped, Row
<1>6. CASE \E n \in Flows : Revoke(n)
  BY <1>6, CountersMove DEF Revoke, RowTyped, SignInsTyped, Begun
<1> QED BY <1>3, <1>4, <1>5, <1>6 DEF ChangingRow

-----------------------------------------------------------------------------
(* The files a goroutine works on                                          *)

\* A file of that name and id is among them.
Bears(files, i, n) == \E k \in DOMAIN files : files[k].name = i /\ files[k].id = n

LEMMA BearsOne ==
    ASSUME NEW f, NEW i, NEW n, Bears(<<f>>, i, n)
    PROVE  f.name = i /\ f.id = n
  BY DEF Bears

LEMMA BearsNone == \A i, n : ~Bears(<<>>, i, n)
  BY DEF Bears

LEMMA BearsTail ==
    ASSUME NEW s \in Seq(File), Len(s) > 1, NEW i, NEW n, Bears(Tail(s), i, n)
    PROVE  Bears(s, i, n)
<1>1. PICK k \in DOMAIN Tail(s) : Tail(s)[k].name = i /\ Tail(s)[k].id = n
  BY DEF Bears
<1>2. k + 1 \in DOMAIN s /\ s[k + 1] = Tail(s)[k]
  OBVIOUS
<1> QED BY <1>1, <1>2 DEF Bears

LEMMA BearsAppend ==
    ASSUME NEW s \in Seq(File), NEW f, NEW i, NEW n
    PROVE  Bears(Append(s, f), i, n) <=> Bears(s, i, n) \/ (f.name = i /\ f.id = n)
<1>1. /\ DOMAIN Append(s, f) = DOMAIN s \cup {Len(s) + 1}
      /\ \A k \in DOMAIN s : Append(s, f)[k] = s[k]
      /\ Append(s, f)[Len(s) + 1] = f
  OBVIOUS
<1> QED BY <1>1 DEF Bears

LEMMA BearsFirst ==
    ASSUME NEW s \in Seq(File), NEW f, 1 \in DOMAIN s, NEW i, NEW n, Bears([s EXCEPT ![1] = f], i, n)
    PROVE  Bears(s, i, n) \/ (f.name = i /\ f.id = n)
  BY DEF Bears

LEMMA BearsReverse ==
    ASSUME NEW s \in Seq(File), NEW i, NEW n
    PROVE  /\ Reverse(s) \in Seq(File) /\ Len(Reverse(s)) = Len(s)
           /\ Bears(Reverse(s), i, n) => Bears(s, i, n)
<1>1. Len(s) \in Nat /\ \A k \in 1..Len(s) : Len(s) - k + 1 \in 1..Len(s)
  OBVIOUS
<1>2. Reverse(s) \in [1..Len(s) -> File]
  BY <1>1 DEF Reverse
<1>3. Reverse(s) \in Seq(File) /\ Len(Reverse(s)) = Len(s) /\ DOMAIN Reverse(s) = 1..Len(s)
  BY <1>1, <1>2
<1>4. ASSUME Bears(Reverse(s), i, n) PROVE Bears(s, i, n)
  <2>1. PICK k \in 1..Len(s) : Reverse(s)[k].name = i /\ Reverse(s)[k].id = n
    BY <1>3, <1>4 DEF Bears
  <2>2. Reverse(s)[k] = s[Len(s) - k + 1]
    BY DEF Reverse
  <2> QED BY <1>1, <2>1, <2>2 DEF Bears
<1> QED BY <1>3, <1>4

LEMMA BearsPicked ==
    ASSUME NEW s \in Seq(File), NEW K \in SUBSET (DOMAIN s), NEW i, NEW n
    PROVE  Bears(Picked(s, K), i, n) <=> \E k \in K : s[k].name = i /\ s[k].id = n
<1>1. /\ \A j \in DOMAIN Picked(s, K) : \E k \in K : Picked(s, K)[j] = s[k]
      /\ \A k \in K : \E j \in DOMAIN Picked(s, K) : Picked(s, K)[j] = s[k]
  BY PickedFrom
<1> QED BY <1>1 DEF Bears

LEMMA BeyondIsPart ==
    ASSUME NEW s \in Seq(File)
    PROVE  /\ Beyond(s) \in Seq(File)
           /\ Len(Beyond(s)) = (IF Len(s) > Keep THEN Len(s) - Keep ELSE 0)
           /\ \A k \in 1..Len(Beyond(s)) : Beyond(s)[k] = s[k]
<1>1. Keep \in Nat /\ Len(s) \in Nat
  BY Numbers
<1> QED BY <1>1 DEF Beyond

-----------------------------------------------------------------------------
(* What a goroutine's step does to its task                                *)

\* A file of that name and id is at a destination or on somebody's list.
AtPlace(i, n) == \E p \in Providers : Bears(remote[p], i, n)
Listed(i, n) == \E c \in Callers : Bears(work[c].todo, i, n)
Here(i, n) == AtPlace(i, n) \/ Listed(i, n)

\* The new list has files that are here, and uploads of snapshots that are known.
Sourced(w) ==
    \A i, n : Bears(w.todo, i, n) => Here(i, n) \/ (n = 0 /\ (i \in rows \/ \E m : Here(i, m)))

\* The goroutine makes no new call and no new list of copies to trim, and one that
\* deletes for the user goes on only with what was begun.
SameCall(c, w) == w.call = "open" => work[c].call = "open" /\ w.to = work[c].to
SamePrune(c, w) ==
    w.step = "prune" =>
        work[c].step = "prune" /\ \A i, n : Bears(w.todo, i, n) => Bears(work[c].todo, i, n)
SameTask(c, w) == c = Clean /\ w.step # "idle" => work[c].step # "idle"

Replaces(c, w) == work' = [work EXCEPT ![c] = w] /\ Proper(w) /\ Sourced(w)
GoesOn(c, w) == Replaces(c, w) /\ SameCall(c, w) /\ SamePrune(c, w) /\ SameTask(c, w)

LEMMA IdleGoesOn ==
    ASSUME NEW c \in Callers, work' = [work EXCEPT ![c] = Idle]
    PROVE  GoesOn(c, Idle)
<1>1. Idle.todo = <<>> /\ Idle.step = "idle" /\ Idle.call = "none"
  BY DEF Idle
<1>2. \A i, n : ~Bears(Idle.todo, i, n)
  BY <1>1, BearsNone
<1> QED BY <1>1, <1>2, IdleProper DEF GoesOn, Replaces, Sourced, SameCall, SamePrune, SameTask

\* The next file, or none.
LEMMA OnwardGoesOn ==
    ASSUME WorkTyped, NEW c \in Callers, NEW w \in {Onward(c), AfterFailure(c), Idle}, work' = [work EXCEPT ![c] = w]
    PROVE  GoesOn(c, w)
<1>1. CASE w = Idle
  BY <1>1, IdleGoesOn
<1>2. CASE w = Onward(c) /\ w # Idle
  <2> DEFINE step == IF work[c].step = "copying" THEN "upload" ELSE work[c].step
  <2>1. Len(work[c].todo) > 1 /\ w = At(step, Tail(work[c].todo))
    BY <1>2 DEF Onward
  <2>2. w.todo = Tail(work[c].todo) /\ w.step = step /\ w.call = "none"
    BY <2>1 DEF At, Idle
  <2>3. work[c].todo \in Seq(File)
    BY DEF WorkTyped, Proper, WorkRecord
  <2>4. \A i, n : Bears(w.todo, i, n) => Bears(work[c].todo, i, n)
    BY <2>1, <2>2, <2>3, BearsTail
  <2>5. Sourced(w)
    BY <2>4 DEF Sourced, Here, Listed
  <2>6. Proper(w)
    BY <1>2, OnwardProper
  <2> QED BY <2>2, <2>4, <2>5, <2>6 DEF GoesOn, Replaces, SameCall, SamePrune, SameTask
<1> QED BY <1>1, <1>2 DEF AfterFailure

\* A task begins with a listing.
LEMMA ListGoesOn ==
    ASSUME NEW c \in Callers, work' = [work EXCEPT ![c] = At("list", <<>>)], c = Clean => work[c].step # "idle"
    PROVE  GoesOn(c, At("list", <<>>))
<1> DEFINE w == At("list", <<>>)
<1>1. w.todo = <<>> /\ w.step = "list" /\ w.call = "none"
  BY DEF At, Idle
<1>2. \A i, n : ~Bears(w.todo, i, n)
  BY <1>1, BearsNone
<1>3. Proper(w)
  <2>1. <<>> \in Seq(File) /\ "list" \in Steps /\ "list" \notin Filed
    BY DEF Steps, Filed
  <2> QED BY <2>1, AtProper
<1> QED BY <1>1, <1>2, <1>3 DEF GoesOn, Replaces, Sourced, SameCall, SamePrune, SameTask

\* A call is made, by what is unexpired or by a refresh that was answered.
Connects(c, w, to) ==
    /\ Replaces(c, w) /\ SamePrune(c, w)
    /\ w.call = "open" /\ w.to = to

LEMMA CallConnects ==
    ASSUME WorkTyped, NEW c \in Callers, NEW to \in Providers, NEW token \in 0..MaxFlows,
           work' = [work EXCEPT ![c].call = "open", ![c].to = to, ![c].token = token]
    PROVE  \E w : Connects(c, w, to) /\ w.step = work[c].step /\ w.todo = work[c].todo
<1> DEFINE w == [work[c] EXCEPT !.call = "open", !.to = to, !.token = token]
<1>1. work[c] \in WorkRecord /\ (work[c].step \in Filed => work[c].todo # <<>>)
  BY DEF WorkTyped, Proper
<1>2. /\ w \in WorkRecord /\ w.step = work[c].step /\ w.todo = work[c].todo
      /\ w.call = "open" /\ w.to = to
  BY <1>1 DEF WorkRecord
<1>3. Proper(w)
  BY <1>1, <1>2 DEF Proper
<1>4. work' = [work EXCEPT ![c] = w]
  OBVIOUS
<1>5. Sourced(w) /\ SamePrune(c, w)
  BY <1>2 DEF Sourced, SamePrune, Here, Listed
<1> HIDE DEF w
<1> QED BY <1>2, <1>3, <1>4, <1>5 DEF Connects, Replaces

LEMMA OpenDoes ==
    ASSUME Typed, NEW c \in Callers, Open(c)
    PROVE  /\ Counted' /\ RowTyped' /\ UNCHANGED <<config, signing, copies, disturbed>>
           /\ \/ /\ UNCHANGED refresh
                 /\ \E w : Connects(c, w, config.provider) /\ w.step = work[c].step /\ w.todo = work[c].todo
              \/ UNCHANGED work /\ refresh' = [refresh EXCEPT ![c] = config]
<1>1. Counted' /\ UNCHANGED <<signing, copies, disturbed>>
  BY CountersMove DEF Open, Typed
<1>2. config.provider \in Providers /\ config.session \in 0..MaxFlows
  BY DEF Typed, RowTyped, Row
<1>3. CASE \E token \in {0, config.session} : Opened(c, token) /\ UNCHANGED <<config, refresh>>
  <2>1. PICK token \in 0..MaxFlows : Opened(c, token)
    BY <1>2, <1>3, Numbers
  <2>2. \E w : Connects(c, w, config.provider) /\ w.step = work[c].step /\ w.todo = work[c].todo
    BY <1>2, <2>1, CallConnects DEF Opened, Typed
  <2> QED BY <1>1, <1>3, <2>2 DEF Typed, RowTyped
<1>4. CASE BeginRefresh(c) /\ UNCHANGED work
  BY <1>1, <1>4 DEF BeginRefresh, Typed, RowTyped
<1> QED BY <1>3, <1>4 DEF Open

LEMMA EndRefreshDoes ==
    ASSUME Typed, NEW c \in Callers, EndRefresh(c)
    PROVE  /\ Counted' /\ RowTyped' /\ UNCHANGED <<signing, copies>> /\ Destination /\ Refreshing(c)
           /\ config'.provider = refresh[c].provider /\ refresh' = [refresh EXCEPT ![c] = NoRow]
           /\ \E w : Connects(c, w, refresh[c].provider) /\ w.step = work[c].step /\ w.todo = work[c].todo
<1>1. Counted' /\ UNCHANGED <<signing, copies>> /\ Destination /\ Refreshing(c)
  BY CountersMove DEF EndRefresh, Typed
<1>2. refresh[c] \in Row
  BY <1>1 DEF Typed, RowTyped, Refreshing
<1>3. refresh[c].provider \in Providers /\ refresh[c].session \in 0..MaxFlows
  BY <1>2 DEF Row
<1>4. config' = [refresh[c] EXCEPT !.fresh = TRUE] /\ refresh' = [refresh EXCEPT ![c] = NoRow]
  BY DEF EndRefresh, Refreshed
<1>5. config' \in Row /\ config'.provider = refresh[c].provider
  BY <1>2, <1>4 DEF Row
<1>6. RowTyped'
  BY <1>4, <1>5 DEF Typed, RowTyped
<1>7. \E w : Connects(c, w, refresh[c].provider) /\ w.step = work[c].step /\ w.todo = work[c].todo
  BY <1>3, CallConnects DEF EndRefresh, Typed
<1> QED BY <1>1, <1>4, <1>5, <1>6, <1>7

LEMMA NoCallDoes ==
    ASSUME Typed, NEW c \in Callers, NotConfigured(c) \/ NoToken(c)
    PROVE  /\ Counted' /\ RowTyped' /\ UNCHANGED <<signing, copies>> /\ Destination
           /\ \A d \in Callers : refresh'[d] \in {refresh[d], NoRow}
           /\ \E w : GoesOn(c, w)
<1>1. Counted' /\ UNCHANGED <<signing, copies>>
  BY CountersMove DEF NotConfigured, NoToken, Typed, account
<1>2. \E w : GoesOn(c, w)
  BY OnwardGoesOn DEF NotConfigured, NoToken, Typed
<1>3. CASE NotConfigured(c)
  BY <1>1, <1>2, <1>3 DEF NotConfigured, account, Typed, RowTyped, Destination
<1>4. CASE NoToken(c)
  <2>1. refresh' = [refresh EXCEPT ![c] = NoRow] /\ Destination /\ Refreshing(c)
    BY <1>4 DEF NoToken, Expired, RefreshFails
  <2>2. refresh[c] \in Row /\ 0 \in 0..MaxFlows
    BY <2>1, Numbers DEF Typed, RowTyped, Refreshing
  <2>3. config' \in {config, Forget(refresh[c])}
    BY <1>4 DEF NoToken, Expired, RefreshFails
  <2>4. config' \in Row
    BY <2>2, <2>3 DEF Forget, Row, Typed, RowTyped
  <2> QED BY <1>1, <1>2, <2>1, <2>4 DEF Typed, RowTyped
<1> QED BY <1>3, <1>4

LEMMA CallFailsDoes ==
    ASSUME Typed, NEW c \in Callers, CallFails(c)
    PROVE  /\ Counted' /\ SnapshotsTyped' /\ UNCHANGED <<account, kind, rows, remote, sent, disturbed>>
           /\ \E w : GoesOn(c, w)
<1>1. Counted' /\ UNCHANGED <<account, kind, rows, remote, sent, disturbed>>
  BY CountersMove DEF CallFails, Typed
<1>2. \E w : GoesOn(c, w)
  BY OnwardGoesOn DEF CallFails, Typed
<1>3. archive' \in [Ids -> Sizes \cup {"none"}]
  BY DEF CallFails, Typed, SnapshotsTyped
<1> QED BY <1>1, <1>2, <1>3 DEF Typed, SnapshotsTyped

\* An upload writes a file of the name it was asked for.
Puts(c) ==
    \/ UNCHANGED <<remote, sent>>
    \/ \E p \in Providers, file \in File :
          p = work[c].to /\ Put(p, file) /\ \E m : Here(file.name, m) /\ file.id \in {m, 0}

LEMMA BeginUploadDoes ==
    ASSUME Typed, NEW c \in Callers, BeginUpload(c)
    PROVE  /\ Counted' /\ UNCHANGED <<account, kind, rows, archive, disturbed>>
           /\ Puts(c) /\ work[c].call = "open"
           /\ \E w : GoesOn(c, w)
<1> DEFINE first == work[c].todo[1]
           file == IF archive[first.name] = "none" THEN first ELSE FileOf(first.name, archive[first.name])
           w == [work[c] EXCEPT !.step = "copying", !.todo = [work[c].todo EXCEPT ![1] = file]]
<1>1. Counted' /\ UNCHANGED <<account, kind, rows, archive, disturbed>> /\ work[c].call = "open"
      /\ work[c].step = "upload"
  BY CountersMove DEF BeginUpload, Typed
<1>2. work[c].todo \in Seq(File) /\ 1 \in DOMAIN work[c].todo /\ first \in File
  BY <1>1, FirstFile DEF Typed, Filed
<1>3. first.name \in Ids /\ archive[first.name] \in Sizes \cup {"none"}
  BY <1>2 DEF File, Typed, SnapshotsTyped
<1>4. file \in File /\ file.name = first.name /\ file.id \in {first.id, 0}
  <2>1. CASE archive[first.name] = "none"
    BY <1>2, <2>1
  <2>2. CASE archive[first.name] # "none"
    <3>1. archive[first.name] \in Sizes
      BY <1>3, <2>2
    <3>2. FileOf(first.name, archive[first.name]) \in File
      BY <1>3, <3>1, FileOfIsFile
    <3> QED BY <2>2, <3>2 DEF FileOf
  <2> QED BY <2>1, <2>2
<1>5. Here(first.name, first.id)
  BY <1>2 DEF Here, Listed, Bears
<1>6. /\ work' = [work EXCEPT ![c].step = "copying", ![c].todo[1] = file]
      /\ IF work[c].to \in ShowsParts THEN Put(work[c].to, [file EXCEPT !.size = "part"])
         ELSE UNCHANGED <<remote, sent>>
  BY DEF BeginUpload
<1> HIDE DEF first, file
<1>7. Puts(c)
  <2>1. [file EXCEPT !.size = "part"] \in File /\ [file EXCEPT !.size = "part"].name = first.name
        /\ [file EXCEPT !.size = "part"].id \in {first.id, 0}
    BY <1>4 DEF File, Sizes
  <2>2. work[c].to \in ShowsParts => work[c].to \in Providers
    BY Numbers
  <2> QED BY <1>5, <1>6, <2>1, <2>2 DEF Puts
<1>8. [work[c].todo EXCEPT ![1] = file] \in Seq(File) /\ [work[c].todo EXCEPT ![1] = file] # <<>>
  BY <1>2, <1>4
<1>9. /\ w \in WorkRecord /\ w.step = "copying" /\ w.todo = [work[c].todo EXCEPT ![1] = file]
      /\ w.call = work[c].call /\ w.to = work[c].to
  BY <1>8 DEF Typed, WorkTyped, Proper, WorkRecord, Steps
<1>10. Proper(w)
  BY <1>8, <1>9 DEF Proper, Typed, WorkTyped
<1>11. work' = [work EXCEPT ![c] = w]
  BY <1>6
<1> HIDE DEF w
<1>12. Sourced(w)
  <2> SUFFICES ASSUME NEW i, NEW n, Bears(w.todo, i, n)
               PROVE  Here(i, n) \/ (n = 0 /\ \E m : Here(i, m))
    BY DEF Sourced
  <2>1. CASE Bears(work[c].todo, i, n)
    BY <2>1 DEF Here, Listed
  <2>2. CASE i = first.name /\ n \in {first.id, 0}
    BY <1>5, <2>2
  <2>3. Bears(work[c].todo, i, n) \/ (file.name = i /\ file.id = n)
    BY <1>2, <1>9, BearsFirst
  <2> QED BY <1>4, <2>1, <2>2, <2>3
<1>13. GoesOn(c, w)
  BY <1>1, <1>9, <1>10, <1>11, <1>12 DEF GoesOn, Replaces, SameCall, SamePrune, SameTask
<1> QED BY <1>1, <1>7, <1>13

LEMMA EndUploadDoes ==
    ASSUME Typed, NEW c \in Callers, EndUpload(c)
    PROVE  /\ Counted' /\ UNCHANGED <<account, kind, rows, archive, disturbed>>
           /\ Puts(c) /\ work[c].call = "open"
           /\ \E w : GoesOn(c, w)
<1>1. Counted' /\ UNCHANGED <<account, kind, rows, archive, disturbed>> /\ work[c].call = "open"
      /\ work[c].step = "copying"
  BY CountersMove DEF EndUpload, Typed, Answers
<1>2. work[c].todo \in Seq(File) /\ 1 \in DOMAIN work[c].todo /\ work[c].todo[1] \in File
  BY <1>1, FirstFile DEF Typed, Filed
<1>3. Here(work[c].todo[1].name, work[c].todo[1].id)
  BY <1>2 DEF Here, Listed, Bears
<1>4. work[c].to \in Providers
  BY <1>1 DEF Typed, WorkTyped, Proper
<1>5. Puts(c)
  BY <1>2, <1>3, <1>4 DEF EndUpload, Puts
<1>6. \E w : GoesOn(c, w)
  <2>1. CASE work' = [work EXCEPT ![c] = Onward(c)]
    BY <2>1, OnwardGoesOn DEF Typed
  <2>2. CASE work' = [work EXCEPT ![c] = At("list", <<>>)]
    BY <1>1, <2>2, ListGoesOn
  <2> QED BY <2>1, <2>2 DEF EndUpload
<1> QED BY <1>1, <1>5, <1>6

LEMMA Goroutines ==
    Push # Clean /\ Fetch # Clean /\ Clean \notin Ids
<1>1. ASSUME NEW a, NEW b, {Push, Clean, Fetch} \ Ids \subseteq {a, b}
      PROVE  FALSE
  <2>1. IsFiniteSet({a}) /\ Cardinality({a}) = 1
    BY FS_Singleton
  <2>2. IsFiniteSet({a} \cup {b}) /\ Cardinality({a} \cup {b}) <= 2
    BY <2>1, FS_AddElement
  <2>3. {Push, Clean, Fetch} \ Ids \in SUBSET ({a} \cup {b})
    BY <1>1
  <2>4. Cardinality({Push, Clean, Fetch} \ Ids) <= Cardinality({a} \cup {b})
    BY <2>2, <2>3, FS_Subset
  <2>5. Cardinality({a} \cup {b}) \in Nat
    BY <2>2, FS_CardinalityType
  <2>6. Cardinality({Push, Clean, Fetch} \ Ids) = 3
    BY MirrorAssumption
  <2> QED BY <2>2, <2>4, <2>5, <2>6
<1>2. ~({Push, Clean, Fetch} \ Ids \subseteq {Push, Fetch})
  BY <1>1
<1>3. ~({Push, Clean, Fetch} \ Ids \subseteq {Push, Clean})
  BY <1>1
<1> QED BY <1>2, <1>3

\* A new task of which every file is here or that of a known snapshot.
Backed(todo) ==
    \A k \in DOMAIN todo : Here(todo[k].name, todo[k].id) \/ (todo[k].id = 0 /\ todo[k].name \in rows)

LEMMA AtFits ==
    ASSUME NEW step \in Steps, NEW todo \in Seq(File), todo # <<>>, Backed(todo)
    PROVE  /\ Proper(At(step, todo)) /\ Sourced(At(step, todo))
           /\ At(step, todo).step = step /\ At(step, todo).todo = todo /\ At(step, todo).call = "none"
<1> DEFINE w == At(step, todo)
<1>1. w.todo = todo /\ w.step = step /\ w.call = "none"
  BY DEF At, Idle
<1>2. Sourced(w)
  BY <1>1 DEF Sourced, Bears, Backed
<1>3. Proper(w)
  BY AtProper
<1> QED BY <1>1, <1>2, <1>3

\* The copies a trim is about to delete: the oldest of the candidates.
Doomed(p) == Beyond(Picked(remote[p], Candidates(remote[p])))
Trims(c, w) ==
    /\ Replaces(c, w) /\ w.call = "none" /\ w.step = "prune" /\ c \in Ids
    /\ \A i, n : Bears(w.todo, i, n) => Bears(Doomed(work[c].to), i, n)

LEMMA DoomedFiles ==
    ASSUME RemoteTyped, NEW p \in Providers
    PROVE  /\ Doomed(p) \in Seq(File)
           /\ \A i, n : Bears(Doomed(p), i, n) => Spends(i) /\ Bears(remote[p], i, n)
<1> DEFINE files == remote[p]
           K == Candidates(files)
<1>1. files \in Seq(File) /\ K \in SUBSET (DOMAIN files)
  BY DEF RemoteTyped, Candidates
<1>2. Picked(files, K) \in Seq(File)
  BY <1>1, PickedFrom
<1>3. \A k \in K : Spends(files[k].name)
  BY DEF Candidates
<1> HIDE DEF files, K
<1>4. /\ Beyond(Picked(files, K)) \in Seq(File)
      /\ \A k \in 1..Len(Beyond(Picked(files, K))) :
            Beyond(Picked(files, K))[k] = Picked(files, K)[k] /\ k \in DOMAIN Picked(files, K)
  BY <1>2, BeyondIsPart, Numbers
<1>5. ASSUME NEW i, NEW n, Bears(Beyond(Picked(files, K)), i, n)
      PROVE  Spends(i) /\ Bears(files, i, n)
  <2>1. Bears(Picked(files, K), i, n)
    BY <1>4, <1>5 DEF Bears
  <2>2. PICK k \in K : files[k].name = i /\ files[k].id = n
    BY <1>1, <2>1, BearsPicked
  <2> QED BY <1>1, <1>3, <2>2 DEF Bears
<1> QED BY <1>4, <1>5 DEF Doomed, files, K

LEMMA PruneListDoes ==
    ASSUME Typed, NEW c \in Callers, PruneList(c)
    PROVE  /\ Counted' /\ UNCHANGED <<account, copies, disturbed>> /\ work[c].call = "open"
           /\ \E w : GoesOn(c, w) \/ Trims(c, w)
<1>1. Counted' /\ UNCHANGED <<account, copies, disturbed>> /\ work[c].call = "open" /\ c \in Ids
      /\ work' = [work EXCEPT ![c] = IF Doomed(work[c].to) = <<>> THEN Idle
                                     ELSE At("prune", Reverse(Doomed(work[c].to)))]
  BY CountersMove DEF PruneList, Typed, Answers, Doomed
<1>2. work[c].to \in Providers
  BY <1>1 DEF Typed, WorkTyped, Proper
<1> DEFINE d == Doomed(work[c].to)
<1>3. d \in Seq(File) /\ \A i, n : Bears(d, i, n) => Bears(remote[work[c].to], i, n)
  BY <1>2, DoomedFiles DEF Typed
<1> HIDE DEF d
<1>4. /\ Reverse(d) \in Seq(File) /\ Len(Reverse(d)) = Len(d)
      /\ \A i, n : Bears(Reverse(d), i, n) => Bears(d, i, n)
  BY <1>3, BearsReverse
<1>5. CASE d = <<>>
  BY <1>1, <1>5, IdleGoesOn DEF d
<1>6. CASE d # <<>>
  <2> DEFINE w == At("prune", Reverse(d))
  <2>1. Reverse(d) # <<>>
    BY <1>3, <1>4, <1>6
  <2>2. work' = [work EXCEPT ![c] = w]
    BY <1>1, <1>6 DEF d
  <2>3. Backed(Reverse(d))
    <3> SUFFICES ASSUME NEW k \in DOMAIN Reverse(d)
                 PROVE  AtPlace(Reverse(d)[k].name, Reverse(d)[k].id)
      BY DEF Here, Backed
    <3>1. Bears(Reverse(d), Reverse(d)[k].name, Reverse(d)[k].id)
      BY DEF Bears
    <3> QED BY <1>2, <1>3, <1>4, <3>1 DEF AtPlace
  <2>4. Proper(w) /\ Sourced(w) /\ w.step = "prune" /\ w.todo = Reverse(d) /\ w.call = "none"
    <3>1. "prune" \in Steps
      BY DEF Steps
    <3> QED BY <1>4, <2>1, <2>3, <3>1, AtFits
  <2> HIDE DEF w
  <2>5. Trims(c, w)
    BY <1>1, <1>4, <2>2, <2>4 DEF Trims, Replaces, d
  <2> QED BY <1>1, <2>5
<1> QED BY <1>5, <1>6

\* A copy is deleted.
Drops(c) ==
    /\ work[c].call = "open" /\ work[c].to \in Providers /\ 1 \in DOMAIN work[c].todo
    /\ remote' = Drop(work[c].to, work[c].todo[1]) /\ UNCHANGED sent

LEMMA DeleteDoes ==
    ASSUME Typed, NEW c \in Callers,
           \/ PruneDelete(c)
           \/ c = Clean /\ Delete
    PROVE  /\ Counted' /\ UNCHANGED <<account, kind, rows, archive, disturbed>>
           /\ work[c].step \in {"prune", "delete"} /\ (work[c].step = "delete" => c = Clean)
           /\ Drops(c)
           /\ GoesOn(c, Onward(c))
<1>1. /\ Counted' /\ UNCHANGED <<account, kind, rows, archive, disturbed>> /\ work[c].call = "open"
      /\ work[c].step \in {"prune", "delete"} /\ (work[c].step = "delete" => c = Clean)
      /\ remote' = Drop(work[c].to, work[c].todo[1]) /\ UNCHANGED sent
      /\ work' = [work EXCEPT ![c] = Onward(c)]
  BY CountersMove DEF PruneDelete, Delete, Typed, Answers
<1>2. work[c].to \in Providers /\ 1 \in DOMAIN work[c].todo
  BY <1>1, FirstFile DEF Typed, WorkTyped, Proper, Filed
<1>3. GoesOn(c, Onward(c))
  BY <1>1, OnwardGoesOn DEF Typed
<1> QED BY <1>1, <1>2, <1>3 DEF Drops

LEMMA PushListDoes ==
    ASSUME Typed, PushList
    PROVE  /\ Counted' /\ UNCHANGED <<account, copies, disturbed>>
           /\ \E w : GoesOn(Push, w)
<1> DEFINE M == Missing(work[Push].to)
           todo == [k \in 1..Len(Reverse(Ordered(M))) |-> FileOf(Reverse(Ordered(M))[k], "whole")]
<1>1. Counted' /\ UNCHANGED <<account, copies, disturbed>>
      /\ work' = [work EXCEPT ![Push] = IF Reverse(Ordered(M)) = <<>> THEN Idle ELSE At("upload", todo)]
  BY CountersMove DEF PushList, Typed
<1>2. M \in SUBSET rows /\ rows \subseteq Ids
  BY DEF Missing, Typed, SnapshotsTyped
<1> HIDE DEF M
<1>3. M \in SUBSET Nat /\ IsFiniteSet(M)
  BY <1>2, Numbers, FS_Subset
<1>4. Cardinality(M) \in Nat /\ Ordered(M) \in [1..Cardinality(M) -> M]
  BY <1>3, OrderedGoesUp
<1>5. /\ Len(Ordered(M)) = Cardinality(M)
      /\ Reverse(Ordered(M)) \in [1..Cardinality(M) -> M]
  <2>1. Len(Ordered(M)) = Cardinality(M)
    BY <1>4
  <2>2. \A k \in 1..Cardinality(M) : Cardinality(M) - k + 1 \in 1..Cardinality(M)
    BY <1>4
  <2> QED BY <1>4, <2>1, <2>2 DEF Reverse
<1>6. Len(Reverse(Ordered(M))) = Cardinality(M)
  BY <1>4, <1>5
<1>7. todo = [k \in 1..Cardinality(M) |-> FileOf(Reverse(Ordered(M))[k], "whole")]
  BY <1>6
<1>8. \A k \in 1..Cardinality(M) : Reverse(Ordered(M))[k] \in rows
  BY <1>2, <1>5
<1>9. ASSUME NEW k \in 1..Cardinality(M)
      PROVE  todo[k] \in File /\ todo[k].id = 0 /\ todo[k].name \in rows
  <2>1. todo[k] = FileOf(Reverse(Ordered(M))[k], "whole")
    BY <1>7
  <2>2. Reverse(Ordered(M))[k] \in Ids /\ "whole" \in Sizes
    BY <1>2, <1>8 DEF Sizes
  <2> QED BY <1>8, <2>1, <2>2, FileOfIsFile DEF FileOf
<1> DEFINE n == Cardinality(M)
<1>10. todo \in Seq(File) /\ DOMAIN todo = 1..n
  <2>1. DOMAIN todo = 1..n
    BY <1>7
  <2>2. todo \in [1..n -> File]
    BY <1>7, <1>9
  <2> QED BY <1>4, <2>1, <2>2
<1>11. CASE Reverse(Ordered(M)) = <<>>
  BY <1>1, <1>11, Numbers, IdleGoesOn
<1>12. CASE Reverse(Ordered(M)) # <<>>
  <2>1. todo # <<>>
    BY <1>5, <1>10, <1>12
  <2>2. work' = [work EXCEPT ![Push] = At("upload", todo)]
    BY <1>1, <1>12
  <2>3. "upload" \in Steps /\ Backed(todo)
    BY <1>9, <1>10 DEF Steps, Backed
  <2> HIDE DEF todo
  <2> DEFINE w == At("upload", todo)
  <2>4. Proper(w) /\ Sourced(w) /\ w.step = "upload" /\ w.call = "none"
    BY <1>10, <2>1, <2>3, AtFits
  <2> HIDE DEF w
  <2>5. GoesOn(Push, w)
    BY <2>2, <2>4, Goroutines DEF w, GoesOn, Replaces, SameCall, SamePrune, SameTask
  <2> QED BY <1>1, <2>5
<1> QED BY <1>11, <1>12

LEMMA CleanListDoes ==
    ASSUME Typed, CleanList
    PROVE  /\ Counted' /\ UNCHANGED <<account, copies, disturbed>>
           /\ \E w : GoesOn(Clean, w)
<1> DEFINE files == remote[work[Clean].to]
<1>1. /\ Counted' /\ UNCHANGED <<account, copies, disturbed>> /\ work[Clean].call = "open"
      /\ work[Clean].step = "list"
      /\ work' = [work EXCEPT ![Clean] = IF files = <<>> THEN Idle ELSE At("delete", files)]
  BY CountersMove DEF CleanList, Typed, Answers
<1>2. work[Clean].to \in Providers
  BY <1>1, Numbers DEF Typed, WorkTyped, Proper
<1>3. files \in Seq(File) /\ Backed(files)
  BY <1>2 DEF Typed, RemoteTyped, Backed, Here, AtPlace, Bears
<1> HIDE DEF files
<1>4. CASE files = <<>>
  BY <1>1, <1>4, Numbers, IdleGoesOn
<1>5. CASE files # <<>>
  <2> DEFINE w == At("delete", files)
  <2>1. "delete" \in Steps
    BY DEF Steps
  <2>2. Proper(w) /\ Sourced(w) /\ w.step = "delete" /\ w.call = "none"
    BY <1>3, <1>5, <2>1, AtFits
  <2>3. work' = [work EXCEPT ![Clean] = w]
    BY <1>1, <1>5
  <2> HIDE DEF w
  <2> QED BY <1>1, <2>2, <2>3 DEF GoesOn, Replaces, SameCall, SamePrune, SameTask
<1> QED BY <1>1, <1>4, <1>5

LEMMA DownloadDoes ==
    ASSUME Typed, Download
    PROVE  /\ Counted' /\ SnapshotsTyped' /\ UNCHANGED <<account, kind, rows, remote, sent, disturbed>>
           /\ \E w : GoesOn(Fetch, w)
<1> DEFINE files == remote[work[Fetch].to]
           i == work[Fetch].todo[1].name
<1>1. /\ Counted' /\ UNCHANGED <<account, kind, rows, remote, sent, disturbed>>
      /\ work[Fetch].call = "open" /\ work[Fetch].step = "download"
  BY CountersMove DEF Download, Typed, Answers
<1>2. work[Fetch].to \in Providers /\ work[Fetch].todo \in Seq(File) /\ 1 \in DOMAIN work[Fetch].todo
  BY <1>1, Numbers, FirstFile DEF Typed, WorkTyped, Proper, Filed
<1>3. files \in Seq(File)
  BY <1>2 DEF Typed, RemoteTyped
<1>4. CASE work' = [work EXCEPT ![Fetch] = Idle] /\ UNCHANGED archive
  BY <1>1, <1>4, Numbers, IdleGoesOn DEF Typed, SnapshotsTyped
<1>5. ASSUME NEW k \in DOMAIN files, files[k].name = i, archive' = [archive EXCEPT ![i] = "part"],
             work' = [work EXCEPT ![Fetch].step = "receiving", ![Fetch].todo[1] = files[k]]
      PROVE  SnapshotsTyped' /\ \E w : GoesOn(Fetch, w)
  <2> DEFINE todo == [work[Fetch].todo EXCEPT ![1] = files[k]]
             w == [work[Fetch] EXCEPT !.step = "receiving", !.todo = todo]
  <2>1. files[k] \in File
    BY <1>3
  <2>2. todo \in Seq(File) /\ todo # <<>>
    BY <1>2, <2>1
  <2>3. \A n, m : Bears(todo, n, m) => Bears(work[Fetch].todo, n, m) \/ Bears(files, n, m)
    BY <1>2, BearsFirst DEF Bears
  <2>4. work' = [work EXCEPT ![Fetch] = w]
    BY <1>5
  <2> HIDE DEF todo
  <2>5. /\ w \in WorkRecord /\ w.step = "receiving" /\ w.todo = todo
        /\ w.call = work[Fetch].call /\ w.to = work[Fetch].to
    BY <2>2, Numbers DEF Typed, WorkTyped, Proper, WorkRecord, Steps
  <2> HIDE DEF w
  <2>6. Proper(w)
    BY <1>2, <2>2, <2>5 DEF Proper
  <2>7. Sourced(w)
    <3>1. \A n, m : Bears(w.todo, n, m) => Bears(work[Fetch].todo, n, m) \/ Bears(files, n, m)
      BY <2>3, <2>5
    <3> HIDE DEF files
    <3>2. \A n, m : Bears(files, n, m) => AtPlace(n, m)
      BY <1>2 DEF AtPlace, files
    <3> QED BY <3>1, <3>2, Numbers DEF Sourced, Here, Listed
  <2>8. GoesOn(Fetch, w)
    BY <1>1, <2>4, <2>5, <2>6, <2>7 DEF GoesOn, Replaces, SameCall, SamePrune, SameTask
  <2>9. SnapshotsTyped'
    BY <1>1, <1>5 DEF Typed, SnapshotsTyped, Sizes
  <2> QED BY <2>8, <2>9
<1>6. \/ work' = [work EXCEPT ![Fetch] = Idle] /\ UNCHANGED archive
      \/ \E k \in DOMAIN files :
            /\ files[k].name = i /\ archive' = [archive EXCEPT ![i] = "part"]
            /\ work' = [work EXCEPT ![Fetch].step = "receiving", ![Fetch].todo[1] = files[k]]
  BY DEF Download
<1> HIDE DEF files, i
<1> QED BY <1>1, <1>4, <1>5, <1>6

\* A snapshot that is fetched keeps its kind as long as it is listed.
LEMMA ReceivedDoes ==
    ASSUME Typed, Received
    PROVE  /\ Counted' /\ SnapshotsTyped' /\ UNCHANGED <<account, remote, sent, disturbed>>
           /\ GoesOn(Fetch, Idle)
           /\ \E i \in Ids : /\ rows' = rows \cup {i}
                             /\ kind' = IF i \in rows THEN kind ELSE [kind EXCEPT ![i] = "auto"]
<1> DEFINE file == work[Fetch].todo[1]
<1>1. /\ Counted' /\ UNCHANGED <<account, remote, sent, disturbed>> /\ work' = [work EXCEPT ![Fetch] = Idle]
      /\ archive' = [archive EXCEPT ![file.name] = file.size] /\ work[Fetch].step = "receiving"
      /\ rows' = rows \cup {file.name}
      /\ kind' = IF file.name \in rows THEN kind ELSE [kind EXCEPT ![file.name] = "auto"]
  BY CountersMove DEF Received, Typed
<1>2. file \in File
  BY <1>1, Numbers, FirstFile DEF Typed, Filed
<1>3. file.name \in Ids /\ file.size \in Sizes
  BY <1>2 DEF File
<1> HIDE DEF file
<1>4. SnapshotsTyped'
  BY <1>1, <1>3 DEF Typed, SnapshotsTyped
<1>5. GoesOn(Fetch, Idle)
  BY <1>1, Numbers, IdleGoesOn
<1> QED BY <1>1, <1>3, <1>4, <1>5

\* Retention takes no manual snapshot, and the new one is listed with its kind.
LEMMA TakeSnapshotDoes ==
    ASSUME Typed, NEW i \in Ids, NEW k \in {"auto", "manual"}, TakeSnapshot(i, k)
    PROVE  /\ Counted' /\ SnapshotsTyped' /\ UNCHANGED <<account, remote, sent, disturbed>>
           /\ kind[i] = "none" /\ kind' = [kind EXCEPT ![i] = k] /\ rows' \subseteq rows \cup {i}
           /\ \A j \in rows : kind[j] = "manual" => j \in rows'
           /\ k = "manual" => i \in rows'
           /\ \E w : /\ work' = [work EXCEPT ![i] = w] /\ Proper(w) /\ w.call = "none" /\ w.step = "upload"
                     /\ \A n, m : Bears(w.todo, n, m) => n = i /\ m = 0
<1> DEFINE all  == IF k = "auto" THEN Autos \cup {i} ELSE Autos
           gone == all \ Newest(all, Keep)
           f == FileOf(i, "whole")
           w == At("upload", <<f>>)
<1>1. /\ Counted' /\ UNCHANGED <<account, remote, sent, disturbed>>
      /\ kind[i] = "none" /\ kind' = [kind EXCEPT ![i] = k]
      /\ rows' = (rows \cup {i}) \ gone /\ work' = [work EXCEPT ![i] = w]
      /\ archive' = [j \in Ids |-> IF j = i THEN "whole" ELSE IF j \in gone THEN "none" ELSE archive[j]]
  BY CountersMove DEF TakeSnapshot, Typed
<1>2. gone \subseteq all /\ all \subseteq Autos \cup {i} /\ (k = "manual" => i \notin all)
  BY <1>1 DEF Autos
<1>3. \A j \in rows : kind[j] = "manual" => j \notin Autos /\ j # i
  BY <1>1 DEF Autos
<1> HIDE DEF gone, all
<1>4. SnapshotsTyped'
  BY <1>1 DEF Typed, SnapshotsTyped, Sizes
<1>5. f \in File /\ f.name = i /\ f.id = 0
  BY FileOfIsFile DEF Sizes, FileOf
<1> HIDE DEF f
<1>6. <<f>> \in Seq(File) /\ <<f>> # <<>> /\ "upload" \in Steps
  BY <1>5 DEF Steps
<1>7. Proper(w)
  BY <1>6, AtProper
<1>8. w.todo = <<f>> /\ w.call = "none" /\ w.step = "upload"
  BY DEF At, Idle
<1>9. \A n, m : Bears(w.todo, n, m) => n = i /\ m = 0
  BY <1>5, <1>8, BearsOne
<1> HIDE DEF w
<1>10. /\ rows' \subseteq rows \cup {i} /\ (k = "manual" => i \in rows')
       /\ \A j \in rows : kind[j] = "manual" => j \in rows'
  BY <1>1, <1>2, <1>3
<1> QED BY <1>1, <1>4, <1>7, <1>8, <1>9, <1>10

LEMMA StartDoes ==
    ASSUME Typed, StartPush \/ \E p \in Providers : StartRestore(p)
    PROVE  /\ Counted' /\ UNCHANGED <<account, copies, disturbed>>
           /\ \E c \in Callers : \E w : GoesOn(c, w)
<1>1. CASE StartPush
  <2>1. work' = [work EXCEPT ![Push] = At("list", <<>>)] /\ Free /\ UNCHANGED <<account, copies, disturbed>>
    BY <1>1 DEF StartPush, Begin
  <2>2. GoesOn(Push, At("list", <<>>))
    BY <2>1, Goroutines, Numbers, ListGoesOn
  <2> QED BY <2>1, <2>2, Numbers, CountersMove DEF Typed
<1>2. ASSUME NEW p \in Providers, StartRestore(p)
      PROVE  /\ Counted' /\ UNCHANGED <<account, copies, disturbed>>
             /\ \E c \in Callers : \E w : GoesOn(c, w)
  <2>1. PICK k \in DOMAIN remote[p] : work' = [work EXCEPT ![Fetch] = At("download", <<remote[p][k]>>)]
    BY <1>2 DEF StartRestore, Begin
  <2>2. Op /\ UNCHANGED <<account, copies, disturbed>>
    BY <1>2 DEF StartRestore, Begin
  <2> DEFINE f == remote[p][k]
             w == At("download", <<f>>)
  <2>3. f \in File /\ AtPlace(f.name, f.id)
    BY DEF Typed, RemoteTyped, AtPlace, Bears
  <2> HIDE DEF f
  <2>4. <<f>> \in Seq(File) /\ <<f>> # <<>> /\ Backed(<<f>>) /\ "download" \in Steps
    BY <2>3 DEF Backed, Here, Steps
  <2>5. Proper(w) /\ Sourced(w) /\ w.step = "download" /\ w.call = "none"
    BY <2>4, AtFits
  <2>6. work' = [work EXCEPT ![Fetch] = w]
    BY <2>1 DEF f
  <2> HIDE DEF w
  <2>7. GoesOn(Fetch, w)
    BY <2>5, <2>6, Goroutines DEF GoesOn, Replaces, SameCall, SamePrune, SameTask
  <2> QED BY <2>2, <2>7, Numbers, CountersMove DEF Typed
<1> QED BY <1>1, <1>2

LEMMA StartDeleteDoes ==
    ASSUME Typed, NEW p \in Providers, StartDelete(p)
    PROVE  /\ Counted' /\ UNCHANGED <<account, copies>> /\ disturbed' = TRUE
           /\ \E w : Replaces(Clean, w) /\ SameCall(Clean, w) /\ SamePrune(Clean, w)
<1>1. Counted' /\ UNCHANGED <<account, copies>> /\ disturbed' = TRUE
  BY CountersMove DEF StartDelete, Begin, Typed
<1>2. CASE work' = [work EXCEPT ![Clean] = At("list", <<>>)] /\ work[Clean] = Idle
  <2> DEFINE w == At("list", <<>>)
  <2>1. w.todo = <<>> /\ w.step = "list" /\ w.call = "none"
    BY DEF At, Idle
  <2>2. <<>> \in Seq(File) /\ "list" \in Steps /\ "list" \notin Filed
    BY DEF Steps, Filed
  <2>3. Proper(w)
    BY <2>2, AtProper
  <2>4. \A i, n : ~Bears(w.todo, i, n)
    BY <2>1, BearsNone
  <2>5. work' = [work EXCEPT ![Clean] = w]
    BY <1>2
  <2> HIDE DEF w
  <2> QED BY <1>1, <2>1, <2>3, <2>4, <2>5 DEF Replaces, Sourced, SameCall, SamePrune
<1>3. ASSUME NEW k \in DOMAIN remote[p], work' = [work EXCEPT ![Clean] = At("delete", <<remote[p][k]>>)]
      PROVE  \E w : Replaces(Clean, w) /\ SameCall(Clean, w) /\ SamePrune(Clean, w)
  <2> DEFINE f == remote[p][k]
             w == At("delete", <<f>>)
  <2>1. f \in File /\ AtPlace(f.name, f.id)
    BY DEF Typed, RemoteTyped, AtPlace, Bears
  <2>2. work' = [work EXCEPT ![Clean] = w]
    BY <1>3
  <2> HIDE DEF f
  <2>3. <<f>> \in Seq(File) /\ <<f>> # <<>> /\ Backed(<<f>>) /\ "delete" \in Steps
    BY <2>1 DEF Backed, Here, Steps
  <2>4. Proper(w) /\ Sourced(w) /\ w.step = "delete" /\ w.call = "none"
    BY <2>3, AtFits
  <2> HIDE DEF w
  <2> QED BY <2>2, <2>4 DEF Replaces, SameCall, SamePrune
<1> QED BY <1>1, <1>2, <1>3 DEF StartDelete, Begin

LEMMA ExitDoes ==
    ASSUME Typed, Exit
    PROVE  /\ Counted' /\ RowTyped' /\ SignInsTyped' /\ UNCHANGED <<config, copies, disturbed>>
           /\ work' = [c \in Callers |-> Idle] /\ refresh' = [c \in Callers |-> NoRow]
<1>1. 0 \in 0..MaxFlows /\ \A n \in Flows : n # 0
  BY Numbers DEF Flows
<1>2. Counted' /\ UNCHANGED <<config, copies, disturbed>> /\ refresh' = [c \in Callers |-> NoRow]
      /\ work' = [c \in Callers |-> Idle]
  BY CountersMove DEF Exit, Typed, copies
<1>3. RowTyped'
  BY <1>2 DEF RowTyped, Typed
<1>4. SignInsTyped'
  BY <1>1 DEF Exit, SignInsTyped, Typed, Begun
<1> QED BY <1>2, <1>3, <1>4

LEMMA PutsTyped ==
    ASSUME Typed, NEW c \in Callers, Puts(c) \/ Drops(c)
    PROVE  RemoteTyped'
<1>1. CASE Puts(c)
  BY <1>1, PutTyped DEF Puts, Typed, RemoteTyped
<1>2. CASE Drops(c)
  BY <1>2, DropTyped DEF Drops, Typed, RemoteTyped
<1> QED BY <1>1, <1>2

LEMMA ProceedTyped ==
    ASSUME Typed, NEW c \in Callers, Proceed(c)
    PROVE  Typed'
<1> USE DEF Typed
<1>1. ASSUME NEW d \in Callers, NEW w, GoesOn(d, w) \/ Trims(d, w) \/ \E to : Connects(d, w, to)
      PROVE  WorkTyped'
  BY <1>1, WorkGoesOn DEF GoesOn, Trims, Connects, Replaces
<1>2. UNCHANGED signing => SignInsTyped' = SignInsTyped
  BY DEF signing, SignInsTyped, Begun
<1>3. UNCHANGED account => UNCHANGED signing /\ RowTyped' = RowTyped
  BY DEF account, signing, RowTyped
<1>4. UNCHANGED copies => SnapshotsTyped' = SnapshotsTyped /\ RemoteTyped' = RemoteTyped
  BY DEF copies, SnapshotsTyped, RemoteTyped
<1>5. UNCHANGED <<kind, rows, archive>> => SnapshotsTyped' = SnapshotsTyped
  BY DEF SnapshotsTyped
<1>6. UNCHANGED <<remote, sent>> => RemoteTyped' = RemoteTyped
  BY DEF RemoteTyped
<1>7. UNCHANGED disturbed \/ Destination => disturbed' \in BOOLEAN
  BY DEF Destination
<1>8. CASE Open(c)
  <2>1. WorkTyped'
    <3>1. UNCHANGED work => WorkTyped'
      BY DEF WorkTyped
    <3> QED BY <1>1, <1>8, <3>1, OpenDoes
  <2> QED BY <1>2, <1>4, <1>7, <1>8, <2>1, OpenDoes
<1>9. CASE EndRefresh(c)
  <2>1. WorkTyped'
    BY <1>1, <1>9, EndRefreshDoes
  <2> QED BY <1>2, <1>4, <1>7, <1>9, <2>1, EndRefreshDoes
<1>10. CASE NotConfigured(c) \/ NoToken(c)
  <2>1. WorkTyped'
    BY <1>1, <1>10, NoCallDoes
  <2> QED BY <1>2, <1>4, <1>7, <1>10, <2>1, NoCallDoes
<1>11. CASE CallFails(c)
  <2>1. WorkTyped'
    BY <1>1, <1>11, CallFailsDoes
  <2> QED BY <1>2, <1>3, <1>6, <1>7, <1>11, <2>1, CallFailsDoes
<1>12. CASE BeginUpload(c) \/ EndUpload(c)
  <2>1. WorkTyped'
    BY <1>1, <1>12, BeginUploadDoes, EndUploadDoes
  <2>2. RemoteTyped'
    BY <1>12, PutsTyped, BeginUploadDoes, EndUploadDoes
  <2> QED BY <1>2, <1>3, <1>5, <1>7, <1>12, <2>1, <2>2, BeginUploadDoes, EndUploadDoes
<1>13. CASE PruneList(c)
  <2>1. WorkTyped'
    BY <1>1, <1>13, PruneListDoes
  <2> QED BY <1>2, <1>3, <1>4, <1>7, <1>13, <2>1, PruneListDoes
<1>14. CASE PruneDelete(c) \/ (c = Clean /\ Delete)
  <2>1. WorkTyped'
    BY <1>1, <1>14, DeleteDoes
  <2>2. RemoteTyped'
    BY <1>14, PutsTyped, DeleteDoes
  <2> QED BY <1>2, <1>3, <1>5, <1>7, <1>14, <2>1, <2>2, DeleteDoes
<1>15. CASE PushList
  <2>1. WorkTyped'
    BY <1>1, <1>15, PushListDoes, Numbers
  <2> QED BY <1>2, <1>3, <1>4, <1>7, <1>15, <2>1, PushListDoes
<1>16. CASE CleanList
  <2>1. WorkTyped'
    BY <1>1, <1>16, CleanListDoes, Numbers
  <2> QED BY <1>2, <1>3, <1>4, <1>7, <1>16, <2>1, CleanListDoes
<1>17. CASE Download
  <2>1. WorkTyped'
    BY <1>1, <1>17, DownloadDoes, Numbers
  <2> QED BY <1>2, <1>3, <1>6, <1>7, <1>17, <2>1, DownloadDoes
<1>18. CASE Received
  <2>1. WorkTyped'
    BY <1>1, <1>18, ReceivedDoes, Numbers
  <2> QED BY <1>2, <1>3, <1>6, <1>7, <1>18, <2>1, ReceivedDoes
<1> QED BY <1>8, <1>9, <1>10, <1>11, <1>12, <1>13, <1>14, <1>15, <1>16, <1>17, <1>18 DEF Proceed

\* What a goroutine, the row and a destination are made of at each step.
THEOREM MirrorTypeCorrect == Spec => []Typed
<1>1. Init => Typed
  <2> SUFFICES ASSUME Init PROVE Typed
    OBVIOUS
  <2>1. 0 \in 0..MaxFlows /\ 1 \in 0..MaxFlows /\ 0 \in 0..MaxOps /\ 0 \in 0..MaxFaults
        /\ \A n \in Flows : n # 0
    BY Numbers DEF Flows
  <2>2. PICK p \in Providers, on \in BOOLEAN :
           /\ config = [enabled |-> on, provider |-> p, fresh |-> FALSE, session |-> IF p \in SignIn THEN 1 ELSE 0]
           /\ flow = [n \in Flows |-> IF n = 1 /\ p \in SignIn
                                      THEN [provider |-> p, state |-> "spent"] ELSE NoFlow]
           /\ live = IF p \in SignIn THEN {1} ELSE {}
    BY DEF Init, AccountInit
  <2>3. RowTyped
    BY <2>1, <2>2 DEF Init, AccountInit, RowTyped, Row
  <2>4. SignInsTyped
    <3>1. p \in SignIn => 1 \in Flows
      BY Numbers DEF Flows
    <3>2. live \subseteq Flows
      BY <2>2, <3>1
    <3>3. flow \in [Flows -> [provider : SignIn \cup {""}, state : FlowStates]]
      BY <2>2 DEF NoFlow, FlowStates
    <3>4. \A n \in Flows : flow[n].state # "none" => Begun(n)
      BY <2>2 DEF NoFlow, Begun
    <3> QED BY <2>1, <3>2, <3>3, <3>4 DEF Init, AccountInit, SignInsTyped
  <2>5. Counted
    BY <2>1 DEF Init, AccountInit, Counted
  <2>6. SnapshotsTyped /\ RemoteTyped
    <3>1. <<>> \in Seq(File)
      OBVIOUS
    <3> QED BY <3>1 DEF Init, SnapshotsTyped, RemoteTyped
  <2>7. WorkTyped
    BY IdleProper DEF Init, WorkTyped
  <2> QED BY <2>3, <2>4, <2>5, <2>6, <2>7 DEF Init, Typed
<1>2. Typed /\ [Next]_vars => Typed'
  <2> SUFFICES ASSUME Typed, [Next]_vars PROVE Typed'
    OBVIOUS
  <2> USE DEF Typed
  <2>1. CASE AccountStep
    <3>1. RowTyped' /\ SignInsTyped' /\ Counted'
      BY <2>1, SigningInTyped, ChangingRowTyped DEF AccountStep
    <3> QED BY <2>1, <3>1 DEF AccountStep, Destination, copies, SnapshotsTyped, RemoteTyped, WorkTyped
  <2>2. ASSUME NEW i \in Ids, NEW k \in {"auto", "manual"}, TakeSnapshot(i, k)
        PROVE  Typed'
    <3>1. WorkTyped'
      BY <2>2, TakeSnapshotDoes, WorkGoesOn, Numbers
    <3> QED BY <2>2, <3>1, TakeSnapshotDoes DEF account, signing, RowTyped, SignInsTyped, Begun, RemoteTyped
  <2>3. CASE StartPush \/ \E p \in Providers : StartRestore(p)
    <3>1. WorkTyped'
      BY <2>3, StartDoes, WorkGoesOn DEF GoesOn, Replaces
    <3> QED BY <2>3, <3>1, StartDoes DEF account, signing, copies, RowTyped, SignInsTyped, Begun, RemoteTyped,
                                         SnapshotsTyped
  <2>4. CASE \E p \in Providers : StartDelete(p)
    <3>1. WorkTyped'
      BY <2>4, StartDeleteDoes, WorkGoesOn, Numbers DEF Replaces
    <3> QED BY <2>4, <3>1, StartDeleteDoes DEF account, signing, copies, RowTyped, SignInsTyped, Begun,
                                               RemoteTyped, SnapshotsTyped
  <2>5. CASE \E c \in Callers : Proceed(c)
    BY <2>5, ProceedTyped
  <2>6. CASE Exit
    <3>1. WorkTyped'
      BY <2>6, ExitDoes, IdleProper DEF WorkTyped
    <3> QED BY <2>6, <3>1, ExitDoes DEF copies, RemoteTyped, SnapshotsTyped
  <2>7. CASE UNCHANGED vars
    BY <2>7 DEF vars, mirror, account, signing, RowTyped, SignInsTyped, Begun, Counted, RemoteTyped,
                SnapshotsTyped, WorkTyped
  <2> QED BY <2>1, <2>2, <2>3, <2>4, <2>5, <2>6, <2>7 DEF Next
<1> QED BY <1>1, <1>2, PTL DEF Spec

-----------------------------------------------------------------------------
(* Names, ids and kinds of the copies                                      *)

\* A file that is anywhere is that of a snapshot that was taken, and an id that was given
\* is the id of one file.
Known(i) == i \in Ids /\ kind[i] # "none"
Names ==
    /\ \A i \in rows : kind[i] # "none"
    /\ \A i, n : Here(i, n) => Known(i) /\ n \in 0..sent
    /\ \A i, j, n : Here(i, n) /\ Here(j, n) /\ n # 0 => i = j
    /\ \A p \in Providers \ Overwrites : \A i, n : Bears(remote[p], i, n) => n # 0

\* Manual snapshots stay listed, and nobody has one on the list of what to trim.
SparesManual(c) ==
    work[c].step = "prune" => \A i, n : Bears(work[c].todo, i, n) => kind[i] # "manual"
Manuals ==
    /\ \A i \in Ids : kind[i] = "manual" => i \in rows
    /\ \A c \in Callers : SparesManual(c)

\* What is new at a destination was on somebody's list, or has an id never given before.
Written(p, i, n) ==
    \/ p \in Overwrites /\ (\E m : Here(i, m)) /\ (n = 0 \/ Here(i, n))
    \/ p \notin Overwrites /\ n = sent + 1 /\ sent' = sent + 1 /\ \E m : Here(i, m)
Grows(name) ==
    /\ sent' \in {sent, sent + 1}
    /\ \A p \in Providers : \A i, n :
          Bears(remote'[p], i, n) => Bears(remote[p], i, n) \/ (Written(p, i, n) /\ (n # 0 => Here(i, n) \/ i = name))

LEMMA PutGrows ==
    ASSUME Typed, NEW p \in Providers, NEW file \in File, Put(p, file),
           NEW m, Here(file.name, m), file.id \in {m, 0}
    PROVE  Grows(file.name)
<1>1. remote \in [Providers -> Seq(File)] /\ sent \in Nat
  BY DEF Typed, RemoteTyped
<1>2. CASE p \in Overwrites
  <2> DEFINE K == {k \in DOMAIN remote[p] : remote[p][k].name # file.name}
             kept == Without(p, file.name)
  <2>1. K \in SUBSET (DOMAIN remote[p]) /\ kept = Picked(remote[p], K)
    BY DEF Without
  <2> HIDE DEF K
  <2>2. kept \in Seq(File)
    BY <1>1, <2>1, PickedFrom
  <2>3. \A i, n : Bears(kept, i, n) => Bears(remote[p], i, n)
    <3>1. \A i, n : Bears(Picked(remote[p], K), i, n) => \E k \in K : remote[p][k].name = i /\ remote[p][k].id = n
      BY <1>1, <2>1, BearsPicked
    <3>2. \A i, n : (\E k \in K : remote[p][k].name = i /\ remote[p][k].id = n) => Bears(remote[p], i, n)
      BY <2>1 DEF Bears
    <3> QED BY <2>1, <3>1, <3>2
  <2>4. remote' = [remote EXCEPT ![p] = Append(kept, file)] /\ sent' = sent
    BY <1>2 DEF Put
  <2> HIDE DEF kept
  <2>5. \A i, n : Bears(Append(kept, file), i, n) => Bears(remote[p], i, n) \/ (i = file.name /\ n = file.id)
    BY <2>2, <2>3, BearsAppend
  <2>6. ASSUME NEW q \in Providers, NEW i, NEW n, Bears(remote'[q], i, n), ~Bears(remote[q], i, n)
        PROVE  Written(q, i, n) /\ (n # 0 => Here(i, n) \/ i = file.name)
    <3>1. q = p
      BY <1>1, <2>4, <2>6
    <3>2. i = file.name /\ n = file.id
      BY <1>1, <2>4, <2>5, <2>6, <3>1
    <3> QED BY <1>2, <3>1, <3>2 DEF Written
  <2> QED BY <2>4, <2>6 DEF Grows
<1>3. CASE p \notin Overwrites
  <2> DEFINE new == [file EXCEPT !.id = sent + 1]
  <2>1. new.name = file.name /\ new.id = sent + 1
    BY DEF File
  <2>2. remote' = [remote EXCEPT ![p] = Append(remote[p], new)] /\ sent' = sent + 1
    BY <1>3 DEF Put
  <2> HIDE DEF new
  <2>3. \A i, n : Bears(Append(remote[p], new), i, n) => Bears(remote[p], i, n) \/ (i = file.name /\ n = sent + 1)
    BY <1>1, <2>1, BearsAppend
  <2>4. ASSUME NEW q \in Providers, NEW i, NEW n, Bears(remote'[q], i, n), ~Bears(remote[q], i, n)
        PROVE  Written(q, i, n) /\ (n # 0 => Here(i, n) \/ i = file.name)
    <3>1. q = p
      BY <1>1, <2>2, <2>4
    <3>2. i = file.name /\ n = sent + 1
      BY <1>1, <2>2, <2>3, <2>4, <3>1
    <3> QED BY <1>3, <2>2, <3>1, <3>2 DEF Written
  <2> QED BY <2>2, <2>4 DEF Grows
<1> QED BY <1>2, <1>3

LEMMA DropKeeps ==
    ASSUME Typed, NEW p \in Providers, NEW file, remote' = Drop(p, file)
    PROVE  /\ \A q \in Providers : \A i, n : Bears(remote'[q], i, n) => Bears(remote[q], i, n)
           /\ \A q \in Providers : \A i, n :
                 Bears(remote[q], i, n) /\ (q = p => IF p \in Overwrites THEN i # file.name ELSE n # file.id)
                     => Bears(remote'[q], i, n)
<1> DEFINE K == {k \in DOMAIN remote[p] : ~Same(p, remote[p][k], file)}
<1>1. remote \in [Providers -> Seq(File)]
  BY DEF Typed, RemoteTyped
<1>2. K \in SUBSET (DOMAIN remote[p])
  OBVIOUS
<1>3. \A k \in DOMAIN remote[p] :
         (IF p \in Overwrites THEN remote[p][k].name # file.name ELSE remote[p][k].id # file.id) => k \in K
  BY DEF Same
<1>4. remote' = [remote EXCEPT ![p] = Picked(remote[p], K)]
  BY DEF Drop
<1> HIDE DEF K
<1>5. \A i, n : Bears(Picked(remote[p], K), i, n) <=> \E k \in K : remote[p][k].name = i /\ remote[p][k].id = n
  BY <1>1, <1>2, BearsPicked
<1>6. \A i, n : Bears(Picked(remote[p], K), i, n) => Bears(remote[p], i, n)
  BY <1>2, <1>5 DEF Bears
<1>7. \A i, n : Bears(remote[p], i, n) /\ (IF p \in Overwrites THEN i # file.name ELSE n # file.id)
                    => Bears(Picked(remote[p], K), i, n)
  <2> SUFFICES ASSUME NEW i, NEW n, Bears(remote[p], i, n),
                      IF p \in Overwrites THEN i # file.name ELSE n # file.id
               PROVE  \E k \in K : remote[p][k].name = i /\ remote[p][k].id = n
    BY <1>5
  <2>1. PICK k \in DOMAIN remote[p] : remote[p][k].name = i /\ remote[p][k].id = n
    BY DEF Bears
  <2> QED BY <1>3, <2>1
<1>8. \A q \in Providers : remote'[q] = IF q = p THEN Picked(remote[p], K) ELSE remote[q]
  BY <1>1, <1>4
<1> QED BY <1>6, <1>7, <1>8

LEMMA PutsGrow ==
    ASSUME Typed, NEW c \in Callers, Puts(c) \/ Drops(c) \/ UNCHANGED <<remote, sent>>
    PROVE  \E name : Grows(name)
<1>1. CASE UNCHANGED <<remote, sent>>
  BY <1>1 DEF Grows
<1>2. CASE Drops(c)
  BY <1>2, DropKeeps DEF Drops, Grows
<1>3. ASSUME NEW p \in Providers, NEW file \in File, Put(p, file),
             NEW m, Here(file.name, m), file.id \in {m, 0}
      PROVE  Grows(file.name)
  BY <1>3, PutGrows
<1> QED BY <1>1, <1>2, <1>3 DEF Puts

\* The lists grow by nothing else.
KindsStay == \A i \in Ids : kind[i] # "none" => kind'[i] = kind[i]
ListsGrow == \A i, n : Listed(i, n)' => Here(i, n) \/ (n = 0 /\ i \in Ids /\ kind'[i] # "none")

LEMMA NamesStay ==
    ASSUME Typed, Names, KindsStay, ListsGrow, \A i \in rows' : kind'[i] # "none", NEW name, Grows(name)
    PROVE  Names'
<1>1. sent \in Nat /\ sent' \in Nat /\ sent <= sent'
  BY DEF Typed, RemoteTyped, Grows
<1>2. \A i : Known(i) => Known(i)'
  BY DEF Known, KindsStay
<1>3. ASSUME NEW i, NEW n, Here(i, n)'
      PROVE  \/ Here(i, n)
             \/ n = 0 /\ Known(i)'
             \/ n = sent + 1 /\ sent' = sent + 1 /\ i = name /\ \E m : Here(i, m)
  <2>1. CASE Listed(i, n)'
    BY <2>1 DEF ListsGrow, Known
  <2>2. ASSUME NEW p \in Providers, Bears(remote'[p], i, n)
        PROVE  \/ Here(i, n)
               \/ n = 0 /\ Known(i)'
               \/ n = sent + 1 /\ sent' = sent + 1 /\ i = name /\ \E m : Here(i, m)
    <3>1. CASE Bears(remote[p], i, n)
      BY <3>1 DEF Here, AtPlace
    <3>2. CASE Written(p, i, n) /\ (n # 0 => Here(i, n) \/ i = name)
      <4>1. \A m : Here(i, m) => Known(i)'
        BY <1>2 DEF Names
      <4> QED BY <1>1, <3>2, <4>1 DEF Written
    <3> QED BY <2>2, <3>1, <3>2 DEF Grows
  <2>3. Listed(i, n)' \/ \E p \in Providers : Bears(remote'[p], i, n)
    BY <1>3 DEF Here, AtPlace, Bears
  <2> QED BY <2>1, <2>2, <2>3
<1>4. ASSUME NEW i, NEW n, Here(i, n)'
      PROVE  Known(i)' /\ n \in 0..sent'
  <2>1. \A m : Here(i, m) => Known(i)' /\ m \in 0..sent'
    BY <1>1, <1>2 DEF Names
  <2> QED BY <1>1, <1>3, <1>4, <2>1
<1>5. ASSUME NEW i, NEW j, NEW n, Here(i, n)', Here(j, n)', n # 0
      PROVE  i = j
  <2>1. ~(Here(i, sent + 1) \/ Here(j, sent + 1))
    <3>1. sent + 1 \notin 0..sent
      BY <1>1
    <3> QED BY <3>1 DEF Names
  <2> QED BY <1>3, <1>5, <2>1 DEF Names
<1>6. ASSUME NEW p \in Providers \ Overwrites, NEW i, NEW n, Bears(remote'[p], i, n)
      PROVE  n # 0
  <2>1. Bears(remote[p], i, n) \/ n = sent + 1
    BY <1>6 DEF Grows, Written
  <2> QED BY <1>1, <2>1 DEF Names
<1>7. \A p \in Providers \ Overwrites : \A i, n : Bears(remote[p], i, n)' => n # 0
  BY <1>6 DEF Bears
<1> QED BY <1>4, <1>5, <1>7 DEF Names

LEMMA WorkLists ==
    ASSUME Typed, Names, KindsStay, NEW c \in Callers, NEW w, Replaces(c, w)
    PROVE  ListsGrow
<1> SUFFICES ASSUME NEW i, NEW n, Listed(i, n)'
             PROVE  Here(i, n) \/ (n = 0 /\ i \in Ids /\ kind'[i] # "none")
  BY DEF ListsGrow
<1>1. DOMAIN work = Callers /\ work' = [work EXCEPT ![c] = w]
  BY DEF Typed, WorkTyped, Replaces
<1>2. PICK d \in Callers : Bears(work'[d].todo, i, n)
  BY DEF Listed, Bears
<1>3. CASE d # c
  BY <1>1, <1>2, <1>3 DEF Here, Listed
<1>4. CASE d = c
  <2>1. Bears(w.todo, i, n)
    BY <1>1, <1>2, <1>4
  <2>2. Here(i, n) \/ (n = 0 /\ (i \in rows \/ \E m : Here(i, m)))
    BY <2>1 DEF Replaces, Sourced
  <2>3. i \in rows \/ (\E m : Here(i, m)) => i \in Ids /\ kind[i] # "none"
    BY DEF Names, Known, Typed, SnapshotsTyped
  <2> QED BY <2>2, <2>3 DEF KindsStay
<1> QED BY <1>3, <1>4

\* One trims what it listed, or goes on with what it was trimming.
LEMMA ManualsStay ==
    ASSUME Typed, Names, Manuals, KindsStay, NEW c \in Callers, NEW w, work' = [work EXCEPT ![c] = w],
           \A i \in Ids : kind'[i] = "manual" => i \in rows',
           w.step = "prune" => \A i, n : Bears(w.todo, i, n) => Known(i) /\ kind[i] # "manual"
    PROVE  Manuals'
<1> SUFFICES ASSUME NEW d \in Callers, work'[d].step = "prune", NEW i, NEW n, Bears(work'[d].todo, i, n)
             PROVE  kind'[i] # "manual"
  BY DEF Manuals, SparesManual, Bears
<1>1. work'[d] = IF d = c THEN w ELSE work[d]
  BY DEF Typed, WorkTyped
<1>2. CASE d = c
  BY <1>1, <1>2 DEF Known, KindsStay
<1>3. CASE d # c
  <2>1. Bears(work[d].todo, i, n) /\ work[d].step = "prune"
    BY <1>1, <1>3
  <2>2. Known(i)
    BY <2>1 DEF Names, Here, Listed
  <2>3. kind[i] # "manual"
    BY <2>1 DEF Manuals, SparesManual
  <2> QED BY <2>2, <2>3 DEF Known, KindsStay
<1> QED BY <1>2, <1>3

LEMMA PrunesOn ==
    ASSUME Names, Manuals, NEW c \in Callers, NEW w, SamePrune(c, w)
    PROVE  w.step = "prune" => \A i, n : Bears(w.todo, i, n) => Known(i) /\ kind[i] # "manual"
  BY DEF Names, Here, Listed, Manuals, SparesManual, SamePrune

LEMMA TrimsSpare ==
    ASSUME Typed, Names, Manuals, NEW c \in Callers, NEW w, Trims(c, w), work[c].to \in Providers
    PROVE  \A i, n : Bears(w.todo, i, n) => Known(i) /\ kind[i] # "manual"
<1> SUFFICES ASSUME NEW i, NEW n, Bears(w.todo, i, n)
             PROVE  Known(i) /\ kind[i] # "manual"
  OBVIOUS
<1>1. Spends(i) /\ Bears(remote[work[c].to], i, n)
  BY DoomedFiles DEF Trims, Typed
<1>2. Known(i)
  BY <1>1 DEF Names, Here, AtPlace
<1> QED BY <1>1, <1>2 DEF Known, Manuals, Spends

\* Every step of a goroutine.
LEMMA ProceedCopies ==
    ASSUME Typed, Names, Manuals, NEW c \in Callers, Proceed(c)
    PROVE  Names' /\ Manuals'
<1>1. ASSUME UNCHANGED <<kind, rows>>,
             NEW d \in Callers, Puts(d) \/ Drops(d) \/ UNCHANGED <<remote, sent>>,
             NEW e \in Callers, NEW w,
             \/ GoesOn(e, w)
             \/ Trims(e, w) /\ work[e].to \in Providers
             \/ \E to : Connects(e, w, to)
      PROVE  Names' /\ Manuals'
  <2>1. KindsStay /\ \A i \in rows' : kind'[i] # "none"
    BY <1>1 DEF KindsStay, Names
  <2>2. Replaces(e, w)
    BY <1>1 DEF GoesOn, Trims, Connects
  <2>3. w.step = "prune" => \A i, n : Bears(w.todo, i, n) => Known(i) /\ kind[i] # "manual"
    <3>1. CASE Trims(e, w) /\ work[e].to \in Providers
      BY <3>1, TrimsSpare
    <3>2. CASE SamePrune(e, w)
      BY <3>2, PrunesOn
    <3> QED BY <1>1, <3>1, <3>2 DEF GoesOn, Connects
  <2>4. ListsGrow
    BY <2>1, <2>2, WorkLists
  <2>5. \E name : Grows(name)
    BY <1>1, PutsGrow
  <2>6. Names'
    BY <2>1, <2>4, <2>5, NamesStay
  <2>7. \A i \in Ids : kind'[i] = "manual" => i \in rows'
    BY <1>1 DEF Manuals
  <2>8. Manuals'
    BY <2>1, <2>2, <2>3, <2>7, ManualsStay DEF Replaces
  <2> QED BY <2>6, <2>8
<1>2. CASE UNCHANGED <<copies, work>>
  BY <1>2 DEF copies, Names, Manuals, SparesManual, Here, AtPlace, Listed, Known, Bears
<1>3. UNCHANGED copies => UNCHANGED <<kind, rows>> /\ UNCHANGED <<remote, sent>>
  BY DEF copies
<1>4. CASE Open(c)
  BY <1>1, <1>2, <1>3, <1>4, OpenDoes
<1>5. CASE EndRefresh(c)
  BY <1>1, <1>3, <1>5, EndRefreshDoes
<1>6. CASE NotConfigured(c) \/ NoToken(c)
  BY <1>1, <1>3, <1>6, NoCallDoes
<1>7. CASE CallFails(c)
  BY <1>1, <1>7, CallFailsDoes
<1>8. CASE BeginUpload(c)
  BY <1>1, <1>8, BeginUploadDoes
<1>9. CASE EndUpload(c)
  BY <1>1, <1>9, EndUploadDoes
<1>10. CASE PruneList(c)
  <2>1. work[c].to \in Providers
    BY <1>10, PruneListDoes DEF Typed, WorkTyped, Proper
  <2> QED BY <1>1, <1>3, <1>10, <2>1, PruneListDoes
<1>11. CASE PruneDelete(c) \/ (c = Clean /\ Delete)
  BY <1>1, <1>11, DeleteDoes
<1>12. CASE PushList
  BY <1>1, <1>3, <1>12, PushListDoes, Numbers
<1>13. CASE CleanList
  BY <1>1, <1>3, <1>13, CleanListDoes, Numbers
<1>14. CASE Download
  BY <1>1, <1>14, DownloadDoes, Numbers
<1>15. CASE Received
  <2>1. PICK i \in Ids : rows' = rows \cup {i} /\ kind' = IF i \in rows THEN kind ELSE [kind EXCEPT ![i] = "auto"]
    BY <1>15, ReceivedDoes
  <2>2. kind \in [Ids -> {"none", "auto", "manual"}] /\ rows \subseteq Ids
    BY DEF Typed, SnapshotsTyped
  <2>3. KindsStay
    BY <2>1, <2>2 DEF KindsStay, Manuals
  <2>4. /\ \A j \in rows' : kind'[j] # "none"
        /\ \A j \in Ids : kind'[j] = "manual" => j \in rows'
    BY <2>1, <2>2 DEF Names, Manuals
  <2>5. GoesOn(Fetch, Idle) /\ UNCHANGED <<remote, sent>>
    BY <1>15, ReceivedDoes
  <2>6. ListsGrow
    BY <2>3, <2>5, Numbers, WorkLists DEF GoesOn
  <2>7. \E name : Grows(name)
    BY <2>5, PutsGrow
  <2>8. Names'
    BY <2>3, <2>4, <2>6, <2>7, NamesStay
  <2>9. Manuals'
    BY <2>3, <2>4, <2>5, Numbers, ManualsStay, PrunesOn DEF GoesOn, Replaces
  <2> QED BY <2>8, <2>9
<1> QED BY <1>4, <1>5, <1>6, <1>7, <1>8, <1>9, <1>10, <1>11, <1>12, <1>13, <1>14, <1>15 DEF Proceed

THEOREM NamesAndManuals == Spec => [](Names /\ Manuals)
<1>1. Init => Names /\ Manuals
  <2> SUFFICES ASSUME Init PROVE Names /\ Manuals
    OBVIOUS
  <2>1. \A i, n : ~Here(i, n)
    <3>1. \A p \in Providers : remote[p] = <<>>
      BY DEF Init
    <3>2. \A c \in Callers : work[c].todo = <<>>
      BY DEF Init, Idle
    <3> QED BY <3>1, <3>2, BearsNone DEF Here, AtPlace, Listed
  <2>2. Names
    BY <2>1 DEF Init, Names, Here, AtPlace
  <2>3. Manuals
    BY DEF Init, Manuals, SparesManual, Idle
  <2> QED BY <2>2, <2>3
<1>2. Typed /\ Names /\ Manuals /\ [Next]_vars => (Names /\ Manuals)'
  <2> SUFFICES ASSUME Typed, Names, Manuals, [Next]_vars PROVE Names' /\ Manuals'
    OBVIOUS
  <2>1. CASE UNCHANGED <<copies, work>>
    BY <2>1 DEF copies, Names, Manuals, SparesManual, Here, AtPlace, Listed, Known, Bears
  <2>2. AccountStep \/ UNCHANGED vars => UNCHANGED <<copies, work>>
    BY DEF AccountStep, vars, mirror, copies
  <2>3. ASSUME NEW c \in Callers, NEW w, Replaces(c, w), SamePrune(c, w), UNCHANGED copies
        PROVE  Names' /\ Manuals'
    <3>1. KindsStay /\ UNCHANGED <<remote, sent>> /\ (\A i \in rows' : kind'[i] # "none")
          /\ \A i \in Ids : kind'[i] = "manual" => i \in rows'
      BY <2>3 DEF KindsStay, copies, Names, Manuals
    <3>2. ListsGrow /\ \E name : Grows(name)
      BY <2>3, <3>1, WorkLists, PutsGrow
    <3>3. Names'
      BY <3>1, <3>2, NamesStay
    <3>4. Manuals'
      BY <2>3, <3>1, PrunesOn, ManualsStay DEF Replaces
    <3> QED BY <3>3, <3>4
  <2>4. CASE StartPush \/ \E p \in Providers : StartRestore(p)
    BY <2>3, <2>4, StartDoes DEF GoesOn
  <2>5. CASE \E p \in Providers : StartDelete(p)
    BY <2>3, <2>5, StartDeleteDoes, Numbers
  <2>6. ASSUME NEW i \in Ids, NEW k \in {"auto", "manual"}, TakeSnapshot(i, k)
        PROVE  Names' /\ Manuals'
    <3>1. PICK w : /\ work' = [work EXCEPT ![i] = w] /\ w.step = "upload"
                   /\ \A n, m : Bears(w.todo, n, m) => n = i /\ m = 0
      BY <2>6, TakeSnapshotDoes
    <3>2. /\ kind[i] = "none" /\ kind' = [kind EXCEPT ![i] = k] /\ rows' \subseteq rows \cup {i}
          /\ \A j \in rows : kind[j] = "manual" => j \in rows'
          /\ k = "manual" => i \in rows'
          /\ UNCHANGED <<remote, sent>>
      BY <2>6, TakeSnapshotDoes
    <3>3. kind \in [Ids -> {"none", "auto", "manual"}] /\ rows \subseteq Ids /\ DOMAIN work = Callers /\ i \in Callers
      BY Numbers DEF Typed, SnapshotsTyped, WorkTyped
    <3>4. \A j \in Ids : kind'[j] = IF j = i THEN k ELSE kind[j]
      BY <3>2, <3>3
    <3>5. KindsStay /\ \A j \in rows' : kind'[j] # "none"
      BY <3>2, <3>3, <3>4 DEF KindsStay, Names
    <3>6. \A j \in Ids : kind'[j] = "manual" => j \in rows'
      BY <3>2, <3>4 DEF Manuals
    <3>7. ListsGrow
      <4> SUFFICES ASSUME NEW d \in Callers, NEW j, NEW n, Bears(work'[d].todo, j, n)
                   PROVE  Here(j, n) \/ (n = 0 /\ j \in Ids /\ kind'[j] # "none")
        BY DEF ListsGrow, Listed, Bears
      <4>1. CASE d = i
        <5>1. j = i /\ n = 0
          BY <3>1, <3>3, <4>1
        <5> QED BY <3>4, <5>1
      <4>2. CASE d # i
        BY <3>1, <3>3, <4>2 DEF Here, Listed
      <4> QED BY <4>1, <4>2
    <3>8. \E name : Grows(name)
      BY <3>2, <3>3, PutsGrow
    <3>9. Names'
      BY <3>5, <3>7, <3>8, NamesStay
    <3>10. Manuals'
      BY <3>1, <3>3, <3>5, <3>6, ManualsStay
    <3> QED BY <3>9, <3>10
  <2>7. CASE \E c \in Callers : Proceed(c)
    BY <2>7, ProceedCopies
  <2>8. CASE Exit
    <3>1. UNCHANGED copies /\ work' = [c \in Callers |-> Idle]
      BY <2>8, ExitDoes
    <3>2. \A c \in Callers : work'[c].todo = <<>> /\ work'[c].step = "idle"
      BY <3>1 DEF Idle
    <3>3. \A i, n : ~Listed(i, n)'
      BY <3>2 DEF Listed, Bears
    <3>4. ListsGrow /\ KindsStay /\ UNCHANGED <<remote, sent>> /\ \A i \in rows' : kind'[i] # "none"
      BY <3>1, <3>3 DEF ListsGrow, KindsStay, copies, Names
    <3>5. \E name : Grows(name)
      BY <3>4 DEF Grows
    <3>6. Names'
      BY <3>4, <3>5, NamesStay
    <3>7. Manuals'
      BY <3>1, <3>2 DEF Manuals, SparesManual, copies
    <3> QED BY <3>6, <3>7
  <2> QED BY <2>1, <2>2, <2>4, <2>5, <2>6, <2>7, <2>8 DEF Next
<1> QED BY <1>1, <1>2, MirrorTypeCorrect, PTL DEF Spec

\* Trimming spends the automatic snapshots' copies only (runCloudUpload: "not the automatic
\* budget's to spend"): no step of any goroutine's trimming removes the copy of a manual
\* snapshot, from whatever listing it works and whatever the user does meanwhile.
THEOREM ManualCopiesStayThere == Spec => ManualCopiesStay
<1> DEFINE Stays == \A c \in Ids : PruneDelete(c) =>
                       \A p \in Providers, i \in rows :
                          kind[i] = "manual" /\ Named(remote[p], i) => Named(remote'[p], i)
<1>1. Typed /\ Names /\ Manuals => Stays
  <2> SUFFICES ASSUME Typed, Names, Manuals, NEW c \in Ids, PruneDelete(c),
                      NEW p \in Providers, NEW i \in rows, kind[i] = "manual", Named(remote[p], i)
               PROVE  Named(remote'[p], i)
    OBVIOUS
  <2> DEFINE file == work[c].todo[1]
  <2>1. c \in Callers /\ work[c].step = "prune"
    BY Numbers DEF PruneDelete
  <2>2. work[c].to \in Providers /\ remote' = Drop(work[c].to, file) /\ Bears(work[c].todo, file.name, file.id)
    BY <2>1, DeleteDoes DEF Drops, Bears
  <2> HIDE DEF file
  <2>3. kind[file.name] # "manual" /\ Here(file.name, file.id)
    BY <2>1, <2>2 DEF Manuals, SparesManual, Here, Listed
  <2>4. PICK k \in DOMAIN remote[p] : remote[p][k].name = i
    BY DEF Named
  <2> DEFINE n == remote[p][k].id
  <2>5. Bears(remote[p], i, n)
    BY <2>4 DEF Bears
  <2> HIDE DEF n
  <2>6. i # file.name
    BY <2>3
  <2>7. p \notin Overwrites => n # file.id
    BY <2>3, <2>5, <2>6 DEF Names, Here, AtPlace
  <2>8. Bears(remote'[p], i, n)
    BY <2>2, <2>5, <2>6, <2>7, DropKeeps
  <2> QED BY <2>8 DEF Bears, Named
<1>2. ManualCopiesStay <=> [][Stays]_vars
  BY PTL DEF ManualCopiesStay
<1> HIDE DEF Stays
<1> QED BY <1>1, <1>2, MirrorTypeCorrect, NamesAndManuals, PTL

-----------------------------------------------------------------------------
(* What trimming leaves                                                    *)

\* Where every file is kept, the later in the list the higher the id.
InOrder ==
    \A p \in Providers \ Overwrites : \A k, l \in DOMAIN remote[p] :
        k < l => remote[p][k].id < remote[p][l].id

\* Until the user deletes or switches, every call goes to one destination and nothing but
\* trimming deletes.
OneDestination ==
    ~disturbed => /\ \A c \in Callers : work[c].call = "open" => work[c].to = config.provider
                  /\ work[Clean].step = "idle"

\* The ids of the copies newer than n that trimming may delete.
Later(p, n) == {m \in (n + 1)..sent : \E i : Bears(remote[p], i, m) /\ kind[i] # "manual"}

\* Whatever is on a list of what to trim has Keep newer copies.
Spared(p) ==
    \A c \in Callers : work[c].step = "prune" =>
        \A i, n : Bears(work[c].todo, i, n) => Cardinality(Later(p, n)) >= Keep
TrimsSpareKeep == ~disturbed /\ config.provider \notin Overwrites => Spared(config.provider)

LEMMA LaterIsFinite ==
    ASSUME Typed, NEW p, NEW n \in Nat
    PROVE  IsFiniteSet(Later(p, n)) /\ Cardinality(Later(p, n)) \in Nat
<1>1. sent \in Nat
  BY DEF Typed, RemoteTyped
<1>2. IsFiniteSet((n + 1)..sent)
  BY <1>1, FS_Interval
<1>3. Later(p, n) \in SUBSET ((n + 1)..sent)
  BY DEF Later
<1> QED BY <1>2, <1>3, FS_Subset, FS_CardinalityType

\* What is listed to be trimmed comes before Keep others.
LEMMA DoomedAreOld ==
    ASSUME Typed, Names, Manuals, InOrder, NEW p \in Providers \ Overwrites,
           NEW i, NEW n, Bears(Doomed(p), i, n)
    PROVE  Cardinality(Later(p, n)) >= Keep
<1> DEFINE files == remote[p]
           K == Candidates(files)
           P == Picked(files, K)
<1>1. files \in Seq(File) /\ K \in SUBSET (DOMAIN files) /\ \A k \in K : Spends(files[k].name)
  BY DEF Typed, RemoteTyped, Candidates
<1>2. Doomed(p) = Beyond(P)
  BY DEF Doomed
<1>3. Keep \in Nat \ {0}
  BY Numbers
<1> HIDE DEF files, K
<1>4. /\ P \in Seq(File)
      /\ \A j \in DOMAIN P : Ordered(K)[j] \in K /\ P[j] = files[Ordered(K)[j]]
      /\ \A a, b \in DOMAIN P : a < b => Ordered(K)[a] < Ordered(K)[b]
  BY <1>1, PickedFrom
<1> HIDE DEF P
<1>5. /\ Len(Beyond(P)) = (IF Len(P) > Keep THEN Len(P) - Keep ELSE 0)
      /\ \A k \in 1..Len(Beyond(P)) : Beyond(P)[k] = P[k]
      /\ Beyond(P) \in Seq(File)
  BY <1>4, BeyondIsPart
<1>6. PICK k \in DOMAIN Beyond(P) : Beyond(P)[k].id = n
  BY <1>2 DEF Bears
<1>7. Len(P) \in Nat /\ DOMAIN P = 1..Len(P) /\ DOMAIN Beyond(P) = 1..Len(Beyond(P))
  BY <1>4, <1>5
<1>8. k \in DOMAIN P /\ P[k].id = n /\ Len(P) - k >= Keep /\ k \in Nat
  BY <1>3, <1>5, <1>6, <1>7
<1>9. n \in Nat
  <2>1. P[k] \in File
    BY <1>4, <1>8
  <2>2. P[k].id \in Nat
    BY <2>1 DEF File
  <2> QED BY <1>8, <2>2
<1>10. ASSUME NEW a \in DOMAIN P, NEW b \in DOMAIN P, a < b
       PROVE  P[a].id < P[b].id
  <2>1. Ordered(K)[a] \in DOMAIN files /\ Ordered(K)[b] \in DOMAIN files /\ Ordered(K)[a] < Ordered(K)[b]
    BY <1>1, <1>4, <1>10
  <2> QED BY <1>4, <2>1 DEF InOrder, files
<1> DEFINE J == (k + 1)..Len(P)
           f == [j \in J |-> P[j].id]
           T == Later(p, n)
<1>11. ASSUME NEW j \in J
       PROVE  P[j].id \in T /\ P[j].id \in Nat
  <2>1. j \in DOMAIN P /\ k < j
    BY <1>7, <1>8
  <2>2. P[j] \in File /\ n < P[j].id
    BY <1>4, <1>8, <1>10, <2>1
  <2>3. P[j].name \in Ids /\ P[j].id \in Nat
    BY <2>2 DEF File
  <2>4. Spends(P[j].name) /\ Bears(files, P[j].name, P[j].id)
    <3>1. Ordered(K)[j] \in K /\ P[j] = files[Ordered(K)[j]]
      BY <1>4, <2>1
    <3> QED BY <1>1, <3>1 DEF Bears
  <2>5. kind[P[j].name] # "manual"
    BY <2>3, <2>4 DEF Spends, Manuals
  <2>6. P[j].id \in 0..sent
    BY <2>4 DEF Names, Here, AtPlace, files
  <2>7. P[j].id \in (n + 1)..sent
    BY <1>9, <2>2, <2>3, <2>6
  <2> QED BY <2>3, <2>4, <2>5, <2>7 DEF Later, files
<1> HIDE DEF T
<1>12. f \in Injection(J, T)
  <2>1. f \in [J -> T]
    BY <1>11
  <2>2. ASSUME NEW a \in J, NEW b \in J, f[a] = f[b]
        PROVE  a = b
    <3>1. a \in DOMAIN P /\ b \in DOMAIN P /\ a \in Nat /\ b \in Nat
      BY <1>7, <1>8
    <3>2. P[a].id = P[b].id /\ P[a].id \in Nat
      BY <1>11, <2>2
    <3>3. ~(a < b) /\ ~(b < a)
      <4>1. ~(P[a].id < P[b].id) /\ ~(P[b].id < P[a].id)
        BY <3>2
      <4> QED BY <1>10, <3>1, <4>1
    <3> QED BY <3>1, <3>3
  <2> QED BY <2>1, <2>2 DEF Injection, IsInjective
<1>13. Cardinality(J) = Len(P) - k
  BY <1>3, <1>7, <1>8, FS_Interval
<1>14. IsFiniteSet(T) /\ Cardinality(T) \in Nat
  BY <1>9, LaterIsFinite DEF T
<1>15. Cardinality(J) <= Cardinality(T)
  BY <1>12, <1>14, FS_Injection
<1>16. Cardinality(T) >= Keep
  BY <1>3, <1>7, <1>8, <1>13, <1>14, <1>15
<1> QED BY <1>16 DEF T

\* Newer copies that stay, or are newer still, are as many.
LEMMA LaterStays ==
    ASSUME Typed, Typed', Names, KindsStay, sent <= sent', NEW p \in Providers, NEW n \in Nat, NEW m \in Nat,
           m <= n, \A i, l : l > n /\ Bears(remote[p], i, l) => Bears(remote'[p], i, l)
    PROVE  Cardinality(Later(p, n)) <= Cardinality(Later(p, m)')
<1>1. sent \in Nat /\ sent' \in Nat
  BY DEF Typed, RemoteTyped
<1>2. ASSUME NEW l \in (n + 1)..sent, NEW i, Bears(remote[p], i, l), kind[i] # "manual"
      PROVE  Bears(remote'[p], i, l) /\ kind'[i] # "manual" /\ l \in (m + 1)..sent'
  <2>1. i \in Ids /\ kind[i] # "none"
    BY <1>2 DEF Names, Here, AtPlace, Known
  <2>2. l > n
    OBVIOUS
  <2> QED BY <1>1, <1>2, <2>1, <2>2 DEF KindsStay
<1>3. Later(p, n) \in SUBSET (Later(p, m)')
  BY <1>2 DEF Later, Bears
<1>4. IsFiniteSet(Later(p, m)')
  <2>1. IsFiniteSet((m + 1)..sent')
    BY <1>1, FS_Interval
  <2>2. Later(p, m)' \in SUBSET ((m + 1)..sent')
    BY DEF Later
  <2> QED BY <2>1, <2>2, FS_Subset
<1> QED BY <1>3, <1>4, FS_Subset

\* A file that is written is the last, with an id of its own; the rest keep their places.
LEMMA PutStaysInOrder ==
    ASSUME Typed, Names, InOrder, NEW p \in Providers, NEW file \in File, Put(p, file)
    PROVE  /\ InOrder'
           /\ \A q \in Providers \ Overwrites : \A i, n : Bears(remote[q], i, n) => Bears(remote'[q], i, n)
<1>1. remote \in [Providers -> Seq(File)] /\ sent \in Nat
  BY DEF Typed, RemoteTyped
<1>2. CASE p \in Overwrites
  <2>1. \A q \in Providers \ Overwrites : remote'[q] = remote[q]
    BY <1>1, <1>2 DEF Put
  <2> QED BY <2>1 DEF InOrder
<1>3. CASE p \notin Overwrites
  <2> DEFINE new == [file EXCEPT !.id = sent + 1]
             files == remote[p]
  <2>1. new \in File /\ new.id = sent + 1
    <3>1. sent + 1 \in Nat
      BY <1>1
    <3> QED BY <3>1 DEF File
  <2>2. \A q \in Providers : remote'[q] = IF q = p THEN Append(files, new) ELSE remote[q]
    BY <1>1, <1>3 DEF Put
  <2>3. files \in Seq(File)
    BY <1>1
  <2>4. \A k \in DOMAIN files : files[k].id \in 0..sent
    BY DEF Names, Here, AtPlace, Bears
  <2>5. \A k, l \in DOMAIN files : k < l => files[k].id < files[l].id
    BY <1>3 DEF InOrder
  <2> HIDE DEF new, files
  <2>6. /\ DOMAIN Append(files, new) = 1..(Len(files) + 1) /\ DOMAIN files = 1..Len(files) /\ Len(files) \in Nat
        /\ \A k \in DOMAIN files : Append(files, new)[k] = files[k]
        /\ Append(files, new)[Len(files) + 1] = new
    BY <2>1, <2>3
  <2>7. ASSUME NEW k \in DOMAIN Append(files, new), NEW l \in DOMAIN Append(files, new), k < l
        PROVE  Append(files, new)[k].id < Append(files, new)[l].id
    <3>1. k \in DOMAIN files
      BY <2>6, <2>7
    <3>2. CASE l \in DOMAIN files
      BY <2>5, <2>6, <2>7, <3>1, <3>2
    <3>3. CASE l = Len(files) + 1
      <4>1. Append(files, new)[l].id = sent + 1 /\ Append(files, new)[k].id \in 0..sent
        BY <2>1, <2>4, <2>6, <3>1, <3>3
      <4> QED BY <1>1, <4>1
    <3> QED BY <2>6, <3>2, <3>3
  <2>8. InOrder'
    <3> SUFFICES ASSUME NEW q \in Providers \ Overwrites, NEW k \in DOMAIN remote'[q], NEW l \in DOMAIN remote'[q], k < l
                 PROVE  remote'[q][k].id < remote'[q][l].id
      BY DEF InOrder
    <3>1. CASE q = p
      BY <2>2, <2>7, <3>1
    <3>2. CASE q # p
      BY <2>2, <3>2 DEF InOrder
    <3> QED BY <3>1, <3>2
  <2>9. \A i, n : Bears(files, i, n) => Bears(Append(files, new), i, n)
    BY <2>3, BearsAppend
  <2> QED BY <2>2, <2>8, <2>9 DEF files
<1> QED BY <1>2, <1>3

LEMMA DropStaysInOrder ==
    ASSUME Typed, InOrder, NEW p \in Providers, NEW file, remote' = Drop(p, file)
    PROVE  InOrder'
<1> DEFINE K == {k \in DOMAIN remote[p] : ~Same(p, remote[p][k], file)}
           files == remote[p]
           P == Picked(files, K)
<1>1. remote \in [Providers -> Seq(File)] /\ K \in SUBSET (DOMAIN files)
  BY DEF Typed, RemoteTyped
<1>2. \A q \in Providers : remote'[q] = IF q = p THEN P ELSE remote[q]
  BY <1>1 DEF Drop
<1>3. files \in Seq(File) /\ (p \notin Overwrites => \A k, l \in DOMAIN files : k < l => files[k].id < files[l].id)
  BY <1>1 DEF InOrder
<1> HIDE DEF K, files
<1>4. /\ \A j \in DOMAIN P : Ordered(K)[j] \in K /\ P[j] = files[Ordered(K)[j]]
      /\ \A a, b \in DOMAIN P : a < b => Ordered(K)[a] < Ordered(K)[b]
  BY <1>1, <1>3, PickedFrom
<1> HIDE DEF P
<1> SUFFICES ASSUME NEW q \in Providers \ Overwrites, NEW k \in DOMAIN remote'[q], NEW l \in DOMAIN remote'[q], k < l
             PROVE  remote'[q][k].id < remote'[q][l].id
  BY DEF InOrder
<1>5. CASE q = p
  <2>1. k \in DOMAIN P /\ l \in DOMAIN P /\ remote'[q] = P
    BY <1>2, <1>5
  <2>2. Ordered(K)[k] \in DOMAIN files /\ Ordered(K)[l] \in DOMAIN files /\ Ordered(K)[k] < Ordered(K)[l]
    BY <1>1, <1>4, <2>1
  <2>3. files[Ordered(K)[k]].id < files[Ordered(K)[l]].id
    BY <1>3, <1>5, <2>2
  <2> QED BY <1>4, <2>1, <2>3
<1>6. CASE q # p
  BY <1>2, <1>6 DEF InOrder
<1> QED BY <1>5, <1>6

\* What the user may change by a step: nothing but what the history records.
Aims == (disturbed => disturbed') /\ (~disturbed' => config'.provider = config.provider)

\* A goroutine calls where the row points to, and one that deletes for the user was at it.
Steady(c, w) ==
    /\ w.call = "open" => (work[c].call = "open" /\ w.to = work[c].to) \/ w.to = config'.provider
    /\ c = Clean /\ w.step # "idle" => work[c].step # "idle"

LEMMA DestinationStays ==
    ASSUME Typed, OneDestination, Aims, NEW c \in Callers, NEW w,
           \A d \in Callers : work'[d] = IF d = c THEN w ELSE work[d],
           disturbed' \/ Steady(c, w)
    PROVE  OneDestination'
<1> SUFFICES ASSUME ~disturbed'
             PROVE  /\ \A d \in Callers : work'[d].call = "open" => work'[d].to = config'.provider
                    /\ work'[Clean].step = "idle"
  BY DEF OneDestination
<1>1. ~disturbed /\ config'.provider = config.provider /\ Steady(c, w)
  BY DEF Aims
<1>2. \A d \in Callers : work'[d].call = "open" => work'[d].to = config'.provider
  BY <1>1 DEF Steady, OneDestination
<1>3. work'[Clean].step = "idle"
  BY <1>1, Numbers DEF Steady, OneDestination
<1> QED BY <1>2, <1>3

\* The copies newer than one that is to be trimmed do not become fewer: uploads add to
\* them, and one that is itself trimmed has as many that are newer still.
LEMMA SparedStays ==
    ASSUME Typed, Typed', Names, InOrder, OneDestination, KindsStay, ~disturbed,
           NEW p \in Providers \ Overwrites, p = config.provider, Spared(p),
           NEW c \in Callers,
           \/ UNCHANGED <<remote, sent>>
           \/ Puts(c)
           \/ Drops(c) /\ work[c].step = "prune",
           NEW d \in Callers, NEW i, NEW n, work[d].step = "prune", Bears(work[d].todo, i, n)
    PROVE  Cardinality(Later(p, n)') >= Keep
<1>1. n \in Nat /\ sent \in Nat /\ Keep \in Nat
  <2>1. Here(i, n)
    BY DEF Here, Listed
  <2>2. sent \in Nat
    BY DEF Typed, RemoteTyped
  <2> QED BY <2>1, <2>2, Numbers DEF Names
<1>2. Cardinality(Later(p, n)) >= Keep
  BY DEF Spared
<1>3. ASSUME NEW m \in Nat, n <= m, Cardinality(Later(p, m)) >= Keep, sent <= sent',
             \A j, l : l > m /\ Bears(remote[p], j, l) => Bears(remote'[p], j, l)
      PROVE  Cardinality(Later(p, n)') >= Keep
  <2>1. Cardinality(Later(p, m)) <= Cardinality(Later(p, n)')
    BY <1>1, <1>3, LaterStays
  <2>2. Cardinality(Later(p, m)) \in Nat
    BY <1>3, LaterIsFinite
  <2>3. Cardinality(Later(p, n)') \in Nat
    <3>1. IsFiniteSet((n + 1)..sent')
      BY <1>1, FS_Interval DEF Typed, RemoteTyped
    <3>2. Later(p, n)' \in SUBSET ((n + 1)..sent')
      BY DEF Later
    <3> QED BY <3>1, <3>2, FS_Subset, FS_CardinalityType
  <2> QED BY <1>1, <1>3, <2>1, <2>2, <2>3
<1>4. CASE UNCHANGED <<remote, sent>>
  BY <1>1, <1>2, <1>3, <1>4
<1>5. ASSUME NEW q \in Providers, NEW file \in File, Put(q, file)
      PROVE  Cardinality(Later(p, n)') >= Keep
  <2>1. \E name : sent' \in {sent, sent + 1}
    BY <1>5 DEF Put
  <2>2. sent <= sent'
    BY <1>1, <2>1
  <2>3. \A j, l : Bears(remote[p], j, l) => Bears(remote'[p], j, l)
    BY <1>5, PutStaysInOrder
  <2> QED BY <1>1, <1>2, <1>3, <2>2, <2>3
<1>6. CASE Drops(c) /\ work[c].step = "prune"
  <2> DEFINE file == work[c].todo[1]
  <2>1. work[c].to = p /\ remote' = Drop(p, file) /\ sent' = sent /\ Bears(work[c].todo, file.name, file.id)
    BY <1>6 DEF Drops, OneDestination, Bears
  <2> HIDE DEF file
  <2>2. file.id \in Nat
    <3>1. Here(file.name, file.id)
      BY <2>1 DEF Here, Listed
    <3> QED BY <1>1, <3>1 DEF Names
  <2>3. Cardinality(Later(p, file.id)) >= Keep
    BY <1>6, <2>1 DEF Spared
  <2>4. \A j, l : Bears(remote[p], j, l) /\ l # file.id => Bears(remote'[p], j, l)
    BY <2>1, DropKeeps
  <2>5. sent <= sent'
    BY <1>1, <2>1
  <2>6. CASE file.id <= n
    <3>1. \A j, l : l > n /\ Bears(remote[p], j, l) => l # file.id
      <4>1. \A j, l : Bears(remote[p], j, l) => l \in Nat
        BY <1>1 DEF Names, Here, AtPlace
      <4> QED BY <1>1, <2>2, <2>6, <4>1
    <3>2. \A j, l : l > n /\ Bears(remote[p], j, l) => Bears(remote'[p], j, l)
      BY <2>4, <3>1
    <3>3. n <= n
      BY <1>1
    <3> QED BY <1>1, <1>2, <1>3, <2>5, <3>2, <3>3
  <2>7. CASE n <= file.id
    <3>1. ~(file.id > file.id)
      BY <2>2
    <3>2. \A j, l : l > file.id /\ Bears(remote[p], j, l) => Bears(remote'[p], j, l)
      BY <2>4, <3>1
    <3> QED BY <1>3, <2>2, <2>3, <2>5, <2>7, <3>2
  <2> QED BY <1>1, <2>2, <2>6, <2>7
<1> QED BY <1>4, <1>5, <1>6 DEF Puts

LEMMA TrimsStay ==
    ASSUME Typed, Typed', Names, Manuals, InOrder, OneDestination, TrimsSpareKeep, Aims, KindsStay,
           NEW c \in Callers,
           \/ UNCHANGED <<remote, sent>>
           \/ Puts(c)
           \/ Drops(c) /\ (work[c].step = "prune" \/ disturbed),
           NEW e \in Callers, NEW w, \A d \in Callers : work'[d] = IF d = e THEN w ELSE work[d],
           disturbed' \/ Steady(e, w),
           SamePrune(e, w) \/ (Trims(e, w) /\ work[e].call = "open" /\ UNCHANGED copies)
    PROVE  InOrder' /\ OneDestination' /\ TrimsSpareKeep'
<1>1. InOrder'
  <2>1. CASE UNCHANGED <<remote, sent>>
    BY <2>1 DEF InOrder
  <2>2. CASE Drops(c)
    BY <2>2, DropStaysInOrder DEF Drops
  <2>3. CASE \E p \in Providers, file \in File : Put(p, file)
    BY <2>3, PutStaysInOrder
  <2> QED BY <2>1, <2>2, <2>3 DEF Puts
<1>2. OneDestination'
  BY DestinationStays
<1>3. TrimsSpareKeep'
  <2> SUFFICES ASSUME ~disturbed', config'.provider \notin Overwrites,
                      NEW d \in Callers, work'[d].step = "prune", NEW i, NEW n, Bears(work'[d].todo, i, n)
               PROVE  Cardinality(Later(config.provider, n))' >= Keep
    BY DEF TrimsSpareKeep, Spared, Bears
  <2>1. PICK p \in Providers \ Overwrites : p = config.provider /\ p = config'.provider /\ ~disturbed
    BY DEF Aims, Typed, RowTyped, Row
  <2>2. Spared(p)
    BY <2>1 DEF TrimsSpareKeep
  <2>3. CASE work[d].step = "prune" /\ Bears(work[d].todo, i, n)
    <3>1. Cardinality(Later(p, n)') >= Keep
      BY <2>1, <2>2, <2>3, SparedStays
    <3> QED BY <2>1, <3>1 DEF Later
  <2>4. CASE d = e /\ Trims(e, w) /\ work[e].call = "open" /\ UNCHANGED copies
    <3>1. work[e].to = p
      BY <2>1, <2>4 DEF OneDestination
    <3>2. Bears(w.todo, i, n)
      BY <2>4
    <3>3. Cardinality(Later(p, n)) >= Keep
      BY <2>4, <3>1, <3>2, DoomedAreOld DEF Trims
    <3> QED BY <2>1, <2>4, <3>3 DEF Later, copies
  <2> QED BY <2>3, <2>4 DEF SamePrune
<1> QED BY <1>1, <1>2, <1>3

Trimmed == InOrder /\ OneDestination /\ TrimsSpareKeep

LEMMA ProceedTrims ==
    ASSUME Typed, Typed', Names, Manuals, Trimmed, NEW c \in Callers, Proceed(c)
    PROVE  Trimmed'
<1> USE DEF Trimmed
<1>1. ASSUME Aims, KindsStay,
             NEW d \in Callers,
             \/ UNCHANGED <<remote, sent>>
             \/ Puts(d)
             \/ Drops(d) /\ (work[d].step = "prune" \/ disturbed),
             NEW e \in Callers, NEW w,
             \/ GoesOn(e, w)
             \/ Trims(e, w) /\ work[e].call = "open" /\ UNCHANGED copies
             \/ Connects(e, w, config'.provider) /\ w.step = work[e].step
      PROVE  Trimmed'
  <2>1. Steady(e, w)
    <3>1. CASE GoesOn(e, w)
      BY <3>1 DEF GoesOn, SameCall, SameTask, Steady
    <3>2. CASE Trims(e, w)
      BY <3>2, Goroutines DEF Trims, Steady
    <3>3. CASE Connects(e, w, config'.provider) /\ w.step = work[e].step
      BY <3>3 DEF Connects, Steady
    <3> QED BY <1>1, <3>1, <3>2, <3>3
  <2>2. SamePrune(e, w) \/ (Trims(e, w) /\ work[e].call = "open" /\ UNCHANGED copies)
    BY <1>1 DEF GoesOn, Connects
  <2>3. work' = [work EXCEPT ![e] = w]
    BY <1>1 DEF GoesOn, Trims, Connects, Replaces
  <2>4. \A f \in Callers : work'[f] = IF f = e THEN w ELSE work[f]
    BY <2>3 DEF Typed, WorkTyped
  <2> QED BY <1>1, <2>1, <2>2, <2>4, TrimsStay
<1>2. UNCHANGED copies => UNCHANGED <<kind, rows, archive>> /\ UNCHANGED <<remote, sent>>
  BY DEF copies
<1>3. UNCHANGED kind => KindsStay
  BY DEF KindsStay
<1>4. UNCHANGED <<config, disturbed>> \/ Destination => Aims
  <2>1. disturbed \in BOOLEAN /\ disturbed' \in BOOLEAN
    BY DEF Typed
  <2> QED BY <2>1 DEF Aims, Destination
<1>5. UNCHANGED account => UNCHANGED config
  BY DEF account
<1>6. CASE Open(c)
  <2>1. UNCHANGED <<config, copies, disturbed>>
    BY <1>6, OpenDoes
  <2>2. CASE \E w : Connects(c, w, config.provider) /\ w.step = work[c].step
    BY <1>1, <1>2, <1>3, <1>4, <2>1, <2>2
  <2>3. CASE UNCHANGED work
    <3> DEFINE w == work[c]
    <3>1. Steady(c, w) /\ SamePrune(c, w)
      BY DEF Steady, SamePrune
    <3>2. \A d \in Callers : work'[d] = IF d = c THEN w ELSE work[d]
      BY <2>3
    <3> HIDE DEF w
    <3> QED BY <1>2, <1>3, <1>4, <2>1, <3>1, <3>2, TrimsStay
  <2> QED BY <1>6, <2>2, <2>3, OpenDoes
<1>7. CASE EndRefresh(c)
  BY <1>1, <1>2, <1>3, <1>4, <1>7, EndRefreshDoes
<1>8. CASE NotConfigured(c) \/ NoToken(c)
  BY <1>1, <1>2, <1>3, <1>4, <1>8, NoCallDoes
<1>9. CASE CallFails(c)
  BY <1>1, <1>3, <1>4, <1>5, <1>9, CallFailsDoes
<1>10. CASE BeginUpload(c) \/ EndUpload(c)
  BY <1>1, <1>3, <1>4, <1>5, <1>10, BeginUploadDoes, EndUploadDoes
<1>11. CASE PruneList(c)
  BY <1>1, <1>2, <1>3, <1>4, <1>5, <1>11, PruneListDoes
<1>12. CASE PruneDelete(c) \/ (c = Clean /\ Delete)
  <2>1. work[c].step = "prune" \/ disturbed
    <3>1. work[c].step = "delete" => c = Clean /\ disturbed
      BY <1>12, DeleteDoes DEF OneDestination
    <3> QED BY <1>12, <3>1, DeleteDoes
  <2> QED BY <1>1, <1>3, <1>4, <1>5, <1>12, <2>1, DeleteDoes
<1>13. CASE PushList
  BY <1>1, <1>2, <1>3, <1>4, <1>5, <1>13, PushListDoes, Numbers
<1>14. CASE CleanList
  BY <1>1, <1>2, <1>3, <1>4, <1>5, <1>14, CleanListDoes, Numbers
<1>15. CASE Download
  BY <1>1, <1>3, <1>4, <1>5, <1>15, DownloadDoes, Numbers
<1>16. CASE Received
  <2>1. PICK i \in Ids : kind' = IF i \in rows THEN kind ELSE [kind EXCEPT ![i] = "auto"]
    BY <1>16, ReceivedDoes
  <2>2. KindsStay
    BY <2>1 DEF KindsStay, Manuals, Typed, SnapshotsTyped
  <2> QED BY <1>1, <1>4, <1>5, <1>16, <2>2, ReceivedDoes, Numbers
<1> QED BY <1>6, <1>7, <1>8, <1>9, <1>10, <1>11, <1>12, <1>13, <1>14, <1>15, <1>16 DEF Proceed

THEOREM TrimmedInOrder == Spec => []Trimmed
<1>1. Init => Trimmed
  <2> SUFFICES ASSUME Init PROVE Trimmed
    OBVIOUS
  <2>1. \A p \in Providers : DOMAIN remote[p] = {}
    BY DEF Init
  <2>2. \A c \in Callers : work[c].step = "idle" /\ work[c].call = "none"
    BY DEF Init, Idle
  <2> QED BY <2>1, <2>2, Numbers DEF Trimmed, InOrder, OneDestination, TrimsSpareKeep, Spared
<1>2. Typed /\ Typed' /\ Names /\ Manuals /\ Trimmed /\ [Next]_vars => Trimmed'
  <2> SUFFICES ASSUME Typed, Typed', Names, Manuals, Trimmed, [Next]_vars PROVE Trimmed'
    OBVIOUS
  <2>1. disturbed \in BOOLEAN /\ disturbed' \in BOOLEAN /\ DOMAIN work = Callers /\ Push \in Callers
    BY Numbers DEF Typed, WorkTyped
  <2>2. ASSUME Aims, KindsStay, UNCHANGED <<remote, sent>>, NEW c \in Callers, NEW w,
               work' = [work EXCEPT ![c] = w] \/ (UNCHANGED work /\ w = work[c]),
               disturbed' \/ Steady(c, w), SamePrune(c, w)
        PROVE  Trimmed'
    <3>1. \A d \in Callers : work'[d] = IF d = c THEN w ELSE work[d]
      BY <2>1, <2>2
    <3> QED BY <2>2, <3>1, TrimsStay DEF Trimmed
  <2>3. CASE AccountStep \/ UNCHANGED vars
    <3> DEFINE w == work[Push]
    <3>1. UNCHANGED <<copies, work>> /\ Aims
      BY <2>1, <2>3 DEF AccountStep, Destination, Aims, vars, account, mirror, copies
    <3>2. KindsStay /\ UNCHANGED <<remote, sent>>
      BY <3>1 DEF copies, KindsStay
    <3>3. Steady(Push, w) /\ SamePrune(Push, w)
      BY DEF Steady, SamePrune
    <3>4. UNCHANGED work /\ w = work[Push]
      BY <3>1
    <3> HIDE DEF w
    <3> QED BY <2>1, <2>2, <3>1, <3>2, <3>3, <3>4
  <2>4. CASE StartPush \/ \E p \in Providers : StartRestore(p)
    <3>1. Aims /\ KindsStay /\ UNCHANGED <<remote, sent>>
      BY <2>4, StartDoes DEF Aims, KindsStay, account, copies
    <3>2. PICK c \in Callers : \E w : GoesOn(c, w)
      BY <2>4, StartDoes
    <3>3. PICK w : Steady(c, w) /\ SamePrune(c, w) /\ work' = [work EXCEPT ![c] = w]
      BY <3>2 DEF GoesOn, Replaces, SameCall, SameTask, Steady
    <3> QED BY <2>2, <3>1, <3>3
  <2>5. CASE \E p \in Providers : StartDelete(p)
    <3>1. disturbed' = TRUE /\ UNCHANGED copies
      BY <2>5, StartDeleteDoes
    <3>2. Aims /\ KindsStay /\ UNCHANGED <<remote, sent>>
      BY <3>1 DEF Aims, KindsStay, copies
    <3>3. PICK w : SamePrune(Clean, w) /\ work' = [work EXCEPT ![Clean] = w]
      BY <2>5, StartDeleteDoes DEF Replaces
    <3> QED BY <2>2, <3>1, <3>2, <3>3, Numbers
  <2>6. ASSUME NEW i \in Ids, NEW k \in {"auto", "manual"}, TakeSnapshot(i, k)
        PROVE  Trimmed'
    <3>1. PICK w : work' = [work EXCEPT ![i] = w] /\ w.step = "upload" /\ w.call = "none"
      BY <2>6, TakeSnapshotDoes
    <3>2. UNCHANGED <<account, remote, sent, disturbed>> /\ kind[i] = "none" /\ kind' = [kind EXCEPT ![i] = k]
      BY <2>6, TakeSnapshotDoes
    <3>3. Aims /\ KindsStay
      BY <3>2 DEF Aims, KindsStay, account, Typed, SnapshotsTyped
    <3>4. Steady(i, w) /\ SamePrune(i, w) /\ i \in Callers
      BY <3>1, Goroutines, Numbers DEF Steady, SamePrune
    <3> QED BY <2>2, <3>1, <3>2, <3>3, <3>4
  <2>7. CASE \E c \in Callers : Proceed(c)
    BY <2>7, ProceedTrims
  <2>8. CASE Exit
    <3>1. UNCHANGED <<config, copies, disturbed>> /\ work' = [c \in Callers |-> Idle]
      BY <2>8, ExitDoes
    <3>2. \A c \in Callers : work'[c].step = "idle" /\ work'[c].call = "none"
      BY <3>1 DEF Idle
    <3>3. InOrder' /\ OneDestination'
      BY <3>1, <3>2, Numbers DEF Trimmed, InOrder, OneDestination, copies
    <3>4. TrimsSpareKeep'
      BY <3>2 DEF TrimsSpareKeep, Spared
    <3> QED BY <3>3, <3>4 DEF Trimmed
  <2> QED BY <2>3, <2>4, <2>5, <2>6, <2>7, <2>8 DEF Next
<1> QED BY <1>1, <1>2, MirrorTypeCorrect, NamesAndManuals, PTL DEF Spec

\* "Keep the newest maxSnapshots per branch" (runCloudUpload) holds however many uploads
\* trim at once, each from a listing of its own, where copies keep their order: what is
\* deleted has Keep newer candidates that stay, as long as the user neither deletes nor
\* switches.
THEOREM TrimmingSparesKeepThere == Spec => TrimmingSparesKeep
<1> DEFINE Spares == \A c \in Ids : PruneDelete(c) /\ ~disturbed /\ work[c].to \notin Overwrites =>
              LET left == remote'[work[c].to]
              IN  Cardinality({k \in Candidates(left) : left[k].id > work[c].todo[1].id}) >= Keep
<1>1. Typed /\ Typed' /\ Names /\ Manuals /\ Trimmed => Spares
  <2> SUFFICES ASSUME Typed, Typed', Names, Manuals, Trimmed, NEW c \in Ids, PruneDelete(c), ~disturbed,
                      work[c].to \notin Overwrites
               PROVE  Cardinality({k \in Candidates(remote'[work[c].to]) :
                                      remote'[work[c].to][k].id > work[c].todo[1].id}) >= Keep
    OBVIOUS
  <2>1. c \in Callers /\ work[c].step = "prune"
    BY Numbers DEF PruneDelete
  <2>2. Drops(c) /\ UNCHANGED <<kind, rows>>
    BY <2>1, DeleteDoes
  <2> DEFINE p == work[c].to
             file == work[c].todo[1]
             n == file.id
             left == remote'[p]
             S == {k \in Candidates(left) : left[k].id > n}
             T == Later(p, n)
             f == [k \in S |-> left[k].id]
  <2>3. p \in Providers \ Overwrites /\ p = config.provider /\ remote' = Drop(p, file)
        /\ Bears(work[c].todo, file.name, n)
    BY <2>1, <2>2 DEF Drops, Trimmed, OneDestination, Bears
  <2>4. Cardinality(T) >= Keep
    BY <2>1, <2>3 DEF Trimmed, TrimsSpareKeep, Spared
  <2>5. n \in Nat /\ sent \in Nat
    <3>1. Here(file.name, n)
      BY <2>1, <2>3 DEF Here, Listed
    <3>2. sent \in Nat
      BY DEF Typed, RemoteTyped
    <3> QED BY <3>1, <3>2 DEF Names
  <2>6. left \in Seq(File)
    BY <2>3 DEF Typed, RemoteTyped
  <2> HIDE DEF p, file, left
  <2>7. /\ \A i, l : Bears(left, i, l) => Bears(remote[p], i, l)
        /\ \A i, l : Bears(remote[p], i, l) /\ l # n => Bears(left, i, l)
    BY <2>3, DropKeeps DEF left
  <2> HIDE DEF n
  <2>8. ASSUME NEW k \in S
        PROVE  left[k].id \in T
    <3>1. k \in DOMAIN left /\ Spends(left[k].name) /\ left[k].id > n
      BY DEF Candidates
    <3>2. Bears(remote[p], left[k].name, left[k].id)
      BY <2>7, <3>1 DEF Bears
    <3>3. left[k].id \in 0..sent /\ left[k].name \in Ids
      BY <2>3, <3>2 DEF Names, Here, AtPlace, Known
    <3>4. kind[left[k].name] # "manual"
      BY <3>1, <3>3 DEF Spends, Manuals
    <3>5. left[k].id \in (n + 1)..sent
      BY <2>5, <3>1, <3>3
    <3> QED BY <3>2, <3>4, <3>5 DEF Later
  <2>9. ASSUME NEW m \in T
        PROVE  \E k \in S : left[k].id = m
    <3>1. PICK i : Bears(remote[p], i, m) /\ kind[i] # "manual"
      BY DEF Later
    <3>2. m \in (n + 1)..sent
      BY DEF Later
    <3>3. m > n /\ m # n
      BY <2>5, <3>2
    <3>4. PICK k \in DOMAIN left : left[k].name = i /\ left[k].id = m
      BY <2>7, <3>1, <3>3 DEF Bears
    <3>5. Spends(i)
      BY <3>1 DEF Spends
    <3> QED BY <3>3, <3>4, <3>5 DEF Candidates
  <2>10. IsFiniteSet(S)
    <3>1. IsFiniteSet(DOMAIN left)
      BY <2>6, FS_Interval
    <3>2. S \in SUBSET (DOMAIN left)
      BY DEF Candidates
    <3> QED BY <3>1, <3>2, FS_Subset
  <2> HIDE DEF S, T
  <2>11. f \in Surjection(S, T)
    BY <2>8, <2>9 DEF Surjection
  <2>12. Cardinality(T) <= Cardinality(S)
    BY <2>10, <2>11, FS_Surjection
  <2>13. Cardinality(T) \in Nat /\ Cardinality(S) \in Nat /\ Keep \in Nat
    BY <2>5, <2>10, LaterIsFinite, FS_CardinalityType, Numbers DEF T
  <2>14. Cardinality(S) >= Keep
    BY <2>4, <2>12, <2>13
  <2> QED BY <2>14 DEF S, left, p, n, file
<1>2. TrimmingSparesKeep <=> [][Spares]_vars
  BY PTL DEF TrimmingSparesKeep
<1> HIDE DEF Spares
<1> QED BY <1>1, <1>2, MirrorTypeCorrect, NamesAndManuals, TrimmedInOrder, PTL
=============================================================================
