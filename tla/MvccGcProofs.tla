---------------------------- MODULE MvccGcProofs ----------------------------
(***************************************************************************)
(* Proofs about MvccOcc, second part: the garbage collector takes nothing  *)
(* away that a snapshot or a transaction still needs, unless it has passed *)
(* a session before the snapshot of that session was published.            *)
(***************************************************************************)
EXTENDS MvccOccProofs

\* No collector reclaims below c, now or as long as session t keeps its epoch.
Spares(t, c) ==
    /\ activeEpoch <= c
    /\ \A u \in Txn : pc[u] = "reclaim" => bound[u] <= c
    /\ \A u \in Txn : pc[u] = "scan" /\ t \notin scan.todo => bound[u] <= c

Spared(t) == {c \in Csn : gcEpoch[t] <= c /\ Spares(t, c)}

\* The CSNs that do not belong to the snapshot of session t.
Beyond(t) == {c \in Csn : c >= snap[t]}

\* Version c is in the sequence and the CSNs of all in front of it are in S.
Above(versions, c, S) ==
    \E i \in DOMAIN versions :
        versions[i].csn = c /\ \A j \in DOMAIN versions : j < i => versions[j].csn \in S

ScanInv ==
    /\ \A t \in Txn : pc[t] = "scan" <=> scan.by = t
    /\ activeEpoch <= clock
    /\ \A t \in Txn : gcEpoch[t] <= clock /\ bound[t] <= clock

\* The collector spares what is visible in the snapshot of a session that it
\* has not passed too early.
EpochInv(t) ==
    /\ snap[t] # 0 => gcEpoch[t] <= snap[t]
    /\ snap[t] # 0 /\ ~late[t] => Spares(t, snap[t])

\* A version in an access is in the chain, and all that is or will be in front
\* of it is spared.
HeldInv(t) ==
    /\ \A k \in Key :
          access[t][k].csn # 0 /\ access[t][k].upgrade # "onDeleted" =>
              /\ Above(chain[k], access[t][k].csn, Spared(t))
              /\ \A u \in Txn : Pending(u, k) => csn[u] \in Spared(t)
    /\ pc[t] = "fetch" => \A k \in Key : cur[t].key = k =>
          \A u \in Txn : Pending(u, k) => Top(k) = cur[t].top \/ csn[u] \in Spared(t)

ReadInv(t) ==
    Read(t) /\ ~late[t] => \A k \in Key : got[t].key = k =>
        /\ ~got[t].hasty => got[t].csn = RowFromChain(snap[t], hist[k])
        /\ got[t].csn # 0 =>
              /\ Above(chain[k], got[t].csn, Beyond(t))
              /\ \A u \in Txn : Pending(u, k) => csn[u] \in Beyond(t)

\* Snapshots that are in use or may be taken see the same in the chain as in
\* the installed history.
ChainInv(k) ==
    \A s \in Nat :
        s >= clock \/ (\E t \in Txn : snap[t] = s /\ s # 0 /\ ~late[t]) =>
            RowFromChain(s, chain[k]) = RowFromChain(s, Installed(k))

GcInv ==
    /\ ScanInv
    /\ \A k \in Key : ChainInv(k)
    /\ \A t \in Txn : EpochInv(t) /\ HeldInv(t) /\ ReadInv(t)

-----------------------------------------------------------------------------
(* A version under a set of newer ones.                                    *)

LEMMA AbovePrepended ==
    ASSUME NEW q \in Versions, NEW v \in VersionSet, NEW c, NEW S, Above(q, c, S), v.csn \in S
    PROVE  Above(<<v>> \o q, c, S)
<1>. DEFINE p == <<v>> \o q
<1>1. PICK i \in DOMAIN q : q[i].csn = c /\ \A j \in DOMAIN q : j < i => q[j].csn \in S
  BY DEF Above
<1>2. /\ p[1] = v
      /\ \A j \in DOMAIN q : p[j + 1] = q[j] /\ j + 1 \in DOMAIN p
      /\ \A j \in DOMAIN p : j # 1 => p[j] = q[j - 1] /\ j - 1 \in DOMAIN q
  BY Prepend
<1>3. DOMAIN q \subseteq Nat
  BY DEF Versions
<1>4. DOMAIN p \subseteq Nat
  BY Prepend DEF Versions
<1>. HIDE DEF p
<1>5. i + 1 \in DOMAIN p /\ p[i + 1].csn = c
  BY <1>1, <1>2
<1>6. ASSUME NEW j \in DOMAIN p, j < i + 1 PROVE p[j].csn \in S
  <2>1. CASE j = 1
    BY <1>2, <2>1
  <2>2. CASE j # 1
    <3>1. p[j] = q[j - 1] /\ j - 1 \in DOMAIN q /\ j - 1 < i
      BY <1>2, <1>3, <1>4, <1>6, <2>2
    <3>. QED
      BY <1>1, <3>1
  <2>. QED
    BY <2>1, <2>2
<1>7. Above(p, c, S)
  BY <1>5, <1>6 DEF Above
<1>. QED
  BY <1>7 DEF p

LEMMA AboveCut ==
    ASSUME NEW q \in Versions, NEW d \in Nat, NEW c, NEW S, Above(q, c, S), d \notin S
    PROVE  Above(CutBelow(d, q), c, S)
<1>. DEFINE p == CutBelow(d, q)
<1>1. PICK i \in DOMAIN q : q[i].csn = c /\ \A j \in DOMAIN q : j < i => q[j].csn \in S
  BY DEF Above
<1>2. /\ DOMAIN p \subseteq DOMAIN q
      /\ \A j \in DOMAIN p : p[j] = q[j]
      /\ \A n \in DOMAIN q : n \in DOMAIN p \/ \E j \in DOMAIN p : j < n /\ q[j].csn = d
  BY Cut
<1>. HIDE DEF p
<1>3. i \in DOMAIN p
  BY <1>1, <1>2
<1>4. Above(p, c, S)
  BY <1>1, <1>2, <1>3 DEF Above
<1>. QED
  BY <1>4 DEF p

LEMMA AboveMore ==
    ASSUME NEW q, NEW c, NEW S, NEW T, S \subseteq T, Above(q, c, S)
    PROVE  Above(q, c, T)
  BY DEF Above

\* What a snapshot sees in a sequence, it sees under versions that do not
\* belong to it.
LEMMA SeenIsAbove ==
    ASSUME NEW q \in Versions, NEW s \in Nat, RowFromChain(s, q) # 0
    PROVE  Above(q, RowFromChain(s, q), {c \in Csn : c >= s})
<1>1. \E i \in DOMAIN q : s > q[i].csn
  BY SeesNothing
<1>2. PICK n \in DOMAIN q :
         /\ \A j \in DOMAIN q : j < n => ~(s > q[j].csn)
         /\ RowFromChain(s, q) = IF q[n].deleted THEN 0 ELSE q[n].csn
  BY <1>1, SeesSomething
<1>3. \A j \in DOMAIN q : j < n => q[j].csn \in Csn /\ q[j].csn >= s
  BY <1>2, ElementType
<1>. QED
  BY <1>2, <1>3 DEF Above

-----------------------------------------------------------------------------
(* What a step does to one key: nothing, a cut below what some session has *)
(* for its bound, or the installation of a pending version.                *)

Untouched(k) == chain'[k] = chain[k] /\ Installed(k)' = Installed(k)

CutStep(k) ==
    /\ \E u \in Txn, c \in Csn :
          pc[u] = "reclaim" /\ c < bound[u] /\ chain'[k] = CutBelow(c, chain[k])
    /\ Installed(k)' = Installed(k)

InstallStep(k) ==
    \E u \in Txn, v \in VersionSet, q \in Versions :
        /\ Pending(u, k) /\ v.csn = csn[u]
        /\ \/ q = chain[k]
           \/ \E w \in VersionSet : w.csn = csn[u] /\ q = <<w>> \o chain[k]
        /\ chain'[k] = <<v>> \o q
        /\ Installed(k) \in Versions /\ Installed(k)' = <<v>> \o Installed(k)

StoreStep(k) ==
    /\ Untouched(k) \/ CutStep(k) \/ InstallStep(k)
    /\ \A u \in Txn : Pending(u, k)' =>
          \/ Pending(u, k) /\ csn'[u] = csn[u] /\ Top(k)' = Top(k)
          \/ csn'[u] = clock
    /\ \A s \in Nat : s <= clock => RowFromChain(s, hist'[k]) = RowFromChain(s, hist[k])

LEMMA CalmStoreStep ==
    ASSUME OccInv, Calm, Key' = Key, NEW k \in Key, chain'[k] = chain[k] \/ CutStep(k)
    PROVE  StoreStep(k)
<1>1. Installed(k)' = Installed(k) /\ Top(k)' = Top(k)
  BY CalmStore
<1>2. Untouched(k) \/ CutStep(k)
  BY <1>1 DEF Untouched
<1>3. \A u \in Txn : Pending(u, k)' => Pending(u, k) /\ csn'[u] = csn[u]
  BY DEF Calm
<1>4. hist' = hist
  BY DEF Calm
<1>. QED
  BY <1>1, <1>2, <1>3, <1>4 DEF StoreStep

LEMMA StoreSteps ==
    ASSUME OccInv, Next
    PROVE  \A k \in Key : StoreStep(k)
<1>1. PICK t \in Txn :
         \/ QuietStep(t) \/ TryLock(t) \/ SetCommitCsn(t) \/ WriteStep(t) \/ RowVersionDtor(t)
         \/ \E thresholdReached \in BOOLEAN : EndTransaction(t, thresholdReached)
  BY NextSteps
<1>2. TypeInv /\ SessionInv(t) /\ ShapeInv(t)
  BY DEF OccInv, SessionInv
<1>3. CASE QuietStep(t)
  <2>1. Calm /\ Key' = Key /\ UNCHANGED chain
    BY <1>2, <1>3, QuietCalm, QuietType, QuietFrame
  <2>. QED
    BY <2>1, CalmStoreStep
<1>4. CASE TryLock(t)
  <2>1. Calm /\ Key' = Key /\ UNCHANGED chain
    <3>1. UNCHANGED chain
      BY <1>4 DEF TryLock
    <3>. QED
      BY <1>4, <3>1, TryLockOcc DEF Key
  <2>. QED
    BY <2>1, CalmStoreStep
<1>5. CASE \E thresholdReached \in BOOLEAN : EndTransaction(t, thresholdReached)
  <2>1. Calm /\ Key' = Key /\ UNCHANGED chain
    <3>1. UNCHANGED chain
      BY <1>5 DEF EndTransaction
    <3>. QED
      BY <1>5, <3>1, EndTransactionOcc DEF Key
  <2>. QED
    BY <2>1, CalmStoreStep
<1>6. CASE RowVersionDtor(t)
  <2>1. Calm /\ Key' = Key
    BY <1>2, <1>6, RowVersionDtorOcc, RowVersionDtorType
  <2>2. pc[t] = "reclaim"
    BY <1>2, <1>6, RowVersionDtorEffect
  <2>3. PICK j \in Key, c \in Csn :
           /\ c < bound[t]
           /\ chain' = chain \/ chain' = [chain EXCEPT ![j] = CutBelow(c, chain[j])]
    BY <1>2, <1>6, RowVersionDtorEffect
  <2>4. chain \in [Key -> Versions]
    BY <1>2 DEF TypeInv, StoreType
  <2>5. ASSUME NEW k \in Key PROVE StoreStep(k)
    <3>1. chain'[k] = chain[k] \/ chain'[k] = CutBelow(c, chain[k])
      BY <2>3, <2>4
    <3>2. Installed(k)' = Installed(k)
      BY <2>1, CalmStore
    <3>3. chain'[k] = chain[k] \/ CutStep(k)
      BY <2>2, <2>3, <3>1, <3>2 DEF CutStep
    <3>. QED
      BY <2>1, <3>3, CalmStoreStep
  <2>. QED
    BY <2>5
<1>7. CASE SetCommitCsn(t)
  <2>. SUFFICES ASSUME NEW k \in Key PROVE StoreStep(k)
    OBVIOUS
  <2>1. /\ UNCHANGED chain /\ csn'[t] = clock
        /\ \A u \in Txn \ {t} : SameSession(u)
        /\ Installed(k)' = Installed(k)
        /\ \A s \in Nat : s <= clock => RowFromChain(s, hist'[k]) = RowFromChain(s, hist[k])
    BY <1>7, SetCommitCsnEffect
  <2>2. \A u \in Txn : Pending(u, k)' => Pending(u, k) \/ u = t
    BY <1>7, SetCommitCsnEffect
  <2>3. Untouched(k) /\ Top(k)' = Top(k)
    BY <2>1 DEF Untouched, Top
  <2>. QED
    BY <2>1, <2>2, <2>3 DEF StoreStep, SameSession
<1>8. CASE WriteStep(t)
  <2>0. PICK n \in Key : WritesKey(t, n)
    BY <1>8, WriteStore
  <2>6. n = cur[t].key
    BY <2>0 DEF WritesKey
  <2>1. /\ \A j \in Key : (Installs(t) /\ j = n) \/
              (chain'[j] = chain[j] /\ Top(j)' = Top(j) /\ Installed(j)' = Installed(j))
        /\ Pending(t, n) => \A u \in Txn : Pending(u, n) => u = t
    <3>1. \A j \in Key : (Installs(t) /\ j = n) \/
              (chain'[j] = chain[j] /\ Top(j)' = Top(j) /\ Installed(j)' = Installed(j))
      BY <2>0 DEF WritesKey
    <3>2. Pending(t, n) => \A u \in Txn : Pending(u, n) => u = t
      BY <2>0 DEF WritesKey
    <3>. QED
      BY <3>1, <3>2
  <2>7. Installs(t) => Installed(n) = Tail(hist[n]) /\ hist[n] # <<>>
    BY <2>0 DEF WritesKey
  <2>8. Installs(t) => Installed(n)' = hist[n]
    BY <2>0 DEF WritesKey
  <2>2. UNCHANGED <<csn, hist>>
    BY <1>2, <1>8, WriteEffect DEF SessionInv
  <2>3. /\ \A u \in Txn, j \in Key :
              Pending(u, j)' <=> Pending(u, j) /\ ~(u = t /\ j = n /\ Installs(t))
        /\ Installs(t) => Pending(t, n)
    BY <1>8, <2>6, WritePending
  <2>. SUFFICES ASSUME NEW k \in Key PROVE StoreStep(k)
    OBVIOUS
  <2>4. CASE ~(Installs(t) /\ k = n)
    <3>1. Untouched(k) /\ Top(k)' = Top(k)
      BY <2>1, <2>4 DEF Untouched
    <3>. QED
      BY <2>2, <2>3, <3>1 DEF StoreStep
  <2>5. CASE Installs(t) /\ k = n
    <3>. DEFINE v == Version(csn[t], access[t][n].type = "DEL")
                w == Version(csn[t], TRUE)
    <3>1. PICK q \in Versions : (q = chain[n] \/ q = <<w>> \o chain[n]) /\ chain'[n] = <<v>> \o q
      BY <2>0, <2>5, Zenon DEF WritesKey
    <3>2. Pending(t, n) /\ Installed(n)' = <<v>> \o Installed(n) /\ Installed(n) = Tail(hist[n]) /\ hist[n] # <<>>
      <4>1. hist[n] = <<v>> \o Installed(n)
        BY <2>0, <2>5, Zenon DEF WritesKey
      <4>. HIDE DEF v
      <4>. QED
        BY <2>3, <2>5, <2>7, <2>8, <4>1
    <3>3. v \in VersionSet /\ w \in VersionSet /\ v.csn = csn[t] /\ w.csn = csn[t] /\ hist[n] \in Versions
      BY <1>2 DEF Version, VersionSet, TypeInv, StoreType, SessionType
    <3>. HIDE DEF v, w
    <3>4. Installed(n) \in Versions
      BY <3>2, <3>3 DEF Versions
    <3>5. InstallStep(k)
      BY <2>5, <3>1, <3>2, <3>3, <3>4 DEF InstallStep
    <3>6. \A u \in Txn : ~Pending(u, k)'
      BY <2>1, <2>3, <2>5
    <3>. QED
      BY <2>2, <3>5, <3>6 DEF StoreStep
  <2>. QED
    BY <2>4, <2>5
<1>. QED
  BY <1>1, <1>3, <1>4, <1>5, <1>6, <1>7, <1>8

-----------------------------------------------------------------------------
(* Epochs: what a step means for the collector and for the sessions.       *)

CollectStep(t) ==
    \/ RunQuicese(t) \/ (\E u \in Txn : MinActiveEpoch(t, u))
    \/ SetActiveEpoch(t) \/ GcEndTxn(t)

LookupStep(t) ==
    \/ \E k \in Key : \/ \E type \in {"RD", "WR"} : RowLookup(t, k, type)
                      \/ DeleteLastRow(t, k) \/ InsertRow(t, k)
    \/ GetVisibleRowVersion(t) \/ GetVisiblePrimaryHeader(t)
    \/ TopRow(t) \/ GetVisibleRowForUpdate(t)

EpochStep(t) ==
    \/ \E level \in {"RC", "RR"} : StartTransaction(t, level)
    \/ StartStatement(t) \/ SetSnapshot(t) \/ FinishStatement(t)
    \/ \E thresholdReached \in BOOLEAN : EndTransaction(t, thresholdReached)

StableStep(t) ==
    \/ ValidateCommit(t) \/ RetryLock(t)
    \/ TryLock(t) \/ SetCommitCsn(t) \/ WriteStep(t) \/ RowVersionDtor(t)

LEMMA NextKinds ==
    ASSUME Next
    PROVE  \E t \in Txn : CollectStep(t) \/ LookupStep(t) \/ EpochStep(t) \/ StableStep(t)
<1>1. PICK t \in Txn : Statement(t) \/ Lookup(t) \/ ValidateCommit(t) \/ Commit(t) \/ Collect(t)
  BY DEF Next
<1>2. CASE Statement(t)
  BY <1>2 DEF Statement, LookupStep, EpochStep
<1>3. CASE Lookup(t)
  BY <1>3 DEF Lookup, LookupStep
<1>4. CASE ValidateCommit(t)
  BY <1>4 DEF StableStep
<1>5. CASE Commit(t)
  BY <1>5 DEF Commit, StableStep, EpochStep, WriteStep
<1>6. CASE Collect(t)
  BY <1>6 DEF Collect, StableStep, CollectStep
<1>. QED
  BY <1>1, <1>2, <1>3, <1>4, <1>5, <1>6

Others(t) == \A u \in Txn \ {t} : SameSession(u) /\ late'[u] = late[u]

\* A step that leaves the collector alone.
Unobserved(t) ==
    /\ UNCHANGED <<activeEpoch, bound, scan>> /\ clock' \in Nat /\ clock <= clock'
    /\ pc[t] # "scan" /\ pc'[t] # "scan" /\ (pc'[t] = "reclaim" => pc[t] = "reclaim")

LEMMA LookupFrame ==
    ASSUME OccInv, NEW t \in Txn, LookupStep(t)
    PROVE  /\ Others(t) /\ Unobserved(t)
           /\ snap'[t] = snap[t] /\ gcEpoch'[t] = gcEpoch[t] /\ late'[t] = late[t]
           /\ pc[t] \in {"ready"} \cup LookingUp
<1>0. /\ pc \in [Txn -> Label] /\ access \in [Txn -> [Key -> AccessSet]]
      /\ cur \in [Txn -> LookupSet] /\ got \in [Txn -> ResultSet] /\ clock \in Nat
  BY CsnNat DEF OccInv, TypeInv, SessionType, StoreType
<1>. DEFINE Goal == /\ UNCHANGED <<clock, activeEpoch, bound, scan, iso, snap, csn, gcEpoch, late>>
                    /\ \A u \in Txn \ {t} : /\ pc'[u] = pc[u] /\ access'[u] = access[u]
                                            /\ cur'[u] = cur[u] /\ got'[u] = got[u]
                    /\ pc[t] \in {"ready"} \cup LookingUp
                    /\ pc'[t] \in {"ready", "abort"} \cup LookingUp
<1>1. SUFFICES Goal
  BY <1>0 DEF Others, Unobserved, SameSession, LookingUp
<1>. USE DEF Goto, LookingUp, gcVars, txnVars
<1>2. ASSUME NEW k \in Key, NEW type \in {"RD", "WR"}, RowLookup(t, k, type) PROVE Goal
  BY <1>0, <1>2 DEF RowLookup
<1>3. ASSUME NEW k \in Key, DeleteLastRow(t, k) PROVE Goal
  BY <1>0, <1>3 DEF DeleteLastRow
<1>4. ASSUME NEW k \in Key, InsertRow(t, k) PROVE Goal
  <2>1. /\ pc[t] = "ready" /\ got' = [got EXCEPT ![t] = NoResult]
        /\ UNCHANGED <<clock, activeEpoch, bound, scan, iso, snap, csn, gcEpoch, late, cur>>
    BY <1>4 DEF InsertRow
  <2>2. UNCHANGED pc \/ pc' = [pc EXCEPT ![t] = "abort"]
    BY <1>4 DEF InsertRow
  <2>3. UNCHANGED access \/ \E a : access' = [access EXCEPT ![t][k] = a]
    BY <1>4 DEF InsertRow
  <2>. QED
    BY <1>0, <2>1, <2>2, <2>3
<1>5. CASE GetVisibleRowVersion(t)
  BY <1>0, <1>5 DEF GetVisibleRowVersion, Return
<1>6. CASE GetVisiblePrimaryHeader(t)
  BY <1>0, <1>6 DEF GetVisiblePrimaryHeader, Return
<1>7. CASE TopRow(t)
  BY <1>0, <1>7 DEF TopRow, RowForUpdate, Return
<1>8. CASE GetVisibleRowForUpdate(t)
  BY <1>0, <1>8 DEF GetVisibleRowForUpdate, RowForUpdate, Return
<1>. QED
  BY <1>2, <1>3, <1>4, <1>5, <1>6, <1>7, <1>8 DEF LookupStep

LEMMA EpochFrame ==
    ASSUME OccInv, NEW t \in Txn, EpochStep(t)
    PROVE  /\ Others(t) /\ Unobserved(t) /\ clock' = clock
           /\ pc'[t] # "fetch" /\ got'[t] = NoResult
           /\ \/ access'[t] = [k \in Key |-> NoAccess]
              \/ access'[t] = access[t] /\ (Accessed(t) = {} \/ gcEpoch'[t] = gcEpoch[t])
           /\ \/ snap'[t] = 0
              \/ /\ snap'[t] = snap[t] /\ late'[t] = late[t]
                 /\ gcEpoch'[t] = gcEpoch[t] \/ gcEpoch'[t] = snap[t]
              \/ snap'[t] = clock /\ gcEpoch'[t] = gcEpoch[t] 
           /\ gcEpoch'[t] \in {0, gcEpoch[t], snap[t], clock}
<1>0. /\ pc \in [Txn -> Label] /\ access \in [Txn -> [Key -> AccessSet]]
      /\ cur \in [Txn -> LookupSet] /\ got \in [Txn -> ResultSet] /\ clock \in Nat
      /\ iso \in [Txn -> {"RC", "RR"}] /\ snap \in [Txn -> Csn] /\ csn \in [Txn -> Csn]
      /\ gcEpoch \in [Txn -> Csn] /\ late \in [Txn -> BOOLEAN]
  BY CsnNat DEF OccInv, TypeInv, SessionType, StoreType
<1>1. ShapeInv(t)
  BY DEF OccInv, SessionInv
<1>. USE DEF Goto, gcVars, txnVars, Others, Unobserved, SameSession
<1>2. CASE \E level \in {"RC", "RR"} : StartTransaction(t, level)
  BY <1>0, <1>1, <1>2 DEF StartTransaction, ShapeInv, Outside
<1>3. CASE StartStatement(t)
  BY <1>0, <1>1, <1>3 DEF StartStatement, ShapeInv
<1>4. CASE SetSnapshot(t)
  BY <1>0, <1>1, <1>4 DEF SetSnapshot, ShapeInv
<1>5. CASE FinishStatement(t)
  BY <1>0, <1>1, <1>5 DEF FinishStatement, ShapeInv, ReadOnly
<1>6. CASE \E thresholdReached \in BOOLEAN : EndTransaction(t, thresholdReached)
  BY <1>0, <1>1, <1>6 DEF EndTransaction, MayEnd
<1>. QED
  BY <1>2, <1>3, <1>4, <1>5, <1>6 DEF EpochStep

LEMMA StableFrame ==
    ASSUME OccInv, NEW t \in Txn, StableStep(t)
    PROVE  /\ Others(t) /\ Unobserved(t)
           /\ snap'[t] = snap[t] /\ gcEpoch'[t] = gcEpoch[t] /\ late'[t] = late[t]
           /\ access'[t] = access[t] /\ got'[t] = got[t] /\ pc'[t] # "fetch" /\ pc[t] # "ready"
<1>0. /\ pc \in [Txn -> Label] /\ cur \in [Txn -> LookupSet] /\ clock \in Nat /\ csn \in [Txn -> Csn]
      /\ TypeInv /\ ShapeInv(t) /\ AccessInv(t) /\ LockInv(t)
  BY CsnNat DEF OccInv, TypeInv, SessionType, StoreType, SessionInv
<1>. USE DEF Goto, gcVars, txnVars, Others, Unobserved, SameSession
<1>1. CASE ValidateCommit(t)
  BY <1>0, <1>1 DEF ValidateCommit
<1>2. CASE RetryLock(t)
  BY <1>0, <1>2 DEF RetryLock
<1>3. CASE TryLock(t)
  BY <1>0, <1>3 DEF TryLock
<1>4. CASE SetCommitCsn(t)
  BY <1>0, <1>4 DEF SetCommitCsn
<1>5. CASE WriteStep(t)
  <2>1. /\ UNCHANGED <<clock, lock, iso, snap, access, got, csn, gcVars, hist, late>>
        /\ pc[t] \in {"global", "sentinel"}
    BY <1>0, <1>5, WriteEffect
  <2>2. pc'[t] \in Committed /\ \A u \in Txn \ {t} : SameSession(u)
    BY <1>5, WritePending
  <2>. QED
    BY <1>0, <2>1, <2>2 DEF Committed
<1>6. CASE RowVersionDtor(t)
  BY <1>0, <1>6 DEF RowVersionDtor
<1>. QED
  BY <1>1, <1>2, <1>3, <1>4, <1>5, <1>6 DEF StableStep

\* The collector works between transactions and looks at epochs only.
LEMMA CollectFrame ==
    ASSUME OccInv, NEW t \in Txn, CollectStep(t)
    PROVE  /\ UNCHANGED <<clock, snap, access, cur, got, csn>>
           /\ \A u \in Txn \ {t} : pc'[u] = pc[u] /\ gcEpoch'[u] = gcEpoch[u]
           /\ pc[t] \in Outside /\ pc'[t] \in Outside
           /\ gcEpoch'[t] \in {0, gcEpoch[t]}
           /\ \A u \in Txn : late[u] => late'[u]
<1>0. /\ pc \in [Txn -> Label] /\ gcEpoch \in [Txn -> Csn] /\ late \in [Txn -> BOOLEAN]
  BY DEF OccInv, TypeInv, SessionType
<1>. USE DEF Goto, Outside, txnVars
<1>1. CASE RunQuicese(t)
  BY <1>0, <1>1 DEF RunQuicese
<1>2. ASSUME NEW u \in Txn, MinActiveEpoch(t, u)
      PROVE  /\ UNCHANGED <<clock, snap, access, cur, got, csn, pc, gcEpoch>> /\ pc[t] = "scan"
             /\ \A w \in Txn : late[w] => late'[w]
  BY <1>0, <1>2 DEF MinActiveEpoch
<1>3. CASE SetActiveEpoch(t)
  BY <1>0, <1>3 DEF SetActiveEpoch
<1>4. CASE GcEndTxn(t)
  BY <1>0, <1>4 DEF GcEndTxn
<1>. QED
  BY <1>1, <1>2, <1>3, <1>4 DEF CollectStep

LEMMA GcTypes ==
    ASSUME OccInv
    PROVE  /\ clock \in Nat /\ activeEpoch \in Nat /\ Csn \subseteq Nat /\ 0 \in Csn
           /\ bound \in [Txn -> Csn] /\ gcEpoch \in [Txn -> Csn] /\ snap \in [Txn -> Csn]
           /\ csn \in [Txn -> Csn] /\ late \in [Txn -> BOOLEAN] /\ pc \in [Txn -> Label]
           /\ scan \in ScanSet /\ scan.todo \subseteq Txn
           /\ \A u \in Txn : bound[u] \in Nat /\ gcEpoch[u] \in Nat /\ snap[u] \in Nat /\ csn[u] \in Nat
           /\ \A u \in Txn : snap[u] <= clock
<1>1. TypeInv /\ \A u \in Txn : ShapeInv(u)
  BY DEF OccInv, SessionInv
<1>. QED
  BY <1>1, CsnNat DEF TypeInv, StoreType, SessionType, ShapeInv, ScanSet

\* Nothing is reclaimed of what is yet to be committed.
LEMMA ClockSpared ==
    ASSUME OccInv, ScanInv, NEW t \in Txn, NEW c \in Nat, c >= clock
    PROVE  Spares(t, c)
  BY GcTypes DEF ScanInv, Spares

LEMMA UnobservedSpares ==
    ASSUME NEW t \in Txn, Others(t), Unobserved(t), NEW u \in Txn, NEW c \in Nat, Spares(u, c)
    PROVE  Spares(u, c)'
<1>1. \A w \in Txn : pc'[w] = "reclaim" => pc[w] = "reclaim"
  BY DEF Others, Unobserved, SameSession
<1>2. \A w \in Txn : pc'[w] = "scan" => pc[w] = "scan"
  BY DEF Others, Unobserved, SameSession
<1>. QED
  BY <1>1, <1>2 DEF Spares, Unobserved

\* A scan ends with a bound that is no more than any epoch published before the
\* scan has passed its session.
LEMMA CollectSpares ==
    ASSUME OccInv, ScanInv, NEW t \in Txn, CollectStep(t), NEW u \in Txn, NEW c \in Nat,
           Spares(u, c), gcEpoch[u] <= c, gcEpoch[u] # 0 \/ (snap[u] # 0 /\ ~late'[u])
    PROVE  Spares(u, c)'
<1>0. /\ bound \in [Txn -> Csn] /\ gcEpoch \in [Txn -> Csn] /\ pc \in [Txn -> Label] /\ Csn \subseteq Nat
      /\ scan \in ScanSet /\ activeEpoch \in Nat /\ late \in [Txn -> BOOLEAN]
      /\ \A w \in Txn : bound[w] \in Nat /\ gcEpoch[w] \in Nat
  BY GcTypes
<1>1. /\ activeEpoch <= c
      /\ \A w \in Txn : pc[w] = "reclaim" => bound[w] <= c
      /\ \A w \in Txn : pc[w] = "scan" /\ u \notin scan.todo => bound[w] <= c
  BY DEF Spares
<1>2. CASE RunQuicese(t)
  <2>1. CASE pc' = [pc EXCEPT ![t] = "scan"] /\ scan.by = NoTxn /\ scan' = [by |-> t, todo |-> Txn \ {t}]
             /\ bound' = [bound EXCEPT ![t] = gcEpoch[t]] /\ activeEpoch' = activeEpoch
    <3>1. \A w \in Txn : pc[w] # "scan"
      BY <2>1, NoTxnAssumption DEF ScanInv
    <3>2. \A w \in Txn \ {t} : pc'[w] = pc[w] /\ bound'[w] = bound[w]
      BY <1>0, <2>1
    <3>3. pc'[t] = "scan" /\ bound'[t] = gcEpoch[t] /\ scan'.todo = Txn \ {t}
      BY <1>0, <2>1
    <3>4. u \notin scan'.todo => u = t
      BY <3>3
    <3>. QED
      BY <1>0, <1>1, <2>1, <3>1, <3>2, <3>3, <3>4 DEF Spares
  <2>2. CASE pc' = [pc EXCEPT ![t] = "reclaim"] /\ bound' = [bound EXCEPT ![t] = activeEpoch]
             /\ UNCHANGED <<scan, activeEpoch>>
    <3>1. \A w \in Txn \ {t} : pc'[w] = pc[w] /\ bound'[w] = bound[w]
      BY <1>0, <2>2
    <3>2. pc'[t] = "reclaim" /\ bound'[t] = activeEpoch
      BY <1>0, <2>2
    <3>. QED
      BY <1>0, <1>1, <2>2, <3>1, <3>2 DEF Spares
  <2>. QED
    BY <1>2, <2>1, <2>2 DEF RunQuicese, Goto
<1>3. ASSUME NEW w \in Txn, MinActiveEpoch(t, w) PROVE Spares(u, c)'
  <2>1. /\ pc[t] = "scan" /\ w \in scan.todo /\ UNCHANGED <<pc, gcEpoch, activeEpoch, snap>>
        /\ scan' = [scan EXCEPT !.todo = @ \ {w}]
        /\ bound' = [bound EXCEPT ![t] = IF gcEpoch[w] # 0 /\ gcEpoch[w] < bound[t] THEN gcEpoch[w]
                                         ELSE bound[t]]
        /\ late' = [late EXCEPT ![w] = @ \/ (snap[w] # 0 /\ gcEpoch[w] = 0)]
    BY <1>3 DEF MinActiveEpoch, txnVars
  <2>2. \A x \in Txn : pc[x] = "scan" => x = t
    BY <2>1 DEF ScanInv
  <2>3. /\ \A x \in Txn \ {t} : bound'[x] = bound[x]
        /\ bound'[t] = IF gcEpoch[w] # 0 /\ gcEpoch[w] < bound[t] THEN gcEpoch[w] ELSE bound[t]
        /\ scan'.todo = scan.todo \ {w}
    BY <1>0, <2>1 DEF ScanSet
  <2>4. ASSUME u \notin scan'.todo PROVE bound'[t] <= c
    <3>1. CASE u = w
      <4>1. gcEpoch[u] # 0
        BY <1>0, <2>1, <3>1
      <4>. QED
        BY <1>0, <2>3, <3>1, <4>1
    <3>2. CASE u # w
      <4>1. bound[t] <= c
        BY <1>1, <2>1, <2>3, <2>4, <3>2
      <4>. QED
        BY <1>0, <2>3, <4>1
    <3>. QED
      BY <3>1, <3>2
  <2>5. \A x \in Txn : pc[x] = "reclaim" => x # t
    BY <2>1
  <2>. QED
    BY <1>1, <2>1, <2>2, <2>3, <2>4, <2>5 DEF Spares
<1>4. CASE SetActiveEpoch(t)
  <2>1. /\ pc[t] = "scan" /\ scan.todo = {} /\ activeEpoch' = bound[t]
        /\ pc' = [pc EXCEPT ![t] = "reclaim"] /\ UNCHANGED bound
    BY <1>4 DEF SetActiveEpoch, Goto
  <2>2. bound[t] <= c
    BY <1>1, <2>1
  <2>3. \A x \in Txn : pc[x] = "scan" => x = t
    BY <2>1 DEF ScanInv
  <2>4. pc'[t] = "reclaim" /\ \A x \in Txn \ {t} : pc'[x] = pc[x]
    BY <1>0, <2>1
  <2>5. \A x \in Txn : pc'[x] # "scan"
    BY <2>3, <2>4
  <2>6. \A x \in Txn : pc'[x] = "reclaim" => bound'[x] <= c
    BY <1>1, <2>1, <2>2, <2>4
  <2>. QED
    BY <2>1, <2>2, <2>5, <2>6 DEF Spares
<1>5. CASE GcEndTxn(t)
  <2>1. /\ pc' = [pc EXCEPT ![t] = "idle"] /\ bound' = [bound EXCEPT ![t] = 0] /\ UNCHANGED <<scan, activeEpoch>>
    BY <1>5 DEF GcEndTxn, Goto
  <2>2. pc'[t] = "idle" /\ \A x \in Txn \ {t} : pc'[x] = pc[x] /\ bound'[x] = bound[x]
    BY <1>0, <2>1
  <2>. QED
    BY <1>1, <2>1, <2>2 DEF Spares
<1>. QED
  BY <1>2, <1>3, <1>4, <1>5 DEF CollectStep

LEMMA ScanStep ==
    ASSUME OccInv, ScanInv, Next
    PROVE  ScanInv' /\ clock <= clock'
<1>0. /\ bound \in [Txn -> Csn] /\ gcEpoch \in [Txn -> Csn] /\ pc \in [Txn -> Label] /\ Csn \subseteq Nat
      /\ clock \in Nat /\ scan \in ScanSet /\ activeEpoch \in Nat
      /\ \A w \in Txn : bound[w] \in Nat /\ gcEpoch[w] \in Nat /\ snap[w] \in Nat /\ snap[w] <= clock
  BY GcTypes
<1>1. PICK t \in Txn : CollectStep(t) \/ LookupStep(t) \/ EpochStep(t) \/ StableStep(t)
  BY NextKinds
<1>2. /\ \A w \in Txn : pc[w] = "scan" <=> scan.by = w
      /\ activeEpoch <= clock
      /\ \A w \in Txn : gcEpoch[w] <= clock /\ bound[w] <= clock
  BY DEF ScanInv
<1>3. ASSUME Others(t), Unobserved(t), gcEpoch'[t] \in {0, gcEpoch[t], snap[t], clock}
      PROVE  ScanInv' /\ clock <= clock'
  <2>1. UNCHANGED <<activeEpoch, bound, scan>> /\ clock' \in Nat /\ clock <= clock'
    BY <1>3 DEF Unobserved
  <2>2. \A w \in Txn : pc'[w] = "scan" <=> pc[w] = "scan"
    BY <1>3 DEF Others, Unobserved, SameSession
  <2>3. ASSUME NEW w \in Txn PROVE gcEpoch'[w] <= clock' /\ bound'[w] <= clock'
    <3>1. gcEpoch'[w] \in Nat /\ gcEpoch'[w] <= clock
      <4>1. CASE w = t
        BY <1>0, <1>2, <1>3, <4>1
      <4>2. CASE w # t
        BY <1>0, <1>2, <1>3, <4>2 DEF Others, SameSession
      <4>. QED
        BY <4>1, <4>2
    <3>. QED
      BY <1>0, <1>2, <2>1, <3>1
  <2>4. activeEpoch' <= clock'
    BY <1>0, <1>2, <2>1
  <2>. QED
    BY <1>2, <2>1, <2>2, <2>3, <2>4 DEF ScanInv
<1>4. CASE LookupStep(t) \/ StableStep(t)
  BY <1>3, <1>4, LookupFrame, StableFrame
<1>5. CASE EpochStep(t)
  BY <1>3, <1>5, EpochFrame
<1>6. CASE CollectStep(t)
  <2>1. UNCHANGED clock
    BY <1>6, CollectFrame
  <2>2. CASE RunQuicese(t)
    <3>1. CASE scan.by = NoTxn /\ pc' = [pc EXCEPT ![t] = "scan"] /\ scan' = [by |-> t, todo |-> Txn \ {t}]
               /\ bound' = [bound EXCEPT ![t] = gcEpoch[t]] /\ UNCHANGED <<gcEpoch, activeEpoch>>
      <4>1. \A w \in Txn : pc[w] # "scan"
        BY <1>2, <3>1, NoTxnAssumption
      <4>2. scan'.by = t /\ pc'[t] = "scan" /\ \A w \in Txn \ {t} : pc'[w] # "scan"
        BY <1>0, <3>1, <4>1
      <4>. QED
        BY <1>0, <1>2, <2>1, <3>1, <4>2 DEF ScanInv
    <3>2. CASE pc[t] = "quiesce" /\ pc' = [pc EXCEPT ![t] = "reclaim"]
               /\ bound' = [bound EXCEPT ![t] = activeEpoch] /\ UNCHANGED <<scan, gcEpoch, activeEpoch>>
      BY <1>0, <1>2, <2>1, <3>2 DEF ScanInv
    <3>. QED
      BY <2>2, <3>1, <3>2 DEF RunQuicese, Goto
  <2>3. ASSUME NEW u \in Txn, MinActiveEpoch(t, u) PROVE ScanInv'
    <3>1. /\ UNCHANGED <<pc, gcEpoch, activeEpoch>> /\ scan' = [scan EXCEPT !.todo = @ \ {u}]
          /\ bound' = [bound EXCEPT ![t] = IF gcEpoch[u] # 0 /\ gcEpoch[u] < bound[t] THEN gcEpoch[u]
                                           ELSE bound[t]]
      BY <2>3 DEF MinActiveEpoch
    <3>2. scan'.by = scan.by
      BY <1>0, <3>1 DEF ScanSet
    <3>. QED
      BY <1>0, <1>2, <2>1, <3>1, <3>2 DEF ScanInv
  <2>4. CASE SetActiveEpoch(t)
    <3>1. /\ pc[t] = "scan" /\ activeEpoch' = bound[t] /\ scan' = NoScan
          /\ pc' = [pc EXCEPT ![t] = "reclaim"] /\ UNCHANGED <<bound, gcEpoch>>
      BY <2>4 DEF SetActiveEpoch, Goto
    <3>2. \A w \in Txn : pc'[w] # "scan" /\ scan'.by # w
      BY <1>0, <1>2, <3>1, NoTxnAssumption DEF NoScan
    <3>. QED
      BY <1>0, <1>2, <2>1, <3>1, <3>2 DEF ScanInv
  <2>5. CASE GcEndTxn(t)
    <3>1. /\ pc[t] = "reclaim" /\ pc' = [pc EXCEPT ![t] = "idle"] /\ UNCHANGED <<scan, activeEpoch>>
          /\ gcEpoch' = [gcEpoch EXCEPT ![t] = 0] /\ bound' = [bound EXCEPT ![t] = 0]
      BY <2>5 DEF GcEndTxn, Goto
    <3>. QED
      BY <1>0, <1>2, <2>1, <3>1 DEF ScanInv
  <2>. QED
    BY <1>0, <1>6, <2>1, <2>2, <2>3, <2>4, <2>5 DEF CollectStep
<1>. QED
  BY <1>1, <1>4, <1>5, <1>6

LEMMA SparesStep ==
    ASSUME OccInv, ScanInv, Next, NEW u \in Txn, NEW c \in Nat, Spares(u, c),
           gcEpoch[u] <= c, gcEpoch[u] # 0 \/ (snap[u] # 0 /\ ~late'[u])
    PROVE  Spares(u, c)'
<1>1. PICK t \in Txn : CollectStep(t) \/ LookupStep(t) \/ EpochStep(t) \/ StableStep(t)
  BY NextKinds
<1>2. CASE CollectStep(t)
  BY <1>2, CollectSpares
<1>3. CASE LookupStep(t) \/ EpochStep(t) \/ StableStep(t)
  <2>1. Others(t) /\ Unobserved(t)
    BY <1>3, LookupFrame, EpochFrame, StableFrame
  <2>. QED
    BY <2>1, UnobservedSpares
<1>. QED
  BY <1>1, <1>2, <1>3

\* What is spared for a session is spared as long as it has its epoch, and all
\* that is yet to be committed is.
LEMMA SparedStep ==
    ASSUME OccInv, ScanInv, Next, NEW u \in Txn, gcEpoch[u] # 0, gcEpoch'[u] = gcEpoch[u]
    PROVE  Spared(u) \subseteq Spared(u)' /\ clock \in Spared(u)
<1>1. ASSUME NEW c \in Spared(u) PROVE c \in Spared(u)'
  <2>1. c \in Csn /\ c \in Nat /\ gcEpoch[u] <= c /\ Spares(u, c)
    BY CsnNat DEF Spared
  <2>2. Spares(u, c)'
    BY <2>1, SparesStep
  <2>. QED
    BY <2>1, <2>2 DEF Spared
<1>2. clock \in Csn /\ clock \in Nat /\ gcEpoch[u] <= clock
  BY CsnNat DEF ScanInv, OccInv, TypeInv, StoreType
<1>3. Spares(u, clock)
  BY <1>2, ClockSpared
<1>. QED
  BY <1>1, <1>2, <1>3 DEF Spared

\* A snapshot in use was in use before or has just been taken.
LEMMA SnapshotStep ==
    ASSUME OccInv, Next, NEW u \in Txn, snap'[u] # 0, ~late'[u]
    PROVE  \/ snap'[u] = snap[u] /\ ~late[u]
           \/ snap'[u] = clock /\ gcEpoch'[u] = gcEpoch[u] /\ \E t \in Txn : Others(t) /\ Unobserved(t)
<1>0. late \in [Txn -> BOOLEAN]
  BY GcTypes
<1>1. PICK t \in Txn : CollectStep(t) \/ LookupStep(t) \/ EpochStep(t) \/ StableStep(t)
  BY NextKinds
<1>2. CASE CollectStep(t)
  BY <1>0, <1>2, CollectFrame
<1>3. CASE LookupStep(t) \/ StableStep(t)
  BY <1>3, LookupFrame, StableFrame DEF Others, SameSession
<1>4. CASE EpochStep(t)
  BY <1>4, EpochFrame DEF Others, SameSession
<1>. QED
  BY <1>1, <1>2, <1>3, <1>4

LEMMA EpochInvStep ==
    ASSUME OccInv, GcInv, Next, NEW u \in Txn
    PROVE  EpochInv(u)'
<1>0. /\ ScanInv /\ EpochInv(u) /\ clock \in Nat /\ gcEpoch[u] \in Nat /\ snap[u] \in Nat
      /\ gcEpoch[u] <= clock
  BY GcTypes DEF GcInv, ScanInv
<1>1. ASSUME snap'[u] # 0 PROVE gcEpoch'[u] <= snap'[u]
  <2>1. PICK t \in Txn : CollectStep(t) \/ LookupStep(t) \/ EpochStep(t) \/ StableStep(t)
    BY NextKinds
  <2>2. CASE CollectStep(t)
    <3>1. snap'[u] = snap[u] /\ gcEpoch'[u] \in {0, gcEpoch[u]}
      BY <2>2, CollectFrame
    <3>. QED
      BY <1>0, <1>1, <3>1 DEF EpochInv
  <2>3. CASE LookupStep(t) \/ StableStep(t)
    <3>1. snap'[u] = snap[u] /\ gcEpoch'[u] = gcEpoch[u]
      BY <2>3, LookupFrame, StableFrame DEF Others, SameSession
    <3>. QED
      BY <1>0, <1>1, <3>1 DEF EpochInv
  <2>4. CASE EpochStep(t)
    <3>1. \/ snap'[u] = snap[u] /\ (gcEpoch'[u] = gcEpoch[u] \/ gcEpoch'[u] = snap[u])
          \/ snap'[u] = clock /\ gcEpoch'[u] = gcEpoch[u]
      BY <1>1, <2>4, EpochFrame DEF Others, SameSession
    <3>. QED
      BY <1>0, <1>1, <3>1 DEF EpochInv
  <2>. QED
    BY <2>1, <2>2, <2>3, <2>4
<1>2. ASSUME snap'[u] # 0, ~late'[u] PROVE Spares(u, snap[u])'
  <2>1. PICK s \in Nat : s = snap'[u]
    <3>1. snap'[u] \in Nat
      BY <1>0, <1>2, SnapshotStep
    <3>. QED
      BY <3>1
  <2>2. Spares(u, s)'
    <3>1. CASE snap'[u] = snap[u] /\ ~late[u]
      <4>1. Spares(u, s) /\ gcEpoch[u] <= s /\ snap[u] # 0
        BY <1>0, <1>2, <2>1, <3>1 DEF EpochInv
      <4>. QED
        BY <1>0, <1>2, <4>1, SparesStep
    <3>2. CASE snap'[u] = clock /\ \E t \in Txn : Others(t) /\ Unobserved(t)
      <4>1. Spares(u, s)
        BY <1>0, <2>1, <3>2, ClockSpared
      <4>. QED
        BY <3>2, <4>1, UnobservedSpares
    <3>. QED
      BY <1>2, <3>1, <3>2, SnapshotStep
  <2>3. Spares(u, s)' <=> Spares(u, snap[u])'
    BY <2>1 DEF Spares
  <2>. QED
    BY <2>2, <2>3
<1>. QED
  BY <1>1, <1>2 DEF EpochInv

\* Snapshots see the same in chain and history after a step.
LEMMA ChainInvStep ==
    ASSUME OccInv, GcInv, Next, NEW k \in Key
    PROVE  ChainInv(k)'
<1>0. /\ ScanInv /\ ChainInv(k) /\ clock \in Nat /\ clock <= clock' /\ Csn \subseteq Nat
      /\ \A u \in Txn : snap[u] \in Nat /\ csn[u] \in Nat /\ bound[u] \in Nat /\ EpochInv(u)
      /\ chain[k] \in Versions /\ hist[k] \in Versions
  BY GcTypes, ScanStep, TopType DEF GcInv, OccInv, TypeInv
<1>1. StoreStep(k)
  BY StoreSteps
<1>2. clock' \in Nat
  BY OccStep, GcTypes, CsnNat DEF OccInv, TypeInv, StoreType
<1>3. SUFFICES ASSUME NEW s \in Nat,
                      s >= clock' \/ (\E t \in Txn : snap'[t] = s /\ s # 0 /\ ~late'[t])
               PROVE  RowFromChain(s, chain'[k]) = RowFromChain(s, Installed(k)')
  BY DEF ChainInv
<1>4. s >= clock \/ \E t \in Txn : snap[t] = s /\ s # 0 /\ ~late[t]
  <2>1. CASE s >= clock'
    BY <1>0, <1>2, <2>1
  <2>2. ASSUME NEW t \in Txn, snap'[t] = s, s # 0, ~late'[t]
        PROVE  s >= clock \/ \E u \in Txn : snap[u] = s /\ s # 0 /\ ~late[u]
    <3>1. (snap[t] = s /\ ~late[t]) \/ s = clock
      BY <2>2, SnapshotStep
    <3>. QED
      BY <1>0, <2>2, <3>1
  <2>. QED
    BY <1>3, <2>1, <2>2
<1>5. RowFromChain(s, chain[k]) = RowFromChain(s, Installed(k))
  BY <1>0, <1>4 DEF ChainInv
<1>6. CASE Untouched(k)
  BY <1>5, <1>6 DEF Untouched
<1>7. CASE CutStep(k)
  <2>1. PICK u \in Txn, c \in Csn :
           pc[u] = "reclaim" /\ c < bound[u] /\ chain'[k] = CutBelow(c, chain[k])
    BY <1>7 DEF CutStep
  <2>2. bound[u] <= s
    <3>1. CASE s >= clock
      <4>1. bound[u] <= clock
        BY <1>0 DEF ScanInv
      <4>. QED
        BY <1>0, <3>1, <4>1
    <3>2. ASSUME NEW t \in Txn, snap[t] = s, s # 0, ~late[t] PROVE bound[u] <= s
      BY <1>0, <2>1, <3>2 DEF EpochInv, Spares
    <3>. QED
      BY <1>4, <3>1, <3>2
  <2>3. s > c /\ c \in Nat
    BY <1>0, <2>1, <2>2
  <2>4. RowFromChain(s, CutBelow(c, chain[k])) = RowFromChain(s, chain[k])
    BY <1>0, <2>3, SeesCut
  <2>5. Installed(k)' = Installed(k)
    BY <1>7 DEF CutStep
  <2>. QED
    BY <1>5, <2>1, <2>4, <2>5
<1>8. CASE InstallStep(k)
  <2>1. PICK u \in Txn, v \in VersionSet, q \in Versions :
           /\ v.csn = csn[u]
           /\ \/ q = chain[k]
              \/ \E w \in VersionSet : w.csn = csn[u] /\ q = <<w>> \o chain[k]
           /\ chain'[k] = <<v>> \o q
           /\ Installed(k) \in Versions /\ Installed(k)' = <<v>> \o Installed(k)
    BY <1>8 DEF InstallStep
  <2>2. ~(s > csn[u]) => RowFromChain(s, q) = RowFromChain(s, chain[k])
    BY <1>0, <2>1, SeesPrepended
  <2>3. RowFromChain(s, <<v>> \o q) =
           IF s > v.csn THEN (IF v.deleted THEN 0 ELSE v.csn) ELSE RowFromChain(s, q)
    BY SeesPrepended
  <2>4. RowFromChain(s, <<v>> \o Installed(k)) =
           IF s > v.csn THEN (IF v.deleted THEN 0 ELSE v.csn) ELSE RowFromChain(s, Installed(k))
    BY <2>1, SeesPrepended
  <2>. QED
    BY <1>5, <2>1, <2>2, <2>3, <2>4
<1>. QED
  BY <1>1, <1>6, <1>7, <1>8 DEF StoreStep

\* A version in a chain stays there as long as all in front of it is spared.
LEMMA AboveStep ==
    ASSUME OccInv, NEW k \in Key, StoreStep(k), NEW S \in SUBSET Csn, NEW c, Above(chain[k], c, S),
           \A u \in Txn : Pending(u, k) => csn[u] \in S,
           \A u \in Txn : pc[u] = "reclaim" => \A d \in S : bound[u] <= d
    PROVE  Above(chain'[k], c, S)
<1>0. chain[k] \in Versions /\ Csn \subseteq Nat /\ \A u \in Txn : bound[u] \in Nat
  BY GcTypes, TopType DEF OccInv, TypeInv
<1>1. CASE Untouched(k)
  BY <1>1 DEF Untouched
<1>2. CASE CutStep(k)
  <2>1. PICK u \in Txn, d \in Csn :
           pc[u] = "reclaim" /\ d < bound[u] /\ chain'[k] = CutBelow(d, chain[k])
    BY <1>2 DEF CutStep
  <2>2. d \notin S /\ d \in Nat
    BY <1>0, <2>1
  <2>. QED
    BY <1>0, <2>1, <2>2, AboveCut
<1>3. CASE InstallStep(k)
  <2>1. PICK u \in Txn, v \in VersionSet, q \in Versions :
           /\ Pending(u, k) /\ v.csn = csn[u]
           /\ \/ q = chain[k]
              \/ \E w \in VersionSet : w.csn = csn[u] /\ q = <<w>> \o chain[k]
           /\ chain'[k] = <<v>> \o q
    BY <1>3 DEF InstallStep
  <2>2. csn[u] \in S
    BY <2>1
  <2>3. Above(q, c, S)
    BY <1>0, <2>1, <2>2, AbovePrepended
  <2>. QED
    BY <2>1, <2>2, <2>3, AbovePrepended
<1>. QED
  BY <1>1, <1>2, <1>3 DEF StoreStep

-----------------------------------------------------------------------------
(* Versions in the hands of a session.                                     *)

LEMMA HeldKept ==
    ASSUME OccInv, GcInv, Next, NEW t \in Txn, gcEpoch[t] # 0, gcEpoch'[t] = gcEpoch[t],
           NEW k \in Key, access[t][k].csn # 0, access[t][k].upgrade # "onDeleted"
    PROVE  /\ Above(chain'[k], access[t][k].csn, Spared(t)')
           /\ \A u \in Txn : Pending(u, k)' => csn'[u] \in Spared(t)'
<1>1. /\ Above(chain[k], access[t][k].csn, Spared(t))
      /\ \A u \in Txn : Pending(u, k) => csn[u] \in Spared(t)
  BY DEF GcInv, HeldInv
<1>2. Spared(t) \subseteq Spared(t)' /\ clock \in Spared(t) /\ StoreStep(k)
  BY SparedStep, StoreSteps DEF GcInv
<1>3. Above(chain'[k], access[t][k].csn, Spared(t))
  <2>1. \A u \in Txn : pc[u] = "reclaim" => \A d \in Spared(t) : bound[u] <= d
    BY DEF Spared, Spares
  <2>2. Spared(t) \in SUBSET Csn
    BY DEF Spared
  <2>. QED
    BY <1>1, <1>2, <2>1, <2>2, AboveStep
<1>4. Above(chain'[k], access[t][k].csn, Spared(t)')
  BY <1>2, <1>3, AboveMore
<1>5. \A u \in Txn : Pending(u, k)' => csn'[u] \in Spared(t)'
  BY <1>1, <1>2 DEF StoreStep
<1>. QED
  BY <1>4, <1>5

LEMMA HeldSame ==
    ASSUME OccInv, GcInv, Next, Key' = Key, NEW t \in Txn,
           \A k \in Key : \/ access'[t][k] = access[t][k]
                          \/ access'[t][k].csn = 0 \/ access'[t][k].upgrade = "onDeleted"
                          \/ /\ access'[t][k].csn = access[t][k].csn
                             /\ access[t][k].upgrade # "onDeleted",
           Accessed(t) = {} \/ gcEpoch'[t] = gcEpoch[t],
           pc'[t] = "fetch" => pc[t] = "fetch" /\ cur'[t] = cur[t] /\ gcEpoch'[t] = gcEpoch[t]
    PROVE  HeldInv(t)'
<1>0. ShapeInv(t)
  BY DEF OccInv, SessionInv
<1>1. ASSUME NEW k \in Key, access'[t][k].csn # 0, access'[t][k].upgrade # "onDeleted"
      PROVE  /\ Above(chain'[k], access'[t][k].csn, Spared(t)')
             /\ \A u \in Txn : Pending(u, k)' => csn'[u] \in Spared(t)'
  <2>1. access'[t][k].csn = access[t][k].csn /\ access[t][k].upgrade # "onDeleted"
    BY <1>1
  <2>2. k \in Accessed(t)
    BY <1>1, <2>1 DEF Accessed, NoAccess
  <2>3. gcEpoch[t] # 0 /\ gcEpoch'[t] = gcEpoch[t]
    BY <1>0, <2>2 DEF ShapeInv
  <2>4. access[t][k].csn # 0
    BY <1>1, <2>1
  <2>5. /\ Above(chain'[k], access[t][k].csn, Spared(t)')
        /\ \A u \in Txn : Pending(u, k)' => csn'[u] \in Spared(t)'
    BY <2>1, <2>3, <2>4, HeldKept
  <2>. QED
    BY <2>1, <2>5
<1>2. ASSUME pc'[t] = "fetch", NEW k \in Key, cur'[t].key = k, NEW u \in Txn, Pending(u, k)'
      PROVE  Top(k)' = cur'[t].top \/ csn'[u] \in Spared(t)'
  <2>1. pc[t] = "fetch" /\ cur'[t] = cur[t] /\ gcEpoch'[t] = gcEpoch[t] /\ gcEpoch[t] # 0
    BY <1>0, <1>2 DEF ShapeInv, LookingUp
  <2>2. Spared(t) \subseteq Spared(t)' /\ clock \in Spared(t) /\ StoreStep(k)
    BY <2>1, SparedStep, StoreSteps DEF GcInv
  <2>3. Pending(u, k) => Top(k) = cur[t].top \/ csn[u] \in Spared(t)
    BY <1>2, <2>1 DEF GcInv, HeldInv
  <2>. QED
    BY <1>2, <2>1, <2>2, <2>3 DEF StoreStep
<1>. QED
  BY <1>1, <1>2 DEF HeldInv

LEMMA ReadSame ==
    ASSUME OccInv, GcInv, Next, Key' = Key, NEW t \in Txn,
           got'[t] = got[t], snap'[t] = snap[t], late[t] => late'[t]
    PROVE  ReadInv(t)'
<1>. SUFFICES ASSUME Read(t)', ~late'[t], NEW k \in Key, got'[t].key = k
              PROVE  /\ ~got'[t].hasty => got'[t].csn = RowFromChain(snap'[t], hist'[k])
                     /\ got'[t].csn # 0 =>
                           /\ Above(chain'[k], got'[t].csn, Beyond(t)')
                           /\ \A u \in Txn : Pending(u, k)' => csn'[u] \in Beyond(t)'
  BY DEF ReadInv
<1>1. Read(t) /\ ~late[t] /\ got[t].key = k
  BY DEF Read
<1>2. /\ ~got[t].hasty => got[t].csn = RowFromChain(snap[t], hist[k])
      /\ got[t].csn # 0 =>
            /\ Above(chain[k], got[t].csn, Beyond(t))
            /\ \A u \in Txn : Pending(u, k) => csn[u] \in Beyond(t)
  BY <1>1 DEF GcInv, ReadInv
<1>3. /\ snap[t] \in Nat /\ snap[t] <= clock /\ clock \in Nat /\ Csn \subseteq Nat
      /\ \A u \in Txn : bound[u] \in Nat
  BY GcTypes
<1>4. StoreStep(k)
  BY StoreSteps
<1>5. RowFromChain(snap[t], hist'[k]) = RowFromChain(snap[t], hist[k])
  BY <1>3, <1>4 DEF StoreStep
<1>6. snap[t] # 0
  <2>1. got[t] # NoResult /\ ShapeInv(t)
    BY <1>1 DEF Read, NoResult, OccInv, SessionInv
  <2>. QED
    BY <2>1 DEF ShapeInv
<1>7. Beyond(t)' = Beyond(t) /\ Beyond(t) \in SUBSET Csn
  BY DEF Beyond
<1>8. \A u \in Txn : pc[u] = "reclaim" => \A d \in Beyond(t) : bound[u] <= d
  <2>1. Spares(t, snap[t])
    BY <1>1, <1>6 DEF GcInv, EpochInv
  <2>. QED
    BY <1>3, <2>1 DEF Spares, Beyond
<1>9. ASSUME got[t].csn # 0
      PROVE  /\ Above(chain'[k], got[t].csn, Beyond(t))
             /\ \A u \in Txn : Pending(u, k)' => csn'[u] \in Beyond(t)
  <2>1. Above(chain'[k], got[t].csn, Beyond(t))
    BY <1>2, <1>4, <1>7, <1>8, <1>9, AboveStep
  <2>2. clock \in Beyond(t)
    BY <1>3 DEF Beyond, OccInv, TypeInv, StoreType
  <2>. QED
    BY <1>2, <1>4, <1>9, <2>1, <2>2 DEF StoreStep
<1>. QED
  BY <1>2, <1>5, <1>7, <1>9

\* A session that takes no part in a step.
LEMMA OtherSessions ==
    ASSUME OccInv, GcInv, Next, Key' = Key, NEW u \in Txn, SameSession(u), late[u] => late'[u]
    PROVE  HeldInv(u)' /\ ReadInv(u)'
<1>1. HeldInv(u)'
  BY HeldSame DEF SameSession
<1>2. ReadInv(u)'
  BY ReadSame DEF SameSession
<1>. QED
  BY <1>1, <1>2

LEMMA NothingRead ==
    ASSUME NEW t \in Txn, got'[t].key = 0 \/ got'[t].type # "RD"
    PROVE  ReadInv(t)'
  BY DEF ReadInv, Read

\* Lookups that end without an access.
LEMMA LookupHeld ==
    ASSUME OccInv, GcInv, Next, Key' = Key, NEW t \in Txn, access'[t] = access[t],
           gcEpoch'[t] = gcEpoch[t], pc'[t] # "fetch"
    PROVE  HeldInv(t)'
  BY HeldSame

\* A plain lookup.  A reader waits for a commit that may belong to its snapshot.
LEMMA ReadLookup ==
    ASSUME OccInv, GcInv, Next, Key' = Key, NEW t \in Txn, GetVisibleRowVersion(t)
    PROVE  HeldInv(t)' /\ ReadInv(t)'
<1>0. PICK k \in Key : k = cur[t].key
  BY DEF GetVisibleRowVersion, OccInv, SessionInv, ShapeInv, LookingUp
<1>1. ShapeInv(t) /\ FetchInv(t) /\ StoreInv(k) /\ TypeInv
  BY DEF OccInv, SessionInv
<1>2. /\ pc[t] = "read" /\ CommitCycleSeen(t, k)
      /\ pc' = [pc EXCEPT ![t] = "ready"]
      /\ got' = [got EXCEPT ![t] = [key |-> k, type |-> cur[t].type,
                                    csn |-> RowFromChain(snap[t], chain[k]), hasty |-> FALSE]]
      /\ UNCHANGED <<access, snap, gcEpoch, late, hist, chain, csn>>
  BY <1>0 DEF GetVisibleRowVersion, Return, Goto, gcVars, storeVars
<1>3. /\ snap[t] \in Nat /\ snap[t] # 0 /\ snap \in [Txn -> Csn] /\ pc \in [Txn -> Label] /\ Csn \subseteq Nat
      /\ got \in [Txn -> ResultSet] /\ \A u \in Txn : csn[u] \in Nat
      /\ Top(k) \in Nat /\ chain[k] \in Versions
  BY <1>1, <1>2, GcTypes, TopType DEF ShapeInv, LookingUp, TypeInv, SessionType
<1>4. HeldInv(t)'
  BY <1>2, <1>3, LookupHeld
<1>5. ASSUME NEW u \in Txn, Pending(u, k) PROVE csn[u] >= snap[t]
  <2>1. Locked(k) /\ Top(k) < csn[u]
    BY <1>1, <1>5, PendingLocked DEF StoreInv
  <2>2. Top(k) # cur[t].top \/ snap[t] < Top(k)
    BY <1>2, <2>1 DEF CommitCycleSeen
  <2>3. CASE Top(k) # cur[t].top
    BY <1>0, <1>1, <1>2, <1>5, <2>3 DEF FetchInv
  <2>4. CASE snap[t] < Top(k)
    BY <1>3, <2>1, <2>4
  <2>. QED
    BY <2>2, <2>3, <2>4
<1>6. ASSUME ~late[t] PROVE RowFromChain(snap[t], chain[k]) = RowFromChain(snap[t], hist[k])
  <2>1. RowFromChain(snap[t], chain[k]) = RowFromChain(snap[t], Installed(k))
    BY <1>3, <1>6 DEF GcInv, ChainInv
  <2>2. RowFromChain(snap[t], hist[k]) = RowFromChain(snap[t], Installed(k))
    BY <1>3, <1>5, HistorySees
  <2>. QED
    BY <2>1, <2>2
<1>. DEFINE r == RowFromChain(snap[t], chain[k])
<1>7. r # 0 => Above(chain[k], r, Beyond(t))
  BY <1>3, SeenIsAbove DEF Beyond
<1>8. got'[t].key = k /\ got'[t].csn = r
  BY <1>2, <1>3
<1>9. \A u \in Txn : Pending(u, k)' => csn'[u] \in Beyond(t)
  <2>1. \A u \in Txn : Pending(u, k)' => Pending(u, k)
    <3>1. QuietStep(t)
      BY DEF QuietStep
    <3>2. Calm
      BY <3>1, QuietCalm
    <3>. QED
      BY <3>2 DEF Calm
  <2>2. csn \in [Txn -> Csn]
    BY GcTypes
  <2>. QED
    BY <1>2, <1>3, <1>5, <2>1, <2>2 DEF Beyond
<1>10. Beyond(t)' = Beyond(t)
  BY <1>2 DEF Beyond
<1>. HIDE DEF r
<1>11. ReadInv(t)'
  <2>1. ~late[t] => r = RowFromChain(snap'[t], hist'[k])
    BY <1>2, <1>6 DEF r
  <2>. QED
    BY <1>2, <1>7, <1>8, <1>9, <1>10, <2>1 DEF ReadInv
<1>. QED
  BY <1>4, <1>11

LEMMA RowLookupHeld ==
    ASSUME OccInv, GcInv, Next, Key' = Key, NEW t \in Txn, NEW k \in Key, NEW type \in {"RD", "WR"},
           RowLookup(t, k, type)
    PROVE  HeldInv(t)' /\ ReadInv(t)'
<1>0. pc \in [Txn -> Label] /\ got \in [Txn -> ResultSet]
  BY DEF OccInv, TypeInv, SessionType
<1>1. pc[t] = "ready" /\ UNCHANGED <<access, gcEpoch, snap, hist>> /\ pc'[t] # "fetch"
  BY <1>0 DEF RowLookup, Goto, gcVars
<1>2. HeldInv(t)'
  BY <1>1, LookupHeld
<1>3. CASE dirty[k] /\ ~ReadOnly(t)
  <2>1. got'[t].key = k /\ got'[t].csn = 0 /\ got'[t].hasty = Locked(k)
    BY <1>0, <1>3 DEF RowLookup
  <2>2. ASSUME ~got'[t].hasty PROVE RowFromChain(snap'[t], hist'[k]) = 0
    <3>1. hist[k] = <<>>
      BY <1>3, <2>1, <2>2, UnlockedEmpty
    <3>. QED
      BY <1>1, <3>1 DEF RowFromChain
  <2>. QED
    BY <1>2, <2>1, <2>2 DEF ReadInv
<1>4. CASE ~(dirty[k] /\ ~ReadOnly(t))
  <2>1. got'[t] = NoResult
    BY <1>0, <1>4 DEF RowLookup
  <2>. QED
    BY <1>2, <2>1, NothingRead DEF NoResult
<1>. QED
  BY <1>3, <1>4

LEMMA HeaderHeld ==
    ASSUME OccInv, GcInv, Next, Key' = Key, NEW t \in Txn, GetVisiblePrimaryHeader(t)
    PROVE  HeldInv(t)' /\ ReadInv(t)'
<1>0. pc \in [Txn -> Label] /\ got \in [Txn -> ResultSet] /\ ShapeInv(t)
  BY DEF OccInv, TypeInv, SessionType, SessionInv
<1>1. pc[t] = "header" /\ UNCHANGED <<access, gcEpoch>> /\ pc'[t] # "fetch"
  BY <1>0 DEF GetVisiblePrimaryHeader, Goto, Return, gcVars
<1>2. got[t] = NoResult /\ cur[t].type = "WR"
  BY <1>0, <1>1 DEF ShapeInv, LookingUp
<1>3. got'[t].key = 0 \/ got'[t].type = "WR"
  BY <1>0, <1>2 DEF GetVisiblePrimaryHeader, Return, NoResult
<1>. QED
  BY <1>1, <1>3, LookupHeld, NothingRead

LEMMA TopRowHeld ==
    ASSUME OccInv, GcInv, Next, Key' = Key, NEW t \in Txn, TopRow(t)
    PROVE  HeldInv(t)' /\ ReadInv(t)'
<1>0. /\ pc \in [Txn -> Label] /\ got \in [Txn -> ResultSet] /\ cur \in [Txn -> LookupSet]
      /\ ShapeInv(t) /\ access \in [Txn -> [Key -> AccessSet]]
  BY DEF OccInv, TypeInv, SessionType, SessionInv
<1>1. pc[t] = "topRow" /\ UNCHANGED <<gcEpoch, access, chain>>
  BY DEF TopRow, RowForUpdate, gcVars, storeVars
<1>2. got[t] = NoResult /\ cur[t].type = "WR"
  BY <1>0, <1>1 DEF ShapeInv, LookingUp
<1>3. got'[t].key = 0 \/ got'[t].type = "WR"
  BY <1>0, <1>2 DEF TopRow, RowForUpdate, Return, NoResult
<1>4. CASE pc'[t] # "fetch"
  BY <1>1, <1>3, <1>4, LookupHeld, NothingRead
<1>5. CASE pc'[t] = "fetch"
  <2>0. PICK k \in Key : k = cur[t].key
    BY <1>0, <1>1 DEF ShapeInv, LookingUp
  <2>1. cur' = [cur EXCEPT ![t].top = Top(k)]
    BY <1>0, <1>5, <2>0 DEF TopRow, RowForUpdate, Return, Goto
  <2>2. cur'[t].key = k /\ cur'[t].top = Top(k) /\ Top(k)' = Top(k)
    BY <1>0, <1>1, <2>0, <2>1 DEF LookupSet, Top
  <2>3. ASSUME NEW j \in Key, access'[t][j].csn # 0, access'[t][j].upgrade # "onDeleted"
        PROVE  /\ Above(chain'[j], access'[t][j].csn, Spared(t)')
               /\ \A u \in Txn : Pending(u, j)' => csn'[u] \in Spared(t)'
    <3>1. gcEpoch[t] # 0 /\ gcEpoch'[t] = gcEpoch[t] /\ access'[t][j] = access[t][j]
      BY <1>0, <1>1 DEF ShapeInv, LookingUp
    <3>2. access[t][j].csn # 0 /\ access[t][j].upgrade # "onDeleted"
      BY <2>3, <3>1
    <3>3. /\ Above(chain'[j], access[t][j].csn, Spared(t)')
          /\ \A u \in Txn : Pending(u, j)' => csn'[u] \in Spared(t)'
      BY <3>1, <3>2, HeldKept
    <3>. QED
      BY <3>1, <3>3
  <2>4. HeldInv(t)'
    BY <2>2, <2>3 DEF HeldInv
  <2>. QED
    BY <1>3, <2>4, NothingRead
<1>. QED
  BY <1>4, <1>5

\* A row is found for update after every commit that might replace it has been
\* waited for or is spared.
LEMMA UpdateHeld ==
    ASSUME OccInv, GcInv, Next, Key' = Key, NEW t \in Txn, GetVisibleRowForUpdate(t)
    PROVE  HeldInv(t)' /\ ReadInv(t)'
<1>0. /\ pc \in [Txn -> Label] /\ got \in [Txn -> ResultSet] /\ cur \in [Txn -> LookupSet]
      /\ access \in [Txn -> [Key -> AccessSet]] /\ ShapeInv(t) /\ FetchInv(t) /\ StoreType
  BY DEF OccInv, TypeInv, SessionType, SessionInv
<1>1. PICK k \in Key : k = cur[t].key
  BY <1>0 DEF GetVisibleRowForUpdate, ShapeInv, LookingUp
<1>2. /\ pc[t] = "fetch" /\ UNCHANGED <<gcEpoch, chain, csn>>
      /\ UpdateCycleSeen(t, k) /\ RowForUpdate(t, k, IF dirty[k] THEN 0 ELSE Top(k))
  BY <1>1 DEF GetVisibleRowForUpdate, gcVars, storeVars
<1>3. got[t] = NoResult /\ cur[t].type = "WR" /\ ~dirty[k] /\ gcEpoch[t] # 0
  BY <1>0, <1>1, <1>2 DEF ShapeInv, LookingUp, FetchInv
<1>4. RowForUpdate(t, k, Top(k))
  BY <1>2, <1>3
<1>5. pc'[t] # "fetch" /\ (got'[t].key = 0 \/ got'[t].type = "WR")
  BY <1>0, <1>1, <1>3, <1>4 DEF RowForUpdate, Return, Goto, NoResult
<1>6. CASE access' = access
  BY <1>2, <1>5, <1>6, LookupHeld, NothingRead
<1>7. CASE access' # access
  <2>. DEFINE a == [type |-> cur[t].type, csn |-> Top(k), snapshot |-> snap[t], upgrade |-> "no"]
  <2>1. /\ access' = [access EXCEPT ![t][k] = a]
        /\ Top(k) # 0
        /\ ~(iso[t] = "RR" /\ Top(k) >= snap[t])
    BY <1>4, <1>7 DEF RowForUpdate
  <2>2. a.csn = Top(k)
    OBVIOUS
  <2>. HIDE DEF a
  <2>3. access'[t][k] = a /\ \A j \in Key \ {k} : access'[t][j] = access[t][j]
    BY <1>0, <2>1
  <2>4. Spared(t) \subseteq Spared(t)'
    BY <1>2, <1>3, SparedStep DEF GcInv
  <2>5. ASSUME NEW u \in Txn, Pending(u, k) PROVE csn[u] \in Spared(t)
    <3>1. Locked(k) /\ ~writeBit[k]
      BY <2>5, PendingLocked DEF OccInv, StoreInv
    <3>2. Top(k) # cur[t].top
      <4>1. iso[t] \in {"RC", "RR"} /\ snap[t] \in Nat /\ Top(k) \in Nat
        BY <1>0, GcTypes, TopType, CsnNat DEF OccInv, TypeInv, SessionType
      <4>. QED
        BY <1>2, <2>1, <3>1, <4>1 DEF UpdateCycleSeen
    <3>. QED
      BY <1>1, <1>2, <2>5, <3>2 DEF GcInv, HeldInv
  <2>6. \A u \in Txn : Pending(u, k)' => csn'[u] \in Spared(t)'
    <3>1. Calm
      <4>1. QuietStep(t)
        BY DEF QuietStep
      <4>. QED
        BY <4>1, QuietCalm
    <3>. QED
      BY <1>2, <2>4, <2>5, <3>1 DEF Calm
  <2>7. Above(chain'[k], Top(k), Spared(t)')
    <3>1. chain[k] # <<>> /\ Top(k) = chain[k][1].csn
      BY <2>1 DEF Top
    <3>2. 1 \in DOMAIN chain[k] /\ DOMAIN chain[k] \subseteq Nat \ {0}
      BY <1>0, <3>1, TopType DEF Versions
    <3>. QED
      BY <1>2, <3>1, <3>2 DEF Above
  <2>8. ASSUME NEW j \in Key, access'[t][j].csn # 0, access'[t][j].upgrade # "onDeleted"
        PROVE  /\ Above(chain'[j], access'[t][j].csn, Spared(t)')
               /\ \A u \in Txn : Pending(u, j)' => csn'[u] \in Spared(t)'
    <3>1. CASE j = k
      BY <2>2, <2>3, <2>6, <2>7, <3>1
    <3>2. CASE j # k
      <4>1. access'[t][j] = access[t][j]
        BY <2>3, <3>2
      <4>2. access[t][j].csn # 0 /\ access[t][j].upgrade # "onDeleted" /\ gcEpoch'[t] = gcEpoch[t]
        BY <1>2, <2>8, <4>1
      <4>3. /\ Above(chain'[j], access[t][j].csn, Spared(t)')
            /\ \A u \in Txn : Pending(u, j)' => csn'[u] \in Spared(t)'
        BY <1>3, <4>2, HeldKept
      <4>. QED
        BY <4>1, <4>3
    <3>. QED
      BY <3>1, <3>2
  <2>9. HeldInv(t)'
    BY <1>5, <2>8 DEF HeldInv
  <2>. QED
    BY <1>5, <2>9, NothingRead
<1>. QED
  BY <1>6, <1>7

LEMMA WriteRequestHeld ==
    ASSUME OccInv, GcInv, Next, Key' = Key, NEW t \in Txn, NEW k \in Key,
           DeleteLastRow(t, k) \/ InsertRow(t, k)
    PROVE  HeldInv(t)' /\ ReadInv(t)'
<1>0. /\ pc \in [Txn -> Label] /\ got \in [Txn -> ResultSet] /\ access \in [Txn -> [Key -> AccessSet]]
      /\ access[t][k] \in AccessSet /\ AccessInv(t)
  BY DEF OccInv, TypeInv, SessionType, SessionInv
<1>1. pc[t] = "ready" /\ UNCHANGED gcEpoch /\ got' = [got EXCEPT ![t] = NoResult]
  BY DEF DeleteLastRow, InsertRow, gcVars
<1>2. pc'[t] # "fetch" /\ got'[t].key = 0
  BY <1>0, <1>1 DEF DeleteLastRow, InsertRow, Goto, NoResult
<1>3. \A j \in Key : \/ access'[t][j] = access[t][j]
                     \/ access'[t][j].csn = 0 \/ access'[t][j].upgrade = "onDeleted"
                     \/ /\ access'[t][j].csn = access[t][j].csn
                        /\ access[t][j].upgrade # "onDeleted"
  <2>1. CASE DeleteLastRow(t, k)
    <3>1. access' = [access EXCEPT ![t][k].type = "DEL"] /\ access[t][k].type = "WR"
      BY <2>1 DEF DeleteLastRow
    <3>2. access[t][k].upgrade = "no"
      BY <1>0, <3>1 DEF AccessInv
    <3>3. access'[t][k].csn = access[t][k].csn
      BY <1>0, <3>1 DEF AccessSet
    <3>. QED
      BY <1>0, <3>1, <3>2, <3>3
  <2>2. CASE InsertRow(t, k)
    <3>1. CASE access' = access
      BY <3>1
    <3>2. CASE /\ access[t][k].type = "DEL"
               /\ access' = [access EXCEPT ![t][k] =
                               [@ EXCEPT !.type = "INS", !.upgrade = "onOwnDelete"]]
      <4>1. access[t][k].upgrade = "no"
        BY <1>0, <3>2 DEF AccessInv
      <4>2. access'[t][k].csn = access[t][k].csn
        BY <1>0, <3>2 DEF AccessSet
      <4>. QED
        BY <1>0, <3>2, <4>1, <4>2
    <3>3. CASE \/ access' = [access EXCEPT ![t][k] =
                               [type |-> "INS", csn |-> 0, snapshot |-> snap[t], upgrade |-> "no"]]
               \/ access' = [access EXCEPT ![t][k] =
                               [type |-> "INS", csn |-> Top(k), snapshot |-> snap[t],
                                upgrade |-> "onDeleted"]]
      <4>1. access'[t][k].csn = 0 \/ access'[t][k].upgrade = "onDeleted"
        BY <1>0, <3>3
      <4>2. \A j \in Key \ {k} : access'[t][j] = access[t][j]
        BY <1>0, <3>3
      <4>. QED
        BY <4>1, <4>2
    <3>. QED
      BY <2>2, <3>1, <3>2, <3>3 DEF InsertRow
  <2>. QED
    BY <2>1, <2>2
<1>4. HeldInv(t)'
  BY <1>1, <1>2, <1>3, HeldSame
<1>. QED
  BY <1>2, <1>4, NothingRead

-----------------------------------------------------------------------------
(* The second part of the invariant, and what follows from it.             *)

LEMMA KeyStep ==
    ASSUME OccInv, Next
    PROVE  Key' = Key
<1>1. PICK t \in Txn :
         \/ QuietStep(t) \/ TryLock(t) \/ SetCommitCsn(t) \/ WriteStep(t) \/ RowVersionDtor(t)
         \/ \E thresholdReached \in BOOLEAN : EndTransaction(t, thresholdReached)
  BY NextSteps
<1>2. TypeInv /\ ShapeInv(t) /\ LockInv(t) /\ AccessInv(t)
  BY DEF OccInv, SessionInv
<1>. QED
  BY <1>1, <1>2, QuietType, TryLockType, SetCommitCsnType, WriteType, RowVersionDtorType,
     EndTransactionType

LEMMA SessionStep ==
    ASSUME OccInv, GcInv, Next, NEW u \in Txn
    PROVE  HeldInv(u)' /\ ReadInv(u)'
<1>0. Key' = Key
  BY KeyStep
<1>1. PICK t \in Txn : CollectStep(t) \/ LookupStep(t) \/ EpochStep(t) \/ StableStep(t)
  BY NextKinds
<1>2. CASE CollectStep(t)
  <2>1. /\ UNCHANGED <<snap, access, cur, got>> /\ (late[u] => late'[u])
        /\ u # t => pc'[u] = pc[u] /\ gcEpoch'[u] = gcEpoch[u]
        /\ pc[t] \in Outside /\ pc'[t] \in Outside
    BY <1>2, CollectFrame
  <2>2. Accessed(t) = {} /\ pc'[t] # "fetch"
    BY <2>1 DEF OccInv, SessionInv, ShapeInv, Outside
  <2>3. HeldInv(u)'
    <3>1. Accessed(u) = {} \/ gcEpoch'[u] = gcEpoch[u]
      BY <2>1, <2>2
    <3>2. pc'[u] = "fetch" => pc[u] = "fetch" /\ cur'[u] = cur[u] /\ gcEpoch'[u] = gcEpoch[u]
      BY <2>1, <2>2
    <3>. QED
      BY <1>0, <2>1, <3>1, <3>2, HeldSame
  <2>4. ReadInv(u)'
    BY <1>0, <2>1, ReadSame
  <2>. QED
    BY <2>3, <2>4
<1>3. CASE LookupStep(t) \/ EpochStep(t) \/ StableStep(t)
  <2>1. CASE u # t
    <3>1. Others(t)
      BY <1>3, LookupFrame, EpochFrame, StableFrame
    <3>2. SameSession(u) /\ (late[u] => late'[u])
      BY <2>1, <3>1 DEF Others
    <3>. QED
      BY <1>0, <3>2, OtherSessions
  <2>2. CASE u = t /\ LookupStep(t)
    BY <1>0, <2>2, RowLookupHeld, WriteRequestHeld, ReadLookup, HeaderHeld, TopRowHeld, UpdateHeld
       DEF LookupStep
  <2>3. CASE u = t /\ EpochStep(t)
    <3>1. /\ pc'[t] # "fetch" /\ got'[t] = NoResult
          /\ \/ access'[t] = [k \in Key |-> NoAccess]
             \/ access'[t] = access[t] /\ (Accessed(t) = {} \/ gcEpoch'[t] = gcEpoch[t])
      BY <2>3, EpochFrame
    <3>2. ReadInv(t)'
      BY <3>1, NothingRead DEF NoResult
    <3>3. CASE access'[t] = [k \in Key |-> NoAccess]
      <4>1. \A k \in Key : access'[t][k].csn = 0
        BY <3>3 DEF NoAccess
      <4>2. HeldInv(t)'
        BY <1>0, <3>1, <4>1 DEF HeldInv
      <4>. QED
        BY <2>3, <3>2, <4>2
    <3>4. CASE access'[t] = access[t] /\ (Accessed(t) = {} \/ gcEpoch'[t] = gcEpoch[t])
      <4>1. HeldInv(t)'
        BY <1>0, <3>1, <3>4, HeldSame
      <4>. QED
        BY <2>3, <3>2, <4>1
    <3>. QED
      BY <3>1, <3>3, <3>4
  <2>4. CASE u = t /\ StableStep(t)
    <3>1. /\ snap'[t] = snap[t] /\ gcEpoch'[t] = gcEpoch[t] /\ late'[t] = late[t]
          /\ access'[t] = access[t] /\ got'[t] = got[t] /\ pc'[t] # "fetch"
      BY <2>4, StableFrame
    <3>2. HeldInv(t)'
      BY <1>0, <3>1, HeldSame
    <3>3. ReadInv(t)'
      BY <1>0, <3>1, ReadSame
    <3>. QED
      BY <2>4, <3>2, <3>3
  <2>. QED
    BY <1>3, <2>1, <2>2, <2>3, <2>4
<1>. QED
  BY <1>1, <1>2, <1>3

LEMMA GcStutter ==
    ASSUME GcInv, UNCHANGED vars
    PROVE  GcInv'
<1>1. /\ UNCHANGED <<clock, chain, pc, snap, access, cur, got, csn>>
      /\ UNCHANGED <<gcEpoch, bound, scan, activeEpoch, hist, late>>
  BY DEF vars, storeVars, txnVars, gcVars
<1>2. Key' = Key /\ \A k \in Key : Top(k)' = Top(k)
  BY <1>1 DEF Key, Top
<1>3. \A u \in Txn, k \in Key : Pending(u, k)' <=> Pending(u, k)
  BY <1>1, <1>2 DEF Pending, Accessed
<1>4. \A k \in Key : Installed(k)' = Installed(k)
  BY <1>1, <1>3 DEF Installed
<1>5. \A t \in Txn : Spared(t)' = Spared(t) /\ Beyond(t)' = Beyond(t)
  BY <1>1 DEF Spared, Spares, Beyond
<1>6. ScanInv' /\ \A k \in Key : ChainInv(k)'
  BY <1>1, <1>4 DEF GcInv, ScanInv, ChainInv
<1>7. ASSUME NEW t \in Txn PROVE EpochInv(t)' /\ HeldInv(t)' /\ ReadInv(t)'
  <2>1. EpochInv(t)'
    BY <1>1 DEF GcInv, EpochInv, Spares
  <2>2. HeldInv(t)'
    BY <1>1, <1>2, <1>3, <1>5 DEF GcInv, HeldInv
  <2>3. ReadInv(t)'
    BY <1>1, <1>2, <1>3, <1>5 DEF GcInv, ReadInv, Read
  <2>. QED
    BY <2>1, <2>2, <2>3
<1>. QED
  BY <1>2, <1>6, <1>7 DEF GcInv

LEMMA GcStep == OccInv /\ GcInv /\ [Next]_vars => GcInv'
<1>. SUFFICES ASSUME OccInv, GcInv, [Next]_vars PROVE GcInv'
  OBVIOUS
<1>1. CASE UNCHANGED vars
  BY <1>1, GcStutter
<1>2. CASE Next
  <2>1. ScanInv'
    BY <1>2, ScanStep DEF GcInv
  <2>2. \A k \in Key : ChainInv(k)'
    BY <1>2, ChainInvStep
  <2>3. \A t \in Txn : EpochInv(t)' /\ HeldInv(t)' /\ ReadInv(t)'
    BY <1>2, EpochInvStep, SessionStep
  <2>4. Key' = Key
    BY <1>2, KeyStep
  <2>. QED
    BY <2>1, <2>2, <2>3, <2>4 DEF GcInv
<1>. QED
  BY <1>1, <1>2

LEMMA InitGc == Init => GcInv
<1>. SUFFICES ASSUME Init PROVE GcInv
  OBVIOUS
<1>1. /\ hist = chain /\ pc = [t \in Txn |-> "idle"] /\ snap = [t \in Txn |-> 0]
      /\ access = [t \in Txn |-> [k \in Key |-> NoAccess]]
      /\ got = [t \in Txn |-> NoResult] /\ gcEpoch = [t \in Txn |-> 0]
      /\ bound = [t \in Txn |-> 0] /\ scan = NoScan /\ activeEpoch = 0
  BY DEF Init
<1>2. clock \in Nat
  BY InitOcc, GcTypes
<1>3. ScanInv
  BY <1>1, <1>2, NoTxnAssumption DEF ScanInv, NoScan
<1>4. \A k \in Key : Installed(k) = chain[k]
  BY <1>1 DEF Installed, Pending
<1>5. \A k \in Key : ChainInv(k)
  BY <1>4 DEF ChainInv
<1>6. \A t \in Txn : EpochInv(t) /\ HeldInv(t) /\ ReadInv(t)
  BY <1>1 DEF EpochInv, HeldInv, ReadInv, Read, NoResult, NoAccess
<1>. QED
  BY <1>3, <1>5, <1>6 DEF GcInv

LEMMA GcInvariant == Spec => [](OccInv /\ GcInv)
  BY InitOcc, OccStep, InitGc, GcStep, PTL DEF Spec

\* GetVisibleRowVersion, which waits for a commit under way, returns the row
\* that was committed last when the snapshot was taken, however often the
\* collector runs in between, unless the lookup was hasty (AccessLookup of an
\* uncommitted sentinel) or the collector had passed the session before
\* GcStartTxn published the snapshot.
THEOREM ReadFromSnapshot == Spec => []ReadIsSnapshot
<1>1. ASSUME OccInv, GcInv PROVE ReadIsSnapshot
  <2>. SUFFICES ASSUME NEW t \in Txn, Read(t), ~got[t].hasty, ~late[t]
                PROVE  got[t].csn = RowFromChain(snap[t], hist[got[t].key])
    BY DEF ReadIsSnapshot, InSnapshot
  <2>1. got[t] \in ResultSet
    BY <1>1 DEF OccInv, TypeInv, SessionType
  <2>2. got[t].key \in Key
    BY <2>1 DEF ResultSet, Read
  <2>. QED
    BY <1>1, <2>2 DEF GcInv, ReadInv
<1>. QED
  BY <1>1, GcInvariant, PTL

\* RowVersionDtor destroys no version that a transaction has found for update
\* and keeps in its access set, nor one that a read has just returned, unless
\* the collector had passed the session before its snapshot was published.
THEOREM HeldRowsStay == Spec => []HeldRowsLive
<1>1. ASSUME OccInv, GcInv PROVE HeldRowsLive
  <2>1. \A k \in Key : \A c, S : Above(chain[k], c, S) => InChain(k, c)
    BY DEF Above, InChain
  <2>2. ASSUME NEW t \in Txn, NEW k \in Accessed(t)
        PROVE  \/ access[t][k].upgrade = "onDeleted" \/ access[t][k].csn = 0
               \/ InChain(k, access[t][k].csn)
    <3>1. k \in Key
      BY DEF Accessed
    <3>. QED
      BY <1>1, <2>1, <3>1 DEF GcInv, HeldInv
  <2>3. ASSUME NEW t \in Txn, Read(t), got[t].csn # 0, ~late[t]
        PROVE  InChain(got[t].key, got[t].csn)
    <3>1. got[t] \in ResultSet
      BY <1>1 DEF OccInv, TypeInv, SessionType
    <3>2. got[t].key \in Key
      BY <2>3, <3>1 DEF ResultSet, Read
    <3>. QED
      BY <1>1, <2>1, <2>3, <3>2 DEF GcInv, ReadInv
  <2>. QED
    BY <2>2, <2>3 DEF HeldRowsLive
<1>. QED
  BY <1>1, GcInvariant, PTL
=============================================================================
