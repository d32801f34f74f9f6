--------------------------- MODULE MvccOccProofs ----------------------------
(***************************************************************************)
(* Proofs about MvccOcc, for any number of sessions, keys and commits.     *)
(*                                                                         *)
(* A commit belongs to the history from the moment it has its CSN, but its *)
(* versions are installed later, one key after the other.  The invariants  *)
(* therefore speak of the pending versions: those in the history that the  *)
(* holder of the key's lock has yet to link into the chain.                *)
(***************************************************************************)
EXTENDS MvccOcc, SequenceTheorems, WellFoundedInduction, TLAPS

Outside == {"idle", "quiesce", "scan", "reclaim"}
LookingUp == {"read", "header", "topRow", "fetch"}
Committed == {"global", "sentinel", "end"}
Valid == {"validated", "global", "sentinel", "end"}

\* Session u has a CSN and has not installed its version of k yet.
Pending(u, k) ==
    /\ k \in Accessed(u)
    /\ \/ pc[u] = "global" /\ (access[u][k].type = "INS" \/ k >= cur[u].key)
       \/ pc[u] = "sentinel" /\ access[u][k].type = "INS" /\ k >= cur[u].key

\* The history of a key without the pending version.
Installed(k) == IF \E u \in Txn : Pending(u, k) THEN Tail(hist[k]) ELSE hist[k]

Batch == [csn : Csn, keys : (SUBSET Key) \ {{}}]

-----------------------------------------------------------------------------
(* The inductive invariant: of the store and of each session.              *)

\* Keys are numbers, no element of a queue is empty, and the clock is running.
BaseInv ==
    /\ Key \subseteq Nat \ {0}
    /\ limbo \in [Txn -> Seq(Batch)]
    /\ clock > 0

AccessSet == [type : AccessType, csn : Csn, snapshot : Csn, upgrade : Upgrade]
LookupSet == [key : Key \cup {0}, type : AccessType, top : Csn]
ResultSet == [key : Key \cup {0}, type : AccessType, csn : Csn, hasty : BOOLEAN]
ScanSet == [by : Txn \cup {NoTxn}, todo : SUBSET Txn]

SessionType ==
    /\ activeEpoch \in Csn
    /\ pc \in [Txn -> Label] /\ iso \in [Txn -> {"RC", "RR"}]
    /\ snap \in [Txn -> Csn] /\ csn \in [Txn -> Csn]
    /\ access \in [Txn -> [Key -> AccessSet]]
    /\ cur \in [Txn -> LookupSet] /\ got \in [Txn -> ResultSet]
    /\ gcEpoch \in [Txn -> Csn] /\ bound \in [Txn -> Csn] /\ late \in [Txn -> BOOLEAN]
    /\ scan \in ScanSet

StoreType ==
    /\ clock \in Csn
    /\ chain \in [Key -> Versions] /\ hist \in [Key -> Versions]
    /\ startCSN \in [Key -> Csn] /\ dirty \in [Key -> BOOLEAN]
    /\ lock \in [Key -> Txn \cup {NoTxn}] /\ writeBit \in [Key -> BOOLEAN]

TypeInv == StoreType /\ SessionType /\ BaseInv

\* A chain and the installed history of its key have the same newest version,
\* and a pending version is newer than all that is known of the key.
StoreInv(k) ==
    /\ dirty[k] <=> chain[k] = <<>>
    /\ chain[k] = <<>> <=> Installed(k) = <<>>
    /\ chain[k] # <<>> => chain[k][1] = Installed(k)[1]
    /\ Top(k) < clock /\ startCSN[k] < clock
    /\ \A u \in Txn : Pending(u, k) =>
          /\ hist[k] = <<Version(csn[u], access[u][k].type = "DEL")>> \o Tail(hist[k])
          /\ Top(k) < csn[u] /\ startCSN[k] <= csn[u]
          /\ ~writeBit[k]

\* What a session has set at each point of its control.
ShapeInv(t) ==
    /\ pc[t] \in Outside => snap[t] = 0 /\ got[t] = NoResult
    /\ pc[t] \in Outside \cup {"statement"} => Accessed(t) = {}
    /\ pc[t] \in {"statement", "ready"} \cup LookingUp => snap[t] # 0
    /\ pc[t] \in {"ready"} \cup LookingUp \/ Accessed(t) # {} => gcEpoch[t] # 0
    /\ pc[t] = "between" /\ iso[t] = "RR" => snap[t] # 0 /\ gcEpoch[t] # 0
    /\ pc[t] \in {"idle", "statement"} => gcEpoch[t] = 0
    /\ pc[t] \in LookingUp =>
          cur[t].key \in Key /\ access[t][cur[t].key] = NoAccess
    /\ pc[t] \in LookingUp \ {"read"} => cur[t].type = "WR"
    /\ pc[t] = "read" => cur[t].type = "RD"
    /\ got[t] # NoResult => pc[t] = "ready"
    /\ csn[t] # 0 <=> pc[t] \in Committed
    /\ pc[t] \in {"global", "sentinel"} => cur[t].key \in Accessed(t)
    /\ pc[t] \in {"lock", "retry", "validated"} => Accessed(t) # {}
    /\ snap[t] <= clock /\ csn[t] < clock

\* A session holds locks of keys in its access set only, and from the
\* validation on of all of them.
LockInv(t) ==
    /\ \A k \in Key : lock[k] = t =>
          k \in Accessed(t) /\ pc[t] \in {"lock", "abort"} \cup Valid
    /\ pc[t] \in Valid => \A k \in Accessed(t) : lock[k] = t
    /\ pc[t] = "lock" => Accessed(t) \ LockedBy(t) # {}

\* The version in an access: the row it was taken from was not deleted, and
\* whoever holds the key has a newer CSN.
AccessInv(t) ==
    \A k \in Key :
        LET ac == access[t][k] IN
        /\ ac.type = "RD" => ac = NoAccess
        /\ ac.type \in {"WR", "DEL"} => ac.upgrade = "no"
        /\ ac.upgrade # "no" => ~dirty[k]
        /\ ac.type \in {"WR", "DEL"} \/ ac.upgrade = "onOwnDelete" =>
              /\ ac.csn # 0 /\ ~dirty[k]
              /\ Top(k) = ac.csn => ~chain[k][1].deleted
              /\ iso[t] = "RR" => ac.csn < snap[t]
        /\ ac.csn < clock
        /\ \A u \in Txn : Pending(u, k) => ac.csn < csn[u]

\* What an access replaces is the version that it was computed from.
Replaces(t, k, before) ==
    LET ac == access[t][k]
    IN  IF ac.type = "INS" /\ ac.upgrade # "onOwnDelete"
        THEN before = <<>> \/ before[1].deleted
        ELSE /\ before # <<>> /\ ~before[1].deleted
             /\ before[1].csn = ac.csn
             /\ iso[t] = "RR" => before[1].csn < snap[t]

CommitInv(t) ==
    /\ pc[t] = "validated" => AllValid(t)
    /\ pc[t] \in Committed =>
          \A k \in Accessed(t) :
              /\ hist[k] = <<Version(csn[t], access[t][k].type = "DEL")>> \o Tail(hist[k])
              /\ Replaces(t, k, Tail(hist[k]))

\* A lookup that has seen the top row of a key which a commit is pending for:
\* either it is still the top row or the commit is beyond the snapshot.
FetchInv(t) ==
    /\ pc[t] \in {"topRow", "fetch"} => ~dirty[cur[t].key]
    /\ pc[t] \in {"read", "fetch"} =>
          \A u \in Txn : Pending(u, cur[t].key) =>
              Top(cur[t].key) = cur[t].top \/ csn[u] >= snap[t]

UpdateInv(t) ==
    iso[t] = "RR" =>
        /\ \A k \in Accessed(t) :
              access[t][k].type # "INS" => access[t][k].csn = RowFromChain(snap[t], hist[k])
        /\ got[t].key # 0 /\ got[t].type # "RD" /\ ~got[t].hasty /\ InSnapshot(t) # 0 =>
              startCSN[got[t].key] >= snap[t]

SessionInv(t) ==
    /\ ShapeInv(t) /\ LockInv(t) /\ AccessInv(t)
    /\ CommitInv(t) /\ FetchInv(t) /\ UpdateInv(t)

\* A version that has been written is unlocked with its key.
WriteBitInv(k) == writeBit[k] => \E u \in Txn : lock[k] = u /\ pc[u] \in Committed

OccInv ==
    /\ TypeInv
    /\ \A k \in Key : StoreInv(k) /\ WriteBitInv(k)
    /\ \A t \in Txn : SessionInv(t)

-----------------------------------------------------------------------------
(* Sequences of versions.                                                  *)

LEMMA FirstIsLeast ==
    ASSUME NEW S \in SUBSET Nat, S # {}
    PROVE  First(S) \in S /\ \A j \in S : First(S) <= j
<1>1. PICK x \in S : \A y \in S : ~(<<y, x>> \in OpToRel(<, Nat))
  BY WFMin, NatLessThanWellFounded
<1>2. ASSUME NEW y \in S, y < x PROVE FALSE
  <2>1. <<y, x>> \in Nat \X Nat /\ <<y, x>>[1] < <<y, x>>[2]
    BY <1>2
  <2>2. <<y, x>> \in OpToRel(<, Nat)
    BY <2>1, Zenon DEF OpToRel
  <2>. QED
    BY <1>1, <2>2
<1>3. \A y \in S : x <= y
  BY <1>2
<1>. QED
  BY <1>3 DEF First

LEMMA FirstOfOne ==
    ASSUME NEW S \in SUBSET Nat, NEW i \in S, \A j \in S : i <= j
    PROVE  First(S) = i
<1>1. First(S) \in S /\ First(S) <= i /\ i <= First(S)
  BY FirstIsLeast
<1>2. First(S) \in Nat /\ i \in Nat
  BY <1>1
<1>. QED
  BY <1>1, <1>2

VersionSet == [csn : Csn, deleted : BOOLEAN]

LEMMA CsnNat == Csn \subseteq Nat /\ 0 \in Csn
  BY MaxCsnAssumption DEF Csn

LEMMA Prepend ==
    ASSUME NEW v \in VersionSet, NEW q \in Versions
    PROVE  LET p == <<v>> \o q
           IN  /\ p \in Versions /\ p # <<>>
               /\ Len(p) = Len(q) + 1 /\ DOMAIN p = 1 .. (Len(q) + 1)
               /\ p[1] = v
               /\ \A i \in DOMAIN q : p[i + 1] = q[i] /\ i + 1 \in DOMAIN p
               /\ \A i \in DOMAIN p : i # 1 => p[i] = q[i - 1] /\ i - 1 \in DOMAIN q
               /\ Tail(p) = q
<1>. DEFINE p == <<v>> \o q
<1>1. <<v>> \in Seq(VersionSet) /\ q \in Seq(VersionSet)
  BY DEF Versions, VersionSet
<1>2. /\ p \in Seq(VersionSet) /\ Len(p) = Len(q) + 1
      /\ \A i \in 1 .. Len(p) : p[i] = IF i <= 1 THEN v ELSE q[i - 1]
  BY <1>1
<1>3. Len(q) \in Nat /\ DOMAIN q = 1 .. Len(q) /\ DOMAIN p = 1 .. Len(p)
  BY <1>1, <1>2
<1>4. p # <<>>
  BY <1>2, <1>3
<1>5. Tail(p) = q
  BY <1>1, <1>4
<1>. QED
  BY <1>2, <1>3, <1>4, <1>5 DEF Versions, VersionSet

\* What a snapshot sees is decided by the first version below it.
LEMMA SeesFirst ==
    ASSUME NEW c \in Nat, NEW q \in Versions, NEW i \in DOMAIN q,
           c > q[i].csn, \A j \in DOMAIN q : j < i => ~(c > q[j].csn)
    PROVE  RowFromChain(c, q) = IF q[i].deleted THEN 0 ELSE q[i].csn
<1>. DEFINE S == {j \in DOMAIN q : c > q[j].csn}
<1>1. DOMAIN q \subseteq Nat
  BY DEF Versions
<1>2. First(S) = i
  BY <1>1, FirstOfOne
<1>. QED
  BY <1>2 DEF RowFromChain

LEMMA SeesNothing ==
    ASSUME NEW c \in Nat, NEW q \in Versions, \A j \in DOMAIN q : ~(c > q[j].csn)
    PROVE  RowFromChain(c, q) = 0
  BY DEF RowFromChain

LEMMA SeesSomething ==
    ASSUME NEW c \in Nat, NEW q \in Versions, NEW i \in DOMAIN q, c > q[i].csn
    PROVE  \E n \in DOMAIN q :
              /\ c > q[n].csn /\ n <= i
              /\ \A j \in DOMAIN q : j < n => ~(c > q[j].csn)
              /\ RowFromChain(c, q) = IF q[n].deleted THEN 0 ELSE q[n].csn
<1>. DEFINE S == {j \in DOMAIN q : c > q[j].csn}
<1>1. DOMAIN q \subseteq Nat
  BY DEF Versions
<1>2. First(S) \in S /\ \A j \in S : First(S) <= j
  BY <1>1, FirstIsLeast
<1>3. \A j \in DOMAIN q : j < First(S) => ~(c > q[j].csn)
  BY <1>1, <1>2
<1>4. RowFromChain(c, q) = IF q[First(S)].deleted THEN 0 ELSE q[First(S)].csn
  BY <1>2, <1>3, SeesFirst
<1>. QED
  BY <1>2, <1>3, <1>4

\* A newer version in front hides the others from the snapshots above it and
\* is nothing to those below.
LEMMA SeesPrepended ==
    ASSUME NEW c \in Nat, NEW v \in VersionSet, NEW q \in Versions
    PROVE  RowFromChain(c, <<v>> \o q) =
              IF c > v.csn THEN (IF v.deleted THEN 0 ELSE v.csn) ELSE RowFromChain(c, q)
<1>. DEFINE p == <<v>> \o q
<1>0. /\ p \in Versions /\ p[1] = v /\ Len(q) \in Nat /\ DOMAIN p = 1 .. (Len(q) + 1)
      /\ \A i \in DOMAIN q : p[i + 1] = q[i] /\ i + 1 \in DOMAIN p
      /\ \A i \in DOMAIN p : i # 1 => p[i] = q[i - 1] /\ i - 1 \in DOMAIN q
      /\ DOMAIN q = 1 .. Len(q)
  <2>1. Len(q) \in Nat /\ DOMAIN q = 1 .. Len(q)
    BY DEF Versions
  <2>. QED
    BY Prepend, <2>1
<1>1. CASE c > v.csn
  <2>1. 1 \in DOMAIN p /\ c > p[1].csn /\ \A j \in DOMAIN p : j < 1 => ~(c > p[j].csn)
    BY <1>0, <1>1
  <2>2. RowFromChain(c, p) = IF p[1].deleted THEN 0 ELSE p[1].csn
    BY <1>0, <2>1, SeesFirst
  <2>. QED
    BY <1>0, <1>1, <2>2
<1>2. CASE ~(c > v.csn) /\ \A i \in DOMAIN q : ~(c > q[i].csn)
  <2>1. RowFromChain(c, q) = 0
    BY <1>2, SeesNothing
  <2>2. \A i \in DOMAIN p : ~(c > p[i].csn)
    BY <1>0, <1>2
  <2>3. RowFromChain(c, p) = 0
    BY <1>0, <2>2, SeesNothing
  <2>. QED
    BY <1>2, <2>1, <2>3
<1>3. CASE ~(c > v.csn) /\ \E i \in DOMAIN q : c > q[i].csn
  <2>1. PICK n \in DOMAIN q :
           /\ c > q[n].csn
           /\ \A j \in DOMAIN q : j < n => ~(c > q[j].csn)
           /\ RowFromChain(c, q) = IF q[n].deleted THEN 0 ELSE q[n].csn
    BY <1>3, SeesSomething
  <2>2. /\ n + 1 \in DOMAIN p /\ p[n + 1] = q[n]
        /\ \A j \in DOMAIN p : j < n + 1 => ~(c > p[j].csn)
    <3>1. SUFFICES ASSUME NEW j \in DOMAIN p, j < n + 1 PROVE ~(c > p[j].csn)
      BY <1>0
    <3>2. CASE j = 1
      BY <3>2, <1>0, <1>3
    <3>3. CASE j # 1
      <4>1. p[j] = q[j - 1] /\ j - 1 \in DOMAIN q /\ j - 1 < n
        BY <3>1, <3>3, <1>0
      <4>. QED
        BY <4>1, <2>1
    <3>. QED
      BY <3>2, <3>3
  <2>3. RowFromChain(c, p) = IF p[n + 1].deleted THEN 0 ELSE p[n + 1].csn
    BY <1>0, <2>1, <2>2, SeesFirst
  <2>. QED
    BY <1>3, <2>1, <2>2, <2>3
<1>. QED
  BY <1>1, <1>2, <1>3

\* What is cut is the part of the chain below the first version c.
LEMMA Cut ==
    ASSUME NEW c \in Nat, NEW q \in Versions
    PROVE  LET p == CutBelow(c, q)
           IN  /\ p \in Versions
               /\ p = <<>> <=> q = <<>>
               /\ q # <<>> => p[1] = q[1]
               /\ DOMAIN p \subseteq DOMAIN q
               /\ \A i \in DOMAIN p : p[i] = q[i]
               /\ \A i \in DOMAIN q : i \in DOMAIN p \/
                     \E j \in DOMAIN p : j < i /\ q[j].csn = c
<1>. DEFINE at == {i \in DOMAIN q : q[i].csn = c}
            p == CutBelow(c, q)
<1>0. Len(q) \in Nat /\ DOMAIN q = 1 .. Len(q) /\ q \in Seq(VersionSet)
  BY DEF Versions, VersionSet
<1>1. CASE at = {}
  <2>1. p = q
    BY <1>1 DEF CutBelow
  <2>. QED
    BY <2>1
<1>2. CASE at # {}
  <2>1. at \in SUBSET Nat
    BY <1>0
  <2>2. First(at) \in at /\ \A j \in at : First(at) <= j
    BY <2>1, <1>2, FirstIsLeast
  <2>. DEFINE n == First(at)
  <2>3. n \in 1 .. Len(q) /\ q[n].csn = c
    BY <2>2, <1>0
  <2>4. p = SubSeq(q, 1, n)
    BY <1>2 DEF CutBelow
  <2>. HIDE DEF n
  <2>5. /\ p \in Seq(VersionSet) /\ Len(p) = n /\ DOMAIN p = 1 .. n
        /\ \A i \in 1 .. n : p[i] = q[i]
    BY <2>3, <2>4, <1>0
  <2>6. p # <<>> /\ q # <<>>
    BY <2>3, <2>5, <1>0
  <2>. HIDE DEF p
  <2>7. \A i \in DOMAIN q : i \in DOMAIN p \/ n < i
    BY <2>3, <2>5, <1>0
  <2>. QED
    BY <2>3, <2>5, <2>6, <2>7, <1>0 DEF Versions, VersionSet, p
<1>. QED
  BY <1>1, <1>2

\* Snapshots above c do not see what is cut below c.
LEMMA SeesCut ==
    ASSUME NEW c \in Nat, NEW q \in Versions, NEW s \in Nat, s > c
    PROVE  RowFromChain(s, CutBelow(c, q)) = RowFromChain(s, q)
<1>. DEFINE p == CutBelow(c, q)
<1>0. /\ p \in Versions /\ DOMAIN p \subseteq DOMAIN q /\ DOMAIN q \subseteq Nat
      /\ \A i \in DOMAIN p : p[i] = q[i]
      /\ \A i \in DOMAIN q : i \in DOMAIN p \/ \E j \in DOMAIN p : j < i /\ q[j].csn = c
  <2>1. DOMAIN q \subseteq Nat
    BY DEF Versions
  <2>. QED
    BY Cut, <2>1
<1>. HIDE DEF p
<1>1. CASE \A i \in DOMAIN q : ~(s > q[i].csn)
  <2>1. RowFromChain(s, q) = 0 /\ RowFromChain(s, p) = 0
    BY <1>0, <1>1, SeesNothing
  <2>. QED
    BY <2>1 DEF p
<1>2. CASE \E i \in DOMAIN q : s > q[i].csn
  <2>1. PICK n \in DOMAIN q :
           /\ s > q[n].csn
           /\ \A j \in DOMAIN q : j < n => ~(s > q[j].csn)
           /\ RowFromChain(s, q) = IF q[n].deleted THEN 0 ELSE q[n].csn
    BY <1>2, SeesSomething
  <2>2. n \in DOMAIN p
    BY <1>0, <2>1
  <2>3. RowFromChain(s, p) = IF p[n].deleted THEN 0 ELSE p[n].csn
    BY <1>0, <2>1, <2>2, SeesFirst
  <2>. QED
    BY <1>0, <2>1, <2>2, <2>3 DEF p
<1>. QED
  BY <1>1, <1>2

-----------------------------------------------------------------------------
(* Types.                                                                  *)

\* A step that leaves the store alone and does not touch pending versions.
QuietStep(t) ==
    \/ \E level \in {"RC", "RR"} : StartTransaction(t, level)
    \/ StartStatement(t) \/ SetSnapshot(t) \/ FinishStatement(t)
    \/ \E k \in Key : \/ \E type \in {"RD", "WR"} : RowLookup(t, k, type)
                      \/ DeleteLastRow(t, k) \/ InsertRow(t, k)
    \/ GetVisibleRowVersion(t) \/ GetVisiblePrimaryHeader(t)
    \/ TopRow(t) \/ GetVisibleRowForUpdate(t)
    \/ ValidateCommit(t) \/ RetryLock(t)
    \/ RunQuicese(t) \/ (\E u \in Txn : MinActiveEpoch(t, u))
    \/ SetActiveEpoch(t) \/ GcEndTxn(t)

LEMMA TypeInvOK == TypeInv => TypeOK
<1>. SUFFICES ASSUME TypeInv PROVE TypeOK
  OBVIOUS
<1>1. Batch \subseteq [csn : Csn, keys : SUBSET Key]
  BY DEF Batch
<1>2. Seq(Batch) \subseteq Seq([csn : Csn, keys : SUBSET Key])
  BY <1>1, SeqMonotonic
<1>3. limbo \in [Txn -> Seq([csn : Csn, keys : SUBSET Key])]
  BY <1>2 DEF TypeInv, BaseInv
<1>. QED
  BY <1>3 DEF TypeInv, TypeOK, StoreType, SessionType, AccessSet, LookupSet, ResultSet, ScanSet

\* No access, no lookup and no result, and what replaces them.
LEMMA RecordTypes ==
    /\ NoAccess \in AccessSet /\ NoLookup \in LookupSet /\ NoResult \in ResultSet
    /\ NoScan \in ScanSet
    /\ \A a \in AccessSet : \A ty \in AccessType : [a EXCEPT !.type = ty] \in AccessSet
    /\ \A a \in AccessSet : \A ty \in AccessType : \A up \in Upgrade :
          [a EXCEPT !.type = ty, !.upgrade = up] \in AccessSet
    /\ \A ty \in AccessType, c \in Csn, s \in Csn, up \in Upgrade :
          [type |-> ty, csn |-> c, snapshot |-> s, upgrade |-> up] \in AccessSet
    /\ \A k \in Key, ty \in AccessType, c \in Csn :
          [key |-> k, type |-> ty, top |-> c] \in LookupSet
    /\ \A k \in Key, ty \in AccessType, c \in Csn, h \in BOOLEAN :
          [key |-> k, type |-> ty, csn |-> c, hasty |-> h] \in ResultSet
    /\ \A l \in LookupSet : \A c \in Csn : [l EXCEPT !.top = c] \in LookupSet
    /\ \A l \in LookupSet : \A k \in Key \cup {0} : [l EXCEPT !.key = k] \in LookupSet
    /\ \A t \in Txn : \A S \in SUBSET Txn : [by |-> t, todo |-> S] \in ScanSet
    /\ \A s \in ScanSet : \A u \in Txn : [s EXCEPT !.todo = s.todo \ {u}] \in ScanSet
  BY CsnNat DEF AccessSet, LookupSet, ResultSet, ScanSet, NoAccess, NoLookup, NoResult, NoScan,
                AccessType, Upgrade

LEMMA ElementType ==
    ASSUME NEW q \in Versions, NEW n \in DOMAIN q
    PROVE  q[n] \in VersionSet /\ q[n].csn \in Csn /\ q[n].csn \in Nat /\ q[n].deleted \in BOOLEAN
<1>1. q \in Seq(VersionSet)
  BY DEF Versions, VersionSet
<1>2. q[n] \in VersionSet
  BY <1>1
<1>. QED
  BY <1>2, CsnNat DEF VersionSet

LEMMA RowSeen ==
    ASSUME NEW c \in Nat, NEW q \in Versions
    PROVE  RowFromChain(c, q) \in Csn
<1>1. CASE \A j \in DOMAIN q : ~(c > q[j].csn)
  BY <1>1, SeesNothing, CsnNat
<1>2. CASE \E j \in DOMAIN q : c > q[j].csn
  <2>1. PICK n \in DOMAIN q : RowFromChain(c, q) = IF q[n].deleted THEN 0 ELSE q[n].csn
    BY <1>2, SeesSomething
  <2>. QED
    BY <2>1, ElementType, CsnNat
<1>. QED
  BY <1>1, <1>2

LEMMA TopType ==
    ASSUME StoreType, NEW k \in Key
    PROVE  /\ Top(k) \in Csn
           /\ chain[k] \in Versions /\ hist[k] \in Versions
           /\ chain[k] # <<>> => 1 \in DOMAIN chain[k] /\ chain[k][1] \in VersionSet
<1>1. chain[k] \in Versions /\ hist[k] \in Versions
  BY DEF StoreType
<1>2. chain[k] # <<>> => 1 \in DOMAIN chain[k]
  BY <1>1 DEF Versions
<1>3. chain[k] # <<>> => chain[k][1] \in VersionSet
  BY <1>1, <1>2, ElementType
<1>. QED
  BY <1>1, <1>2, <1>3, CsnNat DEF Top, VersionSet

\* The fields of a session's records.
LEMMA FieldTypes ==
    ASSUME SessionType, NEW t \in Txn
    PROVE  /\ cur[t] \in LookupSet /\ cur[t].key \in Key \cup {0}
           /\ cur[t].type \in AccessType /\ cur[t].top \in Csn
           /\ \A k \in Key : /\ access[t][k] \in AccessSet
                             /\ access[t][k].type \in AccessType /\ access[t][k].csn \in Csn
                             /\ access[t][k].snapshot \in Csn /\ access[t][k].upgrade \in Upgrade
           /\ scan.todo \in SUBSET Txn
  BY DEF SessionType, LookupSet, AccessSet, ScanSet

LEMMA AccessUpdate ==
    ASSUME SessionType, NEW t \in Txn, NEW k \in Key, NEW a \in AccessSet
    PROVE  [access EXCEPT ![t][k] = a] \in [Txn -> [Key -> AccessSet]]
  BY DEF SessionType

LEMMA QuietType ==
    ASSUME TypeInv, NEW t \in Txn, ShapeInv(t), QuietStep(t)
    PROVE  TypeInv' /\ Key' = Key
<1>0. UNCHANGED <<chain, hist, startCSN, dirty, lock, writeBit, limbo, clock>>
  BY DEF QuietStep, StartTransaction, StartStatement, SetSnapshot, FinishStatement, RowLookup,
         GetVisibleRowVersion, GetVisiblePrimaryHeader, TopRow, GetVisibleRowForUpdate,
         DeleteLastRow, InsertRow, ValidateCommit, RetryLock, RunQuicese, MinActiveEpoch,
         SetActiveEpoch, GcEndTxn, storeVars, gcVars
<1>1. Key' = Key /\ AccessSet' = AccessSet /\ LookupSet' = LookupSet /\ ResultSet' = ResultSet
  BY <1>0 DEF Key, AccessSet, LookupSet, ResultSet
<1>2. BaseInv' /\ StoreType'
  <2>1. Batch' = Batch
    BY <1>1 DEF Batch
  <2>. QED
    BY <1>0, <1>1, <2>1 DEF TypeInv, BaseInv, StoreType
<1>3. SessionType
  BY DEF TypeInv
<1>4. /\ clock \in Csn /\ Csn \subseteq Nat /\ 0 \in Csn /\ \A k \in Key : Top(k) \in Csn
      /\ {"RD", "WR", "DEL", "INS"} = AccessType /\ {"no", "onDeleted", "onOwnDelete"} = Upgrade
      /\ \A k \in Key : Locked(k) \in BOOLEAN
  BY TopType, CsnNat DEF TypeInv, StoreType, AccessType, Upgrade, Locked
<1>. USE DEF SessionType
<1>5. ASSUME \E level \in {"RC", "RR"} : StartTransaction(t, level) PROVE SessionType'
  BY <1>5, <1>1, <1>3, <1>4 DEF StartTransaction, Goto, Label, Cursor, gcVars
<1>6. ASSUME StartStatement(t) PROVE SessionType'
  BY <1>6, <1>1, <1>3, <1>4 DEF StartStatement, Goto, Label, Cursor, gcVars
<1>7. ASSUME SetSnapshot(t) PROVE SessionType'
  BY <1>7, <1>1, <1>3, <1>4 DEF SetSnapshot, Goto, Label, Cursor, txnVars
<1>8. ASSUME FinishStatement(t) PROVE SessionType'
  BY <1>8, <1>1, <1>3, <1>4, RecordTypes DEF FinishStatement, Goto, Label, Cursor
<1>9. ASSUME \E k \in Key : \E type \in {"RD", "WR"} : RowLookup(t, k, type) PROVE SessionType'
  <2>1. PICK k \in Key, type \in {"RD", "WR"} : RowLookup(t, k, type)
    BY <1>9
  <2>. DEFINE l == [key |-> k, type |-> type, top |-> IF type = "RD" THEN Top(k) ELSE 0]
              g == [key |-> k, type |-> type, csn |-> 0, hasty |-> Locked(k)]
  <2>2. l \in LookupSet /\ g \in ResultSet /\ NoResult \in ResultSet
    BY <1>4, RecordTypes
  <2>3. /\ UNCHANGED <<iso, snap, access, csn, gcEpoch, bound, scan, activeEpoch, late>>
        /\ \/ got' = [got EXCEPT ![t] = g] /\ UNCHANGED <<pc, cur>>
           \/ /\ \E lb \in {"read", "header"} : pc' = [pc EXCEPT ![t] = lb]
              /\ cur' = [cur EXCEPT ![t] = l] /\ got' = [got EXCEPT ![t] = NoResult]
    BY <2>1 DEF RowLookup, Goto, gcVars
  <2>. HIDE DEF l, g
  <2>4. pc' \in [Txn -> Label]
    BY <2>2, <2>3, <1>3 DEF Label, Cursor
  <2>5. cur' \in [Txn -> LookupSet]
    BY <2>2, <2>3, <1>3
  <2>6. got' \in [Txn -> ResultSet]
    BY <2>2, <2>3, <1>3
  <2>. QED
    BY <2>3, <2>4, <2>5, <2>6, <1>1, <1>3
<1>10. ASSUME GetVisibleRowVersion(t) PROVE SessionType'
  <2>1. cur[t].key \in Key
    BY <1>10 DEF ShapeInv, LookingUp, GetVisibleRowVersion
  <2>2. RowFromChain(snap[t], chain[cur[t].key]) \in Csn
    BY <2>1, <1>3, <1>4, RowSeen DEF TypeInv, StoreType
  <2>. QED
    BY <1>10, <1>1, <1>3, <1>4, <2>1, <2>2, FieldTypes, RecordTypes DEF GetVisibleRowVersion, Return, Goto, Label, Cursor, gcVars
<1>11. ASSUME GetVisiblePrimaryHeader(t) PROVE SessionType'
  <2>1. cur[t].key \in Key
    BY <1>11 DEF ShapeInv, LookingUp, GetVisiblePrimaryHeader
  <2>. DEFINE g == [key |-> cur[t].key, type |-> cur[t].type, csn |-> 0, hasty |-> FALSE]
  <2>2. g \in ResultSet /\ NoLookup \in LookupSet
    BY <2>1, <1>3, <1>4, FieldTypes, RecordTypes
  <2>3. /\ UNCHANGED <<iso, snap, access, csn, gcEpoch, bound, scan, activeEpoch, late>>
        /\ \/ pc' = [pc EXCEPT ![t] = "topRow"] /\ UNCHANGED <<cur, got>>
           \/ /\ pc' = [pc EXCEPT ![t] = "ready"] /\ cur' = [cur EXCEPT ![t] = NoLookup]
              /\ got' = [got EXCEPT ![t] = g]
    BY <1>11 DEF GetVisiblePrimaryHeader, Return, Goto, gcVars
  <2>. HIDE DEF g
  <2>4. pc' \in [Txn -> Label]
    BY <2>2, <2>3, <1>3 DEF Label, Cursor
  <2>5. cur' \in [Txn -> LookupSet]
    BY <2>2, <2>3, <1>3
  <2>6. got' \in [Txn -> ResultSet]
    BY <2>2, <2>3, <1>3
  <2>. QED
    BY <2>3, <2>4, <2>5, <2>6, <1>1, <1>3
<1>12. ASSUME TopRow(t) PROVE SessionType'
  <2>1. cur[t].key \in Key
    BY <1>12 DEF ShapeInv, LookingUp, TopRow
  <2>. DEFINE g == [key |-> cur[t].key, type |-> cur[t].type, csn |-> 0, hasty |-> FALSE]
  <2>2. /\ g \in ResultSet /\ NoLookup \in LookupSet
        /\ [cur[t] EXCEPT !.top = Top(cur[t].key)] \in LookupSet
        /\ \A r \in Csn : [type |-> cur[t].type, csn |-> r, snapshot |-> snap[t],
                           upgrade |-> "no"] \in AccessSet
    BY <2>1, <1>3, <1>4, FieldTypes, RecordTypes
  <2>3. ASSUME NEW r \in Csn, RowForUpdate(t, cur[t].key, r),
               UNCHANGED <<iso, snap, csn, gcEpoch, bound, scan, activeEpoch, late>>
        PROVE  SessionType'
    <3>. DEFINE a == [type |-> cur[t].type, csn |-> r, snapshot |-> snap[t], upgrade |-> "no"]
    <3>1. \/ /\ pc' = [pc EXCEPT ![t] = "abort"] /\ cur' = [cur EXCEPT ![t] = NoLookup]
             /\ UNCHANGED <<access, got>>
          \/ /\ pc' = [pc EXCEPT ![t] = "ready"] /\ cur' = [cur EXCEPT ![t] = NoLookup]
             /\ got' = [got EXCEPT ![t] = g] /\ UNCHANGED access
          \/ /\ pc' = [pc EXCEPT ![t] = "ready"] /\ cur' = [cur EXCEPT ![t] = NoLookup]
             /\ access' = [access EXCEPT ![t][cur[t].key] = a] /\ UNCHANGED got
      BY <2>3 DEF RowForUpdate, Return, Goto
    <3>2. a \in AccessSet
      BY <2>2, <2>3
    <3>. HIDE DEF a, g
    <3>3. pc' \in [Txn -> Label]
      BY <2>1, <2>2, <3>1, <3>2, <1>3 DEF Label, Cursor
    <3>4. cur' \in [Txn -> LookupSet]
      BY <2>1, <2>2, <3>1, <3>2, <1>3
    <3>5. got' \in [Txn -> ResultSet]
      BY <2>1, <2>2, <3>1, <3>2, <1>3
    <3>6. access' \in [Txn -> [Key -> AccessSet]]
      <4>1. [access EXCEPT ![t][cur[t].key] = a] \in [Txn -> [Key -> AccessSet]]
        BY <2>1, <3>2, <1>3, AccessUpdate
      <4>. QED
        BY <3>1, <4>1, <1>3
    <3>. QED
      BY <2>3, <3>3, <3>4, <3>5, <3>6, <1>1, <1>3
  <2>4. UNCHANGED <<iso, snap, csn, gcEpoch, bound, scan, activeEpoch, late>>
    BY <1>12 DEF TopRow, gcVars
  <2>5. CASE RowForUpdate(t, cur[t].key, 0)
    BY <2>3, <2>4, <2>5, <1>4
  <2>6. CASE /\ Goto(t, "fetch") /\ UNCHANGED <<access, got>>
             /\ cur' = [cur EXCEPT ![t].top = Top(cur[t].key)]
    <3>1. cur' = [cur EXCEPT ![t] = [cur[t] EXCEPT !.top = Top(cur[t].key)]]
      BY <2>6
    <3>. DEFINE l == [cur[t] EXCEPT !.top = Top(cur[t].key)]
    <3>2. l \in LookupSet
      BY <2>2
    <3>3. cur' = [cur EXCEPT ![t] = l]
      BY <3>1
    <3>. HIDE DEF l
    <3>. QED
      BY <2>4, <2>6, <3>2, <3>3, <1>1, <1>3 DEF Goto, Label, Cursor
  <2>. QED
    BY <1>12, <2>5, <2>6 DEF TopRow
<1>13. ASSUME GetVisibleRowForUpdate(t) PROVE SessionType'
  <2>1. cur[t].key \in Key
    BY <1>13 DEF ShapeInv, LookingUp, GetVisibleRowForUpdate
  <2>. DEFINE g == [key |-> cur[t].key, type |-> cur[t].type, csn |-> 0, hasty |-> FALSE]
  <2>2. /\ g \in ResultSet /\ NoLookup \in LookupSet
        /\ [cur[t] EXCEPT !.top = Top(cur[t].key)] \in LookupSet
        /\ \A r \in Csn : [type |-> cur[t].type, csn |-> r, snapshot |-> snap[t],
                           upgrade |-> "no"] \in AccessSet
    BY <2>1, <1>3, <1>4, FieldTypes, RecordTypes
  <2>3. ASSUME NEW r \in Csn, RowForUpdate(t, cur[t].key, r),
               UNCHANGED <<iso, snap, csn, gcEpoch, bound, scan, activeEpoch, late>>
        PROVE  SessionType'
    <3>. DEFINE a == [type |-> cur[t].type, csn |-> r, snapshot |-> snap[t], upgrade |-> "no"]
    <3>1. \/ /\ pc' = [pc EXCEPT ![t] = "abort"] /\ cur' = [cur EXCEPT ![t] = NoLookup]
             /\ UNCHANGED <<access, got>>
          \/ /\ pc' = [pc EXCEPT ![t] = "ready"] /\ cur' = [cur EXCEPT ![t] = NoLookup]
             /\ got' = [got EXCEPT ![t] = g] /\ UNCHANGED access
          \/ /\ pc' = [pc EXCEPT ![t] = "ready"] /\ cur' = [cur EXCEPT ![t] = NoLookup]
             /\ access' = [access EXCEPT ![t][cur[t].key] = a] /\ UNCHANGED got
      BY <2>3 DEF RowForUpdate, Return, Goto
    <3>2. a \in AccessSet
      BY <2>2, <2>3
    <3>. HIDE DEF a, g
    <3>3. pc' \in [Txn -> Label]
      BY <2>1, <2>2, <3>1, <3>2, <1>3 DEF Label, Cursor
    <3>4. cur' \in [Txn -> LookupSet]
      BY <2>1, <2>2, <3>1, <3>2, <1>3
    <3>5. got' \in [Txn -> ResultSet]
      BY <2>1, <2>2, <3>1, <3>2, <1>3
    <3>6. access' \in [Txn -> [Key -> AccessSet]]
      <4>1. [access EXCEPT ![t][cur[t].key] = a] \in [Txn -> [Key -> AccessSet]]
        BY <2>1, <3>2, <1>3, AccessUpdate
      <4>. QED
        BY <3>1, <4>1, <1>3
    <3>. QED
      BY <2>3, <3>3, <3>4, <3>5, <3>6, <1>1, <1>3
  <2>4. UNCHANGED <<iso, snap, csn, gcEpoch, bound, scan, activeEpoch, late>>
    BY <1>13 DEF GetVisibleRowForUpdate, gcVars
  <2>. QED
    BY <1>13, <2>1, <2>3, <2>4, <1>4 DEF GetVisibleRowForUpdate
<1>14. ASSUME \E k \in Key : DeleteLastRow(t, k) PROVE SessionType'
  <2>1. PICK k \in Key : DeleteLastRow(t, k)
    BY <1>14
  <2>. DEFINE a == [access[t][k] EXCEPT !.type = "DEL"]
  <2>2. a \in AccessSet /\ NoResult \in ResultSet
    BY <1>3, <1>4, RecordTypes, FieldTypes
  <2>3. /\ access' = [access EXCEPT ![t][k] = a] /\ got' = [got EXCEPT ![t] = NoResult]
        /\ UNCHANGED <<pc, iso, snap, cur, csn, gcEpoch, bound, scan, activeEpoch, late>>
    BY <2>1 DEF DeleteLastRow, gcVars
  <2>. HIDE DEF a
  <2>. QED
    BY <2>2, <2>3, <1>1, <1>3
<1>15. ASSUME \E k \in Key : InsertRow(t, k) PROVE SessionType'
  <2>1. PICK k \in Key : InsertRow(t, k)
    BY <1>15
  <2>. DEFINE a0 == [type |-> "INS", csn |-> 0, snapshot |-> snap[t], upgrade |-> "no"]
              a1 == [access[t][k] EXCEPT !.type = "INS", !.upgrade = "onOwnDelete"]
              a2 == [type |-> "INS", csn |-> Top(k), snapshot |-> snap[t], upgrade |-> "onDeleted"]
  <2>2. a0 \in AccessSet /\ a1 \in AccessSet /\ a2 \in AccessSet /\ NoResult \in ResultSet
    BY <1>3, <1>4, RecordTypes, FieldTypes
  <2>3. /\ \/ access' = [access EXCEPT ![t][k] = a0] /\ UNCHANGED pc
           \/ access' = [access EXCEPT ![t][k] = a1] /\ UNCHANGED pc
           \/ access' = [access EXCEPT ![t][k] = a2] /\ UNCHANGED pc
           \/ pc' = [pc EXCEPT ![t] = "abort"] /\ UNCHANGED access
        /\ got' = [got EXCEPT ![t] = NoResult]
        /\ UNCHANGED <<iso, snap, cur, csn, gcEpoch, bound, scan, activeEpoch, late>>
    <3>1. /\ got' = [got EXCEPT ![t] = NoResult]
          /\ UNCHANGED <<iso, snap, cur, csn, gcEpoch, bound, scan, activeEpoch, late>>
      BY <2>1 DEF InsertRow, gcVars
    <3>2. CASE dirty[k]
      BY <2>1, <3>1, <3>2 DEF InsertRow
    <3>3. CASE ~dirty[k] /\ access[t][k].type = "DEL"
      BY <2>1, <3>1, <3>3 DEF InsertRow
    <3>4. CASE ~dirty[k] /\ access[t][k].type # "DEL" /\ chain[k][1].deleted
      BY <2>1, <3>1, <3>4 DEF InsertRow
    <3>5. CASE ~dirty[k] /\ access[t][k].type # "DEL" /\ ~chain[k][1].deleted
      BY <2>1, <3>1, <3>5 DEF InsertRow, Goto
    <3>. QED
      BY <3>2, <3>3, <3>4, <3>5
  <2>. HIDE DEF a0, a1, a2
  <2>4. pc' \in [Txn -> Label]
    BY <2>2, <2>3, <1>3 DEF Label, Cursor
  <2>5. got' \in [Txn -> ResultSet]
    BY <2>2, <2>3, <1>3
  <2>6. access' \in [Txn -> [Key -> AccessSet]]
    BY <2>2, <2>3, <1>3
  <2>. QED
    BY <2>3, <2>4, <2>5, <2>6, <1>1, <1>3
<1>16. ASSUME ValidateCommit(t) PROVE SessionType'
  BY <1>16, <1>1, <1>3, <1>4 DEF ValidateCommit, Goto, Label, Cursor, txnVars, gcVars
<1>17. ASSUME RetryLock(t) PROVE SessionType'
  BY <1>17, <1>1, <1>3, <1>4 DEF RetryLock, Goto, Label, Cursor, txnVars, gcVars
<1>18. ASSUME RunQuicese(t) PROVE SessionType'
  <2>. DEFINE s == [by |-> t, todo |-> Txn \ {t}]
  <2>1. s \in ScanSet
    BY RecordTypes
  <2>2. /\ \E lb \in {"scan", "reclaim"} : pc' = [pc EXCEPT ![t] = lb]
        /\ \E b \in {gcEpoch[t], activeEpoch} : bound' = [bound EXCEPT ![t] = b]
        /\ scan' \in {s, scan}
        /\ UNCHANGED <<iso, snap, access, cur, got, csn, gcEpoch, activeEpoch, late>>
    BY <1>18 DEF RunQuicese, Goto, txnVars
  <2>. HIDE DEF s
  <2>. QED
    BY <2>1, <2>2, <1>1, <1>3 DEF Label, Cursor
<1>19. ASSUME \E u \in Txn : MinActiveEpoch(t, u) PROVE SessionType'
  <2>1. PICK u \in Txn : MinActiveEpoch(t, u)
    BY <1>19
  <2>. DEFINE s == [scan EXCEPT !.todo = scan.todo \ {u}]
  <2>2. s \in ScanSet
    BY RecordTypes, <1>3
  <2>3. /\ scan' = s
        /\ \E b \in {gcEpoch[u], bound[t]} : bound' = [bound EXCEPT ![t] = b]
        /\ \E l \in BOOLEAN : late' = [late EXCEPT ![u] = l]
        /\ UNCHANGED <<pc, iso, snap, access, cur, got, csn, gcEpoch, activeEpoch>>
    <3>1. scan' = s /\ UNCHANGED <<pc, iso, snap, access, cur, got, csn, gcEpoch, activeEpoch>>
      BY <2>1 DEF MinActiveEpoch, txnVars
    <3>2. \E b \in {gcEpoch[u], bound[t]} : bound' = [bound EXCEPT ![t] = b]
      BY <2>1 DEF MinActiveEpoch
    <3>3. (late[u] \/ (snap[u] # 0 /\ gcEpoch[u] = 0)) \in BOOLEAN
      OBVIOUS
    <3>. QED
      BY <2>1, <3>1, <3>2, <3>3 DEF MinActiveEpoch
  <2>. HIDE DEF s
  <2>. QED
    BY <2>2, <2>3, <1>1, <1>3
<1>20. ASSUME SetActiveEpoch(t) PROVE SessionType'
  BY <1>20, <1>1, <1>3, <1>4, RecordTypes DEF SetActiveEpoch, Goto, Label, Cursor, txnVars
<1>21. ASSUME GcEndTxn(t) PROVE SessionType'
  BY <1>21, <1>1, <1>3, <1>4 DEF GcEndTxn, Goto, Label, Cursor, txnVars
<1>22. SessionType'
  BY <1>5, <1>6, <1>7, <1>8, <1>9, <1>10, <1>11, <1>12, <1>13, <1>14, <1>15, <1>16, <1>17, <1>18, <1>19, <1>20, <1>21 DEF QuietStep
<1>. QED
  BY <1>1, <1>2, <1>22 DEF TypeInv

\* The other steps.
LEMMA TryLockEffect ==
    ASSUME TypeInv, NEW t \in Txn, LockInv(t), TryLock(t)
    PROVE  /\ pc[t] = "lock"
           /\ UNCHANGED <<clock, chain, startCSN, dirty, txnVars, gcVars, hist, late>>
           /\ \/ /\ pc' = [pc EXCEPT ![t] = "retry"] /\ Unlock(t)
              \/ \E k \in Accessed(t) : \E l \in {"abort", "lock", "validated"} :
                    /\ lock[k] = NoTxn /\ lock' = [lock EXCEPT ![k] = t] /\ UNCHANGED writeBit
                    /\ pc' = [pc EXCEPT ![t] = l]
                    /\ l = "lock" => Accessed(t) \ LockedBy(t) # {k}
                    /\ l = "validated" => Accessed(t) \ LockedBy(t) = {k} /\ AllValid(t)
<1>. DEFINE rest == Accessed(t) \ LockedBy(t)
            k == First(rest)
<1>1. pc[t] = "lock" /\ UNCHANGED <<clock, chain, startCSN, dirty, txnVars, gcVars, hist, late>>
  BY DEF TryLock
<1>2. rest # {} /\ rest \in SUBSET Nat
  BY <1>1 DEF LockInv, TypeInv, BaseInv, Accessed
<1>3. k \in rest
  BY <1>2, FirstIsLeast
<1>4. CASE Locked(k)
  BY <1>1, <1>4 DEF TryLock, Goto
<1>5. CASE ~Locked(k)
  <2>1. lock[k] = NoTxn /\ lock' = [lock EXCEPT ![k] = t] /\ UNCHANGED writeBit
    BY <1>5 DEF TryLock, Locked
  <2>2. CASE ~QuickHeaderValidation(t, k)
    BY <1>5, <1>1, <1>3, <2>1, <2>2 DEF TryLock, Goto
  <2>3. CASE QuickHeaderValidation(t, k) /\ rest # {k}
    BY <1>5, <1>1, <1>3, <2>1, <2>3 DEF TryLock, Goto
  <2>4. CASE QuickHeaderValidation(t, k) /\ rest = {k} /\ AllValid(t)
    BY <1>5, <1>1, <1>3, <2>1, <2>4 DEF TryLock, Goto
  <2>5. CASE QuickHeaderValidation(t, k) /\ rest = {k} /\ ~AllValid(t)
    BY <1>5, <1>1, <1>3, <2>1, <2>5 DEF TryLock, Goto
  <2>. QED
    BY <2>2, <2>3, <2>4, <2>5
<1>. QED
  BY <1>4, <1>5

LEMMA TryLockType ==
    ASSUME TypeInv, NEW t \in Txn, LockInv(t), TryLock(t)
    PROVE  TypeInv' /\ Key' = Key
<1>0. UNCHANGED <<clock, chain, startCSN, dirty, txnVars, gcVars, hist, late>>
  BY DEF TryLock
<1>1. Key' = Key /\ AccessSet' = AccessSet /\ LookupSet' = LookupSet /\ ResultSet' = ResultSet
  BY <1>0 DEF Key, AccessSet, LookupSet, ResultSet
<1>2. BaseInv'
  <2>1. Batch' = Batch
    BY <1>1 DEF Batch
  <2>. QED
    BY <1>0, <1>1, <2>1 DEF TypeInv, BaseInv, gcVars
<1>3. lock' \in [Key -> Txn \cup {NoTxn}] /\ writeBit' \in [Key -> BOOLEAN] /\ pc' \in [Txn -> Label]
  <2>1. CASE pc' = [pc EXCEPT ![t] = "retry"] /\ Unlock(t)
    BY <2>1 DEF Unlock, TypeInv, StoreType, SessionType, Label, Cursor
  <2>2. CASE \E k \in Accessed(t) : \E l \in {"abort", "lock", "validated"} :
               /\ lock' = [lock EXCEPT ![k] = t] /\ UNCHANGED writeBit
               /\ pc' = [pc EXCEPT ![t] = l]
    BY <2>2 DEF Accessed, TypeInv, StoreType, SessionType, Label, Cursor
  <2>. QED
    BY <2>1, <2>2, TryLockEffect
<1>4. StoreType'
  BY <1>0, <1>1, <1>3 DEF TypeInv, StoreType
<1>5. SessionType'
  BY <1>0, <1>1, <1>3 DEF TypeInv, SessionType, txnVars, gcVars
<1>. QED
  BY <1>1, <1>2, <1>4, <1>5 DEF TypeInv

LEMMA SetCommitCsnType ==
    ASSUME TypeInv, NEW t \in Txn, ShapeInv(t), SetCommitCsn(t)
    PROVE  /\ TypeInv' /\ Key' = Key
           /\ First(Accessed(t)) \in Accessed(t)
           /\ \A k \in Accessed(t) : First(Accessed(t)) <= k
<1>0. /\ UNCHANGED <<storeVars, iso, snap, access, got, gcVars, late>>
      /\ pc[t] = "validated" /\ clock' = clock + 1 /\ clock < MaxCsn
      /\ csn' = [csn EXCEPT ![t] = clock] /\ pc' = [pc EXCEPT ![t] = "global"]
      /\ cur' = [cur EXCEPT ![t].key = First(Accessed(t))]
  BY DEF SetCommitCsn, Goto
<1>1. Key' = Key /\ AccessSet' = AccessSet /\ LookupSet' = LookupSet /\ ResultSet' = ResultSet
  BY <1>0 DEF Key, AccessSet, LookupSet, ResultSet, storeVars
<1>2. First(Accessed(t)) \in Accessed(t) /\ \A k \in Accessed(t) : First(Accessed(t)) <= k
  <2>1. Accessed(t) # {} /\ Accessed(t) \in SUBSET Nat
    BY <1>0 DEF ShapeInv, TypeInv, BaseInv, Accessed
  <2>. QED
    BY <2>1, FirstIsLeast
<1>3. clock \in Nat /\ clock \in Csn /\ clock' \in Csn /\ clock > 0 /\ MaxCsn \in Nat
  BY <1>0, MaxCsnAssumption DEF TypeInv, StoreType, BaseInv, Csn
<1>4. BaseInv'
  <2>1. Batch' = Batch
    BY <1>1 DEF Batch
  <2>. QED
    BY <1>0, <1>1, <1>3, <2>1 DEF TypeInv, BaseInv, gcVars
<1>5. hist' \in [Key -> Versions]
  <2>1. ASSUME NEW k \in Key, NEW d \in BOOLEAN PROVE <<Version(clock, d)>> \o hist[k] \in Versions
    <3>1. Version(clock, d) \in VersionSet /\ hist[k] \in Versions
      BY <1>3 DEF Version, VersionSet, TypeInv, StoreType
    <3>. QED
      BY <3>1, Prepend
  <2>2. ASSUME NEW k \in Key PROVE <<Version(clock, access[t][k].type = "DEL")>> \o hist[k] \in Versions
    <3>1. (access[t][k].type = "DEL") \in BOOLEAN
      OBVIOUS
    <3>. QED
      BY <2>1, <3>1
  <2>. QED
    BY <2>2 DEF SetCommitCsn, TypeInv, StoreType
<1>6. cur' \in [Txn -> LookupSet]
  <2>. DEFINE l == [cur[t] EXCEPT !.key = First(Accessed(t))]
  <2>1. l \in LookupSet
    BY <1>2, RecordTypes, FieldTypes DEF TypeInv, Accessed
  <2>2. cur' = [cur EXCEPT ![t] = l]
    BY <1>0
  <2>. HIDE DEF l
  <2>. QED
    BY <2>1, <2>2 DEF TypeInv, SessionType
<1>7. StoreType'
  BY <1>0, <1>1, <1>3, <1>5 DEF TypeInv, StoreType, storeVars
<1>8. SessionType'
  BY <1>0, <1>1, <1>3, <1>6 DEF TypeInv, SessionType, Label, Cursor, gcVars
<1>. QED
  BY <1>1, <1>2, <1>4, <1>7, <1>8 DEF TypeInv

\* The next key of WriteChanges, and what is left behind.
LEMMA NextAccessEffect ==
    ASSUME TypeInv, NEW t \in Txn, NEW done \in {"sentinel", "end"}, cur[t].key \in Accessed(t),
           NextAccess(t, done)
    PROVE  \/ \E n \in Accessed(t) :
                 /\ n > cur[t].key /\ UNCHANGED pc /\ cur' = [cur EXCEPT ![t].key = n]
                 /\ \A k \in Accessed(t) : k > cur[t].key => k >= n
           \/ \E n \in Accessed(t) \cup {0} :
                 /\ pc' = [pc EXCEPT ![t] = done] /\ cur' = [cur EXCEPT ![t].key = n]
                 /\ \A k \in Accessed(t) : ~(k > cur[t].key)
                 /\ done = "sentinel" => n \in Accessed(t) /\ \A k \in Accessed(t) : k >= n
<1>. DEFINE rest == {k \in Accessed(t) : k > cur[t].key}
<1>1. Accessed(t) \in SUBSET Nat /\ rest \in SUBSET Nat
  BY DEF TypeInv, BaseInv, Accessed
<1>2. CASE rest # {}
  <2>1. First(rest) \in rest /\ \A j \in rest : First(rest) <= j
    BY <1>1, <1>2, FirstIsLeast
  <2>2. UNCHANGED pc /\ cur' = [cur EXCEPT ![t].key = First(rest)]
    BY <1>2 DEF NextAccess
  <2>. DEFINE n == First(rest)
  <2>3. n \in Accessed(t) /\ n > cur[t].key /\ n \in Nat
    BY <2>1, <1>1
  <2>4. \A k \in Accessed(t) : k > cur[t].key => k >= n
    BY <2>1, <1>1
  <2>. HIDE DEF n
  <2>5. cur' = [cur EXCEPT ![t].key = n]
    BY <2>2 DEF n
  <2>. QED
    BY <2>2, <2>3, <2>4, <2>5
<1>3. CASE rest = {}
  <2>1. First(Accessed(t)) \in Accessed(t) /\ \A j \in Accessed(t) : First(Accessed(t)) <= j
    BY <1>1, FirstIsLeast
  <2>. DEFINE n == IF done = "end" THEN 0 ELSE First(Accessed(t))
  <2>2. pc' = [pc EXCEPT ![t] = done] /\ cur' = [cur EXCEPT ![t].key = n]
    BY <1>3 DEF NextAccess, Goto
  <2>3. n \in Accessed(t) \cup {0} /\ (done = "sentinel" => n \in Accessed(t) /\ \A k \in Accessed(t) : k >= n)
    BY <2>1, <1>1
  <2>. HIDE DEF n
  <2>. QED
    BY <2>2, <2>3, <1>3
<1>. QED
  BY <1>2, <1>3

\* Whether the step of WriteChanges links a version into the chain.
Installs(t) ==
    \/ pc[t] = "global" /\ access[t][cur[t].key].type # "INS"
    \/ pc[t] = "sentinel" /\ access[t][cur[t].key].type = "INS"

WriteStep(t) == WriteGlobalChanges(t) \/ WriteSentinelChanges(t)

\* What a step of WriteChanges does to the store, and how it goes on.
LEMMA WriteEffect ==
    ASSUME TypeInv, NEW t \in Txn, ShapeInv(t), AccessInv(t), WriteStep(t)
    PROVE  LET k == cur[t].key IN
           /\ k \in Accessed(t) /\ k \in Key /\ pc[t] \in {"global", "sentinel"}
           /\ UNCHANGED <<clock, lock, iso, snap, access, got, csn, gcVars, hist, late>>
           /\ \E done \in {"sentinel", "end"} :
                 /\ pc[t] = "global" <=> done = "sentinel"
                 /\ NextAccess(t, done)
           /\ startCSN' \in {startCSN, [startCSN EXCEPT ![k] = csn[t]]}
           /\ pc[t] = "sentinel" /\ ~Installs(t) => UNCHANGED startCSN
           /\ ~Installs(t) => UNCHANGED <<chain, dirty, writeBit>>
           /\ Installs(t) =>
                 /\ writeBit' = [writeBit EXCEPT ![k] = TRUE]
                 /\ dirty' = [dirty EXCEPT ![k] = FALSE]
                 /\ \E q \in Versions :
                       /\ q = chain[k] \/ q = <<Version(csn[t], TRUE)>> \o chain[k]
                       /\ chain' = [chain EXCEPT ![k] =
                             <<Version(csn[t], access[t][k].type = "DEL")>> \o q]
<1>. DEFINE k == cur[t].key
            ac == access[t][k]
<1>1. pc[t] \in {"global", "sentinel"}
      /\ UNCHANGED <<clock, lock, iso, snap, access, got, csn, gcVars, hist, late>>
  BY DEF WriteStep, WriteGlobalChanges, WriteSentinelChanges
<1>2. k \in Accessed(t) /\ k \in Key
  BY <1>1 DEF ShapeInv, Accessed
<1>3. ac.type \in {"WR", "DEL", "INS"} /\ (ac.type \in {"WR", "DEL"} => ac.upgrade = "no" /\ ~dirty[k])
  BY <1>2, FieldTypes DEF AccessInv, Accessed, TypeInv, AccessType
<1>4. chain[k] \in Versions /\ csn[t] \in Csn /\ startCSN \in [Key -> Csn] /\ dirty \in [Key -> BOOLEAN]
      /\ chain \in [Key -> Versions]
  BY <1>2 DEF TypeInv, StoreType, SessionType
<1>5. [startCSN EXCEPT ![k] = startCSN[k]] = startCSN
  BY <1>4
<1>6. CASE pc[t] = "global"
  <2>1. WriteGlobalChanges(t) /\ NextAccess(t, "sentinel")
    BY <1>6 DEF WriteStep, WriteGlobalChanges, WriteSentinelChanges
  <2>2. startCSN' \in {startCSN, [startCSN EXCEPT ![k] = csn[t]]} /\ UNCHANGED dirty
    BY <2>1, <1>5 DEF WriteGlobalChanges
  <2>3. CASE ac.type = "INS"
    BY <2>1, <2>2, <2>3, <1>1, <1>2, <1>6 DEF WriteGlobalChanges, Installs
  <2>4. CASE ac.type # "INS"
    <3>1. dirty' = [dirty EXCEPT ![k] = FALSE]
      <4>1. dirty[k] = FALSE
        BY <1>2, <1>3, <1>4, <2>4
      <4>. QED
        BY <2>2, <1>4, <4>1
    <3>2. /\ writeBit' = [writeBit EXCEPT ![k] = TRUE]
          /\ chain' = [chain EXCEPT ![k] = <<Version(csn[t], ac.type = "DEL")>> \o chain[k]]
      BY <2>1, <2>4, <1>3 DEF WriteGlobalChanges
    <3>. QED
      BY <2>1, <2>2, <2>4, <3>1, <3>2, <1>1, <1>2, <1>4, <1>6 DEF Installs
  <2>. QED
    BY <2>3, <2>4
<1>7. CASE pc[t] = "sentinel"
  <2>1. WriteSentinelChanges(t) /\ NextAccess(t, "end")
    BY <1>7 DEF WriteStep, WriteGlobalChanges, WriteSentinelChanges
  <2>2. CASE ac.type # "INS"
    BY <2>1, <2>2, <1>1, <1>2, <1>7 DEF WriteSentinelChanges, Installs
  <2>3. CASE ac.type = "INS"
    <3>. DEFINE tombstone == IF ac.upgrade = "onOwnDelete" THEN <<Version(csn[t], TRUE)>> ELSE <<>>
                q == IF ac.upgrade = "onOwnDelete" THEN <<Version(csn[t], TRUE)>> \o chain[k]
                     ELSE chain[k]
                v == Version(csn[t], FALSE)
                w == Version(csn[t], TRUE)
    <3>1. v \in VersionSet /\ w \in VersionSet
      BY <1>4 DEF Version, VersionSet
    <3>2. q \in Versions
      BY <3>1, <1>4, Prepend
    <3>3. <<v>> \o tombstone \o chain[k] = <<v>> \o q
      <4>. HIDE DEF v, w
      <4>0. chain[k] \in Seq(VersionSet)
        BY <1>4 DEF Versions, VersionSet
      <4>1. <<v>> \in Seq(VersionSet) /\ <<w>> \in Seq(VersionSet)
        BY <3>1
      <4>2. <<v>> \o <<>> = <<v>>
        BY <4>1, ConcatEmptySeq
      <4>3. (<<v>> \o <<w>>) \o chain[k] = <<v>> \o (<<w>> \o chain[k])
        BY <4>0, <4>1, ConcatAssociative
      <4>. QED
        BY <4>2, <4>3 DEF w
    <3>4. /\ writeBit' = [writeBit EXCEPT ![k] = TRUE]
          /\ dirty' = [dirty EXCEPT ![k] = FALSE]
          /\ startCSN' = [startCSN EXCEPT ![k] = csn[t]]
          /\ chain' = [chain EXCEPT ![k] = <<v>> \o tombstone \o chain[k]]
      BY <2>1, <2>3 DEF WriteSentinelChanges
    <3>5. v = Version(csn[t], ac.type = "DEL")
      BY <2>3
    <3>6. chain' = [chain EXCEPT ![k] = <<Version(csn[t], ac.type = "DEL")>> \o q]
      BY <3>3, <3>4, <3>5
    <3>7. q = chain[k] \/ q = <<Version(csn[t], TRUE)>> \o chain[k]
      OBVIOUS
    <3>. HIDE DEF q, v, w, tombstone
    <3>. QED
      BY <2>1, <2>3, <3>2, <3>4, <3>6, <3>7, <1>1, <1>2, <1>7 DEF Installs
  <2>. QED
    BY <2>2, <2>3
<1>. QED
  BY <1>1, <1>6, <1>7

LEMMA WriteType ==
    ASSUME TypeInv, NEW t \in Txn, ShapeInv(t), AccessInv(t), WriteStep(t)
    PROVE  TypeInv' /\ Key' = Key
<1>. DEFINE k == cur[t].key
<1>1. /\ k \in Accessed(t) /\ k \in Key /\ pc[t] \in {"global", "sentinel"}
      /\ UNCHANGED <<clock, lock, iso, snap, access, got, csn, gcVars, hist, late>>
      /\ startCSN' \in {startCSN, [startCSN EXCEPT ![k] = csn[t]]}
  BY WriteEffect
<1>2. PICK done \in {"sentinel", "end"} : NextAccess(t, done)
  BY WriteEffect
<1>3. chain' \in [Key -> Versions] /\ dirty' \in [Key -> BOOLEAN] /\ writeBit' \in [Key -> BOOLEAN]
  <2>1. CASE ~Installs(t)
    <3>1. UNCHANGED <<chain, dirty, writeBit>>
      BY <2>1, WriteEffect
    <3>. QED
      BY <3>1 DEF TypeInv, StoreType
  <2>2. CASE Installs(t)
    <3>1. PICK q \in Versions :
             chain' = [chain EXCEPT ![k] = <<Version(csn[t], access[t][k].type = "DEL")>> \o q]
      BY <2>2, WriteEffect
    <3>. DEFINE v == Version(csn[t], access[t][k].type = "DEL")
    <3>2. v \in VersionSet
      BY DEF Version, VersionSet, TypeInv, SessionType
    <3>. HIDE DEF v
    <3>3. <<v>> \o q \in Versions
      BY <3>2, Prepend
    <3>4. chain' = [chain EXCEPT ![k] = <<v>> \o q]
      BY <3>1 DEF v
    <3>5. dirty' = [dirty EXCEPT ![k] = FALSE] /\ writeBit' = [writeBit EXCEPT ![k] = TRUE]
      BY <2>2, WriteEffect
    <3>. QED
      BY <1>1, <3>3, <3>4, <3>5 DEF TypeInv, StoreType
  <2>. QED
    BY <2>1, <2>2
<1>4. Key' = Key /\ AccessSet' = AccessSet /\ LookupSet' = LookupSet /\ ResultSet' = ResultSet
  <2>1. DOMAIN chain' = Key
    BY <1>3
  <2>. QED
    BY <2>1 DEF Key, AccessSet, LookupSet, ResultSet
<1>5. BaseInv'
  <2>1. Batch' = Batch
    BY <1>4 DEF Batch
  <2>. QED
    BY <1>1, <1>4, <2>1 DEF TypeInv, BaseInv, gcVars
<1>6. StoreType'
  <2>1. startCSN' \in [Key -> Csn]
    BY <1>1 DEF TypeInv, StoreType, SessionType
  <2>. QED
    BY <1>1, <1>3, <1>4, <2>1 DEF TypeInv, StoreType
<1>7. pc' \in [Txn -> Label] /\ cur' \in [Txn -> LookupSet]
  <2>1. PICK n \in Key \cup {0} : cur' = [cur EXCEPT ![t].key = n]
    BY <1>1, <1>2, NextAccessEffect DEF Accessed
  <2>2. pc' \in {pc, [pc EXCEPT ![t] = done]}
    BY <1>1, <1>2, NextAccessEffect
  <2>. DEFINE l == [cur[t] EXCEPT !.key = n]
  <2>3. l \in LookupSet
    BY RecordTypes, FieldTypes DEF TypeInv
  <2>4. cur' = [cur EXCEPT ![t] = l]
    BY <2>1
  <2>. HIDE DEF l
  <2>. QED
    BY <2>2, <2>3, <2>4 DEF TypeInv, SessionType, Label, Cursor
<1>8. SessionType'
  BY <1>1, <1>4, <1>7 DEF TypeInv, SessionType, gcVars
<1>. QED
  BY <1>4, <1>5, <1>6, <1>8 DEF TypeInv

LEMMA EndTransactionType ==
    ASSUME TypeInv, NEW t \in Txn, NEW reached \in BOOLEAN, EndTransaction(t, reached)
    PROVE  TypeInv' /\ Key' = Key
<1>1. /\ UNCHANGED <<clock, chain, startCSN, dirty, cur, bound, scan, activeEpoch, hist>>
      /\ Unlock(t)
      /\ limbo' = [limbo EXCEPT ![t] = limbo[t] \o Retired(t)]
  BY DEF EndTransaction
<1>2. Key' = Key /\ AccessSet' = AccessSet /\ LookupSet' = LookupSet /\ ResultSet' = ResultSet
  BY <1>1 DEF Key, AccessSet, LookupSet, ResultSet
<1>3. StoreType'
  BY <1>1, <1>2 DEF TypeInv, StoreType, Unlock
<1>4. SessionType'
  <2>1. NoAccess \in AccessSet /\ NoResult \in ResultSet /\ 0 \in Csn /\ clock \in Csn
    BY RecordTypes, CsnNat DEF TypeInv, StoreType
  <2>. QED
    BY <1>1, <1>2, <2>1 DEF EndTransaction, TypeInv, SessionType, Goto, Label, Cursor
<1>5. BaseInv'
  <2>1. Batch' = Batch
    BY <1>2 DEF Batch
  <2>2. Retired(t) \in Seq(Batch)
    <3>. DEFINE keys == {k \in Key : access[t][k].type = "WR" \/ access[t][k].upgrade # "no"}
    <3>1. CASE csn[t] = 0 \/ keys = {}
      BY <3>1 DEF Retired
    <3>2. CASE ~(csn[t] = 0 \/ keys = {})
      <4>1. [csn |-> csn[t], keys |-> keys] \in Batch
        BY <3>2 DEF Batch, TypeInv, SessionType
      <4>2. Retired(t) = <<[csn |-> csn[t], keys |-> keys]>>
        BY <3>2 DEF Retired
      <4>. QED
        BY <4>1, <4>2
    <3>. QED
      BY <3>1, <3>2
  <2>3. limbo[t] \o Retired(t) \in Seq(Batch)
    BY <2>2, ConcatProperties DEF TypeInv, BaseInv
  <2>4. limbo' \in [Txn -> Seq(Batch)]
    BY <1>1, <2>3 DEF TypeInv, BaseInv
  <2>. QED
    BY <1>1, <1>2, <2>1, <2>4 DEF TypeInv, BaseInv
<1>. QED
  BY <1>2, <1>3, <1>4, <1>5 DEF TypeInv

\* The collector cuts one chain, or none.
LEMMA RowVersionDtorEffect ==
    ASSUME TypeInv, NEW t \in Txn, RowVersionDtor(t)
    PROVE  /\ pc[t] = "reclaim"
           /\ UNCHANGED <<clock, startCSN, dirty, lock, writeBit, pc, txnVars,
                          gcEpoch, bound, scan, activeEpoch, hist, late>>
           /\ \E k \in Key, c \in Csn :
                 /\ c < bound[t]
                 /\ chain' = chain \/ chain' = [chain EXCEPT ![k] = CutBelow(c, chain[k])]
           /\ limbo' \in [Txn -> Seq(Batch)]
<1>. DEFINE e == limbo[t][1]
            k == First(e.keys)
<1>1. /\ pc[t] = "reclaim" /\ limbo[t] # <<>> /\ e.csn < bound[t]
      /\ UNCHANGED <<clock, startCSN, dirty, lock, writeBit, pc, txnVars,
                     gcEpoch, bound, scan, activeEpoch, hist, late>>
      /\ chain' = chain \/ chain' = [chain EXCEPT ![k] = CutBelow(e.csn, chain[k])]
      /\ limbo' = [limbo EXCEPT ![t] = IF e.keys = {k} THEN Tail(@)
                                       ELSE <<[e EXCEPT !.keys = @ \ {k}]>> \o Tail(@)]
  BY DEF RowVersionDtor, Reclaimable
<1>2. limbo[t] \in Seq(Batch)
  BY DEF TypeInv, BaseInv
<1>3. e \in Batch /\ Tail(limbo[t]) \in Seq(Batch)
  BY <1>1, <1>2
<1>4. e.csn \in Csn /\ e.keys \subseteq Key /\ e.keys # {}
  BY <1>3 DEF Batch
<1>5. k \in e.keys /\ k \in Key
  <2>1. e.keys \in SUBSET Nat
    BY <1>4 DEF TypeInv, BaseInv
  <2>. QED
    BY <1>4, <2>1, FirstIsLeast
<1>6. limbo' \in [Txn -> Seq(Batch)]
  <2>1. CASE e.keys = {k}
    BY <1>1, <1>3, <2>1 DEF TypeInv, BaseInv
  <2>2. CASE e.keys # {k}
    <3>. DEFINE b == [e EXCEPT !.keys = e.keys \ {k}]
    <3>1. b \in Batch
      BY <1>3, <1>4, <1>5, <2>2 DEF Batch
    <3>2. limbo' = [limbo EXCEPT ![t] = <<b>> \o Tail(limbo[t])]
      BY <1>1, <2>2
    <3>. HIDE DEF b
    <3>3. <<b>> \o Tail(limbo[t]) \in Seq(Batch)
      <4>1. <<b>> \in Seq(Batch)
        BY <3>1
      <4>. QED
        BY <4>1, <1>3, ConcatProperties
    <3>. QED
      BY <3>2, <3>3 DEF TypeInv, BaseInv
  <2>. QED
    BY <2>1, <2>2
<1>. QED
  BY <1>1, <1>4, <1>5, <1>6

LEMMA RowVersionDtorType ==
    ASSUME TypeInv, NEW t \in Txn, RowVersionDtor(t)
    PROVE  TypeInv' /\ Key' = Key
<1>1. /\ UNCHANGED <<clock, startCSN, dirty, lock, writeBit, pc, txnVars,
                     gcEpoch, bound, scan, activeEpoch, hist, late>>
      /\ limbo' \in [Txn -> Seq(Batch)]
  BY RowVersionDtorEffect
<1>2. PICK k \in Key, c \in Csn : chain' = chain \/ chain' = [chain EXCEPT ![k] = CutBelow(c, chain[k])]
  BY RowVersionDtorEffect
<1>3. CutBelow(c, chain[k]) \in Versions
  BY Cut, CsnNat DEF TypeInv, StoreType
<1>4. chain' \in [Key -> Versions]
  BY <1>2, <1>3 DEF TypeInv, StoreType
<1>5. Key' = Key /\ AccessSet' = AccessSet /\ LookupSet' = LookupSet /\ ResultSet' = ResultSet
  <2>1. DOMAIN chain' = Key
    BY <1>4
  <2>. QED
    BY <2>1 DEF Key, AccessSet, LookupSet, ResultSet
<1>6. BaseInv'
  <2>1. Batch' = Batch
    BY <1>5 DEF Batch
  <2>. QED
    BY <1>1, <1>5, <2>1 DEF TypeInv, BaseInv
<1>7. StoreType' /\ SessionType'
  BY <1>1, <1>4, <1>5 DEF TypeInv, StoreType, SessionType, txnVars
<1>. QED
  BY <1>5, <1>6, <1>7 DEF TypeInv

-----------------------------------------------------------------------------
(* Steps that install nothing.                                             *)

SameSession(u) ==
    /\ pc'[u] = pc[u] /\ iso'[u] = iso[u] /\ snap'[u] = snap[u] /\ access'[u] = access[u]
    /\ cur'[u] = cur[u] /\ got'[u] = got[u] /\ csn'[u] = csn[u] /\ gcEpoch'[u] = gcEpoch[u]

SameHead(k) == (chain'[k] = <<>> <=> chain[k] = <<>>) /\ chain'[k][1] = chain[k][1]

\* Top rows, history and pending versions stay as they are.
Calm ==
    /\ UNCHANGED <<clock, startCSN, dirty, hist>>
    /\ \A k \in Key : SameHead(k)
    /\ \A k \in Key, u \in Txn :
          /\ Pending(u, k)' <=> Pending(u, k)
          /\ Pending(u, k) => csn'[u] = csn[u] /\ access'[u] = access[u]
    /\ \A k \in Key : writeBit'[k] => writeBit[k]

LEMMA CalmStore ==
    ASSUME OccInv, Calm, Key' = Key, NEW k \in Key
    PROVE  StoreInv(k)' /\ Installed(k)' = Installed(k) /\ Top(k)' = Top(k)
<1>1. UNCHANGED <<clock, startCSN, dirty, hist>> /\ \A j \in Key : SameHead(j)
  BY DEF Calm
<1>2. Top(k)' = Top(k)
  BY <1>1 DEF Top, SameHead
<1>3. Installed(k)' = Installed(k)
  BY <1>1 DEF Installed, Calm
<1>4. StoreInv(k)
  BY DEF OccInv
<1>5. ASSUME NEW u \in Txn, Pending(u, k)'
      PROVE  /\ hist'[k] = <<Version(csn'[u], access'[u][k].type = "DEL")>> \o Tail(hist'[k])
             /\ Top(k)' < csn'[u] /\ startCSN'[k] <= csn'[u]
             /\ ~writeBit'[k]
  <2>1. Pending(u, k) /\ csn'[u] = csn[u] /\ access'[u] = access[u] /\ (writeBit'[k] => writeBit[k])
    BY <1>5 DEF Calm
  <2>2. /\ hist[k] = <<Version(csn[u], access[u][k].type = "DEL")>> \o Tail(hist[k])
        /\ Top(k) < csn[u] /\ startCSN[k] <= csn[u] /\ ~writeBit[k]
    BY <1>4, <2>1 DEF StoreInv
  <2>. QED
    BY <1>1, <1>2, <2>1, <2>2
<1>6. /\ dirty'[k] <=> chain'[k] = <<>>
      /\ chain'[k] = <<>> <=> Installed(k)' = <<>>
      /\ chain'[k] # <<>> => chain'[k][1] = Installed(k)'[1]
      /\ Top(k)' < clock' /\ startCSN'[k] < clock'
  BY <1>1, <1>2, <1>3, <1>4 DEF StoreInv, SameHead
<1>7. StoreInv(k)'
  BY <1>5, <1>6 DEF StoreInv
<1>. QED
  BY <1>2, <1>3, <1>7

\* A session that takes no part in such a step keeps its invariants.
LEMMA CalmOthers ==
    ASSUME OccInv, Calm, Key' = Key, NEW u \in Txn, SameSession(u)
    PROVE  ShapeInv(u)' /\ AccessInv(u)' /\ CommitInv(u)' /\ FetchInv(u)' /\ UpdateInv(u)'
<1>1. UNCHANGED <<clock, startCSN, dirty, hist>> /\ \A j \in Key : SameHead(j)
  BY DEF Calm
<1>2. Accessed(u)' = Accessed(u)
  BY DEF Accessed, SameSession
<1>3. \A k \in Key : Top(k)' = Top(k)
  BY <1>1 DEF Top, SameHead
<1>4. ShapeInv(u)'
  BY <1>1, <1>2 DEF ShapeInv, SameSession, OccInv, SessionInv
<1>5. AccessInv(u)'
  <2>1. AccessInv(u)
    BY DEF OccInv, SessionInv
  <2>2. ASSUME NEW k \in Key, NEW w \in Txn, Pending(w, k)' PROVE access'[u][k].csn < csn'[w]
    <3>1. Pending(w, k) /\ csn'[w] = csn[w]
      BY <2>2 DEF Calm
    <3>. QED
      BY <2>1, <3>1 DEF AccessInv, SameSession
  <2>. QED
    BY <1>1, <1>3, <2>1, <2>2 DEF AccessInv, SameSession, SameHead
<1>6. CommitInv(u)'
  <2>1. CommitInv(u)
    BY DEF OccInv, SessionInv
  <2>2. AllValid(u)' <=> AllValid(u)
    <3>1. \A k \in Key : QuickHeaderValidation(u, k)' <=> QuickHeaderValidation(u, k)
      BY <1>1, <1>3 DEF QuickHeaderValidation, QuickInsertCheck, QuickVersionCheck, SameSession, SameHead
    <3>. QED
      BY <1>2, <3>1 DEF AllValid, Accessed
  <2>3. \A k \in Key : Replaces(u, k, Tail(hist[k])) => Replaces(u, k, Tail(hist[k]))'
    BY <1>1 DEF Replaces, SameSession
  <2>. QED
    BY <1>1, <1>2, <2>1, <2>2, <2>3 DEF CommitInv, SameSession, Accessed
<1>7. FetchInv(u)'
  <2>1. FetchInv(u) /\ ShapeInv(u)
    BY DEF OccInv, SessionInv
  <2>2. CASE pc[u] \in LookingUp
    <3>0. PICK k \in Key : k = cur[u].key
      BY <2>1, <2>2 DEF ShapeInv
    <3>1. cur'[u].key = k /\ Top(k)' = Top(k)
      BY <1>3, <3>0 DEF SameSession
    <3>2. ASSUME NEW w \in Txn, Pending(w, k)', pc[u] \in {"read", "fetch"}
          PROVE  Top(k)' = cur[u].top \/ csn'[w] >= snap[u]
      <4>1. Pending(w, k) /\ csn'[w] = csn[w]
        BY <3>2 DEF Calm
      <4>. QED
        BY <2>1, <3>0, <3>1, <3>2, <4>1 DEF FetchInv
    <3>3. FetchInv(u)' <=> /\ pc'[u] \in {"topRow", "fetch"} => ~dirty'[k]
                           /\ pc'[u] \in {"read", "fetch"} =>
                                 \A w \in Txn : Pending(w, k)' =>
                                     Top(k)' = cur'[u].top \/ csn'[w] >= snap'[u]
      BY <3>1 DEF FetchInv
    <3>. QED
      BY <1>1, <2>1, <3>0, <3>2, <3>3 DEF FetchInv, SameSession
  <2>3. CASE pc[u] \notin LookingUp
    BY <2>3 DEF FetchInv, SameSession, LookingUp
  <2>. QED
    BY <2>2, <2>3
<1>8. UpdateInv(u)'
  BY <1>1, <1>2 DEF UpdateInv, SameSession, OccInv, SessionInv, InSnapshot
<1>. QED
  BY <1>4, <1>5, <1>6, <1>7, <1>8

LEMMA QuietFrame ==
    ASSUME TypeInv, NEW t \in Txn, QuietStep(t)
    PROVE  /\ UNCHANGED <<clock, chain, startCSN, dirty, lock, writeBit, hist, csn, limbo>>
           /\ pc[t] \notin Committed /\ pc'[t] \notin Committed
           /\ \A u \in Txn \ {t} : SameSession(u)
<1>1. UNCHANGED <<clock, chain, startCSN, dirty, lock, writeBit, hist, csn, limbo>>
  BY DEF QuietStep, StartTransaction, StartStatement, SetSnapshot, FinishStatement, RowLookup,
         GetVisibleRowVersion, GetVisiblePrimaryHeader, TopRow, GetVisibleRowForUpdate,
         DeleteLastRow, InsertRow, ValidateCommit, RetryLock, RunQuicese, MinActiveEpoch,
         SetActiveEpoch, GcEndTxn, storeVars, gcVars, txnVars
<1>2. pc[t] \notin Committed /\ pc'[t] \notin Committed
  <2>. USE DEF TypeInv, SessionType, Committed, Goto, Return
  <2>1. CASE GetVisibleRowVersion(t) \/ GetVisiblePrimaryHeader(t) \/ TopRow(t) \/ GetVisibleRowForUpdate(t)
    BY <2>1 DEF GetVisibleRowVersion, GetVisiblePrimaryHeader, TopRow, GetVisibleRowForUpdate, RowForUpdate
  <2>2. CASE \E k \in Key : InsertRow(t, k)
    <3>1. PICK k \in Key : InsertRow(t, k)
      BY <2>2
    <3>2. pc[t] = "ready" /\ pc'[t] \in {"ready", "abort"}
      BY <3>1 DEF InsertRow
    <3>. QED
      BY <3>2
  <2>3. CASE \E k \in Key : (\E type \in {"RD", "WR"} : RowLookup(t, k, type)) \/ DeleteLastRow(t, k)
    BY <2>3 DEF RowLookup, DeleteLastRow
  <2>4. CASE \/ \E level \in {"RC", "RR"} : StartTransaction(t, level)
             \/ StartStatement(t) \/ SetSnapshot(t) \/ FinishStatement(t)
             \/ ValidateCommit(t) \/ RetryLock(t)
    BY <2>4 DEF StartTransaction, StartStatement, SetSnapshot, FinishStatement, ValidateCommit, RetryLock
  <2>5. CASE RunQuicese(t) \/ (\E u \in Txn : MinActiveEpoch(t, u)) \/ SetActiveEpoch(t) \/ GcEndTxn(t)
    BY <2>5 DEF RunQuicese, MinActiveEpoch, SetActiveEpoch, GcEndTxn
  <2>. QED
    BY <2>1, <2>2, <2>3, <2>4, <2>5 DEF QuietStep
<1>3. ASSUME NEW u \in Txn \ {t} PROVE SameSession(u)
  <2>. USE DEF TypeInv, SessionType, Goto, Return, SameSession
  <2>1. CASE GetVisibleRowVersion(t) \/ GetVisiblePrimaryHeader(t)
    BY <2>1 DEF GetVisibleRowVersion, GetVisiblePrimaryHeader, gcVars
  <2>2. CASE TopRow(t) \/ GetVisibleRowForUpdate(t)
    BY <2>2 DEF TopRow, GetVisibleRowForUpdate, RowForUpdate, gcVars
  <2>3. CASE \E k \in Key : InsertRow(t, k)
    <3>1. PICK k \in Key : InsertRow(t, k)
      BY <2>3
    <3>2. UNCHANGED <<iso, snap, cur, csn, gcEpoch>> /\ got' = [got EXCEPT ![t] = NoResult]
      BY <3>1 DEF InsertRow, gcVars
    <3>3. access'[u] = access[u] /\ pc'[u] = pc[u]
      <4>1. CASE dirty[k]
        BY <3>1, <4>1 DEF InsertRow
      <4>2. CASE ~dirty[k] /\ access[t][k].type = "DEL"
        BY <3>1, <4>2 DEF InsertRow
      <4>3. CASE ~dirty[k] /\ access[t][k].type # "DEL" /\ chain[k][1].deleted
        BY <3>1, <4>3 DEF InsertRow
      <4>4. CASE ~dirty[k] /\ access[t][k].type # "DEL" /\ ~chain[k][1].deleted
        BY <3>1, <4>4 DEF InsertRow
      <4>. QED
        BY <4>1, <4>2, <4>3, <4>4
    <3>. QED
      BY <3>2, <3>3
  <2>4. CASE \E k \in Key : (\E type \in {"RD", "WR"} : RowLookup(t, k, type)) \/ DeleteLastRow(t, k)
    BY <2>4 DEF RowLookup, DeleteLastRow, gcVars
  <2>5. CASE \/ \E level \in {"RC", "RR"} : StartTransaction(t, level)
             \/ StartStatement(t) \/ SetSnapshot(t) \/ FinishStatement(t)
             \/ ValidateCommit(t) \/ RetryLock(t)
    BY <2>5 DEF StartTransaction, StartStatement, SetSnapshot, FinishStatement, ValidateCommit, RetryLock,
                txnVars, gcVars
  <2>6. CASE RunQuicese(t) \/ (\E v \in Txn : MinActiveEpoch(t, v)) \/ SetActiveEpoch(t) \/ GcEndTxn(t)
    BY <2>6 DEF RunQuicese, MinActiveEpoch, SetActiveEpoch, GcEndTxn, txnVars
  <2>. QED
    BY <2>1, <2>2, <2>3, <2>4, <2>5, <2>6 DEF QuietStep
<1>. QED
  BY <1>1, <1>2, <1>3

LEMMA QuietCalm ==
    ASSUME OccInv, NEW t \in Txn, QuietStep(t)
    PROVE  Calm /\ \A u \in Txn \ {t} : LockInv(u)'
<1>. USE DEF OccInv
<1>1. Key' = Key
  BY QuietType DEF SessionInv
<1>2. /\ UNCHANGED <<clock, chain, startCSN, dirty, lock, writeBit, hist, csn>>
      /\ pc[t] \notin Committed /\ pc'[t] \notin Committed
      /\ \A u \in Txn \ {t} : SameSession(u)
  BY QuietFrame
<1>3. ASSUME NEW k \in Key, NEW u \in Txn
      PROVE  /\ Pending(u, k)' <=> Pending(u, k)
             /\ Pending(u, k) => csn'[u] = csn[u] /\ access'[u] = access[u]
  <2>1. CASE u = t
    BY <1>2, <2>1 DEF Pending, Committed
  <2>2. CASE u # t
    <3>1. Accessed(u)' = Accessed(u)
      BY <1>1, <1>2, <2>2 DEF Accessed, SameSession
    <3>. QED
      BY <1>2, <2>2, <3>1 DEF Pending, SameSession
  <2>. QED
    BY <2>1, <2>2
<1>4. ASSUME NEW u \in Txn \ {t} PROVE LockInv(u)'
  <2>1. SameSession(u) /\ LockInv(u)
    BY <1>2 DEF SessionInv
  <2>2. Accessed(u)' = Accessed(u) /\ LockedBy(u)' = LockedBy(u)
    BY <1>1, <1>2, <2>1 DEF Accessed, LockedBy, SameSession
  <2>. QED
    BY <1>1, <1>2, <2>1, <2>2 DEF LockInv, SameSession
<1>. QED
  BY <1>2, <1>3, <1>4 DEF Calm, SameHead

\* Accesses that do not change stay valid.
LEMMA KeptAccess ==
    ASSUME OccInv, Calm, Key' = Key, NEW t \in Txn, NEW k \in Key,
           access'[t][k] = access[t][k],
           access[t][k] = NoAccess \/ (iso'[t] = iso[t] /\ (iso[t] = "RR" => snap'[t] = snap[t]))
    PROVE  LET ac == access'[t][k] IN
           /\ ac.type = "RD" => ac = NoAccess
           /\ ac.type \in {"WR", "DEL"} => ac.upgrade = "no"
           /\ ac.upgrade # "no" => ~dirty'[k]
           /\ ac.type \in {"WR", "DEL"} \/ ac.upgrade = "onOwnDelete" =>
                 /\ ac.csn # 0 /\ ~dirty'[k]
                 /\ Top(k)' = ac.csn => ~chain'[k][1].deleted
                 /\ iso'[t] = "RR" => ac.csn < snap'[t]
           /\ ac.csn < clock'
           /\ \A u \in Txn : Pending(u, k)' => ac.csn < csn'[u]
<1>1. UNCHANGED <<clock, startCSN, dirty, hist>> /\ SameHead(k)
  BY DEF Calm
<1>2. AccessInv(t) /\ Top(k)' = Top(k)
  BY <1>1 DEF OccInv, SessionInv, Top, SameHead
<1>3. ASSUME NEW w \in Txn, Pending(w, k)' PROVE access[t][k].csn < csn'[w]
  <2>1. Pending(w, k) /\ csn'[w] = csn[w]
    BY <1>3 DEF Calm
  <2>. QED
    BY <1>2, <2>1 DEF AccessInv
<1>4. NoAccess.type = "RD" /\ NoAccess.upgrade = "no"
  BY DEF NoAccess
<1>. QED
  BY <1>1, <1>2, <1>3, <1>4 DEF AccessInv, SameHead

\* Steps between lookups: nothing found, nothing accessed, no lock taken.
LEMMA PlainStep ==
    ASSUME OccInv, Calm, Key' = Key, UNCHANGED lock, NEW t \in Txn,
           access'[t] = access[t], got'[t] = NoResult,
           pc[t] \notin Valid \cup {"lock", "abort"},
           pc'[t] \notin Valid \cup LookingUp,
           Accessed(t) = {} \/ (iso'[t] = iso[t] /\ (iso[t] = "RR" => snap'[t] = snap[t])),
           ShapeInv(t)',
           pc'[t] = "lock" => Accessed(t) # {}
    PROVE  SessionInv(t)'
<1>1. Accessed(t)' = Accessed(t) /\ \A k \in Key : lock[k] # t
  BY DEF Accessed, OccInv, SessionInv, LockInv
<1>2. LockInv(t)'
  BY <1>1 DEF LockInv, LockedBy
<1>3. AccessInv(t)'
  <2>. SUFFICES ASSUME NEW k \in Key'
                PROVE  LET ac == access'[t][k] IN
                       /\ ac.type = "RD" => ac = NoAccess
                       /\ ac.type \in {"WR", "DEL"} => ac.upgrade = "no"
                       /\ ac.upgrade # "no" => ~dirty'[k]
                       /\ ac.type \in {"WR", "DEL"} \/ ac.upgrade = "onOwnDelete" =>
                             /\ ac.csn # 0 /\ ~dirty'[k]
                             /\ Top(k)' = ac.csn => ~chain'[k][1].deleted
                             /\ iso'[t] = "RR" => ac.csn < snap'[t]
                       /\ ac.csn < clock'
                       /\ \A u \in Txn : Pending(u, k)' => ac.csn < csn'[u]
    BY DEF AccessInv
  <2>1. access[t][k] = NoAccess \/ (iso'[t] = iso[t] /\ (iso[t] = "RR" => snap'[t] = snap[t]))
    BY DEF Accessed
  <2>. QED
    BY <2>1, KeptAccess
<1>4. CommitInv(t)'
  BY DEF CommitInv, Committed, Valid
<1>5. FetchInv(t)'
  BY DEF FetchInv, LookingUp
<1>6. UpdateInv(t)'
  <2>1. got'[t].key = 0
    BY DEF NoResult
  <2>2. UNCHANGED hist
    BY DEF Calm
  <2>. QED
    BY <1>1, <2>1, <2>2 DEF UpdateInv, OccInv, SessionInv
<1>. QED
  BY <1>2, <1>3, <1>4, <1>5, <1>6 DEF SessionInv

PlainQuietStep(t) ==
    \/ \E level \in {"RC", "RR"} : StartTransaction(t, level)
    \/ StartStatement(t) \/ SetSnapshot(t) \/ FinishStatement(t)
    \/ ValidateCommit(t) \/ RetryLock(t)
    \/ RunQuicese(t) \/ (\E u \in Txn : MinActiveEpoch(t, u))
    \/ SetActiveEpoch(t) \/ GcEndTxn(t)

LEMMA PlainQuiet ==
    ASSUME OccInv, NEW t \in Txn, PlainQuietStep(t)
    PROVE  SessionInv(t)'
<1>. USE DEF OccInv
<1>0. QuietStep(t)
  BY DEF QuietStep, PlainQuietStep
<1>1. Key' = Key /\ Calm /\ UNCHANGED <<lock, clock, csn>>
  BY <1>0, QuietType, QuietCalm, QuietFrame DEF SessionInv
<1>2. ShapeInv(t)
  BY DEF SessionInv
<1>3. /\ pc \in [Txn -> Label] /\ snap \in [Txn -> Csn] /\ csn \in [Txn -> Csn] /\ gcEpoch \in [Txn -> Csn]
      /\ iso \in [Txn -> {"RC", "RR"}] /\ got \in [Txn -> ResultSet]
      /\ clock \in Nat /\ Csn \subseteq Nat /\ clock > 0 /\ 0 \in Csn
  BY CsnNat DEF TypeInv, StoreType, SessionType, BaseInv
<1>. DEFINE Goal == /\ access'[t] = access[t] /\ cur'[t] = cur[t] /\ got'[t] = NoResult
                    /\ pc[t] \notin Valid \cup {"lock", "abort"}
                    /\ pc'[t] \notin Valid \cup LookingUp
                    /\ Accessed(t) = {} \/ (iso'[t] = iso[t] /\ (iso[t] = "RR" => snap'[t] = snap[t]))
                    /\ pc'[t] = "lock" => Accessed(t) # {}
                    /\ ShapeInv(t)'
<1>4. SUFFICES Goal
  BY <1>1, PlainStep
<1>5. access'[t] = access[t] => Accessed(t)' = Accessed(t)
  BY <1>1 DEF Accessed
<1>. USE DEF Valid, LookingUp, Goto
<1>6. CASE \E level \in {"RC", "RR"} : StartTransaction(t, level)
  BY <1>6, <1>1, <1>2, <1>3, <1>5 DEF StartTransaction, ShapeInv, Outside, Committed, gcVars
<1>7. CASE StartStatement(t)
  BY <1>7, <1>1, <1>2, <1>3, <1>5 DEF StartStatement, ShapeInv, Outside, Committed, gcVars
<1>8. CASE SetSnapshot(t)
  BY <1>8, <1>1, <1>2, <1>3, <1>5 DEF SetSnapshot, ShapeInv, Outside, Committed, txnVars
<1>9. CASE FinishStatement(t)
  BY <1>9, <1>1, <1>2, <1>3, <1>5 DEF FinishStatement, ShapeInv, Outside, Committed, ReadOnly
<1>10. CASE ValidateCommit(t)
  BY <1>10, <1>1, <1>2, <1>3, <1>5 DEF ValidateCommit, ShapeInv, Outside, Committed, ReadOnly, txnVars, gcVars
<1>11. CASE RetryLock(t)
  BY <1>11, <1>1, <1>2, <1>3, <1>5 DEF RetryLock, ShapeInv, Outside, Committed, txnVars, gcVars
<1>12. CASE RunQuicese(t)
  BY <1>12, <1>1, <1>2, <1>3, <1>5 DEF RunQuicese, ShapeInv, Outside, Committed, txnVars
<1>13. CASE \E u \in Txn : MinActiveEpoch(t, u)
  BY <1>13, <1>1, <1>2, <1>3, <1>5 DEF MinActiveEpoch, ShapeInv, Outside, Committed, txnVars
<1>14. CASE SetActiveEpoch(t)
  BY <1>14, <1>1, <1>2, <1>3, <1>5 DEF SetActiveEpoch, ShapeInv, Outside, Committed, txnVars
<1>15. CASE GcEndTxn(t)
  BY <1>15, <1>1, <1>2, <1>3, <1>5 DEF GcEndTxn, ShapeInv, Outside, Committed, txnVars
<1>. QED
  BY <1>6, <1>7, <1>8, <1>9, <1>10, <1>11, <1>12, <1>13, <1>14, <1>15 DEF PlainQuietStep

\* A version is pending only under the lock of the session that writes it.
LEMMA PendingLocked ==
    ASSUME OccInv, NEW k \in Key, NEW u \in Txn, Pending(u, k)
    PROVE  lock[k] = u /\ Locked(k)
<1>1. pc[u] \in Valid /\ k \in Accessed(u)
  BY DEF Pending, Valid
<1>2. lock[k] = u
  BY <1>1 DEF OccInv, SessionInv, LockInv
<1>. QED
  BY <1>2, NoTxnAssumption DEF Locked

\* A key that is neither committed nor locked has no history.
LEMMA UnlockedEmpty ==
    ASSUME OccInv, NEW k \in Key, dirty[k], ~Locked(k)
    PROVE  hist[k] = <<>>
<1>1. StoreInv(k)
  BY DEF OccInv
<1>2. \A u \in Txn : ~Pending(u, k)
  BY PendingLocked
<1>. QED
  BY <1>1, <1>2 DEF StoreInv, Installed

\* A snapshot that no pending version belongs to sees the installed history.
LEMMA HistorySees ==
    ASSUME OccInv, NEW k \in Key, NEW s \in Nat, \A u \in Txn : Pending(u, k) => csn[u] >= s
    PROVE  /\ RowFromChain(s, hist[k]) = RowFromChain(s, Installed(k))
           /\ Installed(k) \in Versions
<1>1. StoreInv(k) /\ hist[k] \in Versions
  BY DEF OccInv, TypeInv, StoreType
<1>2. CASE \A u \in Txn : ~Pending(u, k)
  BY <1>1, <1>2 DEF Installed
<1>3. CASE \E u \in Txn : Pending(u, k)
  <2>1. PICK u \in Txn : Pending(u, k)
    BY <1>3
  <2>. DEFINE v == Version(csn[u], access[u][k].type = "DEL")
  <2>2. Installed(k) = Tail(hist[k]) /\ hist[k] = <<v>> \o Tail(hist[k])
    BY <1>1, <2>1 DEF StoreInv, Installed
  <2>3. v \in VersionSet /\ v.csn = csn[u] /\ csn[u] \in Nat
    BY CsnNat DEF Version, VersionSet, OccInv, TypeInv, SessionType
  <2>. HIDE DEF v
  <2>4. hist[k] # <<>>
    BY <2>2
  <2>5. Tail(hist[k]) \in Versions
    BY <1>1, <2>4 DEF Versions
  <2>6. ~(s > csn[u])
    BY <2>1, <2>3
  <2>. QED
    BY <2>2, <2>3, <2>5, <2>6, SeesPrepended
<1>. QED
  BY <1>2, <1>3

\* What it sees if the top row belongs to it.
LEMMA TopSeen ==
    ASSUME OccInv, NEW k \in Key, NEW s \in Nat, \A u \in Txn : Pending(u, k) => csn[u] >= s,
           ~dirty[k], Top(k) < s
    PROVE  RowFromChain(s, hist[k]) = IF chain[k][1].deleted THEN 0 ELSE Top(k)
<1>1. StoreInv(k) /\ StoreType
  BY DEF OccInv, TypeInv
<1>2. chain[k] # <<>> /\ Installed(k) # <<>> /\ chain[k][1] = Installed(k)[1] /\ Top(k) = chain[k][1].csn
  BY <1>1 DEF StoreInv, Top
<1>3. RowFromChain(s, hist[k]) = RowFromChain(s, Installed(k)) /\ Installed(k) \in Versions
  BY HistorySees
<1>. DEFINE q == Installed(k)
<1>4. q \in Versions /\ q # <<>> /\ q[1] = chain[k][1]
  BY <1>2, <1>3
<1>. HIDE DEF q
<1>5. 1 \in DOMAIN q /\ DOMAIN q \subseteq Nat \ {0}
  BY <1>4 DEF Versions
<1>6. s > q[1].csn
  BY <1>2, <1>4, TopType, CsnNat, <1>1
<1>7. RowFromChain(s, q) = IF q[1].deleted THEN 0 ELSE q[1].csn
  BY <1>4, <1>5, <1>6, SeesFirst
<1>. QED
  BY <1>2, <1>3, <1>4, <1>7 DEF q

\* A step of a session that holds no lock and keeps its accesses.
LEMMA LookupKeeps ==
    ASSUME OccInv, Calm, Key' = Key, UNCHANGED lock, NEW t \in Txn,
           access'[t] = access[t], iso'[t] = iso[t], snap'[t] = snap[t],
           pc[t] \notin Valid \cup {"lock", "abort"}, pc'[t] \notin Valid \cup {"lock"}
    PROVE  /\ LockInv(t)' /\ AccessInv(t)' /\ CommitInv(t)'
           /\ Accessed(t)' = Accessed(t)
           /\ iso[t] = "RR" =>
                 \A k \in Accessed(t)' :
                    access'[t][k].type # "INS" => access'[t][k].csn = RowFromChain(snap'[t], hist'[k])
<1>1. Accessed(t)' = Accessed(t) /\ \A k \in Key : lock[k] # t
  BY DEF Accessed, OccInv, SessionInv, LockInv
<1>2. LockInv(t)'
  BY <1>1 DEF LockInv, LockedBy
<1>3. AccessInv(t)'
  <2>. SUFFICES ASSUME NEW k \in Key'
                PROVE  LET ac == access'[t][k] IN
                       /\ ac.type = "RD" => ac = NoAccess
                       /\ ac.type \in {"WR", "DEL"} => ac.upgrade = "no"
                       /\ ac.upgrade # "no" => ~dirty'[k]
                       /\ ac.type \in {"WR", "DEL"} \/ ac.upgrade = "onOwnDelete" =>
                             /\ ac.csn # 0 /\ ~dirty'[k]
                             /\ Top(k)' = ac.csn => ~chain'[k][1].deleted
                             /\ iso'[t] = "RR" => ac.csn < snap'[t]
                       /\ ac.csn < clock'
                       /\ \A u \in Txn : Pending(u, k)' => ac.csn < csn'[u]
    BY DEF AccessInv
  <2>. QED
    BY KeptAccess
<1>4. CommitInv(t)'
  BY DEF CommitInv, Committed, Valid
<1>5. UNCHANGED hist
  BY DEF Calm
<1>. QED
  BY <1>1, <1>2, <1>3, <1>4, <1>5 DEF UpdateInv, OccInv, SessionInv

LEMMA RowLookupSession ==
    ASSUME OccInv, NEW t \in Txn, NEW k \in Key, NEW type \in {"RD", "WR"}, RowLookup(t, k, type)
    PROVE  SessionInv(t)'
<1>. USE DEF OccInv
<1>0. QuietStep(t)
  BY DEF QuietStep
<1>1. Key' = Key /\ Calm /\ UNCHANGED <<lock, clock, csn, hist, dirty, chain, startCSN>>
  BY <1>0, QuietType, QuietCalm, QuietFrame DEF SessionInv
<1>2. ShapeInv(t) /\ StoreInv(k) /\ SessionType
  BY DEF SessionInv, TypeInv
<1>3. /\ pc[t] = "ready" /\ access[t][k] = NoAccess
      /\ UNCHANGED <<iso, snap, access, gcEpoch>>
      /\ \/ /\ dirty[k] /\ pc'[t] = "ready"
            /\ got'[t] = [key |-> k, type |-> type, csn |-> 0, hasty |-> Locked(k)]
         \/ /\ pc'[t] = (IF type = "RD" THEN "read" ELSE "header")
            /\ cur'[t] = [key |-> k, type |-> type, top |-> IF type = "RD" THEN Top(k) ELSE 0]
            /\ got'[t] = NoResult
  BY <1>2 DEF RowLookup, Goto, gcVars, SessionType
<1>4. /\ LockInv(t)' /\ AccessInv(t)' /\ CommitInv(t)' /\ Accessed(t)' = Accessed(t)
      /\ iso[t] = "RR" =>
            \A j \in Accessed(t)' :
               access'[t][j].type # "INS" => access'[t][j].csn = RowFromChain(snap'[t], hist'[j])
  BY <1>1, <1>3, LookupKeeps DEF Valid
<1>5. ShapeInv(t)'
  BY <1>1, <1>2, <1>3, <1>4 DEF ShapeInv, Outside, LookingUp, Committed
<1>6. FetchInv(t)'
  <2>1. Top(k)' = Top(k)
    BY <1>1 DEF Top
  <2>2. pc'[t] \in {"read", "fetch"} => cur'[t].key = k /\ cur'[t].top = Top(k)
    BY <1>3
  <2>3. pc'[t] \notin {"topRow", "fetch"}
    BY <1>3
  <2>. QED
    BY <2>1, <2>2, <2>3 DEF FetchInv
<1>7. UpdateInv(t)'
  <2>1. CASE got'[t] = NoResult
    BY <1>3, <1>4, <2>1 DEF UpdateInv, NoResult
  <2>2. CASE dirty[k] /\ got'[t] = [key |-> k, type |-> type, csn |-> 0, hasty |-> Locked(k)]
    <3>1. ~got'[t].hasty => InSnapshot(t)' = 0
      <4>. SUFFICES ASSUME ~Locked(k) PROVE InSnapshot(t)' = 0
        BY <2>2
      <4>1. hist'[k] = <<>> /\ got'[t].key = k
        BY <1>1, <2>2, UnlockedEmpty
      <4>. QED
        BY <4>1 DEF InSnapshot, RowFromChain
    <3>. QED
      BY <1>3, <1>4, <3>1 DEF UpdateInv
  <2>. QED
    BY <1>3, <2>1, <2>2
<1>. QED
  BY <1>4, <1>5, <1>6, <1>7 DEF SessionInv

LEMMA ReadSession ==
    ASSUME OccInv, NEW t \in Txn, GetVisibleRowVersion(t)
    PROVE  SessionInv(t)'
<1>. USE DEF OccInv
<1>0. QuietStep(t)
  BY DEF QuietStep
<1>1. Key' = Key /\ Calm /\ UNCHANGED <<lock, clock, csn, hist, dirty, chain, startCSN>>
  BY <1>0, QuietType, QuietCalm, QuietFrame DEF SessionInv
<1>2. ShapeInv(t) /\ SessionType
  BY DEF SessionInv, TypeInv
<1>3. /\ pc[t] = "read" /\ pc'[t] = "ready" /\ cur'[t] = NoLookup
      /\ got'[t].type = "RD"
      /\ UNCHANGED <<iso, snap, access, gcEpoch>>
  BY <1>2 DEF GetVisibleRowVersion, Return, Goto, gcVars, SessionType, ShapeInv
<1>4. /\ LockInv(t)' /\ AccessInv(t)' /\ CommitInv(t)' /\ Accessed(t)' = Accessed(t)
      /\ iso[t] = "RR" =>
            \A j \in Accessed(t)' :
               access'[t][j].type # "INS" => access'[t][j].csn = RowFromChain(snap'[t], hist'[j])
  BY <1>1, <1>3, LookupKeeps DEF Valid
<1>5. ShapeInv(t)'
  BY <1>1, <1>2, <1>3, <1>4 DEF ShapeInv, Outside, LookingUp, Committed
<1>6. FetchInv(t)' /\ UpdateInv(t)'
  BY <1>3, <1>4 DEF FetchInv, UpdateInv
<1>. QED
  BY <1>4, <1>5, <1>6 DEF SessionInv

LEMMA HeaderSession ==
    ASSUME OccInv, NEW t \in Txn, GetVisiblePrimaryHeader(t)
    PROVE  SessionInv(t)'
<1>. USE DEF OccInv
<1>0. QuietStep(t)
  BY DEF QuietStep
<1>1. Key' = Key /\ Calm /\ UNCHANGED <<lock, clock, csn, hist, dirty, chain, startCSN>>
  BY <1>0, QuietType, QuietCalm, QuietFrame DEF SessionInv
<1>2. ShapeInv(t) /\ SessionType /\ startCSN \in [Key -> Csn] /\ Csn \subseteq Nat
  BY CsnNat DEF SessionInv, TypeInv, StoreType
<1>3. PICK k \in Key : k = cur[t].key
  BY <1>2 DEF ShapeInv, LookingUp, GetVisiblePrimaryHeader
<1>4. /\ pc[t] = "header" /\ ~LockedAndDirty(k) /\ cur[t].type = "WR"
      /\ UNCHANGED <<iso, snap, access, gcEpoch>>
      /\ \/ /\ ~dirty[k] /\ pc'[t] = "topRow" /\ UNCHANGED <<cur, got>>
         \/ /\ dirty[k] \/ ~(snap[t] > startCSN[k])
            /\ pc'[t] = "ready" /\ cur'[t] = NoLookup
            /\ got'[t] = [key |-> k, type |-> "WR", csn |-> 0, hasty |-> FALSE]
  <2>1. /\ pc[t] = "header" /\ ~LockedAndDirty(k) /\ cur[t].type = "WR"
        /\ UNCHANGED <<iso, snap, access, gcEpoch>>
    BY <1>2, <1>3 DEF GetVisiblePrimaryHeader, ShapeInv, LookingUp, gcVars
  <2>2. CASE ~dirty[k] /\ snap[t] > startCSN[k]
    BY <1>2, <1>3, <2>1, <2>2 DEF GetVisiblePrimaryHeader, Goto, SessionType
  <2>3. CASE ~(~dirty[k] /\ snap[t] > startCSN[k])
    <3>1. Return(t, 0)
      BY <1>3, <2>3 DEF GetVisiblePrimaryHeader
    <3>. QED
      BY <1>2, <1>3, <2>1, <2>3, <3>1 DEF Return, Goto, SessionType
  <2>. QED
    BY <2>2, <2>3
<1>5. /\ LockInv(t)' /\ AccessInv(t)' /\ CommitInv(t)' /\ Accessed(t)' = Accessed(t)
      /\ iso[t] = "RR" =>
            \A j \in Accessed(t)' :
               access'[t][j].type # "INS" => access'[t][j].csn = RowFromChain(snap'[t], hist'[j])
  BY <1>1, <1>4, LookupKeeps DEF Valid
<1>6. ShapeInv(t)'
  BY <1>1, <1>2, <1>4, <1>5 DEF ShapeInv, Outside, LookingUp, Committed
<1>7. FetchInv(t)'
  BY <1>1, <1>3, <1>4 DEF FetchInv
<1>8. UpdateInv(t)'
  <2>1. CASE pc'[t] = "topRow"
    <3>1. got'[t] = NoResult
      BY <1>2, <1>4, <2>1 DEF ShapeInv
    <3>. QED
      BY <1>4, <1>5, <3>1 DEF UpdateInv, NoResult
  <2>2. CASE pc'[t] # "topRow"
    <3>1. got'[t].key = k /\ (dirty[k] \/ ~(snap[t] > startCSN[k]))
      BY <1>4, <2>2
    <3>2. CASE ~(snap[t] > startCSN[k])
      <4>1. startCSN'[got'[t].key] >= snap'[t]
        <5>1. snap[t] \in Nat /\ startCSN[k] \in Nat
          BY <1>2 DEF SessionType
        <5>. QED
          BY <1>1, <1>4, <3>1, <3>2, <5>1
      <4>. QED
        BY <1>4, <1>5, <4>1 DEF UpdateInv
    <3>3. CASE dirty[k]
      <4>1. hist'[got'[t].key] = <<>>
        BY <1>1, <1>4, <3>1, <3>3, UnlockedEmpty DEF LockedAndDirty
      <4>2. InSnapshot(t)' = 0
        BY <4>1 DEF InSnapshot, RowFromChain
      <4>. QED
        BY <1>4, <1>5, <4>2 DEF UpdateInv
    <3>. QED
      BY <3>1, <3>2, <3>3
  <2>. QED
    BY <2>1, <2>2
<1>. QED
  BY <1>5, <1>6, <1>7, <1>8 DEF SessionInv

\* The row found for update, or none, or the failure of the transaction.
LEMMA RowForUpdateSession ==
    ASSUME OccInv, NEW t \in Txn, QuietStep(t), NEW k \in Key, k = cur[t].key,
           pc[t] \in {"topRow", "fetch"}, UNCHANGED <<iso, snap, gcEpoch>>,
           NEW r \in Csn, RowForUpdate(t, k, r),
           \/ r = 0 /\ snap[t] <= startCSN[k]
           \/ /\ r = Top(k)
              /\ iso[t] = "RR" => \/ r >= snap[t]
                                  \/ \A u \in Txn : Pending(u, k) => csn[u] >= snap[t]
    PROVE  SessionInv(t)'
<1>. USE DEF OccInv
<1>1. Key' = Key /\ Calm /\ UNCHANGED <<lock, clock, csn, hist, dirty, chain, startCSN>>
  BY QuietType, QuietCalm, QuietFrame DEF SessionInv
<1>2. ShapeInv(t) /\ SessionType /\ StoreInv(k) /\ SessionInv(t)
  BY DEF SessionInv, TypeInv
<1>3. /\ snap[t] \in Nat /\ startCSN[k] \in Nat /\ r \in Nat /\ Top(k) \in Nat
      /\ access \in [Txn -> [Key -> AccessSet]]
  BY <1>2, CsnNat, TopType DEF TypeInv, SessionType, StoreType
<1>4. /\ ~dirty[k] /\ cur[t].type = "WR" /\ got[t] = NoResult /\ access[t][k] = NoAccess
      /\ snap[t] # 0 /\ gcEpoch[t] # 0
  BY <1>2 DEF SessionInv, FetchInv, ShapeInv, LookingUp
<1>5. Top(k)' = Top(k)
  BY <1>1 DEF Top
<1>6. CASE pc'[t] = "abort"
  <2>1. access' = access /\ got'[t] = NoResult
    BY <1>2, <1>4, <1>6 DEF RowForUpdate, Return, Goto, SessionType
  <2>2. /\ LockInv(t)' /\ AccessInv(t)' /\ CommitInv(t)' /\ Accessed(t)' = Accessed(t)
        /\ iso[t] = "RR" =>
              \A j \in Accessed(t)' :
                 access'[t][j].type # "INS" => access'[t][j].csn = RowFromChain(snap'[t], hist'[j])
    BY <1>1, <1>6, <2>1, LookupKeeps DEF Valid
  <2>3. ShapeInv(t)'
    BY <1>1, <1>2, <1>6, <2>1, <2>2 DEF ShapeInv, Outside, LookingUp, Committed
  <2>4. FetchInv(t)' /\ UpdateInv(t)'
    BY <1>6, <2>1, <2>2 DEF FetchInv, UpdateInv, NoResult
  <2>. QED
    BY <2>2, <2>3, <2>4 DEF SessionInv
<1>7. CASE pc'[t] # "abort" /\ (r = 0 \/ chain[k][1].deleted)
  <2>1. /\ pc'[t] = "ready" /\ access' = access /\ cur'[t] = NoLookup
        /\ got'[t] = [key |-> k, type |-> "WR", csn |-> 0, hasty |-> FALSE]
        /\ iso[t] = "RR" => ~((IF r = 0 THEN startCSN[k] ELSE r) >= snap[t])
    <3>1. pc \in [Txn -> Label] /\ cur[t].type = "WR"
      BY <1>2, <1>4 DEF SessionType
    <3>2. ~(iso[t] = "RR" /\ (IF r = 0 THEN startCSN[k] ELSE r) >= snap[t])
      BY <1>7, <3>1 DEF RowForUpdate, Goto
    <3>3. Return(t, 0) /\ access' = access
      BY <1>7, <3>2 DEF RowForUpdate
    <3>. QED
      BY <1>2, <3>1, <3>2, <3>3 DEF Return, Goto, SessionType
  <2>2. /\ LockInv(t)' /\ AccessInv(t)' /\ CommitInv(t)' /\ Accessed(t)' = Accessed(t)
        /\ iso[t] = "RR" =>
              \A j \in Accessed(t)' :
                 access'[t][j].type # "INS" => access'[t][j].csn = RowFromChain(snap'[t], hist'[j])
    BY <1>1, <2>1, LookupKeeps DEF Valid
  <2>3. ShapeInv(t)'
    BY <1>1, <1>2, <2>1, <2>2 DEF ShapeInv, Outside, LookingUp, Committed
  <2>4. FetchInv(t)'
    BY <2>1 DEF FetchInv
  <2>5. ASSUME iso[t] = "RR" PROVE InSnapshot(t)' = 0
    <3>1. r = Top(k) /\ Top(k) < snap[t]
      BY <1>3, <1>4, <2>1, <2>5
    <3>2. \A u \in Txn : Pending(u, k) => csn[u] >= snap[t]
      BY <1>3, <2>1, <2>5, <3>1
    <3>3. RowFromChain(snap[t], hist[k]) = IF chain[k][1].deleted THEN 0 ELSE Top(k)
      BY <1>3, <1>4, <3>1, <3>2, TopSeen
    <3>4. RowFromChain(snap[t], hist[k]) = 0
      BY <1>7, <3>1, <3>3
    <3>5. hist' = hist /\ snap' = snap /\ got'[t].key = k
      BY <1>1, <2>1
    <3>. QED
      BY <3>4, <3>5 DEF InSnapshot
  <2>6. UpdateInv(t)'
    BY <2>2, <2>5 DEF UpdateInv
  <2>. QED
    BY <2>2, <2>3, <2>4, <2>6 DEF SessionInv
<1>8. CASE pc'[t] # "abort" /\ ~(r = 0 \/ chain[k][1].deleted)
  <2>. DEFINE a == [type |-> "WR", csn |-> r, snapshot |-> snap[t], upgrade |-> "no"]
  <2>1. /\ pc'[t] = "ready" /\ got' = got /\ cur'[t] = NoLookup
        /\ access' = [access EXCEPT ![t][k] = a]
        /\ iso[t] = "RR" => ~(r >= snap[t])
    BY <1>2, <1>4, <1>8 DEF RowForUpdate, Return, Goto, SessionType
  <2>2. r = Top(k) /\ r # 0 /\ ~chain[k][1].deleted
    BY <1>8
  <2>3. access'[t][k] = a /\ \A j \in Key : j # k => access'[t][j] = access[t][j]
    BY <1>3, <2>1
  <2>4. a # NoAccess /\ a.csn = r /\ a.type = "WR" /\ a.upgrade = "no"
    BY DEF NoAccess
  <2>. HIDE DEF a
  <2>5. Accessed(t)' = Accessed(t) \cup {k}
    BY <1>1, <2>3, <2>4 DEF Accessed
  <2>6. \A j \in Key : lock[j] # t
    BY <1>2 DEF SessionInv, LockInv, Valid
  <2>7. LockInv(t)'
    BY <1>1, <2>1, <2>6 DEF LockInv, Valid
  <2>8. AccessInv(t)'
    <3>. DEFINE Good(j) ==
           LET ac == access'[t][j] IN
           /\ ac.type = "RD" => ac = NoAccess
           /\ ac.type \in {"WR", "DEL"} => ac.upgrade = "no"
           /\ ac.upgrade # "no" => ~dirty'[j]
           /\ ac.type \in {"WR", "DEL"} \/ ac.upgrade = "onOwnDelete" =>
                 /\ ac.csn # 0 /\ ~dirty'[j]
                 /\ Top(j)' = ac.csn => ~chain'[j][1].deleted
                 /\ iso'[t] = "RR" => ac.csn < snap'[t]
           /\ ac.csn < clock'
           /\ \A u \in Txn : Pending(u, j)' => ac.csn < csn'[u]
    <3>1. ASSUME NEW j \in Key, j # k PROVE Good(j)
      BY <1>1, <2>3, <3>1, KeptAccess
    <3>2. Good(k)
      <4>1. r < clock
        BY <1>2, <2>2 DEF StoreInv
      <4>2. \A u \in Txn : Pending(u, k)' => r < csn'[u]
        BY <1>1, <1>2, <2>2 DEF StoreInv, Calm
      <4>3. iso[t] = "RR" => r < snap[t]
        BY <1>3, <2>1
      <4>. QED
        BY <1>1, <1>4, <2>2, <2>3, <2>4, <4>1, <4>2, <4>3
    <3>3. \A j \in Key' : Good(j)
      BY <1>1, <3>1, <3>2
    <3>. QED
      BY <3>3 DEF AccessInv
  <2>9. CommitInv(t)' /\ FetchInv(t)'
    BY <2>1 DEF CommitInv, FetchInv, Committed
  <2>10. ShapeInv(t)'
    BY <1>1, <1>2, <1>4, <2>1, <2>5 DEF ShapeInv, Outside, LookingUp, Committed
  <2>11. UpdateInv(t)'
    <3>1. ASSUME iso[t] = "RR" PROVE r = RowFromChain(snap[t], hist[k])
      <4>1. Top(k) < snap[t]
        BY <1>3, <2>1, <2>2, <3>1
      <4>2. \A u \in Txn : Pending(u, k) => csn[u] >= snap[t]
        BY <1>3, <2>2, <3>1, <4>1
      <4>3. RowFromChain(snap[t], hist[k]) = IF chain[k][1].deleted THEN 0 ELSE Top(k)
        BY <1>3, <1>4, <4>1, <4>2, TopSeen
      <4>. QED
        BY <2>2, <4>3
    <3>2. got'[t].key = 0
      BY <1>4, <2>1 DEF NoResult
    <3>3. UpdateInv(t)
      BY <1>2 DEF SessionInv
    <3>4. ASSUME iso[t] = "RR", NEW j \in Accessed(t)', access'[t][j].type # "INS"
          PROVE  access'[t][j].csn = RowFromChain(snap'[t], hist'[j])
      <4>1. CASE j = k
        BY <1>1, <2>3, <2>4, <3>1, <3>4, <4>1
      <4>2. CASE j # k
        <5>1. j \in Accessed(t) /\ j \in Key
          BY <2>5, <4>2 DEF Accessed
        <5>. QED
          BY <1>1, <2>3, <3>3, <3>4, <4>2, <5>1 DEF UpdateInv
      <4>. QED
        BY <4>1, <4>2
    <3>. QED
      BY <3>2, <3>4 DEF UpdateInv
  <2>. QED
    BY <2>7, <2>8, <2>9, <2>10, <2>11 DEF SessionInv
<1>. QED
  BY <1>6, <1>7, <1>8

LEMMA UpdateSession ==
    ASSUME OccInv, NEW t \in Txn, TopRow(t) \/ GetVisibleRowForUpdate(t)
    PROVE  SessionInv(t)'
<1>. USE DEF OccInv
<1>0. QuietStep(t)
  BY DEF QuietStep
<1>1. Key' = Key /\ Calm /\ UNCHANGED <<lock, clock, csn, hist, dirty, chain, startCSN>>
  BY <1>0, QuietType, QuietCalm, QuietFrame DEF SessionInv
<1>2. ShapeInv(t) /\ SessionType /\ FetchInv(t)
  BY DEF SessionInv, TypeInv
<1>3. pc[t] \in {"topRow", "fetch"} /\ UNCHANGED <<iso, snap, gcEpoch>>
  BY DEF TopRow, GetVisibleRowForUpdate, gcVars
<1>4. PICK k \in Key : k = cur[t].key
  BY <1>2, <1>3 DEF ShapeInv, LookingUp
<1>5. ~dirty[k] /\ 0 \in Csn /\ Top(k) \in Csn /\ Top(k) \in Nat /\ snap[t] \in Nat /\ startCSN[k] \in Nat
  BY <1>2, <1>3, <1>4, CsnNat, TopType DEF FetchInv, TypeInv, SessionType, StoreType
<1>6. CASE TopRow(t) /\ snap[t] <= startCSN[k]
  <2>1. RowForUpdate(t, k, 0)
    BY <1>4, <1>5, <1>6 DEF TopRow
  <2>. QED
    BY <1>0, <1>3, <1>4, <1>5, <1>6, <2>1, RowForUpdateSession
<1>7. CASE TopRow(t) /\ ~(snap[t] <= startCSN[k])
  <2>1. /\ pc[t] = "topRow" /\ pc'[t] = "fetch" /\ UNCHANGED <<access, got>>
        /\ cur'[t].key = k /\ cur'[t].top = Top(k) /\ cur'[t].type = cur[t].type
    <3>1. cur[t] \in LookupSet /\ cur \in [Txn -> LookupSet]
      BY <1>2 DEF SessionType
    <3>. QED
      BY <1>2, <1>4, <1>7, <3>1 DEF TopRow, Goto, SessionType, LookupSet
  <2>2. /\ LockInv(t)' /\ AccessInv(t)' /\ CommitInv(t)' /\ Accessed(t)' = Accessed(t)
        /\ iso[t] = "RR" =>
              \A j \in Accessed(t)' :
                 access'[t][j].type # "INS" => access'[t][j].csn = RowFromChain(snap'[t], hist'[j])
    BY <1>1, <1>3, <2>1, LookupKeeps DEF Valid
  <2>3. ShapeInv(t)'
    BY <1>1, <1>2, <1>3, <1>4, <2>1, <2>2 DEF ShapeInv, Outside, LookingUp, Committed
  <2>4. FetchInv(t)'
    <3>1. Top(k)' = Top(k)
      BY <1>1 DEF Top
    <3>2. FetchInv(t)' <=> /\ pc'[t] \in {"topRow", "fetch"} => ~dirty'[k]
                           /\ pc'[t] \in {"read", "fetch"} =>
                                 \A w \in Txn : Pending(w, k)' =>
                                     Top(k)' = cur'[t].top \/ csn'[w] >= snap'[t]
      BY <2>1 DEF FetchInv
    <3>. QED
      BY <1>1, <1>5, <2>1, <3>1, <3>2
  <2>5. UpdateInv(t)'
    <3>1. got'[t] = NoResult
      BY <1>2, <2>1 DEF ShapeInv
    <3>. QED
      BY <1>3, <2>2, <3>1 DEF UpdateInv, NoResult
  <2>. QED
    BY <2>2, <2>3, <2>4, <2>5 DEF SessionInv
<1>8. CASE GetVisibleRowForUpdate(t)
  <2>1. pc[t] = "fetch" /\ UpdateCycleSeen(t, k) /\ RowForUpdate(t, k, Top(k))
    BY <1>4, <1>5, <1>8 DEF GetVisibleRowForUpdate
  <2>2. ASSUME iso[t] = "RR", ~(Top(k) >= snap[t]), NEW u \in Txn, Pending(u, k) PROVE csn[u] >= snap[t]
    <3>1. Locked(k)
      BY <2>2, PendingLocked
    <3>2. Top(k) # cur[t].top
      BY <1>5, <2>1, <2>2, <3>1 DEF UpdateCycleSeen
    <3>. QED
      BY <1>2, <1>4, <2>1, <2>2, <3>2 DEF FetchInv
  <2>. QED
    BY <1>0, <1>3, <1>4, <1>5, <2>1, <2>2, RowForUpdateSession
<1>. QED
  BY <1>6, <1>7, <1>8

\* A step of a transaction that replaces its access of one key.
LEMMA NewAccess ==
    ASSUME OccInv, Calm, Key' = Key, UNCHANGED lock, NEW t \in Txn, NEW k \in Key, NEW a \in AccessSet,
           access' = [access EXCEPT ![t][k] = a], iso'[t] = iso[t], snap'[t] = snap[t],
           gcEpoch'[t] = gcEpoch[t], csn'[t] = csn[t],
           pc[t] = "ready", pc'[t] = "ready", got'[t] = NoResult,
           a.type # "RD",
           a.type \in {"WR", "DEL"} => a.upgrade = "no",
           a.upgrade # "no" => ~dirty[k],
           a.type \in {"WR", "DEL"} \/ a.upgrade = "onOwnDelete" =>
              /\ a.csn # 0 /\ ~dirty[k]
              /\ Top(k) = a.csn => ~chain[k][1].deleted
              /\ iso[t] = "RR" => a.csn < snap[t],
           a.csn < clock,
           \A u \in Txn : Pending(u, k) => a.csn < csn[u],
           iso[t] = "RR" /\ a.type # "INS" => a.csn = RowFromChain(snap[t], hist[k])
    PROVE  SessionInv(t)'
<1>. USE DEF OccInv
<1>1. UNCHANGED <<clock, startCSN, dirty, hist>> /\ SameHead(k)
  BY DEF Calm
<1>2. ShapeInv(t) /\ SessionInv(t) /\ access \in [Txn -> [Key -> AccessSet]]
  BY DEF SessionInv, TypeInv, SessionType
<1>3. access'[t][k] = a /\ \A j \in Key : j # k => access'[t][j] = access[t][j]
  BY <1>2
<1>4. a # NoAccess
  BY DEF NoAccess
<1>5. Accessed(t)' = Accessed(t) \cup {k}
  BY <1>3, <1>4 DEF Accessed
<1>6. LockInv(t)'
  <2>1. \A j \in Key : lock[j] # t
    BY <1>2 DEF SessionInv, LockInv, Valid
  <2>. QED
    BY <2>1 DEF LockInv, Valid
<1>7. AccessInv(t)'
  <2>. DEFINE Good(j) ==
         LET ac == access'[t][j] IN
         /\ ac.type = "RD" => ac = NoAccess
         /\ ac.type \in {"WR", "DEL"} => ac.upgrade = "no"
         /\ ac.upgrade # "no" => ~dirty'[j]
         /\ ac.type \in {"WR", "DEL"} \/ ac.upgrade = "onOwnDelete" =>
               /\ ac.csn # 0 /\ ~dirty'[j]
               /\ Top(j)' = ac.csn => ~chain'[j][1].deleted
               /\ iso'[t] = "RR" => ac.csn < snap'[t]
         /\ ac.csn < clock'
         /\ \A u \in Txn : Pending(u, j)' => ac.csn < csn'[u]
  <2>1. ASSUME NEW j \in Key, j # k PROVE Good(j)
    BY <1>3, <2>1, KeptAccess
  <2>2. Good(k)
    <3>1. Top(k)' = Top(k)
      BY <1>1 DEF Top, SameHead
    <3>2. \A u \in Txn : Pending(u, k)' => a.csn < csn'[u]
      BY DEF Calm
    <3>. QED
      BY <1>1, <1>3, <3>1, <3>2 DEF SameHead
  <2>3. \A j \in Key' : Good(j)
    BY <2>1, <2>2
  <2>. QED
    BY <2>3 DEF AccessInv
<1>8. CommitInv(t)' /\ FetchInv(t)'
  BY DEF CommitInv, FetchInv, Committed
<1>9. ShapeInv(t)'
  BY <1>1, <1>2, <1>5 DEF ShapeInv, Outside, LookingUp, Committed
<1>10. UpdateInv(t)'
  <2>1. got'[t].key = 0
    BY DEF NoResult
  <2>2. ASSUME iso[t] = "RR", NEW j \in Accessed(t)', access'[t][j].type # "INS"
        PROVE  access'[t][j].csn = RowFromChain(snap'[t], hist'[j])
    <3>1. CASE j = k
      BY <1>1, <1>3, <2>2, <3>1
    <3>2. CASE j # k
      <4>1. j \in Accessed(t) /\ j \in Key
        BY <1>5, <3>2 DEF Accessed
      <4>. QED
        BY <1>1, <1>2, <1>3, <2>2, <3>2, <4>1 DEF SessionInv, UpdateInv
    <3>. QED
      BY <3>1, <3>2
  <2>. QED
    BY <2>1, <2>2 DEF UpdateInv
<1>. QED
  BY <1>6, <1>7, <1>8, <1>9, <1>10 DEF SessionInv

LEMMA DeleteSession ==
    ASSUME OccInv, NEW t \in Txn, NEW k \in Key, DeleteLastRow(t, k)
    PROVE  SessionInv(t)'
<1>. USE DEF OccInv
<1>0. QuietStep(t)
  BY DEF QuietStep
<1>1. Key' = Key /\ Calm /\ UNCHANGED <<lock, csn>>
  BY <1>0, QuietType, QuietCalm, QuietFrame DEF SessionInv
<1>. DEFINE a == [access[t][k] EXCEPT !.type = "DEL"]
<1>2. /\ pc[t] = "ready" /\ access[t][k].type = "WR" /\ access' = [access EXCEPT ![t][k] = a]
      /\ got'[t] = NoResult /\ UNCHANGED <<pc, iso, snap, gcEpoch>>
  BY DEF DeleteLastRow, gcVars, TypeInv, SessionType
<1>3. access[t][k] \in AccessSet /\ SessionInv(t) /\ k \in Accessed(t)
  BY <1>2, FieldTypes DEF TypeInv, Accessed, NoAccess
<1>4. a \in AccessSet /\ a.type = "DEL" /\ a.csn = access[t][k].csn /\ a.upgrade = access[t][k].upgrade
  BY <1>3 DEF AccessSet, AccessType
<1>. HIDE DEF a
<1>5. /\ a.upgrade = "no" /\ a.csn # 0 /\ ~dirty[k]
      /\ Top(k) = a.csn => ~chain[k][1].deleted
      /\ iso[t] = "RR" => a.csn < snap[t]
      /\ a.csn < clock
      /\ \A u \in Txn : Pending(u, k) => a.csn < csn[u]
  BY <1>2, <1>3, <1>4 DEF SessionInv, AccessInv
<1>6. iso[t] = "RR" => a.csn = RowFromChain(snap[t], hist[k])
  BY <1>2, <1>3, <1>4 DEF SessionInv, UpdateInv
<1>. QED
  BY <1>1, <1>2, <1>4, <1>5, <1>6, NewAccess

LEMMA InsertSession ==
    ASSUME OccInv, NEW t \in Txn, NEW k \in Key, InsertRow(t, k)
    PROVE  SessionInv(t)'
<1>. USE DEF OccInv
<1>0. QuietStep(t)
  BY DEF QuietStep
<1>1. Key' = Key /\ Calm /\ UNCHANGED <<lock, clock, csn, hist, dirty, chain, startCSN>>
  BY <1>0, QuietType, QuietCalm, QuietFrame DEF SessionInv
<1>2. ShapeInv(t) /\ SessionType /\ StoreInv(k) /\ SessionInv(t) /\ StoreType /\ BaseInv
  BY DEF SessionInv, TypeInv
<1>3. /\ pc[t] = "ready" /\ access[t][k].type \in {"RD", "DEL"}
      /\ got'[t] = NoResult /\ UNCHANGED <<iso, snap, cur, gcEpoch>>
  BY <1>2 DEF InsertRow, gcVars, SessionType
<1>4. /\ access[t][k] \in AccessSet /\ snap[t] \in Csn /\ Top(k) \in Csn /\ 0 \in Csn
      /\ clock \in Nat /\ clock > 0
  BY <1>2, FieldTypes, TopType, CsnNat DEF SessionType, StoreType, BaseInv
<1>5. \A u \in Txn : Pending(u, k) => 0 < csn[u] /\ Top(k) < csn[u]
  <2>1. \A u \in Txn : Pending(u, k) => Top(k) < csn[u] /\ Top(k) \in Nat /\ csn[u] \in Nat
    BY <1>2, <1>4, CsnNat DEF StoreInv, SessionType
  <2>. QED
    BY <2>1
<1>6. CASE dirty[k]
  <2>. DEFINE a == [type |-> "INS", csn |-> 0, snapshot |-> snap[t], upgrade |-> "no"]
  <2>1. access' = [access EXCEPT ![t][k] = a] /\ UNCHANGED pc
    BY <1>6 DEF InsertRow
  <2>2. a \in AccessSet /\ a.type = "INS" /\ a.csn = 0 /\ a.upgrade = "no"
    BY <1>4 DEF AccessSet, AccessType, Upgrade
  <2>. HIDE DEF a
  <2>. QED
    BY <1>1, <1>3, <1>4, <1>5, <2>1, <2>2, NewAccess
<1>7. CASE ~dirty[k] /\ access[t][k].type = "DEL"
  <2>. DEFINE a == [access[t][k] EXCEPT !.type = "INS", !.upgrade = "onOwnDelete"]
  <2>1. access' = [access EXCEPT ![t][k] = a] /\ UNCHANGED pc
    BY <1>7 DEF InsertRow
  <2>2. a \in AccessSet /\ a.type = "INS" /\ a.csn = access[t][k].csn /\ a.upgrade = "onOwnDelete"
    BY <1>4 DEF AccessSet, AccessType, Upgrade
  <2>. HIDE DEF a
  <2>3. /\ a.csn # 0 /\ ~dirty[k]
        /\ Top(k) = a.csn => ~chain[k][1].deleted
        /\ iso[t] = "RR" => a.csn < snap[t]
        /\ a.csn < clock
        /\ \A u \in Txn : Pending(u, k) => a.csn < csn[u]
    BY <1>2, <1>7, <2>2 DEF SessionInv, AccessInv
  <2>. QED
    BY <1>1, <1>3, <2>1, <2>2, <2>3, NewAccess
<1>8. CASE ~dirty[k] /\ access[t][k].type # "DEL" /\ chain[k][1].deleted
  <2>. DEFINE a == [type |-> "INS", csn |-> Top(k), snapshot |-> snap[t], upgrade |-> "onDeleted"]
  <2>1. access' = [access EXCEPT ![t][k] = a] /\ UNCHANGED pc
    BY <1>8 DEF InsertRow
  <2>2. a \in AccessSet /\ a.type = "INS" /\ a.csn = Top(k) /\ a.upgrade = "onDeleted"
    BY <1>4 DEF AccessSet, AccessType, Upgrade
  <2>. HIDE DEF a
  <2>3. Top(k) < clock
    BY <1>2 DEF StoreInv
  <2>. QED
    BY <1>1, <1>3, <1>5, <1>8, <2>1, <2>2, <2>3, NewAccess
<1>9. CASE ~dirty[k] /\ access[t][k].type # "DEL" /\ ~chain[k][1].deleted
  <2>1. pc'[t] = "abort" /\ UNCHANGED access
    BY <1>2, <1>9 DEF InsertRow, Goto, SessionType
  <2>2. /\ LockInv(t)' /\ AccessInv(t)' /\ CommitInv(t)' /\ Accessed(t)' = Accessed(t)
        /\ iso[t] = "RR" =>
              \A j \in Accessed(t)' :
                 access'[t][j].type # "INS" => access'[t][j].csn = RowFromChain(snap'[t], hist'[j])
    BY <1>1, <1>3, <2>1, LookupKeeps DEF Valid
  <2>3. ShapeInv(t)'
    BY <1>1, <1>2, <1>3, <2>1, <2>2 DEF ShapeInv, Outside, LookingUp, Committed
  <2>4. FetchInv(t)' /\ UpdateInv(t)'
    BY <1>3, <2>1, <2>2 DEF FetchInv, UpdateInv, NoResult
  <2>. QED
    BY <2>2, <2>3, <2>4 DEF SessionInv
<1>. QED
  BY <1>6, <1>7, <1>8, <1>9

LEMMA QuietOcc ==
    ASSUME OccInv, NEW t \in Txn, QuietStep(t)
    PROVE  OccInv'
<1>. USE DEF OccInv
<1>1. TypeInv' /\ Key' = Key /\ Calm
  BY QuietType, QuietCalm DEF SessionInv
<1>2. \A k \in Key : StoreInv(k)'
  BY <1>1, CalmStore
<1>3. \A u \in Txn \ {t} : SessionInv(u)'
  <2>1. \A u \in Txn \ {t} : SameSession(u) /\ LockInv(u)'
    BY QuietFrame, QuietCalm
  <2>. QED
    BY <1>1, <2>1, CalmOthers DEF SessionInv
<1>4. SessionInv(t)'
  <2>1. CASE PlainQuietStep(t)
    BY <2>1, PlainQuiet
  <2>2. CASE ~PlainQuietStep(t)
    BY <2>2, RowLookupSession, ReadSession, HeaderSession, UpdateSession, DeleteSession, InsertSession
       DEF QuietStep, PlainQuietStep
  <2>. QED
    BY <2>1, <2>2
<1>5. \A k \in Key : WriteBitInv(k)'
  BY QuietFrame DEF WriteBitInv, SameSession
<1>. QED
  BY <1>1, <1>2, <1>3, <1>4, <1>5

LEMMA TryLockOcc ==
    ASSUME OccInv, NEW t \in Txn, TryLock(t)
    PROVE  OccInv' /\ Calm /\ \A u \in Txn \ {t} : SameSession(u)
<1>. USE DEF OccInv
<1>1. TypeInv' /\ Key' = Key
  BY TryLockType DEF SessionInv
<1>2. /\ pc[t] = "lock"
      /\ UNCHANGED <<clock, chain, startCSN, dirty, hist, iso, snap, access, cur, got, csn, gcEpoch>>
      /\ \/ /\ pc' = [pc EXCEPT ![t] = "retry"] /\ Unlock(t)
         \/ \E k \in Accessed(t) : \E l \in {"abort", "lock", "validated"} :
               /\ lock[k] = NoTxn /\ lock' = [lock EXCEPT ![k] = t] /\ UNCHANGED writeBit
               /\ pc' = [pc EXCEPT ![t] = l]
               /\ l = "lock" => Accessed(t) \ LockedBy(t) # {k}
               /\ l = "validated" => Accessed(t) \ LockedBy(t) = {k} /\ AllValid(t)
  BY TryLockEffect DEF SessionInv, txnVars, gcVars
<1>3. /\ pc \in [Txn -> Label] /\ lock \in [Key -> Txn \cup {NoTxn}] /\ writeBit \in [Key -> BOOLEAN]
  BY DEF TypeInv, StoreType, SessionType
<1>4. /\ pc'[t] \in {"retry", "abort", "lock", "validated"} /\ \A u \in Txn \ {t} : pc'[u] = pc[u]
  BY <1>2, <1>3
<1>5. \A u \in Txn : Accessed(u)' = Accessed(u)
  BY <1>1, <1>2 DEF Accessed
<1>6. Calm
  <2>1. ASSUME NEW k \in Key, NEW u \in Txn PROVE Pending(u, k)' <=> Pending(u, k)
    <3>1. CASE u = t
      BY <1>2, <1>4, <3>1 DEF Pending
    <3>2. CASE u # t
      BY <1>2, <1>4, <1>5, <3>2 DEF Pending
    <3>. QED
      BY <3>1, <3>2
  <2>2. \A k \in Key : writeBit'[k] => writeBit[k]
    BY <1>2 DEF Unlock
  <2>. QED
    BY <1>2, <2>1, <2>2 DEF Calm, SameHead
<1>7. \A u \in Txn \ {t} : SameSession(u)
  BY <1>2, <1>4 DEF SameSession
<1>8. \A k \in Key : StoreInv(k)'
  BY <1>1, <1>6, CalmStore
<1>9. ASSUME NEW k \in Key PROVE WriteBitInv(k)'
  <2>1. ASSUME writeBit'[k] PROVE \E u \in Txn : lock'[k] = u /\ pc'[u] \in Committed
    <3>1. writeBit[k]
      BY <1>6, <2>1 DEF Calm
    <3>2. PICK u \in Txn : lock[k] = u /\ pc[u] \in Committed
      BY <3>1 DEF WriteBitInv
    <3>3. u # t /\ pc'[u] = pc[u] /\ lock[k] # NoTxn
      BY <1>2, <1>4, <3>2, NoTxnAssumption DEF Committed
    <3>4. lock'[k] = u
      BY <1>2, <1>3, <3>2, <3>3 DEF Unlock
    <3>. QED
      BY <3>2, <3>3, <3>4
  <2>. QED
    BY <2>1 DEF WriteBitInv
<1>10. ASSUME NEW u \in Txn \ {t} PROVE SessionInv(u)'
  <2>1. LockInv(u) /\ SameSession(u)
    BY <1>7 DEF SessionInv
  <2>2. \A k \in Key : lock'[k] = u <=> lock[k] = u
    BY <1>2, <1>3, NoTxnAssumption DEF Unlock, Accessed
  <2>3. LockedBy(u)' = LockedBy(u)
    BY <1>1, <2>2 DEF LockedBy
  <2>4. LockInv(u)'
    BY <1>1, <1>5, <2>1, <2>2, <2>3 DEF LockInv, SameSession, Accessed
  <2>. QED
    BY <1>1, <1>6, <2>1, <2>4, CalmOthers DEF SessionInv
<1>11. SessionInv(t)'
  <2>1. SessionInv(t)
    OBVIOUS
  <2>2. ShapeInv(t)'
    BY <1>2, <1>4, <1>5, <2>1 DEF SessionInv, ShapeInv, Outside, LookingUp, Committed
  <2>3. LockInv(t)'
    <3>1. CASE pc' = [pc EXCEPT ![t] = "retry"] /\ Unlock(t)
      <4>1. \A k \in Key : lock'[k] # t
        BY <3>1, NoTxnAssumption DEF Unlock
      <4>. QED
        BY <1>1, <1>3, <3>1, <4>1 DEF LockInv, Valid
    <3>2. CASE ~(pc' = [pc EXCEPT ![t] = "retry"] /\ Unlock(t))
      <4>1. PICK k \in Accessed(t), l \in {"abort", "lock", "validated"} :
               /\ lock[k] = NoTxn /\ lock' = [lock EXCEPT ![k] = t]
               /\ pc' = [pc EXCEPT ![t] = l]
               /\ l = "lock" => Accessed(t) \ LockedBy(t) # {k}
               /\ l = "validated" => Accessed(t) \ LockedBy(t) = {k}
        BY <1>2, <3>2
      <4>2. k \in Key /\ \A j \in Key : lock'[j] = t <=> lock[j] = t \/ j = k
        BY <1>3, <4>1 DEF Accessed
      <4>3. pc'[t] = l
        BY <1>3, <4>1
      <4>4. LockedBy(t)' = LockedBy(t) \cup {k}
        BY <1>1, <4>2 DEF LockedBy
      <4>5. \A j \in Key : lock'[j] = t => j \in Accessed(t)'
        BY <1>5, <2>1, <4>1, <4>2 DEF SessionInv, LockInv
      <4>6. l = "validated" => \A j \in Accessed(t)' : lock'[j] = t
        BY <1>5, <4>1, <4>2 DEF LockedBy, Accessed
      <4>7. l = "lock" => Accessed(t)' \ LockedBy(t)' # {}
        <5>1. Accessed(t) \ LockedBy(t) # {}
          BY <1>2, <2>1 DEF SessionInv, LockInv
        <5>. QED
          BY <1>5, <4>1, <4>4, <5>1
      <4>. QED
        BY <1>1, <4>3, <4>5, <4>6, <4>7 DEF LockInv, Valid
    <3>. QED
      BY <3>1, <3>2
  <2>4. AccessInv(t)'
    <3>. SUFFICES ASSUME NEW k \in Key'
                  PROVE  LET ac == access'[t][k] IN
                         /\ ac.type = "RD" => ac = NoAccess
                         /\ ac.type \in {"WR", "DEL"} => ac.upgrade = "no"
                         /\ ac.upgrade # "no" => ~dirty'[k]
                         /\ ac.type \in {"WR", "DEL"} \/ ac.upgrade = "onOwnDelete" =>
                               /\ ac.csn # 0 /\ ~dirty'[k]
                               /\ Top(k)' = ac.csn => ~chain'[k][1].deleted
                               /\ iso'[t] = "RR" => ac.csn < snap'[t]
                         /\ ac.csn < clock'
                         /\ \A u \in Txn : Pending(u, k)' => ac.csn < csn'[u]
      BY DEF AccessInv
    <3>. QED
      BY <1>1, <1>2, <1>6, KeptAccess
  <2>5. CommitInv(t)'
    <3>1. pc'[t] = "validated" => AllValid(t)
      BY <1>2, <1>3
    <3>2. AllValid(t) => AllValid(t)'
      BY <1>2, <1>5 DEF AllValid, QuickHeaderValidation, QuickInsertCheck, QuickVersionCheck, Top
    <3>. QED
      BY <1>4, <3>1, <3>2 DEF CommitInv, Committed
  <2>6. FetchInv(t)'
    BY <1>4 DEF FetchInv
  <2>7. UpdateInv(t)'
    BY <1>2, <1>5, <2>1 DEF SessionInv, UpdateInv, InSnapshot
  <2>. QED
    BY <2>2, <2>3, <2>4, <2>5, <2>6, <2>7 DEF SessionInv
<1>. QED
  BY <1>1, <1>6, <1>7, <1>8, <1>9, <1>10, <1>11

LEMMA EndTransactionOcc ==
    ASSUME OccInv, NEW t \in Txn, NEW reached \in BOOLEAN, EndTransaction(t, reached)
    PROVE  OccInv' /\ Calm /\ \A u \in Txn \ {t} : SameSession(u)
<1>. USE DEF OccInv
<1>1. TypeInv' /\ Key' = Key
  BY EndTransactionType DEF SessionInv
<1>2. SessionType /\ StoreType /\ BaseInv /\ Csn \subseteq Nat
  BY CsnNat DEF TypeInv
<1>3. /\ UNCHANGED <<clock, chain, startCSN, dirty, hist, cur>> /\ Unlock(t)
      /\ pc[t] \in MayEnd /\ pc'[t] \in {"idle", "quiesce"}
      /\ got'[t] = NoResult /\ snap'[t] = 0 /\ csn'[t] = 0 /\ iso'[t] = "RC"
      /\ pc'[t] = "idle" => gcEpoch'[t] = 0
      /\ access'[t] = [k \in Key |-> NoAccess]
  BY <1>2 DEF EndTransaction, Goto, SessionType
<1>4. \A u \in Txn \ {t} : SameSession(u)
  BY <1>2 DEF EndTransaction, Goto, SessionType, SameSession
<1>5. Accessed(t)' = {} /\ \A u \in Txn \ {t} : Accessed(u)' = Accessed(u)
  BY <1>1, <1>3, <1>4 DEF Accessed, SameSession
<1>6. Calm
  <2>1. ASSUME NEW k \in Key, NEW u \in Txn
        PROVE  /\ Pending(u, k)' <=> Pending(u, k)
               /\ Pending(u, k) => csn'[u] = csn[u] /\ access'[u] = access[u]
    <3>1. CASE u = t
      BY <1>3, <3>1 DEF Pending, MayEnd
    <3>2. CASE u # t
      BY <1>4, <1>5, <3>2 DEF Pending, SameSession
    <3>. QED
      BY <3>1, <3>2
  <2>2. \A k \in Key : writeBit'[k] => writeBit[k]
    BY <1>3 DEF Unlock
  <2>. QED
    BY <1>3, <2>1, <2>2 DEF Calm, SameHead
<1>7. \A k \in Key : StoreInv(k)'
  BY <1>1, <1>6, CalmStore
<1>8. ASSUME NEW k \in Key PROVE WriteBitInv(k)'
  <2>1. ASSUME writeBit'[k] PROVE \E u \in Txn : lock'[k] = u /\ pc'[u] \in Committed
    <3>1. writeBit[k] /\ lock[k] # t
      BY <1>3, <2>1 DEF Unlock
    <3>2. PICK u \in Txn : lock[k] = u /\ pc[u] \in Committed
      BY <3>1 DEF WriteBitInv
    <3>3. u # t /\ pc'[u] = pc[u]
      BY <1>4, <3>1, <3>2 DEF SameSession
    <3>4. lock'[k] = u
      BY <1>3, <3>2, <3>3 DEF Unlock
    <3>. QED
      BY <3>2, <3>3, <3>4
  <2>. QED
    BY <2>1 DEF WriteBitInv
<1>9. ASSUME NEW u \in Txn \ {t} PROVE SessionInv(u)'
  <2>1. LockInv(u) /\ SameSession(u)
    BY <1>4 DEF SessionInv
  <2>2. \A k \in Key : lock'[k] = u <=> lock[k] = u
    BY <1>3, NoTxnAssumption DEF Unlock
  <2>3. LockedBy(u)' = LockedBy(u)
    BY <1>1, <2>2 DEF LockedBy
  <2>4. LockInv(u)'
    BY <1>1, <1>5, <2>1, <2>2, <2>3 DEF LockInv, SameSession, Accessed
  <2>. QED
    BY <1>1, <1>6, <2>1, <2>4, CalmOthers DEF SessionInv
<1>10. SessionInv(t)'
  <2>1. ShapeInv(t)'
    <3>1. clock \in Nat /\ clock > 0
      BY <1>2 DEF StoreType, BaseInv
    <3>. QED
      BY <1>3, <1>5, <3>1 DEF ShapeInv, Outside, LookingUp, Committed
  <2>2. LockInv(t)'
    <3>1. \A k \in Key : lock'[k] # t
      BY <1>3, NoTxnAssumption DEF Unlock
    <3>. QED
      BY <1>1, <1>3, <3>1 DEF LockInv, Valid
  <2>3. AccessInv(t)'
    <3>. SUFFICES ASSUME NEW k \in Key PROVE 0 < clock' /\ \A u \in Txn : Pending(u, k)' => 0 < csn'[u]
      BY <1>1, <1>3 DEF AccessInv, NoAccess
    <3>1. ASSUME NEW u \in Txn, Pending(u, k)' PROVE 0 < csn'[u]
      <4>1. Pending(u, k) /\ csn'[u] = csn[u]
        BY <1>6, <3>1 DEF Calm
      <4>2. access[u][k].csn < csn[u] /\ access[u][k].csn \in Nat /\ csn[u] \in Nat
        BY <1>2, <4>1, FieldTypes DEF SessionInv, AccessInv, SessionType
      <4>. QED
        BY <4>1, <4>2
    <3>. QED
      BY <1>2, <1>3, <3>1 DEF StoreType, BaseInv
  <2>4. CommitInv(t)' /\ FetchInv(t)' /\ UpdateInv(t)'
    BY <1>3 DEF CommitInv, FetchInv, UpdateInv, Committed
  <2>. QED
    BY <2>1, <2>2, <2>3, <2>4 DEF SessionInv
<1>. QED
  BY <1>1, <1>4, <1>6, <1>7, <1>8, <1>9, <1>10

LEMMA RowVersionDtorOcc ==
    ASSUME OccInv, NEW t \in Txn, RowVersionDtor(t)
    PROVE  OccInv' /\ Calm /\ \A u \in Txn : SameSession(u)
<1>. USE DEF OccInv
<1>1. TypeInv' /\ Key' = Key
  BY RowVersionDtorType
<1>2. UNCHANGED <<clock, startCSN, dirty, lock, writeBit, pc, iso, snap, access, cur, got, csn, gcEpoch, hist>>
  BY RowVersionDtorEffect DEF txnVars
<1>3. PICK k \in Key, c \in Csn : chain' = chain \/ chain' = [chain EXCEPT ![k] = CutBelow(c, chain[k])]
  BY RowVersionDtorEffect
<1>4. \A j \in Key : SameHead(j)
  <2>1. /\ CutBelow(c, chain[k]) = <<>> <=> chain[k] = <<>>
        /\ CutBelow(c, chain[k])[1] = chain[k][1]
    <3>1. c \in Nat /\ chain[k] \in Versions
      BY CsnNat DEF TypeInv, StoreType
    <3>2. /\ CutBelow(c, chain[k]) = <<>> <=> chain[k] = <<>>
          /\ chain[k] # <<>> => CutBelow(c, chain[k])[1] = chain[k][1]
      BY <3>1, Cut
    <3>. QED
      BY <3>2
  <2>2. chain \in [Key -> Versions]
    BY DEF TypeInv, StoreType
  <2>. QED
    BY <1>3, <2>1, <2>2 DEF SameHead
<1>5. \A u \in Txn : SameSession(u) /\ Accessed(u)' = Accessed(u) /\ LockedBy(u)' = LockedBy(u)
  BY <1>1, <1>2 DEF SameSession, Accessed, LockedBy
<1>6. Calm
  BY <1>2, <1>4, <1>5 DEF Calm, Pending
<1>7. \A j \in Key : StoreInv(j)' /\ WriteBitInv(j)'
  <2>1. \A j \in Key : StoreInv(j)'
    BY <1>1, <1>6, CalmStore
  <2>. QED
    BY <1>2, <2>1 DEF WriteBitInv
<1>8. ASSUME NEW u \in Txn PROVE SessionInv(u)'
  <2>1. LockInv(u)'
    BY <1>1, <1>2, <1>5 DEF SessionInv, LockInv
  <2>. QED
    BY <1>1, <1>5, <1>6, <2>1, CalmOthers DEF SessionInv
<1>. QED
  BY <1>1, <1>5, <1>6, <1>7, <1>8

-----------------------------------------------------------------------------
(* A transaction takes its CSN.                                            *)

\* All it writes becomes pending, and is nothing to the snapshots there are.
LEMMA SetCommitCsnEffect ==
    ASSUME OccInv, NEW t \in Txn, SetCommitCsn(t)
    PROVE  /\ Key' = Key /\ TypeInv' /\ pc[t] = "validated"
           /\ pc'[t] = "global" /\ csn'[t] = clock /\ clock' = clock + 1 /\ clock \in Nat
           /\ cur'[t].key \in Accessed(t)
           /\ UNCHANGED <<chain, startCSN, dirty, lock, writeBit, iso, snap, access, got,
                          gcEpoch, limbo, bound, scan, activeEpoch, late>>
           /\ \A u \in Txn \ {t} : SameSession(u)
           /\ \A u \in Txn : Accessed(u)' = Accessed(u)
           /\ \A k \in Accessed(t) :
                 /\ hist'[k] = <<Version(clock, access[t][k].type = "DEL")>> \o hist[k]
                 /\ Tail(hist'[k]) = hist[k] /\ hist[k] = Installed(k)
                 /\ \A u \in Txn : ~Pending(u, k) /\ (Pending(u, k)' <=> u = t)
           /\ \A k \in Key \ Accessed(t) :
                 /\ hist'[k] = hist[k]
                 /\ \A u \in Txn : Pending(u, k)' <=> Pending(u, k)
           /\ \A k \in Key : Installed(k)' = Installed(k)
           /\ \A k \in Key, s \in Nat : s <= clock => RowFromChain(s, hist'[k]) = RowFromChain(s, hist[k])
<1>. USE DEF OccInv
<1>1. /\ TypeInv' /\ Key' = Key /\ First(Accessed(t)) \in Accessed(t)
      /\ \A k \in Accessed(t) : First(Accessed(t)) <= k
  BY SetCommitCsnType DEF SessionInv
<1>2. SessionType /\ StoreType /\ BaseInv /\ Csn \subseteq Nat /\ clock \in Nat /\ clock \in Csn
  BY CsnNat DEF TypeInv, StoreType
<1>3. /\ pc[t] = "validated" /\ clock' = clock + 1
      /\ UNCHANGED <<chain, startCSN, dirty, lock, writeBit, iso, snap, access, got,
                     gcEpoch, limbo, bound, scan, activeEpoch, late>>
      /\ csn' = [csn EXCEPT ![t] = clock] /\ pc' = [pc EXCEPT ![t] = "global"]
      /\ cur' = [cur EXCEPT ![t].key = First(Accessed(t))]
      /\ hist' = [k \in Key |-> IF k \in Accessed(t)
                                THEN <<Version(clock, access[t][k].type = "DEL")>> \o hist[k]
                                ELSE hist[k]]
  BY DEF SetCommitCsn, Goto, storeVars, gcVars
<1>4. pc'[t] = "global" /\ csn'[t] = clock /\ cur'[t].key = First(Accessed(t))
  <2>1. cur[t] \in LookupSet /\ cur \in [Txn -> LookupSet]
    BY <1>2 DEF SessionType
  <2>. QED
    BY <1>2, <1>3, <2>1 DEF SessionType, LookupSet
<1>5. \A u \in Txn \ {t} : SameSession(u)
  BY <1>2, <1>3 DEF SessionType, SameSession
<1>6. \A u \in Txn : Accessed(u)' = Accessed(u)
  BY <1>1, <1>3 DEF Accessed
<1>7. ASSUME NEW k \in Accessed(t)
      PROVE  /\ hist'[k] = <<Version(clock, access[t][k].type = "DEL")>> \o hist[k]
             /\ Tail(hist'[k]) = hist[k] /\ hist[k] = Installed(k)
             /\ \A u \in Txn : ~Pending(u, k) /\ (Pending(u, k)' <=> u = t)
             /\ \A s \in Nat : s <= clock => RowFromChain(s, hist'[k]) = RowFromChain(s, hist[k])
             /\ Installed(k)' = Installed(k)
  <2>1. k \in Key /\ lock[k] = t
    BY <1>3 DEF Accessed, SessionInv, LockInv, Valid
  <2>. DEFINE v == Version(clock, access[t][k].type = "DEL")
  <2>2. hist'[k] = <<v>> \o hist[k]
    BY <1>3, <2>1
  <2>3. v \in VersionSet /\ v.csn = clock /\ hist[k] \in Versions
    BY <1>2, <2>1 DEF Version, VersionSet, StoreType
  <2>. HIDE DEF v
  <2>4. Tail(hist'[k]) = hist[k]
    BY <2>2, <2>3, Prepend
  <2>5. \A u \in Txn : ~Pending(u, k)
    <3>1. ~Pending(t, k)
      BY <1>3 DEF Pending
    <3>. QED
      BY <2>1, <3>1, PendingLocked
  <2>6. \A u \in Txn : Pending(u, k)' <=> u = t
    <3>1. Pending(t, k)'
      <4>1. k \in Accessed(t)' /\ k >= cur'[t].key
        BY <1>1, <1>4, <1>6, <1>2 DEF BaseInv, Accessed
      <4>. QED
        BY <1>4, <4>1 DEF Pending
    <3>2. \A u \in Txn \ {t} : Pending(u, k)' <=> Pending(u, k)
      BY <1>3, <1>5, <1>6 DEF Pending, SameSession
    <3>. QED
      BY <2>5, <3>1, <3>2
  <2>7. ASSUME NEW s \in Nat, s <= clock PROVE RowFromChain(s, hist'[k]) = RowFromChain(s, hist[k])
    <3>1. ~(s > v.csn)
      BY <1>2, <2>3, <2>7
    <3>. QED
      BY <2>2, <2>3, <3>1, SeesPrepended
  <2>8. Installed(k) = hist[k]
    BY <2>5 DEF Installed
  <2>9. Installed(k)' = Tail(hist'[k])
    BY <2>6 DEF Installed
  <2>. QED
    BY <2>2, <2>4, <2>5, <2>6, <2>7, <2>8, <2>9 DEF v
<1>8. ASSUME NEW k \in Key \ Accessed(t)
      PROVE  /\ hist'[k] = hist[k]
             /\ \A u \in Txn : Pending(u, k)' <=> Pending(u, k)
             /\ Installed(k)' = Installed(k)
  <2>1. hist'[k] = hist[k]
    BY <1>3
  <2>2. \A u \in Txn : Pending(u, k)' <=> Pending(u, k)
    BY <1>3, <1>5, <1>6 DEF Pending, SameSession
  <2>. QED
    BY <2>1, <2>2 DEF Installed
<1>9. Accessed(t) \subseteq Key
  BY DEF Accessed
<1>10. \A k \in Key : Installed(k)' = Installed(k)
  BY <1>7, <1>8
<1>11. \A k \in Key, s \in Nat : s <= clock => RowFromChain(s, hist'[k]) = RowFromChain(s, hist[k])
  BY <1>7, <1>8
<1>. QED
  BY <1>1, <1>2, <1>3, <1>4, <1>5, <1>6, <1>7, <1>8, <1>10, <1>11

\* Validation and locks make the version that is replaced the one of the access.
LEMMA ValidReplaces ==
    ASSUME OccInv, NEW t \in Txn, pc[t] = "validated", NEW k \in Accessed(t)
    PROVE  Replaces(t, k, hist[k])
<1>. USE DEF OccInv
<1>1. k \in Key /\ lock[k] = t /\ QuickHeaderValidation(t, k)
  BY DEF Accessed, SessionInv, LockInv, Valid, CommitInv, AllValid
<1>2. \A u \in Txn : ~Pending(u, k)
  <2>1. ~Pending(t, k)
    BY DEF Pending
  <2>. QED
    BY <1>1, <2>1, PendingLocked
<1>3. Installed(k) = hist[k] /\ StoreInv(k)
  BY <1>1, <1>2 DEF Installed
<1>. DEFINE ac == access[t][k]
<1>4. /\ ac.type = "RD" => ac = NoAccess
      /\ ac.type \in {"WR", "DEL"} => ac.upgrade = "no"
      /\ ac.upgrade # "no" => ~dirty[k]
      /\ ac.type \in {"WR", "DEL"} \/ ac.upgrade = "onOwnDelete" =>
            /\ ~dirty[k]
            /\ Top(k) = ac.csn => ~chain[k][1].deleted
            /\ iso[t] = "RR" => ac.csn < snap[t]
  BY <1>1 DEF SessionInv, AccessInv
<1>5. ac.type \in {"WR", "DEL", "INS"} /\ ac.upgrade \in {"no", "onDeleted", "onOwnDelete"}
  BY <1>1, <1>4, FieldTypes DEF TypeInv, AccessType, Upgrade, Accessed
<1>6. ASSUME ~dirty[k]
      PROVE  hist[k] # <<>> /\ hist[k][1] = chain[k][1] /\ Top(k) = hist[k][1].csn
  BY <1>3, <1>6 DEF StoreInv, Top
<1>7. CASE ac.type = "INS" /\ ac.upgrade = "no"
  <2>1. dirty[k]
    BY <1>1, <1>7 DEF QuickHeaderValidation, QuickInsertCheck
  <2>2. hist[k] = <<>>
    BY <1>3, <2>1 DEF StoreInv
  <2>. QED
    BY <1>7, <2>2 DEF Replaces
<1>8. CASE ac.type = "INS" /\ ac.upgrade = "onDeleted"
  <2>1. chain[k][1].deleted
    BY <1>1, <1>8 DEF QuickHeaderValidation, QuickInsertCheck
  <2>. QED
    BY <1>4, <1>6, <1>8, <2>1 DEF Replaces
<1>9. CASE ac.type = "INS" /\ ac.upgrade = "onOwnDelete"
  <2>1. ac.csn = Top(k)
    BY <1>1, <1>9 DEF QuickHeaderValidation, QuickInsertCheck
  <2>. QED
    BY <1>4, <1>6, <1>9, <2>1 DEF Replaces
<1>10. CASE ac.type # "INS"
  <2>1. ac.csn = Top(k)
    BY <1>1, <1>10 DEF QuickHeaderValidation, QuickVersionCheck
  <2>. QED
    BY <1>4, <1>5, <1>6, <1>10, <2>1 DEF Replaces
<1>. QED
  BY <1>5, <1>7, <1>8, <1>9, <1>10

LEMMA SetCommitCsnOcc ==
    ASSUME OccInv, NEW t \in Txn, SetCommitCsn(t)
    PROVE  OccInv'
<1>. USE DEF OccInv
<1>1. /\ Key' = Key /\ TypeInv' /\ pc[t] = "validated"
      /\ pc'[t] = "global" /\ csn'[t] = clock /\ clock' = clock + 1 /\ clock \in Nat
      /\ cur'[t].key \in Accessed(t)
      /\ UNCHANGED <<chain, startCSN, dirty, lock, writeBit, iso, snap, access, got, gcEpoch>>
      /\ \A u \in Txn \ {t} : SameSession(u)
      /\ \A u \in Txn : Accessed(u)' = Accessed(u)
      /\ \A k \in Key : Installed(k)' = Installed(k)
      /\ \A k \in Key, s \in Nat : s <= clock => RowFromChain(s, hist'[k]) = RowFromChain(s, hist[k])
  BY SetCommitCsnEffect
<1>2. ASSUME NEW k \in Accessed(t)
      PROVE  /\ hist'[k] = <<Version(clock, access[t][k].type = "DEL")>> \o hist[k]
             /\ Tail(hist'[k]) = hist[k]
             /\ \A u \in Txn : Pending(u, k)' <=> u = t
  BY SetCommitCsnEffect
<1>3. ASSUME NEW k \in Key \ Accessed(t)
      PROVE  hist'[k] = hist[k] /\ \A u \in Txn : Pending(u, k)' <=> Pending(u, k)
  BY SetCommitCsnEffect
<1>4. /\ Csn \subseteq Nat /\ csn \in [Txn -> Csn] /\ snap \in [Txn -> Csn] /\ startCSN \in [Key -> Csn]
      /\ \A k \in Key : Top(k) \in Nat /\ Top(k)' = Top(k) /\ startCSN[k] \in Nat
      /\ \A u \in Txn, k \in Key : access[u][k].csn \in Nat
      /\ clock > 0
  BY <1>1, CsnNat, TopType, FieldTypes DEF TypeInv, StoreType, SessionType, BaseInv, Top
<1>5. ASSUME NEW k \in Key PROVE StoreInv(k)' /\ WriteBitInv(k)'
  <2>1. StoreInv(k) /\ WriteBitInv(k)
    OBVIOUS
  <2>2. /\ dirty'[k] <=> chain'[k] = <<>>
        /\ chain'[k] = <<>> <=> Installed(k)' = <<>>
        /\ chain'[k] # <<>> => chain'[k][1] = Installed(k)'[1]
        /\ Top(k)' < clock' /\ startCSN'[k] < clock'
    BY <1>1, <1>4, <2>1 DEF StoreInv
  <2>3. ASSUME NEW u \in Txn, Pending(u, k)'
        PROVE  /\ hist'[k] = <<Version(csn'[u], access'[u][k].type = "DEL")>> \o Tail(hist'[k])
               /\ Top(k)' < csn'[u] /\ startCSN'[k] <= csn'[u]
               /\ ~writeBit'[k]
    <3>1. CASE k \in Accessed(t)
      <4>1. u = t /\ lock[k] = t
        BY <1>1, <1>2, <2>3, <3>1 DEF SessionInv, LockInv, Valid
      <4>2. ~writeBit[k]
        BY <1>1, <2>1, <4>1 DEF WriteBitInv, Committed
      <4>3. Top(k) < clock /\ startCSN[k] <= clock
        BY <1>1, <1>4, <2>1 DEF StoreInv
      <4>. QED
        BY <1>1, <1>2, <1>4, <3>1, <4>1, <4>2, <4>3
    <3>2. CASE k \notin Accessed(t)
      <4>1. Pending(u, k) /\ u # t
        BY <1>1, <1>3, <2>3, <3>2 DEF Pending
      <4>2. csn'[u] = csn[u]
        BY <1>1, <4>1 DEF SameSession
      <4>. QED
        BY <1>1, <1>3, <1>4, <2>1, <3>2, <4>1, <4>2 DEF StoreInv
    <3>. QED
      BY <3>1, <3>2
  <2>4. StoreInv(k)'
    BY <2>2, <2>3 DEF StoreInv
  <2>5. WriteBitInv(k)'
    BY <1>1, <2>1 DEF WriteBitInv, SameSession, Committed
  <2>. QED
    BY <2>4, <2>5
<1>6. ASSUME NEW u \in Txn
      PROVE  LockInv(u)' /\ AccessInv(u)' /\ FetchInv(u)' /\ UpdateInv(u)'
  <2>1. SessionInv(u) /\ csn[u] \in Nat /\ snap[u] \in Nat /\ snap[u] <= clock
    BY <1>4 DEF SessionInv, ShapeInv
  <2>2. LockInv(u)'
    <3>1. LockedBy(u)' = LockedBy(u)
      BY <1>1 DEF LockedBy
    <3>2. CASE u = t
      BY <1>1, <2>1, <3>2 DEF SessionInv, LockInv, Valid
    <3>3. CASE u # t
      BY <1>1, <2>1, <3>1, <3>3 DEF SessionInv, LockInv, SameSession
    <3>. QED
      BY <3>2, <3>3
  <2>3. AccessInv(u)'
    <3>1. AccessInv(u)
      BY <2>1 DEF SessionInv
    <3>2. ASSUME NEW k \in Key, NEW w \in Txn, Pending(w, k)' PROVE access[u][k].csn < csn'[w]
      <4>1. CASE k \in Accessed(t)
        BY <1>1, <1>2, <3>1, <3>2, <4>1 DEF AccessInv
      <4>2. CASE k \notin Accessed(t)
        <5>1. Pending(w, k) /\ w # t
          BY <1>1, <1>3, <3>2, <4>2 DEF Pending
        <5>. QED
          BY <1>1, <3>1, <5>1 DEF AccessInv, SameSession
      <4>. QED
        BY <4>1, <4>2
    <3>3. \A k \in Key : access[u][k].csn < clock'
      BY <1>1, <1>4, <3>1 DEF AccessInv
    <3>. QED
      BY <1>1, <1>4, <3>1, <3>2, <3>3 DEF AccessInv
  <2>4. FetchInv(u)'
    <3>1. CASE u = t
      BY <1>1, <3>1 DEF FetchInv
    <3>2. CASE u # t /\ pc[u] \in LookingUp
      <4>1. PICK k \in Key : k = cur[u].key
        BY <2>1, <3>2 DEF SessionInv, ShapeInv
      <4>2. cur'[u].key = k /\ SameSession(u)
        BY <1>1, <3>2, <4>1 DEF SameSession
      <4>3. ASSUME NEW w \in Txn, Pending(w, k)', pc[u] \in {"read", "fetch"}
            PROVE  Top(k)' = cur[u].top \/ csn'[w] >= snap[u]
        <5>1. CASE k \in Accessed(t)
          BY <1>1, <1>2, <2>1, <4>3, <5>1
        <5>2. CASE k \notin Accessed(t)
          <6>1. Pending(w, k) /\ w # t
            BY <1>1, <1>3, <4>3, <5>2 DEF Pending
          <6>. QED
            BY <1>1, <1>4, <2>1, <4>1, <4>3, <6>1 DEF SessionInv, FetchInv, SameSession
        <5>. QED
          BY <5>1, <5>2
      <4>4. FetchInv(u)' <=> /\ pc'[u] \in {"topRow", "fetch"} => ~dirty'[k]
                             /\ pc'[u] \in {"read", "fetch"} =>
                                   \A w \in Txn : Pending(w, k)' =>
                                       Top(k)' = cur'[u].top \/ csn'[w] >= snap'[u]
        BY <4>2 DEF FetchInv
      <4>. QED
        BY <1>1, <2>1, <4>1, <4>2, <4>3, <4>4 DEF SessionInv, FetchInv, SameSession
    <3>3. CASE u # t /\ pc[u] \notin LookingUp
      BY <1>1, <3>3 DEF FetchInv, LookingUp, SameSession
    <3>. QED
      BY <3>1, <3>2, <3>3
  <2>5. UpdateInv(u)'
    <3>1. UpdateInv(u)
      BY <2>1 DEF SessionInv
    <3>2. ASSUME NEW k \in Key PROVE RowFromChain(snap[u], hist'[k]) = RowFromChain(snap[u], hist[k])
      BY <1>1, <2>1
    <3>3. got[u].key # 0 => InSnapshot(u)' = InSnapshot(u)
      <4>1. got[u].key \in Key \cup {0}
        BY DEF TypeInv, SessionType, ResultSet
      <4>. QED
        BY <1>1, <3>2, <4>1 DEF InSnapshot
    <3>. QED
      BY <1>1, <3>1, <3>2, <3>3 DEF UpdateInv, Accessed
  <2>. QED
    BY <2>2, <2>3, <2>4, <2>5
<1>7. ASSUME NEW u \in Txn \ {t} PROVE ShapeInv(u)' /\ CommitInv(u)'
  <2>1. SessionInv(u) /\ SameSession(u) /\ csn[u] \in Nat /\ snap[u] \in Nat
    BY <1>1, <1>4
  <2>2. ShapeInv(u)'
    BY <1>1, <2>1 DEF SessionInv, ShapeInv, SameSession
  <2>3. CommitInv(u)'
    <3>1. pc[u] = "validated" => AllValid(u)'
      BY <1>1, <2>1 DEF SessionInv, CommitInv, AllValid, QuickHeaderValidation, QuickInsertCheck,
                        QuickVersionCheck, Top
    <3>2. ASSUME pc[u] \in Committed, NEW k \in Accessed(u)
          PROVE  /\ hist'[k] = <<Version(csn'[u], access'[u][k].type = "DEL")>> \o Tail(hist'[k])
                 /\ Replaces(u, k, Tail(hist[k]))'
      <4>1. k \in Key \ Accessed(t)
        BY <1>1, <2>1, <3>2 DEF SessionInv, LockInv, Accessed, Valid, Committed
      <4>2. hist'[k] = hist[k]
        BY <1>3, <4>1
      <4>. QED
        BY <1>1, <2>1, <3>2, <4>2 DEF SessionInv, CommitInv, Replaces, SameSession
    <3>. QED
      BY <1>1, <2>1, <3>1, <3>2 DEF CommitInv, SameSession
  <2>. QED
    BY <2>2, <2>3
<1>8. ShapeInv(t)' /\ CommitInv(t)'
  <2>1. SessionInv(t) /\ snap[t] \in Nat /\ snap[t] <= clock
    BY <1>4 DEF SessionInv, ShapeInv
  <2>2. ShapeInv(t)'
    BY <1>1, <1>4, <2>1 DEF SessionInv, ShapeInv, Outside, LookingUp, Committed
  <2>3. ASSUME NEW k \in Accessed(t)
        PROVE  /\ hist'[k] = <<Version(csn'[t], access'[t][k].type = "DEL")>> \o Tail(hist'[k])
               /\ Replaces(t, k, Tail(hist[k]))'
    <3>1. Replaces(t, k, hist[k])
      BY <1>1, ValidReplaces
    <3>. QED
      BY <1>1, <1>2, <3>1 DEF Replaces
  <2>. QED
    BY <1>1, <2>2, <2>3 DEF CommitInv
<1>. QED
  BY <1>1, <1>5, <1>6, <1>7, <1>8 DEF SessionInv

-----------------------------------------------------------------------------
(* WriteChanges installs the pending versions one by one.                  *)

LEMMA WritePending ==
    ASSUME OccInv, NEW t \in Txn, WriteStep(t)
    PROVE  LET k == cur[t].key IN
           /\ \A u \in Txn, j \in Key :
                 Pending(u, j)' <=> Pending(u, j) /\ ~(u = t /\ j = k /\ Installs(t))
           /\ Installs(t) \/ startCSN' # startCSN => Pending(t, k)
           /\ \A u \in Txn \ {t} : SameSession(u)
           /\ \A u \in Txn : Accessed(u)' = Accessed(u)
           /\ pc'[t] \in Committed
           /\ pc'[t] \in {"global", "sentinel"} => cur'[t].key \in Accessed(t)
<1>. DEFINE k == cur[t].key
<1>1. TypeInv /\ ShapeInv(t) /\ AccessInv(t)
  BY DEF OccInv, SessionInv
<1>2. /\ k \in Accessed(t) /\ k \in Key /\ pc[t] \in {"global", "sentinel"}
      /\ UNCHANGED <<clock, lock, iso, snap, access, got, csn, gcVars, hist, late>>
      /\ pc[t] = "sentinel" /\ ~Installs(t) => UNCHANGED startCSN
  BY <1>1, WriteEffect
<1>3. Key' = Key
  BY <1>1, WriteType
<1>4. PICK done \in {"sentinel", "end"} : (pc[t] = "global" <=> done = "sentinel") /\ NextAccess(t, done)
  BY <1>1, WriteEffect
<1>5. Key \subseteq Nat /\ pc \in [Txn -> Label] /\ cur \in [Txn -> LookupSet] /\ Accessed(t) \subseteq Key
  BY <1>1 DEF TypeInv, BaseInv, SessionType, Accessed
<1>6. \A u \in Txn : Accessed(u)' = Accessed(u)
  BY <1>2, <1>3 DEF Accessed
<1>7. \/ \E n \in Accessed(t) :
            /\ n > k /\ UNCHANGED pc /\ cur' = [cur EXCEPT ![t].key = n]
            /\ \A j \in Accessed(t) : j > k => j >= n
      \/ \E n \in Accessed(t) \cup {0} :
            /\ pc' = [pc EXCEPT ![t] = done] /\ cur' = [cur EXCEPT ![t].key = n]
            /\ \A j \in Accessed(t) : ~(j > k)
            /\ done = "sentinel" => n \in Accessed(t) /\ \A j \in Accessed(t) : j >= n
  BY <1>1, <1>2, <1>4, NextAccessEffect
<1>8. \A u \in Txn \ {t} : SameSession(u)
  BY <1>2, <1>5, <1>7 DEF SameSession, gcVars
<1>9. Pending(t, k) <=> pc[t] = "global" \/ access[t][k].type = "INS"
  <2>1. k \in Nat
    BY <1>2, <1>5
  <2>2. k >= cur[t].key
    BY <2>1
  <2>. QED
    BY <1>2, <2>2 DEF Pending
<1>10. Installs(t) \/ startCSN' # startCSN => Pending(t, k)
  BY <1>2, <1>9 DEF Installs
<1>11. \A n : cur' = [cur EXCEPT ![t].key = n] => cur'[t].key = n
  BY <1>5 DEF LookupSet
<1>12. ASSUME NEW n \in Accessed(t), n > k, UNCHANGED pc, cur' = [cur EXCEPT ![t].key = n],
              \A j \in Accessed(t) : j > k => j >= n
       PROVE  /\ \A j \in Key : Pending(t, j)' <=> Pending(t, j) /\ ~(j = k /\ Installs(t))
              /\ pc'[t] \in Committed
              /\ pc'[t] \in {"global", "sentinel"} => cur'[t].key \in Accessed(t)
  <2>1. cur'[t].key = n
    BY <1>11, <1>12
  <2>2. ASSUME NEW j \in Key PROVE Pending(t, j)' <=> Pending(t, j) /\ ~(j = k /\ Installs(t))
    <3>1. j \in Nat /\ k \in Nat /\ n \in Nat /\ (j \in Accessed(t) /\ j >= k /\ j # k => j >= n)
      BY <1>2, <1>5, <1>12
    <3>2. Pending(t, j)' <=> /\ j \in Accessed(t)
                             /\ \/ pc[t] = "global" /\ (access[t][j].type = "INS" \/ j >= n)
                                \/ pc[t] = "sentinel" /\ access[t][j].type = "INS" /\ j >= n
      BY <1>2, <1>6, <1>12, <2>1 DEF Pending
    <3>3. CASE j = k
      BY <1>2, <1>9, <1>12, <3>1, <3>2, <3>3 DEF Installs
    <3>4. CASE j # k
      BY <1>12, <3>1, <3>2, <3>4 DEF Pending
    <3>. QED
      BY <3>3, <3>4
  <2>. QED
    BY <1>2, <1>12, <2>1, <2>2 DEF Committed
<1>13. ASSUME NEW n \in Accessed(t) \cup {0},
              pc' = [pc EXCEPT ![t] = done], cur' = [cur EXCEPT ![t].key = n],
              \A j \in Accessed(t) : ~(j > k),
              done = "sentinel" => n \in Accessed(t) /\ \A j \in Accessed(t) : j >= n
       PROVE  /\ \A j \in Key : Pending(t, j)' <=> Pending(t, j) /\ ~(j = k /\ Installs(t))
              /\ pc'[t] \in Committed
              /\ pc'[t] \in {"global", "sentinel"} => cur'[t].key \in Accessed(t)
  <2>1. cur'[t].key = n /\ pc'[t] = done
    BY <1>5, <1>11, <1>13
  <2>2. ASSUME NEW j \in Key PROVE Pending(t, j)' <=> Pending(t, j) /\ ~(j = k /\ Installs(t))
    <3>1. j \in Nat /\ k \in Nat /\ n \in Nat /\ (j \in Accessed(t) => ~(j > k))
      BY <1>2, <1>5, <1>13
    <3>2. Pending(t, j)' <=> j \in Accessed(t) /\ done = "sentinel" /\ access[t][j].type = "INS"
      BY <1>2, <1>6, <1>13, <2>1 DEF Pending
    <3>3. CASE j = k
      BY <1>2, <1>4, <1>9, <3>2, <3>3 DEF Installs
    <3>4. CASE j # k
      BY <1>2, <1>4, <3>1, <3>2, <3>4 DEF Pending
    <3>. QED
      BY <3>3, <3>4
  <2>. QED
    BY <1>13, <2>1, <2>2 DEF Committed
<1>14. /\ \A j \in Key : Pending(t, j)' <=> Pending(t, j) /\ ~(j = k /\ Installs(t))
       /\ pc'[t] \in Committed
       /\ pc'[t] \in {"global", "sentinel"} => cur'[t].key \in Accessed(t)
  BY <1>7, <1>12, <1>13
<1>15. \A u \in Txn \ {t}, j \in Key : Pending(u, j)' <=> Pending(u, j)
  BY <1>6, <1>8 DEF Pending, SameSession
<1>. QED
  BY <1>6, <1>8, <1>10, <1>14, <1>15

\* What the step does to the key at hand; all other keys stay as they are.
WritesKey(t, k) ==
    /\ k = cur[t].key
    /\ Key' = Key /\ TypeInv'
    /\ \A j \in Key : (Installs(t) /\ j = k) \/
          /\ chain'[j] = chain[j] /\ dirty'[j] = dirty[j] /\ writeBit'[j] = writeBit[j]
          /\ Top(j)' = Top(j) /\ Installed(j)' = Installed(j)
    /\ \A j \in Key : startCSN'[j] = startCSN[j] \/
          (j = k /\ startCSN'[j] = csn[t] /\ Pending(t, k))
    /\ \A j \in Key : startCSN'[j] \in Nat /\ startCSN[j] \in Nat /\ startCSN[j] <= startCSN'[j]
    /\ Pending(t, k) => \A u \in Txn : Pending(u, k) => u = t
    /\ Installs(t) =>
          /\ ~dirty'[k] /\ chain'[k] # <<>> /\ chain'[k][1] = hist[k][1]
          /\ Top(k)' = csn[t] /\ Top(k) < csn[t]
          /\ Installed(k) = Tail(hist[k]) /\ Installed(k)' = hist[k] /\ hist[k] # <<>>
          /\ hist[k] = <<Version(csn[t], access[t][k].type = "DEL")>> \o Installed(k)
          /\ \E q \in Versions :
                /\ q = chain[k] \/ q = <<Version(csn[t], TRUE)>> \o chain[k]
                /\ chain'[k] = <<Version(csn[t], access[t][k].type = "DEL")>> \o q

LEMMA WriteStore ==
    ASSUME OccInv, NEW t \in Txn, WriteStep(t)
    PROVE  \E k \in Key : WritesKey(t, k)
<1>0. PICK k \in Key : k = cur[t].key
  BY WriteEffect DEF OccInv, SessionInv
<1>. DEFINE v == Version(csn[t], access[t][k].type = "DEL")
<1>1. TypeInv /\ ShapeInv(t) /\ AccessInv(t)
  BY DEF OccInv, SessionInv
<1>2. /\ k \in Accessed(t) /\ k \in Key /\ pc[t] \in {"global", "sentinel"}
      /\ UNCHANGED <<clock, lock, iso, snap, access, got, csn, gcVars, hist, late>>
      /\ startCSN' \in {startCSN, [startCSN EXCEPT ![k] = csn[t]]}
      /\ ~Installs(t) => UNCHANGED <<chain, dirty, writeBit>>
  BY <1>1, <1>0, WriteEffect
<1>3. Key' = Key /\ TypeInv'
  BY <1>1, WriteType
<1>4. /\ \A u \in Txn, j \in Key :
            Pending(u, j)' <=> Pending(u, j) /\ ~(u = t /\ j = k /\ Installs(t))
      /\ Installs(t) \/ startCSN' # startCSN => Pending(t, k)
  BY <1>0, WritePending
<1>5. /\ chain \in [Key -> Versions] /\ dirty \in [Key -> BOOLEAN] /\ writeBit \in [Key -> BOOLEAN]
      /\ hist \in [Key -> Versions] /\ startCSN \in [Key -> Csn] /\ csn[t] \in Csn /\ Csn \subseteq Nat
  BY <1>1, CsnNat DEF TypeInv, StoreType, SessionType
<1>6. Pending(t, k) => \A u \in Txn : Pending(u, k) => u = t
  BY <1>2, PendingLocked
<1>7. StoreInv(k)
  BY <1>2 DEF OccInv
<1>8. ASSUME NEW j \in Key
      PROVE  /\ startCSN'[j] = startCSN[j] \/ (j = k /\ startCSN'[j] = csn[t] /\ Pending(t, k))
             /\ startCSN'[j] \in Nat /\ startCSN[j] \in Nat /\ startCSN[j] <= startCSN'[j]
  <2>1. startCSN[j] \in Nat /\ csn[t] \in Nat
    BY <1>5
  <2>2. CASE startCSN' = startCSN
    BY <2>1, <2>2
  <2>3. CASE startCSN' # startCSN
    <3>1. startCSN' = [startCSN EXCEPT ![k] = csn[t]] /\ Pending(t, k)
      BY <1>2, <1>4, <2>3
    <3>2. startCSN[k] <= csn[t]
      BY <1>7, <3>1 DEF StoreInv
    <3>. QED
      BY <1>2, <1>5, <2>1, <3>1, <3>2
  <2>. QED
    BY <2>2, <2>3
<1>9. ASSUME NEW j \in Key, ~(Installs(t) /\ j = k)
      PROVE  /\ chain'[j] = chain[j] /\ dirty'[j] = dirty[j] /\ writeBit'[j] = writeBit[j]
             /\ Top(j)' = Top(j) /\ Installed(j)' = Installed(j)
  <2>1. chain'[j] = chain[j] /\ dirty'[j] = dirty[j] /\ writeBit'[j] = writeBit[j]
    <3>1. CASE ~Installs(t)
      BY <1>2, <3>1
    <3>2. CASE Installs(t)
      <4>1. \E q \in Versions : chain' = [chain EXCEPT ![k] = <<v>> \o q]
        BY <1>1, <3>2, <1>0, WriteEffect
      <4>2. dirty' = [dirty EXCEPT ![k] = FALSE] /\ writeBit' = [writeBit EXCEPT ![k] = TRUE]
        BY <1>1, <3>2, <1>0, WriteEffect
      <4>. HIDE DEF v
      <4>. QED
        BY <1>5, <1>9, <3>2, <4>1, <4>2
    <3>. QED
      BY <3>1, <3>2
  <2>2. Top(j)' = Top(j)
    BY <2>1 DEF Top
  <2>3. \A u \in Txn : Pending(u, j)' <=> Pending(u, j)
    BY <1>4, <1>9
  <2>4. Installed(j)' = Installed(j)
    BY <1>2, <2>3 DEF Installed
  <2>. QED
    BY <2>1, <2>2, <2>4
<1>10. ASSUME Installs(t)
       PROVE  /\ ~dirty'[k] /\ chain'[k] # <<>> /\ chain'[k][1] = hist[k][1]
              /\ Top(k)' = csn[t] /\ Top(k) < csn[t]
              /\ Installed(k) = Tail(hist[k]) /\ Installed(k)' = hist[k] /\ hist[k] # <<>>
              /\ hist[k] = <<v>> \o Installed(k)
              /\ \E q \in Versions :
                    /\ q = chain[k] \/ q = <<Version(csn[t], TRUE)>> \o chain[k]
                    /\ chain'[k] = <<v>> \o q
  <2>1. PICK q \in Versions :
           /\ q = chain[k] \/ q = <<Version(csn[t], TRUE)>> \o chain[k]
           /\ chain' = [chain EXCEPT ![k] = <<v>> \o q]
    BY <1>1, <1>10, <1>0, WriteEffect
  <2>2. dirty' = [dirty EXCEPT ![k] = FALSE]
    BY <1>1, <1>10, <1>0, WriteEffect
  <2>3. Pending(t, k)
    BY <1>4, <1>10
  <2>4. v \in VersionSet /\ v.csn = csn[t]
    BY <1>5 DEF Version, VersionSet
  <2>5. hist[k] = <<v>> \o Tail(hist[k]) /\ Top(k) < csn[t]
    BY <1>7, <2>3 DEF StoreInv
  <2>. DEFINE Added(c, p) == p = c \/ p = <<Version(csn[t], TRUE)>> \o c
  <2>6. Added(chain[k], q)
    BY <2>1
  <2>. HIDE DEF v, Added
  <2>7. chain'[k] = <<v>> \o q /\ ~dirty'[k]
    BY <1>2, <1>5, <2>1, <2>2
  <2>8. chain'[k] # <<>> /\ chain'[k][1] = v
    BY <2>4, <2>7, Prepend
  <2>9. hist[k] # <<>>
    BY <2>5
  <2>10. Tail(hist[k]) \in Versions
    <3>1. hist[k] \in Versions
      BY <1>2, <1>5
    <3>. QED
      BY <2>9, <3>1 DEF Versions
  <2>11. hist[k][1] = v
    BY <2>4, <2>5, <2>10, Prepend
  <2>12. Top(k)' = csn[t]
    BY <2>4, <2>8 DEF Top
  <2>13. Installed(k) = Tail(hist[k])
    BY <2>3 DEF Installed
  <2>14. Installed(k)' = hist[k]
    <3>1. \A u \in Txn : ~Pending(u, k)'
      BY <1>2, <1>4, <1>6, <1>10, <2>3
    <3>. QED
      BY <1>2, <3>1 DEF Installed
  <2>. QED
    BY <2>5, <2>6, <2>7, <2>8, <2>9, <2>11, <2>12, <2>13, <2>14 DEF Added
<1>. QED
  BY <1>0, <1>3, <1>6, <1>8, <1>9, <1>10 DEF WritesKey

LEMMA WriteOcc ==
    ASSUME OccInv, NEW t \in Txn, WriteStep(t)
    PROVE  OccInv'
<1>0. PICK k \in Key : WritesKey(t, k)
  BY WriteStore
<1>1. /\ Key' = Key /\ TypeInv'
      /\ \A j \in Key : (Installs(t) /\ j = k) \/
            /\ chain'[j] = chain[j] /\ dirty'[j] = dirty[j] /\ writeBit'[j] = writeBit[j]
            /\ Top(j)' = Top(j) /\ Installed(j)' = Installed(j)
      /\ \A j \in Key : startCSN'[j] = startCSN[j] \/
            (j = k /\ startCSN'[j] = csn[t] /\ Pending(t, k))
      /\ \A j \in Key : startCSN'[j] \in Nat /\ startCSN[j] \in Nat /\ startCSN[j] <= startCSN'[j]
      /\ Pending(t, k) => \A u \in Txn : Pending(u, k) => u = t
  BY <1>0 DEF WritesKey
<1>2. ASSUME Installs(t)
      PROVE  /\ ~dirty'[k] /\ chain'[k] # <<>> /\ chain'[k][1] = hist[k][1]
             /\ Top(k)' = csn[t] /\ Top(k) < csn[t] /\ Installed(k)' = hist[k] /\ hist[k] # <<>>
  BY <1>0, <1>2 DEF WritesKey
<1>. USE DEF OccInv
<1>3. UNCHANGED <<clock, lock, iso, snap, access, got, csn, gcEpoch, hist>> /\ pc[t] \in Committed
  BY WriteEffect DEF SessionInv, gcVars, Committed
<1>4. /\ \A u \in Txn, j \in Key :
            Pending(u, j)' <=> Pending(u, j) /\ ~(u = t /\ j = k /\ Installs(t))
      /\ Installs(t) => Pending(t, k)
      /\ \A u \in Txn \ {t} : SameSession(u)
      /\ \A u \in Txn : Accessed(u)' = Accessed(u)
      /\ pc'[t] \in Committed
      /\ pc'[t] \in {"global", "sentinel"} => cur'[t].key \in Accessed(t)
  BY <1>0, WritePending DEF WritesKey
<1>5. Pending(t, k) => lock[k] = t
  BY <1>1, PendingLocked
<1>6. clock \in Nat /\ csn[t] \in Nat /\ csn[t] < clock /\ NoTxn \notin Txn
  BY CsnNat, NoTxnAssumption DEF TypeInv, StoreType, SessionType, SessionInv, ShapeInv
<1>7. ASSUME NEW j \in Key PROVE StoreInv(j)'
  <2>1. StoreInv(j)
    OBVIOUS
  <2>2. startCSN'[j] < clock'
    BY <1>1, <1>3, <1>6, <2>1 DEF StoreInv
  <2>3. CASE Installs(t) /\ j = k
    <3>1. \A u \in Txn : ~Pending(u, j)'
      BY <1>1, <1>4, <2>3
    <3>. QED
      BY <1>2, <1>3, <1>6, <2>2, <2>3, <3>1 DEF StoreInv
  <2>4. CASE ~(Installs(t) /\ j = k)
    <3>1. /\ chain'[j] = chain[j] /\ dirty'[j] = dirty[j] /\ writeBit'[j] = writeBit[j]
          /\ Top(j)' = Top(j) /\ Installed(j)' = Installed(j)
      BY <1>1, <2>4
    <3>2. ASSUME NEW u \in Txn, Pending(u, j)'
          PROVE  /\ hist'[j] = <<Version(csn'[u], access'[u][j].type = "DEL")>> \o Tail(hist'[j])
                 /\ Top(j)' < csn'[u] /\ startCSN'[j] <= csn'[u]
                 /\ ~writeBit'[j]
      <4>1. Pending(u, j)
        BY <1>4, <3>2
      <4>2. startCSN'[j] <= csn[u]
        <5>1. startCSN[j] <= csn[u]
          BY <2>1, <4>1 DEF StoreInv
        <5>2. CASE startCSN'[j] = startCSN[j]
          BY <5>1, <5>2
        <5>3. CASE j = k /\ startCSN'[j] = csn[t] /\ Pending(t, k)
          <6>1. u = t
            BY <1>1, <4>1, <5>3
          <6>. QED
            BY <1>6, <5>3, <6>1
        <5>. QED
          BY <1>1, <5>2, <5>3
      <4>. QED
        BY <1>3, <2>1, <3>1, <4>1, <4>2 DEF StoreInv
    <3>3. /\ dirty'[j] <=> chain'[j] = <<>>
          /\ chain'[j] = <<>> <=> Installed(j)' = <<>>
          /\ chain'[j] # <<>> => chain'[j][1] = Installed(j)'[1]
          /\ Top(j)' < clock'
      BY <1>3, <2>1, <3>1 DEF StoreInv
    <3>. QED
      BY <2>2, <3>2, <3>3 DEF StoreInv
  <2>. QED
    BY <2>3, <2>4
<1>8. ASSUME NEW j \in Key PROVE WriteBitInv(j)'
  <2>1. CASE Installs(t) /\ j = k
    BY <1>3, <1>4, <1>5, <2>1 DEF WriteBitInv
  <2>2. CASE ~(Installs(t) /\ j = k)
    <3>1. writeBit'[j] = writeBit[j]
      BY <1>1, <2>2
    <3>. QED
      BY <1>3, <1>4, <3>1 DEF WriteBitInv, SameSession
  <2>. QED
    BY <2>1, <2>2
<1>9. ASSUME NEW u \in Txn
      PROVE  ShapeInv(u)' /\ LockInv(u)' /\ AccessInv(u)' /\ UpdateInv(u)'
  <2>1. SessionInv(u)
    OBVIOUS
  <2>2. ShapeInv(u)'
    <3>1. CASE u = t
      BY <1>3, <1>4, <2>1, <3>1 DEF SessionInv, ShapeInv, Outside, LookingUp, Committed
    <3>2. CASE u # t
      <4>1. SameSession(u) /\ Accessed(u)' = Accessed(u) /\ ShapeInv(u)
        BY <1>4, <2>1, <3>2 DEF SessionInv
      <4>. QED
        BY <1>1, <1>3, <4>1 DEF ShapeInv, SameSession
    <3>. QED
      BY <3>1, <3>2
  <2>3. LockInv(u)'
    <3>1. LockedBy(u)' = LockedBy(u)
      BY <1>1, <1>3 DEF LockedBy
    <3>2. CASE u = t
      BY <1>1, <1>3, <1>4, <2>1, <3>2 DEF SessionInv, LockInv, Valid, Committed
    <3>3. CASE u # t
      BY <1>1, <1>3, <1>4, <2>1, <3>1, <3>3 DEF SessionInv, LockInv, SameSession
    <3>. QED
      BY <3>2, <3>3
  <2>4. AccessInv(u)'
    <3>. SUFFICES ASSUME NEW j \in Key
                  PROVE  LET ac == access[u][j] IN
                         /\ ac.type = "RD" => ac = NoAccess
                         /\ ac.type \in {"WR", "DEL"} => ac.upgrade = "no"
                         /\ ac.upgrade # "no" => ~dirty'[j]
                         /\ ac.type \in {"WR", "DEL"} \/ ac.upgrade = "onOwnDelete" =>
                               /\ ac.csn # 0 /\ ~dirty'[j]
                               /\ Top(j)' = ac.csn => ~chain'[j][1].deleted
                               /\ iso[u] = "RR" => ac.csn < snap[u]
                         /\ ac.csn < clock
                         /\ \A w \in Txn : Pending(w, j)' => ac.csn < csn[w]
      BY <1>1, <1>3 DEF AccessInv
    <3>1. AccessInv(u) /\ access[u][j].csn \in Nat
      BY <2>1, FieldTypes, CsnNat DEF SessionInv, TypeInv
    <3>2. CASE Installs(t) /\ j = k
      <4>1. Pending(t, j) /\ Top(j)' = csn[t] /\ ~dirty'[j]
        BY <1>2, <1>4, <3>2
      <4>2. access[u][j].csn < csn[t]
        BY <3>1, <4>1 DEF AccessInv
      <4>3. Top(j)' # access[u][j].csn
        BY <1>6, <3>1, <4>1, <4>2
      <4>. QED
        BY <1>4, <3>1, <4>1, <4>3 DEF AccessInv
    <3>3. CASE ~(Installs(t) /\ j = k)
      <4>1. chain'[j] = chain[j] /\ dirty'[j] = dirty[j] /\ Top(j)' = Top(j)
        BY <1>1, <3>3
      <4>. QED
        BY <1>4, <3>1, <4>1 DEF AccessInv
    <3>. QED
      BY <3>2, <3>3
  <2>5. UpdateInv(u)'
    <3>1. got[u].key \in Key \cup {0} /\ snap[u] \in Nat
      BY CsnNat DEF TypeInv, SessionType, ResultSet
    <3>2. InSnapshot(u)' = InSnapshot(u)
      BY <1>3 DEF InSnapshot
    <3>3. ASSUME got[u].key # 0, startCSN[got[u].key] >= snap[u]
          PROVE  startCSN'[got[u].key] >= snap[u]
      <4>1. PICK j \in Key : j = got[u].key
        BY <3>1, <3>3
      <4>2. startCSN'[j] \in Nat /\ startCSN[j] \in Nat /\ startCSN[j] <= startCSN'[j]
        BY <1>1
      <4>. QED
        BY <3>1, <3>3, <4>1, <4>2
    <3>. QED
      BY <1>3, <1>4, <2>1, <3>2, <3>3 DEF SessionInv, UpdateInv
  <2>. QED
    BY <2>2, <2>3, <2>4, <2>5
<1>10. CommitInv(t)' /\ FetchInv(t)'
  <2>1. CommitInv(t)
    BY DEF SessionInv
  <2>2. CommitInv(t)'
    <3>1. \A j \in Key : Replaces(t, j, Tail(hist[j])) => Replaces(t, j, Tail(hist[j]))'
      BY <1>3 DEF Replaces
    <3>2. Accessed(t) \subseteq Key
      BY DEF Accessed
    <3>. QED
      BY <1>3, <1>4, <2>1, <3>1, <3>2 DEF CommitInv, Committed
  <2>3. FetchInv(t)'
    BY <1>4 DEF FetchInv, Committed
  <2>. QED
    BY <2>2, <2>3
<1>11. ASSUME NEW u \in Txn \ {t} PROVE CommitInv(u)' /\ FetchInv(u)'
  <2>1. SessionInv(u) /\ SameSession(u) /\ Accessed(u)' = Accessed(u)
    BY <1>4
  <2>2. CommitInv(u)'
    <3>1. ASSUME pc[u] = "validated" PROVE AllValid(u)'
      <4>1. AllValid(u)
        BY <2>1, <3>1 DEF SessionInv, CommitInv
      <4>2. ASSUME NEW j \in Accessed(u) PROVE QuickHeaderValidation(u, j)'
        <5>1. j \in Key /\ lock[j] = u
          BY <2>1, <3>1, <4>2 DEF SessionInv, LockInv, Accessed, Valid
        <5>2. ~(j = k /\ Pending(t, k))
          BY <1>5, <1>11, <5>1
        <5>3. chain'[j] = chain[j] /\ dirty'[j] = dirty[j] /\ Top(j)' = Top(j) /\ startCSN'[j] = startCSN[j]
          BY <1>1, <1>4, <5>1, <5>2
        <5>4. QuickHeaderValidation(u, j)
          BY <4>1, <4>2 DEF AllValid
        <5>. QED
          BY <1>3, <5>3, <5>4 DEF QuickHeaderValidation, QuickInsertCheck, QuickVersionCheck
      <4>. QED
        BY <2>1, <4>2 DEF AllValid
    <3>2. \A j \in Key : Replaces(u, j, Tail(hist[j])) => Replaces(u, j, Tail(hist[j]))'
      BY <1>3 DEF Replaces
    <3>3. Accessed(u) \subseteq Key
      BY DEF Accessed
    <3>. QED
      BY <1>3, <2>1, <3>1, <3>2, <3>3 DEF SessionInv, CommitInv, SameSession
  <2>3. FetchInv(u)'
    <3>1. CASE pc[u] \in LookingUp
      <4>1. PICK j \in Key : j = cur[u].key
        BY <2>1, <3>1 DEF SessionInv, ShapeInv
      <4>2. cur'[u].key = j
        BY <2>1, <4>1 DEF SameSession
      <4>3. ASSUME NEW w \in Txn, Pending(w, j)', pc[u] \in {"read", "fetch"}
            PROVE  Top(j)' = cur[u].top \/ csn[w] >= snap[u]
        <5>1. Pending(w, j) /\ ~(Installs(t) /\ j = k)
          BY <1>1, <1>4, <4>3
        <5>2. Top(j)' = Top(j)
          BY <1>1, <5>1
        <5>. QED
          BY <2>1, <4>1, <4>3, <5>1, <5>2 DEF SessionInv, FetchInv
      <4>4. dirty'[j] => dirty[j]
        BY <1>1, <1>2
      <4>5. FetchInv(u)' <=> /\ pc'[u] \in {"topRow", "fetch"} => ~dirty'[j]
                             /\ pc'[u] \in {"read", "fetch"} =>
                                   \A w \in Txn : Pending(w, j)' =>
                                       Top(j)' = cur'[u].top \/ csn'[w] >= snap'[u]
        BY <4>2 DEF FetchInv
      <4>. QED
        BY <1>3, <2>1, <4>1, <4>3, <4>4, <4>5 DEF SessionInv, FetchInv, SameSession
    <3>2. CASE pc[u] \notin LookingUp
      BY <2>1, <3>2 DEF FetchInv, LookingUp, SameSession
    <3>. QED
      BY <3>1, <3>2
  <2>. QED
    BY <2>2, <2>3
<1>. QED
  BY <1>1, <1>7, <1>8, <1>9, <1>10, <1>11 DEF SessionInv

-----------------------------------------------------------------------------
(* The first part of the invariant, and what follows from it.              *)

LEMMA InitOcc == Init => OccInv
<1>. SUFFICES ASSUME Init PROVE OccInv
  OBVIOUS
<1>1. PICK s \in Stores :
         /\ clock = s.clock
         /\ chain = [k \in DOMAIN s.rows |->
                       CASE s.rows[k] = "absent" -> <<>>
                         [] s.rows[k] = "present" -> <<Version(1, FALSE)>>
                         [] s.rows[k] = "deleted" -> <<Version(2, TRUE), Version(1, FALSE)>>]
  BY DEF Init
<1>2. s.rows \in Seq(RowState) /\ s.clock \in 3 .. MaxCsn
  BY StoresAssumption
<1>3. Key = DOMAIN s.rows /\ DOMAIN s.rows = 1 .. Len(s.rows) /\ Len(s.rows) \in Nat
  BY <1>1, <1>2 DEF Key
<1>4. Key \subseteq Nat \ {0}
  BY <1>3
<1>5. clock \in Nat /\ clock >= 3 /\ clock \in Csn /\ 0 \in Csn /\ 1 \in Csn /\ 2 \in Csn
  BY <1>1, <1>2, MaxCsnAssumption DEF Csn
<1>6. ASSUME NEW k \in Key
      PROVE  chain[k] \in {<<>>, <<Version(1, FALSE)>>, <<Version(2, TRUE), Version(1, FALSE)>>}
  <2>1. s.rows[k] \in RowState
    BY <1>2, <1>3
  <2>. QED
    BY <1>1, <1>3, <2>1 DEF RowState
<1>7. Version(1, FALSE) \in VersionSet /\ Version(2, TRUE) \in VersionSet
  BY <1>5 DEF Version, VersionSet
<1>8. chain \in [Key -> Versions]
  <2>. DEFINE v == Version(1, FALSE)
              w == Version(2, TRUE)
  <2>1. v \in VersionSet /\ w \in VersionSet
    BY <1>7
  <2>2. \A k \in Key : chain[k] \in {<<>>, <<v>>, <<w, v>>}
    BY <1>6
  <2>. HIDE DEF v, w
  <2>3. <<>> \in Seq(VersionSet) /\ <<v>> \in Seq(VersionSet) /\ <<w, v>> \in Seq(VersionSet)
    BY <2>1
  <2>4. \A k \in Key : chain[k] \in Seq(VersionSet)
    BY <2>2, <2>3
  <2>. QED
    BY <1>1, <1>3, <2>4 DEF Versions, VersionSet
<1>9. /\ startCSN = [k \in Key |-> IF chain[k] = <<>> THEN 0 ELSE 1]
      /\ dirty = [k \in Key |-> chain[k] = <<>>] /\ hist = chain
      /\ lock = [k \in Key |-> NoTxn] /\ writeBit = [k \in Key |-> FALSE]
      /\ pc = [t \in Txn |-> "idle"] /\ iso = [t \in Txn |-> "RC"] /\ snap = [t \in Txn |-> 0]
      /\ access = [t \in Txn |-> [k \in Key |-> NoAccess]] /\ cur = [t \in Txn |-> NoLookup]
      /\ got = [t \in Txn |-> NoResult] /\ csn = [t \in Txn |-> 0]
      /\ gcEpoch = [t \in Txn |-> 0] /\ limbo = [t \in Txn |-> <<>>] /\ bound = [t \in Txn |-> 0]
      /\ scan = NoScan /\ activeEpoch = 0 /\ late = [t \in Txn |-> FALSE]
  BY DEF Init
<1>10. TypeInv
  <2>1. StoreType
    BY <1>5, <1>8, <1>9 DEF StoreType
  <2>2. SessionType
    BY <1>5, <1>9, RecordTypes DEF SessionType, Label
  <2>3. BaseInv
    <3>1. <<>> \in Seq(Batch)
      OBVIOUS
    <3>. QED
      BY <1>4, <1>5, <1>9, <3>1 DEF BaseInv
  <2>. QED
    BY <2>1, <2>2, <2>3 DEF TypeInv
<1>11. \A t \in Txn : Accessed(t) = {} /\ \A k \in Key : ~Pending(t, k)
  BY <1>9 DEF Accessed, Pending
<1>12. ASSUME NEW k \in Key PROVE StoreInv(k) /\ WriteBitInv(k)
  <2>1. Installed(k) = chain[k]
    BY <1>9, <1>11 DEF Installed
  <2>2. Top(k) < clock
    <3>1. chain[k] # <<>> => chain[k][1].csn \in {1, 2}
      BY <1>6 DEF Version
    <3>. QED
      BY <1>5, <3>1 DEF Top
  <2>3. startCSN[k] < clock
    BY <1>5, <1>9
  <2>. QED
    BY <1>9, <1>11, <2>1, <2>2, <2>3 DEF StoreInv, WriteBitInv
<1>13. ASSUME NEW t \in Txn PROVE SessionInv(t)
  <2>0. /\ NoAccess.type = "RD" /\ NoAccess.csn = 0 /\ NoAccess.upgrade = "no"
        /\ pc[t] = "idle" /\ iso[t] = "RC" /\ snap[t] = 0 /\ got[t] = NoResult /\ csn[t] = 0
        /\ gcEpoch[t] = 0 /\ Accessed(t) = {} /\ \A k \in Key : access[t][k] = NoAccess
    BY <1>9, <1>11 DEF NoAccess
  <2>1. ShapeInv(t)
    BY <1>5, <2>0 DEF ShapeInv, Outside, LookingUp, Committed
  <2>2. LockInv(t)
    BY <1>9, <2>0, NoTxnAssumption DEF LockInv, Valid
  <2>3. AccessInv(t)
    BY <1>5, <1>11, <2>0 DEF AccessInv
  <2>4. CommitInv(t) /\ FetchInv(t) /\ UpdateInv(t)
    BY <2>0 DEF CommitInv, FetchInv, UpdateInv, Committed
  <2>. QED
    BY <2>1, <2>2, <2>3, <2>4 DEF SessionInv
<1>. QED
  BY <1>10, <1>12, <1>13 DEF OccInv

\* The steps by what they do to the store.
LEMMA NextSteps ==
    ASSUME Next
    PROVE  \E t \in Txn :
              \/ QuietStep(t) \/ TryLock(t) \/ SetCommitCsn(t) \/ WriteStep(t) \/ RowVersionDtor(t)
              \/ \E thresholdReached \in BOOLEAN : EndTransaction(t, thresholdReached)
<1>1. PICK t \in Txn : Statement(t) \/ Lookup(t) \/ ValidateCommit(t) \/ Commit(t) \/ Collect(t)
  BY DEF Next
<1>2. CASE Statement(t)
  BY <1>2 DEF Statement, QuietStep
<1>3. CASE Lookup(t)
  BY <1>3 DEF Lookup, QuietStep
<1>4. CASE ValidateCommit(t)
  BY <1>4 DEF QuietStep
<1>5. CASE Commit(t)
  BY <1>5 DEF Commit, QuietStep, WriteStep
<1>6. CASE Collect(t)
  BY <1>6 DEF Collect, QuietStep
<1>. QED
  BY <1>1, <1>2, <1>3, <1>4, <1>5, <1>6

LEMMA OccStutter ==
    ASSUME OccInv, UNCHANGED vars
    PROVE  OccInv'
<1>1. /\ UNCHANGED <<clock, chain, startCSN, dirty, lock, writeBit, pc, iso, snap, access, cur, got, csn>>
      /\ UNCHANGED <<gcEpoch, limbo, bound, scan, activeEpoch, hist, late>>
  BY DEF vars, storeVars, txnVars, gcVars
<1>2. Key' = Key
  BY <1>1 DEF Key
<1>3. TypeInv'
  <2>1. AccessSet' = AccessSet /\ LookupSet' = LookupSet /\ ResultSet' = ResultSet /\ Batch' = Batch
    BY <1>2 DEF AccessSet, LookupSet, ResultSet, Batch
  <2>. QED
    BY <1>1, <1>2, <2>1 DEF OccInv, TypeInv, StoreType, SessionType, BaseInv
<1>4. \A u \in Txn : SameSession(u) /\ Accessed(u)' = Accessed(u) /\ LockedBy(u)' = LockedBy(u)
  BY <1>1, <1>2 DEF SameSession, Accessed, LockedBy
<1>5. Calm
  BY <1>1, <1>4 DEF Calm, Pending, SameHead
<1>6. \A k \in Key : StoreInv(k)' /\ WriteBitInv(k)'
  <2>1. \A k \in Key : StoreInv(k)'
    BY <1>2, <1>5, CalmStore
  <2>. QED
    BY <1>1, <2>1 DEF WriteBitInv, OccInv
<1>7. ASSUME NEW u \in Txn PROVE SessionInv(u)'
  <2>1. LockInv(u)'
    BY <1>1, <1>2, <1>4 DEF OccInv, SessionInv, LockInv
  <2>. QED
    BY <1>2, <1>4, <1>5, <2>1, CalmOthers DEF SessionInv
<1>. QED
  BY <1>2, <1>3, <1>6, <1>7 DEF OccInv

LEMMA OccStep == OccInv /\ [Next]_vars => OccInv'
<1>. SUFFICES ASSUME OccInv, [Next]_vars PROVE OccInv'
  OBVIOUS
<1>1. CASE UNCHANGED vars
  BY <1>1, OccStutter
<1>2. CASE Next
  <2>1. PICK t \in Txn :
           \/ QuietStep(t) \/ TryLock(t) \/ SetCommitCsn(t) \/ WriteStep(t) \/ RowVersionDtor(t)
           \/ \E thresholdReached \in BOOLEAN : EndTransaction(t, thresholdReached)
    BY <1>2, NextSteps
  <2>. QED
    BY <2>1, QuietOcc, TryLockOcc, SetCommitCsnOcc, WriteOcc, RowVersionDtorOcc, EndTransactionOcc
<1>. QED
  BY <1>1, <1>2

LEMMA OccInvariant == Spec => []OccInv
  BY InitOcc, OccStep, PTL DEF Spec

\* Sessions, sentinels, access sets, version chains and the collector's queues
\* always have their types, however many sessions and keys there are.
THEOREM TypeCorrect == Spec => []TypeOK
<1>1. OccInv => TypeOK
  BY TypeInvOK DEF OccInv
<1>. QED
  BY <1>1, OccInvariant, PTL

\* ValidateCommit, LockHeaders and ValidateWriteSet see to it that what a commit
\* replaces is the version that its write was computed from; the first committer
\* wins.
THEOREM LostUpdateFree == Spec => []NoLostUpdate
<1>1. ASSUME OccInv PROVE NoLostUpdate
  <2>. SUFFICES ASSUME NEW t \in Txn, pc[t] \in Valid, NEW k \in Accessed(t)
                PROVE  LET ac == access[t][k]
                           before == IF csn[t] = 0 THEN hist[k] ELSE Tail(hist[k])
                       IN  /\ csn[t] # 0 => hist[k][1].csn = csn[t]
                           /\ Replaces(t, k, before)
    BY DEF NoLostUpdate, Valid, Replaces
  <2>1. ShapeInv(t) /\ CommitInv(t) /\ TypeInv /\ k \in Key
    BY <1>1 DEF OccInv, SessionInv, Accessed
  <2>2. CASE pc[t] = "validated"
    <3>1. csn[t] = 0
      BY <2>1, <2>2 DEF ShapeInv, Committed
    <3>2. Replaces(t, k, hist[k])
      BY <1>1, <2>2, ValidReplaces
    <3>. QED
      BY <3>1, <3>2
  <2>3. CASE pc[t] \in Committed
    <3>1. csn[t] # 0
      BY <2>1, <2>3 DEF ShapeInv
    <3>. DEFINE v == Version(csn[t], access[t][k].type = "DEL")
    <3>2. hist[k] = <<v>> \o Tail(hist[k]) /\ Replaces(t, k, Tail(hist[k]))
      BY <2>1, <2>3 DEF CommitInv
    <3>3. v \in VersionSet /\ v.csn = csn[t] /\ hist[k] \in Versions
      BY <2>1 DEF Version, VersionSet, TypeInv, StoreType, SessionType
    <3>. HIDE DEF v
    <3>4. hist[k] # <<>>
      BY <3>2
    <3>5. Tail(hist[k]) \in Versions
      BY <3>3, <3>4 DEF Versions
    <3>6. hist[k][1] = v
      BY <3>2, <3>3, <3>5, Prepend
    <3>. QED
      BY <3>1, <3>2, <3>3, <3>6
  <2>. QED
    BY <2>2, <2>3 DEF Valid, Committed
<1>. QED
  BY <1>1, OccInvariant, PTL

\* What GetVisibleRowForUpdate gives a transaction under repeatable read is the
\* row of its snapshot, and it does not overlook one.
THEOREM UpdateFromSnapshot == Spec => []UpdateIsSnapshot
<1>1. OccInv => UpdateIsSnapshot
  BY DEF OccInv, SessionInv, UpdateInv, UpdateIsSnapshot
<1>. QED
  BY <1>1, OccInvariant, PTL
=============================================================================
