------------------------- MODULE ParallelRedoProofs -------------------------
(***************************************************************************)
(* Proofs about ParallelRedo, for any number of page workers, any length   *)
(* of queues and any log: the lists of the workers and the counts of       *)
(* shared items, and from them type correctness.                           *)
(*                                                                         *)
(* The lists that a record passes through on its way to a page worker are  *)
(* in the order of the log, so that all of a worker's progress is in the   *)
(* item it fetched last: what is still to come are the later records that  *)
(* are meant for it.                                                       *)
(***************************************************************************)
EXTENDS ParallelRedo, FiniteSetTheorems, SequenceTheorems, WellFoundedInduction, TLAPS

-----------------------------------------------------------------------------
(* Sequences of numbers and the least of a set.                            *)

LEMMA Least ==
    ASSUME NEW S \in SUBSET Nat, S # {}
    PROVE  Min(S) \in S /\ \A y \in S : Min(S) <= y
<1>1. PICK x \in S : \A y \in S : ~(<<y, x>> \in OpToRel(<, Nat))
  BY WFMin, NatLessThanWellFounded
<1>2. ASSUME NEW y \in S, y < x PROVE FALSE
  <2>1. <<y, x>> \in Nat \X Nat /\ <<y, x>>[1] < <<y, x>>[2]
    BY <1>2
  <2>2. <<y, x>> \in OpToRel(<, Nat)
    BY <2>1, Zenon DEF OpToRel
  <2>. QED
    BY <1>1, <2>2
<1>3. \A y \in S : x <= y
  BY <1>2
<1>. QED
  BY <1>3 DEF Min

Increasing(s) == \A i, j \in DOMAIN s : i < j => s[i] < s[j]

\* All of S comes before all of T.
Before(S, T) == \A x \in S, y \in T : x < y

LEMMA ElementsNat ==
    ASSUME NEW T, NEW s \in Seq(T)
    PROVE  Elements(s) \in SUBSET T /\ (s = <<>> <=> Elements(s) = {})
<1>1. DOMAIN s = 1 .. Len(s) /\ Len(s) \in Nat /\ \A i \in DOMAIN s : s[i] \in T
  OBVIOUS
<1>2. s = <<>> => DOMAIN s = {}
  BY <1>1
<1>3. s # <<>> => 1 \in DOMAIN s
  BY <1>1, EmptySeq
<1>. QED
  BY <1>1, <1>2, <1>3 DEF Elements

LEMMA NoElements == Elements(<<>>) = {}
  BY DEF Elements

LEMMA ElementsAppend ==
    ASSUME NEW T, NEW s \in Seq(T), NEW n \in T
    PROVE  /\ Append(s, n) \in Seq(T) /\ Append(s, n) # <<>>
           /\ Elements(Append(s, n)) = Elements(s) \union {n}
<1>1. /\ Append(s, n) \in Seq(T) /\ Len(Append(s, n)) = Len(s) + 1
      /\ \A i \in 1 .. Len(s) : Append(s, n)[i] = s[i]
      /\ Append(s, n)[Len(s) + 1] = n
  BY AppendProperties
<1>2. DOMAIN s = 1 .. Len(s) /\ DOMAIN Append(s, n) = 1 .. (Len(s) + 1) /\ Len(s) \in Nat
  BY <1>1
<1>3. ASSUME NEW x PROVE x \in Elements(Append(s, n)) <=> x \in Elements(s) \union {n}
  BY <1>1, <1>2 DEF Elements
<1>. QED
  BY <1>1, <1>3

LEMMA IncreasingAppend ==
    ASSUME NEW s \in Seq(Nat), NEW n \in Nat, Increasing(s), Before(Elements(s), {n})
    PROVE  Increasing(Append(s, n))
<1>1. /\ Append(s, n) \in Seq(Nat) /\ Len(Append(s, n)) = Len(s) + 1
      /\ \A i \in 1 .. Len(s) : Append(s, n)[i] = s[i]
      /\ Append(s, n)[Len(s) + 1] = n
  BY AppendProperties
<1>2. DOMAIN s = 1 .. Len(s) /\ DOMAIN Append(s, n) = 1 .. (Len(s) + 1) /\ Len(s) \in Nat
  BY <1>1
<1>3. \A i \in DOMAIN s : s[i] < n
  BY DEF Before, Elements
<1>4. SUFFICES ASSUME NEW i \in 1 .. (Len(s) + 1), NEW j \in 1 .. (Len(s) + 1), i < j
               PROVE  Append(s, n)[i] < Append(s, n)[j]
  BY <1>2 DEF Increasing
<1>5. i \in 1 .. Len(s)
  BY <1>2, <1>4
<1>6. CASE j = Len(s) + 1
  BY <1>1, <1>2, <1>3, <1>5, <1>6
<1>7. CASE j \in 1 .. Len(s)
  BY <1>1, <1>2, <1>4, <1>5, <1>7 DEF Increasing
<1>. QED
  BY <1>2, <1>6, <1>7

\* The head of an increasing sequence is less than the rest of it.
LEMMA HeadTail ==
    ASSUME NEW s \in Seq(Nat), s # <<>>, Increasing(s)
    PROVE  /\ Increasing(Tail(s))
           /\ Before({Head(s)}, Elements(Tail(s)))
<1>1. /\ Tail(s) \in Seq(Nat) /\ Len(Tail(s)) = Len(s) - 1
      /\ \A i \in 1 .. Len(Tail(s)) : Tail(s)[i] = s[i + 1]
  BY HeadTailProperties
<1>2. /\ DOMAIN s = 1 .. Len(s) /\ DOMAIN Tail(s) = 1 .. (Len(s) - 1) /\ Len(s) \in Nat \ {0}
      /\ Head(s) = s[1]
  BY <1>1, EmptySeq
<1>3. Increasing(Tail(s))
  BY <1>1, <1>2 DEF Increasing
<1>4. Before({Head(s)}, Elements(Tail(s)))
  BY <1>1, <1>2 DEF Increasing, Before, Elements
<1>. QED
  BY <1>3, <1>4

LEMMA ElementsTail ==
    ASSUME NEW T, NEW s \in Seq(T), s # <<>>
    PROVE  /\ Tail(s) \in Seq(T) /\ Head(s) \in T
           /\ Elements(s) = {Head(s)} \union Elements(Tail(s))
<1>1. /\ Tail(s) \in Seq(T) /\ Len(Tail(s)) = Len(s) - 1
      /\ \A i \in 1 .. Len(Tail(s)) : Tail(s)[i] = s[i + 1]
  BY HeadTailProperties
<1>2. /\ DOMAIN s = 1 .. Len(s) /\ DOMAIN Tail(s) = 1 .. (Len(s) - 1) /\ Len(s) \in Nat \ {0}
      /\ Head(s) = s[1]
  BY <1>1, EmptySeq
<1>3. ASSUME NEW i \in DOMAIN s PROVE s[i] = Head(s) \/ s[i] \in Elements(Tail(s))
  <2>1. CASE i # 1
    <3>1. i - 1 \in DOMAIN Tail(s) /\ Tail(s)[i - 1] = s[(i - 1) + 1] /\ (i - 1) + 1 = i
      BY <1>1, <1>2, <2>1
    <3>. QED
      BY <3>1 DEF Elements
  <2>. QED
    BY <1>2, <2>1
<1>4. ASSUME NEW i \in DOMAIN Tail(s) PROVE Tail(s)[i] \in Elements(s)
  BY <1>1, <1>2 DEF Elements
<1>5. Head(s) \in Elements(s)
  BY <1>2 DEF Elements
<1>6. Elements(s) \subseteq {Head(s)} \union Elements(Tail(s))
  BY <1>3 DEF Elements
<1>7. Elements(Tail(s)) \subseteq Elements(s)
  BY <1>4 DEF Elements
<1>. QED
  BY <1>1, <1>2, <1>5, <1>6, <1>7

LEMMA ElementsConcat ==
    ASSUME NEW T, NEW s \in Seq(T), NEW t \in Seq(T)
    PROVE  s \o t \in Seq(T) /\ Elements(s \o t) = Elements(s) \union Elements(t)
<1>1. /\ s \o t \in Seq(T) /\ Len(s \o t) = Len(s) + Len(t)
      /\ \A i \in 1 .. Len(s) + Len(t) :
            (s \o t)[i] = IF i <= Len(s) THEN s[i] ELSE t[i - Len(s)]
  BY ConcatProperties
<1>2. /\ DOMAIN s = 1 .. Len(s) /\ DOMAIN t = 1 .. Len(t) /\ Len(s) \in Nat /\ Len(t) \in Nat
      /\ DOMAIN (s \o t) = 1 .. Len(s) + Len(t)
  BY <1>1
<1>3. ASSUME NEW i \in DOMAIN (s \o t) PROVE (s \o t)[i] \in Elements(s) \union Elements(t)
  BY <1>1, <1>2 DEF Elements
<1>4. ASSUME NEW i \in DOMAIN s PROVE s[i] \in Elements(s \o t)
  <2>1. i \in DOMAIN (s \o t) /\ (s \o t)[i] = s[i]
    BY <1>1, <1>2
  <2>. QED
    BY <2>1 DEF Elements
<1>5. ASSUME NEW i \in DOMAIN t PROVE t[i] \in Elements(s \o t)
  <2>1. i + Len(s) \in DOMAIN (s \o t) /\ (s \o t)[i + Len(s)] = t[(i + Len(s)) - Len(s)]
        /\ (i + Len(s)) - Len(s) = i
    BY <1>1, <1>2
  <2>. QED
    BY <2>1 DEF Elements
<1>6. Elements(s \o t) \subseteq Elements(s) \union Elements(t)
  BY <1>3 DEF Elements
<1>7. Elements(s) \subseteq Elements(s \o t) /\ Elements(t) \subseteq Elements(s \o t)
  BY <1>4, <1>5 DEF Elements
<1>. QED
  BY <1>1, <1>6, <1>7

LEMMA IncreasingConcat ==
    ASSUME NEW s \in Seq(Nat), NEW t \in Seq(Nat), Increasing(s), Increasing(t),
           Before(Elements(s), Elements(t))
    PROVE  Increasing(s \o t)
<1>1. /\ s \o t \in Seq(Nat) /\ Len(s \o t) = Len(s) + Len(t)
      /\ \A i \in 1 .. Len(s) + Len(t) :
            (s \o t)[i] = IF i <= Len(s) THEN s[i] ELSE t[i - Len(s)]
  BY ConcatProperties
<1>2. /\ DOMAIN s = 1 .. Len(s) /\ DOMAIN t = 1 .. Len(t) /\ Len(s) \in Nat /\ Len(t) \in Nat
      /\ DOMAIN (s \o t) = 1 .. Len(s) + Len(t)
  BY <1>1
<1>3. \A i \in DOMAIN s, j \in DOMAIN t : s[i] < t[j]
  BY DEF Before, Elements
<1>4. SUFFICES ASSUME NEW i \in 1 .. Len(s) + Len(t), NEW j \in 1 .. Len(s) + Len(t), i < j
               PROVE  (s \o t)[i] < (s \o t)[j]
  BY <1>2 DEF Increasing
<1>5. CASE j <= Len(s)
  <2>1. i \in DOMAIN s /\ j \in DOMAIN s /\ (s \o t)[i] = s[i] /\ (s \o t)[j] = s[j]
    BY <1>1, <1>2, <1>4, <1>5
  <2>. QED
    BY <2>1, <1>4 DEF Increasing
<1>6. CASE i <= Len(s) /\ Len(s) < j
  <2>1. i \in DOMAIN s /\ j - Len(s) \in DOMAIN t /\ (s \o t)[i] = s[i]
        /\ (s \o t)[j] = t[j - Len(s)]
    BY <1>1, <1>2, <1>4, <1>6
  <2>. QED
    BY <2>1, <1>3
<1>7. CASE Len(s) < i
  <2>1. /\ i - Len(s) \in DOMAIN t /\ j - Len(s) \in DOMAIN t /\ i - Len(s) < j - Len(s)
        /\ (s \o t)[i] = t[i - Len(s)] /\ (s \o t)[j] = t[j - Len(s)]
    BY <1>1, <1>2, <1>4, <1>7
  <2>. QED
    BY <2>1 DEF Increasing
<1>. QED
  BY <1>2, <1>4, <1>5, <1>6, <1>7

-----------------------------------------------------------------------------
(* The lists of a page worker: q is its queue, of which the lists from k    *)
(* on are not begun, r what is left of the list it works on, p what is     *)
(* pending for it.                                                         *)

Held(q, k) == UNION {Elements(q[i]) : i \in k .. Len(q)}

Upcoming(q, k, r, p) == Elements(r) \union Held(q, k) \union Elements(p)

Sorted(q, k, r, p) ==
    /\ Increasing(r) /\ Increasing(p)
    /\ \A i \in k .. Len(q) :
          /\ Increasing(q[i])
          /\ Before(Elements(q[i]), Elements(p))
          /\ \A j \in k .. Len(q) : i < j => Before(Elements(q[i]), Elements(q[j]))
    /\ Before(Elements(r), Held(q, k) \union Elements(p))
    /\ k = 1 => r = <<>>
    /\ k = 2 => q # <<>>

ListTypes(q, k, r, p) ==
    q \in Seq(Seq(Lsn)) /\ k \in {1, 2} /\ r \in Seq(Lsn) /\ p \in Seq(Lsn)

LEMMA LsnNat == MaxLsn \in Nat /\ Lsn \in SUBSET Nat /\ \A n \in Lsn : 1 <= n /\ n <= MaxLsn
  BY RedoAssumption DEF Lsn

LEMMA LsnSeq == ASSUME NEW s \in Seq(Lsn) PROVE s \in Seq(Nat)
  BY LsnNat, SeqMonotonic

LEMMA QueueFacts ==
    ASSUME NEW q \in Seq(Seq(Lsn))
    PROVE  /\ Len(q) \in Nat /\ DOMAIN q = 1 .. Len(q) /\ (q = <<>> <=> Len(q) = 0)
           /\ \A i \in 1 .. Len(q) : q[i] \in Seq(Lsn)
<1>1. q # <<>> => Len(q) # 0
  BY EmptySeq
<1>. QED
  BY <1>1

LEMMA UpcomingType ==
    ASSUME NEW q, NEW k, NEW r, NEW p, ListTypes(q, k, r, p)
    PROVE  Upcoming(q, k, r, p) \in SUBSET Lsn
<1>1. \A i \in k .. Len(q) : q[i] \in Seq(Lsn)
  BY QueueFacts DEF ListTypes
<1>2. \A i \in k .. Len(q) : Elements(q[i]) \in SUBSET Lsn
  BY <1>1, ElementsNat
<1>3. Elements(r) \in SUBSET Lsn /\ Elements(p) \in SUBSET Lsn
  BY ElementsNat DEF ListTypes
<1>. QED
  BY <1>2, <1>3 DEF Upcoming, Held

\* A record that comes after all of them is added to what is pending.
LEMMA AddSorted ==
    ASSUME NEW q, NEW k, NEW r, NEW p, ListTypes(q, k, r, p), Sorted(q, k, r, p),
           NEW n \in Lsn, Before(Upcoming(q, k, r, p), {n})
    PROVE  /\ Sorted(q, k, r, Append(p, n))
           /\ Upcoming(q, k, r, Append(p, n)) = Upcoming(q, k, r, p) \union {n}
<1>1. Elements(Append(p, n)) = Elements(p) \union {n}
  BY ElementsAppend DEF ListTypes
<1>2. Increasing(Append(p, n))
  BY IncreasingAppend, LsnSeq, LsnNat DEF ListTypes, Sorted, Upcoming, Before
<1>3. \A i \in k .. Len(q) : Before(Elements(q[i]), Elements(Append(p, n)))
  BY <1>1 DEF Sorted, Upcoming, Held, Before
<1>4. Before(Elements(r), Held(q, k) \union Elements(Append(p, n)))
  BY <1>1 DEF Sorted, Upcoming, Before
<1>5. Sorted(q, k, r, Append(p, n))
  BY <1>2, <1>3, <1>4 DEF Sorted
<1>. QED
  BY <1>1, <1>5 DEF Upcoming

\* u is q with s at its end.
IsAppend(u, q, s) ==
    /\ u \in Seq(Seq(Lsn)) /\ u # <<>> /\ Len(u) = Len(q) + 1
    /\ \A i \in 1 .. Len(q) : u[i] = q[i]
    /\ u[Len(q) + 1] = s

\* s is a first part of p and t the rest.
Splits(p, s, t) ==
    /\ Elements(s) \union Elements(t) = Elements(p)
    /\ Before(Elements(s), Elements(t))
    /\ Increasing(s) /\ Increasing(t)

LEMMA AppendIs ==
    ASSUME NEW q \in Seq(Seq(Lsn)), NEW s \in Seq(Lsn)
    PROVE  IsAppend(Append(q, s), q, s)
  BY AppendProperties DEF IsAppend

\* The first part s of what is pending is put at the end of the queue.
LEMMA PutSorted ==
    ASSUME NEW q, NEW k, NEW r, NEW p, ListTypes(q, k, r, p), Sorted(q, k, r, p),
           NEW s, NEW t, Splits(p, s, t), NEW u, IsAppend(u, q, s)
    PROVE  /\ Sorted(u, k, r, t)
           /\ Upcoming(u, k, r, t) = Upcoming(q, k, r, p)
<1>0. q \in Seq(Seq(Lsn)) /\ k \in {1, 2} /\ Len(q) \in Nat /\ (q # <<>> => Len(q) # 0)
  BY QueueFacts DEF ListTypes
<1>1. /\ u \in Seq(Seq(Lsn)) /\ Len(u) = Len(q) + 1 /\ u # <<>>
      /\ \A i \in 1 .. Len(q) : u[i] = q[i]
      /\ u[Len(q) + 1] = s
  BY DEF IsAppend
<1>5. Elements(s) \union Elements(t) = Elements(p) /\ Before(Elements(s), Elements(t))
      /\ Increasing(s) /\ Increasing(t)
  BY DEF Splits
<1>a. k <= Len(q) + 1
  BY <1>0 DEF Sorted
<1>2. /\ \A i \in k .. Len(u) : (i \in k .. Len(q) /\ i \in 1 .. Len(q)) \/ i = Len(q) + 1
      /\ k .. Len(q) \subseteq k .. Len(u) /\ Len(q) + 1 \in k .. Len(u)
      /\ \A i \in k .. Len(q) : i < Len(q) + 1
      /\ k .. Len(q) \subseteq 1 .. Len(q)
  BY <1>0, <1>1, <1>a
<1>4. Held(u, k) = Held(q, k) \union Elements(s)
  <2>1. ASSUME NEW x, x \in Held(u, k) PROVE x \in Held(q, k) \union Elements(s)
    <3>1. PICK i \in k .. Len(u) : x \in Elements(u[i])
      BY <2>1 DEF Held
    <3>. QED
      BY <1>1, <1>2, <3>1 DEF Held
  <2>2. ASSUME NEW x, x \in Held(q, k) PROVE x \in Held(u, k)
    <3>1. PICK i \in k .. Len(q) : x \in Elements(q[i])
      BY <2>2 DEF Held
    <3>. QED
      BY <1>1, <1>2, <3>1 DEF Held
  <2>3. Elements(s) \subseteq Held(u, k)
    BY <1>1, <1>2 DEF Held
  <2>. QED
    BY <2>1, <2>2, <2>3
<1>6. \A i \in k .. Len(q) : Before(Elements(q[i]), Elements(s)) /\ Before(Elements(q[i]), Elements(t))
  BY <1>5 DEF Sorted, Before
<1>7. ASSUME NEW i \in k .. Len(u)
      PROVE  /\ Increasing(u[i])
             /\ Before(Elements(u[i]), Elements(t))
             /\ \A j \in k .. Len(u) : i < j => Before(Elements(u[i]), Elements(u[j]))
  <2>1. CASE i \in k .. Len(q)
    <3>1. u[i] = q[i] /\ Increasing(u[i]) /\ Before(Elements(u[i]), Elements(t))
      BY <1>1, <1>2, <1>6, <2>1 DEF Sorted
    <3>2. ASSUME NEW j \in k .. Len(u), i < j PROVE Before(Elements(u[i]), Elements(u[j]))
      <4>1. CASE j \in k .. Len(q)
        BY <1>1, <1>2, <2>1, <3>2, <4>1 DEF Sorted
      <4>2. CASE j = Len(q) + 1
        BY <1>1, <1>6, <2>1, <3>1, <4>2
      <4>. QED
        BY <1>2, <4>1, <4>2
    <3>. QED
      BY <3>1, <3>2
  <2>2. CASE i = Len(q) + 1
    <3>1. \A j \in k .. Len(u) : ~(i < j)
      BY <1>1, <1>2, <2>2
    <3>. QED
      BY <1>1, <1>5, <2>2, <3>1
  <2>. QED
    BY <1>2, <2>1, <2>2
<1>8. Before(Elements(r), Held(u, k) \union Elements(t))
  BY <1>4, <1>5 DEF Sorted, Before
<1>9. Sorted(u, k, r, t)
  BY <1>1, <1>5, <1>7, <1>8 DEF Sorted
<1>. QED
  BY <1>4, <1>5, <1>9 DEF Upcoming

\* All of it is put, or the end mark.
LEMMA PutPendingSorted ==
    ASSUME NEW q, NEW k, NEW r, NEW p, ListTypes(q, k, r, p), Sorted(q, k, r, p)
    PROVE  /\ Sorted(Append(q, p), k, r, <<>>)
           /\ Upcoming(Append(q, p), k, r, <<>>) = Upcoming(q, k, r, p)
           /\ Sorted(Append(q, <<>>), k, r, p)
           /\ Upcoming(Append(q, <<>>), k, r, p) = Upcoming(q, k, r, p)
<1>. DEFINE e == <<>>
            u == Append(q, p)
            v == Append(q, <<>>)
<1>1. q \in Seq(Seq(Lsn)) /\ p \in Seq(Lsn) /\ <<>> \in Seq(Lsn)
  BY DEF ListTypes
<1>2. IsAppend(u, q, p) /\ IsAppend(v, q, e)
  BY <1>1, AppendIs
<1>3. Elements(e) = {} /\ Increasing(e) /\ Increasing(p)
  BY NoElements DEF Increasing, Sorted
<1>. HIDE DEF e, u, v
<1>4. Splits(p, p, e) /\ Splits(p, e, p)
  BY <1>3 DEF Splits, Before
<1>5. Sorted(u, k, r, e) /\ Upcoming(u, k, r, e) = Upcoming(q, k, r, p)
  BY <1>2, <1>4, PutSorted
<1>6. Sorted(v, k, r, p) /\ Upcoming(v, k, r, p) = Upcoming(q, k, r, p)
  BY <1>2, <1>4, PutSorted
<1>. QED
  BY <1>5, <1>6 DEF e, u, v

\* A worker begins the first list of its queue.
LEMMA BeginSorted ==
    ASSUME NEW q, NEW r, NEW p, ListTypes(q, 1, r, p), Sorted(q, 1, r, p), q # <<>>
    PROVE  /\ ListTypes(q, 2, Head(q), p)
           /\ Sorted(q, 2, Head(q), p)
           /\ Upcoming(q, 2, Head(q), p) = Upcoming(q, 1, r, p)
<1>0. /\ q \in Seq(Seq(Lsn)) /\ Len(q) \in Nat /\ Len(q) # 0 /\ r = <<>> /\ Elements(r) = {}
      /\ \A i \in 1 .. Len(q) : q[i] \in Seq(Lsn)
  BY QueueFacts, ElementsNat DEF ListTypes, Sorted
<1>1. /\ Head(q) = q[1] /\ q[1] \in Seq(Lsn)
      /\ 1 .. Len(q) = {1} \union 2 .. Len(q)
      /\ \A i \in 2 .. Len(q) : 1 < i /\ i \in 1 .. Len(q)
      /\ 1 \in 1 .. Len(q)
  BY <1>0
<1>2. Held(q, 1) = Elements(Head(q)) \union Held(q, 2)
  BY <1>1 DEF Held
<1>3. Before(Elements(Head(q)), Held(q, 2) \union Elements(p))
  <2>1. \A i \in 2 .. Len(q) : Before(Elements(Head(q)), Elements(q[i]))
    BY <1>1 DEF Sorted
  <2>2. Before(Elements(Head(q)), Elements(p))
    BY <1>1 DEF Sorted
  <2>. QED
    BY <2>1, <2>2 DEF Before, Held
<1>4. Sorted(q, 2, Head(q), p)
  <2>1. Increasing(Head(q)) /\ Increasing(p)
    BY <1>1 DEF Sorted
  <2>2. ASSUME NEW i \in 2 .. Len(q)
        PROVE  /\ Increasing(q[i])
               /\ Before(Elements(q[i]), Elements(p))
               /\ \A j \in 2 .. Len(q) : i < j => Before(Elements(q[i]), Elements(q[j]))
    BY <1>1 DEF Sorted
  <2>. QED
    BY <1>3, <2>1, <2>2 DEF Sorted
<1>. QED
  BY <1>0, <1>1, <1>2, <1>4 DEF Upcoming, ListTypes

\* A worker takes the next item of the list it works on: the least one.
LEMMA TakeSorted ==
    ASSUME NEW q, NEW r, NEW p, ListTypes(q, 2, r, p), Sorted(q, 2, r, p), r # <<>>
    PROVE  /\ ListTypes(q, 2, Tail(r), p)
           /\ Sorted(q, 2, Tail(r), p)
           /\ Head(r) \in Lsn
           /\ Upcoming(q, 2, r, p) = {Head(r)} \union Upcoming(q, 2, Tail(r), p)
           /\ Before({Head(r)}, Upcoming(q, 2, Tail(r), p))
<1>1. /\ Tail(r) \in Seq(Lsn) /\ Head(r) \in Lsn
      /\ Elements(r) = {Head(r)} \union Elements(Tail(r))
  BY ElementsTail DEF ListTypes
<1>2. Increasing(Tail(r)) /\ Before({Head(r)}, Elements(Tail(r)))
  BY HeadTail, LsnSeq DEF ListTypes, Sorted
<1>3. Before(Elements(Tail(r)), Held(q, 2) \union Elements(p))
      /\ Before({Head(r)}, Held(q, 2) \union Elements(p))
  BY <1>1 DEF Sorted, Before
<1>4. Sorted(q, 2, Tail(r), p)
  BY <1>2, <1>3 DEF Sorted
<1>5. Before({Head(r)}, Upcoming(q, 2, Tail(r), p))
  BY <1>2, <1>3 DEF Before, Upcoming
<1>. QED
  BY <1>1, <1>4, <1>5 DEF Upcoming, ListTypes

\* A worker is through with a list, or takes the end mark, and removes it.
LEMMA RemoveSorted ==
    ASSUME NEW q, NEW k, NEW r, NEW p, ListTypes(q, k, r, p), Sorted(q, k, r, p),
           r = <<>>, q # <<>>, k = 1 => Head(q) = <<>>
    PROVE  /\ ListTypes(Tail(q), 1, r, p)
           /\ Sorted(Tail(q), 1, r, p)
           /\ Upcoming(Tail(q), 1, r, p) = Upcoming(q, k, r, p)
<1>. DEFINE u == Tail(q)
<1>1. /\ u \in Seq(Seq(Lsn)) /\ Len(u) = Len(q) - 1
      /\ \A i \in 1 .. Len(u) : u[i] = q[i + 1]
      /\ Len(q) \in Nat /\ Len(q) # 0 /\ Head(q) = q[1]
  BY HeadTailProperties, QueueFacts DEF ListTypes
<1>. HIDE DEF u
<1>2. k \in {1, 2} /\ Elements(r) = {}
  BY ElementsNat DEF ListTypes
<1>3. \A i \in 1 .. Len(u) : i + 1 \in k .. Len(q)
  BY <1>1, <1>2
<1>4. \A i \in k .. Len(q) : (k = 1 /\ i = 1) \/ i - 1 \in 1 .. Len(u)
  <2>1. CASE k = 1
    BY <1>1, <2>1
  <2>2. CASE k = 2
    BY <1>1, <2>2
  <2>. QED
    BY <1>2, <2>1, <2>2
<1>5. Held(u, 1) = Held(q, k)
  <2>1. ASSUME NEW x, x \in Held(u, 1) PROVE x \in Held(q, k)
    BY <1>1, <1>3, <2>1 DEF Held
  <2>2. ASSUME NEW x, x \in Held(q, k) PROVE x \in Held(u, 1)
    <3>1. PICK i \in k .. Len(q) : x \in Elements(q[i])
      BY <2>2 DEF Held
    <3>2. ~(k = 1 /\ i = 1)
      BY <1>1, <3>1, ElementsNat, EmptySeq
    <3>3. i - 1 \in 1 .. Len(u) /\ (i - 1) + 1 = i /\ u[i - 1] = q[(i - 1) + 1]
      BY <1>1, <1>2, <1>4, <3>2
    <3>. QED
      BY <3>1, <3>3 DEF Held
  <2>. QED
    BY <2>1, <2>2
<1>6. ASSUME NEW i \in 1 .. Len(u)
      PROVE  /\ Increasing(u[i])
             /\ Before(Elements(u[i]), Elements(p))
             /\ \A j \in 1 .. Len(u) : i < j => Before(Elements(u[i]), Elements(u[j]))
  <2>1. u[i] = q[i + 1] /\ i + 1 \in k .. Len(q)
    BY <1>1, <1>3
  <2>2. ASSUME NEW j \in 1 .. Len(u), i < j PROVE Before(Elements(u[i]), Elements(u[j]))
    <3>1. u[j] = q[j + 1] /\ j + 1 \in k .. Len(q) /\ i + 1 < j + 1
      BY <1>1, <1>3, <2>2
    <3>. QED
      BY <2>1, <3>1 DEF Sorted
  <2>. QED
    BY <2>1, <2>2 DEF Sorted
<1>7. Sorted(u, 1, r, p)
  BY <1>2, <1>6 DEF Sorted, Before
<1>. QED
  BY <1>1, <1>5, <1>7 DEF Upcoming, ListTypes, u

-----------------------------------------------------------------------------
(* The inductive invariant.                                                *)

InHand == {"apply", "reach", "publish", "wait"}
AtRest == {"top", "exit"}
WorkerStep == {"top", "next", "apply", "reach", "publish", "wait", "block", "exit"}

\* TypeOK without the bound on the counts, which follows from CountInv.
TypeInv ==
    /\ batch \in BOOLEAN
    /\ log \in Seq(Record) /\ Len(log) <= MaxLsn
    /\ dpc \in StartupStep
    /\ full \in BOOLEAN /\ force \in BOOLEAN
    /\ ret \in StartupStep /\ after \in StartupStep
    /\ moved \in 0..MaxLsn
    /\ pending \in [Workers -> Seq(Lsn)]
    /\ txnPending \in Seq(Lsn) /\ proc \in Seq(Lsn)
    /\ queue \in [Workers -> Seq(Seq(Lsn))]
    /\ \A w \in Workers : Len(queue[w]) <= QueueSize
    /\ refCount \in [Lsn -> Int]
    /\ released \subseteq Lsn /\ freed \subseteq Lsn /\ applied \subseteq Lsn
    /\ wpc \in [Workers -> WorkerStep]
    /\ rest \in [Workers -> Seq(Lsn)]
    /\ item \in [Workers -> 0..MaxLsn]
    /\ replaying \in [Workers -> 0..MaxLsn]
    /\ \A p \in {dispatchEnd, dispatchRead, replayed, lastRead, transed, trying} :
          p \in 0..(MaxLsn + 1)
    /\ completedRead \in [Workers -> 0..MaxLsn]
    /\ completed \in [Workers -> 0..(MaxLsn + 1)]
    /\ snap \in [Workers -> 0..(MaxLsn + 1)]
    /\ ahead \in BOOLEAN

\* The first list of the queue that worker w has not begun.
From(w) == IF wpc[w] \in AtRest THEN 1 ELSE 2

\* What worker w has still to fetch.
Later(w) == Upcoming(queue[w], From(w), rest[w], pending[w])

\* The lists of worker w are in the order of the log and hold what is meant for w
\* and not fetched yet.
ListInv(w) ==
    /\ Later(w) = {n \in 1..Len(log) : w \in Recipients(log[n]) /\ n > item[w]}
    /\ Sorted(queue[w], From(w), rest[w], pending[w])

\* Worker w is through with record n.
Passed(w, n) == n < item[w] \/ (n = item[w] /\ wpc[w] \notin InHand)

\* Where worker w is with its item, and what it reports.
WorkerInv(w) ==
    /\ replaying[w] = item[w]
    /\ wpc[w] \notin AtRest => item[w] # 0
    /\ item[w] # 0 => item[w] \in 1..Len(log) /\ w \in Recipients(log[item[w]])
    /\ wpc[w] = "apply" => Alone(item[w])
    /\ wpc[w] \in {"reach", "publish", "wait"} => ~Alone(item[w])
    /\ wpc[w] = "publish" => Kind(item[w]) \in {"share", "all"}
    /\ wpc[w] = "wait" => Kind(item[w]) \in {"page", "create", "share"}
    /\ wpc[w] = "block" => Kind(item[w]) = "block"
    /\ completed[w] <= item[w] + 1
    /\ completed[w] = item[w] + 1 =>
          \/ wpc[w] \notin InHand
          \/ wpc[w] = "wait" /\ Kind(item[w]) = "share"

OnList(n) == n \in Elements(proc) \union Elements(txnPending)

\* The list of the startup thread.
TxnListInv ==
    /\ Increasing(proc) /\ Increasing(txnPending)
    /\ Before(Elements(proc), Elements(txnPending))
    /\ \A n \in Elements(proc) \union Elements(txnPending) : n \in 1..Len(log) /\ OnTxnList(log[n])
    /\ dpc \in {"meet", "leave"} => proc # <<>> /\ Kind(Head(proc)) \in {"share", "all"}
    /\ dpc = "leave" => Kind(Head(proc)) = "share"

\* The startup thread deals with record n, which it shares with page workers.
AtHead(n) == proc # <<>> /\ n = Head(proc)

\* Worker w has counted itself in the item of record n.
InCount(w, n) ==
    \/ n = item[w] /\ wpc[w] \in {"publish", "wait"}
    \/ Kind(n) = "all" /\ Passed(w, n)

Counted(n) == {w \in Workers : InCount(w, n)}

TxnCounted(n) ==
    \/ dpc \in {"meet", "leave"} /\ AtHead(n)
    \/ Kind(n) = "all" /\ ~OnList(n)

CountInv(n) ==
    refCount[n] = IF n > Len(log) THEN 0
                  ELSE Cardinality(Counted(n)) + IF TxnCounted(n) THEN 1 ELSE 0

ReturnPoint == {"read", "put", "check", "finish", "drain", "respread", "endput", "join"}

\* Where the loops of the startup thread return to.  A segment-page synchronisation
\* record that waits for the page workers was read.
ReturnInv ==
    /\ ret \in ReturnPoint /\ after \in ReturnPoint
    /\ dpc \in {"drain", "segput"} \/ ret = "drain" \/ after = "drain" => Len(log) # 0

\* The start and the end that a thread keeps together are of one record: of the last one
\* dispatched, of the last one that a worker has completed, and of the last one replayed.
\* Before the first record is replayed the latter may both be the redo point.
PairInv ==
    /\ dispatchEnd = dispatchRead + 1
    /\ \A w \in Workers : completed[w] # 0 => completed[w] = completedRead[w] + 1
    /\ replayed = lastRead + 1 \/ (replayed = 1 /\ lastRead = 1)

RedoInv ==
    /\ TypeInv /\ ReturnInv /\ PairInv
    /\ \A w \in Workers : ListInv(w) /\ WorkerInv(w)
    /\ TxnListInv
    /\ \A n \in Lsn : CountInv(n)

-----------------------------------------------------------------------------
(* What the steps read and change.                                         *)

LEMMA NextRecordType ==
    ASSUME TypeInv, NEW r \in NextRecords
    PROVE  /\ r \in Record /\ Len(log) \in Nat /\ Len(log) + 1 \in Lsn
           /\ Append(log, r) \in Seq(Record) /\ Len(Append(log, r)) = Len(log) + 1
           /\ Append(log, r)[Len(log) + 1] = r
           /\ \A n \in 1..Len(log) : Append(log, r)[n] = log[n]
<1>1. Len(log) \in Nat /\ Len(log) < MaxLsn /\ r \in Records[Len(log) + 1]
  BY DEF TypeInv, NextRecords
<1>2. Len(log) + 1 \in 1..MaxLsn
  BY <1>1, RedoAssumption
<1>3. r \in Record
  BY <1>1, <1>2, RedoAssumption
<1>. QED
  BY <1>1, <1>2, <1>3, AppendProperties DEF TypeInv, Lsn

LEMMA WorkersNat == Workers \in SUBSET Nat /\ IsFiniteSet(Workers) /\ Cardinality(Workers) = NumWorkers
  BY RedoAssumption, FS_Interval DEF Workers

LEMMA PutEffect ==
    ASSUME TypeInv, Put
    PROVE  \E v \in Workers :
              /\ pending[v] # <<>> /\ Len(queue[v]) < QueueSize
              /\ queue' = [queue EXCEPT ![v] = Append(@, pending[v])]
              /\ pending' = [pending EXCEPT ![v] = <<>>]
<1>1. ToPut \in SUBSET Nat
  BY WorkersNat DEF ToPut
<1>2. Min(ToPut) \in ToPut
  BY <1>1, Least DEF Put
<1>. QED
  BY <1>2 DEF Put, ToPut

LEMMA EndMarkEffect ==
    ASSUME TypeInv, SendPageRedoEndMark
    PROVE  \E v \in Workers :
              \/ /\ Len(queue[v]) < QueueSize
                 /\ queue' = [queue EXCEPT ![v] = Append(@, <<>>)]
                 /\ UNCHANGED <<dpc, force, ret>>
              \/ /\ Apply(FALSE, "endput")
                 /\ UNCHANGED queue
<1>1. ToEnd \in SUBSET Nat /\ ToEnd # {}
  BY WorkersNat DEF ToEnd, SendPageRedoEndMark
<1>2. Min(ToEnd) \in ToEnd
  BY <1>1, Least
<1>. QED
  BY <1>2 DEF SendPageRedoEndMark, ToEnd

\* The position that the workers report, and that one of them bounds.
LEMMA WorkersPtr ==
    ASSUME NEW f \in [Workers -> Nat], NEW S \in SUBSET Workers
    PROVE  LET m == Min({MaxPtr} \union {f[w] : w \in S})
           IN  /\ m \in Nat /\ m <= MaxPtr
               /\ \A w \in S : m <= f[w]
               /\ m = MaxPtr \/ \E w \in S : m = f[w]
<1>. DEFINE T == {MaxPtr} \union {f[w] : w \in S}
<1>1. T \in SUBSET Nat /\ T # {}
  BY LsnNat DEF MaxPtr
<1>2. Min(T) \in T /\ \A y \in T : Min(T) <= y
  BY <1>1, Least
<1>. QED
  BY <1>1, <1>2

LEMMA MaxOfTwo ==
    ASSUME NEW a \in Nat, NEW b \in Nat
    PROVE  Max({a, b}) = IF a <= b THEN b ELSE a
<1>1. \A x \in {a, b} : (\A y \in {a, b} : x >= y) => x = IF a <= b THEN b ELSE a
  OBVIOUS
<1>2. \E x \in {a, b} : \A y \in {a, b} : x >= y
  OBVIOUS
<1>. QED
  BY <1>1, <1>2 DEF Max

LEMMA MinOfTwo ==
    ASSUME NEW a \in Nat, NEW b \in Nat
    PROVE  Min({a, b}) = IF a <= b THEN a ELSE b
<1>1. Min({a, b}) \in {a, b} /\ Min({a, b}) <= a /\ Min({a, b}) <= b
  BY Least
<1>. QED
  BY <1>1

LEMMA ReplayedPtr ==
    ASSUME TypeInv
    PROVE  /\ GetReplayedRecPtrFromWorkers \in Nat
           /\ GetReplayedRecPtrFromWorkers <= MaxPtr
           /\ \A w \in Workers : ~Idle(w) => GetReplayedRecPtrFromWorkers <= completed[w]
           /\ GetReplayedRecPtrFromWorkers = MaxPtr
                \/ \E w \in Workers : ~Idle(w) /\ GetReplayedRecPtrFromWorkers = completed[w]
<1>1. completed \in [Workers -> Nat]
  BY LsnNat DEF TypeInv
<1>. DEFINE S == {v \in Workers : ~Idle(v)}
<1>2. S \in SUBSET Workers
  OBVIOUS
<1>. HIDE DEF S
<1>3. LET m == Min({MaxPtr} \union {completed[w] : w \in S})
      IN  /\ m \in Nat /\ m <= MaxPtr
          /\ \A w \in S : m <= completed[w]
          /\ m = MaxPtr \/ \E w \in S : m = completed[w]
  BY <1>1, <1>2, WorkersPtr
<1>. QED
  BY <1>3 DEF GetReplayedRecPtrFromWorkers, S

LEMMA ReplayingPtr ==
    ASSUME TypeInv
    PROVE  /\ GetReplayingRecPtrFromWorkers \in Nat
           /\ GetReplayingRecPtrFromWorkers <= MaxPtr
           /\ \A w \in Workers : ~Idle(w) =>
                 \/ GetReplayingRecPtrFromWorkers <= replaying[w]
                 \/ GetReplayingRecPtrFromWorkers <= completed[w]
           /\ (\A w \in Workers : Idle(w)) => GetReplayingRecPtrFromWorkers = MaxPtr
           /\ \/ GetReplayingRecPtrFromWorkers = MaxPtr
              \/ \E w \in Workers : ~Idle(w) /\ completed[w] <= GetReplayingRecPtrFromWorkers
<1>. DEFINE f == [w \in Workers |-> GetReplyingRecPtr(w)]
<1>1. \A w \in Workers : /\ replaying[w] \in Nat /\ completed[w] \in Nat
                         /\ GetReplyingRecPtr(w) \in Nat
                         /\ GetReplyingRecPtr(w) \in {replaying[w], completed[w]}
                         /\ completed[w] <= GetReplyingRecPtr(w)
  <2>1. \A w \in Workers : replaying[w] \in Nat /\ completed[w] \in Nat
    BY LsnNat DEF TypeInv
  <2>2. \A w \in Workers : /\ GetReplyingRecPtr(w) \in {replaying[w], completed[w]}
                           /\ completed[w] <= GetReplyingRecPtr(w)
    BY <2>1, MaxOfTwo DEF GetReplyingRecPtr
  <2>. QED
    BY <2>1, <2>2
<1>2. f \in [Workers -> Nat]
  BY <1>1
<1>. DEFINE S == {v \in Workers : ~Idle(v)}
<1>3. S \in SUBSET Workers
  OBVIOUS
<1>4. {f[w] : w \in S} = {GetReplyingRecPtr(w) : w \in S}
  OBVIOUS
<1>. HIDE DEF f, S
<1>5. LET m == Min({MaxPtr} \union {f[w] : w \in S})
      IN  /\ m \in Nat /\ m <= MaxPtr
          /\ \A w \in S : m <= f[w]
          /\ m = MaxPtr \/ \E w \in S : m = f[w]
  BY <1>2, <1>3, WorkersPtr
<1>6. GetReplayingRecPtrFromWorkers = Min({MaxPtr} \union {f[w] : w \in S})
  BY <1>4 DEF GetReplayingRecPtrFromWorkers, S
<1>. QED
  BY <1>1, <1>5, <1>6 DEF f, S

\* While the head of the transaction list is not ready some worker is busy.
LEMMA SomeBusy ==
    ASSUME TypeInv, proc # <<>>, ~Ready(Head(proc))
    PROVE  \E w \in Workers : ~Idle(w)
<1>1. Head(proc) \in Lsn
  BY HeadTailProperties DEF TypeInv
<1>. QED
  <2>1. CASE \A w \in Workers : Idle(w)
    <3>1. GetReplayingRecPtrFromWorkers = MaxLsn + 2
      BY <2>1, ReplayingPtr DEF MaxPtr
    <3>2. Head(proc) \in Nat /\ Head(proc) <= MaxLsn /\ MaxLsn \in Nat
      BY <1>1, LsnNat
    <3>. QED
      BY <3>1, <3>2 DEF Ready, End
  <2>. QED
    BY <2>1

\* The start that comes with the workers' position is of the same record.
LEMMA ReplayedPair ==
    ASSUME TypeInv, PairInv, GetReplayedRecPtrFromWorkers # MaxPtr
    PROVE  /\ GetReplayedRecPtrFromWorkers \in 0..(MaxLsn + 1)
           /\ ReplayedReadFromWorkers \in 0..MaxLsn
           /\ GetReplayedRecPtrFromWorkers # 0 =>
                 GetReplayedRecPtrFromWorkers = ReplayedReadFromWorkers + 1
<1>. DEFINE S == {w \in Workers : ~Idle(w) /\ completed[w] = GetReplayedRecPtrFromWorkers}
<1>1. S \in SUBSET Nat /\ S # {}
  BY ReplayedPtr, WorkersNat
<1>. HIDE DEF S
<1>2. PICK v : v = Min(S)
  OBVIOUS
<1>3. v \in S
  BY <1>1, <1>2, Least
<1>4. v \in Workers /\ completed[v] = GetReplayedRecPtrFromWorkers
  BY <1>3 DEF S
<1>5. ReplayedReadFromWorkers = completedRead[v]
  BY <1>1, <1>2 DEF ReplayedReadFromWorkers, S
<1>6. completed[v] \in 0..(MaxLsn + 1) /\ completedRead[v] \in 0..MaxLsn
  BY <1>4 DEF TypeInv
<1>. QED
  BY <1>4, <1>5, <1>6 DEF PairInv

\* What SetXLogReplayRecPtr may be given: the start and the end of one record, or the
\* position of a worker that has completed none.
OfOneRecord(read, end) ==
    /\ read \in 0..MaxLsn /\ end \in 0..(MaxLsn + 1)
    /\ end # 0 => end = read + 1

\* The start that was stored is as good as the end that goes with it: the end given is
\* past the start stored only if it is not before the end stored.
LEMMA SetReplayed ==
    ASSUME NEW read, NEW end, OfOneRecord(read, end), TypeInv, PairInv,
           SetXLogReplayRecPtr(read, end)
    PROVE  /\ replayed' \in 0..(MaxLsn + 1) /\ lastRead' \in 0..(MaxLsn + 1)
           /\ replayed' >= replayed /\ lastRead' >= lastRead
           /\ replayed' = lastRead' + 1 \/ (replayed' = 1 /\ lastRead' = 1)
<1>1. replayed \in 0..(MaxLsn + 1) /\ lastRead \in 0..(MaxLsn + 1) /\ MaxLsn \in Nat
  BY LsnNat DEF TypeInv
<1>2. replayed = lastRead + 1 \/ (replayed = 1 /\ lastRead = 1)
  BY DEF PairInv
<1>. QED
  BY <1>1, <1>2 DEF SetXLogReplayRecPtr, OfOneRecord

LEMMA HeadOfList ==
    ASSUME TypeInv, proc # <<>>
    PROVE  Head(proc) \in Lsn /\ Tail(proc) \in Seq(Lsn) /\ End(Head(proc)) \in 0..(MaxLsn + 1)
<1>1. Head(proc) \in Lsn /\ Tail(proc) \in Seq(Lsn)
  BY HeadTailProperties DEF TypeInv
<1>2. Head(proc) \in Nat /\ Head(proc) <= MaxLsn /\ MaxLsn \in Nat
  BY <1>1, LsnNat
<1>. QED
  BY <1>1, <1>2 DEF End

LEMMA MoveType ==
    ASSUME TypeInv, MoveTxnItemToApplyQueue
    PROVE  proc' \in Seq(Lsn) /\ txnPending' \in Seq(Lsn) /\ transed' \in 0..(MaxLsn + 1)
<1>1. proc' \in Seq(Lsn) /\ txnPending' \in Seq(Lsn)
  BY ConcatProperties DEF TypeInv, MoveTxnItemToApplyQueue
<1>2. CASE txnPending # <<>>
  <2>1. Len(txnPending) \in 1..Len(txnPending)
    BY <1>2, EmptySeq DEF TypeInv
  <2>2. txnPending[Len(txnPending)] \in Lsn
    BY <2>1, ElementOfSeq DEF TypeInv
  <2>3. End(txnPending[Len(txnPending)]) \in 0..(MaxLsn + 1)
    BY <2>2, LsnNat DEF End, Lsn
  <2>. QED
    BY <1>1, <1>2, <2>3 DEF MoveTxnItemToApplyQueue
<1>. QED
  BY <1>1, <1>2 DEF MoveTxnItemToApplyQueue, TypeInv

\* The parts of TypeInv, as the steps of the two kinds of threads change them.
LogType == batch \in BOOLEAN /\ log \in Seq(Record) /\ Len(log) <= MaxLsn /\ moved \in 0..MaxLsn
StartupType ==
    /\ dpc \in StartupStep
    /\ full \in BOOLEAN /\ force \in BOOLEAN
    /\ ret \in StartupStep /\ after \in StartupStep
    /\ ahead \in BOOLEAN
ListsType ==
    /\ pending \in [Workers -> Seq(Lsn)]
    /\ txnPending \in Seq(Lsn) /\ proc \in Seq(Lsn)
    /\ queue \in [Workers -> Seq(Seq(Lsn))]
    /\ \A w \in Workers : Len(queue[w]) <= QueueSize
ItemsType ==
    /\ refCount \in [Lsn -> Int]
    /\ released \subseteq Lsn /\ freed \subseteq Lsn /\ applied \subseteq Lsn
WorkersType ==
    /\ wpc \in [Workers -> WorkerStep]
    /\ rest \in [Workers -> Seq(Lsn)]
    /\ item \in [Workers -> 0..MaxLsn]
    /\ replaying \in [Workers -> 0..MaxLsn]
    /\ completed \in [Workers -> 0..(MaxLsn + 1)]
    /\ completedRead \in [Workers -> 0..MaxLsn]
    /\ snap \in [Workers -> 0..(MaxLsn + 1)]
PtrType ==
    /\ dispatchEnd \in 0..(MaxLsn + 1)
    /\ dispatchRead \in 0..(MaxLsn + 1)
    /\ replayed \in 0..(MaxLsn + 1)
    /\ lastRead \in 0..(MaxLsn + 1)
    /\ transed \in 0..(MaxLsn + 1)
    /\ trying \in 0..(MaxLsn + 1)

LEMMA TypeParts ==
    TypeInv <=> LogType /\ StartupType /\ ListsType /\ ItemsType /\ WorkersType /\ PtrType
  BY DEF TypeInv, LogType, StartupType, ListsType, ItemsType, WorkersType, PtrType

LEMMA TypePartsNext ==
    TypeInv' <=> LogType' /\ StartupType' /\ ListsType' /\ ItemsType' /\ WorkersType' /\ PtrType'
  BY DEF TypeInv, LogType, StartupType, ListsType, ItemsType, WorkersType, PtrType

\* The startup thread leaves the workers alone.
LEMMA StartupWorkers ==
    ASSUME TypeInv, Startup
    PROVE  WorkersType'
<1>1. UNCHANGED workerVars
  BY DEF Startup, Dispatch, DealWithSegpageSyncRecord, SegPut, SegApply, PutPending, PutFailed,
         PutDone, NotBusy, TryTxn, ProcTxnItem, ApplyShared, LeaveShared, TxnNotReady,
         TxnListEmpty, CheckDispatchCount, Respread, WaitForRecord, EndOfLog, StopAtTarget,
         Finish, SendPageRedoEndMark, EndMarksSent, Join
<1>. QED
  BY <1>1, TypeParts DEF workerVars, WorkersType

LEMMA StartupControl ==
    ASSUME TypeInv, Startup
    PROVE  StartupType'
<1>. USE DEF StartupType, StartupStep, Goto, Flush, Apply, Return, FlushBatch, startupVars
<1>1. StartupType
  BY TypeParts
<1>2. CASE Dispatch
  BY <1>1, <1>2 DEF Dispatch
<1>3. CASE DealWithSegpageSyncRecord
  BY <1>1, <1>3 DEF DealWithSegpageSyncRecord
<1>4. CASE SegPut \/ SegApply
  BY <1>1, <1>4 DEF SegPut, SegApply
<1>5. CASE PutPending \/ PutFailed \/ PutDone
  BY <1>1, <1>5 DEF PutPending, PutFailed, PutDone
<1>6. CASE NotBusy \/ TryTxn
  BY <1>1, <1>6 DEF NotBusy, TryTxn
<1>7. CASE ProcTxnItem \/ ApplyShared \/ LeaveShared
  BY <1>1, <1>7 DEF ProcTxnItem, ApplyShared, LeaveShared
<1>8. CASE TxnNotReady \/ TxnListEmpty
  <2>1. ahead' \in BOOLEAN
    BY <1>1, <1>8 DEF TxnNotReady, TxnListEmpty, Drained
  <2>2. Return \/ UNCHANGED startupVars
    BY <1>8 DEF TxnNotReady, TxnListEmpty
  <2>. QED
    BY <1>1, <2>1, <2>2
<1>9. CASE CheckDispatchCount \/ Respread
  BY <1>1, <1>9 DEF CheckDispatchCount, Respread
<1>10. CASE WaitForRecord \/ EndOfLog \/ StopAtTarget
  BY <1>1, <1>10 DEF WaitForRecord, EndOfLog, StopAtTarget, ProcTxnWorkLoad
<1>11. CASE Finish \/ EndMarksSent \/ Join
  BY <1>1, <1>11 DEF Finish, EndMarksSent, Join
<1>12. CASE SendPageRedoEndMark
  BY <1>1, <1>12 DEF SendPageRedoEndMark
<1>. QED
  BY <1>2, <1>3, <1>4, <1>5, <1>6, <1>7, <1>8, <1>9, <1>10, <1>11, <1>12 DEF Startup

LEMMA StartupLog ==
    ASSUME TypeInv, Startup
    PROVE  LogType'
<1>1. LogType /\ MaxLsn \in Nat
  BY TypeParts, LsnNat
<1>2. CASE Dispatch \/ DealWithSegpageSyncRecord
  <2>1. PICK r \in NextRecords : log' = Append(log, r)
    BY <1>2 DEF Dispatch, DealWithSegpageSyncRecord
  <2>2. log' \in Seq(Record) /\ Len(log') = Len(log) + 1 /\ Len(log) + 1 \in 1..MaxLsn
    BY <2>1, NextRecordType DEF Lsn
  <2>3. UNCHANGED <<batch, moved>>
    BY <1>2 DEF Dispatch, DealWithSegpageSyncRecord
  <2>. QED
    BY <1>1, <2>2, <2>3 DEF LogType
<1>3. CASE Respread
  <2>1. moved' = Len(log) /\ UNCHANGED <<batch, log>> /\ Len(log) \in Nat
    BY <1>1, <1>3 DEF Respread, LogType
  <2>. QED
    BY <1>1, <2>1 DEF LogType
<1>4. CASE ~(Dispatch \/ DealWithSegpageSyncRecord \/ Respread)
  <2>1. UNCHANGED <<batch, log, moved>>
    BY <1>4 DEF Startup, SegPut, SegApply, PutPending, PutFailed,
         PutDone, NotBusy, TryTxn, ProcTxnItem, ApplyShared, LeaveShared, TxnNotReady,
         TxnListEmpty, CheckDispatchCount, WaitForRecord, EndOfLog, StopAtTarget,
         Finish, SendPageRedoEndMark, EndMarksSent, Join
  <2>. QED
    BY <1>1, <2>1 DEF LogType
<1>. QED
  BY <1>2, <1>3, <1>4

LEMMA PutLists ==
    ASSUME TypeInv, Put, UNCHANGED <<txnPending, proc>>
    PROVE  ListsType'
<1>1. PICK v \in Workers :
              /\ pending[v] # <<>> /\ Len(queue[v]) < QueueSize
              /\ queue' = [queue EXCEPT ![v] = Append(@, pending[v])]
              /\ pending' = [pending EXCEPT ![v] = <<>>]
  BY PutEffect
<1>2. ListsType /\ QueueSize \in Nat
  BY TypeParts, RedoAssumption
<1>3. /\ Append(queue[v], pending[v]) \in Seq(Seq(Lsn))
      /\ Len(Append(queue[v], pending[v])) = Len(queue[v]) + 1
      /\ Len(queue[v]) \in Nat
      /\ <<>> \in Seq(Lsn)
  BY <1>2, AppendProperties DEF ListsType
<1>4. Len(Append(queue[v], pending[v])) <= QueueSize
  BY <1>1, <1>2, <1>3
<1>. QED
  BY <1>1, <1>2, <1>3, <1>4 DEF ListsType

LEMMA StartupLists ==
    ASSUME TypeInv, TxnListInv, Startup
    PROVE  ListsType'
<1>1. ListsType /\ QueueSize \in Nat
  BY TypeParts, RedoAssumption
<1>2. CASE Dispatch
  <2>1. PICK r \in NextRecords :
           /\ pending' = Add(r, Len(log) + 1)
           /\ txnPending' = IF OnTxnList(r) THEN Append(txnPending, Len(log) + 1) ELSE txnPending
    BY <1>2 DEF Dispatch
  <2>2. Len(log) + 1 \in Lsn
    BY NextRecordType
  <2>3. pending' \in [Workers -> Seq(Lsn)] /\ txnPending' \in Seq(Lsn)
    BY <1>1, <2>1, <2>2 DEF ListsType, Add
  <2>. QED
    BY <1>1, <1>2, <2>3 DEF Dispatch, ListsType
<1>3. CASE DealWithSegpageSyncRecord \/ PutDone
  <2>1. proc' \in Seq(Lsn) /\ txnPending' \in Seq(Lsn) /\ UNCHANGED <<pending, queue>>
    BY <1>3, MoveType DEF DealWithSegpageSyncRecord, PutDone
  <2>. QED
    BY <1>1, <2>1 DEF ListsType
<1>4. CASE SegPut \/ PutPending
  <2>1. UNCHANGED <<txnPending, proc>> /\ (Put \/ UNCHANGED <<pending, queue>>)
    BY <1>4 DEF SegPut, PutPending
  <2>. QED
    BY <1>1, <2>1, PutLists DEF ListsType
<1>5. CASE ProcTxnItem \/ ApplyShared \/ LeaveShared
  <2>1. UNCHANGED <<pending, txnPending, queue>> /\ proc # <<>> /\ (proc' = proc \/ proc' = Tail(proc))
    BY <1>5 DEF ProcTxnItem, ApplyShared, LeaveShared, Trying, TxnListInv
  <2>2. Tail(proc) \in Seq(Lsn)
    BY <2>1, HeadOfList
  <2>. QED
    BY <1>1, <2>1, <2>2 DEF ListsType
<1>6. CASE SendPageRedoEndMark
  <2>1. PICK v \in Workers :
              \/ /\ Len(queue[v]) < QueueSize
                 /\ queue' = [queue EXCEPT ![v] = Append(@, <<>>)]
              \/ UNCHANGED queue
    BY <1>6, EndMarkEffect
  <2>2. UNCHANGED <<pending, txnPending, proc>>
    BY <1>6 DEF SendPageRedoEndMark, listVars
  <2>3. /\ Append(queue[v], <<>>) \in Seq(Seq(Lsn)) /\ Len(queue[v]) \in Nat
        /\ Len(Append(queue[v], <<>>)) = Len(queue[v]) + 1
    BY <1>1, AppendProperties, EmptySeq DEF ListsType
  <2>4. Len(queue[v]) < QueueSize => Len(Append(queue[v], <<>>)) <= QueueSize
    BY <1>1, <2>3
  <2>. QED
    BY <1>1, <2>1, <2>2, <2>3, <2>4 DEF ListsType
<1>7. CASE \/ SegApply \/ PutFailed \/ NotBusy \/ TryTxn \/ TxnNotReady
           \/ TxnListEmpty \/ CheckDispatchCount \/ Respread \/ WaitForRecord \/ EndOfLog
           \/ StopAtTarget \/ Finish \/ EndMarksSent \/ Join
  <2>1. UNCHANGED <<pending, txnPending, proc, queue>>
    BY <1>7 DEF SegApply, PutFailed, NotBusy, TryTxn, TxnNotReady, TxnListEmpty,
         CheckDispatchCount, Respread, WaitForRecord, EndOfLog, StopAtTarget, Finish,
         EndMarksSent, Join, listVars
  <2>. QED
    BY <1>1, <2>1 DEF ListsType
<1>. QED
  BY <1>2, <1>3, <1>4, <1>5, <1>6, <1>7 DEF Startup

LEMMA StartupItems ==
    ASSUME TypeInv, TxnListInv, ReturnInv, Startup
    PROVE  ItemsType'
<1>1. ItemsType /\ Len(log) \in Nat /\ Len(log) <= MaxLsn
  BY TypeParts DEF LogType
<1>2. CASE SegApply
  <2>1. UNCHANGED <<refCount, released>> /\ freed' = freed \union {Len(log)}
        /\ applied' = applied \union {Len(log)} /\ dpc = "drain"
    BY <1>2 DEF SegApply
  <2>2. Len(log) \in Lsn
    BY <1>1, <2>1, LsnNat DEF ReturnInv, Lsn
  <2>. QED
    BY <1>1, <2>1, <2>2 DEF ItemsType
<1>3. CASE ProcTxnItem \/ ApplyShared \/ LeaveShared
  <2>1. proc # <<>>
    BY <1>3 DEF ProcTxnItem, ApplyShared, LeaveShared, Trying, TxnListInv
  <2>2. Head(proc) \in Lsn
    BY <2>1, HeadOfList
  <2>3. CASE ProcTxnItem
    BY <1>1, <2>2, <2>3 DEF ProcTxnItem, ItemsType
  <2>4. CASE ApplyShared
    BY <1>1, <2>2, <2>4 DEF ApplyShared, ItemsType
  <2>5. CASE LeaveShared
    BY <1>1, <2>2, <2>5 DEF LeaveShared, Unref, ItemsType
  <2>. QED
    BY <1>3, <2>3, <2>4, <2>5
<1>4. CASE ~(SegApply \/ ProcTxnItem \/ ApplyShared \/ LeaveShared)
  <2>1. UNCHANGED <<refCount, released, freed, applied>>
    BY <1>4 DEF Startup, Dispatch, DealWithSegpageSyncRecord, SegPut, PutPending, PutFailed,
         PutDone, NotBusy, TryTxn, TxnNotReady,
         TxnListEmpty, CheckDispatchCount, Respread, WaitForRecord, EndOfLog, StopAtTarget,
         Finish, SendPageRedoEndMark, EndMarksSent, Join, itemVars
  <2>. QED
    BY <1>1, <2>1 DEF ItemsType
<1>. QED
  BY <1>2, <1>3, <1>4

\* The replay position changes only by reports of the two ends of a record.
LEMMA Reports ==
    ASSUME TypeInv, PairInv, TxnListInv, Startup
    PROVE  \/ UNCHANGED <<replayed, lastRead>>
           \/ \E read, end : OfOneRecord(read, end) /\ SetXLogReplayRecPtr(read, end)
<1>1. PtrType /\ MaxLsn \in Nat
  BY TypeParts, LsnNat
<1>2. CASE ProcTxnItem \/ ApplyShared \/ LeaveShared
  <2>1. /\ proc # <<>>
        /\ \/ SetXLogReplayRecPtr(Read(Head(proc)), End(Head(proc)))
           \/ UNCHANGED <<replayed, lastRead>>
    BY <1>2 DEF ProcTxnItem, ApplyShared, LeaveShared, Trying, TxnListInv
  <2>2. Head(proc) \in Lsn
    BY <2>1, HeadOfList
  <2>3. OfOneRecord(Read(Head(proc)), End(Head(proc)))
    BY <1>1, <2>2 DEF OfOneRecord, Read, End, Lsn
  <2>. QED
    BY <2>1, <2>3
<1>3. CASE TxnNotReady
  <2>1. /\ proc # <<>> /\ ~Ready(Head(proc))
        /\ \/ SetXLogReplayRecPtr(ReplayedReadFromWorkers, GetReplayedRecPtrFromWorkers)
           \/ UNCHANGED <<replayed, lastRead>>
    BY <1>3 DEF TxnNotReady, Trying
  <2>2. PICK w \in Workers : ~Idle(w)
    BY <2>1, SomeBusy
  <2>3. completed[w] \in 0..(MaxLsn + 1)
    BY DEF TypeInv
  <2>4. GetReplayedRecPtrFromWorkers # MaxPtr
    BY <1>1, <2>2, <2>3, ReplayedPtr DEF MaxPtr
  <2>5. OfOneRecord(ReplayedReadFromWorkers, GetReplayedRecPtrFromWorkers)
    BY <2>4, ReplayedPair DEF OfOneRecord
  <2>. QED
    BY <2>1, <2>5
<1>4. CASE TxnListEmpty
  <2>1. PICK g : g = GetReplayedRecPtrFromWorkers
    OBVIOUS
  <2>2. g \in Nat /\ dispatchEnd \in 0..(MaxLsn + 1) /\ dispatchRead \in Nat
    BY <1>1, <2>1, ReplayedPtr DEF PtrType
  <2>3. CASE dispatchEnd < g
    <3>1. Min({g, dispatchEnd}) = dispatchEnd
      BY <1>1, <2>2, <2>3, MinOfTwo
    <3>2. SetXLogReplayRecPtr(dispatchRead, dispatchEnd)
      BY <1>4, <2>1, <2>3, <3>1 DEF TxnListEmpty
    <3>3. OfOneRecord(dispatchRead, dispatchEnd)
      BY <1>1, <2>2 DEF OfOneRecord, PairInv
    <3>. QED
      BY <3>2, <3>3
  <2>4. CASE ~(dispatchEnd < g)
    <3>1. Min({g, dispatchEnd}) = g /\ g # MaxPtr
      BY <1>1, <2>2, <2>4, MinOfTwo DEF MaxPtr
    <3>2. SetXLogReplayRecPtr(ReplayedReadFromWorkers, g)
      BY <1>4, <2>1, <2>4, <3>1 DEF TxnListEmpty
    <3>3. OfOneRecord(ReplayedReadFromWorkers, g)
      BY <2>1, <3>1, ReplayedPair DEF OfOneRecord
    <3>. QED
      BY <3>2, <3>3
  <2>. QED
    BY <2>3, <2>4
<1>5. CASE ~(ProcTxnItem \/ ApplyShared \/ LeaveShared \/ TxnNotReady \/ TxnListEmpty)
  BY <1>5 DEF Startup, Dispatch, DealWithSegpageSyncRecord, SegPut, SegApply, PutPending,
         PutFailed, PutDone, NotBusy, TryTxn, CheckDispatchCount, Respread, WaitForRecord,
         EndOfLog, StopAtTarget, Finish, SendPageRedoEndMark, EndMarksSent, Join
<1>. QED
  BY <1>2, <1>3, <1>4, <1>5

LEMMA StartupPtr ==
    ASSUME TypeInv, PairInv, TxnListInv, Startup
    PROVE  PtrType'
<1>1. PtrType /\ MaxLsn \in Nat /\ Len(log) \in Nat /\ Len(log) <= MaxLsn
  BY TypeParts, LsnNat DEF LogType
<1>2. CASE Dispatch
  <2>1. \E r \in NextRecords : /\ dispatchEnd' = End(Len(log) + 1)
                            /\ dispatchRead' = Read(Len(log) + 1)
    BY <1>2 DEF Dispatch
  <2>2. Len(log) + 1 \in 1..MaxLsn
    BY <2>1, NextRecordType DEF Lsn
  <2>3. UNCHANGED <<replayed, lastRead, transed, trying>>
    BY <1>2 DEF Dispatch
  <2>. QED
    BY <1>1, <2>1, <2>2, <2>3 DEF PtrType, End, Read
<1>3. CASE DealWithSegpageSyncRecord \/ PutDone
  <2>1. transed' \in 0..(MaxLsn + 1) /\ UNCHANGED <<replayed, lastRead, trying, dispatchEnd, dispatchRead>>
    BY <1>3, MoveType DEF DealWithSegpageSyncRecord, PutDone
  <2>. QED
    BY <1>1, <2>1 DEF PtrType
<1>4. CASE SegApply
  BY <1>1, <1>4 DEF SegApply, PtrType, End, Read, listVars
<1>5. CASE TryTxn
  <2>1. trying' \in 0..(MaxLsn + 1)
    BY <1>5, HeadOfList DEF TryTxn
  <2>. QED
    BY <1>1, <1>5, <2>1 DEF TryTxn, PtrType, listVars
<1>6. CASE ProcTxnItem \/ ApplyShared \/ LeaveShared \/ TxnNotReady \/ TxnListEmpty
  <2>1. UNCHANGED <<trying, dispatchEnd, dispatchRead, transed>>
    BY <1>6 DEF ProcTxnItem, ApplyShared, LeaveShared, TxnNotReady, TxnListEmpty, listVars
  <2>2. replayed' \in 0..(MaxLsn + 1) /\ lastRead' \in 0..(MaxLsn + 1)
    BY <1>1, Reports, SetReplayed DEF PtrType
  <2>. QED
    BY <1>1, <2>1, <2>2 DEF PtrType
<1>9. CASE \/ SegPut \/ PutPending \/ PutFailed \/ NotBusy
           \/ CheckDispatchCount \/ Respread \/ WaitForRecord \/ EndOfLog
           \/ StopAtTarget \/ Finish \/ SendPageRedoEndMark \/ EndMarksSent \/ Join
  <2>1. UNCHANGED <<dispatchEnd, dispatchRead, replayed, lastRead, transed, trying>>
    BY <1>9 DEF SegPut, PutPending, PutFailed, NotBusy, CheckDispatchCount, Respread,
         WaitForRecord, EndOfLog, StopAtTarget, Finish, SendPageRedoEndMark,
         EndMarksSent, Join, listVars
  <2>. QED
    BY <1>1, <2>1 DEF PtrType
<1>. QED
  BY <1>2, <1>3, <1>4, <1>5, <1>6, <1>9 DEF Startup

\* The parts of a worker's step.
LEMMA WorkerSame ==
    ASSUME NEW w \in Workers, Worker(w)
    PROVE  /\ UNCHANGED <<batch, ahead, log, dispatchEnd, dispatchRead, moved, startupVars, listVars,
                          trying, replayed, lastRead>>
           /\ \A v \in Workers : v # w /\ TypeInv =>
                 UNCHANGED <<queue[v], wpc[v], rest[v], item[v], replaying[v], completed[v], snap[v]>>
<1>1. UNCHANGED <<batch, ahead, log, dispatchEnd, dispatchRead, moved, startupVars, listVars,
                          trying, replayed, lastRead>>
  BY DEF Worker, Fetch, Pop, Exit, ReadTransed, ApplySingle, Reach, Publish, Leave, Unblock
<1>2. ASSUME NEW v \in Workers, v # w, TypeInv
      PROVE  UNCHANGED <<queue[v], wpc[v], rest[v], item[v], replaying[v], completed[v], snap[v]>>
  <2>. USE <1>2 DEF WGoto, SetCompletedReadEndPtr
  <2>1. CASE Fetch(w) \/ Pop(w) \/ Exit(w)
    BY <2>1 DEF Fetch, Pop, Exit, TypeInv
  <2>2. CASE ReadTransed(w) \/ ApplySingle(w) \/ Reach(w)
    BY <2>2 DEF ReadTransed, ApplySingle, Reach, TypeInv
  <2>3. CASE Publish(w) \/ Leave(w) \/ Unblock(w)
    BY <2>3 DEF Publish, Leave, Unblock, TypeInv
  <2>. QED
    BY <2>1, <2>2, <2>3 DEF Worker
<1>. QED
  BY <1>1, <1>2

LEMMA ItemType ==
    ASSUME TypeInv, NEW w \in Workers, WorkerInv(w), wpc[w] \notin AtRest
    PROVE  item[w] \in Lsn /\ item[w] \in 1..Len(log) /\ End(item[w]) \in 0..(MaxLsn + 1)
<1>1. item[w] \in 1..Len(log) /\ Len(log) \in Nat /\ Len(log) <= MaxLsn /\ MaxLsn \in Nat
  BY LsnNat DEF TypeInv, WorkerInv
<1>. QED
  BY <1>1 DEF Lsn, End

LEMMA FetchHead ==
    ASSUME TypeInv, NEW w \in Workers, ListInv(w), Fetch(w)
    PROVE  /\ List(w) \in Seq(Lsn) /\ List(w) # <<>>
           /\ Head(List(w)) \in Lsn /\ Tail(List(w)) \in Seq(Lsn)
           /\ ListTypes(queue[w], 2, List(w), pending[w])
           /\ Sorted(queue[w], 2, List(w), pending[w])
           /\ Later(w) = Upcoming(queue[w], 2, List(w), pending[w])
<1>1. ListTypes(queue[w], From(w), rest[w], pending[w])
  BY DEF TypeInv, ListTypes, From
<1>2. CASE wpc[w] = "top"
  <2>1. List(w) = Head(queue[w]) /\ From(w) = 1 /\ queue[w] # <<>>
    BY <1>2 DEF List, From, AtRest, Fetch, Idle
  <2>2. /\ ListTypes(queue[w], 2, Head(queue[w]), pending[w])
        /\ Sorted(queue[w], 2, Head(queue[w]), pending[w])
        /\ Upcoming(queue[w], 2, Head(queue[w]), pending[w]) = Upcoming(queue[w], 1, rest[w], pending[w])
    BY <1>1, <2>1, BeginSorted DEF ListInv
  <2>. QED
    BY <2>1, <2>2, HeadTailProperties DEF Fetch, Later, ListTypes
<1>3. CASE wpc[w] = "next"
  <2>1. List(w) = rest[w] /\ From(w) = 2
    BY <1>3 DEF List, From, AtRest
  <2>. QED
    BY <1>1, <2>1, HeadTailProperties DEF Fetch, Later, ListInv, ListTypes
<1>. QED
  BY <1>2, <1>3 DEF Fetch

LEMMA WorkerTypes ==
    ASSUME TypeInv, NEW w \in Workers, ListInv(w), WorkerInv(w), Worker(w)
    PROVE  TypeInv'
<1>1. /\ LogType' /\ StartupType' /\ PtrType'
  BY WorkerSame, TypeParts DEF LogType, StartupType, PtrType, startupVars, listVars
<1>2. UNCHANGED <<pending, txnPending, proc>> /\ MaxLsn \in Nat
  BY WorkerSame, LsnNat DEF listVars
<1>3. ListsType /\ ItemsType /\ WorkersType /\ PtrType
  BY TypeParts
<1>4. CASE Fetch(w)
  <2>1. Head(List(w)) \in 0..MaxLsn /\ Tail(List(w)) \in Seq(Lsn)
    BY <1>2, <1>4, FetchHead DEF Lsn
  <2>2. WorkersType'
    BY <1>3, <1>4, <2>1 DEF Fetch, WorkersType, WGoto, Read, WorkerStep
  <2>3. ListsType' /\ ItemsType'
    BY <1>2, <1>3, <1>4 DEF Fetch, ListsType, ItemsType, itemVars
  <2>. QED
    BY <1>1, <2>2, <2>3, TypePartsNext
<1>5. CASE Pop(w) \/ Exit(w)
  <2>1. queue[w] # <<>> /\ queue' = [queue EXCEPT ![w] = Tail(@)]
    BY <1>5 DEF Pop, Exit, ListInv, Sorted, From, AtRest, Idle
  <2>2. queue[w] \in Seq(Seq(Lsn)) /\ Len(queue[w]) \in Nat /\ QueueSize \in Nat
        /\ Len(queue[w]) <= QueueSize
    BY <1>3, RedoAssumption DEF ListsType
  <2>3. Tail(queue[w]) \in Seq(Seq(Lsn)) /\ Len(Tail(queue[w])) = Len(queue[w]) - 1
    BY <2>1, <2>2, HeadTailProperties
  <2>4. ListsType'
    BY <1>2, <1>3, <2>1, <2>2, <2>3 DEF ListsType
  <2>5. WorkersType' /\ ItemsType'
    BY <1>3, <1>5 DEF Pop, Exit, WGoto, WorkersType, ItemsType, itemVars, WorkerStep
  <2>. QED
    BY <1>1, <2>4, <2>5, TypePartsNext
<1>6. CASE ReadTransed(w)
  <2>1. WorkersType' /\ ItemsType' /\ ListsType'
    BY <1>2, <1>3, <1>6 DEF ReadTransed, WorkersType, ItemsType, ListsType, itemVars, PtrType
  <2>. QED
    BY <1>1, <2>1, TypePartsNext
<1>7. CASE ~(Fetch(w) \/ Pop(w) \/ Exit(w) \/ ReadTransed(w))
  <2>1. wpc[w] \notin AtRest /\ queue' = queue
    BY <1>7 DEF Worker, ApplySingle, Reach, Publish, Leave, Unblock, AtRest
  <2>2. item[w] \in Lsn /\ End(item[w]) \in 0..(MaxLsn + 1) /\ Read(item[w]) \in 0..MaxLsn
    BY <1>2, <2>1, ItemType DEF Read, Lsn
  <2>3. ListsType'
    BY <1>2, <1>3, <2>1 DEF ListsType
  <2>4. CASE ApplySingle(w)
    <3>1. ItemsType'
      BY <1>3, <2>2, <2>4 DEF ApplySingle, ItemsType
    <3>2. \E l \in {"block", "next"} : wpc' = [wpc EXCEPT ![w] = l]
      BY <2>4 DEF ApplySingle, WGoto
    <3>3. WorkersType'
      BY <1>2, <1>3, <2>2, <2>4, <3>2 DEF ApplySingle, WorkersType, SetCompletedReadEndPtr, WorkerStep
    <3>. QED
      BY <1>1, <2>3, <3>1, <3>3, TypePartsNext
  <2>5. CASE Reach(w)
    BY <1>1, <1>3, <2>2, <2>3, <2>5, TypePartsNext
      DEF Reach, WorkersType, ItemsType, WGoto, WorkerStep
  <2>6. CASE Publish(w) \/ Unblock(w)
    BY <1>1, <1>3, <2>2, <2>3, <2>6, TypePartsNext
      DEF Publish, Unblock, WorkersType, ItemsType, WGoto, SetCompletedReadEndPtr, WorkerStep, itemVars
  <2>7. CASE Leave(w)
    BY <1>1, <1>3, <2>2, <2>3, <2>7, TypePartsNext
      DEF Leave, Unref, WorkersType, ItemsType, WGoto, SetCompletedReadEndPtr, WorkerStep
  <2>. QED
    BY <1>7, <2>4, <2>5, <2>6, <2>7 DEF Worker
<1>. QED
  BY <1>4, <1>5, <1>6, <1>7

LEMMA PairStep ==
    ASSUME RedoInv, Next
    PROVE  PairInv'
<1>1. TypeInv /\ PairInv /\ TxnListInv
  BY DEF RedoInv
<1>2. CASE Startup
  <2>1. UNCHANGED <<completed, completedRead>>
    BY <1>2 DEF workerVars, Startup, Dispatch, DealWithSegpageSyncRecord, SegPut, SegApply,
         PutPending, PutFailed, PutDone, NotBusy, TryTxn, ProcTxnItem, ApplyShared, LeaveShared,
         TxnNotReady, TxnListEmpty, CheckDispatchCount, Respread, WaitForRecord, EndOfLog,
         StopAtTarget, Finish, SendPageRedoEndMark, EndMarksSent, Join
  <2>2. replayed' = lastRead' + 1 \/ (replayed' = 1 /\ lastRead' = 1)
    <3>1. CASE UNCHANGED <<replayed, lastRead>>
      BY <1>1, <3>1 DEF PairInv
    <3>. QED
      BY <1>1, <1>2, <3>1, Reports, SetReplayed
  <2>3. dispatchEnd' = dispatchRead' + 1
    <3>1. UNCHANGED <<dispatchEnd, dispatchRead>>
            \/ \E n : dispatchEnd' = End(n) /\ dispatchRead' = Read(n)
      BY <1>2 DEF Startup, Dispatch, DealWithSegpageSyncRecord, SegPut, SegApply,
         PutPending, PutFailed, PutDone, NotBusy, TryTxn, ProcTxnItem, ApplyShared, LeaveShared,
         TxnNotReady, TxnListEmpty, CheckDispatchCount, Respread, WaitForRecord, EndOfLog,
         StopAtTarget, Finish, SendPageRedoEndMark, EndMarksSent, Join
    <3>. QED
      BY <1>1, <3>1 DEF PairInv, End, Read
  <2>. QED
    BY <1>1, <2>1, <2>2, <2>3 DEF PairInv
<1>3. ASSUME NEW w \in Workers, Worker(w) PROVE PairInv'
  <2>1. UNCHANGED <<dispatchEnd, dispatchRead, replayed, lastRead>>
    BY <1>3, WorkerSame
  <2>2. \/ UNCHANGED <<completed, completedRead>>
        \/ SetCompletedReadEndPtr(w, item[w])
    BY <1>3 DEF Worker, Fetch, Pop, Exit, ReadTransed, ApplySingle, Reach, Publish, Leave, Unblock
  <2>3. \A v \in Workers : completed'[v] # 0 => completed'[v] = completedRead'[v] + 1
    <3>1. completed \in [Workers -> 0..(MaxLsn + 1)] /\ completedRead \in [Workers -> 0..MaxLsn]
      BY <1>1 DEF TypeInv
    <3>. QED
      BY <1>1, <2>2, <3>1 DEF PairInv, SetCompletedReadEndPtr, End, Read
  <2>. QED
    BY <1>1, <2>1, <2>3 DEF PairInv
<1>4. CASE Done
  BY <1>1, <1>4 DEF Done, vars, workerVars, PairInv
<1>. QED
  BY <1>2, <1>3, <1>4 DEF Next

LEMMA TypeStep ==
    ASSUME RedoInv, Next
    PROVE  TypeInv'
<1>1. CASE Startup
  BY <1>1, StartupWorkers, StartupControl, StartupLog, StartupLists, StartupItems, StartupPtr,
     TypePartsNext DEF RedoInv
<1>2. CASE \E w \in Workers : Worker(w)
  BY <1>2, WorkerTypes DEF RedoInv
<1>3. CASE Done
  BY <1>3 DEF RedoInv, Done, vars, startupVars, listVars, itemVars, workerVars, TypeInv
<1>. QED
  BY <1>1, <1>2, <1>3 DEF Next

-----------------------------------------------------------------------------
(* The log grows, and the startup thread's own list and control.           *)

LEMMA LogStep ==
    ASSUME TypeInv, Next
    PROVE  /\ batch' = batch
           /\ \/ log' = log
              \/ \E r \in NextRecords : log' = Append(log, r) /\ (Dispatch \/ DealWithSegpageSyncRecord)
           /\ Len(log) \in Nat /\ Len(log') \in Nat /\ Len(log') >= Len(log)
           /\ \A n \in 1..Len(log) : n \in 1..Len(log') /\ log'[n] = log[n]
<1>1. Len(log) \in Nat
  BY DEF TypeInv
<1>2. CASE Dispatch \/ DealWithSegpageSyncRecord
  <2>1. PICK r \in NextRecords : log' = Append(log, r)
    BY <1>2 DEF Dispatch, DealWithSegpageSyncRecord
  <2>2. batch' = batch
    BY <1>2 DEF Dispatch, DealWithSegpageSyncRecord
  <2>. QED
    BY <1>1, <1>2, <2>1, <2>2, NextRecordType
<1>3. CASE Startup /\ ~(Dispatch \/ DealWithSegpageSyncRecord)
  <2>1. UNCHANGED <<batch, log>>
    BY <1>3 DEF Startup, SegPut, SegApply, PutPending, PutFailed,
         PutDone, NotBusy, TryTxn, ProcTxnItem, ApplyShared, LeaveShared, TxnNotReady,
         TxnListEmpty, CheckDispatchCount, Respread, WaitForRecord, EndOfLog, StopAtTarget,
         Finish, SendPageRedoEndMark, EndMarksSent, Join
  <2>. QED
    BY <1>1, <2>1
<1>4. CASE \E w \in Workers : Worker(w)
  BY <1>1, <1>4, WorkerSame
<1>5. CASE Done
  BY <1>1, <1>5 DEF Done, vars
<1>. QED
  BY <1>2, <1>3, <1>4, <1>5 DEF Next

LEMMA ReturnStep ==
    ASSUME TypeInv, ReturnInv, Next
    PROVE  ReturnInv'
<1>1. Len(log') \in Nat /\ (Len(log) # 0 => Len(log') # 0)
      /\ Len(log) \in Nat
  BY LogStep
<1>. USE DEF ReturnInv, ReturnPoint, Goto, Flush, Apply, Return, FlushBatch, startupVars
<1>2. CASE Dispatch
  BY <1>1, <1>2 DEF Dispatch
<1>3. CASE DealWithSegpageSyncRecord
  <2>1. Len(log') = Len(log) + 1
    BY <1>3, NextRecordType DEF DealWithSegpageSyncRecord
  <2>. QED
    BY <1>1, <1>3, <2>1 DEF DealWithSegpageSyncRecord
<1>4. CASE SegPut \/ SegApply
  BY <1>1, <1>4 DEF SegPut, SegApply
<1>5. CASE PutPending \/ PutFailed \/ PutDone
  BY <1>1, <1>5 DEF PutPending, PutFailed, PutDone
<1>6. CASE NotBusy \/ TryTxn
  BY <1>1, <1>6 DEF NotBusy, TryTxn
<1>7. CASE ProcTxnItem \/ ApplyShared \/ LeaveShared
  BY <1>1, <1>7 DEF ProcTxnItem, ApplyShared, LeaveShared
<1>8. CASE TxnNotReady \/ TxnListEmpty
  <2>1. Return \/ UNCHANGED startupVars
    BY <1>8 DEF TxnNotReady, TxnListEmpty
  <2>. QED
    BY <1>1, <2>1
<1>9. CASE CheckDispatchCount \/ Respread
  BY <1>1, <1>9 DEF CheckDispatchCount, Respread
<1>10. CASE WaitForRecord \/ EndOfLog \/ StopAtTarget
  BY <1>1, <1>10 DEF WaitForRecord, EndOfLog, StopAtTarget, ProcTxnWorkLoad
<1>11. CASE Finish \/ EndMarksSent \/ Join
  BY <1>1, <1>11 DEF Finish, EndMarksSent, Join
<1>12. CASE SendPageRedoEndMark
  BY <1>1, <1>12 DEF SendPageRedoEndMark
<1>13. CASE \E w \in Workers : Worker(w)
  BY <1>1, <1>13, WorkerSame
<1>14. CASE Done
  BY <1>14 DEF Done, vars
<1>. QED
  BY <1>2, <1>3, <1>4, <1>5, <1>6, <1>7, <1>8, <1>9, <1>10, <1>11, <1>12, <1>13, <1>14
     DEF Next, Startup

\* Where the startup thread goes in a step that leaves its list as it is.
LEMMA ControlStep ==
    ASSUME TypeInv, ReturnInv, Startup, ~ProcTxnItem, ~ApplyShared, dpc' # dpc
    PROVE  dpc' \notin {"meet", "leave"}
<1>. USE DEF ReturnInv, ReturnPoint, Goto, Flush, Apply, Return, FlushBatch, startupVars
<1>1. CASE Dispatch \/ DealWithSegpageSyncRecord \/ SegPut \/ SegApply
  BY <1>1 DEF Dispatch, DealWithSegpageSyncRecord, SegPut, SegApply
<1>2. CASE PutPending \/ PutFailed \/ PutDone \/ NotBusy \/ TryTxn \/ LeaveShared
  BY <1>2 DEF PutPending, PutFailed, PutDone, NotBusy, TryTxn, LeaveShared
<1>3. CASE TxnNotReady \/ TxnListEmpty
  BY <1>3 DEF TxnNotReady, TxnListEmpty
<1>4. CASE CheckDispatchCount \/ Respread \/ WaitForRecord \/ EndOfLog \/ StopAtTarget
  BY <1>4 DEF CheckDispatchCount, Respread, WaitForRecord, EndOfLog, StopAtTarget, ProcTxnWorkLoad
<1>5. CASE Finish \/ SendPageRedoEndMark \/ EndMarksSent \/ Join
  BY <1>5 DEF Finish, SendPageRedoEndMark, EndMarksSent, Join
<1>. QED
  BY <1>1, <1>2, <1>3, <1>4, <1>5 DEF Startup

LEMMA OnListType ==
    ASSUME TypeInv
    PROVE  Elements(proc) \in SUBSET Lsn /\ Elements(txnPending) \in SUBSET Lsn
  BY ElementsNat DEF TypeInv

LEMMA TxnListStep ==
    ASSUME TypeInv, ReturnInv, TxnListInv, Next
    PROVE  TxnListInv'
<1>1. /\ Len(log) \in Nat /\ Len(log') \in Nat /\ Len(log') >= Len(log)
      /\ \A n \in 1..Len(log) : n \in 1..Len(log') /\ log'[n] = log[n]
  BY LogStep
<1>2. /\ proc \in Seq(Lsn) /\ txnPending \in Seq(Lsn)
      /\ proc \in Seq(Nat) /\ txnPending \in Seq(Nat)
      /\ Elements(proc) \in SUBSET Nat /\ Elements(txnPending) \in SUBSET Nat
  BY LsnSeq, OnListType, LsnNat DEF TypeInv
<1>3. \A n \in Elements(proc) \union Elements(txnPending) :
         /\ n \in 1..Len(log) /\ OnTxnList(log[n])
         /\ n \in 1..Len(log') /\ OnTxnList(log'[n]) /\ n < Len(log) + 1 /\ n \in Nat
  BY <1>1, <1>2 DEF TxnListInv
<1>4. \A n \in 1..Len(log) : Kind(n)' = Kind(n)
  BY <1>1 DEF Kind
<1>5. proc # <<>> => Head(proc) \in 1..Len(log) /\ Kind(Head(proc))' = log'[Head(proc)'].kind
  BY <1>2, <1>3, ElementsTail DEF Kind
<1>6. CASE Dispatch
  <2>1. PICK r \in NextRecords :
           /\ log' = Append(log, r)
           /\ txnPending' = IF OnTxnList(r) THEN Append(txnPending, Len(log) + 1) ELSE txnPending
    BY <1>6 DEF Dispatch
  <2>2. proc' = proc /\ dpc' \notin {"meet", "leave"}
    BY <1>6 DEF Dispatch, Flush, FlushBatch, Goto
  <2>3. /\ Len(log) + 1 \in Lsn /\ Len(log) + 1 \in 1..Len(log') /\ Len(log) + 1 \in Nat
        /\ log'[Len(log) + 1] = r
    BY <1>1, <2>1, NextRecordType
  <2>4. CASE ~OnTxnList(r)
    BY <1>3, <2>1, <2>2, <2>4 DEF TxnListInv
  <2>5. CASE OnTxnList(r)
    <3>1. Elements(txnPending') = Elements(txnPending) \union {Len(log) + 1}
      BY <1>2, <2>1, <2>3, <2>5, ElementsAppend
    <3>2. Increasing(txnPending')
      BY <1>2, <1>3, <2>1, <2>3, <2>5, IncreasingAppend DEF TxnListInv, Before
    <3>3. Before(Elements(proc), Elements(txnPending'))
      BY <1>3, <3>1 DEF TxnListInv, Before
    <3>4. \A n \in Elements(proc) \union Elements(txnPending') :
             n \in 1..Len(log') /\ OnTxnList(log'[n])
      BY <1>3, <2>3, <2>5, <3>1
    <3>. QED
      BY <2>2, <3>2, <3>3, <3>4 DEF TxnListInv
  <2>. QED
    BY <2>4, <2>5
<1>7. CASE DealWithSegpageSyncRecord \/ PutDone
  <2>1. proc' = proc \o txnPending /\ txnPending' = <<>> /\ dpc' \notin {"meet", "leave"}
    BY <1>7 DEF DealWithSegpageSyncRecord, PutDone, MoveTxnItemToApplyQueue, Goto, Flush, Apply
  <2>2. Elements(proc') = Elements(proc) \union Elements(txnPending) /\ Elements(txnPending') = {}
    BY <1>2, <2>1, ElementsConcat, NoElements
  <2>3. Increasing(proc')
    BY <1>2, <2>1, IncreasingConcat DEF TxnListInv
  <2>4. Increasing(txnPending') /\ Before(Elements(proc'), Elements(txnPending'))
    BY <2>1, <2>2 DEF Increasing, Before
  <2>5. \A n \in Elements(proc') \union Elements(txnPending') :
             n \in 1..Len(log') /\ OnTxnList(log'[n])
    BY <1>3, <2>2
  <2>. QED
    BY <2>1, <2>3, <2>4, <2>5 DEF TxnListInv
<1>8. CASE (ProcTxnItem \/ ApplyShared \/ LeaveShared) /\ proc' # proc
  <2>1. proc # <<>> /\ proc' = Tail(proc) /\ txnPending' = txnPending /\ dpc' = "apply"
    BY <1>8 DEF ProcTxnItem, ApplyShared, LeaveShared, Trying, Goto, TxnListInv
  <2>2. Elements(proc) = {Head(proc)} \union Elements(proc')
    BY <1>2, <2>1, ElementsTail
  <2>3. Increasing(proc')
    BY <1>2, <2>1, HeadTail DEF TxnListInv
  <2>4. Before(Elements(proc'), Elements(txnPending'))
    BY <2>1, <2>2 DEF TxnListInv, Before
  <2>5. \A n \in Elements(proc') \union Elements(txnPending') :
             n \in 1..Len(log') /\ OnTxnList(log'[n])
    BY <1>3, <2>1, <2>2
  <2>. QED
    BY <2>1, <2>3, <2>4, <2>5 DEF TxnListInv
<1>9. ASSUME UNCHANGED <<proc, txnPending>>,
             dpc' \in {"meet", "leave"} => proc # <<>> /\ Kind(Head(proc)) \in {"share", "all"},
             dpc' = "leave" => Kind(Head(proc)) = "share"
      PROVE  TxnListInv'
  <2>1. \A n \in Elements(proc') \union Elements(txnPending') :
             n \in 1..Len(log') /\ OnTxnList(log'[n])
    BY <1>3, <1>9
  <2>2. proc # <<>> => Kind(Head(proc))' = Kind(Head(proc))
    BY <1>1, <1>5, <1>9 DEF Kind
  <2>. QED
    BY <1>9, <2>1, <2>2 DEF TxnListInv
<1>10. CASE (ProcTxnItem \/ ApplyShared \/ LeaveShared) /\ proc' = proc
  <2>1. proc # <<>> /\ txnPending' = txnPending
    BY <1>10 DEF ProcTxnItem, ApplyShared, LeaveShared, Trying, TxnListInv
  <2>2. CASE ProcTxnItem
    BY <1>9, <1>10, <2>1, <2>2 DEF ProcTxnItem, Goto, TxnListInv
  <2>3. CASE ApplyShared
    BY <1>9, <1>10, <2>1, <2>3 DEF ApplyShared, Goto, TxnListInv
  <2>4. CASE LeaveShared
    BY <1>9, <1>10, <2>1, <2>4 DEF LeaveShared, Goto
  <2>. QED
    BY <1>10, <2>2, <2>3, <2>4
<1>11. CASE \/ SegPut \/ SegApply \/ PutPending \/ PutFailed \/ NotBusy \/ TryTxn \/ TxnNotReady
            \/ TxnListEmpty \/ CheckDispatchCount \/ Respread \/ WaitForRecord \/ EndOfLog
            \/ StopAtTarget \/ Finish \/ SendPageRedoEndMark \/ EndMarksSent \/ Join
  <2>1. UNCHANGED <<txnPending, proc>>
    BY <1>11 DEF SegPut, SegApply, PutPending, PutFailed, NotBusy, TryTxn, TxnNotReady,
         TxnListEmpty, CheckDispatchCount, Respread, WaitForRecord, EndOfLog, StopAtTarget,
         Finish, SendPageRedoEndMark, EndMarksSent, Join, listVars
  <2>2. CASE ProcTxnItem \/ ApplyShared
    BY <1>10, <2>1, <2>2
  <2>3. CASE ~(ProcTxnItem \/ ApplyShared)
    <3>1. dpc' = dpc \/ dpc' \notin {"meet", "leave"}
      BY <1>11, <2>3, ControlStep DEF Startup
    <3>. QED
      BY <1>9, <2>1, <3>1 DEF TxnListInv
  <2>. QED
    BY <2>2, <2>3
<1>12. CASE \E w \in Workers : Worker(w)
  <2>1. UNCHANGED <<txnPending, proc, dpc>>
    BY <1>12, WorkerSame DEF listVars, startupVars
  <2>. QED
    BY <1>9, <2>1 DEF TxnListInv
<1>13. CASE Done
  <2>1. UNCHANGED <<txnPending, proc, dpc>>
    BY <1>13 DEF Done, vars, listVars, startupVars
  <2>. QED
    BY <1>9, <2>1 DEF TxnListInv
<1>. QED
  BY <1>6, <1>7, <1>8, <1>10, <1>11, <1>12, <1>13 DEF Next, Startup

-----------------------------------------------------------------------------
(* The lists of the page workers.                                          *)

LEMMA ListTyped ==
    ASSUME TypeInv, NEW w \in Workers
    PROVE  ListTypes(queue[w], From(w), rest[w], pending[w])
  BY DEF TypeInv, ListTypes, From

\* Nothing is read and the worker's lists hold the same.
LEMMA ListSame ==
    ASSUME TypeInv, NEW w \in Workers, ListInv(w), UNCHANGED <<batch, log, item[w]>>,
           Upcoming(queue[w], From(w), rest[w], pending[w])' = Later(w),
           Sorted(queue[w], From(w), rest[w], pending[w])'
    PROVE  ListInv(w)'
  BY DEF ListInv, Later, Recipients

LEMMA ListFrame ==
    ASSUME TypeInv, NEW w \in Workers, ListInv(w), UNCHANGED <<batch, log, item[w]>>,
           UNCHANGED <<queue[w], rest[w], pending[w], From(w)>>
    PROVE  ListInv(w)'
  BY DEF ListInv, Later, Recipients

LEMMA DispatchList ==
    ASSUME TypeInv, NEW w \in Workers, ListInv(w), WorkerInv(w), Dispatch
    PROVE  ListInv(w)'
<1>1. PICK r \in NextRecords : log' = Append(log, r) /\ pending' = Add(r, Len(log) + 1)
  BY DEF Dispatch
<1>. DEFINE n == Len(log) + 1
<1>2. /\ n \in Lsn /\ Len(log) \in Nat /\ Len(log') = n /\ log'[n] = r
      /\ \A m \in 1..Len(log) : log'[m] = log[m]
  BY <1>1, NextRecordType
<1>3. UNCHANGED <<batch, queue, item, rest, wpc>>
  BY DEF Dispatch, workerVars
<1>4. From(w)' = From(w) /\ \A s : Recipients(s)' = Recipients(s)
  BY <1>3 DEF From, Recipients
<1>5. item[w] \in Nat /\ item[w] < n
  <2>1. item[w] \in 0..MaxLsn /\ MaxLsn \in Nat
    BY LsnNat DEF TypeInv
  <2>2. item[w] # 0 => item[w] \in 1..Len(log)
    BY DEF WorkerInv
  <2>. QED
    BY <1>2, <2>1, <2>2
<1>6. {m \in 1..Len(log') : w \in Recipients(log'[m]) /\ m > item[w]} =
      {m \in 1..Len(log) : w \in Recipients(log[m]) /\ m > item[w]}
        \union IF w \in Recipients(r) THEN {n} ELSE {}
  <2>1. \A m : m \in 1..Len(log') <=> m \in 1..Len(log) \/ m = n
    BY <1>2
  <2>. QED
    BY <1>2, <1>5, <2>1
<1>7. \A m \in Later(w) : m < n
  BY <1>2 DEF ListInv
<1>. HIDE DEF n
<1>8. ListTypes(queue[w], From(w), rest[w], pending[w])
  BY ListTyped
<1>9. CASE w \in Recipients(r)
  <2>1. pending'[w] = Append(pending[w], n)
    BY <1>1, <1>9 DEF Add, n
  <2>2. /\ Sorted(queue[w], From(w), rest[w], Append(pending[w], n))
        /\ Upcoming(queue[w], From(w), rest[w], Append(pending[w], n)) = Later(w) \union {n}
    BY <1>2, <1>7, <1>8, AddSorted DEF ListInv, Later, Before
  <2>. QED
    BY <1>3, <1>4, <1>6, <1>9, <2>1, <2>2 DEF ListInv, Later
<1>10. CASE w \notin Recipients(r)
  <2>1. pending'[w] = pending[w]
    BY <1>1, <1>10 DEF Add, n
  <2>. QED
    BY <1>3, <1>4, <1>6, <1>10, <2>1 DEF ListInv, Later
<1>. QED
  BY <1>9, <1>10

LEMMA SegList ==
    ASSUME TypeInv, NEW w \in Workers, ListInv(w), DealWithSegpageSyncRecord
    PROVE  ListInv(w)'
<1>1. PICK r \in NextRecords : log' = Append(log, r) /\ r.kind = "seg"
  BY DEF DealWithSegpageSyncRecord
<1>. DEFINE n == Len(log) + 1
<1>2. /\ n \in Lsn /\ Len(log) \in Nat /\ Len(log') = n /\ log'[n] = r /\ r \in Record
      /\ \A m \in 1..Len(log) : log'[m] = log[m]
  BY <1>1, NextRecordType
<1>3. UNCHANGED <<batch, pending, queue, item, rest, wpc>>
  BY DEF DealWithSegpageSyncRecord, workerVars
<1>4. From(w)' = From(w) /\ \A s : Recipients(s)' = Recipients(s)
  BY <1>3 DEF From, Recipients
<1>5. Recipients(r) = {}
  BY <1>1, <1>2 DEF Recipients, Record
<1>6. {m \in 1..Len(log') : w \in Recipients(log'[m]) /\ m > item[w]} =
      {m \in 1..Len(log) : w \in Recipients(log[m]) /\ m > item[w]}
  <2>1. \A m : m \in 1..Len(log') <=> m \in 1..Len(log) \/ m = n
    BY <1>2
  <2>. QED
    BY <1>2, <1>5, <2>1
<1>. QED
  BY <1>3, <1>4, <1>6 DEF ListInv, Later

LEMMA PutList ==
    ASSUME TypeInv, NEW w \in Workers, ListInv(w), Put, UNCHANGED <<batch, log, item, rest, wpc>>
    PROVE  ListInv(w)'
<1>1. PICK v \in Workers :
              /\ pending[v] # <<>> /\ Len(queue[v]) < QueueSize
              /\ queue' = [queue EXCEPT ![v] = Append(@, pending[v])]
              /\ pending' = [pending EXCEPT ![v] = <<>>]
  BY PutEffect
<1>2. From(w)' = From(w) /\ ListTypes(queue[w], From(w), rest[w], pending[w])
  BY ListTyped DEF From
<1>3. CASE v = w
  <2>1. queue'[w] = Append(queue[w], pending[w]) /\ pending'[w] = <<>>
    BY <1>1, <1>3 DEF TypeInv
  <2>2. pending[w] \in Seq(Lsn) /\ <<>> \in Seq(Lsn)
    BY DEF TypeInv
  <2>3. /\ Sorted(Append(queue[w], pending[w]), From(w), rest[w], <<>>)
        /\ Upcoming(Append(queue[w], pending[w]), From(w), rest[w], <<>>) = Later(w)
    <3>1. Sorted(queue[w], From(w), rest[w], pending[w])
      BY DEF ListInv
    <3>. QED
      BY <1>2, <3>1, PutPendingSorted DEF Later
  <2>. QED
    BY <1>2, <2>1, <2>3, ListSame
<1>4. CASE v # w
  <2>1. UNCHANGED <<queue[w], pending[w]>>
    BY <1>1, <1>4 DEF TypeInv
  <2>. QED
    BY <1>2, <2>1, ListFrame
<1>. QED
  BY <1>3, <1>4

LEMMA EndMarkList ==
    ASSUME TypeInv, NEW w \in Workers, ListInv(w), SendPageRedoEndMark
    PROVE  ListInv(w)'
<1>1. PICK v \in Workers : queue' = [queue EXCEPT ![v] = Append(@, <<>>)] \/ queue' = queue
  BY EndMarkEffect
<1>2. UNCHANGED <<batch, log, item, rest, wpc, pending>>
  BY DEF SendPageRedoEndMark, workerVars, listVars
<1>3. From(w)' = From(w) /\ ListTypes(queue[w], From(w), rest[w], pending[w])
  BY <1>2, ListTyped DEF From
<1>4. CASE queue'[w] = queue[w]
  BY <1>2, <1>3, <1>4, ListFrame
<1>5. CASE queue'[w] = Append(queue[w], <<>>)
  <2>1. pending[w] \in Seq(Lsn) /\ <<>> \in Seq(Lsn)
    BY DEF TypeInv
  <2>2. /\ Sorted(Append(queue[w], <<>>), From(w), rest[w], pending[w])
        /\ Upcoming(Append(queue[w], <<>>), From(w), rest[w], pending[w]) = Later(w)
    <3>1. Sorted(queue[w], From(w), rest[w], pending[w])
      BY DEF ListInv
    <3>. QED
      BY <1>3, <3>1, PutPendingSorted DEF Later
  <2>. QED
    BY <1>2, <1>3, <1>5, <2>2, ListSame
<1>. QED
  BY <1>1, <1>4, <1>5 DEF TypeInv

\* Worker w fetches the first of the records that are meant for it and come after
\* the item it had.
LEMMA FetchLeast ==
    ASSUME TypeInv, NEW w \in Workers, ListInv(w), Fetch(w)
    PROVE  LET n == Head(List(w))
           IN  /\ n \in Lsn /\ n \in Nat /\ n \in Later(w)
               /\ n \in 1..Len(log) /\ w \in Recipients(log[n]) /\ n > item[w]
               /\ \A m \in 1..Len(log) : w \in Recipients(log[m]) /\ m > item[w] => n <= m
               /\ Later(w) = {n} \union Upcoming(queue[w], 2, Tail(List(w)), pending[w])
               /\ Before({n}, Upcoming(queue[w], 2, Tail(List(w)), pending[w]))
               /\ Sorted(queue[w], 2, Tail(List(w)), pending[w])
<1>. DEFINE n == Head(List(w))
            T == Upcoming(queue[w], 2, Tail(List(w)), pending[w])
<1>1. /\ Later(w) = {n} \union T /\ Before({n}, T) /\ n \in Lsn
      /\ Sorted(queue[w], 2, Tail(List(w)), pending[w])
  BY FetchHead, TakeSorted
<1>2. n \in Nat
  BY <1>1, LsnNat
<1>3. Later(w) = {m \in 1..Len(log) : w \in Recipients(log[m]) /\ m > item[w]}
  BY DEF ListInv
<1>. HIDE DEF n, T
<1>4. n \in 1..Len(log) /\ w \in Recipients(log[n]) /\ n > item[w]
  BY <1>1, <1>3
<1>5. ASSUME NEW m \in 1..Len(log), w \in Recipients(log[m]), m > item[w]
      PROVE  n <= m
  <2>1. m = n \/ m \in T
    BY <1>1, <1>3, <1>5
  <2>2. m \in Int
    OBVIOUS
  <2>. QED
    BY <1>1, <1>2, <2>1, <2>2 DEF Before
<1>. QED
  BY <1>1, <1>2, <1>4, <1>5 DEF n, T

LEMMA FetchList ==
    ASSUME TypeInv, NEW w \in Workers, ListInv(w), Fetch(w)
    PROVE  ListInv(w)'
<1>. DEFINE n == Head(List(w))
            T == Upcoming(queue[w], 2, Tail(List(w)), pending[w])
<1>1. /\ n \in Nat /\ n \in Later(w) /\ n > item[w]
      /\ Later(w) = {n} \union T /\ Before({n}, T)
      /\ Sorted(queue[w], 2, Tail(List(w)), pending[w])
  BY FetchLeast
<1>2. /\ UNCHANGED <<batch, log, queue, pending>>
      /\ item'[w] = n /\ rest'[w] = Tail(List(w)) /\ wpc'[w] \in {"apply", "reach"}
  BY DEF Fetch, TypeInv, WGoto, listVars
<1>3. Later(w)' = T /\ From(w)' = 2
  BY <1>2 DEF Later, From, AtRest
<1>4. Later(w) = {m \in 1..Len(log) : w \in Recipients(log[m]) /\ m > item[w]}
  BY DEF ListInv
<1>5. item[w] \in Int /\ Len(log) \in Nat
  BY DEF TypeInv
<1>. HIDE DEF n, T
<1>6. ASSUME NEW m PROVE m \in T <=> m \in 1..Len(log) /\ w \in Recipients(log[m]) /\ m > n
  <2>1. CASE m \in T
    BY <1>1, <1>4, <2>1 DEF Before
  <2>2. CASE m \in 1..Len(log) /\ w \in Recipients(log[m]) /\ m > n
    <3>1. m > item[w] /\ m # n
      BY <1>1, <1>5, <2>2
    <3>. QED
      BY <1>1, <1>4, <2>2, <3>1
  <2>. QED
    BY <2>1, <2>2
<1>7. \A s : Recipients(s)' = Recipients(s)
  BY <1>2 DEF Recipients
<1>8. Later(w)' = {m \in 1..Len(log) : w \in Recipients(log[m]) /\ m > item[w]}'
  BY <1>2, <1>3, <1>6, <1>7
<1>. QED
  BY <1>1, <1>2, <1>3, <1>7, <1>8 DEF ListInv

LEMMA RemoveList ==
    ASSUME TypeInv, NEW w \in Workers, ListInv(w), Pop(w) \/ Exit(w)
    PROVE  ListInv(w)'
<1>1. /\ UNCHANGED <<batch, log, item, rest, pending>>
      /\ queue'[w] = Tail(queue[w]) /\ wpc'[w] \in AtRest
  BY DEF Pop, Exit, TypeInv, WGoto, AtRest, listVars
<1>2. ListTypes(queue[w], From(w), rest[w], pending[w])
  BY ListTyped
<1>3. /\ rest[w] = <<>> /\ queue[w] # <<>> /\ (From(w) = 1 => Head(queue[w]) = <<>>)
  BY DEF Pop, Exit, ListInv, Sorted, From, AtRest, Idle
<1>4. From(w)' = 1
  BY <1>1 DEF From
<1>5. /\ Sorted(Tail(queue[w]), 1, rest[w], pending[w])
      /\ Upcoming(Tail(queue[w]), 1, rest[w], pending[w]) = Later(w)
  BY <1>2, <1>3, RemoveSorted DEF ListInv, Later
<1>. QED
  BY <1>1, <1>4, <1>5, ListSame

LEMMA ListStep ==
    ASSUME TypeInv, NEW w \in Workers, ListInv(w), WorkerInv(w), Next
    PROVE  ListInv(w)'
<1>1. CASE Dispatch \/ DealWithSegpageSyncRecord
  BY <1>1, DispatchList, SegList
<1>2. CASE SegPut \/ PutPending
  <2>1. UNCHANGED <<batch, log, item, rest, wpc>> /\ (Put \/ UNCHANGED <<queue, pending>>)
    BY <1>2 DEF SegPut, PutPending, workerVars
  <2>. QED
    BY <2>1, PutList, ListFrame DEF From
<1>3. CASE SendPageRedoEndMark
  BY <1>3, EndMarkList
<1>4. CASE \/ SegApply \/ PutFailed \/ PutDone \/ NotBusy \/ TryTxn \/ ProcTxnItem \/ ApplyShared
           \/ LeaveShared \/ TxnNotReady
           \/ TxnListEmpty \/ CheckDispatchCount \/ Respread \/ WaitForRecord \/ EndOfLog
           \/ StopAtTarget \/ Finish \/ EndMarksSent \/ Join
  <2>1. UNCHANGED <<batch, log, item, rest, wpc, queue, pending>>
    BY <1>4 DEF SegApply, PutFailed, PutDone, NotBusy, TryTxn, ProcTxnItem, ApplyShared,
         LeaveShared, TxnNotReady,
         TxnListEmpty, CheckDispatchCount, Respread, WaitForRecord, EndOfLog, StopAtTarget,
         Finish, EndMarksSent, Join, listVars, workerVars
  <2>. QED
    BY <2>1, ListFrame DEF From
<1>5. CASE Worker(w)
  <2>1. CASE Fetch(w) \/ Pop(w) \/ Exit(w)
    BY <2>1, FetchList, RemoveList
  <2>2. CASE ~(Fetch(w) \/ Pop(w) \/ Exit(w))
    <3>1. UNCHANGED <<batch, log, item, rest, queue, pending>>
      BY <1>5, <2>2 DEF Worker, ReadTransed, ApplySingle, Reach, Publish, Leave, Unblock, listVars
    <3>2. wpc'[w] = wpc[w] \/ (wpc[w] \notin AtRest /\ wpc'[w] \notin AtRest)
      BY <1>5, <2>2 DEF Worker, ReadTransed, ApplySingle, Reach, Publish, Leave, Unblock, AtRest,
                    WGoto, TypeInv
    <3>3. From(w)' = From(w)
      BY <3>2 DEF From
    <3>. QED
      BY <3>1, <3>3, ListFrame
  <2>. QED
    BY <2>1, <2>2
<1>6. CASE \E v \in Workers \ {w} : Worker(v)
  BY <1>6, WorkerSame, ListFrame DEF From, listVars
<1>7. CASE Done
  <2>1. UNCHANGED <<batch, log, item, rest, wpc, queue, pending>>
    BY <1>7 DEF Done, vars, listVars, workerVars
  <2>. QED
    BY <2>1, ListFrame DEF From
<1>. QED
  BY <1>1, <1>2, <1>3, <1>4, <1>5, <1>6, <1>7 DEF Next, Startup

-----------------------------------------------------------------------------
(* A page worker and its item.                                             *)

\* A record that more than one thread replays is of one of these kinds.
LEMMA SharedKinds ==
    ASSUME NEW r \in Record, NEW w \in Workers, w \in Recipients(r), r.kind # "txn",
           ~(r.kind \in {"page", "create", "clean", "block"} /\ Cardinality(r.to) = 1)
    PROVE  r.kind \in {"page", "create", "share", "all"}
<1>1. r.kind \in Kinds /\ w \in r.to
  BY DEF Record, Recipients
<1>2. r.kind # "seg"
  BY <1>1 DEF Record
<1>3. r.kind \notin {"clean", "block"}
  BY DEF Record
<1>. QED
  BY <1>1, <1>2, <1>3 DEF Kinds

\* The worker stays as it is, whatever the startup thread or another worker does.
LEMMA WorkerFrame ==
    ASSUME TypeInv, NEW w \in Workers, WorkerInv(w), batch' = batch,
           \A n \in 1..Len(log) : n \in 1..Len(log') /\ log'[n] = log[n],
           UNCHANGED <<wpc[w], item[w], replaying[w], completed[w]>>
    PROVE  WorkerInv(w)'
<1>1. item[w] # 0 => log'[item[w]] = log[item[w]] /\ item[w] \in 1..Len(log')
  BY DEF WorkerInv
<1>2. \A r : Recipients(r)' = Recipients(r)
  BY DEF Recipients
<1>3. CASE item[w] = 0
  <2>1. wpc[w] \in AtRest
    BY <1>3 DEF WorkerInv
  <2>. QED
    BY <1>3, <2>1 DEF WorkerInv, AtRest, InHand
<1>4. CASE item[w] # 0
  <2>1. Kind(item[w])' = Kind(item[w]) /\ Alone(item[w])' = Alone(item[w])
    BY <1>1, <1>4 DEF Kind, Alone
  <2>. QED
    BY <1>1, <1>2, <1>4, <2>1 DEF WorkerInv
<1>. QED
  BY <1>3, <1>4

LEMMA WorkerOwnStep ==
    ASSUME TypeInv, NEW w \in Workers, ListInv(w), WorkerInv(w), Worker(w)
    PROVE  WorkerInv(w)'
<1>0. UNCHANGED <<batch, log>>
  BY WorkerSame
<1>1. UNCHANGED <<batch, log>> /\ \A r : Recipients(r)' = Recipients(r)
  BY <1>0 DEF Recipients
<1>2. \A n : Kind(n)' = Kind(n) /\ Alone(n)' = Alone(n)
  BY <1>1 DEF Kind, Alone
<1>3. item[w] \in Int /\ completed[w] \in Int /\ Len(log) \in Nat
  BY DEF TypeInv
<1>4. CASE Fetch(w)
  <2>0. PICK n : n = Head(List(w))
    OBVIOUS
  <2>1. n \in Nat /\ n \in 1..Len(log) /\ w \in Recipients(log[n]) /\ n > item[w]
    BY <1>4, <2>0, FetchLeast
  <2>2. /\ item'[w] = n /\ replaying'[w] = n /\ completed'[w] = completed[w]
        /\ wpc'[w] = IF Alone(n) THEN "apply" ELSE "reach"
    BY <1>4, <2>0 DEF Fetch, WGoto, Read, TypeInv
  <2>3. completed'[w] <= n
    BY <1>3, <2>1, <2>2 DEF WorkerInv
  <2>4. item'[w] \in 1..Len(log') /\ w \in Recipients(log'[item'[w]])
    BY <1>1, <2>1, <2>2
  <2>5. Alone(n)' = Alone(n)
    BY <1>2
  <2>6. completed'[w] # n + 1 /\ completed'[w] <= n + 1 /\ n # 0
    BY <1>3, <2>1, <2>2, <2>3
  <2>. QED
    BY <1>1, <2>1, <2>2, <2>4, <2>5, <2>6 DEF WorkerInv, AtRest, InHand, Alone, Kind
<1>5. CASE Pop(w) \/ Exit(w)
  <2>1. UNCHANGED <<item, replaying, completed>> /\ wpc'[w] \in AtRest /\ wpc[w] \notin InHand
    BY <1>5 DEF Pop, Exit, WGoto, TypeInv, AtRest, InHand
  <2>. QED
    BY <1>1, <2>1 DEF WorkerInv, AtRest, InHand, Kind, Alone
<1>6. CASE ReadTransed(w)
  <2>1. UNCHANGED <<item, replaying, completed, wpc>>
    BY <1>6 DEF ReadTransed
  <2>. QED
    BY <1>1, <2>1, WorkerFrame
<1>7. CASE ApplySingle(w)
  <2>1. /\ UNCHANGED <<item, replaying>> /\ completed'[w] = item[w] + 1
        /\ wpc'[w] = IF Kind(item[w]) = "block" THEN "block" ELSE "next"
        /\ wpc[w] = "apply"
    BY <1>7 DEF ApplySingle, WGoto, SetCompletedReadEndPtr, End, TypeInv
  <2>. QED
    BY <1>1, <1>3, <2>1 DEF WorkerInv, AtRest, InHand, Kind, Alone
<1>8. CASE Reach(w)
  <2>1. /\ UNCHANGED <<item, replaying, completed>> /\ wpc[w] = "reach"
        /\ wpc'[w] = IF Kind(item[w]) \in {"page", "create"} THEN "wait" ELSE "publish"
    BY <1>8 DEF Reach, WGoto, TypeInv
  <2>2. item[w] \in 1..Len(log) /\ w \in Recipients(log[item[w]]) /\ ~Alone(item[w])
    BY <2>1 DEF WorkerInv, AtRest
  <2>3. log[item[w]] \in Record
    BY <2>2 DEF TypeInv
  <2>4. Kind(item[w]) \in {"page", "create", "share", "all"}
    BY <2>2, <2>3, SharedKinds DEF Kind, Alone
  <2>5. completed[w] # item[w] + 1
    BY <2>1 DEF WorkerInv, InHand
  <2>. QED
    BY <1>1, <1>3, <2>1, <2>2, <2>4, <2>5 DEF WorkerInv, AtRest, InHand, Kind, Alone
<1>9. CASE Publish(w)
  <2>1. /\ UNCHANGED <<item, replaying>> /\ completed'[w] = item[w] + 1 /\ wpc[w] = "publish"
        /\ wpc'[w] = IF Kind(item[w]) = "share" THEN "wait" ELSE "next"
    BY <1>9 DEF Publish, WGoto, SetCompletedReadEndPtr, End, TypeInv
  <2>. QED
    BY <1>1, <1>3, <2>1 DEF WorkerInv, AtRest, InHand, Kind, Alone
<1>10. CASE Leave(w)
  <2>1. /\ UNCHANGED <<item, replaying>> /\ completed'[w] = item[w] + 1 /\ wpc[w] = "wait"
        /\ wpc'[w] = "next"
    BY <1>10 DEF Leave, WGoto, SetCompletedReadEndPtr, End, TypeInv
  <2>. QED
    BY <1>1, <1>3, <2>1 DEF WorkerInv, AtRest, InHand
<1>11. CASE Unblock(w)
  <2>1. UNCHANGED <<item, replaying, completed>> /\ wpc[w] = "block" /\ wpc'[w] = "next"
    BY <1>11 DEF Unblock, WGoto, TypeInv
  <2>. QED
    BY <1>1, <1>3, <2>1 DEF WorkerInv, AtRest, InHand
<1>. QED
  BY <1>4, <1>5, <1>6, <1>7, <1>8, <1>9, <1>10, <1>11 DEF Worker

\* The startup thread leaves the workers as they are.
LEMMA StartupSame ==
    ASSUME Startup
    PROVE  UNCHANGED workerVars
  BY DEF Startup, Dispatch, DealWithSegpageSyncRecord, SegPut, SegApply, PutPending, PutFailed,
         PutDone, NotBusy, TryTxn, ProcTxnItem, ApplyShared, LeaveShared, TxnNotReady,
         TxnListEmpty, CheckDispatchCount, Respread, WaitForRecord, EndOfLog, StopAtTarget,
         Finish, SendPageRedoEndMark, EndMarksSent, Join

LEMMA WorkerInvStep ==
    ASSUME TypeInv, NEW w \in Workers, ListInv(w), WorkerInv(w), Next
    PROVE  WorkerInv(w)'
<1>1. batch' = batch /\ \A n \in 1..Len(log) : n \in 1..Len(log') /\ log'[n] = log[n]
  BY LogStep
<1>2. CASE Worker(w)
  BY <1>2, WorkerOwnStep
<1>3. CASE Startup \/ Done
  <2>1. UNCHANGED workerVars
    BY <1>3, StartupSame DEF Done, vars
  <2>. QED
    BY <1>1, <2>1, WorkerFrame DEF workerVars
<1>4. CASE \E v \in Workers \ {w} : Worker(v)
  BY <1>1, <1>4, WorkerSame, WorkerFrame
<1>. QED
  BY <1>2, <1>3, <1>4 DEF Next

-----------------------------------------------------------------------------
(* The counts of the items.                                                *)

LEMMA CountedFinite ==
    ASSUME NEW n
    PROVE  /\ IsFiniteSet(Counted(n)) /\ Cardinality(Counted(n)) \in Nat
           /\ Cardinality(Counted(n)) <= NumWorkers
  BY WorkersNat, FS_Subset, FS_CardinalityType DEF Counted

\* Neither the workers' nor the startup thread's part of the count changes.
LEMMA CountFrame ==
    ASSUME NEW n \in Lsn, CountInv(n), refCount'[n] = refCount[n],
           n > Len(log) <=> n > Len(log'),
           n <= Len(log) => Counted(n)' = Counted(n) /\ TxnCounted(n)' = TxnCounted(n),
           Len(log) \in Nat
    PROVE  CountInv(n)'
<1>1. n \in Nat
  BY LsnNat
<1>2. CASE n > Len(log)
  BY <1>2 DEF CountInv
<1>3. CASE n <= Len(log)
  <2>1. ~(n > Len(log)) /\ ~(n > Len(log'))
    BY <1>1, <1>3
  <2>. QED
    BY <1>3, <2>1 DEF CountInv
<1>. QED
  BY <1>1, <1>2, <1>3

LEMMA ReadCount ==
    ASSUME TypeInv, \A w \in Workers : WorkerInv(w), TxnListInv, TxnListInv',
           Dispatch \/ DealWithSegpageSyncRecord,
           NEW n \in Lsn, CountInv(n)
    PROVE  CountInv(n)'
<1>1. PICK r \in NextRecords : log' = Append(log, r)
  BY DEF Dispatch, DealWithSegpageSyncRecord
<1>2. /\ Len(log) \in Nat /\ Len(log') = Len(log) + 1 /\ log'[Len(log) + 1] = r /\ r \in Record
      /\ \A m \in 1..Len(log) : log'[m] = log[m]
  BY <1>1, NextRecordType
<1>3. n \in Nat /\ n >= 1
  BY LsnNat
<1>4. UNCHANGED <<refCount, wpc, item>> /\ dpc = "read" /\ dpc' \notin {"meet", "leave"}
  BY DEF Dispatch, DealWithSegpageSyncRecord, itemVars, workerVars, Flush, FlushBatch, Goto
<1>5. \A m \in Lsn : m # Len(log) + 1 => (OnList(m)' <=> OnList(m))
  <2>1. proc \in Seq(Lsn) /\ txnPending \in Seq(Lsn) /\ Len(log) + 1 \in Lsn
    BY NextRecordType DEF TypeInv
  <2>2. CASE Dispatch
    <3>1. proc' = proc /\ (txnPending' = txnPending \/ txnPending' = Append(txnPending, Len(log) + 1))
      BY <2>2 DEF Dispatch
    <3>2. Elements(Append(txnPending, Len(log) + 1)) = Elements(txnPending) \union {Len(log) + 1}
      BY <2>1, ElementsAppend
    <3>3. Elements(txnPending') \subseteq Elements(txnPending) \union {Len(log) + 1}
          /\ Elements(txnPending) \subseteq Elements(txnPending')
      BY <3>1, <3>2
    <3>. QED
      BY <3>1, <3>3 DEF OnList
  <2>3. CASE DealWithSegpageSyncRecord
    <3>1. proc' = proc \o txnPending /\ txnPending' = <<>>
      BY <2>3 DEF DealWithSegpageSyncRecord, MoveTxnItemToApplyQueue
    <3>. QED
      BY <2>1, <3>1, ElementsConcat, NoElements DEF OnList
  <2>. QED
    BY <2>2, <2>3
<1>6. CASE n <= Len(log)
  <2>1. n \in 1..Len(log) /\ ~(n > Len(log)) /\ ~(n > Len(log')) /\ n # Len(log) + 1
    BY <1>2, <1>3, <1>6
  <2>2. Kind(n)' = Kind(n)
    BY <1>2, <2>1 DEF Kind
  <2>3. \A w \in Workers : InCount(w, n)' <=> InCount(w, n)
    BY <1>4, <2>2 DEF InCount, Passed
  <2>4. Counted(n)' = Counted(n)
    BY <2>3 DEF Counted
  <2>5. TxnCounted(n)' = TxnCounted(n)
    BY <1>4, <1>5, <2>1, <2>2 DEF TxnCounted
  <2>. QED
    BY <1>2, <1>4, <2>1, <2>4, <2>5, CountFrame
<1>7. CASE n = Len(log) + 1
  <2>1. refCount[n] = 0
    BY <1>2, <1>3, <1>7 DEF CountInv
  <2>2. \A w \in Workers : item[w] \in Nat /\ item[w] < n
    <3>1. \A w \in Workers : item[w] \in 0..MaxLsn /\ (item[w] # 0 => item[w] \in 1..Len(log))
      BY DEF WorkerInv, TypeInv
    <3>. QED
      BY <1>2, <1>7, <3>1, LsnNat
  <2>3. Counted(n)' = {}
    BY <1>3, <1>4, <2>2 DEF Counted, InCount, Passed
  <2>4. ~TxnCounted(n)'
    <3>1. CASE r.kind = "all"
      <4>1. Dispatch /\ OnTxnList(r)
        <5>1. CASE DealWithSegpageSyncRecord
          <6>1. PICK s \in NextRecords : s.kind = "seg" /\ log' = Append(log, s)
            BY <5>1 DEF DealWithSegpageSyncRecord
          <6>2. log'[Len(log) + 1] = s
            BY <6>1, NextRecordType
          <6>. QED
            BY <1>2, <3>1, <6>1, <6>2
        <5>. QED
          BY <3>1, <5>1 DEF OnTxnList
      <4>2. txnPending' = Append(txnPending, n)
        <5>1. PICK s \in NextRecords :
                 /\ log' = Append(log, s)
                 /\ txnPending' = IF OnTxnList(s) THEN Append(txnPending, Len(log) + 1) ELSE txnPending
          BY <4>1 DEF Dispatch
        <5>2. s = r
          BY <1>2, <5>1, NextRecordType
        <5>. QED
          BY <1>7, <4>1, <5>1, <5>2
      <4>3. n \in Elements(txnPending')
        BY <4>2, ElementsAppend DEF TypeInv
      <4>. QED
        BY <1>4, <4>3 DEF TxnCounted, OnList
    <3>2. CASE r.kind # "all"
      BY <1>2, <1>4, <1>7, <3>2 DEF TxnCounted, Kind
    <3>. QED
      BY <3>1, <3>2
  <2>5. ~(n > Len(log')) /\ refCount'[n] = 0
    BY <1>2, <1>4, <1>7, <2>1
  <2>. QED
    BY <2>3, <2>4, <2>5, FS_EmptySet DEF CountInv
<1>8. CASE n > Len(log) + 1
  <2>1. n > Len(log) /\ n > Len(log')
    BY <1>2, <1>3, <1>8
  <2>. QED
    BY <1>4, <2>1 DEF CountInv
<1>. QED
  BY <1>2, <1>3, <1>6, <1>7, <1>8

LEMMA StartupCounted ==
    ASSUME NEW n, UNCHANGED <<log, wpc, item>>
    PROVE  Counted(n)' = Counted(n) /\ Kind(n)' = Kind(n)
<1>1. Kind(n)' = Kind(n)
  BY DEF Kind
<1>2. \A w \in Workers : InCount(w, n)' <=> InCount(w, n)
  BY <1>1 DEF InCount, Passed
<1>. QED
  BY <1>1, <1>2 DEF Counted

\* The startup thread takes the head from its list.
LEMMA TailOnList ==
    ASSUME TypeInv, TxnListInv, proc # <<>>, proc' = Tail(proc), txnPending' = txnPending,
           NEW h, h = Head(proc)
    PROVE  /\ OnList(h) /\ ~OnList(h)'
           /\ \A m : m # h => (OnList(m)' <=> OnList(m))
<1>1. proc \in Seq(Lsn) /\ proc \in Seq(Nat) /\ h \in Nat
  BY LsnSeq, HeadOfList, LsnNat DEF TypeInv
<1>2. Elements(proc) = {h} \union Elements(proc')
  BY <1>1, ElementsTail
<1>3. Before({h}, Elements(proc'))
  BY <1>1, HeadTail DEF TxnListInv
<1>4. Before({h}, Elements(txnPending))
  BY <1>2 DEF TxnListInv, Before
<1>5. h \notin Elements(proc') /\ h \notin Elements(txnPending)
  BY <1>1, <1>3, <1>4 DEF Before
<1>. QED
  BY <1>2, <1>5 DEF OnList

LEMMA TxnCount ==
    ASSUME TypeInv, TxnListInv, ProcTxnItem \/ ApplyShared \/ LeaveShared,
           NEW n \in Lsn, CountInv(n)
    PROVE  CountInv(n)'
<1>1. UNCHANGED <<log, wpc, item, txnPending>> /\ proc # <<>>
  BY DEF ProcTxnItem, ApplyShared, LeaveShared, workerVars, Trying, TxnListInv
<1>2. Counted(n)' = Counted(n) /\ Kind(n)' = Kind(n)
  BY <1>1, StartupCounted
<1>3. PICK h : h = Head(proc)
  OBVIOUS
<1>4. h \in Lsn /\ h \in Nat /\ n \in Nat /\ Len(log) \in Nat
  <2>1. h \in Lsn /\ Len(log) \in Nat
    BY <1>1, <1>3, HeadOfList DEF TypeInv
  <2>. QED
    BY <2>1, LsnNat
<1>5. OnList(h) /\ h \in 1..Len(log) /\ ~(h > Len(log))
  <2>1. h \in Elements(proc)
    BY <1>1, <1>3, ElementsTail DEF TypeInv
  <2>2. h \in 1..Len(log)
    BY <2>1 DEF TxnListInv
  <2>. QED
    BY <1>4, <2>1, <2>2 DEF OnList
<1>6. AtHead(h) /\ \A m : AtHead(m) => m = h
  BY <1>1, <1>3 DEF AtHead
<1>7. Cardinality(Counted(n)) \in Nat /\ refCount[n] \in Int /\ refCount[h] \in Int
  BY <1>4, CountedFinite DEF TypeInv
<1>8. refCount \in [Lsn -> Int]
  BY DEF TypeInv
<1>9. CASE ProcTxnItem /\ Kind(h) \in {"share", "all"}
  <2>1. /\ refCount' = [refCount EXCEPT ![h] = @ + 1] /\ proc' = proc
        /\ dpc = "apply" /\ dpc' = "meet"
    BY <1>3, <1>9 DEF ProcTxnItem, Trying, Goto
  <2>2. AtHead(n)' = AtHead(n) /\ (OnList(n)' <=> OnList(n))
    BY <1>1, <2>1 DEF AtHead, OnList
  <2>3. CASE n = h
    <3>1. ~TxnCounted(n) /\ TxnCounted(n)'
      BY <1>5, <1>6, <2>1, <2>2, <2>3 DEF TxnCounted
    <3>2. refCount'[n] = refCount[n] + 1
      BY <1>8, <1>4, <2>1, <2>3
    <3>. QED
      BY <1>1, <1>2, <1>5, <1>7, <2>3, <3>1, <3>2 DEF CountInv
  <2>4. CASE n # h
    <3>1. TxnCounted(n)' = TxnCounted(n) /\ refCount'[n] = refCount[n]
      BY <1>2, <1>6, <1>8, <2>1, <2>2, <2>4 DEF TxnCounted
    <3>. QED
      BY <1>1, <1>2, <1>4, <3>1, CountFrame
  <2>. QED
    BY <2>3, <2>4
<1>10. CASE ApplyShared /\ Kind(h) = "share"
  <2>1. UNCHANGED <<refCount, proc>> /\ dpc = "meet" /\ dpc' = "leave"
    BY <1>3, <1>10 DEF ApplyShared, Goto
  <2>2. TxnCounted(n)' = TxnCounted(n)
    BY <1>1, <1>2, <2>1 DEF TxnCounted, AtHead, OnList
  <2>. QED
    BY <1>1, <1>2, <1>4, <2>1, <2>2, CountFrame
<1>11. CASE \/ ProcTxnItem /\ Kind(h) \notin {"share", "all"}
            \/ ApplyShared /\ Kind(h) # "share"
  <2>1. /\ refCount' = refCount /\ proc' = Tail(proc) /\ dpc' = "apply"
        /\ (dpc = "apply" /\ Kind(h) # "all") \/ (dpc = "meet" /\ Kind(h) = "all")
    BY <1>3, <1>11 DEF ProcTxnItem, ApplyShared, Trying, Goto, TxnListInv
  <2>2. /\ OnList(h) /\ ~OnList(h)'
        /\ \A m : m # h => (OnList(m)' <=> OnList(m))
    BY <1>1, <1>3, <2>1, TailOnList
  <2>3. TxnCounted(n)' = TxnCounted(n)
    BY <1>2, <1>6, <2>1, <2>2 DEF TxnCounted
  <2>. QED
    BY <1>1, <1>2, <1>4, <2>1, <2>3, CountFrame
<1>12. CASE LeaveShared
  <2>1. /\ refCount' = [refCount EXCEPT ![h] = @ - 1] /\ proc' = Tail(proc)
        /\ dpc = "leave" /\ dpc' = "apply" /\ Kind(h) = "share"
    BY <1>3, <1>12 DEF LeaveShared, Unref, Goto, TxnListInv
  <2>2. /\ OnList(h) /\ ~OnList(h)'
        /\ \A m : m # h => (OnList(m)' <=> OnList(m))
    BY <1>1, <1>3, <2>1, TailOnList
  <2>3. CASE n = h
    <3>1. TxnCounted(n) /\ ~TxnCounted(n)'
      BY <1>2, <1>6, <2>1, <2>3 DEF TxnCounted
    <3>2. refCount'[n] = refCount[n] - 1
      BY <1>8, <1>4, <2>1, <2>3
    <3>. QED
      BY <1>1, <1>2, <1>5, <1>7, <2>3, <3>1, <3>2 DEF CountInv
  <2>4. CASE n # h
    <3>1. TxnCounted(n)' = TxnCounted(n) /\ refCount'[n] = refCount[n]
      BY <1>2, <1>6, <1>8, <2>1, <2>2, <2>4 DEF TxnCounted
    <3>. QED
      BY <1>1, <1>2, <1>4, <3>1, CountFrame
  <2>. QED
    BY <2>3, <2>4
<1>. QED
  BY <1>9, <1>10, <1>11, <1>12

LEMMA StartupCount ==
    ASSUME TypeInv, ReturnInv, \A w \in Workers : WorkerInv(w), TxnListInv, TxnListInv', Startup,
           NEW n \in Lsn, CountInv(n)
    PROVE  CountInv(n)'
<1>1. CASE Dispatch \/ DealWithSegpageSyncRecord
  BY <1>1, ReadCount
<1>2. CASE ProcTxnItem \/ ApplyShared \/ LeaveShared
  BY <1>2, TxnCount
<1>3. CASE ~(Dispatch \/ DealWithSegpageSyncRecord \/ ProcTxnItem \/ ApplyShared \/ LeaveShared)
  <2>0. Len(log) \in Nat
    BY DEF TypeInv
  <2>1. UNCHANGED <<log, refCount>>
    BY <1>3 DEF Startup, SegPut, SegApply, PutPending, PutFailed,
         PutDone, NotBusy, TryTxn, TxnNotReady,
         TxnListEmpty, CheckDispatchCount, Respread, WaitForRecord, EndOfLog, StopAtTarget,
         Finish, SendPageRedoEndMark, EndMarksSent, Join, itemVars
  <2>2. UNCHANGED <<wpc, item>>
    BY StartupSame DEF workerVars
  <2>3. Counted(n)' = Counted(n) /\ Kind(n)' = Kind(n)
    BY <2>1, <2>2, StartupCounted
  <2>4. dpc \notin {"meet", "leave"}
    BY <1>3 DEF Startup, SegPut, SegApply, PutPending, PutFailed,
         PutDone, NotBusy, TryTxn, TxnNotReady, Trying,
         TxnListEmpty, CheckDispatchCount, Respread, WaitForRecord, EndOfLog, StopAtTarget,
         Finish, SendPageRedoEndMark, EndMarksSent, Join
  <2>5. dpc' \notin {"meet", "leave"}
    BY <1>3, <2>4, ControlStep
  <2>6. OnList(n)' <=> OnList(n)
    <3>1. CASE PutDone
      <4>1. proc' = proc \o txnPending /\ txnPending' = <<>>
        BY <3>1 DEF PutDone, MoveTxnItemToApplyQueue
      <4>. QED
        BY <4>1, ElementsConcat, NoElements DEF OnList, TypeInv
    <3>2. CASE ~PutDone
      <4>1. UNCHANGED <<proc, txnPending>>
        BY <1>3, <3>2 DEF Startup, SegPut, SegApply, PutPending, PutFailed,
         NotBusy, TryTxn, TxnNotReady,
         TxnListEmpty, CheckDispatchCount, Respread, WaitForRecord, EndOfLog, StopAtTarget,
         Finish, SendPageRedoEndMark, EndMarksSent, Join, listVars
      <4>. QED
        BY <4>1 DEF OnList
    <3>. QED
      BY <3>1, <3>2
  <2>7. TxnCounted(n)' = TxnCounted(n)
    BY <2>3, <2>4, <2>5, <2>6 DEF TxnCounted
  <2>. QED
    BY <2>0, <2>1, <2>3, <2>7, CountFrame
<1>. QED
  BY <1>1, <1>2, <1>3

LEMMA WorkerCount ==
    ASSUME TypeInv, NEW w \in Workers, ListInv(w), WorkerInv(w), Worker(w),
           NEW n \in Lsn, CountInv(n)
    PROVE  CountInv(n)'
<1>1. UNCHANGED <<log, batch, proc, txnPending, dpc>> /\ Len(log) \in Nat /\ n \in Nat
  <2>1. UNCHANGED <<log, batch, proc, txnPending, dpc>>
    BY WorkerSame DEF listVars, startupVars
  <2>. QED
    BY <2>1, LsnNat DEF TypeInv
<1>2. Kind(n)' = Kind(n) /\ TxnCounted(n)' = TxnCounted(n)
  BY <1>1 DEF Kind, TxnCounted, AtHead, OnList
<1>3. \A v \in Workers \ {w} : InCount(v, n)' <=> InCount(v, n)
  BY <1>2, WorkerSame DEF InCount, Passed
<1>4. item[w] \in Nat /\ refCount \in [Lsn -> Int]
  BY LsnNat DEF TypeInv
<1>5. ASSUME InCount(w, n)' <=> InCount(w, n), refCount'[n] = refCount[n] PROVE CountInv(n)'
  <2>1. Counted(n)' = Counted(n)
    BY <1>3, <1>5 DEF Counted
  <2>. QED
    BY <1>1, <1>2, <1>5, <2>1, CountFrame
<1>6. CASE Fetch(w)
  <2>0. PICK h : h = Head(List(w))
    OBVIOUS
  <2>1. /\ h \in Nat /\ h > item[w]
        /\ \A m \in 1..Len(log) : w \in Recipients(log[m]) /\ m > item[w] => h <= m
    BY <1>6, <2>0, FetchLeast
  <2>2. /\ item'[w] = h /\ refCount' = refCount
        /\ wpc[w] \in {"top", "next"} /\ wpc'[w] \in {"apply", "reach"}
    BY <1>6, <2>0 DEF Fetch, WGoto, TypeInv, itemVars
  <2>3. CASE n > Len(log)
    BY <1>1, <2>2, <2>3 DEF CountInv
  <2>4. CASE n <= Len(log)
    <3>1. n \in 1..Len(log)
      BY <1>1, <2>4, LsnNat
    <3>2. Kind(n) = "all" => w \in Recipients(log[n])
      <4>1. log \in Seq(Record)
        BY DEF TypeInv
      <4>2. log[n] \in Record
        BY <3>1, <4>1
      <4>. QED
        BY <4>2 DEF Record, Recipients, Kind
    <3>3. Kind(n) = "all" => (n < h <=> n < item[w] \/ n = item[w])
      BY <1>1, <1>4, <2>1, <3>1, <3>2
    <3>4. InCount(w, n) <=> Kind(n) = "all" /\ (n < item[w] \/ n = item[w])
      BY <2>2 DEF InCount, Passed, InHand
    <3>5. InCount(w, n)' <=> Kind(n) = "all" /\ n < h
      BY <1>2, <2>2 DEF InCount, Passed, InHand
    <3>. QED
      BY <1>5, <2>2, <3>3, <3>4, <3>5
  <2>. QED
    BY <1>1, <2>3, <2>4
<1>7. CASE Pop(w) \/ Exit(w) \/ ReadTransed(w)
  <2>1. /\ UNCHANGED <<item, refCount>>
        /\ wpc'[w] = wpc[w] \/ (wpc[w] \notin InHand /\ wpc'[w] \notin InHand)
    BY <1>7 DEF Pop, Exit, ReadTransed, WGoto, TypeInv, itemVars, InHand
  <2>2. InCount(w, n)' <=> InCount(w, n)
    BY <1>2, <2>1 DEF InCount, Passed, InHand
  <2>. QED
    BY <1>5, <2>1, <2>2
<1>8. CASE ApplySingle(w) \/ Unblock(w)
  <2>1. /\ UNCHANGED <<item, refCount>> /\ wpc[w] \in {"apply", "block"}
        /\ wpc'[w] \in {"next", "block"}
    BY <1>8 DEF ApplySingle, Unblock, WGoto, TypeInv, itemVars
  <2>2. Kind(item[w]) # "all"
    BY <2>1 DEF WorkerInv, Alone
  <2>3. InCount(w, n)' <=> InCount(w, n)
    BY <1>2, <2>1, <2>2 DEF InCount, Passed
  <2>. QED
    BY <1>5, <2>1, <2>3
<1>9. CASE Publish(w)
  <2>1. /\ UNCHANGED <<item, refCount>> /\ wpc[w] = "publish"
        /\ wpc'[w] = IF Kind(item[w]) = "share" THEN "wait" ELSE "next"
    BY <1>9 DEF Publish, WGoto, TypeInv, itemVars
  <2>2. Kind(item[w]) \in {"share", "all"}
    BY <2>1 DEF WorkerInv
  <2>3. InCount(w, n)' <=> InCount(w, n)
    BY <1>2, <2>1, <2>2 DEF InCount, Passed, InHand
  <2>. QED
    BY <1>5, <2>1, <2>3
<1>10. CASE Reach(w)
  <2>1. /\ item' = item /\ refCount' = [refCount EXCEPT ![item[w]] = @ + 1] /\ wpc[w] = "reach"
        /\ wpc'[w] \in {"wait", "publish"}
    BY <1>10 DEF Reach, WGoto, TypeInv
  <2>2. item[w] \in Lsn /\ item[w] \in 1..Len(log)
    BY <2>1, ItemType DEF AtRest
  <2>3. CASE n = item[w]
    <3>1. ~InCount(w, n) /\ InCount(w, n)'
      BY <1>4, <2>1, <2>3 DEF InCount, Passed, InHand
    <3>2. Counted(n)' = Counted(n) \union {w} /\ w \notin Counted(n)
      BY <1>3, <3>1 DEF Counted
    <3>3. Cardinality(Counted(n)') = Cardinality(Counted(n)) + 1 /\ Cardinality(Counted(n)) \in Nat
      BY <3>2, CountedFinite, FS_AddElement
    <3>4. refCount'[n] = refCount[n] + 1 /\ ~(n > Len(log))
      BY <1>1, <1>4, <2>1, <2>2, <2>3
    <3>. QED
      BY <1>1, <1>2, <3>3, <3>4 DEF CountInv
  <2>4. CASE n # item[w]
    <3>1. InCount(w, n)' <=> InCount(w, n)
      BY <1>2, <2>1, <2>4 DEF InCount, Passed
    <3>2. refCount'[n] = refCount[n]
      BY <1>4, <2>1, <2>4
    <3>. QED
      BY <1>5, <3>1, <3>2
  <2>. QED
    BY <2>3, <2>4
<1>11. CASE Leave(w)
  <2>1. /\ item' = item /\ refCount' = [refCount EXCEPT ![item[w]] = @ - 1] /\ wpc[w] = "wait"
        /\ wpc'[w] = "next"
    BY <1>11 DEF Leave, Unref, WGoto, TypeInv
  <2>2. item[w] \in Lsn /\ item[w] \in 1..Len(log) /\ Kind(item[w]) # "all"
    BY <2>1, ItemType DEF AtRest, WorkerInv
  <2>3. CASE n = item[w]
    <3>1. InCount(w, n) /\ ~InCount(w, n)'
      BY <1>2, <2>1, <2>2, <2>3 DEF InCount
    <3>2. Counted(n)' = Counted(n) \ {w} /\ w \in Counted(n)
      BY <1>3, <3>1 DEF Counted
    <3>3. Cardinality(Counted(n)') = Cardinality(Counted(n)) - 1 /\ Cardinality(Counted(n)) \in Nat
      BY <3>2, CountedFinite, FS_RemoveElement
    <3>4. refCount'[n] = refCount[n] - 1 /\ ~(n > Len(log))
      BY <1>1, <1>4, <2>1, <2>2, <2>3
    <3>. QED
      BY <1>1, <1>2, <3>3, <3>4 DEF CountInv
  <2>4. CASE n # item[w]
    <3>1. InCount(w, n)' <=> InCount(w, n)
      BY <1>2, <2>1, <2>4 DEF InCount, Passed
    <3>2. refCount'[n] = refCount[n]
      BY <1>4, <2>1, <2>4
    <3>. QED
      BY <1>5, <3>1, <3>2
  <2>. QED
    BY <2>3, <2>4
<1>. QED
  BY <1>6, <1>7, <1>8, <1>9, <1>10, <1>11 DEF Worker

-----------------------------------------------------------------------------
LEMMA InitRedo ==
    ASSUME Init
    PROVE  RedoInv
<1>1. TypeInv
  <2>1. MaxLsn \in Nat /\ QueueSize \in Nat /\ batch \in BOOLEAN
    BY RedoAssumption DEF Init
  <2>2. LogType /\ PtrType
    BY <2>1 DEF Init, LogType, PtrType
  <2>3. StartupType
    BY DEF Init, StartupType, StartupStep
  <2>6. ItemsType
    BY DEF Init, ItemsType
  <2>4. ListsType
    BY <2>1 DEF Init, ListsType
  <2>5. WorkersType
    BY <2>1 DEF Init, WorkersType, WorkerStep
  <2>. QED
    BY <2>2, <2>3, <2>4, <2>5, <2>6, TypeParts
<1>2. ReturnInv /\ PairInv
  BY DEF Init, ReturnInv, ReturnPoint, PairInv
<1>3. ASSUME NEW w \in Workers PROVE ListInv(w)
  <2>1. /\ queue[w] = <<>> /\ pending[w] = <<>> /\ rest[w] = <<>> /\ wpc[w] = "top"
        /\ log = <<>> /\ item[w] = 0
    BY DEF Init
  <2>2. From(w) = 1 /\ Held(queue[w], 1) = {} /\ Elements(rest[w]) = {} /\ Elements(pending[w]) = {}
    BY <2>1, NoElements DEF From, AtRest, Held
  <2>3. Later(w) = {}
    BY <2>2 DEF Later, Upcoming
  <2>4. Sorted(queue[w], 1, rest[w], pending[w])
    BY <2>1, <2>2 DEF Sorted, Increasing, Before
  <2>. QED
    BY <2>1, <2>2, <2>3, <2>4 DEF ListInv
<1>4. ASSUME NEW w \in Workers PROVE WorkerInv(w)
  BY DEF Init, WorkerInv, AtRest, InHand
<1>5. TxnListInv
  <2>1. Elements(proc) = {} /\ Elements(txnPending) = {}
    BY NoElements DEF Init
  <2>. QED
    BY <2>1 DEF Init, TxnListInv, Increasing, Before
<1>6. ASSUME NEW n \in Lsn PROVE CountInv(n)
  <2>1. refCount[n] = 0 /\ Len(log) = 0 /\ n > 0
    BY LsnNat DEF Init
  <2>. QED
    BY <2>1 DEF CountInv
<1>. QED
  BY <1>1, <1>2, <1>3, <1>4, <1>5, <1>6 DEF RedoInv

LEMMA RedoStep ==
    ASSUME RedoInv, [Next]_vars
    PROVE  RedoInv'
<1>1. CASE Next
  <2>1. TypeInv' /\ ReturnInv' /\ PairInv' /\ TxnListInv'
    BY <1>1, TypeStep, ReturnStep, PairStep, TxnListStep DEF RedoInv
  <2>2. \A w \in Workers : ListInv(w)' /\ WorkerInv(w)'
    BY <1>1, ListStep, WorkerInvStep DEF RedoInv
  <2>3. ASSUME NEW n \in Lsn PROVE CountInv(n)'
    <3>1. CASE Startup
      BY <2>1, <3>1, StartupCount DEF RedoInv
    <3>2. CASE \E w \in Workers : Worker(w)
      BY <3>2, WorkerCount DEF RedoInv
    <3>3. CASE Done
      <4>1. UNCHANGED <<log, wpc, item, refCount, proc, txnPending, dpc>> /\ Len(log) \in Nat
        BY <3>3 DEF Done, vars, startupVars, listVars, itemVars, workerVars, RedoInv, TypeInv
      <4>2. Counted(n)' = Counted(n) /\ TxnCounted(n)' = TxnCounted(n)
        BY <4>1, StartupCounted DEF TxnCounted, AtHead, OnList
      <4>. QED
        BY <4>1, <4>2, CountFrame DEF RedoInv
    <3>. QED
      BY <1>1, <3>1, <3>2, <3>3 DEF Next
  <2>. QED
    BY <2>1, <2>2, <2>3 DEF RedoInv
<1>2. CASE UNCHANGED vars
  <2>. USE <1>2 DEF vars, startupVars, listVars, itemVars, workerVars
  <2>1. TypeInv' /\ ReturnInv' /\ PairInv'
    BY DEF RedoInv, TypeInv, ReturnInv, PairInv
  <2>2. ASSUME NEW w \in Workers PROVE ListInv(w)' /\ WorkerInv(w)'
    <3>1. ListInv(w)'
      BY ListFrame DEF RedoInv, From
    <3>2. WorkerInv(w)'
      BY WorkerFrame DEF RedoInv
    <3>. QED
      BY <3>1, <3>2
  <2>3. TxnListInv'
    BY DEF RedoInv, TxnListInv, Kind
  <2>4. ASSUME NEW n \in Lsn PROVE CountInv(n)'
    <3>1. UNCHANGED <<log, wpc, item, refCount, proc, txnPending, dpc>> /\ Len(log) \in Nat
      BY DEF RedoInv, TypeInv
    <3>2. Counted(n)' = Counted(n) /\ TxnCounted(n)' = TxnCounted(n)
      BY <3>1, StartupCounted DEF TxnCounted, AtHead, OnList
    <3>. QED
      BY <3>1, <3>2, CountFrame DEF RedoInv
  <2>. QED
    BY <2>1, <2>2, <2>3, <2>4 DEF RedoInv
<1>. QED
  BY <1>1, <1>2

LEMMA RedoInvariant == Spec => []RedoInv
  BY InitRedo, RedoStep, PTL DEF Spec

LEMMA RedoTypes ==
    ASSUME RedoInv
    PROVE  TypeOK
<1>1. ASSUME NEW n \in Lsn PROVE refCount[n] \in 0..(NumWorkers + 1)
  <2>1. CountInv(n) /\ Cardinality(Counted(n)) \in Nat /\ Cardinality(Counted(n)) <= NumWorkers
    BY CountedFinite DEF RedoInv
  <2>. QED
    BY <2>1, RedoAssumption DEF CountInv
<1>2. refCount \in [Lsn -> 0..(NumWorkers + 1)]
  BY <1>1 DEF RedoInv, TypeInv
<1>. QED
  BY <1>2 DEF RedoInv, TypeInv, TypeOK, WorkerStep

\* Type correctness for any number of page workers, length of queues and log: the
\* queues of spsc_blocking_queue.cpp never hold more than they are made for, the count
\* of a shared item (RedoItem.refCount) is between nobody and all page workers with the
\* startup thread, and the positions reported are positions of the log.
THEOREM TypeCorrect == Spec => []TypeOK
  BY RedoInvariant, RedoTypes, PTL

\* Neither the start nor the end of the last record replayed moves back, although
\* SetXLogReplayRecPtr (xlog.cpp) compares the end it is given with the start that was
\* stored and stores both as they are given: every caller gives it the two ends of one
\* record, whatever the page workers have completed by then (PairInv).
THEOREM ReplayNeverBack == Spec => ReplayMonotone
<1>1. ASSUME RedoInv, [Next]_vars PROVE [replayed' >= replayed /\ lastRead' >= lastRead]_vars
  <2>1. TypeInv /\ PairInv /\ TxnListInv
    BY <1>1 DEF RedoInv
  <2>2. replayed >= replayed /\ lastRead >= lastRead
    BY <2>1, LsnNat DEF TypeInv
  <2>3. CASE Startup
    <3>1. CASE UNCHANGED <<replayed, lastRead>>
      BY <2>2, <3>1
    <3>. QED
      BY <2>1, <2>3, <3>1, Reports, SetReplayed
  <2>4. CASE \E w \in Workers : Worker(w)
    BY <2>2, <2>4, WorkerSame
  <2>5. CASE Done \/ UNCHANGED vars
    BY <2>2, <2>5 DEF Done, vars
  <2>. QED
    BY <1>1, <2>3, <2>4, <2>5 DEF Next
<1>. QED
  BY <1>1, RedoInvariant, PTL DEF Spec, ReplayMonotone
=============================================================================
