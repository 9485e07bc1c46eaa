----------------------- MODULE RequestAccountProofs -----------------------
(***************************************************************************)
(* Lemmas about the operators of RequestAccount, for any attempts and any  *)
(* entries: their types, what one entry does to the accumulators, that two *)
(* entries commute, and what the loops over attempts and entries compute.  *)
(*                                                                         *)
(* The code accumulates in loops, over vectors and over the keys of maps;  *)
(* the models write these as folds, which are recursive functions on the   *)
(* subsets of a set.  The first lemmas show that such a function exists,   *)
(* is unique and has the type of its accumulator.  Induction is had from   *)
(* the least element of a set: the smallest case at which a claim fails    *)
(* cannot exist.  So that a lemma can be cited for a fold with any body,   *)
(* the body is a function op and not an operator.                          *)
(***************************************************************************)
EXTENDS RequestAccount, FiniteSetTheorems, TLAPS

-----------------------------------------------------------------------------
(* Induction *)

(***************************************************************************)
(* The least element of a set of naturals.                                 *)
(***************************************************************************)
LEMMA LeastElement ==
  ASSUME NEW T \in SUBSET Nat, T # {}
  PROVE  \E n \in T : \A m \in T : n <= m
<1>1. PICK n \in T : \A m \in T : ~(<<m, n>> \in OpToRel(<, Nat))
  BY NatLessThanWellFounded, WFMin
<1>2. \A m \in T : m \in Nat /\ n \in Nat /\ ~(m < n)  BY <1>1, Zenon DEF OpToRel
<1> QED  BY <1>2

(***************************************************************************)
(* Induction up to a bound, for the set of numbers of which a claim holds. *)
(***************************************************************************)
LEMMA UpToBound ==
  ASSUME NEW N \in Nat, NEW G, 0 \in G, \A n \in 0..(N - 1) : n \in G => n + 1 \in G
  PROVE  0..N \subseteq G
<1> DEFINE T == {n \in 0..N : n \notin G}
<1> SUFFICES ASSUME T # {} PROVE FALSE  OBVIOUS
<1>1. PICK n \in T : \A m \in T : n <= m
  <2>1. T \in SUBSET Nat  OBVIOUS
  <2> HIDE DEF T
  <2> QED  BY <2>1, LeastElement
<1>2. n \in 1..N  BY <1>1
<1>3. n - 1 \in 0..(N - 1) /\ n - 1 \notin T  BY <1>1, <1>2
<1>4. n - 1 \in G  BY <1>2, <1>3
<1>5. (n - 1) + 1 \in G  BY <1>3, <1>4
<1> QED  BY <1>1, <1>2, <1>5

(***************************************************************************)
(* Induction over the subsets of a finite set, one element at a time.      *)
(***************************************************************************)
LEMMA OverSubsets ==
  ASSUME NEW S, IsFiniteSet(S), NEW G,
         \A s \in SUBSET S : (\A x \in s : s \ {x} \in G) => s \in G
  PROVE  SUBSET S \subseteq G
<1> DEFINE T == {s \in SUBSET S : s \notin G}
<1> SUFFICES ASSUME T # {} PROVE FALSE  OBVIOUS
<1>1. FiniteSubsetsOf(S) = SUBSET S  BY FS_FiniteSubsetsOfFinite
<1>2. IsWellFoundedOn(StrictSubsetOrdering(S), SUBSET S)
  <2>1. IsWellFoundedOn(StrictSubsetOrdering(S), FiniteSubsetsOf(S))
    BY FS_StrictSubsetOrderingWellFounded
  <2> QED  BY <1>1, <2>1
<1>3. T \subseteq SUBSET S /\ T # {}  OBVIOUS
<1>4. PICK s \in T : \A t \in T : ~(<<t, s>> \in StrictSubsetOrdering(S))
  <2> HIDE DEF T
  <2> QED  BY <1>2, <1>3, WFMin
<1>5. ASSUME NEW x \in s PROVE s \ {x} \in G
  <2>1. s \ {x} \in SUBSET S /\ s \in SUBSET S /\ s \ {x} # s /\ s \ {x} \subseteq s  BY <1>3
  <2>2. <<s \ {x}, s>> \in StrictSubsetOrdering(S)  BY <2>1 DEF StrictSubsetOrdering
  <2>3. s \ {x} \notin T  BY <1>4, <2>2, Zenon
  <2> QED  BY <2>1, <2>3
<1> QED  BY <1>3, <1>4, <1>5

(***************************************************************************)
(* The largest element of a finite set of naturals.                        *)
(***************************************************************************)
LEMMA LargestElement ==
  ASSUME NEW S \in SUBSET Nat, IsFiniteSet(S), S # {}
  PROVE  Max(S) \in S /\ \A x \in S : x <= Max(S)
<1> DEFINE G == {s \in SUBSET S : s # {} => \E m \in s : \A x \in s : m >= x}
<1>1. ASSUME NEW s \in SUBSET S, \A x \in s : s \ {x} \in G PROVE s \in G
  <2> SUFFICES ASSUME s # {} PROVE \E m \in s : \A x \in s : m >= x  OBVIOUS
  <2>1. PICK y \in s : TRUE  BY Zenon
  <2>2. CASE s \ {y} = {}
    <3>1. \A x \in s : y >= x  BY <2>2
    <3> QED  BY <3>1
  <2>3. CASE s \ {y} # {}
    <3>1. PICK m \in s \ {y} : \A x \in s \ {y} : m >= x  BY <1>1, <2>3
    <3>2. y \in Nat /\ m \in Nat /\ \A x \in s : x \in Nat /\ (x = y \/ x \in s \ {y})  OBVIOUS
    <3>3. CASE m >= y
      <4>1. \A x \in s : m >= x  BY <3>1, <3>2, <3>3
      <4> QED  BY <4>1
    <3>4. CASE y >= m
      <4>1. \A x \in s : y >= x  BY <3>1, <3>2, <3>4
      <4> QED  BY <4>1
    <3> QED  BY <3>2, <3>3, <3>4
  <2> QED  BY <2>2, <2>3
<1>2. S \in G
  <2> HIDE DEF G
  <2>1. SUBSET S \subseteq G  BY <1>1, OverSubsets, Zenon
  <2> QED  BY <2>1
<1>3. \E m \in S : \A x \in S : m >= x  BY <1>2
<1>4. Max(S) \in S /\ \A x \in S : Max(S) >= x  BY <1>3, Zenon DEF Max
<1> QED  BY <1>4

(***************************************************************************)
(* The last of the first k positions of a sequence.                        *)
(***************************************************************************)
LEMMA LastPosition ==
  ASSUME NEW k \in Nat \ {0}
  PROVE  Max(1..k) = k /\ (1..k) \ {k} = 1..(k - 1)
<1>1. k \in 1..k /\ 1..k # {} /\ 1..k \in SUBSET Nat /\ k \in Int  OBVIOUS
<1>2. IsFiniteSet(1..k)  BY <1>1, FS_Interval
<1>3. Max(1..k) \in 1..k /\ k <= Max(1..k)  BY <1>1, <1>2, LargestElement
<1> QED  BY <1>3
-----------------------------------------------------------------------------
(* Folds *)

\* What is left of s when c has picked from it.
Rest(c, s) == s \ {c[s]}

\* h holds, for every subset of S, the fold with body op that starts from b;
\* the element c[s] is taken off s first, and is thus the last one folded.
IsFold(h, S, c, b, op) ==
  h = [s \in SUBSET S |-> IF s = {} THEN b ELSE op[c[s]][h[Rest(c, s)]]]

Picks(c, S) == \A s \in SUBSET S : s # {} => c[s] \in s

LEMMA FoldOfNothing ==
  ASSUME NEW S, NEW c, NEW b, NEW op, NEW h, IsFold(h, S, c, b, op)
  PROVE  h[{}] = b
<1>1. {} \in SUBSET S  OBVIOUS
<1> QED  BY <1>1 DEF IsFold

LEMMA FoldStep ==
  ASSUME NEW S, NEW c, NEW b, NEW op, NEW h, IsFold(h, S, c, b, op), NEW s \in SUBSET S, s # {}
  PROVE  h[s] = op[c[s]][h[Rest(c, s)]]
BY Zenon DEF IsFold

(***************************************************************************)
(* The same fold over fewer elements.                                      *)
(***************************************************************************)
LEMMA FoldRestricted ==
  ASSUME NEW S, NEW c, NEW b, NEW op, NEW h, IsFold(h, S, c, b, op), Picks(c, S), NEW t \in SUBSET S
  PROVE  IsFold([s \in SUBSET t |-> h[s]], t, c, b, op)
<1> DEFINE g == [s \in SUBSET t |-> h[s]]
<1>1. ASSUME NEW s \in SUBSET t
      PROVE  g[s] = IF s = {} THEN b ELSE op[c[s]][g[Rest(c, s)]]
  <2>1. g[s] = h[s] /\ g[Rest(c, s)] = h[Rest(c, s)] /\ s \in SUBSET S  BY DEF Rest
  <2> HIDE DEF g
  <2>2. CASE s = {}  BY <2>1, <2>2, FoldOfNothing
  <2>3. CASE s # {}
    <3>1. h[s] = op[c[s]][h[Rest(c, s)]]  BY <2>1, <2>3, FoldStep
    <3> QED  BY <2>1, <2>3, <3>1
  <2> QED  BY <2>2, <2>3
<1>2. g = [s \in SUBSET t |-> g[s]]  OBVIOUS
<1> HIDE DEF g
<1>3. IsFold(g, t, c, b, op)  BY <1>1, <1>2, Zenon DEF IsFold
<1> QED  BY <1>3 DEF g

(***************************************************************************)
(* A fold over a finite set is unique.                                     *)
(***************************************************************************)
LEMMA FoldUnique ==
  ASSUME NEW S, IsFiniteSet(S), NEW c, NEW b, NEW op, Picks(c, S),
         NEW g, NEW h, IsFold(g, S, c, b, op), IsFold(h, S, c, b, op)
  PROVE  g = h
<1> DEFINE G == {s \in SUBSET S : g[s] = h[s]}
<1>1. ASSUME NEW s \in SUBSET S, \A x \in s : s \ {x} \in G PROVE s \in G
  <2>1. CASE s = {}  BY <2>1, FoldOfNothing
  <2>2. CASE s # {}
    <3>1. c[s] \in s  BY <2>2 DEF Picks
    <3>2. g[Rest(c, s)] = h[Rest(c, s)]  BY <1>1, <3>1 DEF Rest
    <3>3. g[s] = op[c[s]][g[Rest(c, s)]] /\ h[s] = op[c[s]][h[Rest(c, s)]]  BY <2>2, FoldStep
    <3> QED  BY <3>2, <3>3
  <2> QED  BY <2>1, <2>2
<1>2. SUBSET S \subseteq G
  <2> HIDE DEF G
  <2> QED  BY <1>1, OverSubsets, Zenon
<1>3. \A s \in SUBSET S : g[s] = h[s]  BY <1>2
<1>4. DOMAIN g = SUBSET S /\ DOMAIN h = SUBSET S
      /\ g = [s \in DOMAIN g |-> g[s]] /\ h = [s \in DOMAIN h |-> h[s]]
  BY Zenon DEF IsFold
<1> QED  BY <1>3, <1>4

(***************************************************************************)
(* A fold over a finite set exists.                                        *)
(***************************************************************************)
LEMMA FoldExists ==
  ASSUME NEW S, IsFiniteSet(S), NEW c, NEW b, NEW op, Picks(c, S)
  PROVE  \E h : IsFold(h, S, c, b, op)
<1> DEFINE Fold(s) == CHOOSE h : IsFold(h, s, c, b, op)
           G == {s \in SUBSET S : \E h : IsFold(h, s, c, b, op)}
<1>1. ASSUME NEW s \in SUBSET S, \A x \in s : s \ {x} \in G PROVE s \in G
  <2> DEFINE g == [t \in SUBSET s |->
                     IF t = {} THEN b ELSE op[c[t]][Fold(Rest(c, t))[Rest(c, t)]]]
  <2>1. ASSUME NEW t \in SUBSET s, t # s PROVE IsFold(Fold(t), t, c, b, op)
    <3>1. PICK x \in s : x \notin t  BY <2>1
    <3>2. PICK h : IsFold(h, s \ {x}, c, b, op)  BY <1>1
    <3>3. t \in SUBSET (s \ {x}) /\ Picks(c, s \ {x})  BY <3>1 DEF Picks
    <3>4. IsFold([u \in SUBSET t |-> h[u]], t, c, b, op)  BY <3>2, <3>3, FoldRestricted
    <3> QED  BY <3>4
  <2>2. ASSUME NEW t \in SUBSET s, t # s PROVE g[t] = Fold(t)[t]
    <3>1. IsFold(Fold(t), t, c, b, op)  BY <2>1, <2>2
    <3>2. CASE t = {}
      <4>1. Fold(t)[t] = b  BY <3>1, <3>2, FoldOfNothing
      <4> QED  BY <3>2, <4>1
    <3>3. CASE t # {}
      <4> DEFINE u == Rest(c, t)
      <4>1. c[t] \in t /\ u \in SUBSET t /\ u # s /\ u \in SUBSET s  BY <3>3 DEF Picks, Rest
      <4>2. IsFold(Fold(u), u, c, b, op)  BY <2>1, <4>1
      <4>3. Picks(c, t) /\ Picks(c, u) /\ IsFiniteSet(u)
        BY <4>1, FS_Subset DEF Picks
      <4>4. IsFold([v \in SUBSET u |-> Fold(t)[v]], u, c, b, op)
        <5> DEFINE f == Fold(t)
        <5>1. IsFold(f, t, c, b, op) /\ Picks(c, t) /\ u \in SUBSET t  BY <3>1, <4>1, <4>3
        <5> HIDE DEF f, u
        <5>2. IsFold([v \in SUBSET u |-> f[v]], u, c, b, op)  BY <5>1, FoldRestricted
        <5> QED  BY <5>2 DEF f
      <4>5. Fold(u) = [v \in SUBSET u |-> Fold(t)[v]]  BY <4>2, <4>3, <4>4, FoldUnique
      <4>6. Fold(u)[u] = Fold(t)[u]
        <5> HIDE DEF Fold, u
        <5>1. u \in SUBSET u  OBVIOUS
        <5> QED  BY <4>5, <5>1
      <4>7. Fold(t)[t] = op[c[t]][Fold(t)[u]]
        <5> HIDE DEF Fold
        <5>1. t \in SUBSET t  OBVIOUS
        <5> QED  BY <3>1, <3>3, <5>1, FoldStep
      <4>8. g[t] = op[c[t]][Fold(u)[u]]  BY <3>3
      <4> QED  BY <4>6, <4>7, <4>8
    <3> QED  BY <3>2, <3>3
  <2>3. ASSUME NEW t \in SUBSET s PROVE g[t] = IF t = {} THEN b ELSE op[c[t]][g[Rest(c, t)]]
    <3>1. CASE t = {}  BY <3>1
    <3>2. CASE t # {}
      <4>1. Rest(c, t) \in SUBSET s /\ Rest(c, t) # s  BY <3>2 DEF Picks, Rest
      <4>2. g[Rest(c, t)] = Fold(Rest(c, t))[Rest(c, t)]  BY <2>2, <4>1, Zenon
      <4>3. g[t] = op[c[t]][Fold(Rest(c, t))[Rest(c, t)]]  BY <3>2
      <4> HIDE DEF g
      <4> QED  BY <3>2, <4>2, <4>3
    <3> QED  BY <3>1, <3>2, Zenon
  <2>4. g = [t \in SUBSET s |-> g[t]]
    <3> HIDE DEF Fold
    <3> QED  OBVIOUS
  <2> HIDE DEF g
  <2>5. IsFold(g, s, c, b, op)  BY <2>3, <2>4, Zenon DEF IsFold
  <2> QED  BY <2>5
<1>2. SUBSET S \subseteq G
  <2> HIDE DEF G
  <2> QED  BY <1>1, OverSubsets, Zenon
<1> QED  BY <1>2

(***************************************************************************)
(* The fold has the type of its accumulator.                               *)
(***************************************************************************)
LEMMA FoldStaysIn ==
  ASSUME NEW S, IsFiniteSet(S), NEW c, NEW V, NEW b \in V, NEW op, Picks(c, S),
         \A x \in S, v \in V : op[x][v] \in V,
         NEW h, IsFold(h, S, c, b, op)
  PROVE  \A s \in SUBSET S : h[s] \in V
<1> DEFINE G == {s \in SUBSET S : h[s] \in V}
<1>1. ASSUME NEW s \in SUBSET S, \A x \in s : s \ {x} \in G PROVE s \in G
  <2>1. CASE s = {}  BY <2>1, FoldOfNothing
  <2>2. CASE s # {}
    <3>1. c[s] \in s  BY <2>2 DEF Picks
    <3>2. h[Rest(c, s)] \in V  BY <1>1, <3>1, Zenon DEF Rest
    <3>3. h[s] = op[c[s]][h[Rest(c, s)]]  BY <2>2, FoldStep
    <3> QED  BY <3>1, <3>2, <3>3
  <2> QED  BY <2>1, <2>2
<1>2. SUBSET S \subseteq G
  <2> HIDE DEF G
  <2> QED  BY <1>1, OverSubsets, Zenon
<1> QED  BY <1>2

-----------------------------------------------------------------------------
(* Folds over sequences *)

\* The picks of a fold from the left: the last position is folded last.
LastOf(S) == [s \in SUBSET S |-> Max(s)]

ByPosition(op, q) == [i \in DOMAIN q |-> op[q[i]]]

SeqFold(h, q, b, op) == IsFold(h, DOMAIN q, LastOf(DOMAIN q), b, ByPosition(op, q))

\* The fold over the first k elements of q.
Prefix(q, b, op, k) == (CHOOSE h : SeqFold(h, q, b, op))[1..k]

LEMMA LastOfPicks ==
  ASSUME NEW n \in Nat
  PROVE  IsFiniteSet(1..n) /\ Picks(LastOf(1..n), 1..n)
<1>1. IsFiniteSet(1..n)  BY FS_Interval
<1> SUFFICES ASSUME NEW s \in SUBSET (1..n), s # {} PROVE LastOf(1..n)[s] \in s
  BY <1>1 DEF Picks
<1>2. s \in SUBSET Nat  OBVIOUS
<1>3. IsFiniteSet(s)  BY <1>1, FS_Subset, Zenon
<1>4. Max(s) \in s  BY <1>2, <1>3, LargestElement
<1> QED  BY <1>4 DEF LastOf

(***************************************************************************)
(* The fold over a sequence exists and has the type of its accumulator.    *)
(***************************************************************************)
LEMMA SeqFoldExists ==
  ASSUME NEW A, NEW V, NEW op \in [A -> [V -> V]], NEW b \in V, NEW q \in Seq(A)
  PROVE  \E h : SeqFold(h, q, b, op) /\ \A s \in SUBSET DOMAIN q : h[s] \in V
<1> DEFINE n == Len(q)
           c == LastOf(1..n)
           opq == ByPosition(op, q)
<1>1. n \in Nat /\ DOMAIN q = 1..n  OBVIOUS
<1>2. IsFiniteSet(1..n) /\ Picks(c, 1..n)  BY <1>1, LastOfPicks
<1>3. \A i \in 1..n, v \in V : opq[i][v] \in V
  <2> SUFFICES ASSUME NEW i \in 1..n, NEW v \in V PROVE opq[i][v] \in V  OBVIOUS
  <2>1. q[i] \in A /\ i \in DOMAIN q  OBVIOUS
  <2>2. opq[i] = op[q[i]] /\ op[q[i]] \in [V -> V]  BY <2>1 DEF ByPosition
  <2> HIDE DEF opq
  <2> QED  BY <2>2
<1> HIDE DEF n, c, opq
<1>4. PICK h : IsFold(h, 1..n, c, b, opq)  BY <1>2, FoldExists, Zenon
<1>5. \A s \in SUBSET (1..n) : h[s] \in V  BY <1>2, <1>3, <1>4, FoldStaysIn, Zenon
<1> QED  BY <1>1, <1>4, <1>5 DEF SeqFold, c, opq

LEMMA PrefixOfNothing ==
  ASSUME NEW A, NEW V, NEW op \in [A -> [V -> V]], NEW b \in V, NEW q \in Seq(A)
  PROVE  Prefix(q, b, op, 0) = b
<1> DEFINE h == CHOOSE g : SeqFold(g, q, b, op)
<1>1. SeqFold(h, q, b, op)  BY SeqFoldExists, Zenon
<1> HIDE DEF h
<1>2. h[{}] = b  BY <1>1, FoldOfNothing DEF SeqFold
<1>3. 1..0 = {}  OBVIOUS
<1> QED  BY <1>2, <1>3 DEF Prefix, h

(***************************************************************************)
(* It is computed element by element, from the first to the last.          *)
(***************************************************************************)
LEMMA PrefixStep ==
  ASSUME NEW A, NEW V, NEW op \in [A -> [V -> V]], NEW b \in V, NEW q \in Seq(A)
  PROVE  /\ \A k \in 1..Len(q) : Prefix(q, b, op, k) = op[q[k]][Prefix(q, b, op, k - 1)]
         /\ \A k \in 0..Len(q) : Prefix(q, b, op, k) \in V
<1> DEFINE h == CHOOSE g : SeqFold(g, q, b, op)
           P(k) == Prefix(q, b, op, k)
           c == LastOf(DOMAIN q)
           opq == ByPosition(op, q)
<1>1. SeqFold(h, q, b, op)  BY SeqFoldExists, Zenon
<1>2. \A k : P(k) = h[1..k]  BY DEF Prefix
<1>3. Len(q) \in Nat /\ DOMAIN q = 1..Len(q) /\ \A k \in 1..Len(q) : q[k] \in A  OBVIOUS
<1> HIDE DEF h, P
<1>4. IsFold(h, DOMAIN q, c, b, opq)  BY <1>1 DEF SeqFold
<1>5. P(0) = b  BY PrefixOfNothing DEF P
<1>6. ASSUME NEW k \in 1..Len(q) PROVE P(k) = op[q[k]][P(k - 1)]
  <2> DEFINE s == 1..k
  <2>1. k \in s /\ (\A j \in s : j \in 1..Len(q)) /\ k \in Nat \ {0}  BY <1>3
  <2>2. s \in SUBSET DOMAIN q /\ s # {}  BY <1>3, <2>1, Zenon
  <2>3. Max(s) = k /\ s \ {k} = 1..(k - 1)  BY <2>1, LastPosition
  <2>4. c[s] = k  BY <2>2, <2>3 DEF LastOf
  <2>5. Rest(c, s) = 1..(k - 1)  BY <2>3, <2>4 DEF Rest
  <2>6. opq[k] = op[q[k]]  BY <1>3 DEF ByPosition
  <2> HIDE DEF s, c, opq
  <2>7. h[s] = opq[c[s]][h[Rest(c, s)]]  BY <1>4, <2>2, FoldStep
  <2>8. P(k) = h[s] /\ P(k - 1) = h[1..(k - 1)]  BY <1>2 DEF s
  <2> QED  BY <2>4, <2>5, <2>6, <2>7, <2>8
<1> DEFINE G == {k \in Nat : P(k) \in V}
<1>7. 0 \in G  BY <1>5
<1>8. ASSUME NEW k \in 0..(Len(q) - 1), k \in G PROVE k + 1 \in G
  <2>1. k + 1 \in 1..Len(q) /\ (k + 1) - 1 = k /\ k + 1 \in Nat  BY <1>3
  <2>2. P(k + 1) = op[q[k + 1]][P(k)]  BY <1>6, <2>1
  <2>3. op[q[k + 1]] \in [V -> V] /\ P(k) \in V  BY <1>3, <1>8, <2>1
  <2>4. P(k + 1) \in V  BY <2>2, <2>3
  <2> QED  BY <2>1, <2>4
<1>9. 0..Len(q) \subseteq G
  <2> HIDE DEF G
  <2> QED  BY <1>3, <1>7, <1>8, UpToBound, Zenon
<1>10. \A k \in 0..Len(q) : P(k) \in V  BY <1>9
<1> QED  BY <1>6, <1>10 DEF P

(***************************************************************************)
(* Two sequences that agree on their first elements have the same folds    *)
(* over them.                                                              *)
(***************************************************************************)
LEMMA PrefixAgrees ==
  ASSUME NEW A, NEW V, NEW op \in [A -> [V -> V]], NEW b \in V, NEW q \in Seq(A), NEW r \in Seq(A),
         NEW n \in Nat, n <= Len(q), n <= Len(r), \A k \in 1..n : q[k] = r[k]
  PROVE  \A k \in 0..n : Prefix(q, b, op, k) = Prefix(r, b, op, k)
<1> DEFINE Q(k) == Prefix(q, b, op, k)
           R(k) == Prefix(r, b, op, k)
           G == {k \in Nat : Q(k) = R(k)}
<1>1. \A k \in 1..Len(q) : Q(k) = op[q[k]][Q(k - 1)]  BY PrefixStep
<1>2. \A k \in 1..Len(r) : R(k) = op[r[k]][R(k - 1)]  BY PrefixStep
<1>3. 0 \in G
  <2>1. Q(0) = b  BY PrefixOfNothing
  <2>2. R(0) = b  BY PrefixOfNothing
  <2> HIDE DEF Q, R
  <2> QED  BY <2>1, <2>2
<1> HIDE DEF Q, R
<1>4. ASSUME NEW k \in 0..(n - 1), k \in G PROVE k + 1 \in G
  <2>1. k + 1 \in 1..Len(q) /\ k + 1 \in 1..Len(r) /\ k + 1 \in 1..n /\ (k + 1) - 1 = k  OBVIOUS
  <2>2. Q(k + 1) = op[q[k + 1]][Q(k)] /\ R(k + 1) = op[r[k + 1]][R(k)]  BY <1>1, <1>2, <2>1
  <2> QED  BY <1>4, <2>1, <2>2
<1>5. 0..n \subseteq G
  <2> HIDE DEF G
  <2> QED  BY <1>3, <1>4, UpToBound, Zenon
<1> QED  BY <1>5 DEF Q, R

-----------------------------------------------------------------------------
(* Sums over sets *)

AnyOf(s) == CHOOSE x \in s : TRUE

\* h holds, for every subset of S, the sum of g over it.
SumFold(h, g, S) ==
  h = [s \in SUBSET S |-> IF s = {} THEN 0 ELSE g[AnyOf(s)] + h[s \ {AnyOf(s)}]]

SumOver(g, S) == (CHOOSE h : SumFold(h, g, S))[S]

LEMMA SumUnfolded ==
  ASSUME NEW g, NEW S
  PROVE  SumFunctionOnSet(g, S) = SumOver(g, S)
BY DEF SumFunctionOnSet, FoldFunctionOnSet, MapThenFoldSet, SumOver, SumFold, AnyOf

LEMMA SumFunctionUnfolded ==
  ASSUME NEW g
  PROVE  SumFunction(g) = SumOver(g, DOMAIN g)
BY SumUnfolded DEF SumFunction

(***************************************************************************)
(* The function exists and is the only one, for summands that are integers.*)
(***************************************************************************)
LEMMA SumFoldDefined ==
  ASSUME NEW A, NEW g \in [A -> Int], NEW S \in SUBSET A, IsFiniteSet(S)
  PROVE  /\ \E h : SumFold(h, g, S)
         /\ \A h : SumFold(h, g, S) => \A s \in SUBSET S : h[s] \in Int
         /\ \A h, k : SumFold(h, g, S) /\ SumFold(k, g, S) => h = k
<1> DEFINE c == [s \in SUBSET S |-> AnyOf(s)]
           op == [x \in S |-> [v \in Int |-> g[x] + v]]
<1>1. ASSUME NEW s \in SUBSET S, s # {}
      PROVE  c[s] = AnyOf(s) /\ AnyOf(s) \in s /\ Rest(c, s) = s \ {AnyOf(s)}
  BY <1>1 DEF AnyOf, Rest
<1>2. Picks(c, S)  BY <1>1, Zenon DEF Picks
<1>3. ASSUME NEW x \in S, NEW v \in Int PROVE op[x][v] = g[x] + v /\ op[x][v] \in Int
  OBVIOUS
<1> HIDE DEF c, op
<1>4. ASSUME NEW h, SumFold(h, g, S) PROVE \A s \in SUBSET S : h[s] \in Int
  <2> DEFINE G == {s \in SUBSET S : h[s] \in Int}
  <2>1. ASSUME NEW s \in SUBSET S, \A x \in s : s \ {x} \in G PROVE s \in G
    <3>1. h[s] = IF s = {} THEN 0 ELSE g[AnyOf(s)] + h[s \ {AnyOf(s)}]  BY <1>4, Zenon DEF SumFold
    <3>2. CASE s = {}  BY <3>1, <3>2
    <3>3. CASE s # {}
      <4>1. AnyOf(s) \in s /\ AnyOf(s) \in A  BY <1>1, <3>3
      <4>2. h[s \ {AnyOf(s)}] \in Int /\ g[AnyOf(s)] \in Int  BY <2>1, <4>1
      <4> QED  BY <3>1, <3>3, <4>2
    <3> QED  BY <3>2, <3>3
  <2>2. SUBSET S \subseteq G
    <3> HIDE DEF G
    <3> QED  BY <2>1, OverSubsets, Zenon
  <2> QED  BY <2>2
<1>5. ASSUME NEW h, SumFold(h, g, S) PROVE IsFold(h, S, c, 0, op)
  <2>1. ASSUME NEW s \in SUBSET S
        PROVE  h[s] = IF s = {} THEN 0 ELSE op[c[s]][h[Rest(c, s)]]
    <3>1. h[s] = IF s = {} THEN 0 ELSE g[AnyOf(s)] + h[s \ {AnyOf(s)}]  BY <1>5, Zenon DEF SumFold
    <3>2. CASE s = {}  BY <3>1, <3>2
    <3>3. CASE s # {}
      <4>1. s \ {AnyOf(s)} \in SUBSET S  OBVIOUS
      <4>2. h[s \ {AnyOf(s)}] \in Int /\ AnyOf(s) \in S  BY <1>1, <1>4, <1>5, <3>3, <4>1
      <4>3. op[AnyOf(s)][h[s \ {AnyOf(s)}]] = g[AnyOf(s)] + h[s \ {AnyOf(s)}]  BY <1>3, <4>2
      <4>4. c[s] = AnyOf(s) /\ Rest(c, s) = s \ {AnyOf(s)}  BY <1>1, <3>3
      <4> QED  BY <3>1, <3>3, <4>3, <4>4
    <3> QED  BY <3>2, <3>3
  <2>2. h = [s \in SUBSET S |-> h[s]]  BY <1>5, Zenon DEF SumFold
  <2> QED  BY <2>1, <2>2, Zenon DEF IsFold
<1>6. ASSUME NEW h, IsFold(h, S, c, 0, op) PROVE SumFold(h, g, S)
  <2>1. \A s \in SUBSET S : h[s] \in Int
    <3>1. 0 \in Int /\ \A x \in S, v \in Int : op[x][v] \in Int  BY <1>3
    <3> QED  BY <1>2, <1>6, <3>1, FoldStaysIn, Zenon
  <2>2. ASSUME NEW s \in SUBSET S
        PROVE  h[s] = IF s = {} THEN 0 ELSE g[AnyOf(s)] + h[s \ {AnyOf(s)}]
    <3>1. CASE s = {}  BY <1>6, <3>1, FoldOfNothing
    <3>2. CASE s # {}
      <4>1. c[s] = AnyOf(s) /\ Rest(c, s) = s \ {AnyOf(s)} /\ AnyOf(s) \in S  BY <1>1, <3>2
      <4>2. h[s] = op[c[s]][h[Rest(c, s)]]  BY <1>6, <3>2, FoldStep
      <4>3. h[s \ {AnyOf(s)}] \in Int  BY <2>1
      <4>4. op[AnyOf(s)][h[s \ {AnyOf(s)}]] = g[AnyOf(s)] + h[s \ {AnyOf(s)}]  BY <1>3, <4>1, <4>3
      <4> QED  BY <3>2, <4>1, <4>2, <4>4
    <3> QED  BY <3>1, <3>2
  <2>3. h = [s \in SUBSET S |-> h[s]]  BY <1>6, Zenon DEF IsFold
  <2> QED  BY <2>2, <2>3, Zenon DEF SumFold
<1>7. \E h : SumFold(h, g, S)  BY <1>2, <1>6, FoldExists
<1>8. ASSUME NEW h, NEW k, SumFold(h, g, S), SumFold(k, g, S) PROVE h = k
  <2>1. IsFold(h, S, c, 0, op) /\ IsFold(k, S, c, 0, op)  BY <1>5, <1>8
  <2> QED  BY <1>2, <2>1, FoldUnique
<1> QED  BY <1>4, <1>7, <1>8

(***************************************************************************)
(* The sum over a set, in terms of the sum over the set without one of its *)
(* elements: first the one that the fold picks, then any.                  *)
(***************************************************************************)
LEMMA SumPicked ==
  ASSUME NEW A, NEW g \in [A -> Int], NEW S \in SUBSET A, IsFiniteSet(S)
  PROVE  /\ SumOver(g, S) \in Int
         /\ S = {} => SumOver(g, S) = 0
         /\ S # {} => SumOver(g, S) = g[AnyOf(S)] + SumOver(g, S \ {AnyOf(S)})
<1> DEFINE h == CHOOSE k : SumFold(k, g, S)
<1>1. SumFold(h, g, S) /\ SumOver(g, S) = h[S]  BY SumFoldDefined DEF SumOver
<1> HIDE DEF h
<1>2. \A s \in SUBSET S : h[s] \in Int  BY <1>1, SumFoldDefined
<1>3. S \in SUBSET S  OBVIOUS
<1>4. h[S] = IF S = {} THEN 0 ELSE g[AnyOf(S)] + h[S \ {AnyOf(S)}]  BY <1>1, <1>3, Zenon DEF SumFold
<1>5. ASSUME S # {} PROVE h[S \ {AnyOf(S)}] = SumOver(g, S \ {AnyOf(S)})
  <2> DEFINE T == S \ {AnyOf(S)}
             k == CHOOSE j : SumFold(j, g, T)
             r == [s \in SUBSET T |-> h[s]]
  <2>1. T \in SUBSET A /\ T \in SUBSET S /\ T \in SUBSET T  OBVIOUS
  <2>2. IsFiniteSet(T)  BY <2>1, FS_Subset
  <2> HIDE DEF T
  <2>3. SumFold(k, g, T) /\ SumOver(g, T) = k[T]  BY <2>1, <2>2, SumFoldDefined DEF SumOver
  <2> HIDE DEF k
  <2>4. ASSUME NEW s \in SUBSET T
        PROVE  r[s] = IF s = {} THEN 0 ELSE g[AnyOf(s)] + r[s \ {AnyOf(s)}]
    <3>1. s \in SUBSET S /\ s \ {AnyOf(s)} \in SUBSET T  BY <2>1
    <3>2. h[s] = IF s = {} THEN 0 ELSE g[AnyOf(s)] + h[s \ {AnyOf(s)}]  BY <1>1, <3>1, Zenon DEF SumFold
    <3>3. r[s] = h[s] /\ r[s \ {AnyOf(s)}] = h[s \ {AnyOf(s)}]  BY <3>1
    <3> HIDE DEF r
    <3> QED  BY <3>2, <3>3
  <2>5. r = [s \in SUBSET T |-> r[s]] /\ r[T] = h[T]  BY <2>1
  <2> HIDE DEF r
  <2>6. SumFold(r, g, T)  BY <2>4, <2>5, Zenon DEF SumFold
  <2>7. r = k  BY <2>1, <2>2, <2>3, <2>6, SumFoldDefined
  <2> QED  BY <2>3, <2>5, <2>7 DEF T
<1> QED  BY <1>1, <1>2, <1>3, <1>4, <1>5

LEMMA SumTaken ==
  ASSUME NEW A, NEW g \in [A -> Int], NEW S \in SUBSET A, IsFiniteSet(S), NEW x \in S
  PROVE  SumOver(g, S) = g[x] + SumOver(g, S \ {x})
<1> DEFINE G == {s \in SUBSET S : \A y \in s : SumOver(g, s) = g[y] + SumOver(g, s \ {y})}
<1>1. ASSUME NEW s \in SUBSET S, \A y \in s : s \ {y} \in G PROVE s \in G
  <2> SUFFICES ASSUME NEW y \in s PROVE SumOver(g, s) = g[y] + SumOver(g, s \ {y})  OBVIOUS
  <2> DEFINE z == AnyOf(s)
  <2>1. z \in s /\ z \in A /\ y \in A /\ s \in SUBSET A /\ s # {}  BY DEF AnyOf
  <2>2. IsFiniteSet(s)  BY FS_Subset
  <2> HIDE DEF z
  <2>3. SumOver(g, s) = g[z] + SumOver(g, s \ {z})  BY <2>1, <2>2, SumPicked DEF z
  <2>4. CASE y = z  BY <2>3, <2>4
  <2>5. CASE y # z
    <3> DEFINE u == (s \ {z}) \ {y}
    <3>1. y \in s \ {z} /\ z \in s \ {y} /\ (s \ {y}) \ {z} = u /\ u \in SUBSET A  BY <2>1, <2>5
    <3>2. s \ {z} \in G /\ s \ {y} \in G  BY <1>1, <2>1
    <3>3. SumOver(g, s \ {z}) = g[y] + SumOver(g, u)  BY <3>1, <3>2
    <3>4. SumOver(g, s \ {y}) = g[z] + SumOver(g, u)  BY <3>1, <3>2, Zenon
    <3>5. IsFiniteSet(u)
      <4>1. u \in SUBSET s  OBVIOUS
      <4> QED  BY <2>2, <4>1, FS_Subset
    <3> HIDE DEF u
    <3>6. SumOver(g, u) \in Int /\ g[y] \in Int /\ g[z] \in Int  BY <2>1, <3>1, <3>5, SumPicked, Zenon
    <3> QED  BY <2>3, <3>3, <3>4, <3>6
  <2> QED  BY <2>4, <2>5
<1>2. SUBSET S \subseteq G
  <2> HIDE DEF G
  <2> QED  BY <1>1, OverSubsets, Zenon
<1> QED  BY <1>2

(***************************************************************************)
(* The sum over two sets without common elements.                          *)
(***************************************************************************)
LEMMA SumSplit ==
  ASSUME NEW A, NEW g \in [A -> Int], NEW S \in SUBSET A, IsFiniteSet(S),
         NEW T \in SUBSET A, IsFiniteSet(T), S \cap T = {}
  PROVE  SumOver(g, S \cup T) = SumOver(g, S) + SumOver(g, T)
<1> DEFINE G == {t \in SUBSET T : SumOver(g, S \cup t) = SumOver(g, S) + SumOver(g, t)}
<1>1. ASSUME NEW t \in SUBSET T, \A y \in t : t \ {y} \in G PROVE t \in G
  <2>1. IsFiniteSet(t) /\ t \in SUBSET A /\ S \cup t \in SUBSET A  BY FS_Subset
  <2>2. IsFiniteSet(S \cup t)  BY <2>1, FS_Union, Zenon
  <2>3. CASE t = {}
    <3>1. SumOver(g, t) = 0 /\ S \cup t = S  BY <2>1, <2>3, SumPicked
    <3>2. SumOver(g, S) \in Int  BY SumPicked, Zenon
    <3> QED  BY <3>1, <3>2
  <2>4. CASE t # {}
    <3>1. PICK y \in t : TRUE  BY <2>4
    <3>2. (S \cup t) \ {y} = S \cup (t \ {y}) /\ y \in S \cup t /\ y \in A  OBVIOUS
    <3>3. SumOver(g, S \cup t) = g[y] + SumOver(g, S \cup (t \ {y}))
      BY <2>1, <2>2, <3>2, SumTaken
    <3>4. SumOver(g, t) = g[y] + SumOver(g, t \ {y})  BY <2>1, SumTaken
    <3>5. SumOver(g, S \cup (t \ {y})) = SumOver(g, S) + SumOver(g, t \ {y})  BY <1>1
    <3>6. IsFiniteSet(t \ {y}) /\ t \ {y} \in SUBSET A
      <4>1. t \ {y} \in SUBSET t  OBVIOUS
      <4> QED  BY <2>1, <4>1, FS_Subset
    <3>7. SumOver(g, S) \in Int /\ SumOver(g, t \ {y}) \in Int /\ g[y] \in Int
      BY <3>2, <3>6, SumPicked, Zenon
    <3> QED  BY <3>3, <3>4, <3>5, <3>7
  <2> QED  BY <2>3, <2>4
<1>2. SUBSET T \subseteq G
  <2> HIDE DEF G
  <2> QED  BY <1>1, OverSubsets, Zenon
<1> QED  BY <1>2

-----------------------------------------------------------------------------
(* One entry *)

(***************************************************************************)
(* duration_ns is never negative, also for an entry that ends before it    *)
(* starts.                                                                 *)
(***************************************************************************)
LEMMA DurationType ==
  ASSUME NEW e \in AccountEntry
  PROVE  duration_ns(e) \in Nat
BY DEF duration_ns, AccountEntry

(***************************************************************************)
(* llround yields an integer.                                              *)
(***************************************************************************)
LEMMA RoundType ==
  ASSUME NEW v \in Int
  PROVE  llround(v) \in Int
BY DEF llround

(***************************************************************************)
(* What an entry is charged to a duration is never negative.               *)
(***************************************************************************)
LEMMA SpentType ==
  ASSUME NEW e \in AccountEntry, NEW ks
  PROVE  Spent(e, ks) \in Nat
BY DurationType DEF Spent

(***************************************************************************)
(* What an entry adds to a counter is an integer.                          *)
(***************************************************************************)
LEMMA CountedType ==
  ASSUME NEW e \in AccountEntry, NEW ks
  PROVE  Counted(e, ks) \in Int
<1>1. e.value \in Int  BY DEF AccountEntry
<1> QED  BY <1>1, RoundType DEF Counted

(***************************************************************************)
(* The attribution of an attempt stays well typed.                         *)
(***************************************************************************)
LEMMA AttrType ==
  ASSUME NEW a \in Attr, NEW e \in AccountEntry
  PROVE  AttrAfter(a, e) \in Attr
<1> DEFINE exec == Spent(e, GpuKinds \cup {"CpuExecution"})
           tokens == Counted(e, {"SpeculationAccepted"})
                       + (IF e.unit = "Count" THEN Counted(e, {"Decode"}) ELSE 0)
<1>1. /\ exec \in Nat
      /\ Spent(e, {"Prefill"}) \in Nat /\ Spent(e, {"Decode"}) \in Nat
      /\ Spent(e, GpuKinds) \in Nat /\ Spent(e, {"CpuExecution"}) \in Nat
      /\ Spent(e, {"SpeculationRejected"}) \in Nat
  BY SpentType
<1>2. tokens \in Int
  <2>1. Counted(e, {"SpeculationAccepted"}) \in Int /\ Counted(e, {"Decode"}) \in Int
    BY CountedType
  <2> QED  BY <2>1
<1>3. (IF e.kind = "RequestEnd" THEN TerminalAfter(a, e) ELSE a.terminal_ns) \in Nat
  BY DEF Attr, AccountEntry, TerminalAfter, larger
<1>4. a.gen_tokens + Counted(e, {"SpeculationAccepted"})
        + (IF e.unit = "Count" THEN Counted(e, {"Decode"}) ELSE 0) \in Int
  <2>1. Counted(e, {"SpeculationAccepted"}) \in Int /\ Counted(e, {"Decode"}) \in Int
    BY CountedType
  <2>2. a.gen_tokens \in Int  BY DEF Attr
  <2> QED  BY <2>1, <2>2
<1>5. /\ a.exec_s + exec \in Nat
      /\ a.prefill_s + Spent(e, {"Prefill"}) \in Nat
      /\ a.decode_s + Spent(e, {"Decode"}) \in Nat
      /\ a.gpu_s + Spent(e, GpuKinds) \in Nat
      /\ a.cpu_s + Spent(e, {"CpuExecution"}) \in Nat
      /\ a.spec_rej_s + Spent(e, {"SpeculationRejected"}) \in Nat
  <2> HIDE DEF exec
  <2> QED  BY <1>1 DEF Attr
<1>6. /\ (a.completed \/ e.kind = "RequestEnd") \in BOOLEAN
      /\ (a.failed \/ e.kind = "Failure") \in BOOLEAN
      /\ (a.cancelled \/ e.kind = "Cancellation") \in BOOLEAN
  OBVIOUS
<1> QED  BY <1>3, <1>4, <1>5, <1>6, Zenon DEF Attr, AttrAfter

(***************************************************************************)
(* What an entry adds to a total is a number.                              *)
(***************************************************************************)
LEMMA ContributionType ==
  ASSUME NEW e \in AccountEntry, NEW n \in Totals
  PROVE  Contribution(n, e) \in Int
<1>1. e.value \in Int /\ duration_ns(e) \in Nat
  BY DurationType DEF AccountEntry
<1>2. e.value * duration_ns(e) \in Int /\ e.value * JoulesPerWh \in Int
  BY <1>1 DEF JoulesPerWh
<1>3. \A ks : Spent(e, ks) \in Int /\ Counted(e, ks) \in Int
  BY SpentType, CountedType
<1> USE DEF DurationTotals, ValueTotals, CountTotals, EventTotals, ResidencyTotals
<1>4. CASE n \in DOMAIN DurationTotals
  BY <1>3, <1>4 DEF Contribution
<1>5. CASE n \in DOMAIN ValueTotals
  BY <1>1, <1>5 DEF Contribution
<1>6. CASE n \in DOMAIN CountTotals
  BY <1>3, <1>6 DEF Contribution
<1>7. CASE n \in DOMAIN EventTotals
  BY <1>7 DEF Contribution
<1>8. CASE n \in DOMAIN ResidencyTotals
  BY <1>2, <1>8 DEF Contribution
<1>9. CASE n = "energy_j"
  BY <1>1, <1>2, <1>9 DEF Contribution
<1> QED  BY <1>4, <1>5, <1>6, <1>7, <1>8, <1>9 DEF Totals

(***************************************************************************)
(* A gauge stays well typed.                                               *)
(***************************************************************************)
LEMMA GaugeType ==
  ASSUME NEW g \in Gauge, NEW e \in AccountEntry, NEW k, NEW l
  PROVE  GaugeAfter(g, e, k, l) \in Gauge
BY DEF GaugeAfter, Allocated, Released, Gauge, AccountEntry, larger

(***************************************************************************)
(* The loop body keeps the locals of reconcile_request well typed.         *)
(***************************************************************************)
LEMMA FoldedType ==
  ASSUME NEW f \in FoldType, NEW e \in AccountEntry
  PROVE  Folded(f, e) \in FoldType
<1>1. e.attempt \in AttemptIds  BY DEF AccountEntry
<1>2. [f.attempts EXCEPT ![e.attempt] = AttrAfter(@, e)] \in [AttemptIds -> Attr]
  <2>1. f.attempts \in [AttemptIds -> Attr]  BY DEF FoldType
  <2>2. AttrAfter(f.attempts[e.attempt], e) \in Attr  BY <1>1, <2>1, AttrType
  <2> QED  BY <2>1, <2>2, Zenon
<1>3. f.seen \cup {e.attempt} \in SUBSET AttemptIds  BY <1>1 DEF FoldType
<1>4. /\ GaugeAfter(f.kv, e, "KvAllocate", "KvRelease") \in Gauge
      /\ GaugeAfter(f.tensor, e, "TensorAllocate", "TensorRelease") \in Gauge
  BY GaugeType DEF FoldType
<1>5. [n \in Totals |-> f.totals[n] + Contribution(n, e)] \in [Totals -> Int]
  <2>1. f.totals \in [Totals -> Int]  BY DEF FoldType
  <2> QED  BY <2>1, ContributionType
<1>6. TimesAfter(f.times, e)
        \in [has_start : BOOLEAN, start_ns : Nat, has_end : BOOLEAN, end_ns : Nat]
  BY Zenon DEF TimesAfter, FoldType, AccountEntry
<1> QED  BY <1>2, <1>3, <1>4, <1>5, <1>6 DEF Folded, FoldType

(***************************************************************************)
(* One attempt: its execution is its GPU and CPU time.                     *)
(***************************************************************************)
Balanced(t) == t.exec_s = t.gpu_s + t.cpu_s /\ t.prefill_s + t.decode_s <= t.gpu_s

(***************************************************************************)
(* The loop body charges every duration to execution exactly once.         *)
(***************************************************************************)
LEMMA BalancedStep ==
  ASSUME NEW a \in Attr, NEW e \in AccountEntry, Balanced(a)
  PROVE  Balanced(AttrAfter(a, e))
<1> DEFINE d == duration_ns(e)
<1>1. d \in Nat  BY DurationType
<1>2. /\ Spent(e, GpuKinds \cup {"CpuExecution"})
           = Spent(e, GpuKinds) + Spent(e, {"CpuExecution"})
      /\ Spent(e, {"Prefill"}) + Spent(e, {"Decode"}) <= Spent(e, GpuKinds)
  <2> HIDE DEF d
  <2>1. \A ks : Spent(e, ks) = IF e.kind \in ks THEN d ELSE 0  BY DEF Spent, d
  <2> QED  BY <1>1, <2>1 DEF GpuKinds
<1>3. /\ Spent(e, {"Prefill"}) \in Nat /\ Spent(e, {"Decode"}) \in Nat
      /\ Spent(e, GpuKinds) \in Nat /\ Spent(e, {"CpuExecution"}) \in Nat
  BY SpentType
<1>4. /\ AttrAfter(a, e).exec_s = a.exec_s + Spent(e, GpuKinds \cup {"CpuExecution"})
      /\ AttrAfter(a, e).gpu_s = a.gpu_s + Spent(e, GpuKinds)
      /\ AttrAfter(a, e).cpu_s = a.cpu_s + Spent(e, {"CpuExecution"})
      /\ AttrAfter(a, e).prefill_s = a.prefill_s + Spent(e, {"Prefill"})
      /\ AttrAfter(a, e).decode_s = a.decode_s + Spent(e, {"Decode"})
  BY DEF AttrAfter
<1>5. /\ a.exec_s \in Nat /\ a.gpu_s \in Nat /\ a.cpu_s \in Nat
      /\ a.prefill_s \in Nat /\ a.decode_s \in Nat
  BY DEF Attr
<1> QED  BY <1>2, <1>3, <1>4, <1>5 DEF Balanced

(***************************************************************************)
(* A gauge within its bounds.                                              *)
(***************************************************************************)
Bounded(g) == 0 <= g.live /\ g.live <= g.peak /\ g.peak <= g.allocated

(***************************************************************************)
(* An allocation or a release of a non-negative amount keeps a gauge       *)
(* within its bounds, also a release of more than is live.                 *)
(***************************************************************************)
LEMMA BoundedStep ==
  ASSUME NEW g \in Gauge, NEW e \in AccountEntry, NEW k, NEW l,
         e.value >= 0, Bounded(g)
  PROVE  Bounded(GaugeAfter(g, e, k, l))
<1>1. e.value \in Nat  BY DEF AccountEntry
<1>2. Bounded(Allocated(g, e.value))
  BY <1>1 DEF Bounded, Allocated, Gauge, larger
<1>3. Bounded(Released(g, e.value))
  BY <1>1 DEF Bounded, Released, Gauge, larger
<1> QED  BY <1>2, <1>3 DEF GaugeAfter

(***************************************************************************)
(* The attribution of one attempt is the same in both orders of two        *)
(* entries.                                                                *)
(***************************************************************************)
LEMMA AttrCommutes ==
  ASSUME NEW a \in Attr, NEW d \in AccountEntry, NEW e \in AccountEntry
  PROVE  AttrAfter(AttrAfter(a, d), e) = AttrAfter(AttrAfter(a, e), d)
<1> DEFINE S(x, ks) == Spent(x, ks)
           T(x) == Counted(x, {"SpeculationAccepted"})
           U(x) == IF x.unit = "Count" THEN Counted(x, {"Decode"}) ELSE 0
           end(t, x) == IF x.kind = "RequestEnd" THEN larger(t, x.start) ELSE t
<1>1. \A x \in {d, e} : T(x) \in Int /\ U(x) \in Int  BY CountedType
<1>2. \A x \in {d, e} : \A ks : S(x, ks) \in Int
  <2>1. \A n \in Nat : n \in Int  OBVIOUS
  <2> QED  BY <2>1, SpentType
<1>3. end(end(a.terminal_ns, d), e) = end(end(a.terminal_ns, e), d)
  BY DEF larger, AccountEntry, Attr
<1>4. \A m \in Int, x \in Int, y \in Int : (m + x) + y = (m + y) + x
  OBVIOUS
<1>5. \A m \in Int, x \in Int, y \in Int, v \in Int, w \in Int :
        (((m + x) + v) + y) + w = (((m + y) + w) + x) + v
  OBVIOUS
<1>6. /\ a.exec_s \in Int /\ a.prefill_s \in Int /\ a.decode_s \in Int /\ a.gpu_s \in Int
      /\ a.cpu_s \in Int /\ a.spec_rej_s \in Int /\ a.gen_tokens \in Int
  BY DEF Attr
<1>7. \A b, x :
        AttrAfter(b, x) =
          [completed |-> b.completed \/ x.kind = "RequestEnd",
           failed |-> b.failed \/ x.kind = "Failure",
           cancelled |-> b.cancelled \/ x.kind = "Cancellation",
           terminal_ns |-> end(b.terminal_ns, x),
           exec_s |-> b.exec_s + S(x, GpuKinds \cup {"CpuExecution"}),
           prefill_s |-> b.prefill_s + S(x, {"Prefill"}),
           decode_s |-> b.decode_s + S(x, {"Decode"}),
           gpu_s |-> b.gpu_s + S(x, GpuKinds),
           cpu_s |-> b.cpu_s + S(x, {"CpuExecution"}),
           spec_rej_s |-> b.spec_rej_s + S(x, {"SpeculationRejected"}),
           gen_tokens |-> b.gen_tokens + T(x) + U(x)]
  BY Zenon DEF AttrAfter, TerminalAfter
<1> HIDE DEF S, T, U, end
<1>8. /\ \A ks : (a.exec_s + S(d, ks)) + S(e, ks) = (a.exec_s + S(e, ks)) + S(d, ks)
      /\ \A ks : (a.prefill_s + S(d, ks)) + S(e, ks) = (a.prefill_s + S(e, ks)) + S(d, ks)
      /\ \A ks : (a.decode_s + S(d, ks)) + S(e, ks) = (a.decode_s + S(e, ks)) + S(d, ks)
      /\ \A ks : (a.gpu_s + S(d, ks)) + S(e, ks) = (a.gpu_s + S(e, ks)) + S(d, ks)
      /\ \A ks : (a.cpu_s + S(d, ks)) + S(e, ks) = (a.cpu_s + S(e, ks)) + S(d, ks)
      /\ \A ks : (a.spec_rej_s + S(d, ks)) + S(e, ks) = (a.spec_rej_s + S(e, ks)) + S(d, ks)
  BY <1>2, <1>4, <1>6
<1>9. (((a.gen_tokens + T(d)) + U(d)) + T(e)) + U(e)
        = (((a.gen_tokens + T(e)) + U(e)) + T(d)) + U(d)
  BY <1>1, <1>5, <1>6
<1>10. \A p, x, y : ((p \/ x) \/ y) = ((p \/ y) \/ x)  OBVIOUS
<1> DEFINE After(x, y) ==
      [completed |-> (a.completed \/ x.kind = "RequestEnd") \/ y.kind = "RequestEnd",
       failed |-> (a.failed \/ x.kind = "Failure") \/ y.kind = "Failure",
       cancelled |-> (a.cancelled \/ x.kind = "Cancellation") \/ y.kind = "Cancellation",
       terminal_ns |-> end(end(a.terminal_ns, x), y),
       exec_s |-> (a.exec_s + S(x, GpuKinds \cup {"CpuExecution"})) + S(y, GpuKinds \cup {"CpuExecution"}),
       prefill_s |-> (a.prefill_s + S(x, {"Prefill"})) + S(y, {"Prefill"}),
       decode_s |-> (a.decode_s + S(x, {"Decode"})) + S(y, {"Decode"}),
       gpu_s |-> (a.gpu_s + S(x, GpuKinds)) + S(y, GpuKinds),
       cpu_s |-> (a.cpu_s + S(x, {"CpuExecution"})) + S(y, {"CpuExecution"}),
       spec_rej_s |-> (a.spec_rej_s + S(x, {"SpeculationRejected"})) + S(y, {"SpeculationRejected"}),
       gen_tokens |-> (((a.gen_tokens + T(x)) + U(x)) + T(y)) + U(y)]
<1>11. \A x, y : AttrAfter(AttrAfter(a, x), y) = After(x, y)  BY <1>7, Zenon
<1>12. After(d, e) = After(e, d)  BY <1>3, <1>8, <1>9, <1>10, Zenon
<1> HIDE DEF After
<1> QED  BY <1>11, <1>12

(***************************************************************************)
(* What a gauge has allocated is the same in both orders of two entries;   *)
(* its peak is not.                                                        *)
(***************************************************************************)
LEMMA AllocatedCommutes ==
  ASSUME NEW g \in Gauge, NEW d \in AccountEntry, NEW e \in AccountEntry, NEW k, NEW l,
         k # l
  PROVE  GaugeAfter(GaugeAfter(g, d, k, l), e, k, l).allocated
           = GaugeAfter(GaugeAfter(g, e, k, l), d, k, l).allocated
<1> DEFINE added(x) == IF x.kind = k THEN x.value ELSE 0
<1>1. \A h \in Gauge, x \in {d, e} : GaugeAfter(h, x, k, l).allocated = h.allocated + added(x)
  BY DEF GaugeAfter, Allocated, Released, Gauge, AccountEntry
<1>2. GaugeAfter(g, d, k, l) \in Gauge /\ GaugeAfter(g, e, k, l) \in Gauge
  BY GaugeType
<1>3. g.allocated \in Int /\ added(d) \in Int /\ added(e) \in Int
  BY DEF Gauge, AccountEntry
<1> HIDE DEF added
<1>4. /\ GaugeAfter(GaugeAfter(g, d, k, l), e, k, l).allocated
           = (g.allocated + added(d)) + added(e)
      /\ GaugeAfter(GaugeAfter(g, e, k, l), d, k, l).allocated
           = (g.allocated + added(e)) + added(d)
  BY <1>1, <1>2
<1> QED  BY <1>3, <1>4

(***************************************************************************)
(* The inductive step of ArrivalOrderIrrelevant, for every state of the    *)
(* loop of reconcile_request and every two entries: whichever of the two   *)
(* is folded first, every attempt, every total and all that was allocated  *)
(* come out the same, hence also the winner, the work and the waste.       *)
(***************************************************************************)
THEOREM FoldCommutes ==
  ASSUME NEW f \in FoldType, NEW d \in AccountEntry, NEW e \in AccountEntry
  PROVE  LET x == Folded(Folded(f, d), e)
             y == Folded(Folded(f, e), d)
         IN  /\ x.attempts = y.attempts /\ x.seen = y.seen /\ x.totals = y.totals
             /\ x.kv.allocated = y.kv.allocated
             /\ x.tensor.allocated = y.tensor.allocated
<1> DEFINE A(g, z) == [g EXCEPT ![z.attempt] = AttrAfter(@, z)]
<1>1. f.attempts \in [AttemptIds -> Attr]  BY DEF FoldType
<1>2. d.attempt \in AttemptIds /\ e.attempt \in AttemptIds  BY DEF AccountEntry
<1>3. A(A(f.attempts, d), e) = A(A(f.attempts, e), d)
  <2>1. CASE d.attempt = e.attempt
    <3>1. AttrAfter(AttrAfter(f.attempts[d.attempt], d), e)
            = AttrAfter(AttrAfter(f.attempts[d.attempt], e), d)
      BY <1>1, <1>2, AttrCommutes
    <3> QED  BY <1>1, <1>2, <2>1, <3>1
  <2>2. CASE d.attempt # e.attempt  BY <1>1, <1>2, <2>2
  <2> QED  BY <2>1, <2>2
<1>4. \A n \in Totals : (f.totals[n] + Contribution(n, d)) + Contribution(n, e)
                         = (f.totals[n] + Contribution(n, e)) + Contribution(n, d)
  <2> TAKE n \in Totals
  <2>1. f.totals[n] \in Int  BY DEF FoldType
  <2>2. Contribution(n, d) \in Int /\ Contribution(n, e) \in Int  BY ContributionType
  <2> QED  BY <2>1, <2>2
<1>5. /\ Folded(Folded(f, d), e).attempts = A(A(f.attempts, d), e)
      /\ Folded(Folded(f, e), d).attempts = A(A(f.attempts, e), d)
  BY Zenon DEF Folded
<1>6. Folded(Folded(f, d), e).seen = Folded(Folded(f, e), d).seen  BY Zenon DEF Folded
<1>7. Folded(Folded(f, d), e).totals = Folded(Folded(f, e), d).totals
  <2>1. /\ Folded(Folded(f, d), e).totals
             = [n \in Totals |-> (f.totals[n] + Contribution(n, d)) + Contribution(n, e)]
        /\ Folded(Folded(f, e), d).totals
             = [n \in Totals |-> (f.totals[n] + Contribution(n, e)) + Contribution(n, d)]
    BY Zenon DEF Folded
  <2> QED  BY <1>4, <2>1, SMTT(30)
<1>8. /\ Folded(Folded(f, d), e).kv.allocated = Folded(Folded(f, e), d).kv.allocated
      /\ Folded(Folded(f, d), e).tensor.allocated = Folded(Folded(f, e), d).tensor.allocated
  <2>1. f.kv \in Gauge /\ f.tensor \in Gauge  BY DEF FoldType
  <2>2. \A g, z : /\ Folded(g, z).kv = GaugeAfter(g.kv, z, "KvAllocate", "KvRelease")
                  /\ Folded(g, z).tensor
                       = GaugeAfter(g.tensor, z, "TensorAllocate", "TensorRelease")
    BY DEF Folded
  <2> QED  BY <2>1, <2>2, AllocatedCommutes
<1> QED  BY <1>3, <1>5, <1>6, <1>7, <1>8
-----------------------------------------------------------------------------
(* The winner *)

\* The function that Winning goes through: the best of some of the attempts.
IsSelection(h, f) ==
  h = [s \in SUBSET f.seen |-> IF s = {} THEN NoAttempt ELSE Better(f, Max(s), h[s \ {Max(s)}])]

LEMMA WinningUnfolded ==
  ASSUME NEW f
  PROVE  Winning(f) = (CHOOSE h : IsSelection(h, f))[f.seen]
BY DEF Winning, MapThenFoldSet, IsSelection

LEMMA SeenIsFinite ==
  ASSUME NEW f \in FoldType
  PROVE  /\ f.seen \in SUBSET AttemptIds /\ f.attempts \in [AttemptIds -> Attr]
         /\ \A s \in SUBSET f.seen : s \in SUBSET Nat /\ IsFiniteSet(s)
<1>1. f.seen \in SUBSET AttemptIds /\ f.attempts \in [AttemptIds -> Attr]  BY DEF FoldType
<1>2. AttemptIds \subseteq Nat /\ IsFiniteSet(AttemptIds)  BY AccountAssumption
<1>3. ASSUME NEW s \in SUBSET f.seen PROVE s \in SUBSET Nat /\ IsFiniteSet(s)
  <2>1. s \in SUBSET AttemptIds  BY <1>1
  <2> QED  BY <1>2, <2>1, FS_Subset
<1> QED  BY <1>1, <1>3

LEMMA IsSelectionExists ==
  ASSUME NEW f \in FoldType
  PROVE  \E h : IsSelection(h, f)
<1> DEFINE S == f.seen
           pick == LastOf(S)
           V == AttemptIds \cup {NoAttempt}
           body == [a \in S |-> [b \in V |-> Better(f, a, b)]]
<1>1. S \in SUBSET AttemptIds /\ \A s \in SUBSET S : s \in SUBSET Nat /\ IsFiniteSet(s)
  BY SeenIsFinite
<1>2. ASSUME NEW s \in SUBSET S, s # {}
      PROVE  pick[s] = Max(s) /\ Max(s) \in s /\ Rest(pick, s) = s \ {Max(s)}
  <2>1. Max(s) \in s  BY <1>1, <1>2, LargestElement
  <2> QED  BY <2>1 DEF LastOf, Rest
<1>3. ASSUME NEW a \in S, NEW b \in V
      PROVE  body[a][b] = Better(f, a, b) /\ body[a][b] \in V
  BY <1>1 DEF Better
<1>4. IsFiniteSet(S) /\ NoAttempt \in V  BY <1>1
<1> HIDE DEF S, pick, V, body
<1>5. Picks(pick, S)  BY <1>2 DEF Picks
<1>6. PICK h : IsFold(h, S, pick, NoAttempt, body)  BY <1>4, <1>5, FoldExists
<1>7. \A s \in SUBSET S : h[s] \in V  BY <1>3, <1>4, <1>5, <1>6, FoldStaysIn, Zenon
<1>8. ASSUME NEW s \in SUBSET S
      PROVE  h[s] = IF s = {} THEN NoAttempt ELSE Better(f, Max(s), h[s \ {Max(s)}])
  <2>1. CASE s = {}  BY <1>6, <2>1, FoldOfNothing
  <2>2. CASE s # {}
    <3>1. h[s] = body[pick[s]][h[Rest(pick, s)]]  BY <1>6, <2>2, FoldStep
    <3>2. pick[s] = Max(s) /\ Rest(pick, s) = s \ {Max(s)} /\ Max(s) \in S  BY <1>2, <2>2
    <3>3. h[s \ {Max(s)}] \in V  BY <1>7
    <3>4. body[Max(s)][h[s \ {Max(s)}]] = Better(f, Max(s), h[s \ {Max(s)}])  BY <1>3, <3>2, <3>3
    <3> QED  BY <2>2, <3>1, <3>2, <3>4
  <2> QED  BY <2>1, <2>2
<1>9. h = [s \in SUBSET S |-> h[s]]  BY <1>6, Zenon DEF IsFold
<1>10. IsSelection(h, f)  BY <1>8, <1>9, Zenon DEF IsSelection, S
<1> QED  BY <1>10

\* The attempts of s that ended without failing or being cancelled.
Ended(f, s) == {a \in s : Successful(f.attempts[a])}

\* Attempt b is the one that ended last, of those the one with the largest id.
EndedLast(f, s, b) ==
  IF Ended(f, s) = {} THEN b = NoAttempt
  ELSE /\ b \in Ended(f, s)
       /\ \A a \in Ended(f, s) :
            /\ f.attempts[a].terminal_ns <= f.attempts[b].terminal_ns
            /\ f.attempts[a].terminal_ns = f.attempts[b].terminal_ns => a <= b

(***************************************************************************)
(* The selection loop of reconcile_request computes the last attempt to    *)
(* end, and no other attempt is that.                                      *)
(***************************************************************************)
LEMMA WinningEndedLast ==
  ASSUME NEW f \in FoldType
  PROVE  EndedLast(f, f.seen, Winning(f))
<1> DEFINE S == f.seen
           h == CHOOSE g : IsSelection(g, f)
           G == {s \in SUBSET S : EndedLast(f, s, h[s])}
           t(a) == f.attempts[a].terminal_ns
<1>1. IsSelection(h, f) /\ Winning(f) = h[S]  BY IsSelectionExists, WinningUnfolded
<1> HIDE DEF h
<1>2. /\ S \in SUBSET AttemptIds /\ \A s \in SUBSET S : s \in SUBSET Nat /\ IsFiniteSet(s)
      /\ \A a \in S : t(a) \in Nat /\ a \in Nat /\ a # NoAttempt
  <2>1. S \in SUBSET AttemptIds /\ f.attempts \in [AttemptIds -> Attr]  BY SeenIsFinite
  <2>2. \A a \in S : t(a) \in Nat  BY <2>1 DEF Attr
  <2> QED  BY <2>1, <2>2, SeenIsFinite, AccountAssumption, Zenon
<1>3. ASSUME NEW s \in SUBSET S, \A a \in s : s \ {a} \in G PROVE s \in G
  <2>1. h[s] = IF s = {} THEN NoAttempt ELSE Better(f, Max(s), h[s \ {Max(s)}])
    BY <1>1, Zenon DEF IsSelection
  <2>2. CASE s = {}  BY <2>1, <2>2 DEF EndedLast, Ended
  <2>3. CASE s # {}
    <3> DEFINE m == Max(s)
               r == s \ {m}
               b == h[r]
    <3>1. m \in s /\ \A a \in s : a <= m  BY <1>2, <2>3, LargestElement
    <3>2. EndedLast(f, r, b)  BY <1>3, <3>1
    <3>3. h[s] = Better(f, m, b)  BY <2>1, <2>3
    <3>4. \A a \in s : a = m \/ a \in r  OBVIOUS
    <3> HIDE DEF m, b
    <3>5. Ended(f, s) = Ended(f, r) \cup (IF Successful(f.attempts[m]) THEN {m} ELSE {})
      BY <3>1 DEF Ended
    <3>6. b = NoAttempt \/ b \in Ended(f, r)  BY <3>2 DEF EndedLast
    <3>7. \A a \in Ended(f, r) : t(a) \in Nat /\ a \in Nat /\ a <= m /\ a # NoAttempt
      BY <1>2, <3>1 DEF Ended
    <3>8. t(m) \in Nat /\ m \in Nat  BY <1>2, <3>1
    <3> DEFINE wins == Successful(f.attempts[m])
    <3>9. CASE ~wins
      <4>1. h[s] = b /\ Ended(f, s) = Ended(f, r)  BY <3>3, <3>5, <3>9 DEF Better
      <4> QED  BY <3>2, <4>1, Zenon DEF EndedLast
    <3>10. CASE wins /\ Ended(f, r) = {}
      <4>1. b = NoAttempt /\ Ended(f, s) = {m}  BY <3>2, <3>5, <3>10 DEF EndedLast
      <4>2. h[s] = m  BY <3>3, <3>10, <4>1 DEF Better
      <4> QED  BY <3>8, <4>1, <4>2 DEF EndedLast
    <3>11. CASE wins /\ Ended(f, r) # {}
      <4>1. /\ b \in Ended(f, r) /\ b # NoAttempt /\ t(b) \in Nat
            /\ \A a \in Ended(f, r) : t(a) <= t(b) /\ (t(a) = t(b) => a <= b)
        BY <3>2, <3>7, <3>11, Zenon DEF EndedLast
      <4>2. Ended(f, s) = Ended(f, r) \cup {m}  BY <3>5, <3>11
      <4>3. h[s] = IF t(m) >= t(b) THEN m ELSE b  BY <3>3, <3>11, <4>1 DEF Better
      <4>4. CASE t(m) >= t(b)
        <5>1. ASSUME NEW a \in Ended(f, s) PROVE t(a) <= t(m) /\ (t(a) = t(m) => a <= m)
          <6> HIDE DEF t
          <6>1. CASE a = m  BY <3>8, <6>1
          <6>2. CASE a \in Ended(f, r)
            <7>1. t(a) \in Nat /\ a <= m /\ t(a) <= t(b)  BY <3>7, <4>1, <6>2
            <7> QED  BY <3>8, <4>1, <4>4, <7>1
          <6> QED  BY <4>2, <6>1, <6>2
        <5> QED  BY <4>2, <4>3, <4>4, <5>1, Zenon DEF EndedLast
      <4>5. CASE ~(t(m) >= t(b))
        <5>1. ASSUME NEW a \in Ended(f, s) PROVE t(a) <= t(b) /\ (t(a) = t(b) => a <= b)
          <6> HIDE DEF t
          <6>1. CASE a = m  BY <3>8, <4>1, <4>5, <6>1
          <6>2. CASE a \in Ended(f, r)  BY <4>1, <6>2
          <6> QED  BY <4>2, <6>1, <6>2
        <5> QED  BY <4>1, <4>2, <4>3, <4>5, <5>1, Zenon DEF EndedLast
      <4> QED  BY <4>4, <4>5
    <3> QED  BY <3>9, <3>10, <3>11
  <2> QED  BY <2>2, <2>3
<1>4. IsFiniteSet(S) /\ S \in SUBSET S  BY <1>2
<1>5. SUBSET S \subseteq G
  <2> HIDE DEF G, S
  <2> QED  BY <1>3, <1>4, OverSubsets, Zenon
<1> QED  BY <1>1, <1>4, <1>5

LEMMA EndedLastIsUnique ==
  ASSUME NEW f \in FoldType, NEW b, NEW c, EndedLast(f, f.seen, b), EndedLast(f, f.seen, c)
  PROVE  b = c
<1>1. CASE Ended(f, f.seen) = {}  BY <1>1 DEF EndedLast
<1>2. CASE Ended(f, f.seen) # {}
  <2>1. b \in Ended(f, f.seen) /\ c \in Ended(f, f.seen)  BY <1>2 DEF EndedLast
  <2>2. b \in AttemptIds /\ c \in AttemptIds  BY <2>1, SeenIsFinite DEF Ended
  <2>3. /\ b \in Nat /\ c \in Nat
        /\ f.attempts[b].terminal_ns \in Nat /\ f.attempts[c].terminal_ns \in Nat
    BY <2>2, SeenIsFinite, AccountAssumption DEF Attr
  <2>4. /\ f.attempts[b].terminal_ns <= f.attempts[c].terminal_ns
        /\ f.attempts[c].terminal_ns <= f.attempts[b].terminal_ns
        /\ f.attempts[b].terminal_ns = f.attempts[c].terminal_ns => b <= c /\ c <= b
    BY <1>2, <2>1 DEF EndedLast
  <2> QED  BY <2>3, <2>4
<1> QED  BY <1>1, <1>2

-----------------------------------------------------------------------------
(* The work of all attempts *)

Executions(f) == [a \in AttemptIds |-> f.attempts[a].exec_s]

Rejections(f) == [a \in AttemptIds |-> f.attempts[a].spec_rej_s]

LEMMA SummandTypes ==
  ASSUME NEW f \in FoldType
  PROVE  /\ Executions(f) \in [AttemptIds -> Int] /\ Rejections(f) \in [AttemptIds -> Int]
         /\ \A S \in SUBSET f.seen : S \in SUBSET AttemptIds /\ IsFiniteSet(S)
BY SeenIsFinite DEF Executions, Rejections, Attr

LEMMA ExecutionIsSum ==
  ASSUME NEW f, NEW S
  PROVE  ExecutionOf(f, S) = SumOver(Executions(f), S)
BY SumUnfolded DEF ExecutionOf, Executions

LEMMA RejectionIsSum ==
  ASSUME NEW f
  PROVE  spec_wasted_work_s(f) = SumOver(Rejections(f), f.seen)
BY SumUnfolded DEF spec_wasted_work_s, Rejections

-----------------------------------------------------------------------------
(* The order of arrival *)

\* The loop body as a function, and the locals after the first k entries of q.
LoopBody == [e \in AccountEntry |-> [f \in FoldType |-> Folded(f, e)]]

After(q, k) == Prefix(q, EmptyFold, LoopBody, k)

LEMMA LoopBodyType == LoopBody \in [AccountEntry -> [FoldType -> FoldType]]
BY FoldedType DEF LoopBody

LEMMA EmptyFoldType == EmptyFold \in FoldType
<1>1. NoAttr \in Attr  BY DEF NoAttr, Attr
<1> QED  BY <1>1 DEF EmptyFold, FoldType, EmptyGauge, Gauge, NoTimes

LEMMA AfterOneByOne ==
  ASSUME NEW q \in Seq(AccountEntry)
  PROVE  /\ After(q, 0) = EmptyFold
         /\ \A k \in 1..Len(q) : After(q, k) = Folded(After(q, k - 1), q[k])
         /\ \A k \in 0..Len(q) : After(q, k) \in FoldType
<1>1. After(q, 0) = EmptyFold  BY LoopBodyType, EmptyFoldType, PrefixOfNothing DEF After
<1>2. \A k \in 1..Len(q) : After(q, k) = LoopBody[q[k]][After(q, k - 1)]
  BY LoopBodyType, EmptyFoldType, PrefixStep DEF After
<1>3. \A k \in 0..Len(q) : After(q, k) \in FoldType
  BY LoopBodyType, EmptyFoldType, PrefixStep, Zenon DEF After
<1>4. ASSUME NEW k \in 1..Len(q) PROVE After(q, k) = Folded(After(q, k - 1), q[k])
  <2>1. k - 1 \in 0..Len(q) /\ q[k] \in AccountEntry  OBVIOUS
  <2>2. After(q, k - 1) \in FoldType  BY <1>3, <2>1
  <2>3. LoopBody[q[k]][After(q, k - 1)] = Folded(After(q, k - 1), q[k])
    BY <2>1, <2>2 DEF LoopBody
  <2> QED  BY <1>2, <2>3
<1> QED  BY <1>1, <1>3, <1>4

LEMMA AfterAgrees ==
  ASSUME NEW q \in Seq(AccountEntry), NEW r \in Seq(AccountEntry),
         NEW n \in Nat, n <= Len(q), n <= Len(r), \A k \in 1..n : q[k] = r[k]
  PROVE  \A k \in 0..n : After(q, k) = After(r, k)
BY LoopBodyType, EmptyFoldType, PrefixAgrees DEF After

\* The function that Reconciled goes through: the locals after some entries.
IsReconciled(h, q) ==
  h = [s \in SUBSET DOMAIN q |->
         IF s = {} THEN EmptyFold ELSE Folded(h[s \ {Max(s)}], q[Max(s)])]

LEMMA ReconciledUnfolded ==
  ASSUME NEW q
  PROVE  Reconciled(q) = (CHOOSE h : IsReconciled(h, q))[DOMAIN q]
BY DEF Reconciled, MapThenFoldSet, IsReconciled

LEMMA IsReconciledExists ==
  ASSUME NEW q \in Seq(AccountEntry)
  PROVE  \E h : IsReconciled(h, q)
<1> DEFINE n == Len(q)
           D == 1..n
           last == LastOf(D)
           body == ByPosition(LoopBody, q)
<1>1. n \in Nat /\ DOMAIN q = D /\ \A k \in D : q[k] \in AccountEntry  OBVIOUS
<1>2. PICK h : SeqFold(h, q, EmptyFold, LoopBody) /\ \A s \in SUBSET DOMAIN q : h[s] \in FoldType
  BY LoopBodyType, EmptyFoldType, SeqFoldExists, Zenon
<1>3. IsFold(h, D, last, EmptyFold, body)  BY <1>1, <1>2 DEF SeqFold
<1>4. Picks(last, D)  BY <1>1, LastOfPicks
<1>5. ASSUME NEW s \in SUBSET D, s # {}
      PROVE  last[s] = Max(s) /\ Max(s) \in s /\ Rest(last, s) = s \ {Max(s)}
  <2>1. last[s] = Max(s)  BY DEF LastOf
  <2> HIDE DEF last
  <2> QED  BY <1>4, <1>5, <2>1 DEF Picks, Rest
<1>6. ASSUME NEW k \in D PROVE body[k] = LoopBody[q[k]]  BY <1>1 DEF ByPosition
<1> HIDE DEF n, D, last, body
<1>7. ASSUME NEW s \in SUBSET D
      PROVE  h[s] = IF s = {} THEN EmptyFold ELSE Folded(h[s \ {Max(s)}], q[Max(s)])
  <2>1. CASE s = {}  BY <1>3, <2>1, FoldOfNothing
  <2>2. CASE s # {}
    <3>1. h[s] = body[last[s]][h[Rest(last, s)]]  BY <1>3, <2>2, FoldStep
    <3>2. last[s] = Max(s) /\ Rest(last, s) = s \ {Max(s)} /\ Max(s) \in D  BY <1>5, <2>2
    <3>3. h[s \ {Max(s)}] \in FoldType  BY <1>1, <1>2
    <3>4. q[Max(s)] \in AccountEntry /\ body[Max(s)] = LoopBody[q[Max(s)]]  BY <1>1, <1>6, <3>2
    <3>5. LoopBody[q[Max(s)]][h[s \ {Max(s)}]] = Folded(h[s \ {Max(s)}], q[Max(s)])
      BY <3>3, <3>4 DEF LoopBody
    <3> QED  BY <2>2, <3>1, <3>2, <3>4, <3>5
  <2> QED  BY <2>1, <2>2
<1>8. h = [s \in SUBSET D |-> h[s]]  BY <1>3, Zenon DEF IsFold
<1>9. IsReconciled(h, q)  BY <1>1, <1>7, <1>8, Zenon DEF IsReconciled
<1> QED  BY <1>9

(***************************************************************************)
(* The fold over a sequence of entries is the loop of reconcile_request    *)
(* run over it.                                                            *)
(***************************************************************************)
LEMMA ReconciledIsAfter ==
  ASSUME NEW q \in Seq(AccountEntry)
  PROVE  Reconciled(q) = After(q, Len(q))
<1> DEFINE n == Len(q)
           h == CHOOSE g : IsReconciled(g, q)
           G == {k \in Nat : h[1..k] = After(q, k)}
<1>1. n \in Nat /\ DOMAIN q = 1..n  OBVIOUS
<1>2. IsReconciled(h, q)  BY IsReconciledExists
<1>3. Reconciled(q) = h[1..n]  BY <1>1, ReconciledUnfolded
<1> HIDE DEF h
<1>4. 0 \in G
  <2>1. 1..0 = {} /\ 1..0 \in SUBSET DOMAIN q  OBVIOUS
  <2>2. h[1..0] = EmptyFold  BY <1>2, <2>1 DEF IsReconciled
  <2> QED  BY <2>2, AfterOneByOne
<1>5. ASSUME NEW k \in 0..(n - 1), k \in G PROVE k + 1 \in G
  <2> DEFINE m == k + 1
  <2>1. m \in 1..n /\ m - 1 = k /\ m \in Nat \ {0}  BY <1>1
  <2>2. m \in 1..m /\ \A j \in 1..m : j \in 1..n  BY <1>1, <2>1
  <2>3. 1..m \in SUBSET DOMAIN q /\ 1..m # {}  BY <1>1, <2>2
  <2>4. h[1..k] = After(q, k)  BY <1>5
  <2> HIDE DEF m
  <2>5. Max(1..m) = m /\ (1..m) \ {m} = 1..k
    <3>1. Max(1..m) = m /\ (1..m) \ {m} = 1..(m - 1)  BY <2>1, LastPosition
    <3> QED  BY <2>1, <3>1
  <2>6. h[1..m] = Folded(h[1..k], q[m])
    <3>1. h[1..m] = Folded(h[(1..m) \ {Max(1..m)}], q[Max(1..m)])
      BY <1>2, <2>3, Zenon DEF IsReconciled
    <3> QED  BY <2>5, <3>1, Zenon
  <2>7. After(q, m) = Folded(After(q, m - 1), q[m])  BY <2>1, AfterOneByOne
  <2>8. h[1..m] = After(q, m) /\ m \in Nat  BY <2>1, <2>4, <2>6, <2>7
  <2> QED  BY <2>8 DEF m
<1>6. 0..n \subseteq G
  <2> HIDE DEF G, n
  <2> QED  BY <1>1, <1>4, <1>5, UpToBound
<1>7. n \in 0..n  BY <1>1
<1>8. h[1..n] = After(q, n)  BY <1>6, <1>7
<1> QED  BY <1>3, <1>8

===========================================================================
