--------------------------- MODULE BillingProofs ---------------------------
(***************************************************************************)
(* Proofs about queries, batches and shared costs (query.cpp, batch.cpp),  *)
(* for every ledger, every batch and all weights: the ways to take a       *)
(* ledger apart agree, batches add up to requests, the shares and the      *)
(* overhead of a bill make up its total, and the shares follow the weights.*)
(*                                                                         *)
(* The code goes through its sequences in loops; here they are listings of *)
(* sets, and sums over them are sums over the sets.  RequestAccountProofs  *)
(* has the induction for sums.                                             *)
(***************************************************************************)
EXTENDS Billing, RequestAccountProofs

-----------------------------------------------------------------------------
(* Sums *)

LEMMA SumSame ==
  ASSUME NEW A, NEW g \in [A -> Int], NEW B, NEW h \in [B -> Int],
         NEW S \in SUBSET A, S \in SUBSET B, IsFiniteSet(S), \A x \in S : g[x] = h[x]
  PROVE  SumOver(g, S) = SumOver(h, S)
<1> DEFINE G == {s \in SUBSET S : SumOver(g, s) = SumOver(h, s)}
<1>1. ASSUME NEW s \in SUBSET S, \A x \in s : s \ {x} \in G PROVE s \in G
  <2>1. s \in SUBSET A /\ s \in SUBSET B /\ IsFiniteSet(s)  BY FS_Subset
  <2>2. CASE s = {}  BY <2>1, <2>2, SumPicked, Zenon
  <2>3. CASE s # {}
    <3>1. PICK x \in s : TRUE  BY <2>3
    <3>2. SumOver(g, s) = g[x] + SumOver(g, s \ {x})  BY <2>1, SumTaken
    <3>3. SumOver(h, s) = h[x] + SumOver(h, s \ {x})  BY <2>1, SumTaken
    <3> QED  BY <1>1, <3>2, <3>3
  <2> QED  BY <2>2, <2>3
<1>2. SUBSET S \subseteq G
  <2> HIDE DEF G
  <2> QED  BY <1>1, OverSubsets, Zenon
<1> QED  BY <1>2

LEMMA SumInNat ==
  ASSUME NEW A, NEW g \in [A -> Nat], NEW S \in SUBSET A, IsFiniteSet(S)
  PROVE  SumOver(g, S) \in Nat
<1> DEFINE G == {s \in SUBSET S : SumOver(g, s) \in Nat}
<1>1. g \in [A -> Int]  OBVIOUS
<1>2. ASSUME NEW s \in SUBSET S, \A x \in s : s \ {x} \in G PROVE s \in G
  <2>1. s \in SUBSET A /\ IsFiniteSet(s)  BY FS_Subset
  <2>2. CASE s = {}
    <3>1. SumOver(g, s) = 0  BY <1>1, <2>1, <2>2, SumPicked, Zenon
    <3> QED  BY <3>1
  <2>3. CASE s # {}
    <3>1. PICK x \in s : TRUE  BY <2>3
    <3>2. SumOver(g, s) = g[x] + SumOver(g, s \ {x})  BY <1>1, <2>1, SumTaken
    <3> QED  BY <1>2, <2>1, <3>2
  <2> QED  BY <2>2, <2>3
<1>3. SUBSET S \subseteq G
  <2> HIDE DEF G
  <2> QED  BY <1>2, OverSubsets, Zenon
<1> QED  BY <1>3

Image(p, S) == {p[x] : x \in S}

LEMMA ImageIsFinite ==
  ASSUME NEW p, NEW S, IsFiniteSet(S)
  PROVE  IsFiniteSet(Image(p, S))
<1> DEFINE q == [x \in S |-> p[x]]
<1>1. q \in Surjection(S, Image(p, S))  BY DEF Surjection, Image
<1> QED  BY <1>1, FS_Surjection

(***************************************************************************)
(* A sum does not depend on how its summands are indexed.                  *)
(***************************************************************************)
LEMMA SumReindexed ==
  ASSUME NEW K, IsFiniteSet(K), NEW A, NEW g \in [A -> Int], NEW p \in [K -> A],
         \A x, y \in K : p[x] = p[y] => x = y
  PROVE  SumOver([k \in K |-> g[p[k]]], K) = SumOver(g, Image(p, K))
<1> DEFINE h == [k \in K |-> g[p[k]]]
           G == {s \in SUBSET K : SumOver(h, s) = SumOver(g, Image(p, s))}
<1>1. h \in [K -> Int] /\ \A k \in K : h[k] = g[p[k]]  OBVIOUS
<1> HIDE DEF h
<1>2. ASSUME NEW s \in SUBSET K, \A x \in s : s \ {x} \in G PROVE s \in G
  <2>1. IsFiniteSet(s)  BY FS_Subset
  <2>2. Image(p, s) \in SUBSET A /\ IsFiniteSet(Image(p, s))
    <3>1. Image(p, s) \in SUBSET A  BY DEF Image
    <3> QED  BY <2>1, <3>1, ImageIsFinite
  <2>3. CASE s = {}
    <3>1. Image(p, s) = {}  BY <2>3 DEF Image
    <3>2. SumOver(h, s) = 0  BY <1>1, <2>1, <2>3, SumPicked, Zenon
    <3>3. SumOver(g, Image(p, s)) = 0  BY <2>2, <3>1, SumPicked, Zenon
    <3> QED  BY <3>2, <3>3
  <2>4. CASE s # {}
    <3>1. PICK x \in s : TRUE  BY <2>4
    <3>2. p[x] \in Image(p, s) /\ Image(p, s) \ {p[x]} = Image(p, s \ {x})  BY DEF Image
    <3>3. SumOver(h, s) = h[x] + SumOver(h, s \ {x})  BY <1>1, <2>1, SumTaken
    <3>4. SumOver(g, Image(p, s)) = g[p[x]] + SumOver(g, Image(p, s) \ {p[x]})
      BY <2>2, <3>2, SumTaken
    <3>5. SumOver(h, s \ {x}) = SumOver(g, Image(p, s \ {x})) /\ h[x] = g[p[x]]  BY <1>1, <1>2
    <3> QED  BY <3>2, <3>3, <3>4, <3>5, Zenon
  <2> QED  BY <2>3, <2>4
<1>3. SUBSET K \subseteq G
  <2> HIDE DEF G
  <2> QED  BY <1>2, OverSubsets, Zenon
<1> QED  BY <1>3 DEF h

(***************************************************************************)
(* The sum of the sums over sets without common elements.                  *)
(***************************************************************************)
LEMMA SumOfSums ==
  ASSUME NEW B, IsFiniteSet(B), NEW A, NEW g \in [A -> Int], NEW R \in [B -> SUBSET A],
         \A b \in B : IsFiniteSet(R[b]), \A b, c \in B : b # c => R[b] \cap R[c] = {}
  PROVE  SumOver([b \in B |-> SumOver(g, R[b])], B) = SumOver(g, UNION Image(R, B))
<1> DEFINE h == [b \in B |-> SumOver(g, R[b])]
           G == {s \in SUBSET B : /\ SumOver(h, s) = SumOver(g, UNION Image(R, s))
                                  /\ IsFiniteSet(UNION Image(R, s))}
<1>1. h \in [B -> Int] /\ \A b \in B : h[b] = SumOver(g, R[b])
  <2>1. ASSUME NEW b \in B PROVE SumOver(g, R[b]) \in Int
    <3>1. R[b] \in SUBSET A /\ IsFiniteSet(R[b])  OBVIOUS
    <3> QED  BY <3>1, SumPicked, Zenon
  <2> QED  BY <2>1
<1> HIDE DEF h
<1>2. ASSUME NEW s \in SUBSET B, \A x \in s : s \ {x} \in G PROVE s \in G
  <2>1. IsFiniteSet(s)  BY FS_Subset
  <2>2. CASE s = {}
    <3>1. UNION Image(R, s) = {} /\ {} \in SUBSET A  BY <2>2 DEF Image
    <3>2. SumOver(h, s) = 0  BY <1>1, <2>1, <2>2, SumPicked, Zenon
    <3>3. SumOver(g, {}) = 0  BY <3>1, FS_EmptySet, SumPicked, Zenon
    <3> QED  BY <3>1, <3>2, <3>3, FS_EmptySet, Zenon
  <2>3. CASE s # {}
    <3>1. PICK x \in s : TRUE  BY <2>3
    <3> DEFINE U == UNION Image(R, s \ {x})
    <3>2. R[x] \in SUBSET A /\ IsFiniteSet(R[x])  OBVIOUS
    <3>3. U \in SUBSET A /\ R[x] \cap U = {} /\ UNION Image(R, s) = R[x] \cup U  BY DEF Image
    <3>4. SumOver(h, s \ {x}) = SumOver(g, U) /\ IsFiniteSet(U)  BY <1>2, Zenon
    <3> HIDE DEF U
    <3>5. SumOver(h, s) = h[x] + SumOver(h, s \ {x})  BY <1>1, <2>1, SumTaken
    <3>6. SumOver(g, R[x] \cup U) = SumOver(g, R[x]) + SumOver(g, U)  BY <3>2, <3>3, <3>4, SumSplit
    <3>7. h[x] = SumOver(g, R[x])  BY <1>1
    <3>8. IsFiniteSet(R[x] \cup U)  BY <3>2, <3>4, FS_Union, Zenon
    <3> QED  BY <3>3, <3>4, <3>5, <3>6, <3>7, <3>8, Zenon
  <2> QED  BY <2>2, <2>3
<1>3. SUBSET B \subseteq G
  <2> HIDE DEF G
  <2> QED  BY <1>2, OverSubsets, Zenon
<1>4. B \in G  BY <1>3
<1> QED  BY <1>4 DEF h

(***************************************************************************)
(* Sums of sequences.  What the loop of allocate_shared needs of them:     *)
(* they grow by what is appended.                                          *)
(***************************************************************************)
LEMMA SumOfSeq ==
  ASSUME NEW q \in Seq(Int)
  PROVE  /\ IsFiniteSet(DOMAIN q) /\ q \in [DOMAIN q -> Int]
         /\ SumFunction(q) = SumOver(q, DOMAIN q) /\ SumFunction(q) \in Int
<1>1. DOMAIN q = 1..Len(q) /\ q \in [DOMAIN q -> Int]  OBVIOUS
<1>2. IsFiniteSet(DOMAIN q)
  <2>1. 1 \in Int /\ Len(q) \in Int  OBVIOUS
  <2>2. IsFiniteSet(1..Len(q))  BY <2>1, FS_Interval
  <2> QED  BY <1>1, <2>2
<1>3. DOMAIN q \in SUBSET DOMAIN q  OBVIOUS
<1>4. SumOver(q, DOMAIN q) \in Int  BY <1>1, <1>2, <1>3, SumPicked, Zenon
<1> QED  BY <1>1, <1>2, <1>4, SumFunctionUnfolded

LEMMA SumOfAppend ==
  ASSUME NEW q \in Seq(Int), NEW v \in Int
  PROVE  SumFunction(Append(q, v)) = SumFunction(q) + v
<1> DEFINE r == Append(q, v)
           n == Len(q) + 1
<1>1. /\ r \in Seq(Int) /\ n \in DOMAIN r /\ r[n] = v /\ (DOMAIN r) \ {n} = DOMAIN q
      /\ DOMAIN q \in SUBSET DOMAIN r /\ DOMAIN q \in SUBSET DOMAIN q
      /\ \A x \in DOMAIN q : r[x] = q[x]
  <2>1. r \in Seq(Int) /\ r[n] = v /\ \A x \in 1..Len(q) : r[x] = q[x]  OBVIOUS
  <2>2. DOMAIN r = 1..n /\ DOMAIN q = 1..Len(q) /\ Len(q) \in Nat /\ n = Len(q) + 1  OBVIOUS
  <2> HIDE DEF r, n
  <2> QED  BY <2>1, <2>2
<1> HIDE DEF r, n
<1>2. r \in [DOMAIN r -> Int] /\ IsFiniteSet(DOMAIN r) /\ SumFunction(r) = SumOver(r, DOMAIN r)
  BY <1>1, SumOfSeq
<1>3. /\ q \in [DOMAIN q -> Int] /\ IsFiniteSet(DOMAIN q)
      /\ SumFunction(q) = SumOver(q, DOMAIN q) /\ SumFunction(q) \in Int
  BY SumOfSeq
<1>4. SumOver(r, DOMAIN r) = r[n] + SumOver(r, (DOMAIN r) \ {n})
  <2>1. DOMAIN r \in SUBSET DOMAIN r  OBVIOUS
  <2> QED  BY <1>1, <1>2, <2>1, SumTaken
<1>5. SumOver(r, DOMAIN q) = SumOver(q, DOMAIN q)
  <2> DEFINE D == DOMAIN q
             E == DOMAIN r
  <2>1. /\ r \in [E -> Int] /\ q \in [D -> Int] /\ D \in SUBSET E /\ D \in SUBSET D
        /\ IsFiniteSet(D) /\ \A x \in D : r[x] = q[x]
    BY <1>1, <1>2, <1>3, Zenon
  <2> HIDE DEF D, E
  <2>2. SumOver(r, D) = SumOver(q, D)  BY <2>1, SumSame, SMTT(30)
  <2> QED  BY <2>2 DEF D
<1>6. SumFunction(r) = v + SumFunction(q)  BY <1>1, <1>2, <1>3, <1>4, <1>5
<1> QED  BY <1>3, <1>6 DEF r

LEMMA SumOfNothing == SumFunction(<<>>) = 0
<1>1. << >> \in Seq(Int) /\ DOMAIN << >> = {} /\ {} \in SUBSET {}  OBVIOUS
<1>2. SumFunction(<< >>) = SumOver(<< >>, {}) /\ << >> \in [{} -> Int]  BY <1>1, SumOfSeq, Zenon
<1> QED  BY <1>1, <1>2, FS_EmptySet, SumPicked, Zenon

(***************************************************************************)
(* uniform_weights: their sum is the number of members.                    *)
(***************************************************************************)
LEMMA SumOfUniform ==
  ASSUME NEW n \in Nat
  PROVE  SumFunction(uniform_weights(n)) = n
<1> DEFINE G == {k \in Nat : SumFunction(uniform_weights(k)) = k}
<1>1. 0 \in G
  <2>1. uniform_weights(0) = << >>  BY DEF uniform_weights
  <2> QED  BY <2>1, SumOfNothing
<1>2. ASSUME NEW k \in 0..(n - 1), k \in G PROVE k + 1 \in G
  <2>1. /\ k \in Nat /\ uniform_weights(k) \in Seq(Int)
        /\ uniform_weights(k + 1) = Append(uniform_weights(k), 1)
    BY DEF uniform_weights
  <2>2. SumFunction(Append(uniform_weights(k), 1)) = SumFunction(uniform_weights(k)) + 1
    <3> DEFINE u == uniform_weights(k)
               v == 1
    <3>1. u \in Seq(Int) /\ v \in Int  BY <2>1
    <3> HIDE DEF u, v
    <3>2. SumFunction(Append(u, v)) = SumFunction(u) + v  BY <3>1, SumOfAppend
    <3> QED  BY <3>2 DEF u, v
  <2>3. SumFunction(uniform_weights(k + 1)) = SumFunction(uniform_weights(k)) + 1
    BY <2>1, <2>2, Zenon
  <2>4. SumFunction(uniform_weights(k)) = k  BY <1>2
  <2> QED  BY <2>1, <2>3, <2>4
<1>3. 0..n \subseteq G
  <2> HIDE DEF G
  <2> QED  BY <1>1, <1>2, UpToBound
<1>4. n \in G  BY <1>3
<1> QED  BY <1>4

-----------------------------------------------------------------------------
(* Order *)

LEMMA PositionsAreFinite ==
  ASSUME NEW X, NEW s \in Seq(X)
  PROVE  \A P \in SUBSET DOMAIN s : P \in SUBSET Nat /\ IsFiniteSet(P)
<1>1. DOMAIN s = 1..Len(s) /\ Len(s) \in Nat  OBVIOUS
<1>2. IsFiniteSet(1..Len(s))  BY <1>1, LastOfPicks
<1> SUFFICES ASSUME NEW P \in SUBSET DOMAIN s PROVE P \in SUBSET Nat /\ IsFiniteSet(P)
  OBVIOUS
<1>3. P \in SUBSET (1..Len(s))  BY <1>1
<1>4. IsFiniteSet(P)  BY <1>2, <1>3, FS_Subset
<1> QED  BY <1>3, <1>4

(***************************************************************************)
(* A larger element of a finite set has more elements below it.            *)
(***************************************************************************)
Below(S, x) == {y \in S : y < x}

LEMMA RankIncreases ==
  ASSUME NEW S \in SUBSET Nat, IsFiniteSet(S)
  PROVE  /\ Cardinality(S) \in Nat
         /\ \A x \in S : /\ Cardinality(Below(S, x)) \in Nat
                         /\ Cardinality(Below(S, x)) < Cardinality(S)
         /\ \A x, y \in S : x < y => Cardinality(Below(S, x)) < Cardinality(Below(S, y))
<1>1. ASSUME NEW T \in SUBSET S PROVE IsFiniteSet(T) /\ Cardinality(T) \in Nat
  BY <1>1, FS_Subset, FS_CardinalityType, Zenon
<1>2. ASSUME NEW T \in SUBSET S, NEW x \in T, x \notin Below(S, x), Below(S, x) \subseteq T
      PROVE  Cardinality(Below(S, x)) < Cardinality(T)
  <2> DEFINE U == T \ {x}
  <2>1. U \in SUBSET S /\ Below(S, x) \in SUBSET U  BY <1>2
  <2>2. IsFiniteSet(T) /\ IsFiniteSet(U) /\ Cardinality(T) \in Nat /\ Cardinality(U) \in Nat
    BY <1>1, <2>1
  <2>3. Cardinality(U) = Cardinality(T) - 1  BY <2>2, FS_RemoveElement
  <2> HIDE DEF U
  <2>4. Cardinality(Below(S, x)) <= Cardinality(U)  BY <2>1, <2>2, FS_Subset
  <2>5. Cardinality(Below(S, x)) \in Nat
    <3>1. Below(S, x) \in SUBSET S  BY <2>1, Zenon
    <3> QED  BY <1>1, <3>1
  <2> QED  BY <2>2, <2>3, <2>4, <2>5
<1>3. ASSUME NEW x \in S
      PROVE  Below(S, x) \in SUBSET S /\ x \notin Below(S, x)
  BY DEF Below
<1>4. ASSUME NEW x \in S, NEW y \in S, x < y
      PROVE  Cardinality(Below(S, x)) < Cardinality(Below(S, y))
  <2>1. x \in Below(S, y) /\ Below(S, x) \subseteq Below(S, y)
    <3>1. \A z \in S : z < x => z < y  BY <1>4
    <3> QED  BY <1>4, <3>1, Zenon DEF Below
  <2> QED  BY <1>2, <1>3, <2>1
<1>5. ASSUME NEW x \in S
      PROVE  Cardinality(Below(S, x)) \in Nat /\ Cardinality(Below(S, x)) < Cardinality(S)
  BY <1>1, <1>2, <1>3
<1>6. Cardinality(S) \in Nat  BY <1>1
<1> QED  BY <1>4, <1>5, <1>6

(***************************************************************************)
(* InOrder lists every element of a finite set of numbers exactly once.    *)
(***************************************************************************)
LEMMA InOrderListsOnce ==
  ASSUME NEW S \in SUBSET Nat, IsFiniteSet(S)
  PROVE  /\ Cardinality(S) \in Nat
         /\ InOrder(S) \in [1..Cardinality(S) -> S]
         /\ \A j, k \in 1..Cardinality(S) : InOrder(S)[j] = InOrder(S)[k] => j = k
         /\ Image(InOrder(S), 1..Cardinality(S)) = S
<1> DEFINE n == Cardinality(S)
           c == [x \in S |-> Cardinality(Below(S, x)) + 1]
           p == InOrder(S)
<1>1. /\ n \in Nat
      /\ \A x \in S : Cardinality(Below(S, x)) \in Nat /\ Cardinality(Below(S, x)) < n
      /\ \A x, y \in S : x < y => Cardinality(Below(S, x)) < Cardinality(Below(S, y))
  BY RankIncreases
<1>2. p = [k \in 1..n |-> CHOOSE x \in S : Cardinality(Below(S, x)) = k - 1]
  BY DEF InOrder, Below
<1>3. \A x \in S : c[x] = Cardinality(Below(S, x)) + 1  OBVIOUS
<1>4. c \in [S -> 1..n]  BY <1>1
<1> HIDE DEF n, c, p
<1>5. \A x, y \in S : c[x] = c[y] => x = y
  <2> SUFFICES ASSUME NEW x \in S, NEW y \in S, c[x] = c[y] PROVE x = y  OBVIOUS
  <2>1. Cardinality(Below(S, x)) = Cardinality(Below(S, y))  BY <1>1, <1>3
  <2>2. ~(x < y) /\ ~(y < x)  BY <1>1, <2>1
  <2> QED  BY <2>2
<1>6. c \in Surjection(S, 1..n)
  <2>1. c \in Injection(S, 1..n)  BY <1>4, <1>5 DEF Injection, IsInjective
  <2>2. IsFiniteSet(1..n)  BY <1>1, LastOfPicks
  <2>3. Cardinality(1..n) = n
    <3>1. 1 \in Int /\ n \in Int  BY <1>1
    <3>2. Cardinality(1..n) = IF 1 > n THEN 0 ELSE n - 1 + 1  BY <3>1, FS_Interval
    <3> QED  BY <1>1, <3>2
  <2> QED  BY <2>1, <2>2, <2>3, FS_Injection DEF n
<1>7. ASSUME NEW k \in 1..n PROVE p[k] \in S /\ c[p[k]] = k
  <2>1. PICK x \in S : c[x] = k  BY <1>6 DEF Surjection
  <2>2. Cardinality(Below(S, x)) = k - 1  BY <1>1, <1>3, <2>1
  <2>3. p[k] \in S /\ Cardinality(Below(S, p[k])) = k - 1  BY <1>2, <2>2
  <2>4. c[p[k]] = (k - 1) + 1  BY <1>3, <2>3, Zenon
  <2> QED  BY <2>3, <2>4
<1>8. p \in [1..n -> S]  BY <1>2, <1>7
<1>9. \A j, k \in 1..n : p[j] = p[k] => j = k  BY <1>7
<1>10. Image(p, 1..n) = S
  <2>1. ASSUME NEW x \in S PROVE x \in Image(p, 1..n)
    <3>1. c[x] \in 1..n  BY <1>4
    <3>2. c[p[c[x]]] = c[x] /\ p[c[x]] \in S  BY <1>7, <3>1
    <3>3. p[c[x]] = x  BY <1>5, <3>2, Zenon
    <3> QED  BY <3>1, <3>3 DEF Image
  <2> QED  BY <1>8, <2>1, Zenon DEF Image
<1> QED  BY <1>1, <1>8, <1>9, <1>10 DEF n, p

-----------------------------------------------------------------------------
(* Selection and grouping *)

LEMMA EntriesAtType ==
  ASSUME NEW X, NEW s \in Seq(X), NEW P \in SUBSET DOMAIN s
  PROVE  /\ EntriesAt(s, P) \in Seq(X) /\ DOMAIN EntriesAt(s, P) = 1..Cardinality(P)
         /\ \A k \in 1..Cardinality(P) :
              InOrder(P)[k] \in P /\ EntriesAt(s, P)[k] = s[InOrder(P)[k]]
<1>1. P \in SUBSET Nat /\ IsFiniteSet(P)  BY PositionsAreFinite
<1> DEFINE n == Cardinality(P)
           p == InOrder(P)
<1>2. n \in Nat /\ p \in [1..n -> P]  BY <1>1, InOrderListsOnce
<1>3. EntriesAt(s, P) = [k \in DOMAIN p |-> s[p[k]]]  BY DEF EntriesAt
<1> HIDE DEF n, p
<1>4. DOMAIN p = 1..n /\ \A k \in 1..n : p[k] \in P /\ s[p[k]] \in X  BY <1>2
<1>5. EntriesAt(s, P) = [k \in 1..n |-> s[p[k]]]  BY <1>3, <1>4
<1>6. EntriesAt(s, P) \in [1..n -> X] /\ \A k \in 1..n : EntriesAt(s, P)[k] = s[p[k]]  BY <1>4, <1>5
<1>7. EntriesAt(s, P) \in Seq(X)  BY <1>2, <1>6
<1> QED  BY <1>4, <1>6, <1>7 DEF n, p

\* The requests of some entries.
Requests(s) == {s[i].request : i \in DOMAIN s}

LEMMA RequestsAreFinite ==
  ASSUME NEW s \in Seq(Items)
  PROVE  \A R \in SUBSET Requests(s) :
           R \in SUBSET RequestIds /\ R \in SUBSET Nat /\ IsFiniteSet(R)
<1> DEFINE q == [i \in DOMAIN s |-> s[i].request]
<1>1. Requests(s) = Image(q, DOMAIN s)  BY DEF Requests, Image
<1>2. DOMAIN s \in SUBSET DOMAIN s  OBVIOUS
<1>3. IsFiniteSet(DOMAIN s)  BY <1>2, PositionsAreFinite
<1> HIDE DEF q
<1>4. IsFiniteSet(Requests(s))  BY <1>1, <1>3, ImageIsFinite
<1>5. Requests(s) \in SUBSET RequestIds
  <2>1. \A i \in DOMAIN s : s[i] \in Items  OBVIOUS
  <2> QED  BY <2>1, QueryAssumption DEF Requests
<1> SUFFICES ASSUME NEW R \in SUBSET Requests(s)
             PROVE  R \in SUBSET RequestIds /\ R \in SUBSET Nat /\ IsFiniteSet(R)
  BY Zenon
<1>6. IsFiniteSet(R)  BY <1>4, FS_Subset
<1> QED  BY <1>5, <1>6, QueryAssumption, Zenon

(***************************************************************************)
(* query_ledger selects the entries of a request.                          *)
(***************************************************************************)
LEMMA QueryOfRequest ==
  ASSUME NEW s, NEW r
  PROVE  query_ledger(s, [request |-> r]) = EntriesAt(s, OfRequest(s, r))
<1> DEFINE q == [request |-> r]
<1>1. DOMAIN q = {"request"} /\ q["request"] = r  OBVIOUS
<1> HIDE DEF q
<1>2. ASSUME NEW x PROVE Matches(x, q) <=> x.request = r
  <2>1. /\ DOMAIN q \cap {"request", "worker", "batch", "outcome"} = {"request"}
        /\ DOMAIN q \cap {"attempt", "kind", "resource"} = {}
        /\ "start_ns" \notin DOMAIN q /\ "end_ns" \notin DOMAIN q
    BY <1>1
  <2> QED  BY <1>1, <2>1 DEF Matches
<1>3. {i \in DOMAIN s : Matches(s[i], q)} = OfRequest(s, r)  BY <1>2 DEF OfRequest
<1> QED  BY <1>3 DEF query_ledger, q

(***************************************************************************)
(* distinct_requests lists every request that is not zero exactly once: at *)
(* its first entry.                                                        *)
(***************************************************************************)
LEMMA DistinctListsOnce ==
  ASSUME NEW s \in Seq(Items)
  PROVE  LET ids == distinct_requests(s)
             n == Cardinality(Requests(s) \ {0})
         IN  /\ n \in Nat /\ ids \in [1..n -> Requests(s) \ {0}]
             /\ \A j, k \in 1..n : ids[j] = ids[k] => j = k
             /\ Image(ids, 1..n) = Requests(s) \ {0}
<1> DEFINE P == {i \in DOMAIN s : /\ s[i].request # 0
                                  /\ OfRequest(s, s[i].request) \cap 1..(i - 1) = {}}
           m == Cardinality(P)
           p == InOrder(P)
           R == Requests(s) \ {0}
           ids == distinct_requests(s)
<1>1. P \in SUBSET DOMAIN s /\ DOMAIN s \in SUBSET Nat
  <2>1. DOMAIN s \in SUBSET DOMAIN s  OBVIOUS
  <2> QED  BY <2>1, PositionsAreFinite
<1>2. P \in SUBSET Nat /\ IsFiniteSet(P)  BY <1>1, PositionsAreFinite
<1>3. /\ m \in Nat /\ p \in [1..m -> P]
      /\ \A j, k \in 1..m : p[j] = p[k] => j = k
      /\ Image(p, 1..m) = P
  <2> HIDE DEF P
  <2> QED  BY <1>2, InOrderListsOnce
<1>4. ids = [k \in 1..m |-> s[p[k]].request]
  <2> DEFINE e == EntriesAt(s, P)
  <2>1. DOMAIN e = 1..m /\ \A k \in 1..m : e[k] = s[p[k]]
    <3> HIDE DEF P
    <3> QED  BY <1>1, EntriesAtType
  <2>2. ids = [k \in DOMAIN e |-> e[k].request]  BY DEF distinct_requests
  <2> HIDE DEF e, P, p, m, ids
  <2> QED  BY <2>1, <2>2
<1>5. ASSUME NEW i \in P PROVE s[i].request \in R  BY DEF Requests
<1>6. ASSUME NEW i \in P, NEW j \in P, s[i].request = s[j].request PROVE i = j
  <2>1. i \in Nat /\ j \in Nat /\ i >= 1 /\ j >= 1  BY <1>1
  <2>2. i \in OfRequest(s, s[i].request) /\ j \in OfRequest(s, s[i].request)
    BY <1>1, <1>6 DEF OfRequest
  <2>3. i \notin 1..(j - 1) /\ j \notin 1..(i - 1)  BY <1>6, <2>2
  <2> QED  BY <2>1, <2>3
<1>7. ASSUME NEW r \in R PROVE \E i \in P : s[i].request = r
  <2> DEFINE T == OfRequest(s, r)
  <2>1. T \in SUBSET Nat /\ T # {} /\ T \in SUBSET DOMAIN s  BY <1>1 DEF OfRequest, Requests
  <2>2. PICK i \in T : \A j \in T : i <= j
    <3> HIDE DEF T
    <3> QED  BY <2>1, LeastElement
  <2>3. s[i].request = r /\ r # 0 /\ i \in DOMAIN s  BY DEF OfRequest
  <2>4. T \cap 1..(i - 1) = {}
    <3> HIDE DEF T
    <3>1. ASSUME NEW j \in T, j \in 1..(i - 1) PROVE FALSE
      <4>1. i <= j /\ i \in Nat /\ j \in Nat  BY <2>1, <2>2
      <4> QED  BY <3>1, <4>1
    <3> QED  BY <3>1
  <2>5. i \in P  BY <2>3, <2>4
  <2> QED  BY <2>3, <2>5
<1> HIDE DEF P, p, m, R, ids
<1>8. ids \in [1..m -> R]  BY <1>3, <1>4, <1>5
<1>9. \A j, k \in 1..m : ids[j] = ids[k] => j = k
  <2> SUFFICES ASSUME NEW j \in 1..m, NEW k \in 1..m, ids[j] = ids[k] PROVE j = k  OBVIOUS
  <2>1. p[j] \in P /\ p[k] \in P /\ s[p[j]].request = s[p[k]].request  BY <1>3, <1>4
  <2>2. p[j] = p[k]  BY <1>6, <2>1
  <2> QED  BY <1>3, <2>2
<1>10. Image(ids, 1..m) = R
  <2>1. ASSUME NEW r \in R PROVE r \in Image(ids, 1..m)
    <3>1. PICK i \in P : s[i].request = r  BY <1>7
    <3>2. PICK k \in 1..m : p[k] = i  BY <1>3 DEF Image
    <3>3. ids[k] = r  BY <1>4, <3>1, <3>2
    <3> QED  BY <3>3 DEF Image
  <2> QED  BY <1>8, <2>1 DEF Image
<1>11. Cardinality(R) = m
  <2>1. ids \in Injection(1..m, R) /\ ids \in Surjection(1..m, R)
    BY <1>8, <1>9, <1>10 DEF Injection, IsInjective, Surjection, Image
  <2>2. ExistsBijection(1..m, R)  BY <2>1 DEF ExistsBijection, Bijection
  <2> QED  BY <1>3, <2>2, FS_CountingElements
<1> QED  BY <1>3, <1>8, <1>9, <1>10, <1>11, Zenon DEF ids, R

-----------------------------------------------------------------------------
(* Accounts *)

(***************************************************************************)
(* The fields of an account that bills are made from are numbers.          *)
(***************************************************************************)
LEMMA AccountNumbers ==
  ASSUME NEW s \in Seq(Items)
  PROVE  LET acc == reconcile_request(s) IN
         /\ acc.work.gpu_active_s \in Nat /\ acc.work.execution_s \in Int
         /\ acc.work.generated_tokens \in Int
         /\ acc.kv_allocated \in Int /\ acc.tensor_allocated \in Int
         /\ acc.totals.res_acq \in Int
<1> DEFINE q == [i \in DOMAIN s |-> s[i].entry]
           f == Reconciled(q)
           W == Winning(f)
           a == IF W = NoAttempt THEN NoAttr ELSE f.attempts[W]
<1>1. q \in Seq(AccountEntry)
  <2>1. DOMAIN s = 1..Len(s) /\ Len(s) \in Nat /\ \A i \in DOMAIN s : s[i] \in Items  OBVIOUS
  <2>2. \A i \in DOMAIN s : s[i].entry \in AccountEntry  BY <2>1, QueryAssumption
  <2>3. q \in [1..Len(s) -> AccountEntry]
    <3> HIDE DEF AccountEntry
    <3> QED  BY <2>1, <2>2
  <2> HIDE DEF q
  <2> QED  BY <2>1, <2>3
<1> HIDE DEF q
<1>2. f \in FoldType
  <2>1. Len(q) \in 0..Len(q)  BY <1>1
  <2>2. After(q, Len(q)) \in FoldType  BY <1>1, <2>1, AfterOneByOne
  <2> QED  BY <1>1, <2>2, ReconciledIsAfter
<1>3. reconcile_request(s) = Account(f)  BY DEF reconcile_request, q
<1> HIDE DEF f
<1>4. W = NoAttempt \/ W \in AttemptIds
  <2>1. EndedLast(f, f.seen, W)  BY <1>2, WinningEndedLast
  <2>2. f.seen \in SUBSET AttemptIds  BY <1>2 DEF FoldType
  <2> HIDE DEF W
  <2> QED  BY <2>1, <2>2 DEF EndedLast, Ended
<1>5. a.gpu_s \in Nat /\ a.exec_s \in Nat /\ a.gen_tokens \in Int
  <2> HIDE DEF W
  <2>1. CASE W = NoAttempt  BY <2>1 DEF NoAttr
  <2>2. CASE W # NoAttempt
    <3>1. f.attempts[W] \in Attr  BY <1>2, <1>4, <2>2 DEF FoldType
    <3> QED  BY <2>2, <3>1 DEF Attr
  <2> QED  BY <2>1, <2>2
<1>6. /\ Account(f).work.gpu_active_s = a.gpu_s /\ Account(f).work.execution_s = a.exec_s
      /\ Account(f).work.generated_tokens = a.gen_tokens % CountModulus
  BY Zenon DEF Account, WinnersWork
<1>7. Account(f).kv_allocated = f.kv.allocated /\ Account(f).tensor_allocated = f.tensor.allocated
  BY DEF Account
<1>8. f.kv.allocated \in Int /\ f.tensor.allocated \in Int  BY <1>2 DEF FoldType, Gauge
<1>9. Account(f).totals.res_acq \in Int
  <2>1. "res_acq" \in DOMAIN EventTotals  BY DEF EventTotals
  <2>2. "res_acq" \in Totals  BY <2>1 DEF Totals
  <2>3. Account(f).totals.res_acq = f.totals["res_acq"] % CountModulus
    BY <2>1, <2>2 DEF Account, Reported
  <2>4. f.totals["res_acq"] \in Int  BY <1>2, <2>2 DEF FoldType
  <2> QED  BY <2>3, <2>4, AccountAssumption
<1> HIDE DEF a
<1>10. a.gen_tokens % CountModulus \in Int  BY <1>5, AccountAssumption
<1> QED  BY <1>3, <1>5, <1>6, <1>7, <1>8, <1>9, <1>10

\* The GPU time of each of some accounts.
GpuTimes(accounts) == [k \in DOMAIN accounts |-> accounts[k].work.gpu_active_s]

(***************************************************************************)
(* Adding up accounts that are listed by request adds up over the set of   *)
(* the requests.                                                           *)
(***************************************************************************)
LEMMA SumByRequest ==
  ASSUME NEW A, NEW g \in [A -> Int], NEW K, IsFiniteSet(K), NEW ids \in [K -> A],
         \A j, k \in K : ids[j] = ids[k] => j = k,
         NEW accounts, DOMAIN accounts = K,
         \A k \in K : accounts[k].work.gpu_active_s = g[ids[k]]
  PROVE  SumFunction(GpuTimes(accounts)) = SumOver(g, Image(ids, K))
<1> DEFINE h == [k \in K |-> g[ids[k]]]
<1>1. GpuTimes(accounts) = h /\ DOMAIN h = K  BY DEF GpuTimes
<1>2. SumOver(h, K) = SumOver(g, Image(ids, K))  BY SumReindexed
<1>3. SumFunction(h) = SumOver(h, DOMAIN h)  BY SumFunctionUnfolded
<1> HIDE DEF h
<1> QED  BY <1>1, <1>2, <1>3

-----------------------------------------------------------------------------
(* The ledger *)

LogType == log \in Seq(Items)

LEMMA LogTypeCorrect == Spec => []LogType
<1>1. Init => LogType  BY DEF Init, LogType
<1>2. LogType /\ [Next]_vars => LogType'
  BY DEF LogType, Next, vars, Store, BillBatch, ShareAmount
<1> QED  BY <1>1, <1>2, PTL DEF Spec

(***************************************************************************)
(* query.cpp, for every ledger, however many requests and entries it has:  *)
(* the groups of group_by_request are those of the requests that           *)
(* distinct_requests lists, and each is what query_ledger selects.         *)
(***************************************************************************)
THEOREM GroupsAreTheQueries == Spec => []GroupsAgreeWithQueries
<1>1. LogType => GroupsAgreeWithQueries
  <2> SUFFICES ASSUME LogType PROVE GroupsAgreeWithQueries  OBVIOUS
  <2> DEFINE R == Requests(log) \ {0}
             n == Cardinality(R)
             ids == distinct_requests(log)
             p == InOrder(R)
             groups == group_by_request(log)
             group(r) == EntriesAt(log, OfRequest(log, r))
  <2>1. n \in Nat /\ ids \in [1..n -> R] /\ Image(ids, 1..n) = R  BY DistinctListsOnce, Zenon DEF LogType
  <2>2. R \in SUBSET Nat /\ IsFiniteSet(R)
    <3>1. R \in SUBSET Requests(log)  OBVIOUS
    <3>2. \A S \in SUBSET Requests(log) : S \in SUBSET Nat /\ IsFiniteSet(S)
      BY RequestsAreFinite, Zenon DEF LogType
    <3> QED  BY <3>1, <3>2
  <2>3. p \in [1..n -> R] /\ Image(p, 1..n) = R
    <3> HIDE DEF R
    <3> QED  BY <2>2, InOrderListsOnce
  <2>4. groups = [k \in DOMAIN p |-> <<p[k], group(p[k])>>]
    BY DEF group_by_request, Grouped, Requests
  <2>5. \A r : query_ledger(log, [request |-> r]) = group(r)  BY QueryOfRequest
  <2>6. GroupsAgreeWithQueries <=>
          (pc = "idle" =>
             /\ Len(groups) = Len(ids)
             /\ {groups[k][1] : k \in DOMAIN groups} = Range(ids)
             /\ \A k \in DOMAIN groups :
                  groups[k][2] = query_ledger(log, [request |-> groups[k][1]]))
    BY DEF GroupsAgreeWithQueries
  <2> HIDE DEF R, n, ids, p, groups, group
  <2>7. DOMAIN groups = 1..n /\ \A k \in 1..n : groups[k][1] = p[k] /\ groups[k][2] = group(p[k])
    BY <2>3, <2>4
  <2>8. Len(groups) = n /\ Len(ids) = n
    <3>1. groups = [k \in 1..n |-> <<p[k], group(p[k])>>]  BY <2>3, <2>4
    <3>2. Len(groups) = n  BY <2>1, <3>1
    <3>3. ids = [k \in 1..n |-> ids[k]]  BY <2>1
    <3> QED  BY <2>1, <3>2, <3>3
  <2>9. {groups[k][1] : k \in DOMAIN groups} = R  BY <2>3, <2>7 DEF Image
  <2>10. Range(ids) = R  BY <2>1 DEF Range, Image
  <2>11. \A k \in DOMAIN groups : groups[k][2] = query_ledger(log, [request |-> groups[k][1]])
    BY <2>5, <2>7
  <2> QED  BY <2>6, <2>8, <2>9, <2>10, <2>11
<1> QED  BY <1>1, LogTypeCorrect, PTL

\* The requests of batch b, and the GPU time of the account of each request.
MembersOf(s, b) == {s[i].request : i \in InBatch(s, b)}

GpuOf(s) == [r \in RequestIds |-> AccountOf(s, r).work.gpu_active_s]

LEMMA GpuOfType ==
  ASSUME NEW s \in Seq(Items)
  PROVE  GpuOf(s) \in [RequestIds -> Nat]
<1> SUFFICES ASSUME NEW r \in RequestIds PROVE AccountOf(s, r).work.gpu_active_s \in Nat
  BY DEF GpuOf
<1>1. OfRequest(s, r) \in SUBSET DOMAIN s  BY DEF OfRequest
<1>2. EntriesAt(s, OfRequest(s, r)) \in Seq(Items)  BY <1>1, EntriesAtType
<1>3. AccountOf(s, r) = reconcile_request(EntriesAt(s, OfRequest(s, r)))
  BY QueryOfRequest DEF AccountOf
<1> QED  BY <1>2, <1>3, AccountNumbers

LEMMA MembersType ==
  ASSUME NEW s \in Seq(Items), NEW b
  PROVE  /\ MembersOf(s, b) \in SUBSET Requests(s) /\ MembersOf(s, b) \in SUBSET RequestIds
         /\ MembersOf(s, b) \in SUBSET Nat /\ IsFiniteSet(MembersOf(s, b))
<1>1. MembersOf(s, b) \in SUBSET Requests(s)  BY DEF MembersOf, Requests, InBatch
<1> QED  BY <1>1, RequestsAreFinite

(***************************************************************************)
(* The GPU time of a batch whose members are in no other batch.            *)
(***************************************************************************)
LEMMA BatchGpuTime ==
  ASSUME NEW s \in Seq(Items), NEW b,
         \A r \in MembersOf(s, b) : OfRequest(s, r) \in SUBSET InBatch(s, b)
  PROVE  reconcile_batch(s, b).total_gpu_s = SumOver(GpuOf(s), MembersOf(s, b))
<1> DEFINE R == MembersOf(s, b)
           n == Cardinality(R)
           ids == InOrder(R)
           accounts == MemberAccounts(s, b, ids)
           g == GpuOf(s)
<1>1. R \in SUBSET RequestIds /\ R \in SUBSET Nat /\ IsFiniteSet(R)  BY MembersType
<1>2. g \in [RequestIds -> Int]
  <2> HIDE DEF g
  <2>1. g \in [RequestIds -> Nat]  BY GpuOfType DEF g
  <2> QED  BY <2>1
<1>3. /\ n \in Nat /\ ids \in [1..n -> R] /\ Image(ids, 1..n) = R
      /\ \A j, k \in 1..n : ids[j] = ids[k] => j = k
  <2> HIDE DEF R
  <2> QED  BY <1>1, InOrderListsOnce
<1>4. reconcile_batch(s, b).total_gpu_s = SumFunction(GpuTimes(accounts))
  BY Zenon DEF reconcile_batch, BatchAccount, Total, GpuTimes, MembersOf
<1>5. DOMAIN accounts = 1..n
  <2> HIDE DEF n, ids
  <2> QED  BY <1>3 DEF MemberAccounts
<1>6. ASSUME NEW k \in 1..n PROVE accounts[k].work.gpu_active_s = g[ids[k]]
  <2> DEFINE r == ids[k]
  <2>1. r \in R /\ r \in RequestIds
    <3> HIDE DEF ids, R, n
    <3> QED  BY <1>1, <1>3, Zenon
  <2>2. InBatch(s, b) \cap OfRequest(s, r) = OfRequest(s, r)  BY <2>1
  <2>3. k \in DOMAIN ids
    <3> HIDE DEF ids, n
    <3> QED  BY <1>3
  <2> HIDE DEF ids
  <2>4. accounts[k] = reconcile_request(EntriesAt(s, OfRequest(s, r)))
    BY <2>2, <2>3, Zenon DEF MemberAccounts
  <2>5. AccountOf(s, r) = reconcile_request(EntriesAt(s, OfRequest(s, r)))
    BY QueryOfRequest DEF AccountOf
  <2>6. g[r] = AccountOf(s, r).work.gpu_active_s  BY <2>1 DEF GpuOf
  <2> QED  BY <2>4, <2>5, <2>6, Zenon
<1> HIDE DEF R, n, ids, accounts, g
<1>7. ids \in [1..n -> RequestIds]  BY <1>1, <1>3, Zenon
<1>8. SumFunction(GpuTimes(accounts)) = SumOver(g, Image(ids, 1..n))
  <2> DEFINE K == 1..n
  <2>1. /\ ids \in [K -> RequestIds] /\ \A j, k \in K : ids[j] = ids[k] => j = k
        /\ DOMAIN accounts = K /\ \A k \in K : accounts[k].work.gpu_active_s = g[ids[k]]
    BY <1>3, <1>5, <1>6, <1>7
  <2>2. IsFiniteSet(K)  BY <1>3, LastOfPicks
  <2> HIDE DEF K
  <2>3. SumFunction(GpuTimes(accounts)) = SumOver(g, Image(ids, K))  BY <1>2, <2>1, <2>2, SumByRequest, SMTT(60)
  <2> QED  BY <2>3 DEF K
<1> QED  BY <1>3, <1>4, <1>8 DEF g, R

(***************************************************************************)
(* The GPU time that aggregate_accounts reports.                           *)
(***************************************************************************)
LEMMA AggregateGpuTime ==
  ASSUME NEW s \in Seq(Items)
  PROVE  LET ids == distinct_requests(s) IN
         aggregate_accounts([k \in DOMAIN ids |-> AccountOf(s, ids[k])]).total_gpu_s
           = SumOver(GpuOf(s), Requests(s) \ {0})
<1> DEFINE R == Requests(s) \ {0}
           n == Cardinality(R)
           ids == distinct_requests(s)
           accounts == [k \in DOMAIN ids |-> AccountOf(s, ids[k])]
           g == GpuOf(s)
<1>1. R \in SUBSET RequestIds
  <2>1. R \in SUBSET Requests(s)  OBVIOUS
  <2> HIDE DEF R
  <2> QED  BY <2>1, RequestsAreFinite, Zenon
<1>2. g \in [RequestIds -> Int]
  <2> HIDE DEF g
  <2>1. g \in [RequestIds -> Nat]  BY GpuOfType DEF g
  <2> QED  BY <2>1
<1>3. /\ n \in Nat /\ ids \in [1..n -> R] /\ Image(ids, 1..n) = R
      /\ \A j, k \in 1..n : ids[j] = ids[k] => j = k
  BY DistinctListsOnce, Zenon
<1>4. aggregate_accounts(accounts).total_gpu_s = SumFunction(GpuTimes(accounts))
  <2> HIDE DEF accounts
  <2> QED  BY DEF aggregate_accounts, Total, GpuTimes
<1> HIDE DEF R, n, ids
<1>5. DOMAIN ids = 1..n /\ ids \in [1..n -> RequestIds]  BY <1>1, <1>3
<1>6. DOMAIN accounts = 1..n  BY <1>5
<1>7. ASSUME NEW k \in 1..n PROVE accounts[k].work.gpu_active_s = g[ids[k]]
  <2>1. accounts[k] = AccountOf(s, ids[k]) /\ ids[k] \in RequestIds  BY <1>5
  <2> HIDE DEF accounts
  <2> QED  BY <2>1 DEF GpuOf
<1>8. SumFunction(GpuTimes(accounts)) = SumOver(g, Image(ids, 1..n))
  <2> HIDE DEF accounts, g
  <2> DEFINE K == 1..n
  <2>1. /\ ids \in [K -> RequestIds] /\ \A j, k \in K : ids[j] = ids[k] => j = k
        /\ DOMAIN accounts = K /\ \A k \in K : accounts[k].work.gpu_active_s = g[ids[k]]
    BY <1>3, <1>5, <1>6, <1>7
  <2>2. IsFiniteSet(K)  BY <1>3, LastOfPicks
  <2> HIDE DEF K
  <2>3. SumFunction(GpuTimes(accounts)) = SumOver(g, Image(ids, K))  BY <1>2, <2>1, <2>2, SumByRequest, SMTT(60)
  <2> QED  BY <2>3 DEF K
<1> HIDE DEF accounts
<1>9. aggregate_accounts(accounts).total_gpu_s = SumOver(g, R)  BY <1>3, <1>4, <1>8
<1> QED  BY <1>9 DEF accounts, ids, R

(***************************************************************************)
(* reconcile_batch and aggregate_accounts, for every ledger, any number of *)
(* batches and of members: when no request is in two batches, the GPU time *)
(* of the batches adds up to that of the requests.                         *)
(***************************************************************************)
THEOREM BatchesAddUpToRequests == Spec => []BatchesPartitionTheWork
<1>1. LogType => BatchesPartitionTheWork
  <2> DEFINE ids == distinct_requests(log)
             accounts == [k \in DOMAIN ids |-> AccountOf(log, ids[k])]
             requestsOf(b) == {log[i].request : i \in {j \in DOMAIN log : log[j].batch = b}}
             T == [b \in Batches |-> reconcile_batch(log, b).total_gpu_s]
             R == [b \in Batches |-> MembersOf(log, b)]
             g == GpuOf(log)
  <2> SUFFICES ASSUME LogType, \A i \in DOMAIN log : log[i].batch \in Batches /\ log[i].request # 0,
                      \A b, c \in Batches : b # c => requestsOf(b) \cap requestsOf(c) = {}
               PROVE  SumFunction(T) = aggregate_accounts(accounts).total_gpu_s
    BY Zenon DEF BatchesPartitionTheWork
  <2>1. aggregate_accounts(accounts).total_gpu_s = SumOver(g, Requests(log) \ {0})
    BY AggregateGpuTime, Zenon DEF LogType
  <2>2. ASSUME NEW b \in Batches
        PROVE  MembersOf(log, b) = requestsOf(b)
               /\ InBatch(log, b) = {j \in DOMAIN log : log[j].batch = b}
    <3>1. InBatch(log, b) = {j \in DOMAIN log : log[j].batch = b}  BY QueryAssumption DEF InBatch
    <3> QED  BY <3>1 DEF MembersOf
  <2>3. ASSUME NEW b \in Batches
        PROVE  reconcile_batch(log, b).total_gpu_s = SumOver(g, MembersOf(log, b))
    <3>1. ASSUME NEW r \in MembersOf(log, b), NEW i \in OfRequest(log, r) PROVE i \in InBatch(log, b)
      <4>1. i \in DOMAIN log /\ log[i].request = r  BY DEF OfRequest
      <4>2. log[i].batch \in Batches /\ r \in requestsOf(log[i].batch)  BY <4>1
      <4>3. r \in requestsOf(b)  BY <2>2
      <4>4. log[i].batch = b
        <5> HIDE DEF requestsOf
        <5> QED  BY <4>2, <4>3
      <4> QED  BY <2>2, <4>1, <4>4
    <3>2. \A r \in MembersOf(log, b) : OfRequest(log, r) \in SUBSET InBatch(log, b)  BY <3>1
    <3> QED  BY <3>2, BatchGpuTime, Zenon DEF LogType
  <2>4. SumFunction(T) = SumOver(T, Batches)
    <3>1. SumFunction(T) = SumOver(T, DOMAIN T)  BY SumFunctionUnfolded
    <3>2. DOMAIN T = Batches  OBVIOUS
    <3> HIDE DEF T
    <3> QED  BY <3>1, <3>2
  <2>5. T = [b \in Batches |-> SumOver(g, R[b])]
    <3>1. \A b \in Batches : R[b] = MembersOf(log, b)  OBVIOUS
    <3> HIDE DEF R
    <3> QED  BY <2>3, <3>1
  <2>6. g \in [RequestIds -> Int]
    <3> HIDE DEF g
    <3>1. g \in [RequestIds -> Nat]  BY GpuOfType DEF g, LogType
    <3> QED  BY <3>1
  <2>7. R \in [Batches -> SUBSET RequestIds] /\ \A b \in Batches : IsFiniteSet(R[b])
    BY MembersType DEF LogType
  <2>8. \A b, c \in Batches : b # c => R[b] \cap R[c] = {}  BY <2>2
  <2>9. UNION Image(R, Batches) = Requests(log) \ {0}
    <3>1. ASSUME NEW i \in DOMAIN log PROVE log[i].request \in R[log[i].batch]
      BY <2>2, SMTT(60)
    <3>2. Requests(log) \ {0} \subseteq UNION Image(R, Batches)
      <4> HIDE DEF R
      <4> QED  BY <3>1 DEF Requests, Image
    <3>3. \A b \in Batches : R[b] \in SUBSET Requests(log)  BY MembersType, Zenon DEF LogType
    <3>4. 0 \notin Requests(log)  BY DEF Requests
    <3> HIDE DEF R
    <3> QED  BY <3>2, <3>3, <3>4 DEF Image
  <2> HIDE DEF T, R, g, accounts
  <2>10. SumOver([b \in Batches |-> SumOver(g, R[b])], Batches) = SumOver(g, UNION Image(R, Batches))
    <3>1. IsFiniteSet(Batches)  BY QueryAssumption
    <3> QED  BY <2>6, <2>7, <2>8, <3>1, SumOfSums, SMTT(60)
  <2> QED  BY <2>1, <2>4, <2>5, <2>9, <2>10, Zenon
<1> QED  BY <1>1, LogTypeCorrect, PTL

-----------------------------------------------------------------------------
(* The allocation *)

(***************************************************************************)
(* The quotient of a larger weight is not smaller, however it rounds.      *)
(***************************************************************************)
LEMMA DivMonotone ==
  ASSUME NEW a \in Int, NEW b \in Int, NEW d \in Nat \ {0}, a <= b
  PROVE  a \div d \in Int /\ a \div d <= b \div d
OBVIOUS

LEMMA TimesMonotone ==
  ASSUME NEW a \in Int, NEW b \in Int, NEW d \in Nat, a <= b
  PROVE  a * d \in Int /\ a * d <= b * d /\ d * a <= d * b
OBVIOUS

LEMMA RoundedMonotone ==
  ASSUME NEW x \in Int, NEW z \in Int, NEW y \in Nat \ {0}, x <= z
  PROVE  /\ Rounded(x, y) \in Int /\ Rounded(z, y) \in Int
         /\ Rounded(x, y) <= Rounded(z, y)
<1>1. Grid \in Nat  BY AllocationAssumption
<1>2. (2 * x) * Grid \in Int /\ (2 * z) * Grid \in Int /\ (2 * x) * Grid <= (2 * z) * Grid
  BY <1>1, TimesMonotone
<1>3. 2 * y \in Nat \ {0}  OBVIOUS
<1> DEFINE a == (2 * x) * Grid + y
           b == (2 * z) * Grid + y
<1>4. a \in Int /\ b \in Int /\ a <= b  BY <1>2
<1>5. Rounded(x, y) = a \div (2 * y) /\ Rounded(z, y) = b \div (2 * y)  BY DEF Rounded
<1> HIDE DEF a, b
<1>6. b <= b  BY <1>4
<1> QED  BY <1>3, <1>4, <1>5, <1>6, DivMonotone

\* The weights are fixed and the shares are being dealt out, or were.
Shared ==
  \/ pc = "sharing"
  \/ pc = "done" /\ policy # "DirectOwnership" /\ members # <<>>

SharesDealt ==
  /\ w \in Seq(Int) /\ Len(w) = Len(members) /\ SumFunction(w) \in Nat \ {0}
  /\ shares \in Seq(Int) /\ Len(shares) <= Len(members)
  /\ assigned = SumFunction(shares)
  /\ \A i \in 1..Len(shares) : shares[i] = Share(i)

(***************************************************************************)
(* The inductive invariant.  The loop variable assigned is the sum of the  *)
(* shares dealt so far, each of them is the rounded quotient of its own    *)
(* weight, and the weights that are divided by have a positive sum,        *)
(* whatever weights the caller gave.                                       *)
(***************************************************************************)
AllocationInv(Ids) ==
  /\ total \in Int /\ members \in Seq(Ids) /\ weights \in Seq(Int)
  /\ pc \in {"idle", "start", "sharing", "done"}
  /\ pc \in {"idle", "start"} => shares = <<>> /\ assigned = 0
  /\ pc = "sharing" => policy # "DirectOwnership" /\ members # <<>>
  /\ Shared => SharesDealt
  /\ (Shared /\ pc = "done") => Len(shares) = Len(members) /\ overhead = Residual

LEMMA AllocationInvInit ==
  ASSUME NEW Ids, AllocationInit
  PROVE  AllocationInv(Ids)
BY DEF AllocationInit, AllocationInv, Shared

(***************************************************************************)
(* The effective weights, whatever the caller gave: as many as members,    *)
(* and a sum to divide by.                                                 *)
(***************************************************************************)
LEMMA EffectiveWeightsAreSound ==
  ASSUME NEW Ids, members \in Seq(Ids), members # <<>>, weights \in Seq(Int)
  PROVE  /\ EffectiveWeights \in Seq(Int) /\ Len(EffectiveWeights) = Len(members)
         /\ SumFunction(EffectiveWeights) \in Nat \ {0}
<1>1. Len(members) \in Nat \ {0}  OBVIOUS
<1>2. CASE policy = "EqualShare" \/ Len(weights) # Len(members) \/ SumFunction(weights) <= 0
  <2>1. EffectiveWeights = uniform_weights(Len(members))  BY <1>2 DEF EffectiveWeights
  <2>2. uniform_weights(Len(members)) \in Seq(Int)
        /\ Len(uniform_weights(Len(members))) = Len(members)
    BY <1>1 DEF uniform_weights
  <2> QED  BY <1>1, <2>1, <2>2, SumOfUniform
<1>3. CASE ~(policy = "EqualShare" \/ Len(weights) # Len(members) \/ SumFunction(weights) <= 0)
  <2>1. EffectiveWeights = weights /\ Len(weights) = Len(members) /\ ~(SumFunction(weights) <= 0)
    BY <1>3 DEF EffectiveWeights
  <2>2. SumFunction(weights) \in Int  BY SumOfSeq
  <2> QED  BY <2>1, <2>2
<1> QED  BY <1>2, <1>3

LEMMA ShareIsInt ==
  ASSUME total \in Int, w \in Seq(Int), SumFunction(w) \in Nat \ {0}, NEW i \in 1..Len(w)
  PROVE  Share(i) \in Int
<1>1. w[i] \in Int /\ w[i] <= w[i]  OBVIOUS
<1>2. Rounded(w[i], SumFunction(w)) \in Int  BY <1>1, RoundedMonotone, Zenon
<1> HIDE DEF Rounded
<1> QED  BY <1>2 DEF Share

(***************************************************************************)
(* Every branch of allocate_shared and every iteration of its loop keeps   *)
(* the invariant.                                                          *)
(***************************************************************************)
LEMMA AllocationInvNext ==
  ASSUME NEW Ids, AllocationInv(Ids), [AllocationCall(Ids) \/ AllocationNext]_allocation
  PROVE  AllocationInv(Ids)'
<1> USE DEF allocation, arguments
<1>1. CASE UNCHANGED allocation
  BY <1>1, Zenon DEF AllocationInv, Shared, SharesDealt, Share, Residual, Rounded
<1>2. CASE AllocationCall(Ids)
  <2>1. /\ total' \in Int /\ members' \in Seq(Ids) /\ weights' \in Seq(Int)
        /\ pc = "idle" /\ pc' = "start" /\ UNCHANGED <<shares, assigned>>
    BY <1>2 DEF AllocationCall, allocate_shared
  <2> QED  BY <2>1 DEF AllocationInv, Shared
<1>3. CASE NoMembers
  BY <1>3 DEF NoMembers, AllocationInv, Shared
<1>4. CASE DirectOwnership
  BY <1>4 DEF DirectOwnership, AllocationInv, Shared
<1>5. CASE BuildWeights
  <2>1. /\ pc = "start" /\ members # <<>> /\ policy # "DirectOwnership" /\ pc' = "sharing"
        /\ w' = EffectiveWeights /\ UNCHANGED <<arguments, assigned, shares, overhead>>
    BY <1>5 DEF BuildWeights
  <2>2. /\ w' \in Seq(Int) /\ Len(w') = Len(members) /\ SumFunction(w') \in Nat \ {0}
    BY <2>1, EffectiveWeightsAreSound DEF AllocationInv
  <2>3. shares' = <<>> /\ assigned' = 0 /\ Len(members) \in Nat  BY <2>1 DEF AllocationInv
  <2>4. SharesDealt'  BY <2>1, <2>2, <2>3, SumOfNothing DEF SharesDealt
  <2> QED  BY <2>1, <2>3, <2>4 DEF AllocationInv, Shared
<1>6. CASE ShareNext
  <2> DEFINE n == Len(shares) + 1
             s == Share(n)
  <2>1. /\ pc = "sharing" /\ Len(shares) < Len(members) /\ shares' = Append(shares, s)
        /\ assigned' = assigned + s /\ UNCHANGED <<arguments, pc, w, overhead>>
    BY <1>6 DEF ShareNext
  <2>2. SharesDealt /\ total \in Int /\ Len(members) \in Nat  BY <2>1 DEF AllocationInv, Shared
  <2>3. n \in 1..Len(w) /\ Len(shares) \in Nat  BY <2>1, <2>2 DEF SharesDealt
  <2>4. s \in Int  BY <2>2, <2>3, ShareIsInt DEF SharesDealt
  <2>5. SumFunction(shares') = SumFunction(shares) + s  BY <2>1, <2>2, <2>4, SumOfAppend DEF SharesDealt
  <2>6. \A i \in Int : Share(i)' = Share(i)  BY <2>1 DEF Share, Rounded
  <2> HIDE DEF s
  <2>7. /\ shares' \in Seq(Int) /\ Len(shares') = Len(shares) + 1
        /\ \A i \in 1..Len(shares) : shares'[i] = shares[i]
        /\ shares'[n] = s
    BY <2>1, <2>2, <2>4 DEF SharesDealt
  <2>8. \A i \in 1..Len(shares') : shares'[i] = Share(i)'
    <3> SUFFICES ASSUME NEW i \in 1..Len(shares') PROVE shares'[i] = Share(i)'  OBVIOUS
    <3>1. i \in Int /\ (i \in 1..Len(shares) \/ i = n)  BY <2>3, <2>7
    <3>2. CASE i \in 1..Len(shares)
      <4>1. shares[i] = Share(i)  BY <2>2, <3>2 DEF SharesDealt
      <4> QED  BY <2>6, <2>7, <3>1, <3>2, <4>1
    <3>3. CASE i = n  BY <2>6, <2>7, <3>1, <3>3 DEF s
    <3> QED  BY <3>1, <3>2, <3>3
  <2>9. SharesDealt'  BY <2>1, <2>2, <2>3, <2>5, <2>7, <2>8 DEF SharesDealt
  <2> QED  BY <2>1, <2>9 DEF AllocationInv, Shared
<1>7. CASE Finish
  <2>1. /\ pc = "sharing" /\ Len(shares) = Len(members) /\ overhead' = Residual /\ pc' = "done"
        /\ UNCHANGED <<arguments, w, assigned, shares>>
    BY <1>7 DEF Finish
  <2>2. SharesDealt'  BY <2>1, Zenon DEF AllocationInv, Shared, SharesDealt, Share, Rounded
  <2>3. Residual' = Residual  BY <2>1 DEF Residual
  <2> QED  BY <2>1, <2>2, <2>3, Zenon DEF AllocationInv, Shared
<1> QED  BY <1>1, <1>2, <1>3, <1>4, <1>5, <1>6, <1>7 DEF AllocationNext

(***************************************************************************)
(* batch.hpp:7-9: the shares that a proportional policy gives a non-empty  *)
(* batch and the overhead add up to the total to within the tolerance of   *)
(* reconciles(), for every total of which 1e-12 is within that tolerance,  *)
(* every number of members, every weights (too few, too many, zero or      *)
(* negative) and every rounding.                                           *)
(***************************************************************************)
THEOREM SharesMakeUpTheTotal ==
  ASSUME NEW Ids
  PROVE  AllocationSpec(Ids) => []ProportionalReconciles
<1>1. AllocationInit => AllocationInv(Ids)  BY AllocationInvInit
<1>2. AllocationInv(Ids) /\ [AllocationCall(Ids) \/ AllocationNext]_allocation => AllocationInv(Ids)'
  BY AllocationInvNext
<1>3. AllocationInv(Ids) => ProportionalReconciles
  <2> SUFFICES ASSUME AllocationInv(Ids), pc = "done", members # <<>>, policy # "DirectOwnership",
                      Negligible <= Tolerance * Scale
               PROVE  reconciles
    BY DEF ProportionalReconciles
  <2>1. SharesDealt /\ overhead = Residual /\ total \in Int  BY DEF AllocationInv, Shared
  <2>2. SumFunction(shares) \in Int /\ assigned = SumFunction(shares)  BY <2>1, SumOfSeq DEF SharesDealt
  <2>3. total * Grid \in Int  BY <2>1, AllocationAssumption
  <2> DEFINE T == total * Grid
             d == SumFunction(shares) + overhead - T
             accepted == Tolerance * Scale
  <2>4. overhead = (IF T - assigned < 0 /\ T - assigned > -Negligible THEN 0 ELSE T - assigned)
    BY <2>1 DEF Residual
  <2>5. Negligible \in Nat /\ accepted \in Nat \ {0} /\ Negligible <= accepted
    <3>1. Tolerance \in Nat \ {0} /\ Scale \in Nat \ {0}  BY <2>1, AllocationAssumption DEF Scale
    <3>2. \A x, y \in Nat \ {0} : x * y \in Nat \ {0}  OBVIOUS
    <3> QED  BY <3>1, <3>2, AllocationAssumption
  <2> HIDE DEF T, accepted
  <2>6. T \in Int  BY <2>3 DEF T
  <2>7. d = 0 \/ (d \in Nat /\ d < Negligible)  BY <2>2, <2>4, <2>5, <2>6
  <2> HIDE DEF d
  <2>8. d < accepted /\ d > -accepted  BY <2>5, <2>7
  <2> QED  BY <2>8 DEF reconciles, d, T, accepted
<1> QED  BY <1>1, <1>2, <1>3, PTL DEF AllocationSpec

(***************************************************************************)
(* allocate_shared charges nobody the rounding residual: of a total that   *)
(* is not negative, a member with a smaller weight never pays more than    *)
(* one with a larger weight, for every batch and all weights.              *)
(***************************************************************************)
THEOREM SmallerWeightNeverPaysMore ==
  ASSUME NEW Ids
  PROVE  AllocationSpec(Ids) => [](total >= 0 => SharesFollowWeights)
<1>1. AllocationInit => AllocationInv(Ids)  BY AllocationInvInit
<1>2. AllocationInv(Ids) /\ [AllocationCall(Ids) \/ AllocationNext]_allocation => AllocationInv(Ids)'
  BY AllocationInvNext
<1>3. AllocationInv(Ids) => (total >= 0 => SharesFollowWeights)
  <2> SUFFICES ASSUME AllocationInv(Ids), total >= 0, pc = "done", policy # "DirectOwnership",
                      NEW i \in DOMAIN members, NEW j \in DOMAIN members, w[i] <= w[j]
               PROVE  shares[i] <= shares[j]
    BY DEF SharesFollowWeights
  <2>1. SharesDealt /\ Len(shares) = Len(members) /\ total \in Nat
    BY DEF AllocationInv, Shared
  <2>2. i \in 1..Len(shares) /\ j \in 1..Len(shares) /\ w[i] \in Int /\ w[j] \in Int
    BY <2>1 DEF SharesDealt, AllocationInv
  <2>3. shares[i] = Share(i) /\ shares[j] = Share(j)  BY <2>1, <2>2 DEF SharesDealt
  <2>4. /\ Rounded(w[i], SumFunction(w)) \in Int /\ Rounded(w[j], SumFunction(w)) \in Int
        /\ Rounded(w[i], SumFunction(w)) <= Rounded(w[j], SumFunction(w))
    BY <2>1, <2>2, RoundedMonotone, Zenon DEF SharesDealt
  <2> QED  BY <2>1, <2>3, <2>4, TimesMonotone DEF Share
<1> QED  BY <1>1, <1>2, <1>3, PTL DEF AllocationSpec

-----------------------------------------------------------------------------
(* Bills *)

(***************************************************************************)
(* What BillBatch passes to allocate_shared.                               *)
(***************************************************************************)
LEMMA BatchNumbers ==
  ASSUME NEW s \in Seq(Items), NEW b, NEW p
  PROVE  LET ba == reconcile_batch(s, b) IN
         /\ ba.total_gpu_s \in Nat /\ ba.members \in Seq(RequestIds)
         /\ member_weights_for_policy(ba.member_accounts, p) \in Seq(Int)
<1> DEFINE R == MembersOf(s, b)
           n == Cardinality(R)
           ids == InOrder(R)
           accounts == MemberAccounts(s, b, ids)
           ba == reconcile_batch(s, b)
           ws == member_weights_for_policy(accounts, p)
<1>1. R \in SUBSET RequestIds /\ R \in SUBSET Nat /\ IsFiniteSet(R)  BY MembersType
<1>2. n \in Nat /\ ids \in [1..n -> R]
  <2> HIDE DEF R
  <2> QED  BY <1>1, InOrderListsOnce
<1>3. /\ ba.total_gpu_s = SumFunction(GpuTimes(accounts))
      /\ ba.members = ids /\ ba.member_accounts = accounts
  BY Zenon DEF reconcile_batch, BatchAccount, Total, GpuTimes, MembersOf
<1> HIDE DEF R, n, ids, ba
<1>4. ids \in Seq(RequestIds)
  <2>1. ids \in [1..n -> RequestIds]  BY <1>1, <1>2, Zenon
  <2> QED  BY <1>2, <2>1
<1>5. DOMAIN accounts = 1..n  BY <1>2 DEF MemberAccounts
<1>6. ASSUME NEW k \in 1..n
      PROVE  /\ accounts[k].work.gpu_active_s \in Nat /\ accounts[k].work.execution_s \in Int
             /\ accounts[k].work.generated_tokens \in Int
             /\ accounts[k].kv_allocated \in Int /\ accounts[k].tensor_allocated \in Int
             /\ accounts[k].totals.res_acq \in Int
  <2> DEFINE q == EntriesAt(s, InBatch(s, b) \cap OfRequest(s, ids[k]))
  <2>1. q \in Seq(Items)
    <3>1. InBatch(s, b) \cap OfRequest(s, ids[k]) \in SUBSET DOMAIN s  BY DEF InBatch
    <3> QED  BY <3>1, EntriesAtType, Zenon
  <2>2. accounts[k] = reconcile_request(q)  BY <1>2 DEF MemberAccounts
  <2> HIDE DEF q, accounts
  <2> QED  BY <2>1, <2>2, AccountNumbers, Zenon
<1> HIDE DEF accounts
<1>7. SumFunction(GpuTimes(accounts)) \in Nat
  <2> DEFINE K == 1..n
             h == GpuTimes(accounts)
  <2>1. h \in [K -> Nat] /\ DOMAIN h = K  BY <1>5, <1>6 DEF GpuTimes
  <2>2. IsFiniteSet(K) /\ K \in SUBSET K  BY <1>2, LastOfPicks
  <2> HIDE DEF K, h
  <2>3. SumOver(h, K) \in Nat  BY <2>1, <2>2, SumInNat
  <2>4. SumFunction(h) = SumOver(h, DOMAIN h)  BY SumFunctionUnfolded
  <2> QED  BY <2>1, <2>3, <2>4 DEF h
<1>8. ws \in Seq(Int)
  <2> DEFINE weight(acc) == CASE p = "ProportionalBytes"     -> acc.kv_allocated + acc.tensor_allocated
                              [] p = "ProportionalTokens"    -> acc.work.generated_tokens
                              [] p = "ProportionalExecution" -> acc.work.execution_s
                              [] p = "ProportionalReserved"  -> acc.totals.res_acq
                              [] OTHER                       -> 1
  <2>1. ws = [k \in 1..n |-> weight(accounts[k])]  BY <1>5 DEF member_weights_for_policy
  <2>2. ASSUME NEW k \in 1..n PROVE weight(accounts[k]) \in Int  BY <1>6
  <2> HIDE DEF weight, ws
  <2>3. ws \in [1..n -> Int]  BY <2>1, <2>2
  <2> QED  BY <1>2, <2>3
<1> QED  BY <1>3, <1>4, <1>7, <1>8 DEF ba

(***************************************************************************)
(* Every step of Billing is one of allocate_shared, called with numbers,   *)
(* or leaves it alone; and what is shared is never negative.               *)
(***************************************************************************)
LEMMA BillingStep ==
  ASSUME LogType, [Next]_vars
  PROVE  /\ [AllocationCall(RequestIds \cup Payers) \/ AllocationNext]_allocation
         /\ total \in Nat => total' \in Nat
<1> DEFINE Ids == RequestIds \cup Payers
<1>1. CASE UNCHANGED vars \/ \E x \in Items : Store(x)
  BY <1>1 DEF vars, Store, allocation, arguments
<1>2. ASSUME NEW p \in AttributionPolicy, BillBatch(p)
      PROVE  AllocationCall(Ids) /\ total' \in Nat
  <2> DEFINE ba == reconcile_batch(log, BilledBatch)
             t == ba.total_gpu_s * Rate
             ws == member_weights_for_policy(ba.member_accounts, p)
  <2>1. allocate_shared(t, ba.members, ws, p, ZeroId)  BY <1>2 DEF BillBatch
  <2>2. ba.total_gpu_s \in Nat /\ ba.members \in Seq(RequestIds) /\ ws \in Seq(Int)
    BY BatchNumbers DEF LogType
  <2> HIDE DEF ba, ws
  <2>3. t \in Nat /\ ba.members \in Seq(Ids) /\ ZeroId \in Ids \cup {ZeroId}
    BY <2>2, BillingAssumption
  <2> HIDE DEF t, Ids
  <2>4. t \in Int  BY <2>3
  <2>5. AllocationCall(Ids)  BY <2>1, <2>2, <2>3, <2>4, Zenon DEF AllocationCall
  <2>6. total' = t  BY <2>1 DEF allocate_shared
  <2> QED  BY <2>3, <2>5, <2>6
<1>3. ASSUME ShareAmount PROVE AllocationCall(Ids) /\ total' \in Nat
  <2>1. PICK t \in Amounts, ms \in MemberLists, ws \in WeightLists, p \in AttributionPolicy,
             owner \in Payers \cup {ZeroId} : allocate_shared(t, ms, ws, p, owner)
    BY <1>3 DEF ShareAmount
  <2>2. t \in Nat /\ t \in Int /\ ms \in Seq(Payers) /\ ws \in Seq(Nat)  BY BillingAssumption
  <2>3. ms \in Seq(Ids) /\ ws \in Seq(Int) /\ owner \in Ids \cup {ZeroId}  BY <2>2
  <2> HIDE DEF Ids
  <2>4. AllocationCall(Ids)  BY <2>1, <2>2, <2>3, Zenon DEF AllocationCall
  <2>5. total' = t  BY <2>1 DEF allocate_shared
  <2> QED  BY <2>2, <2>4, <2>5
<1>4. ASSUME AllocationNext PROVE total' = total
  BY <1>4 DEF AllocationNext, NoMembers, DirectOwnership, BuildWeights, ShareNext, Finish, arguments
<1> QED  BY <1>1, <1>2, <1>3, <1>4 DEF Next

(***************************************************************************)
(* What is billed to a batch, and what a caller shares, goes through       *)
(* allocate_shared: Billing implements the specification of its calls.     *)
(***************************************************************************)
THEOREM BillsAreAllocations == Spec => AllocationSpec(RequestIds \cup Payers)
<1>1. Init => AllocationInit  BY DEF Init
<1>2. LogType /\ [Next]_vars =>
        [AllocationCall(RequestIds \cup Payers) \/ AllocationNext]_allocation
  BY BillingStep
<1> QED  BY <1>1, <1>2, LogTypeCorrect, PTL DEF Spec, AllocationSpec

(***************************************************************************)
(* batch.hpp:7-9 from the ledger to the bill: the GPU time that a ledger   *)
(* holds of a batch is shared without a rest, for every ledger and policy. *)
(***************************************************************************)
THEOREM EveryBillReconciles == Spec => []ProportionalReconciles
<1> DEFINE Ids == RequestIds \cup Payers
<1>1. Spec => AllocationSpec(Ids)  BY BillsAreAllocations
<1> HIDE DEF Ids
<1>2. AllocationSpec(Ids) => []ProportionalReconciles  BY SharesMakeUpTheTotal
<1> QED  BY <1>1, <1>2, PTL

(***************************************************************************)
(* No member of a billed batch pays more than one with a larger weight:    *)
(* GPU time is never negative, so the sign of the total needs no           *)
(* assumption.                                                             *)
(***************************************************************************)
THEOREM EveryBillFollowsWeights == Spec => []SharesFollowWeights
<1> DEFINE Ids == RequestIds \cup Payers
           NatTotal == total \in Nat
           Fair == total >= 0 => SharesFollowWeights
<1>1. Spec => AllocationSpec(Ids)  BY BillsAreAllocations
<1>2. Init => NatTotal  BY DEF Init, AllocationInit
<1>3. LogType /\ NatTotal /\ [Next]_vars => NatTotal'  BY BillingStep
<1>4. NatTotal /\ Fair => SharesFollowWeights  OBVIOUS
<1>5. AllocationSpec(Ids) => []Fair
  <2> HIDE DEF Ids
  <2> QED  BY SmallerWeightNeverPaysMore
<1> HIDE DEF Ids, NatTotal, Fair
<1> QED  BY <1>1, <1>2, <1>3, <1>4, <1>5, LogTypeCorrect, PTL DEF Spec

============================================================================
