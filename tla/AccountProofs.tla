--------------------------- MODULE AccountProofs ---------------------------
(***************************************************************************)
(* Proofs about the account that reconcile_request derives and about its   *)
(* price, for any attempts, entries and policies: what the loop keeps, who *)
(* wins, and that the work of all attempts is counted and billed exactly   *)
(* once, in whatever order it is reported.                                 *)
(***************************************************************************)
EXTENDS Pricing, RequestAccountProofs

-----------------------------------------------------------------------------
(* What the loop keeps *)

(***************************************************************************)
(* Type correctness of the loop of reconcile_request.                      *)
(***************************************************************************)
THEOREM TypeCorrect == Spec => []TypeOK
<1>1. Init => TypeOK
  <2> SUFFICES ASSUME Init PROVE TypeOK  OBVIOUS
  <2>1. NoAttr \in Attr  BY DEF NoAttr, Attr
  <2>2. EmptyFold \in FoldType
    BY <2>1 DEF EmptyFold, FoldType, EmptyGauge, Gauge, NoTimes
  <2> QED  BY <2>2 DEF Init, TypeOK
<1>2. TypeOK /\ [Next]_vars => TypeOK'
  <2> SUFFICES ASSUME TypeOK, [Next]_vars PROVE TypeOK'  OBVIOUS
  <2>1. CASE Next
    <3>1. PICK e \in Entries : FoldEntry(e)  BY <2>1 DEF Next
    <3>2. e \in AccountEntry  BY ReconcileAssumption
    <3>3. fold' \in FoldType  BY <3>1, <3>2, FoldedType DEF FoldEntry, TypeOK
    <3>4. entries' \in Seq(Entries)  BY <3>1 DEF FoldEntry, TypeOK
    <3> QED  BY <3>3, <3>4 DEF TypeOK
  <2>2. CASE UNCHANGED vars  BY <2>2 DEF vars, TypeOK
  <2> QED  BY <2>1, <2>2
<1> QED  BY <1>1, <1>2, PTL DEF Spec

(***************************************************************************)
(* For every request, whatever its entries and their order, the execution  *)
(* of an attempt is its GPU time plus its CPU time.                        *)
(***************************************************************************)
THEOREM ExecutionIsExact == Spec => []ExecutionIsGpuPlusCpu
<1>1. Init => ExecutionIsGpuPlusCpu
  BY DEF Init, ExecutionIsGpuPlusCpu, EmptyFold, NoAttr
<1>2. TypeOK /\ ExecutionIsGpuPlusCpu /\ [Next]_vars => ExecutionIsGpuPlusCpu'
  <2> SUFFICES ASSUME TypeOK, ExecutionIsGpuPlusCpu, [Next]_vars,
                      NEW a \in AttemptIds
               PROVE  Balanced(fold'.attempts[a])
    BY DEF ExecutionIsGpuPlusCpu, Balanced
  <2>1. Balanced(fold.attempts[a])  BY DEF ExecutionIsGpuPlusCpu, Balanced
  <2>2. CASE Next
    <3>1. PICK e \in Entries : FoldEntry(e)  BY <2>2 DEF Next
    <3>2. e \in AccountEntry  BY ReconcileAssumption
    <3>3. fold.attempts \in [AttemptIds -> Attr]  BY DEF TypeOK, FoldType
    <3>4. fold'.attempts = [fold.attempts EXCEPT ![e.attempt] = AttrAfter(@, e)]
      BY <3>1 DEF FoldEntry, Folded
    <3>5. CASE a = e.attempt
      <4>1. fold'.attempts[a] = AttrAfter(fold.attempts[a], e)  BY <3>3, <3>4, <3>5
      <4> QED  BY <2>1, <3>2, <3>3, <4>1, BalancedStep
    <3>6. CASE a # e.attempt
      <4>1. fold'.attempts[a] = fold.attempts[a]  BY <3>3, <3>4, <3>6
      <4> QED  BY <2>1, <4>1
    <3> QED  BY <3>5, <3>6
  <2>3. CASE UNCHANGED vars  BY <2>1, <2>3 DEF vars
  <2> QED  BY <2>2, <2>3
<1> QED  BY <1>1, <1>2, TypeCorrect, PTL DEF Spec

(***************************************************************************)
(* For every request whose entries name physical resources, the peaks of   *)
(* KV and tensor bytes lie between what is live and what was allocated.    *)
(***************************************************************************)
THEOREM PeaksAreBounded == Spec => []PeakBounds
<1>1. Init => PeakBounds
  BY DEF Init, PeakBounds, EmptyFold, EmptyGauge
<1>2. TypeOK /\ PeakBounds /\ [Next]_vars => PeakBounds'
  <2> SUFFICES ASSUME TypeOK, PeakBounds, [Next]_vars,
                      \A e \in Entries : e.resource = "Physical"
               PROVE  Bounded(fold'.kv) /\ Bounded(fold'.tensor)
    BY DEF PeakBounds, Bounded
  <2>1. Bounded(fold.kv) /\ Bounded(fold.tensor)  BY DEF PeakBounds, Bounded
  <2>2. CASE Next
    <3>1. PICK e \in Entries : FoldEntry(e)  BY <2>2 DEF Next
    <3>2. e \in AccountEntry /\ e.value >= 0  BY ReconcileAssumption DEF content_is_valid
    <3>3. fold.kv \in Gauge /\ fold.tensor \in Gauge  BY DEF TypeOK, FoldType
    <3>4. /\ fold'.kv = GaugeAfter(fold.kv, e, "KvAllocate", "KvRelease")
          /\ fold'.tensor = GaugeAfter(fold.tensor, e, "TensorAllocate", "TensorRelease")
      BY <3>1 DEF FoldEntry, Folded
    <3> QED  BY <2>1, <3>2, <3>3, <3>4, BoundedStep
  <2>3. CASE UNCHANGED vars  BY <2>1, <2>3 DEF vars
  <2> QED  BY <2>2, <2>3
<1> QED  BY <1>1, <1>2, TypeCorrect, PTL DEF Spec

-----------------------------------------------------------------------------
(* The winner *)

(***************************************************************************)
(* The winner of a request, for every number of attempts and all their     *)
(* times: the selection loop of reconcile_request finds a winner exactly   *)
(* when an attempt ended without failing or being cancelled, and no such   *)
(* attempt ended later.                                                    *)
(***************************************************************************)
THEOREM WinnerIsLastToEnd == Spec => []WinnerEndedLast
<1>1. TypeOK => WinnerEndedLast
  <2> SUFFICES ASSUME TypeOK PROVE WinnerEndedLast  OBVIOUS
  <2>1. EndedLast(fold, fold.seen, Winning(fold))  BY WinningEndedLast DEF TypeOK
  <2> DEFINE ended == {a \in fold.seen :
                         /\ fold.attempts[a].completed
                         /\ ~(fold.attempts[a].failed \/ fold.attempts[a].cancelled)}
  <2>2. Ended(fold, fold.seen) = ended  BY DEF Ended, Successful
  <2> QED  BY <2>1, <2>2 DEF EndedLast, WinnerEndedLast
<1> QED  BY <1>1, TypeCorrect, PTL

(***************************************************************************)
(* An attempt that no entry has named yet has done nothing.                *)
(***************************************************************************)
UnseenIsFresh == \A a \in AttemptIds \ fold.seen : fold.attempts[a] = NoAttr

LEMMA UnseenStaysFresh == Spec => []UnseenIsFresh
<1>1. Init => UnseenIsFresh  BY DEF Init, UnseenIsFresh, EmptyFold
<1>2. TypeOK /\ UnseenIsFresh /\ [Next]_vars => UnseenIsFresh'
  <2> SUFFICES ASSUME TypeOK, UnseenIsFresh, [Next]_vars, NEW a \in AttemptIds \ fold'.seen
               PROVE  fold'.attempts[a] = NoAttr
    BY DEF UnseenIsFresh
  <2>1. CASE Next
    <3>1. PICK e \in Entries : FoldEntry(e)  BY <2>1 DEF Next
    <3>2. /\ fold'.attempts = [fold.attempts EXCEPT ![e.attempt] = AttrAfter(@, e)]
          /\ fold'.seen = fold.seen \cup {e.attempt}
      BY <3>1 DEF FoldEntry, Folded
    <3>3. fold.attempts \in [AttemptIds -> Attr] /\ a # e.attempt /\ a \notin fold.seen
      BY <3>2 DEF TypeOK, FoldType
    <3> QED  BY <3>2, <3>3 DEF UnseenIsFresh
  <2>2. CASE UNCHANGED vars  BY <2>2 DEF vars, UnseenIsFresh
  <2> QED  BY <2>1, <2>2
<1> QED  BY <1>1, <1>2, TypeCorrect, PTL DEF Spec

(***************************************************************************)
(* README.md:72, for every request: after an attempt has won, an entry of  *)
(* another attempt, whatever its kind except RequestEnd and however often  *)
(* it arrives, leaves the winner and all of its work as they are.          *)
(***************************************************************************)
THEOREM LosersAddNothing == Spec => OtherAttemptsAddNothing
<1> DEFINE Harmless(e) ==
      /\ entries' = Append(entries, e)
      /\ Winning(fold) # NoAttempt
      /\ e.attempt # Winning(fold)
      /\ e.kind # "RequestEnd"
<1>1. ASSUME TypeOK, TypeOK', UnseenIsFresh, [Next]_vars, NEW e \in Entries, Harmless(e)
      PROVE  WinnersWork(fold)' = WinnersWork(fold)
  <2> DEFINE w == Winning(fold)
             x == e.attempt
  <2>1. fold \in FoldType /\ fold' \in FoldType /\ entries \in Seq(Entries)  BY <1>1 DEF TypeOK
  <2>2. FoldEntry(e)
    <3>1. entries' # entries
      <4>1. Len(Append(entries, e)) = Len(entries) + 1 /\ Len(entries) \in Nat  BY <2>1
      <4> QED  BY <1>1, <4>1
    <3>2. PICK d \in Entries : FoldEntry(d)  BY <1>1, <3>1 DEF Next, vars
    <3>3. Append(entries, d) = Append(entries, e)  BY <1>1, <3>2 DEF FoldEntry
    <3>4. d = e  BY <2>1, <3>3
    <3> QED  BY <3>2, <3>4
  <2>3. /\ fold'.attempts = [fold.attempts EXCEPT ![x] = AttrAfter(@, e)]
        /\ fold'.seen = fold.seen \cup {x}
    BY <2>2 DEF FoldEntry, Folded
  <2>4. /\ fold.attempts \in [AttemptIds -> Attr] /\ fold.seen \in SUBSET AttemptIds
        /\ x \in AttemptIds
    BY <2>1, SeenIsFinite, ReconcileAssumption DEF AccountEntry
  <2>5. EndedLast(fold, fold.seen, w)  BY <2>1, WinningEndedLast
  <2>6. w # NoAttempt /\ w # x /\ e.kind # "RequestEnd"  BY <1>1
  <2> HIDE DEF w
  <2>7. w \in Ended(fold, fold.seen) /\ w \in fold.seen /\ w \in AttemptIds
    BY <2>4, <2>5, <2>6 DEF EndedLast, Ended
  <2>8. \A a \in AttemptIds \ {x} : fold'.attempts[a] = fold.attempts[a]  BY <2>3, <2>4
  <2>9. fold'.attempts[x] = AttrAfter(fold.attempts[x], e)  BY <2>3, <2>4
  <2>10. /\ fold'.attempts[x].terminal_ns = fold.attempts[x].terminal_ns
         /\ Successful(fold'.attempts[x]) => Successful(fold.attempts[x])
    <3> DEFINE t == fold.attempts[x]
               u == fold'.attempts[x]
    <3>1. u = AttrAfter(t, e)  BY <2>9
    <3> HIDE DEF t, u
    <3>2. u.terminal_ns = t.terminal_ns  BY <2>6, <3>1 DEF AttrAfter
    <3>3. /\ u.completed = (t.completed \/ e.kind = "RequestEnd")
          /\ u.failed = (t.failed \/ e.kind = "Failure")
          /\ u.cancelled = (t.cancelled \/ e.kind = "Cancellation")
      BY <3>1, Zenon DEF AttrAfter
    <3>4. Successful(u) => Successful(t)  BY <2>6, <3>3, Zenon DEF Successful
    <3> QED  BY <3>2, <3>4 DEF t, u
  <2>11. Successful(fold.attempts[x]) => x \in fold.seen
    BY <1>1, <2>4 DEF UnseenIsFresh, NoAttr, Successful
  <2>12. \A a \in Ended(fold', fold'.seen) :
           /\ a \in Ended(fold, fold.seen)
           /\ fold'.attempts[a].terminal_ns = fold.attempts[a].terminal_ns
    <3> SUFFICES ASSUME NEW a \in Ended(fold', fold'.seen)
                 PROVE  /\ a \in Ended(fold, fold.seen)
                        /\ fold'.attempts[a].terminal_ns = fold.attempts[a].terminal_ns
      OBVIOUS
    <3>1. a \in fold.seen \cup {x} /\ Successful(fold'.attempts[a])  BY <2>3 DEF Ended
    <3>2. CASE a = x  BY <2>10, <2>11, <3>1, <3>2 DEF Ended
    <3>3. CASE a # x  BY <2>4, <2>8, <3>1, <3>3 DEF Ended
    <3> QED  BY <3>2, <3>3
  <2>13. fold'.attempts[w] = fold.attempts[w]  BY <2>6, <2>7, <2>8
  <2>14. w \in Ended(fold', fold'.seen)  BY <2>3, <2>7, <2>13 DEF Ended
  <2>15. EndedLast(fold', fold'.seen, w)  BY <2>5, <2>7, <2>12, <2>13, <2>14 DEF EndedLast
  <2>16. Winning(fold') = w  BY <2>1, <2>15, WinningEndedLast, EndedLastIsUnique
  <2> QED  BY <2>6, <2>13, <2>16 DEF WinnersWork, w
<1>2. TypeOK /\ TypeOK' /\ UnseenIsFresh /\ [Next]_vars
        => [\A e \in Entries : Harmless(e) => WinnersWork(fold)' = WinnersWork(fold)]_vars
  <2> HIDE DEF Harmless
  <2> QED  BY <1>1
<1> QED  BY <1>2, TypeCorrect, UnseenStaysFresh, PTL DEF Spec, OtherAttemptsAddNothing

-----------------------------------------------------------------------------
(* The work of all attempts *)

(***************************************************************************)
(* A request whose attempts all have one outcome, at most one of them      *)
(* success: its attempts are the completed ones, at most one, the failed   *)
(* ones and the cancelled ones, and the completed one has won.             *)
(***************************************************************************)
LEMMA SettledAttempts ==
  ASSUME fold \in FoldType, Settled
  PROVE  LET C == {a \in fold.seen : fold.attempts[a].completed}
             F == {a \in fold.seen \ {Winning(fold)} : fold.attempts[a].failed}
             X == {a \in fold.seen \ {Winning(fold)} : fold.attempts[a].cancelled}
         IN  /\ fold.seen = C \cup (F \cup X) /\ F \cap X = {} /\ C \cap (F \cup X) = {}
             /\ C = {} => Winning(fold) = NoAttempt
             /\ C # {} => C = {Winning(fold)} /\ Winning(fold) \in AttemptIds
                            /\ Winning(fold) # NoAttempt
<1> DEFINE W == Winning(fold)
           C == {a \in fold.seen : fold.attempts[a].completed}
           F == {a \in fold.seen \ {W} : fold.attempts[a].failed}
           X == {a \in fold.seen \ {W} : fold.attempts[a].cancelled}
<1>1. ASSUME NEW a \in fold.seen
      PROVE  LET t == fold.attempts[a] IN
             /\ t.completed \/ t.failed \/ t.cancelled
             /\ ~(t.completed /\ t.failed) /\ ~(t.completed /\ t.cancelled)
             /\ ~(t.failed /\ t.cancelled)
  <2> DEFINE t == fold.attempts[a]
             O == {o \in {"completed", "failed", "cancelled"} : t[o]}
  <2>1. Cardinality(O) = 1  BY DEF Settled
  <2>2. IsFiniteSet(O)
    <3>1. IsFiniteSet({"completed", "failed", "cancelled"})
      <4>1. IsFiniteSet({"completed"})  BY FS_Singleton, Zenon
      <4>2. IsFiniteSet({"completed"} \cup {"failed"})  BY <4>1, FS_AddElement
      <4>3. IsFiniteSet(({"completed"} \cup {"failed"}) \cup {"cancelled"})
        BY <4>2, FS_AddElement
      <4>4. ({"completed"} \cup {"failed"}) \cup {"cancelled"} = {"completed", "failed", "cancelled"}
        OBVIOUS
      <4> QED  BY <4>3, <4>4
    <3>2. O \subseteq {"completed", "failed", "cancelled"}  OBVIOUS
    <3> QED  BY <3>1, <3>2, FS_Subset
  <2> HIDE DEF t
  <2>3. PICK o : O = {o}  BY <2>1, <2>2, FS_Singleton, Zenon
  <2>4. /\ "completed" \in O <=> t.completed
        /\ "failed" \in O <=> t.failed
        /\ "cancelled" \in O <=> t.cancelled
    OBVIOUS
  <2>5. o \in {"completed", "failed", "cancelled"}  BY <2>3
  <2> HIDE DEF O
  <2>6. /\ t.completed <=> (o = "completed")
        /\ t.failed <=> (o = "failed")
        /\ t.cancelled <=> (o = "cancelled")
    BY <2>3, <2>4
  <2> QED  BY <2>5, <2>6 DEF t
<1>2. fold.seen \in SUBSET AttemptIds /\ IsFiniteSet(fold.seen) /\ NoAttempt \notin AttemptIds
  <2>1. fold.seen \in SUBSET fold.seen  OBVIOUS
  <2> QED  BY <2>1, SeenIsFinite, AccountAssumption
<1>3. EndedLast(fold, fold.seen, W)  BY WinningEndedLast
<1> HIDE DEF W
<1>4. Ended(fold, fold.seen) = C  BY <1>1 DEF Ended, Successful
<1>5. C = {} => W = NoAttempt  BY <1>3, <1>4 DEF EndedLast
<1>6. ASSUME C # {} PROVE C = {W} /\ W \in AttemptIds /\ W # NoAttempt
  <2>1. W \in C  BY <1>3, <1>4, <1>6 DEF EndedLast
  <2>2. Cardinality(C) <= 1  BY DEF Settled
  <2>3. IsFiniteSet(C)
    <3>1. C \subseteq fold.seen  OBVIOUS
    <3> QED  BY <1>2, <3>1, FS_Subset
  <2>4. Cardinality(C) = 1
    <3> HIDE DEF C
    <3>1. Cardinality(C) \in Nat /\ Cardinality(C) # 0
      BY <1>6, <2>3, FS_CardinalityType, FS_EmptySet
    <3> QED  BY <2>2, <3>1
  <2>5. PICK c : C = {c}
    <3> HIDE DEF C
    <3> QED  BY <2>3, <2>4, FS_Singleton, Zenon
  <2>6. W \in fold.seen  BY <2>1
  <2> QED  BY <1>2, <2>1, <2>5, <2>6
<1>7. fold.seen = C \cup (F \cup X) /\ F \cap X = {} /\ C \cap (F \cup X) = {}
  <2>1. \A a \in fold.seen : a \in C \/ a \in F \cup X
    <3> SUFFICES ASSUME NEW a \in fold.seen, a \notin C PROVE a \in F \cup X  OBVIOUS
    <3>1. a # W
      <4>1. CASE C = {}  BY <1>2, <1>5, <4>1
      <4>2. CASE C # {}  BY <1>6, <4>2
      <4> QED  BY <4>1, <4>2
    <3> QED  BY <1>1, <3>1
  <2>2. F \cap X = {} /\ C \cap (F \cup X) = {}  BY <1>1
  <2> QED  BY <2>1, <2>2
<1> QED  BY <1>5, <1>6, <1>7 DEF W

LEMMA SettledReconciles ==
  ASSUME fold \in FoldType, Settled
  PROVE  /\ Distributed = ExecutionOf(fold, fold.seen)
         /\ WinnersWork(fold).execution_s \in Int
         /\ failed_attempt_work(fold) \in Int /\ cancelled_work(fold) \in Int
<1> DEFINE W == Winning(fold)
           C == {a \in fold.seen : fold.attempts[a].completed}
           F == {a \in fold.seen \ {W} : fold.attempts[a].failed}
           X == {a \in fold.seen \ {W} : fold.attempts[a].cancelled}
           g == Executions(fold)
<1>1. /\ fold.seen = C \cup (F \cup X) /\ F \cap X = {} /\ C \cap (F \cup X) = {}
      /\ C = {} => W = NoAttempt
      /\ C # {} => C = {W} /\ W \in AttemptIds /\ W # NoAttempt
  BY SettledAttempts
<1>2. /\ C \in SUBSET fold.seen /\ F \in SUBSET fold.seen /\ X \in SUBSET fold.seen
      /\ F \cup X \in SUBSET fold.seen /\ fold.seen \in SUBSET fold.seen
  OBVIOUS
<1>3. failed_attempt_work(fold) = ExecutionOf(fold, F) /\ cancelled_work(fold) = ExecutionOf(fold, X)
  BY DEF failed_attempt_work, cancelled_work
<1>4. WinnersWork(fold).execution_s = IF W = NoAttempt THEN 0 ELSE fold.attempts[W].exec_s
  BY DEF WinnersWork, NoAttr
<1>5. W \in AttemptIds => g[W] = fold.attempts[W].exec_s  BY DEF Executions
<1> HIDE DEF W, C, F, X, g
<1>6. g \in [AttemptIds -> Int] /\ \A S \in SUBSET fold.seen : S \in SUBSET AttemptIds /\ IsFiniteSet(S)
  BY SummandTypes DEF g
<1>7. \A S \in SUBSET fold.seen : ExecutionOf(fold, S) = SumOver(g, S)  BY ExecutionIsSum DEF g
<1>8. \A S \in SUBSET fold.seen : SumOver(g, S) \in Int
  <2> SUFFICES ASSUME NEW S \in SUBSET fold.seen PROVE SumOver(g, S) \in Int  OBVIOUS
  <2>1. S \in SUBSET AttemptIds /\ IsFiniteSet(S)  BY <1>6
  <2> QED  BY <1>6, <2>1, SumPicked, Zenon
<1>9. SumOver(g, F \cup X) = SumOver(g, F) + SumOver(g, X)
  <2>1. /\ F \in SUBSET AttemptIds /\ IsFiniteSet(F) /\ X \in SUBSET AttemptIds /\ IsFiniteSet(X)
    BY <1>2, <1>6
  <2> QED  BY <1>1, <1>6, <2>1, SumSplit
<1>10. SumOver(g, fold.seen) = SumOver(g, C) + SumOver(g, F \cup X)
  <2> DEFINE R == F \cup X
  <2>1. /\ C \in SUBSET AttemptIds /\ IsFiniteSet(C) /\ R \in SUBSET AttemptIds /\ IsFiniteSet(R)
        /\ C \cap R = {} /\ fold.seen = C \cup R
    BY <1>1, <1>2, <1>6
  <2> HIDE DEF R
  <2>2. SumOver(g, C \cup R) = SumOver(g, C) + SumOver(g, R)  BY <1>6, <2>1, SumSplit
  <2> QED  BY <2>1, <2>2 DEF R
<1>11. SumOver(g, C) = WinnersWork(fold).execution_s
  <2>1. C \in SUBSET AttemptIds /\ IsFiniteSet(C)  BY <1>2, <1>6
  <2>2. CASE C = {}
    <3>1. SumOver(g, C) = 0  BY <1>6, <2>1, <2>2, SumPicked, Zenon
    <3> QED  BY <1>1, <1>4, <2>2, <3>1
  <2>3. CASE C # {}
    <3>1. W \in C /\ C \ {W} = {} /\ W \in AttemptIds /\ W # NoAttempt  BY <1>1, <2>3
    <3>2. SumOver(g, C) = g[W] + SumOver(g, C \ {W})  BY <1>6, <2>1, <3>1, SumTaken
    <3>3. SumOver(g, {}) = 0
      <4>1. {} \in SUBSET AttemptIds /\ IsFiniteSet({})  BY FS_EmptySet
      <4> QED  BY <1>6, <4>1, SumPicked, Zenon
    <3>4. g[W] \in Int  BY <1>6, <3>1
    <3>5. SumOver(g, C \ {W}) = 0  BY <3>1, <3>3
    <3>6. SumOver(g, C) = g[W]  BY <3>2, <3>4, <3>5
    <3> QED  BY <1>4, <1>5, <3>1, <3>6
  <2> QED  BY <2>2, <2>3
<1>12. SumOver(g, C) \in Int /\ SumOver(g, F) \in Int /\ SumOver(g, X) \in Int  BY <1>2, <1>8
<1> QED  BY <1>2, <1>3, <1>7, <1>9, <1>10, <1>11, <1>12 DEF Distributed

(***************************************************************************)
(* README.md:59, for every request whose attempts all have one outcome,    *)
(* however many there are: reconcile_request counts the execution of each  *)
(* attempt exactly once, as useful, failed or cancelled work.              *)
(***************************************************************************)
THEOREM NoWorkLostOrDoubled == Spec => []SettledTotalsReconcile
<1>1. TypeOK => SettledTotalsReconcile  BY SettledReconciles DEF TypeOK, SettledTotalsReconcile
<1> QED  BY <1>1, TypeCorrect, PTL

-----------------------------------------------------------------------------
(* The order of arrival *)

(***************************************************************************)
(* The state of the loop is determined by the entries it has seen.         *)
(***************************************************************************)
FoldIsAfter == fold = After(entries, Len(entries))

LEMMA FoldFollowsEntries == Spec => []FoldIsAfter
<1>1. Init => FoldIsAfter
  <2> SUFFICES ASSUME Init PROVE FoldIsAfter  OBVIOUS
  <2>1. entries = <<>> /\ fold = EmptyFold /\ Len(entries) = 0 /\ entries \in Seq(AccountEntry)
    BY DEF Init
  <2> QED  BY <2>1, AfterOneByOne, Zenon DEF FoldIsAfter
<1>2. TypeOK /\ FoldIsAfter /\ [Next]_vars => FoldIsAfter'
  <2> SUFFICES ASSUME TypeOK, FoldIsAfter, [Next]_vars PROVE FoldIsAfter'  OBVIOUS
  <2>1. CASE Next
    <3>1. PICK e \in Entries : FoldEntry(e)  BY <2>1 DEF Next
    <3> DEFINE q == entries
               r == entries'
               n == Len(entries)
    <3>2. /\ q \in Seq(AccountEntry) /\ r \in Seq(AccountEntry) /\ n \in Nat /\ n <= Len(q)
          /\ Len(r) = n + 1 /\ r[n + 1] = e /\ \A k \in 1..n : q[k] = r[k]
      <4>1. e \in AccountEntry /\ Entries \subseteq AccountEntry  BY ReconcileAssumption
      <4>2. r = Append(q, e) /\ q \in Seq(Entries)  BY <3>1 DEF FoldEntry, TypeOK
      <4>3. q \in Seq(AccountEntry)  BY <4>1, <4>2
      <4> QED  BY <4>1, <4>2, <4>3
    <3> HIDE DEF n, q, r
    <3>3. n <= Len(r) /\ n \in 0..n /\ n + 1 \in 1..Len(r) /\ (n + 1) - 1 = n  BY <3>2
    <3>4. After(q, n) = After(r, n)  BY <3>2, <3>3, AfterAgrees
    <3>5. After(r, n + 1) = Folded(After(r, n), r[n + 1])  BY <3>2, <3>3, AfterOneByOne
    <3>6. fold' = Folded(fold, e) /\ fold = After(q, n)
      BY <3>1 DEF FoldEntry, FoldIsAfter, q, n
    <3>7. fold' = After(r, n + 1)  BY <3>2, <3>4, <3>5, <3>6
    <3> QED  BY <3>2, <3>7 DEF FoldIsAfter, r
  <2>2. CASE UNCHANGED vars  BY <2>2 DEF vars, FoldIsAfter
  <2> QED  BY <2>1, <2>2
<1> QED  BY <1>1, <1>2, TypeCorrect, PTL DEF Spec

\* The locals on which the order of arrival leaves no trace.
SameWork(x, y) ==
  /\ x.attempts = y.attempts /\ x.seen = y.seen /\ x.totals = y.totals
  /\ x.kv.allocated = y.kv.allocated /\ x.tensor.allocated = y.tensor.allocated

LEMMA AllocatedAfter ==
  ASSUME NEW g \in Gauge, NEW e \in AccountEntry, NEW k, NEW l, k # l
  PROVE  GaugeAfter(g, e, k, l).allocated = g.allocated + (IF e.kind = k THEN e.value ELSE 0)
BY DEF GaugeAfter, Allocated, Released, Gauge, AccountEntry

LEMMA SameWorkStep ==
  ASSUME NEW x \in FoldType, NEW y \in FoldType, NEW e \in AccountEntry, SameWork(x, y)
  PROVE  SameWork(Folded(x, e), Folded(y, e))
<1>1. x.kv \in Gauge /\ y.kv \in Gauge /\ x.tensor \in Gauge /\ y.tensor \in Gauge
  BY DEF FoldType
<1>2. Folded(x, e).attempts = Folded(y, e).attempts
  <2>1. /\ Folded(x, e).attempts = [x.attempts EXCEPT ![e.attempt] = AttrAfter(@, e)]
        /\ Folded(y, e).attempts = [y.attempts EXCEPT ![e.attempt] = AttrAfter(@, e)]
    BY DEF Folded
  <2> QED  BY <2>1 DEF SameWork
<1>3. Folded(x, e).seen = Folded(y, e).seen
  <2>1. Folded(x, e).seen = x.seen \cup {e.attempt} /\ Folded(y, e).seen = y.seen \cup {e.attempt}
    BY DEF Folded
  <2> QED  BY <2>1 DEF SameWork
<1>4. Folded(x, e).totals = Folded(y, e).totals
  <2>1. /\ Folded(x, e).totals = [n \in Totals |-> x.totals[n] + Contribution(n, e)]
        /\ Folded(y, e).totals = [n \in Totals |-> y.totals[n] + Contribution(n, e)]
    BY DEF Folded
  <2> QED  BY <2>1 DEF SameWork
<1>5. Folded(x, e).kv.allocated = Folded(y, e).kv.allocated
  <2>1. /\ Folded(x, e).kv = GaugeAfter(x.kv, e, "KvAllocate", "KvRelease")
        /\ Folded(y, e).kv = GaugeAfter(y.kv, e, "KvAllocate", "KvRelease")
    BY DEF Folded
  <2> QED  BY <1>1, <2>1, AllocatedAfter DEF SameWork
<1>6. Folded(x, e).tensor.allocated = Folded(y, e).tensor.allocated
  <2>1. /\ Folded(x, e).tensor = GaugeAfter(x.tensor, e, "TensorAllocate", "TensorRelease")
        /\ Folded(y, e).tensor = GaugeAfter(y.tensor, e, "TensorAllocate", "TensorRelease")
    BY DEF Folded
  <2> QED  BY <1>1, <2>1, AllocatedAfter, SMTT(30) DEF SameWork
<1> QED  BY <1>2, <1>3, <1>4, <1>5, <1>6 DEF SameWork

LEMMA SameWorkSameAccount ==
  ASSUME NEW x \in FoldType, NEW y \in FoldType, SameWork(x, y)
  PROVE  OrderFree(x) = OrderFree(y)
<1>1. x.attempts = y.attempts /\ x.seen = y.seen /\ x.totals = y.totals
      /\ x.kv.allocated = y.kv.allocated /\ x.tensor.allocated = y.tensor.allocated
  BY DEF SameWork
<1>2. Winning(x) = Winning(y)
  <2>1. EndedLast(x, x.seen, Winning(x)) /\ EndedLast(y, y.seen, Winning(y))
    BY WinningEndedLast
  <2>2. EndedLast(x, x.seen, Winning(y))
    BY <1>1, <2>1, SMTT(30) DEF EndedLast, Ended
  <2> QED  BY <2>1, <2>2, EndedLastIsUnique
<1>3. WinnersWork(x) = WinnersWork(y)  BY <1>1, <1>2 DEF WinnersWork
<1>4. terminal_outcome(x) = terminal_outcome(y)  BY <1>1, <1>2 DEF terminal_outcome
<1>5. \A S \in SUBSET x.seen : ExecutionOf(x, S) = ExecutionOf(y, S)
  <2>1. Executions(x) = Executions(y)  BY <1>1 DEF Executions
  <2> QED  BY <1>1, <2>1, ExecutionIsSum
<1>6. failed_attempt_work(x) = failed_attempt_work(y)
  <2> DEFINE F == {a \in x.seen \ {Winning(x)} : x.attempts[a].failed}
  <2>1. F \in SUBSET x.seen /\ F = {a \in y.seen \ {Winning(y)} : y.attempts[a].failed}
    BY <1>1, <1>2
  <2>2. failed_attempt_work(x) = ExecutionOf(x, F) /\ failed_attempt_work(y) = ExecutionOf(y, F)
    BY <2>1, Zenon DEF failed_attempt_work
  <2> HIDE DEF F
  <2> QED  BY <1>5, <2>1, <2>2
<1>7. cancelled_work(x) = cancelled_work(y)
  <2> DEFINE X == {a \in x.seen \ {Winning(x)} : x.attempts[a].cancelled}
  <2>1. X \in SUBSET x.seen /\ X = {a \in y.seen \ {Winning(y)} : y.attempts[a].cancelled}
    BY <1>1, <1>2
  <2>2. cancelled_work(x) = ExecutionOf(x, X) /\ cancelled_work(y) = ExecutionOf(y, X)
    BY <2>1, Zenon DEF cancelled_work
  <2> HIDE DEF X
  <2> QED  BY <1>5, <2>1, <2>2
<1>8. spec_wasted_work_s(x) = spec_wasted_work_s(y)
  <2>1. Rejections(x) = Rejections(y)  BY <1>1 DEF Rejections
  <2>2. spec_wasted_work_s(x) = SumOver(Rejections(x), x.seen)  BY RejectionIsSum
  <2>3. spec_wasted_work_s(y) = SumOver(Rejections(y), y.seen)  BY RejectionIsSum
  <2> QED  BY <1>1, <2>1, <2>2, <2>3
<1>9. Reported(x) = Reported(y)  BY <1>1 DEF Reported
<1> DEFINE R(f, p, q, r, s) ==
             [work |-> WinnersWork(f), outcome |-> terminal_outcome(f),
              failed_attempt_work |-> failed_attempt_work(f), cancelled_work |-> cancelled_work(f),
              spec_wasted_work_s |-> spec_wasted_work_s(f), wall_latency_s |-> p,
              kv_allocated |-> f.kv.allocated, kv_peak |-> q,
              tensor_allocated |-> f.tensor.allocated, tensor_peak |-> r,
              allocation_peak |-> s, totals |-> Reported(f),
              attempt_count |-> Cardinality(f.seen)]
<1>10. ASSUME NEW f PROVE OrderFree(f) = R(f, 0, 0, 0, 0)
  <2> DEFINE wall == wall_latency_s(f)
             kv == f.kv.peak
             tensor == f.tensor.peak
             both == larger(f.kv.peak, f.tensor.peak)
  <2>1. Account(f) = R(f, wall, kv, tensor, both)  BY DEF Account
  <2>2. OrderFree(f) = [Account(f) EXCEPT !.wall_latency_s = 0, !.kv_peak = 0,
                                         !.tensor_peak = 0, !.allocation_peak = 0]
    BY DEF OrderFree
  <2> HIDE DEF wall, kv, tensor, both
  <2>3. [R(f, wall, kv, tensor, both) EXCEPT !.wall_latency_s = 0] = R(f, 0, kv, tensor, both)
    OBVIOUS
  <2>4. [R(f, 0, kv, tensor, both) EXCEPT !.kv_peak = 0] = R(f, 0, 0, tensor, both)  OBVIOUS
  <2>5. [R(f, 0, 0, tensor, both) EXCEPT !.tensor_peak = 0] = R(f, 0, 0, 0, both)  OBVIOUS
  <2>6. [R(f, 0, 0, 0, both) EXCEPT !.allocation_peak = 0] = R(f, 0, 0, 0, 0)  OBVIOUS
  <2> HIDE DEF R
  <2>7. OrderFree(f) =
          [[[[R(f, wall, kv, tensor, both) EXCEPT !.wall_latency_s = 0] EXCEPT !.kv_peak = 0]
              EXCEPT !.tensor_peak = 0] EXCEPT !.allocation_peak = 0]
    BY <2>1, <2>2
  <2> QED  BY <2>3, <2>4, <2>5, <2>6, <2>7, Zenon
<1>11. R(x, 0, 0, 0, 0) = R(y, 0, 0, 0, 0)  BY <1>1, <1>3, <1>4, <1>6, <1>7, <1>8, <1>9
<1> HIDE DEF R
<1> QED  BY <1>10, <1>11

LEMMA SwappedEntries ==
  ASSUME NEW q \in Seq(AccountEntry), NEW i \in 1..(Len(q) - 1)
  PROVE  /\ SwapAt(q, i) \in Seq(AccountEntry) /\ Len(SwapAt(q, i)) = Len(q)
         /\ SwapAt(q, i)[i] = q[i + 1] /\ SwapAt(q, i)[i + 1] = q[i]
         /\ \A k \in 1..Len(q) : k # i /\ k # i + 1 => SwapAt(q, i)[k] = q[k]
BY DEF SwapAt

(***************************************************************************)
(* Two entries that changed places: from the second of them on, the locals *)
(* agree in all but the peaks and the times.                               *)
(***************************************************************************)
LEMMA SwappedWork ==
  ASSUME NEW q \in Seq(AccountEntry), NEW i \in 1..(Len(q) - 1)
  PROVE  /\ After(SwapAt(q, i), Len(q)) \in FoldType
         /\ SameWork(After(SwapAt(q, i), Len(q)), After(q, Len(q)))
<1> DEFINE r == SwapAt(q, i)
           n == Len(q)
           Q(k) == After(q, k)
           R(k) == After(r, k)
<1>1. /\ r \in Seq(AccountEntry) /\ Len(r) = n /\ r[i] = q[i + 1] /\ r[i + 1] = q[i]
      /\ \A k \in 1..n : k # i /\ k # i + 1 => r[k] = q[k]
  BY SwappedEntries
<1>2. n \in Nat /\ i \in 1..n /\ i + 1 \in 1..n /\ i \in Nat /\ n = Len(q)  OBVIOUS
<1>3. \A k \in 1..n : q[k] \in AccountEntry  OBVIOUS
<1> HIDE DEF r, n
<1>4. /\ \A k \in 1..n : Q(k) = Folded(Q(k - 1), q[k])
      /\ \A k \in 0..n : Q(k) \in FoldType
  BY <1>2, AfterOneByOne
<1>5. /\ \A k \in 1..n : R(k) = Folded(R(k - 1), r[k])
      /\ \A k \in 0..n : R(k) \in FoldType
  BY <1>1, AfterOneByOne, Zenon
<1>6. R(i - 1) = Q(i - 1)
  <2> DEFINE m == i - 1
  <2>1. /\ m \in Nat /\ m <= Len(q) /\ m <= Len(r) /\ m \in 0..m
        /\ \A k \in 1..m : k \in 1..n /\ k # i /\ k # i + 1
    BY <1>1, <1>2
  <2>2. \A k \in 1..m : q[k] = r[k]  BY <1>1, <2>1
  <2> HIDE DEF m
  <2>3. \A k \in 0..m : After(q, k) = After(r, k)  BY <1>1, <2>1, <2>2, AfterAgrees
  <2> QED  BY <2>1, <2>3 DEF m
<1> HIDE DEF Q, R
<1> DEFINE G == {k \in Nat : SameWork(R((i + 1) + k), Q((i + 1) + k))}
           N == n - (i + 1)
<1>7. 0 \in G
  <2> DEFINE f == Q(i - 1)
             d == q[i]
             e == q[i + 1]
  <2>1. (i + 1) - 1 = i /\ (i + 1) + 0 = i + 1 /\ i - 1 \in 0..n  BY <1>2
  <2>2. Q(i + 1) = Folded(Q(i), e) /\ Q(i) = Folded(f, d)  BY <1>2, <1>4, <2>1
  <2>3. R(i + 1) = Folded(R(i), d) /\ R(i) = Folded(f, e)  BY <1>1, <1>2, <1>5, <1>6, <2>1
  <2>4. f \in FoldType /\ d \in AccountEntry /\ e \in AccountEntry  BY <1>2, <1>3, <1>4, <2>1
  <2> HIDE DEF f, d, e
  <2>5. SameWork(Folded(Folded(f, e), d), Folded(Folded(f, d), e))
    BY <2>4, FoldCommutes DEF SameWork
  <2>6. SameWork(R(i + 1), Q(i + 1))  BY <2>2, <2>3, <2>5
  <2> QED  BY <2>1, <2>6
<1>8. ASSUME NEW k \in 0..(N - 1), k \in G PROVE k + 1 \in G
  <2> DEFINE m == (i + 1) + (k + 1)
  <2>1. /\ m \in 1..n /\ m # i /\ m # i + 1 /\ m - 1 = (i + 1) + k /\ m - 1 \in 0..n
        /\ k + 1 \in Nat
    BY <1>2
  <2>2. SameWork(R(m - 1), Q(m - 1))  BY <1>8, <2>1
  <2> HIDE DEF m
  <2>3. Q(m) = Folded(Q(m - 1), q[m]) /\ R(m) = Folded(R(m - 1), q[m])  BY <1>1, <1>4, <1>5, <2>1, Zenon
  <2>4. Q(m - 1) \in FoldType /\ R(m - 1) \in FoldType /\ q[m] \in AccountEntry
    BY <1>3, <1>4, <1>5, <2>1
  <2>5. SameWork(R(m), Q(m))  BY <2>2, <2>3, <2>4, SameWorkStep
  <2> QED  BY <2>1, <2>5 DEF m
<1>9. N \in Nat /\ N \in 0..N /\ (i + 1) + N = n /\ n \in 0..n  BY <1>2
<1>10. 0..N \subseteq G
  <2> HIDE DEF G, N
  <2> QED  BY <1>7, <1>8, <1>9, UpToBound
<1>11. SameWork(R(n), Q(n))
  <2> HIDE DEF N
  <2> QED  BY <1>9, <1>10
<1> QED  BY <1>2, <1>5, <1>9, <1>11 DEF Q, R, r, n

(***************************************************************************)
(* The messages of the workers may be handled in either order: for every   *)
(* request, every length and every two neighbouring entries of it that     *)
(* changed places, reconcile_request derives the same winner, work, waste, *)
(* totals and outcome.  (Any two orders differ by such exchanges.)         *)
(***************************************************************************)
THEOREM EitherOrderSameAccount == Spec => []ArrivalOrderIrrelevant
<1>1. TypeOK /\ FoldIsAfter => ArrivalOrderIrrelevant
  <2> SUFFICES ASSUME TypeOK, FoldIsAfter, NEW i \in 1..(Len(entries) - 1)
               PROVE  OrderFree(Reconciled(SwapAt(entries, i))) = OrderFree(fold)
    BY DEF ArrivalOrderIrrelevant
  <2> DEFINE q == entries
             r == SwapAt(entries, i)
  <2>1. q \in Seq(AccountEntry)
    <3>1. q \in Seq(Entries) /\ Entries \subseteq AccountEntry  BY ReconcileAssumption DEF TypeOK
    <3> QED  BY <3>1
  <2>2. r \in Seq(AccountEntry) /\ Len(r) = Len(q)  BY <2>1, SwappedEntries
  <2>3. Reconciled(r) = After(r, Len(q))
    <3> HIDE DEF r
    <3> QED  BY <2>2, ReconciledIsAfter
  <2>4. After(r, Len(q)) \in FoldType /\ SameWork(After(r, Len(q)), After(q, Len(q)))
    BY <2>1, SwappedWork
  <2>5. fold = After(q, Len(q)) /\ fold \in FoldType  BY DEF FoldIsAfter, TypeOK
  <2> HIDE DEF q, r
  <2>6. OrderFree(After(r, Len(q))) = OrderFree(fold)  BY <2>4, <2>5, SameWorkSameAccount
  <2> QED  BY <2>3, <2>6 DEF r
<1> QED  BY <1>1, TypeCorrect, FoldFollowsEntries, PTL

-----------------------------------------------------------------------------
(* Pricing *)

(***************************************************************************)
(* Adding a policy touches no account: of the locals of reconcile_request, *)
(* the system with a policy store does what the system without one does.   *)
(***************************************************************************)
LEMMA PricingLeavesAccounts == PriceSpec => Spec
<1>1. PriceInit => Init  BY DEF PriceInit
<1>2. [PriceNext]_priceVars => [Next]_vars
  BY DEF PriceNext, priceVars, Record, add, Next, vars
<1> QED  BY <1>1, <1>2, PTL DEF PriceSpec, Spec

StoreType == store \in [PolicyIds -> Policies \cup {NoPolicy}]

LEMMA StoreTypeCorrect == PriceSpec => []StoreType
<1>1. PriceInit => StoreType  BY DEF PriceInit, StoreType
<1>2. StoreType /\ [PriceNext]_priceVars => StoreType'
  <2> SUFFICES ASSUME StoreType, [PriceNext]_priceVars PROVE StoreType'  OBVIOUS
  <2>1. CASE \E e \in Entries : Record(e)  BY <2>1 DEF Record, StoreType
  <2>2. CASE \E p \in Policies : add(p)  BY <2>2, Zenon DEF add, StoreType
  <2>3. CASE UNCHANGED priceVars  BY <2>3 DEF priceVars, StoreType
  <2> QED  BY <2>1, <2>2, <2>3 DEF PriceNext
<1> QED  BY <1>1, <1>2, PTL DEF PriceSpec

LEMMA StoredPolicies ==
  ASSUME StoreType, NEW p \in Stored
  PROVE  p.rates.gpu_per_second \in Int /\ p.rates.cpu_per_second \in Int
<1>1. p \in Policies  BY DEF StoreType, Stored
<1> QED  BY <1>1, PricingAssumption DEF PricingPolicy, Rates

LEMMA AddedRates ==
  ASSUME NEW a \in Int, NEW b \in Int, NEW c \in Int, NEW d \in Int, NEW e \in Int,
         NEW g \in Int
  PROVE  (((a * g) + (b + c) * g) + d * g) + e * g = (((a + b) + d) + c + e) * g
<1>1. \A i, j \in Int : (i + j) * g = i * g + j * g  OBVIOUS
<1>2. \A i \in Int : i * g \in Int  OBVIOUS
<1> DEFINE A == a * g
           B == b * g
           C == c * g
           D == d * g
           E == e * g
<1>3. A \in Int /\ B \in Int /\ C \in Int /\ D \in Int /\ E \in Int  BY <1>2
<1>4. (b + c) * g = B + C  BY <1>1
<1>5. (((a + b) + d) + c + e) * g = (((A + B) + D) + C) + E
  <2>1. a + b \in Int /\ (a + b) + d \in Int /\ ((a + b) + d) + c \in Int  OBVIOUS
  <2>2. (a + b) * g = A + B  BY <1>1
  <2>3. ((a + b) + d) * g = (a + b) * g + D  BY <1>1, <2>1
  <2>4. (((a + b) + d) + c) * g = ((a + b) + d) * g + C  BY <1>1, <2>1
  <2>5. ((((a + b) + d) + c) + e) * g = (((a + b) + d) + c) * g + E  BY <1>1, <2>1
  <2> QED  BY <2>2, <2>3, <2>4, <2>5
<1> HIDE DEF A, B, C, D, E
<1>6. ((A + (B + C)) + D) + E = (((A + B) + D) + C) + E  BY <1>3
<1> QED  BY <1>4, <1>5, <1>6 DEF A, D, E

(***************************************************************************)
(* README.md:59 carried through apply_pricing, for every policy of the     *)
(* store, whatever its rates, and every request that ran on the GPU alone  *)
(* and whose attempts all have exactly one outcome: the compute cost is    *)
(* each second that an attempt executed, speculated in vain or recomputed, *)
(* once, at the GPU rate.  (CPU seconds would be in it twice, at the GPU   *)
(* rate as execution and at the CPU rate.)                                 *)
(***************************************************************************)
THEOREM GpuSecondsBilledOnce == PriceSpec => []GpuWorkBilledOnce
<1>1. TypeOK /\ StoreType => GpuWorkBilledOnce
  <2> SUFFICES ASSUME TypeOK, StoreType, Settled, NoCpuWork, NEW p \in Stored
               PROVE  compute_cost(apply_pricing(fold, p)) =
                        (ExecutionOf(fold, fold.seen) + spec_wasted_work_s(fold)
                           + fold.totals.recompute_s) * p.rates.gpu_per_second * PerSecond
    BY DEF GpuWorkBilledOnce
  <2> DEFINE r == apply_pricing(fold, p)
             rate == p.rates.gpu_per_second
             g == rate * PerSecond
             useful == WinnersWork(fold).execution_s
             failed == failed_attempt_work(fold)
             cancelled == cancelled_work(fold)
             wasted == spec_wasted_work_s(fold)
             again == fold.totals.recompute_s
             cpu == Account(fold).work.cpu_active_s * p.rates.cpu_per_second * PerSecond
  <2>1. fold \in FoldType  BY DEF TypeOK
  <2>2. PerSecond \in Int /\ rate \in Int /\ g \in Int
    <3>1. PerSecond \in Int
      <4>1. kGiB \in Int /\ kJoulesPerKwh \in Int  BY PricingAssumption
      <4>2. 2 * kGiB \in Int  BY <4>1
      <4>3. 2 * kGiB * kJoulesPerKwh \in Int  BY <4>1, <4>2
      <4> QED  BY <4>3 DEF PerSecond
    <3>2. rate \in Int  BY StoredPolicies
    <3> HIDE DEF rate
    <3> QED  BY <3>1, <3>2
  <2>3. /\ useful \in Int /\ failed \in Int /\ cancelled \in Int
        /\ (useful + failed) + cancelled = ExecutionOf(fold, fold.seen)
    BY <2>1, SettledReconciles DEF Distributed
  <2>4. wasted \in Int
    <3>1. fold.seen \in SUBSET fold.seen  OBVIOUS
    <3>2. Rejections(fold) \in [AttemptIds -> Int] /\ fold.seen \in SUBSET AttemptIds
          /\ IsFiniteSet(fold.seen)
      BY <2>1, <3>1, SummandTypes
    <3>3. SumOver(Rejections(fold), fold.seen) \in Int  BY <3>2, SumPicked, Zenon
    <3> QED  BY <2>1, <3>3, RejectionIsSum
  <2>5. again \in Int /\ Account(fold).totals.recompute_s = again
    <3>1. "recompute_s" \in Totals /\ "recompute_s" \notin DOMAIN CountTotals \cup DOMAIN EventTotals
      BY DEF Totals, DurationTotals, CountTotals, EventTotals
    <3>2. fold.totals \in [Totals -> Int]  BY <2>1 DEF FoldType
    <3>3. Account(fold).totals = Reported(fold)  BY SMTT(30) DEF Account
    <3> QED  BY <3>1, <3>2, <3>3 DEF Reported
  <2>6. /\ Account(fold).work.execution_s = useful
        /\ Account(fold).failed_attempt_work = failed
        /\ Account(fold).cancelled_work = cancelled
        /\ Account(fold).spec_wasted_work_s = wasted
    BY Zenon DEF Account
  <2>7. /\ r.useful_work_cost = useful * g
        /\ r.wasted_work_cost = (failed + wasted) * g
        /\ r.cancelled_cost = cancelled * g
        /\ r.recomputed_cost = again * g
        /\ r.cpu_compute_cost = cpu
    BY <2>5, <2>6, Zenon DEF apply_pricing
  <2>8. cpu = 0
    <3> DEFINE s == Account(fold).work.cpu_active_s
               c == p.rates.cpu_per_second
    <3>1. s = IF Winning(fold) = NoAttempt THEN 0 ELSE fold.attempts[Winning(fold)].cpu_s
      BY Zenon DEF Account, WinnersWork, NoAttr
    <3>2. Winning(fold) # NoAttempt => Winning(fold) \in fold.seen
      <4>1. EndedLast(fold, fold.seen, Winning(fold))  BY <2>1, WinningEndedLast
      <4> QED  BY <4>1 DEF EndedLast, Ended
    <3>3. s = 0
      <4> HIDE DEF s
      <4> QED  BY <3>1, <3>2, Zenon DEF NoCpuWork
    <3>4. c \in Int  BY StoredPolicies
    <3> HIDE DEF s, c
    <3>5. s * c = 0  BY <3>3, <3>4
    <3>6. (s * c) * PerSecond = 0  BY <2>2, <3>5
    <3> QED  BY <3>6, ZenonT(30) DEF s, c
  <2> HIDE DEF r, useful, failed, cancelled, wasted, again, cpu, g
  <2>9. compute_cost(r) = (((useful * g + (failed + wasted) * g) + cancelled * g) + again * g) + cpu
    BY <2>7 DEF compute_cost
  <2>10. compute_cost(r) = (((useful + failed) + cancelled) + wasted + again) * g
    <3> DEFINE sum == ((useful * g + (failed + wasted) * g) + cancelled * g) + again * g
    <3>1. sum = (((useful + failed) + cancelled) + wasted + again) * g
      BY <2>2, <2>3, <2>4, <2>5, AddedRates
    <3>2. (((useful + failed) + cancelled) + wasted + again) * g \in Int
      <4>1. ((useful + failed) + cancelled) + wasted + again \in Int  BY <2>3, <2>4, <2>5
      <4> QED  BY <2>2, <4>1
    <3> HIDE DEF sum
    <3>3. compute_cost(r) = sum + cpu  BY <2>9, Zenon DEF sum
    <3> QED  BY <2>8, <3>1, <3>2, <3>3
  <2>11. \A n \in Int : n * g = (n * rate) * PerSecond
    <3> HIDE DEF rate
    <3> QED  BY <2>2 DEF g
  <2>12. (((useful + failed) + cancelled) + wasted) + again \in Int  BY <2>3, <2>4, <2>5
  <2> QED  BY <2>3, <2>10, <2>11, <2>12 DEF r, wasted, again, rate
<1> QED  BY <1>1, TypeCorrect, PricingLeavesAccounts, StoreTypeCorrect, PTL

============================================================================
