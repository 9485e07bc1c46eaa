--------------------------- MODULE MCCoordinator ---------------------------
(***************************************************************************)
(* Instances of the coordinator for TLC: two workers, the first of which   *)
(* may be restarted once, and one request with two attempts.               *)
(***************************************************************************)
EXTENDS CoordinatorProperties, FiniteSetsExt, TLC

CONSTANTS w1, w2,        \* workers
          c1, c2, c3,    \* connections
          r1,            \* a request
          a1, a2         \* attempts

MCWorkers == {w1, w2}
MCConns == {c1, c2, c3}
MCWorkerOf == (c1 :> w1) @@ (c2 :> w1) @@ (c3 :> w2)
MCBootOf == (c1 :> 1) @@ (c2 :> 2) @@ (c3 :> 3)
MCBoots == 1..3

TwoConns == {c1, c3}
TwoWorkerOf == [c \in TwoConns |-> MCWorkerOf[c]]
TwoBootOf == [c \in TwoConns |-> MCBootOf[c]]

OneConn == {c1}
OneWorkerOf == [c \in OneConn |-> MCWorkerOf[c]]
OneBootOf == [c \in OneConn |-> MCBootOf[c]]

(***************************************************************************)
(* An event of worker w, with boot b, for attempt a in epoch n.            *)
(***************************************************************************)
Ev(i, kind, w, b, a, n, p) ==
  [id |-> i, event_kind |-> kind, request |-> r1, worker |-> w,
   resource_kind |-> "Energy", unit |-> "Count", quantity |-> 2, payload |-> p,
   epoch |-> n, accounting_generation |-> n, worker_boot |-> b,
   request_generation |-> 1, attempt |-> a, attempt_generation |-> IF a = a1 THEN 1 ELSE 2]

Start1 == Ev("s1", "RequestStart", w1, 1, a1, 1, 0)
Work1 == Ev("g1", "Work", w1, 1, a1, 1, 0)
End2 == Ev("e2", "RequestEnd", w2, 3, a1, 2, 0)
Start2 == Ev("s2", "RequestStart", w1, 1, a2, 1, 0)
Conflict1 == Ev("g1", "Work", w1, 1, a1, 1, 1)
Bad == [Ev("b1", "Work", w1, 1, a1, 1, 0) EXCEPT !.quantity = 1]

Big == Ev("x1", "Work", w1, 1, a1, 1, 0)

MCIds == {"s1", "g1", "e2", "s2", "b1", "x1"}

RaceEvents == {Start1, End2, Big}
MCOversize == {Big}
AttemptEvents == {Start1, Start2, Work1}
FenceEvents == {Start1, Work1, Conflict1, Start2, End2, Bad}

(***************************************************************************)
(* The bound of the run about the ledger: four events in all, two of which *)
(* a public call replaces.                                                 *)
(***************************************************************************)
Budget == MapThenSumSet(LAMBDA c : sent[c], Conns) + 2 * api <= 4

BudgetSpec == Init /\ [][Next /\ Budget']_vars

=============================================================================
