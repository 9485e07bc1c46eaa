-------------------------- MODULE SharedAllocation --------------------------
(***************************************************************************)
(* allocate_shared (batch.cpp): the attribution of a shared total to the   *)
(* members of a batch under a policy.  allocate_shared is the call; the    *)
(* steps are the branches of the function and the iterations of its loop.  *)
(*                                                                         *)
(* The code computes total * (w[i] / wsum) in doubles.  Here a total is a  *)
(* number of units, Unit of which make an amount of 1.0; the quotient is   *)
(* rounded to a grid of Grid parts, and shares are counted in parts of a   *)
(* unit, so that they do not add up to the total, as they do not in        *)
(* doubles.                                                                *)
(***************************************************************************)
EXTENDS Integers, Sequences, Functions

CONSTANTS
  ZeroId,      \* the id that is_zero
  Unit,        \* units that make an amount of 1.0
  Grid,        \* parts of a unit that a quotient is rounded to
  Negligible,  \* negative residuals smaller than it (in parts) are dropped: 1e-12
  Tolerance    \* reconciles() accepts less than it (in parts) for each unit: 1e-9

AttributionPolicy ==
  {"EqualShare", "ProportionalBytes", "ProportionalTokens", "ProportionalExecution",
   "ProportionalReserved", "DirectOwnership", "Weighted"}

ASSUME AllocationAssumption ==
  /\ Unit \in Nat \ {0} /\ Grid \in Nat \ {0}
  /\ Negligible \in Nat /\ Tolerance \in Nat \ {0} /\ Negligible <= Tolerance * Unit

VARIABLES
  total, members, weights, policy, direct_owner,  \* the arguments
  pc,         \* "idle" before the call, "start", "sharing" or "done"
  w,          \* the effective weights
  assigned,   \* the sum of the shares so far
  shares,     \* SharedAllocation::members, the shares only
  overhead    \* SharedAllocation::unallocated_overhead

arguments == <<total, members, weights, policy, direct_owner>>

allocation == <<arguments, pc, w, assigned, shares, overhead>>

-----------------------------------------------------------------------------
uniform_weights(n) == [i \in 1..n |-> 1]

\* The quotient x / y to the nearest part of the grid.
Rounded(x, y) == (2 * x * Grid + y) \div (2 * y)

AllocationInit ==
  /\ total = 0 /\ members = <<>> /\ weights = <<>>
  /\ policy = "EqualShare" /\ direct_owner = ZeroId
  /\ pc = "idle"
  /\ w = <<>> /\ shares = <<>>
  /\ assigned = 0 /\ overhead = 0

allocate_shared(t, ms, ws, p, owner) ==
  /\ pc = "idle"
  /\ total' = t /\ members' = ms /\ weights' = ws
  /\ policy' = p /\ direct_owner' = owner
  /\ pc' = "start"
  /\ UNCHANGED <<w, assigned, shares, overhead>>

\* No members: the result is returned as it was constructed.
NoMembers ==
  /\ pc = "start"
  /\ members = <<>>
  /\ pc' = "done"
  /\ UNCHANGED <<arguments, w, assigned, shares, overhead>>

Owner == IF direct_owner = ZeroId THEN Head(members) ELSE direct_owner

DirectOwnership ==
  /\ pc = "start"
  /\ members # <<>>
  /\ policy = "DirectOwnership"
  /\ shares' = [i \in DOMAIN members |-> IF members[i] = Owner THEN total * Grid ELSE 0]
  /\ overhead' = 0
  /\ pc' = "done"
  /\ UNCHANGED <<arguments, w, assigned>>

EffectiveWeights ==
  LET n == Len(members) IN
  IF policy = "EqualShare" \/ Len(weights) # n \/ SumFunction(weights) <= 0
  THEN uniform_weights(n) ELSE weights

BuildWeights ==
  /\ pc = "start"
  /\ members # <<>>
  /\ policy # "DirectOwnership"
  /\ w' = EffectiveWeights
  /\ pc' = "sharing"
  /\ UNCHANGED <<arguments, assigned, shares, overhead>>

\* A bug: the last member is charged what the others leave.
ShareOfTheRest(i) ==
  IF i = Len(members) THEN total * Grid - assigned ELSE total * Rounded(w[i], SumFunction(w))

Share(i) == total * Rounded(w[i], SumFunction(w))

ShareNext ==
  /\ pc = "sharing"
  /\ Len(shares) < Len(members)
  /\ LET s == Share(Len(shares) + 1) IN
     /\ shares' = Append(shares, s)
     /\ assigned' = assigned + s
  /\ UNCHANGED <<arguments, pc, w, overhead>>

\* A bug: the residual of the rounding is forgotten.
NoResidual == 0

Residual ==
  LET r == total * Grid - assigned IN
  IF r < 0 /\ r > -Negligible THEN 0 ELSE r

Finish ==
  /\ pc = "sharing"
  /\ Len(shares) = Len(members)
  /\ overhead' = Residual
  /\ pc' = "done"
  /\ UNCHANGED <<arguments, w, assigned, shares>>

AllocationNext == NoMembers \/ DirectOwnership \/ BuildWeights \/ ShareNext \/ Finish

\* One call with any amount, any weights and any number of members out of Ids.
AllocationCall(Ids) ==
  \E t \in Int, ms \in Seq(Ids), ws \in Seq(Int), p \in AttributionPolicy, owner \in Ids \cup {ZeroId} :
    allocate_shared(t, ms, ws, p, owner)

AllocationSpec(Ids) ==
  AllocationInit /\ [][AllocationCall(Ids) \/ AllocationNext]_allocation

-----------------------------------------------------------------------------
(* Properties *)

\* SharedAllocation::reconciles: the tolerance is relative to a positive total.
Scale == IF total > 0 THEN total ELSE Unit

reconciles ==
  LET diff == SumFunction(shares) + overhead - total * Grid IN
  diff < Tolerance * Scale /\ diff > -(Tolerance * Scale)

(***************************************************************************)
(* batch.hpp:7-9 for the proportional policies: whatever the weights, also *)
(* too few, too many or all zero, and however the quotients round, the     *)
(* shares of a non-empty batch plus the overhead equal the total.  Of a    *)
(* total so small that 1e-12 is more than 1e-9 of it this is not claimed:  *)
(* a residual is dropped by its size, and accepted relative to the total.  *)
(***************************************************************************)
ProportionalReconciles ==
  pc = "done" /\ members # <<>> /\ policy # "DirectOwnership" /\ Negligible <= Tolerance * Scale
    => reconciles

(***************************************************************************)
(* Under a proportional policy a member with a smaller weight never pays   *)
(* more than one with a larger weight, and equal weights pay the same:     *)
(* the rounding residual goes to nobody.                                   *)
(***************************************************************************)
SharesFollowWeights ==
  pc = "done" /\ policy # "DirectOwnership" =>
    \A i, j \in DOMAIN members : w[i] <= w[j] => shares[i] <= shares[j]

=============================================================================
