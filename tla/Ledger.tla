------------------------------- MODULE Ledger -------------------------------
(***************************************************************************)
(* The append-only ledger (ledger.hpp): the stored entries in order, the   *)
(* index from an entry's id to its position, and append.  append holds the *)
(* ledger's mutex from its first to its last line and so is one step.      *)
(*                                                                         *)
(* The operators take the ledger as the pair of values (log, idx), so that *)
(* the coordinator applies them to its ledger and recovery to the one it   *)
(* rebuilds.  attached is the authority the ledger points to: {} for a     *)
(* null pointer, {s} for the state s.                                      *)
(***************************************************************************)
EXTENDS Authority, Sequences

AppendStatus == {"Accepted", "Duplicate", "DuplicateConflict", "Stale", "Invalid"}

(***************************************************************************)
(* Finite, not negative for a physical resource, whole for a count.        *)
(***************************************************************************)
content_is_valid(e) ==
  /\ e.quantity # NonFinite
  /\ e.resource_kind \in PhysicalResources => e.quantity >= 0
  /\ e.unit = "Count" => e.quantity % 2 = 0

(***************************************************************************)
(* Mutant of append_status: a known id is a duplicate whatever its content. *)
(***************************************************************************)
StatusById(e, attached, log, idx) ==
  IF ~content_is_valid(e) THEN "Invalid"
  ELSE IF \E s \in attached : ~validate_authority(e, s) THEN "Stale"
  ELSE IF idx[e.id] = 0 THEN "Accepted"
  ELSE "Duplicate"

append_status(e, attached, log, idx) ==
  IF ~content_is_valid(e) THEN "Invalid"
  ELSE IF \E s \in attached : ~validate_authority(e, s) THEN "Stale"
  ELSE IF idx[e.id] = 0 THEN "Accepted"
  ELSE IF log[idx[e.id]] = e THEN "Duplicate"
  ELSE "DuplicateConflict"

(***************************************************************************)
(* Mutants: a duplicate is stored again; the position indexed is that of   *)
(* the entry before, or the last valid subscript taken before push_back.   *)
(***************************************************************************)
StoreDuplicates(e, status, log) ==
  IF status \in {"Accepted", "Duplicate"} THEN Append(log, e) ELSE log

IndexOffByOne(e, status, log, idx) ==
  IF status = "Accepted" THEN [idx EXCEPT ![e.id] = Len(log)] ELSE idx

(***************************************************************************)
(* The ledger after append; only an accepted entry changes it.  idx[i] = 0 *)
(* says that index_ does not hold the id i.                                *)
(***************************************************************************)
LogAfter(e, status, log) ==
  IF status = "Accepted" THEN Append(log, e) ELSE log

IndexAfter(e, status, log, idx) ==
  IF status = "Accepted" THEN [idx EXCEPT ![e.id] = Len(log) + 1] ELSE idx

EmptyIndex == [i \in EntryIds |-> 0]
=============================================================================
