----------------------------- MODULE Authority -----------------------------
(***************************************************************************)
(* The fence of the ledger: what the coordinator knows to be current       *)
(* (AuthorityState, authority_state.hpp) and the test every accounting     *)
(* event has to pass before it is stored (validate_authority).             *)
(*                                                                         *)
(* An accounting event is a record.  Its authority envelope                *)
(* (authority.hpp, AuthorityEnvelope) is flattened into it: the fields     *)
(* epoch, accounting_generation, worker_boot, request_generation, attempt  *)
(* and attempt_generation are those of e.authority.  The envelope's        *)
(* dispatch id and the entry's own attempt id are compared with nothing in *)
(* the code; they are part of the payload.                                 *)
(***************************************************************************)
EXTENDS Integers

CONSTANTS
  EntryIds,   \* ledger entry ids (128-bit, compared for equality only)
  Requests,   \* request ids
  Workers,    \* worker ids
  Boots,      \* worker boot ids, one per incarnation of a worker process
  Attempts,   \* attempt ids
  Payloads,   \* all the fields of an entry that no decision looks at
  NonFinite,  \* a quantity that is NaN or infinite
  Absent      \* a key that a std::map of the authority does not hold

(***************************************************************************)
(* Event kinds the coordinator tells apart; "Work" is any other kind.      *)
(***************************************************************************)
EventKinds == {"RequestStart", "RequestEnd", "Work"}

(***************************************************************************)
(* "Energy" stands for the eight physical resource kinds, "Generic" for    *)
(* the others; "Seconds" for every unit that may carry a fraction.         *)
(***************************************************************************)
PhysicalResources == {"Energy"}
ResourceKinds == PhysicalResources \cup {"Generic"}
Units == {"Count", "Seconds"}

(***************************************************************************)
(* A finite quantity is counted in halves of its unit: 2 is one, 1 is a    *)
(* half, -2 is minus one.                                                  *)
(***************************************************************************)
LedgerEntry ==
  [id : EntryIds, event_kind : EventKinds, request : Requests,
   worker : Workers, resource_kind : ResourceKinds, unit : Units,
   quantity : Int \cup {NonFinite}, payload : Payloads,
   epoch : Nat, accounting_generation : Nat, worker_boot : Boots,
   request_generation : Nat, attempt : Attempts, attempt_generation : Nat]

AuthorityState ==
  [epoch : Nat, accounting_generation : Nat,
   request_generation : [Requests -> Nat \cup {Absent}],
   current_attempt : [Requests -> Attempts \cup {Absent}],
   attempt_generation : [Requests -> Nat \cup {Absent}],
   worker_boot : [Workers -> Boots \cup {Absent}],
   request_rolled : [Requests -> BOOLEAN],
   enforce_request_scope : BOOLEAN]

(***************************************************************************)
(* Mutant of EpochCurrent: an event is stale only if its epoch is ahead.   *)
(***************************************************************************)
EpochNotAhead(e, s) ==
  e.epoch <= s.epoch /\ e.accounting_generation <= s.accounting_generation

EpochCurrent(e, s) ==
  e.epoch = s.epoch /\ e.accounting_generation = s.accounting_generation

(***************************************************************************)
(* TRUE when validate_authority answers Accept.  The verdicts that refuse  *)
(* an event differ only in the reason text of the acknowledgement.         *)
(***************************************************************************)
validate_authority(e, s) ==
  /\ EpochCurrent(e, s)
  /\ s.worker_boot[e.worker] # Absent
  /\ s.worker_boot[e.worker] = e.worker_boot
  /\ s.enforce_request_scope =>
       /\ s.request_rolled[e.request] => e.event_kind = "RequestStart"
       /\ s.request_generation[e.request] \in {Absent, e.request_generation}
       /\ s.current_attempt[e.request] \in {Absent, e.attempt}
       /\ s.attempt_generation[e.request] \in {Absent, e.attempt_generation}

(***************************************************************************)
(* The state of a coordinator that has just been constructed.              *)
(***************************************************************************)
InitialAuthority ==
  [epoch |-> 1, accounting_generation |-> 1,
   request_generation |-> [r \in Requests |-> Absent],
   current_attempt |-> [r \in Requests |-> Absent],
   attempt_generation |-> [r \in Requests |-> Absent],
   worker_boot |-> [w \in Workers |-> Absent],
   request_rolled |-> [r \in Requests |-> FALSE],
   enforce_request_scope |-> TRUE]

(***************************************************************************)
(* Mutant of EpochAdvanced: the epoch itself is forgotten.                 *)
(***************************************************************************)
GenerationAdvanced(s) == [s EXCEPT !.accounting_generation = @ + 1]

(***************************************************************************)
(* Coordinator::advance_epoch: both counters move together.                *)
(***************************************************************************)
EpochAdvanced(s) ==
  [s EXCEPT !.epoch = @ + 1, !.accounting_generation = @ + 1]

(***************************************************************************)
(* The four assignments made for a RequestStart, by handle_event and by    *)
(* set_request_authority alike: the request now belongs to the attempt     *)
(* that e names and is no longer rolled.                                   *)
(***************************************************************************)
RequestAdopted(s, e) ==
  [s EXCEPT !.request_generation[e.request] = e.request_generation,
            !.current_attempt[e.request] = e.attempt,
            !.attempt_generation[e.request] = e.attempt_generation,
            !.request_rolled[e.request] = FALSE]
=============================================================================
