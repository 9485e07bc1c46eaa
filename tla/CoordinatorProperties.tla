----------------------- MODULE CoordinatorProperties -----------------------
(***************************************************************************)
(* What the coordinator is expected to guarantee.                          *)
(***************************************************************************)
EXTENDS Coordinator

(***************************************************************************)
(* Type invariant: every variable stays in the range its C++ type and the  *)
(* messages of protocol.hpp give it.                                       *)
(***************************************************************************)
TypeOK ==
  /\ authority \in AuthorityState
  /\ entries \in Seq(Events)
  /\ index \in [EntryIds -> Nat]
  /\ in_flight \in SUBSET Requests
  /\ queue \in Seq(WorkItem)
  /\ acct \in [pc : AcctPc, conn : Conns \cup {NoConn}, worker : Workers \cup {NoWorker},
               epoch : Nat, accounting_generation : Nat]
  /\ acct.pc = "publish" => acct.conn \in Conns
  /\ registered \in [Conns -> BOOLEAN]
  /\ conn_worker \in [Conns -> Workers \cup {NoWorker}]
  /\ reader \in [Conns -> {"none", "reading", "done"}]
  /\ inbox \in [Conns -> Seq(ToCoordinator)]
  /\ outbox \in [Conns -> Seq(ToWorker)]
  /\ wpc \in [Conns -> {"new", "registering", "ready", "waiting", "gone"}]
  /\ pending \in [Conns -> SUBSET Events]
  /\ view \in [Conns -> [epoch : Nat, accounting_generation : Nat]]
  /\ sent \in [Conns -> Nat]
  /\ api \in Nat

-----------------------------------------------------------------------------
(* The ledger *)

(***************************************************************************)
(* ledger.hpp, append and find: the index points at every stored entry and *)
(* at nothing else, so an id is stored at most once and find(id) returns   *)
(* the entry with that id.                                                 *)
(***************************************************************************)
IndexAgrees ==
  /\ \A i \in 1..Len(entries) : index[entries[i].id] = i
  /\ \A x \in EntryIds : index[x] # 0 => index[x] \in 1..Len(entries) /\ entries[index[x]].id = x

(***************************************************************************)
(* The coordinator's ledger implements the append-only ledger: no handler, *)
(* reader or public operation ever changes, removes, reorders or repeats a *)
(* stored entry.                                                           *)
(***************************************************************************)
Abstract == INSTANCE AppendOnlyLedger WITH Entry <- Events, log <- entries
ImplementsAppendOnlyLedger == Abstract!Spec

(***************************************************************************)
(* "rejected before it can mutate current totals" (ARCHITECTURE.md), seen  *)
(* in the ledger: the stored entries carry non-decreasing epochs, none     *)
(* later than the current one, and an accounting generation that belongs   *)
(* to the epoch.  A worker's event of an earlier epoch is never stored     *)
(* behind one of a later epoch, whatever the order the threads ran in.     *)
(***************************************************************************)
EpochOrder ==
  \A i \in 1..Len(entries) :
    /\ entries[i].accounting_generation = entries[i].epoch
    /\ entries[i].epoch <= authority.epoch
    /\ \A j \in i..Len(entries) : entries[i].epoch <= entries[j].epoch

(***************************************************************************)
(* in_flight_ holds "requests with an open RequestStart" (coordinator.hpp):*)
(* exactly the requests that the ledger shows started and not ended since. *)
(***************************************************************************)
OpenInLedger(r) ==
  \E i \in 1..Len(entries) :
    /\ entries[i].request = r
    /\ entries[i].event_kind = "RequestStart"
    /\ \A j \in i..Len(entries) : entries[j].request = r => entries[j].event_kind # "RequestEnd"

InFlightMatchesLedger == in_flight = {r \in Requests : OpenInLedger(r)}

-----------------------------------------------------------------------------
(* The protocol with the workers *)

Count(s, Test(_)) == Cardinality({k \in 1..Len(s) : Test(s[k])})

(***************************************************************************)
(* An EventAck carries no event id (protocol.hpp): a worker takes it for   *)
(* the answer to the event it sent last.  What it then believes is true:   *)
(* after Accepted or Duplicate the ledger holds exactly that event, after  *)
(* DuplicateConflict it holds another one under the same id.               *)
(***************************************************************************)
AckMatchesLedger ==
  \A c \in Conns : \A k \in 1..Len(outbox[c]) : \A e \in pending[c] :
    outbox[c][k].type = "EventAck" =>
      /\ outbox[c][k].status \in {"Accepted", "Duplicate"} =>
           index[e.id] # 0 /\ entries[index[e.id]] = e
      /\ outbox[c][k].status = "DuplicateConflict" =>
           index[e.id] # 0 /\ entries[index[e.id]] # e

(***************************************************************************)
(* A waiting worker's event is in exactly one place: its frame unread, in  *)
(* the queue, or answered.  No event is dropped or handled twice between   *)
(* the reader and the accounting thread, and a worker that does not wait   *)
(* has none.                                                               *)
(***************************************************************************)
OneAnswerPerEvent ==
  \A c \in Conns : wpc[c] # "gone" =>
      Count(inbox[c], LAMBDA m : m.type = "EventSubmit")
    + Count(queue, LAMBDA w : w.kind = "Event" /\ w.conn = c)
    + Count(outbox[c], LAMBDA m : m.type = "EventAck")
    = IF wpc[c] = "waiting" THEN 1 ELSE 0

(***************************************************************************)
(* The worker never meets the "unexpected message" exit of its receive     *)
(* loop, nor the "registration rejected" one: the first frame it gets is   *)
(* the RegisterAck, though Rolls are sent to it from the moment it counts  *)
(* as registered, and no second one follows.                               *)
(***************************************************************************)
NoUnexpectedMessage ==
  \A c \in Conns :
    /\ (wpc[c] = "registering" /\ outbox[c] # << >>) => Head(outbox[c]).type = "RegisterAck"
    /\ wpc[c] \in {"ready", "waiting"} =>
         \A k \in 1..Len(outbox[c]) : outbox[c][k].type \in {"Roll", "EventAck"}

(***************************************************************************)
(* What a worker has been told about the epoch never goes backwards,       *)
(* although the epoch is read under the lock and sent after its release.   *)
(***************************************************************************)
ViewNeverRegresses ==
  [][\A c \in Conns :
       /\ view'[c].epoch >= view[c].epoch
       /\ view'[c].accounting_generation >= view[c].accounting_generation]_view

(***************************************************************************)
(* read_loop and handle_worker_lost: the report of a lost connection comes *)
(* behind everything of that connection that could be read, and nothing is *)
(* read from it later: an event that the lost worker had in flight was     *)
(* handled before the epoch is rolled, or never will be.                   *)
(***************************************************************************)
LossIsLast ==
  \A k \in 1..Len(queue) : queue[k].kind = "WorkerLost" =>
    /\ \A j \in (k + 1)..Len(queue) : queue[j].conn # queue[k].conn
    /\ RecvFails(queue[k].conn)

(***************************************************************************)
(* The last epoch sent to a worker.                                        *)
(***************************************************************************)
Told(c) ==
  LET K == {k \in 1..Len(outbox[c]) : outbox[c][k].type \in {"RegisterAck", "Roll"}}
  IN  IF K = {} THEN view[c].epoch
      ELSE outbox[c][CHOOSE k \in K : \A j \in K : j <= k].epoch

(***************************************************************************)
(* handle_worker_lost sends the new epoch to every registered worker other *)
(* than the lost one: whenever the accounting thread is idle, a connected  *)
(* worker none of whose connections has been given up by its reader has    *)
(* been told the current epoch, whoever else was lost and in what order.   *)
(* (advance_epoch called from outside tells nobody.)                       *)
(***************************************************************************)
SurvivorsTold ==
  (acct.pc = "idle" /\ api = 0) =>
    \A c \in Conns :
      (/\ registered[c]
       /\ wpc[c] # "gone"
       /\ \A d \in Conns : WorkerOf[d] = WorkerOf[c] => reader[d] # "done")
      => Told(c) = authority.epoch

-----------------------------------------------------------------------------
(* Progress *)

(***************************************************************************)
(* Every worker that waits for an acknowledgement gets it, unless it or    *)
(* the coordinator dies first, or the event was too large to be received.  *)
(***************************************************************************)
EventAnswered ==
  \A c \in Conns :
    wpc[c] \in {"registering", "waiting"}
      ~> (wpc[c] \in {"ready", "gone"} \/ ~Running \/ pending[c] \cap Oversize # {})

(***************************************************************************)
(* A worker whose registration has been published and that then goes away, *)
(* or sends a frame that is refused, makes the epoch advance.              *)
(***************************************************************************)
PublishedLossRolls ==
  \A c \in Conns : \A n \in 1..(1 + Cardinality(Conns) + MaxApi) :
    (/\ registered[c] /\ reader[c] = "reading" /\ authority.epoch = n
     /\ wpc[c] = "gone" \/ pending[c] \cap Oversize # {})
      ~> (authority.epoch > n \/ ~Running)

-----------------------------------------------------------------------------
(* Statements of the documentation that the code does not keep *)

(***************************************************************************)
(* README.md: "A stale attempt completion never adds cost to the current   *)
(* request": work stored for a request belongs to the attempt of the last  *)
(* RequestStart stored before it.                                          *)
(***************************************************************************)
SupersededAttemptFenced ==
  api = 0 =>
    \A i, k \in 1..Len(entries) :
      (/\ i < k
       /\ entries[i].request = entries[k].request
       /\ entries[i].event_kind = "RequestStart"
       /\ \A j \in (i + 1)..k : entries[j].request = entries[k].request
                                  => entries[j].event_kind # "RequestStart")
      => entries[k].attempt = entries[i].attempt

(***************************************************************************)
(* coordinator.hpp: the coordinator "rolls authority when a worker is      *)
(* lost": the connection of a worker drops, then the epoch advances or the *)
(* coordinator never takes the worker for registered.                      *)
(***************************************************************************)
LossRollsAuthority ==
  \A c \in Conns : \A n \in 1..(1 + Cardinality(Conns) + MaxApi) :
    (reader[c] = "reading" /\ wpc[c] = "gone" /\ authority.epoch = n)
      ~> (authority.epoch > n \/ ~Running \/ [](~registered[c]))

=============================================================================
