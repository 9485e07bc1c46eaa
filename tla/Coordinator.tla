---------------------------- MODULE Coordinator ----------------------------
(***************************************************************************)
(* The coordinator (coordinator.cpp) while it runs, with the worker        *)
(* processes that talk to it (tools/iledger_worker.cpp).                   *)
(*                                                                         *)
(* Threads.  One reader per connection turns frames into work items; one   *)
(* accounting thread takes the items off the queue and owns the ledger,    *)
(* the authority and the registrations; any thread may call the public     *)
(* operations advance_epoch, set_request_authority and enqueue_event.      *)
(* A section under state_mu_ is one step.  What the accounting thread does *)
(* between two such sections is the value of acct.                         *)
(*                                                                         *)
(* A worker process makes one connection, so a connection c also names an  *)
(* incarnation of worker WorkerOf[c], with boot id BootOf[c].              *)
(***************************************************************************)
EXTENDS Ledger, FiniteSets

CONSTANTS
  Conns,      \* connections, one per worker incarnation
  WorkerOf,   \* the worker id that the process behind a connection has
  BootOf,     \* its boot id; numbered in the order the processes are started
  NoConn,     \* the null connection of an item made by enqueue_event
  NoWorker,   \* WorkerId{}, the worker of a connection not yet registered
  Events,     \* the events that scripts and in-process callers submit
  Oversize,   \* those of them whose frame is longer than recv_message takes
  MaxEvents,  \* bound on the events of one worker process
  MaxApi      \* bound on the calls of public operations

ASSUME CoordinatorAssumption ==
  /\ Boots \subseteq Nat
  /\ WorkerOf \in [Conns -> Workers]
  /\ BootOf \in [Conns -> Boots]
  /\ NoConn \notin Conns
  /\ NoWorker \notin Workers
  /\ Absent \notin Boots
  /\ Events \subseteq LedgerEntry
  /\ Oversize \subseteq Events
  /\ MaxEvents \in Nat
  /\ MaxApi \in Nat

VARIABLES
  authority,    \* authority_
  entries,      \* ledger_.entries_
  index,        \* ledger_.index_
  in_flight,    \* in_flight_
  queue,        \* queue_
  acct,         \* what the accounting thread is in the middle of
  registered,   \* Conn::registered
  conn_worker,  \* Conn::worker
  reader,       \* the reader thread of each connection
  inbox,        \* frames sent by the worker and not yet read
  outbox,       \* frames sent to the worker and not yet read
  wpc,          \* where each worker process is
  pending,      \* the event a worker waits on: a set of at most one
  view,         \* the epoch and accounting generation a worker knows
  sent,         \* number of events each worker process has submitted
  api           \* number of public operations called

ledgerVars == <<authority, entries, index, in_flight>>
connVars == <<registered, conn_worker>>
workerVars == <<wpc, pending, view, sent>>
vars == <<ledgerVars, queue, acct, connVars, reader, inbox, outbox, workerVars, api>>

(***************************************************************************)
(* The messages of protocol.hpp, by the side that sends them.              *)
(***************************************************************************)
ToCoordinator == [type : {"Register"}] \cup [type : {"EventSubmit"}, entry : Events]

ToWorker ==
  [type : {"RegisterAck", "Roll"}, epoch : Nat, accounting_generation : Nat] \cup
  [type : {"EventAck"}, status : AppendStatus]

WorkItem ==
  [kind : {"Register"}, conn : Conns] \cup
  [kind : {"Event"}, conn : Conns \cup {NoConn}, entry : Events] \cup
  [kind : {"WorkerLost"}, conn : Conns, worker : Workers \cup {NoWorker}]

AcctPc == {"idle", "publish", "roll", "send", "crashed"}
Idle ==
  [pc |-> "idle", conn |-> NoConn, worker |-> NoWorker, epoch |-> 0, accounting_generation |-> 0]

Init ==
  /\ authority = InitialAuthority
  /\ entries = << >>
  /\ index = EmptyIndex
  /\ in_flight = {}
  /\ queue = << >>
  /\ acct = Idle
  /\ registered = [c \in Conns |-> FALSE]
  /\ conn_worker = [c \in Conns |-> NoWorker]
  /\ reader = [c \in Conns |-> "none"]
  /\ inbox = [c \in Conns |-> << >>]
  /\ outbox = [c \in Conns |-> << >>]
  /\ wpc = [c \in Conns |-> "new"]
  /\ pending = [c \in Conns |-> {}]
  /\ view = [c \in Conns |-> [epoch |-> 0, accounting_generation |-> 0]]
  /\ sent = [c \in Conns |-> 0]
  /\ api = 0

(***************************************************************************)
(* The coordinator process is alive.                                       *)
(***************************************************************************)
Running == acct.pc # "crashed"

(***************************************************************************)
(* Mutants of Delivered: a send that is retried although it succeeded; a   *)
(* send that gives up when the peer has not read the previous frame.       *)
(***************************************************************************)
DeliveredTwice(c, m) ==
  [outbox EXCEPT ![c] = IF wpc[c] = "gone" THEN @ ELSE @ \o <<m, m>>]

DeliveredIfDrained(c, m) ==
  [outbox EXCEPT ![c] = IF wpc[c] = "gone" \/ @ # << >> THEN @ ELSE Append(@, m)]

(***************************************************************************)
(* send_message to the peer of c: an error (the peer has gone) is ignored  *)
(* by every caller.                                                        *)
(***************************************************************************)
Delivered(c, m) ==
  [outbox EXCEPT ![c] = IF wpc[c] = "gone" THEN @ ELSE Append(@, m)]

-----------------------------------------------------------------------------
(* Worker processes *)

(***************************************************************************)
(* A process starts, connects, is accepted (the connection is recorded and *)
(* its reader started) and sends Register.  A worker is restarted only     *)
(* after its previous process has gone.                                    *)
(***************************************************************************)
Connect(c) ==
  /\ Running
  /\ wpc[c] = "new"
  /\ \A d \in Conns : (WorkerOf[d] = WorkerOf[c] /\ BootOf[d] < BootOf[c]) => wpc[d] = "gone"
  /\ wpc' = [wpc EXCEPT ![c] = "registering"]
  /\ inbox' = [inbox EXCEPT ![c] = Append(@, [type |-> "Register"])]
  /\ reader' = [reader EXCEPT ![c] = "reading"]
  /\ UNCHANGED <<ledgerVars, queue, acct, connVars, outbox, pending, view, sent, api>>

ReceiveRegisterAck(c) ==
  /\ wpc[c] = "registering"
  /\ outbox[c] # << >>
  /\ Head(outbox[c]).type = "RegisterAck"
  /\ wpc' = [wpc EXCEPT ![c] = "ready"]
  /\ view' = [view EXCEPT ![c] =
                [epoch |-> Head(outbox[c]).epoch,
                 accounting_generation |-> Head(outbox[c]).accounting_generation]]
  /\ outbox' = [outbox EXCEPT ![c] = Tail(@)]
  /\ UNCHANGED <<ledgerVars, queue, acct, connVars, reader, inbox, pending, sent, api>>

(***************************************************************************)
(* The next entry of the script is sent.  encode_entry refuses an entry    *)
(* whose content is invalid, and the process then exits (Disconnect).      *)
(***************************************************************************)
Submit(c, e) ==
  /\ wpc[c] = "ready"
  /\ sent[c] < MaxEvents
  /\ content_is_valid(e)
  /\ wpc' = [wpc EXCEPT ![c] = "waiting"]
  /\ pending' = [pending EXCEPT ![c] = {e}]
  /\ sent' = [sent EXCEPT ![c] = @ + 1]
  /\ inbox' = [inbox EXCEPT ![c] = Append(@, [type |-> "EventSubmit", entry |-> e])]
  /\ UNCHANGED <<ledgerVars, queue, acct, connVars, reader, outbox, view, api>>

(***************************************************************************)
(* A worker reads only while it waits for an acknowledgement; a Roll that  *)
(* comes first updates what it knows.                                      *)
(***************************************************************************)
ReceiveRoll(c) ==
  /\ wpc[c] = "waiting"
  /\ outbox[c] # << >>
  /\ Head(outbox[c]).type = "Roll"
  /\ view' = [view EXCEPT ![c] =
                [epoch |-> Head(outbox[c]).epoch,
                 accounting_generation |-> Head(outbox[c]).accounting_generation]]
  /\ outbox' = [outbox EXCEPT ![c] = Tail(@)]
  /\ UNCHANGED <<ledgerVars, queue, acct, connVars, reader, inbox, wpc, pending, sent, api>>

ReceiveEventAck(c) ==
  /\ wpc[c] = "waiting"
  /\ outbox[c] # << >>
  /\ Head(outbox[c]).type = "EventAck"
  /\ wpc' = [wpc EXCEPT ![c] = "ready"]
  /\ pending' = [pending EXCEPT ![c] = {}]
  /\ outbox' = [outbox EXCEPT ![c] = Tail(@)]
  /\ UNCHANGED <<ledgerVars, queue, acct, connVars, reader, inbox, view, sent, api>>

(***************************************************************************)
(* The process exits or is killed.  What it sent may still be read, or is  *)
(* lost when the connection is reset.                                      *)
(***************************************************************************)
Disconnect(c) ==
  /\ wpc[c] \in {"registering", "ready", "waiting"}
  /\ wpc' = [wpc EXCEPT ![c] = "gone"]
  /\ pending' = [pending EXCEPT ![c] = {}]
  /\ outbox' = [outbox EXCEPT ![c] = << >>]
  /\ \/ UNCHANGED inbox
     \/ /\ inbox[c] # << >>
        /\ inbox' = [inbox EXCEPT ![c] = << >>]
  /\ UNCHANGED <<ledgerVars, queue, acct, connVars, reader, view, sent, api>>

-----------------------------------------------------------------------------
(* Reader threads *)

(***************************************************************************)
(* recv_message refuses a frame that is too large, which send_message will *)
(* send.  What else it refuses no worker sends (NeverMisread of Framing).  *)
(***************************************************************************)
Refused(m) == m.type = "EventSubmit" /\ m.entry \in Oversize

(***************************************************************************)
(* read_loop, a frame arrives: it becomes a work item.                     *)
(***************************************************************************)
read_message(c) ==
  /\ Running
  /\ reader[c] = "reading"
  /\ inbox[c] # << >>
  /\ ~Refused(Head(inbox[c]))
  /\ LET m == Head(inbox[c])
     IN  queue' = Append(queue,
           IF m.type = "Register" THEN [kind |-> "Register", conn |-> c]
           ELSE [kind |-> "Event", conn |-> c, entry |-> m.entry])
  /\ inbox' = [inbox EXCEPT ![c] = Tail(@)]
  /\ UNCHANGED <<ledgerVars, acct, connVars, reader, outbox, workerVars, api>>

(***************************************************************************)
(* The values the reader may find in conn->registered and conn->worker.    *)
(* Both are plain fields.  While the accounting thread is writing them the *)
(* reader may find each one old or new.                                    *)
(***************************************************************************)
ConnSeen(c) ==
  IF acct.pc = "publish" /\ acct.conn = c
  THEN BOOLEAN \X {conn_worker[c], WorkerOf[c]}
  ELSE {<<registered[c], conn_worker[c]>>}

(***************************************************************************)
(* Mutant of read_failure: the loss is reported with frames still unread.  *)
(***************************************************************************)
ReportLossEarly(c) ==
  /\ Running
  /\ reader[c] = "reading"
  /\ wpc[c] = "gone"
  /\ reader' = [reader EXCEPT ![c] = "done"]
  /\ \E seen \in ConnSeen(c) :
       queue' = IF seen[1] THEN Append(queue, [kind |-> "WorkerLost", conn |-> c, worker |-> seen[2]])
                ELSE queue
  /\ UNCHANGED <<ledgerVars, acct, connVars, inbox, outbox, workerVars, api>>

(***************************************************************************)
(* recv_message returns false: the peer has gone and left nothing unread,  *)
(* or the next frame is refused.                                           *)
(***************************************************************************)
RecvFails(c) ==
  \/ inbox[c] = << >> /\ wpc[c] = "gone"
  \/ inbox[c] # << >> /\ Refused(Head(inbox[c]))

(***************************************************************************)
(* read_loop, recv_message fails: the reader reports the worker lost and   *)
(* ends.  The socket stays open and the connection stays known, so that a  *)
(* live peer goes on waiting, and is still sent Rolls.                     *)
(***************************************************************************)
read_failure(c) ==
  /\ Running
  /\ reader[c] = "reading"
  /\ RecvFails(c)
  /\ reader' = [reader EXCEPT ![c] = "done"]
  /\ \E seen \in ConnSeen(c) :
       queue' = IF seen[1] THEN Append(queue, [kind |-> "WorkerLost", conn |-> c, worker |-> seen[2]])
                ELSE queue
  /\ UNCHANGED <<ledgerVars, acct, connVars, inbox, outbox, workerVars, api>>

-----------------------------------------------------------------------------
(* The accounting thread *)

(***************************************************************************)
(* accounting_loop takes the item at the head of the queue.                *)
(***************************************************************************)
Dequeue(kind) ==
  /\ acct.pc = "idle"
  /\ queue # << >>
  /\ Head(queue).kind = kind
  /\ queue' = Tail(queue)

(***************************************************************************)
(* handle_registration up to the end of its section under state_mu_ ...    *)
(***************************************************************************)
handle_registration ==
  /\ Dequeue("Register")
  /\ LET c == Head(queue).conn
     IN  /\ authority' = [authority EXCEPT !.worker_boot[WorkerOf[c]] = BootOf[c]]
         /\ acct' = [Idle EXCEPT !.pc = "publish", !.conn = c,
                       !.epoch = authority.epoch,
                       !.accounting_generation = authority.accounting_generation]
  /\ UNCHANGED <<entries, index, in_flight, connVars, reader, inbox, outbox, workerVars, api>>

(***************************************************************************)
(* ... and the rest of it, with the epoch read there.                      *)
(***************************************************************************)
publish_registration ==
  /\ acct.pc = "publish"
  /\ conn_worker' = [conn_worker EXCEPT ![acct.conn] = WorkerOf[acct.conn]]
  /\ registered' = [registered EXCEPT ![acct.conn] = TRUE]
  /\ outbox' = Delivered(acct.conn,
                 [type |-> "RegisterAck", epoch |-> acct.epoch,
                  accounting_generation |-> acct.accounting_generation])
  /\ acct' = Idle
  /\ UNCHANGED <<ledgerVars, queue, reader, inbox, workerVars, api>>

(***************************************************************************)
(* What handle_event makes of the authority before it appends.             *)
(***************************************************************************)
AuthorityFor(e) ==
  IF e.event_kind = "RequestStart" THEN RequestAdopted(authority, e) ELSE authority

(***************************************************************************)
(* Mutant of InFlightAfter: the result of append is not looked at.         *)
(***************************************************************************)
InFlightWhateverStatus(e, status) ==
  CASE e.event_kind = "RequestStart" -> in_flight \cup {e.request}
    [] e.event_kind = "RequestEnd" -> in_flight \ {e.request}
    [] OTHER -> in_flight

InFlightAfter(e, status) ==
  IF status # "Accepted" THEN in_flight
  ELSE CASE e.event_kind = "RequestStart" -> in_flight \cup {e.request}
         [] e.event_kind = "RequestEnd" -> in_flight \ {e.request}
         [] OTHER -> in_flight

(***************************************************************************)
(* Mutant of handle_event: a duplicate is not answered.                    *)
(***************************************************************************)
DuplicateUnanswered ==
  /\ Dequeue("Event")
  /\ LET c == Head(queue).conn
         e == Head(queue).entry
         status == append_status(e, {AuthorityFor(e)}, entries, index)
     IN  /\ authority' = AuthorityFor(e)
         /\ entries' = LogAfter(e, status, entries)
         /\ index' = IndexAfter(e, status, entries, index)
         /\ in_flight' = InFlightAfter(e, status)
         /\ outbox' = IF status = "Duplicate" THEN outbox
                      ELSE Delivered(c, [type |-> "EventAck", status |-> status])
  /\ UNCHANGED <<acct, connVars, reader, inbox, workerVars, api>>

(***************************************************************************)
(* handle_event.  The acknowledgement of an item without a connection goes *)
(* through a null pointer: the process dies.                               *)
(***************************************************************************)
handle_event ==
  /\ Dequeue("Event")
  /\ LET c == Head(queue).conn
         e == Head(queue).entry
         status == append_status(e, {AuthorityFor(e)}, entries, index)
     IN  /\ authority' = AuthorityFor(e)
         /\ entries' = LogAfter(e, status, entries)
         /\ index' = IndexAfter(e, status, entries, index)
         /\ in_flight' = InFlightAfter(e, status)
         /\ \/ /\ c # NoConn
               /\ outbox' = Delivered(c, [type |-> "EventAck", status |-> status])
               /\ UNCHANGED acct
            \/ /\ c = NoConn
               /\ acct' = [Idle EXCEPT !.pc = "crashed"]
               /\ UNCHANGED outbox
  /\ UNCHANGED <<connVars, reader, inbox, workerVars, api>>

(***************************************************************************)
(* handle_worker_lost, its first section: every request in flight, of      *)
(* whatever worker, is rolled.                                             *)
(***************************************************************************)
handle_worker_lost ==
  /\ Dequeue("WorkerLost")
  /\ authority' = [authority EXCEPT !.request_rolled =
                     [r \in Requests |-> @[r] \/ r \in in_flight]]
  /\ acct' = [Idle EXCEPT !.pc = "roll", !.worker = Head(queue).worker]
  /\ UNCHANGED <<entries, index, in_flight, connVars, reader, inbox, outbox, workerVars, api>>

(***************************************************************************)
(* Its second section, the call of advance_epoch.                          *)
(***************************************************************************)
roll_epoch ==
  /\ acct.pc = "roll"
  /\ authority' = EpochAdvanced(authority)
  /\ acct' = [acct EXCEPT !.pc = "send"]
  /\ UNCHANGED <<entries, index, in_flight, queue, connVars, reader, inbox, outbox, workerVars, api>>

(***************************************************************************)
(* Mutants: the registered test is missing; the comparison with the lost   *)
(* worker is inverted; the epoch sent was never read.                      *)
(***************************************************************************)
SurvivesUnregistered(c) == conn_worker[c] # acct.worker

SurvivesInverted(c) == registered[c] /\ conn_worker[c] = acct.worker

UnreadRoll ==
  [type |-> "Roll", epoch |-> acct.epoch, accounting_generation |-> acct.accounting_generation]

(***************************************************************************)
(* Its end: the survivors are gathered and sent the epoch of that moment.  *)
(* A connection survives if it is registered and not of the lost worker.   *)
(***************************************************************************)
Survives(c) == registered[c] /\ conn_worker[c] # acct.worker

Roll ==
  [type |-> "Roll", epoch |-> authority.epoch,
   accounting_generation |-> authority.accounting_generation]

send_rolls ==
  /\ acct.pc = "send"
  /\ outbox' = [c \in Conns |-> IF Survives(c) THEN Delivered(c, Roll)[c] ELSE outbox[c]]
  /\ acct' = Idle
  /\ UNCHANGED <<ledgerVars, queue, connVars, reader, inbox, workerVars, api>>

-----------------------------------------------------------------------------
(* Public operations, called by any thread of the coordinator process *)

Call ==
  /\ Running
  /\ api < MaxApi
  /\ api' = api + 1

advance_epoch ==
  /\ Call
  /\ authority' = EpochAdvanced(authority)
  /\ UNCHANGED <<entries, index, in_flight, queue, acct, connVars, reader, inbox, outbox, workerVars>>

set_request_authority(e) ==
  /\ Call
  /\ authority' = RequestAdopted(authority, e)
  /\ UNCHANGED <<entries, index, in_flight, queue, acct, connVars, reader, inbox, outbox, workerVars>>

enqueue_event(e) ==
  /\ Call
  /\ queue' = Append(queue, [kind |-> "Event", conn |-> NoConn, entry |-> e])
  /\ UNCHANGED <<ledgerVars, acct, connVars, reader, inbox, outbox, workerVars>>

-----------------------------------------------------------------------------
WorkerNext ==
  \E c \in Conns :
    \/ Connect(c)
    \/ ReceiveRegisterAck(c)
    \/ \E e \in Events : Submit(c, e)
    \/ ReceiveRoll(c)
    \/ ReceiveEventAck(c)
    \/ Disconnect(c)

ReaderNext == \E c \in Conns : read_message(c) \/ read_failure(c)

AccountingNext ==
  \/ handle_registration
  \/ publish_registration
  \/ handle_event
  \/ handle_worker_lost
  \/ roll_epoch
  \/ send_rolls

ApiNext ==
  \/ advance_epoch
  \/ \E e \in Events : set_request_authority(e) \/ enqueue_event(e)

Next == WorkerNext \/ ReaderNext \/ AccountingNext \/ ApiNext

Spec == Init /\ [][Next]_vars

(***************************************************************************)
(* The operating system runs every thread that can run: each reader, the   *)
(* accounting thread, and a worker process that has a frame to read.       *)
(* Nobody is obliged to connect, submit, exit or call an operation.        *)
(***************************************************************************)
Fairness ==
  /\ WF_vars(AccountingNext)
  /\ \A c \in Conns :
       /\ WF_vars(read_message(c) \/ read_failure(c))
       /\ WF_vars(ReceiveRegisterAck(c) \/ ReceiveRoll(c) \/ ReceiveEventAck(c))

FairSpec == Spec /\ Fairness
=============================================================================
