------------------------- MODULE CoordinatorProofs -------------------------
(***************************************************************************)
(* Proofs about the coordinator, for any number of connections, events and *)
(* calls: its types, its ledger, and the loss of a worker, which is        *)
(* handled after all that the worker sent and announced to every worker    *)
(* that survives it.                                                       *)
(***************************************************************************)
EXTENDS CoordinatorProperties, TLAPS

-----------------------------------------------------------------------------
(* Sequences and channels *)

(***************************************************************************)
(* The elements of a sequence after one is appended: the earlier ones are  *)
(* where they were.                                                        *)
(***************************************************************************)
LEMMA PushedAt ==
  ASSUME NEW S, NEW q \in Seq(S), NEW w \in S
  PROVE  /\ Len(q) \in Nat /\ Len(Append(q, w)) = Len(q) + 1
         /\ \A k \in 1..Len(q) : Append(q, w)[k] = q[k]
         /\ Append(q, w)[Len(q) + 1] = w
  OBVIOUS

(***************************************************************************)
(* Appending to a channel that is not empty leaves its head.               *)
(***************************************************************************)
LEMMA HeadStays ==
  ASSUME NEW S, NEW q \in Seq(S), NEW w \in S, q # << >>
  PROVE  Append(q, w) # << >> /\ Head(Append(q, w)) = Head(q)
  OBVIOUS

(***************************************************************************)
(* The elements of a sequence after its head is taken.                     *)
(***************************************************************************)
LEMMA PoppedAt ==
  ASSUME NEW S, NEW q \in Seq(S), q # << >>
  PROVE  /\ Len(q) \in Nat \ {0} /\ Len(Tail(q)) = Len(q) - 1
         /\ Head(q) = q[1]
         /\ \A k \in 1..(Len(q) - 1) : k + 1 \in 1..Len(q) /\ Tail(q)[k] = q[k + 1]
  OBVIOUS

(***************************************************************************)
(* An element of T that is in a channel after another one was pushed was   *)
(* there before.                                                           *)
(***************************************************************************)
LEMMA PushedOther ==
  ASSUME NEW S, NEW q \in Seq(S), NEW w \in S, NEW T, w \notin T
  PROVE  \A k \in 1..Len(Append(q, w)) : Append(q, w)[k] \in T =>
           k \in 1..Len(q) /\ q[k] = Append(q, w)[k]
<1>1. /\ Len(q) \in Nat /\ Len(Append(q, w)) = Len(q) + 1
      /\ \A k \in 1..Len(q) : Append(q, w)[k] = q[k]
      /\ Append(q, w)[Len(q) + 1] = w
  BY PushedAt
<1>2. \A k \in 1..(Len(q) + 1) : k \in 1..Len(q) \/ k = Len(q) + 1  BY <1>1
<1> QED  BY <1>1, <1>2

Live(c) == wpc[c] # "gone"

EpochFrames == {m \in ToWorker : m.type \in {"RegisterAck", "Roll"}}
AckFrames == {m \in ToWorker : m.type = "EventAck"}
SubmitFrames == {m \in ToCoordinator : m.type = "EventSubmit"}
EventItems(c) == {w \in WorkItem : w.kind = "Event" /\ w.conn = c}

Publishing(c) == acct.pc = "publish" /\ acct.conn = c

-----------------------------------------------------------------------------
(* Types *)

(***************************************************************************)
(* The fields of an accounting event have the types of LedgerEntry.        *)
(***************************************************************************)
LEMMA EventFields ==
  ASSUME NEW e \in Events
  PROVE  /\ e.id \in EntryIds
         /\ e.request \in Requests
         /\ e.epoch \in Nat
         /\ e.request_generation \in Nat
         /\ e.attempt \in Attempts
         /\ e.attempt_generation \in Nat
  BY CoordinatorAssumption DEF LedgerEntry

(***************************************************************************)
(* set_request_authority leaves an AuthorityState.                         *)
(***************************************************************************)
LEMMA AdoptedType ==
  ASSUME NEW s \in AuthorityState, NEW e \in Events
  PROVE  RequestAdopted(s, e) \in AuthorityState
  BY EventFields, Zenon DEF AuthorityState, RequestAdopted

(***************************************************************************)
(* advance_epoch leaves an AuthorityState.                                 *)
(***************************************************************************)
LEMMA AdvancedType ==
  ASSUME NEW s \in AuthorityState
  PROVE  EpochAdvanced(s) \in AuthorityState
<1>1. s.epoch + 1 \in Nat /\ s.accounting_generation + 1 \in Nat
  BY DEF AuthorityState
<1>2. \A m, n \in Nat : [s EXCEPT !.epoch = m, !.accounting_generation = n] \in AuthorityState
  BY Zenon DEF AuthorityState
<1> QED  BY <1>1, <1>2, Zenon DEF EpochAdvanced

(***************************************************************************)
(* Ledger::append answers with an AppendStatus.                            *)
(***************************************************************************)
LEMMA StatusType ==
  ASSUME NEW e, NEW attached, NEW log, NEW idx
  PROVE  append_status(e, attached, log, idx) \in AppendStatus
  BY DEF append_status, AppendStatus

(***************************************************************************)
(* A frame is added to, or taken from, the channel of a connection.        *)
(***************************************************************************)
LEMMA ChannelType ==
  ASSUME NEW S, NEW ch \in [Conns -> Seq(S)], NEW c \in Conns
  PROVE  /\ \A m \in S : [ch EXCEPT ![c] = Append(@, m)] \in [Conns -> Seq(S)]
         /\ [ch EXCEPT ![c] = << >>] \in [Conns -> Seq(S)]
         /\ ch[c] # << >> => /\ Head(ch[c]) \in S
                            /\ [ch EXCEPT ![c] = Tail(@)] \in [Conns -> Seq(S)]
<1>1. ch[c] \in Seq(S)  OBVIOUS
<1>2. \A m \in S : Append(ch[c], m) \in Seq(S)  BY <1>1
<1>3. << >> \in Seq(S)  OBVIOUS
<1>4. ch[c] # << >> => Head(ch[c]) \in S /\ Tail(ch[c]) \in Seq(S)  BY <1>1
<1> QED  BY <1>2, <1>3, <1>4

(***************************************************************************)
(* Pushing an item to a queue, and taking one, keeps its type.             *)
(***************************************************************************)
LEMMA QueueType ==
  ASSUME NEW S, NEW q \in Seq(S)
  PROVE  /\ \A w \in S : Append(q, w) \in Seq(S)
         /\ q # << >> => Head(q) \in S /\ Tail(q) \in Seq(S)
  OBVIOUS

(***************************************************************************)
(* The initial state is well typed.                                        *)
(***************************************************************************)
LEMMA TypeInit == Init => TypeOK
  BY CoordinatorAssumption
  DEF Init, TypeOK, InitialAuthority, AuthorityState, EmptyIndex, Idle, AcctPc

(***************************************************************************)
(* Every step of the coordinator, its threads and its workers keeps the    *)
(* state well typed.                                                       *)
(***************************************************************************)
LEMMA TypeNext == TypeOK /\ [Next]_vars => TypeOK'
<1> SUFFICES ASSUME TypeOK, [Next]_vars PROVE TypeOK'
  OBVIOUS
<1> USE DEF ledgerVars, connVars, workerVars
<1>1. ASSUME NEW c \in Conns, Connect(c) PROVE TypeOK'
  <2>1. [type |-> "Register"] \in ToCoordinator  BY DEF ToCoordinator
  <2>2. inbox' \in [Conns -> Seq(ToCoordinator)]  BY <1>1, <2>1, ChannelType DEF TypeOK, Connect
  <2> QED  BY <1>1, <2>2, Zenon DEF TypeOK, Connect
<1>2. ASSUME NEW c \in Conns, ReceiveRegisterAck(c) PROVE TypeOK'
  <2>1. Head(outbox[c]) \in ToWorker /\ outbox' \in [Conns -> Seq(ToWorker)]
    BY <1>2, ChannelType DEF TypeOK, ReceiveRegisterAck
  <2>2. Head(outbox[c]).epoch \in Nat /\ Head(outbox[c]).accounting_generation \in Nat
    BY <1>2, <2>1 DEF ReceiveRegisterAck, ToWorker
  <2> QED  BY <1>2, <2>1, <2>2, Zenon DEF TypeOK, ReceiveRegisterAck
<1>3. ASSUME NEW c \in Conns, NEW e \in Events, Submit(c, e) PROVE TypeOK'
  <2>1. [type |-> "EventSubmit", entry |-> e] \in ToCoordinator  BY DEF ToCoordinator
  <2>2. inbox' \in [Conns -> Seq(ToCoordinator)]  BY <1>3, <2>1, ChannelType DEF TypeOK, Submit
  <2>3. sent' \in [Conns -> Nat]
    <3>1. sent[c] + 1 \in Nat  BY DEF TypeOK
    <3> QED  BY <1>3, <3>1 DEF TypeOK, Submit
  <2> QED  BY <1>3, <2>2, <2>3, Zenon DEF TypeOK, Submit
<1>4. ASSUME NEW c \in Conns, ReceiveRoll(c) PROVE TypeOK'
  <2>1. Head(outbox[c]) \in ToWorker /\ outbox' \in [Conns -> Seq(ToWorker)]
    BY <1>4, ChannelType DEF TypeOK, ReceiveRoll
  <2>2. Head(outbox[c]).epoch \in Nat /\ Head(outbox[c]).accounting_generation \in Nat
    BY <1>4, <2>1 DEF ReceiveRoll, ToWorker
  <2> QED  BY <1>4, <2>1, <2>2, Zenon DEF TypeOK, ReceiveRoll
<1>5. ASSUME NEW c \in Conns, ReceiveEventAck(c) PROVE TypeOK'
  <2>1. outbox' \in [Conns -> Seq(ToWorker)]
    BY <1>5, ChannelType DEF TypeOK, ReceiveEventAck
  <2> QED  BY <1>5, <2>1, Zenon DEF TypeOK, ReceiveEventAck
<1>6. ASSUME NEW c \in Conns, Disconnect(c) PROVE TypeOK'
  <2>1. outbox' \in [Conns -> Seq(ToWorker)]
    BY <1>6, ChannelType DEF TypeOK, Disconnect
  <2>2. inbox' \in [Conns -> Seq(ToCoordinator)]
    <3>1. inbox' = inbox \/ inbox' = [inbox EXCEPT ![c] = << >>]  BY <1>6 DEF Disconnect
    <3>2. [inbox EXCEPT ![c] = << >>] \in [Conns -> Seq(ToCoordinator)]
      BY ChannelType DEF TypeOK
    <3> QED  BY <3>1, <3>2, Zenon DEF TypeOK
  <2> QED  BY <1>6, <2>1, <2>2, Zenon DEF TypeOK, Disconnect
<1>7. ASSUME NEW c \in Conns, read_message(c) PROVE TypeOK'
  <2>1. Head(inbox[c]) \in ToCoordinator /\ inbox' \in [Conns -> Seq(ToCoordinator)]
    BY <1>7, ChannelType DEF TypeOK, read_message
  <2>2. \/ Head(inbox[c]).type = "Register"
        \/ Head(inbox[c]).type = "EventSubmit" /\ Head(inbox[c]).entry \in Events
    BY <2>1 DEF ToCoordinator
  <2>3. queue' \in Seq(WorkItem)
    <3>1. [kind |-> "Register", conn |-> c] \in WorkItem  BY DEF WorkItem
    <3>2. \A e \in Events : [kind |-> "Event", conn |-> c, entry |-> e] \in WorkItem
      BY DEF WorkItem
    <3> QED  BY <1>7, <2>2, <3>1, <3>2, QueueType DEF TypeOK, read_message
  <2> QED  BY <1>7, <2>1, <2>3, Zenon DEF TypeOK, read_message
<1>8. ASSUME NEW c \in Conns, read_failure(c) PROVE TypeOK'
  <2>1. PICK seen \in ConnSeen(c) :
          queue' = IF seen[1] THEN Append(queue, [kind |-> "WorkerLost", conn |-> c, worker |-> seen[2]])
                   ELSE queue
    BY <1>8 DEF read_failure
  <2>2. seen[2] \in Workers \cup {NoWorker}
    BY CoordinatorAssumption DEF TypeOK, ConnSeen
  <2>3. [kind |-> "WorkerLost", conn |-> c, worker |-> seen[2]] \in WorkItem
    BY <2>2 DEF WorkItem
  <2>4. queue' \in Seq(WorkItem)
    BY <2>1, <2>3, QueueType DEF TypeOK
  <2> QED  BY <1>8, <2>4, Zenon DEF TypeOK, read_failure
<1>9. CASE handle_registration
  <2>1. Head(queue) \in WorkItem /\ queue' \in Seq(WorkItem)
    BY <1>9, QueueType DEF TypeOK, handle_registration, Dequeue
  <2>2. Head(queue).conn \in Conns
    BY <1>9, <2>1 DEF handle_registration, Dequeue, WorkItem
  <2>3. authority' \in AuthorityState
    BY <1>9, <2>2, CoordinatorAssumption, Zenon DEF TypeOK, handle_registration, AuthorityState
  <2>4. authority.epoch \in Nat /\ authority.accounting_generation \in Nat
    BY DEF TypeOK, AuthorityState
  <2> QED  BY <1>9, <2>1, <2>2, <2>3, <2>4, Zenon DEF TypeOK, handle_registration, Idle, AcctPc
<1>10. CASE publish_registration
  <2>1. [type |-> "RegisterAck", epoch |-> acct.epoch,
         accounting_generation |-> acct.accounting_generation] \in ToWorker
    BY DEF TypeOK, ToWorker
  <2>2. outbox' \in [Conns -> Seq(ToWorker)]
    BY <1>10, <2>1, ChannelType DEF TypeOK, publish_registration, Delivered
  <2> QED  BY <1>10, <2>2, CoordinatorAssumption, Zenon DEF TypeOK, publish_registration, Idle, AcctPc
<1>11. CASE handle_event
  <2> DEFINE c == Head(queue).conn
             e == Head(queue).entry
             status == append_status(e, {AuthorityFor(e)}, entries, index)
  <2>1. Head(queue) \in WorkItem /\ queue' \in Seq(WorkItem)
    BY <1>11, QueueType DEF TypeOK, handle_event, Dequeue
  <2>2. c \in Conns \cup {NoConn} /\ e \in Events
    BY <1>11, <2>1 DEF handle_event, Dequeue, WorkItem
  <2>3. authority' \in AuthorityState
    BY <1>11, <2>2, AdoptedType DEF TypeOK, handle_event, AuthorityFor
  <2>4. entries' \in Seq(Events)
    BY <1>11, <2>2, QueueType DEF TypeOK, handle_event, LogAfter
  <2>5. index' \in [EntryIds -> Nat]
    <3>1. Len(entries) + 1 \in Nat  BY DEF TypeOK
    <3> QED  BY <1>11, <2>2, <3>1, Zenon DEF TypeOK, handle_event, IndexAfter
  <2>6. in_flight' \in SUBSET Requests
    BY <1>11, <2>2, EventFields DEF TypeOK, handle_event, InFlightAfter
  <2>7. outbox' \in [Conns -> Seq(ToWorker)]
    <3>1. [type |-> "EventAck", status |-> status] \in ToWorker
      BY StatusType DEF ToWorker
    <3>2. CASE c = NoConn
      BY <1>11, <3>2 DEF TypeOK, handle_event
    <3>3. CASE c # NoConn
      <4>1. outbox' = Delivered(c, [type |-> "EventAck", status |-> status])
        BY <1>11, <3>3 DEF handle_event
      <4>2. CASE wpc[c] = "gone"
        BY <4>1, <4>2, Zenon DEF TypeOK, Delivered
      <4>3. CASE wpc[c] # "gone"
        <5>1. outbox' = [outbox EXCEPT ![c] = Append(@, [type |-> "EventAck", status |-> status])]
          BY <4>1, <4>3 DEF Delivered
        <5> QED  BY <2>2, <3>1, <3>3, <5>1, ChannelType DEF TypeOK
      <4> QED  BY <4>2, <4>3
    <3> QED  BY <3>2, <3>3
  <2>8. acct' \in [pc : AcctPc, conn : Conns \cup {NoConn}, worker : Workers \cup {NoWorker},
                   epoch : Nat, accounting_generation : Nat]
        /\ (acct'.pc = "publish" => acct'.conn \in Conns)
    BY <1>11 DEF TypeOK, handle_event, Idle, AcctPc
  <2> QED
    BY <1>11, <2>1, <2>3, <2>4, <2>5, <2>6, <2>7, <2>8, Zenon DEF TypeOK, handle_event
<1>12. CASE handle_worker_lost
  <2>1. Head(queue) \in WorkItem /\ queue' \in Seq(WorkItem)
    BY <1>12, QueueType DEF TypeOK, handle_worker_lost, Dequeue
  <2>2. Head(queue).worker \in Workers \cup {NoWorker}
    BY <1>12, <2>1 DEF handle_worker_lost, Dequeue, WorkItem
  <2>3. authority' \in AuthorityState
    BY <1>12, Zenon DEF TypeOK, handle_worker_lost, AuthorityState
  <2> QED  BY <1>12, <2>1, <2>2, <2>3, Zenon DEF TypeOK, handle_worker_lost, Idle, AcctPc
<1>13. CASE roll_epoch
  <2>1. authority' \in AuthorityState  BY <1>13, AdvancedType DEF TypeOK, roll_epoch
  <2> QED  BY <1>13, <2>1, Zenon DEF TypeOK, roll_epoch, AcctPc
<1>14. CASE send_rolls
  <2>1. Roll \in ToWorker  BY DEF TypeOK, Roll, ToWorker, AuthorityState
  <2>2. ASSUME NEW c \in Conns PROVE Delivered(c, Roll) \in [Conns -> Seq(ToWorker)]
    BY <2>1, ChannelType DEF TypeOK, Delivered
  <2>3. outbox' \in [Conns -> Seq(ToWorker)]
    BY <1>14, <2>2 DEF TypeOK, send_rolls
  <2> QED  BY <1>14, <2>3 DEF TypeOK, send_rolls, Idle, AcctPc
<1>15. CASE advance_epoch
  <2>1. authority' \in AuthorityState  BY <1>15, AdvancedType DEF TypeOK, advance_epoch
  <2>2. api' \in Nat  BY <1>15 DEF TypeOK, advance_epoch, Call
  <2>3. UNCHANGED <<entries, index, in_flight, queue, acct, registered, conn_worker, reader, inbox, outbox,
                   wpc, pending, view, sent>>
    BY <1>15 DEF advance_epoch
  <2> QED  BY <2>1, <2>2, <2>3, Zenon DEF TypeOK
<1>16. ASSUME NEW e \in Events, set_request_authority(e) PROVE TypeOK'
  <2>1. authority' \in AuthorityState  BY <1>16, AdoptedType DEF TypeOK, set_request_authority
  <2>2. api' \in Nat  BY <1>16 DEF TypeOK, set_request_authority, Call
  <2>3. UNCHANGED <<entries, index, in_flight, queue, acct, registered, conn_worker, reader, inbox, outbox,
                   wpc, pending, view, sent>>
    BY <1>16 DEF set_request_authority
  <2> QED  BY <2>1, <2>2, <2>3, Zenon DEF TypeOK
<1>17. ASSUME NEW e \in Events, enqueue_event(e) PROVE TypeOK'
  <2>1. [kind |-> "Event", conn |-> NoConn, entry |-> e] \in WorkItem  BY DEF WorkItem
  <2>2. queue' \in Seq(WorkItem)  BY <1>17, <2>1, QueueType DEF TypeOK, enqueue_event
  <2>3. api' \in Nat  BY <1>17 DEF TypeOK, enqueue_event, Call
  <2>4. UNCHANGED <<authority, entries, index, in_flight, acct, registered, conn_worker, reader,
                   inbox, outbox,
                   wpc, pending, view, sent>>
    BY <1>17 DEF enqueue_event
  <2> QED  BY <2>2, <2>3, <2>4, Zenon DEF TypeOK
<1>18. CASE UNCHANGED vars
  BY <1>18 DEF TypeOK, vars
<1> QED
  BY <1>1, <1>2, <1>3, <1>4, <1>5, <1>6, <1>7, <1>8, <1>9, <1>10, <1>11, <1>12,
     <1>13, <1>14, <1>15, <1>16, <1>17, <1>18
  DEF Next, WorkerNext, ReaderNext, AccountingNext, ApiNext

(***************************************************************************)
(* No interleaving of workers, readers, the accounting thread and callers  *)
(* takes a variable of the coordinator out of its type.                    *)
(***************************************************************************)
THEOREM TypeCorrect == Spec => []TypeOK
  BY TypeInit, TypeNext, PTL DEF Spec

-----------------------------------------------------------------------------
(* The ledger *)

(***************************************************************************)
(* What handle_event does to the ledger when the event is accepted.        *)
(***************************************************************************)
Stored(e) ==
  /\ index[e.id] = 0
  /\ validate_authority(e, authority')
  /\ entries' = Append(entries, e)
  /\ index' = [index EXCEPT ![e.id] = Len(entries) + 1]
  /\ in_flight' = InFlightAfter(e, "Accepted")

(***************************************************************************)
(* Only an accepted event changes the ledger and in_flight_.               *)
(***************************************************************************)
LEMMA LedgerStep ==
  ASSUME TypeOK, [Next]_vars
  PROVE  \/ UNCHANGED <<entries, index, in_flight>>
         \/ \E e \in Events : Stored(e)
<1>1. CASE handle_event
  <2> DEFINE e == Head(queue).entry
             status == append_status(e, {AuthorityFor(e)}, entries, index)
  <2>1. e \in Events
    <3>1. Head(queue) \in WorkItem  BY <1>1, QueueType DEF TypeOK, handle_event, Dequeue
    <3> QED  BY <1>1, <3>1 DEF handle_event, Dequeue, WorkItem
  <2>2. CASE status = "Accepted"
    <3>1. index[e.id] = 0 /\ validate_authority(e, AuthorityFor(e))
      BY <2>2 DEF append_status
    <3>2. Stored(e)
      BY <1>1, <2>2, <3>1 DEF handle_event, LogAfter, IndexAfter, Stored
    <3> QED  BY <2>1, <3>2
  <2>3. CASE status # "Accepted"
    BY <1>1, <2>3 DEF handle_event, LogAfter, IndexAfter, InFlightAfter
  <2> QED  BY <2>2, <2>3
<1>2. CASE WorkerNext
  BY <1>2, Zenon DEF WorkerNext, ledgerVars, Connect, ReceiveRegisterAck, Submit, ReceiveRoll,
       ReceiveEventAck, Disconnect
<1>3. CASE ReaderNext
  BY <1>3 DEF ReaderNext, ledgerVars, read_message, read_failure
<1>4. CASE AccountingNext /\ ~handle_event
  BY <1>4 DEF AccountingNext, ledgerVars, handle_registration, publish_registration,
       handle_worker_lost, roll_epoch, send_rolls
<1>5. CASE ApiNext
  BY <1>5, Zenon DEF ApiNext, ledgerVars, advance_epoch, set_request_authority, enqueue_event
<1>6. CASE UNCHANGED vars
  BY <1>6 DEF vars, ledgerVars
<1> QED  BY <1>1, <1>2, <1>3, <1>4, <1>5, <1>6 DEF Next

(***************************************************************************)
(* The epoch and the accounting generation are only moved together, and    *)
(* only forwards.                                                          *)
(***************************************************************************)
LEMMA EpochStep ==
  ASSUME TypeOK, [Next]_vars
  PROVE  \/ /\ authority'.epoch = authority.epoch
            /\ authority'.accounting_generation = authority.accounting_generation
         \/ /\ authority'.epoch = authority.epoch + 1
            /\ authority'.accounting_generation = authority.accounting_generation + 1
<1>1. authority \in AuthorityState  BY DEF TypeOK
<1>2. authority' = EpochAdvanced(authority) =>
        /\ authority'.epoch = authority.epoch + 1
        /\ authority'.accounting_generation = authority.accounting_generation + 1
  BY <1>1 DEF EpochAdvanced, AuthorityState
<1>3. ASSUME NEW e, authority' = RequestAdopted(authority, e)
      PROVE  /\ authority'.epoch = authority.epoch
             /\ authority'.accounting_generation = authority.accounting_generation
  BY <1>1, <1>3 DEF RequestAdopted, AuthorityState
<1>4. CASE handle_event
  BY <1>3, <1>4 DEF handle_event, AuthorityFor
<1>5. CASE handle_registration
  BY <1>1, <1>5 DEF handle_registration, AuthorityState
<1>6. CASE handle_worker_lost
  BY <1>1, <1>6 DEF handle_worker_lost, AuthorityState
<1>7. CASE roll_epoch \/ advance_epoch
  BY <1>2, <1>7 DEF roll_epoch, advance_epoch
<1>8. CASE \E e \in Events : set_request_authority(e)
  BY <1>3, <1>8 DEF set_request_authority
<1>9. CASE UNCHANGED authority
  BY <1>9
<1> QED
  BY <1>4, <1>5, <1>6, <1>7, <1>8, <1>9, Zenon
  DEF Next, WorkerNext, ReaderNext, AccountingNext, ApiNext, vars, ledgerVars,
      Connect, ReceiveRegisterAck, Submit, ReceiveRoll, ReceiveEventAck, Disconnect,
      read_message, read_failure, publish_registration, send_rolls, enqueue_event

(***************************************************************************)
(* The ledger's invariant.  The last conjunct makes EpochOrder inductive:  *)
(* an accepted event carries the current epoch and the current accounting  *)
(* generation, which must be equal for the entry's own to be.              *)
(***************************************************************************)
LedgerInv ==
  /\ IndexAgrees
  /\ EpochOrder
  /\ InFlightMatchesLedger
  /\ authority.epoch = authority.accounting_generation

(***************************************************************************)
(* Ledger::append keeps the index and the entries in agreement, whatever   *)
(* its answer is.                                                          *)
(***************************************************************************)
LEMMA IndexStep ==
  ASSUME TypeOK, IndexAgrees, NEW e \in Events, Stored(e)
  PROVE  IndexAgrees'
<1> DEFINE n == Len(entries)
<1>1. n \in Nat /\ e.id \in EntryIds  BY EventFields DEF TypeOK
<1>2. /\ entries' = Append(entries, e)
      /\ Len(entries') = n + 1
      /\ \A i \in 1..n : entries'[i] = entries[i]
      /\ entries'[n + 1] = e
  <2>1. entries \in Seq(Events)  BY DEF TypeOK
  <2> QED  BY <2>1, PushedAt DEF Stored
<1>3. \A x \in EntryIds : index'[x] = IF x = e.id THEN n + 1 ELSE index[x]
  BY <1>1 DEF TypeOK, Stored
<1>4. \A i \in 1..n : entries[i].id \in EntryIds /\ entries[i].id # e.id
  <2> TAKE i \in 1..n
  <2>1. entries[i] \in Events  BY DEF TypeOK
  <2> QED  BY <2>1, EventFields DEF IndexAgrees, Stored
<1>5. ASSUME NEW i \in 1..(n + 1) PROVE index'[entries'[i].id] = i
  <2>1. CASE i = n + 1  BY <1>1, <1>2, <1>3, <2>1
  <2>2. CASE i \in 1..n  BY <1>2, <1>3, <1>4, <2>2 DEF IndexAgrees
  <2> QED  BY <1>1, <2>1, <2>2
<1>6. ASSUME NEW x \in EntryIds, index'[x] # 0
      PROVE  index'[x] \in 1..(n + 1) /\ entries'[index'[x]].id = x
  <2>1. CASE x = e.id  BY <1>1, <1>2, <1>3, <2>1
  <2>2. CASE x # e.id
    <3>1. index'[x] = index[x]  BY <1>3, <2>2
    <3>2. index[x] \in 1..n /\ entries[index[x]].id = x  BY <1>6, <3>1 DEF IndexAgrees
    <3> QED  BY <1>1, <1>2, <3>1, <3>2
  <2> QED  BY <2>1, <2>2
<1> QED  BY <1>2, <1>5, <1>6 DEF IndexAgrees

(***************************************************************************)
(* An accepted event has the current epoch, so that storing it keeps the   *)
(* entries ordered by epoch.                                               *)
(***************************************************************************)
LEMMA OrderStep ==
  ASSUME TypeOK, TypeOK', [Next]_vars, LedgerInv, NEW e \in Events, Stored(e),
         authority'.epoch = authority'.accounting_generation
  PROVE  EpochOrder'
<1> DEFINE n == Len(entries)
<1>1. /\ n \in Nat
      /\ Len(entries') = n + 1
      /\ \A i \in 1..n : entries'[i] = entries[i]
      /\ entries'[n + 1] = e
  <2>1. entries \in Seq(Events)  BY DEF TypeOK
  <2> QED  BY <2>1, PushedAt, SMTT(30) DEF Stored
<1>2. e.epoch = authority'.epoch /\ e.accounting_generation = e.epoch
  BY DEF Stored, validate_authority, EpochCurrent
<1>3. authority.epoch \in Nat /\ authority'.epoch \in Nat /\ authority.epoch <= authority'.epoch
  <2>1. authority.epoch \in Nat /\ authority'.epoch \in Nat  BY DEF TypeOK, AuthorityState
  <2> QED  BY <2>1, EpochStep
<1>4. \A i \in 1..n : entries[i].epoch \in Nat /\ entries[i].epoch <= authority.epoch
  <2>1. entries \in Seq(Events)  BY DEF TypeOK
  <2>2. \A i \in 1..n : entries[i] \in Events  BY <2>1
  <2> QED  BY <2>2, EventFields DEF LedgerInv, EpochOrder
<1>5. ASSUME NEW i \in 1..(n + 1)
      PROVE  /\ entries'[i].accounting_generation = entries'[i].epoch
             /\ entries'[i].epoch <= authority'.epoch
             /\ \A j \in i..(n + 1) : entries'[i].epoch <= entries'[j].epoch
  <2>1. CASE i = n + 1
    <3>1. \A j \in i..(n + 1) : j = n + 1  BY <1>1, <2>1
    <3> QED  BY <1>1, <1>2, <1>3, <2>1, <3>1
  <2>2. CASE i \in 1..n
    <3>1. entries'[i] = entries[i]  BY <1>1, <2>2
    <3>2. \A j \in i..n : entries'[j] = entries[j] /\ entries[i].epoch <= entries[j].epoch
      BY <1>1, <2>2 DEF LedgerInv, EpochOrder
    <3>3. entries[i].epoch <= e.epoch
      BY <1>2, <1>3, <1>4, <2>2
    <3>4. \A j \in i..(n + 1) : j \in i..n \/ j = n + 1  BY <1>1, <2>2
    <3>5. entries[i].accounting_generation = entries[i].epoch
      BY <2>2 DEF LedgerInv, EpochOrder
    <3> QED  BY <1>1, <1>2, <3>1, <3>2, <3>3, <3>4, <3>5
  <2> QED  BY <1>1, <2>1, <2>2
<1> QED  BY <1>1, <1>5 DEF EpochOrder

(***************************************************************************)
(* handle_event keeps in_flight_ the set of requests that the ledger shows *)
(* open.                                                                   *)
(***************************************************************************)
LEMMA InFlightStep ==
  ASSUME TypeOK, InFlightMatchesLedger, NEW e \in Events, Stored(e)
  PROVE  InFlightMatchesLedger'
<1> DEFINE n == Len(entries)
<1>1. /\ n \in Nat
      /\ Len(entries') = n + 1
      /\ \A i \in 1..n : entries'[i] = entries[i]
      /\ entries'[n + 1] = e
  <2>1. entries \in Seq(Events)  BY DEF TypeOK
  <2> QED  BY <2>1, PushedAt DEF Stored
<1>2. e.request \in Requests  BY EventFields
<1>3. ASSUME NEW r \in Requests, ~(r = e.request /\ e.event_kind \in {"RequestStart", "RequestEnd"})
      PROVE  OpenInLedger(r)' <=> OpenInLedger(r)
  <2>1. ASSUME OpenInLedger(r) PROVE OpenInLedger(r)'
    <3>1. PICK i \in 1..n :
            /\ entries[i].request = r
            /\ entries[i].event_kind = "RequestStart"
            /\ \A j \in i..n : entries[j].request = r => entries[j].event_kind # "RequestEnd"
      BY <2>1 DEF OpenInLedger
    <3>2. \A j \in i..(n + 1) : (j \in i..n /\ j \in 1..n) \/ j = n + 1  BY <1>1
    <3>3. \A j \in i..(n + 1) : entries'[j].request = r => entries'[j].event_kind # "RequestEnd"
      BY <1>1, <1>3, <3>1, <3>2
    <3>4. i \in 1..(n + 1)  BY <1>1
    <3> QED  BY <1>1, <3>1, <3>3, <3>4, Zenon DEF OpenInLedger
  <2>2. ASSUME OpenInLedger(r)' PROVE OpenInLedger(r)
    <3>1. PICK i \in 1..(n + 1) :
            /\ entries'[i].request = r
            /\ entries'[i].event_kind = "RequestStart"
            /\ \A j \in i..(n + 1) : entries'[j].request = r => entries'[j].event_kind # "RequestEnd"
      BY <1>1, <2>2 DEF OpenInLedger
    <3>2. i \in 1..n  BY <1>1, <1>3, <3>1
    <3>3. \A j \in i..n : j \in 1..n /\ j \in i..(n + 1)  BY <1>1, <3>2
    <3> QED  BY <1>1, <3>1, <3>2, <3>3 DEF OpenInLedger
  <2> QED  BY <2>1, <2>2
<1>4. ASSUME e.event_kind = "RequestStart" PROVE OpenInLedger(e.request)'
  <2>1. n + 1 \in 1..(n + 1) /\ \A j \in (n + 1)..(n + 1) : j = n + 1  BY <1>1
  <2> QED  BY <1>1, <1>4, <2>1 DEF OpenInLedger
<1>5. ASSUME e.event_kind = "RequestEnd" PROVE ~OpenInLedger(e.request)'
  <2>1. \A i \in 1..(n + 1) : n + 1 \in i..(n + 1)  BY <1>1
  <2> QED  BY <1>1, <1>5, <2>1 DEF OpenInLedger
<1>6. in_flight = {r \in Requests : OpenInLedger(r)}  BY DEF InFlightMatchesLedger
<1>7. in_flight' = {r \in Requests : OpenInLedger(r)'}
  <2>1. CASE e.event_kind = "RequestStart"
    BY <1>2, <1>3, <1>4, <1>6, <2>1 DEF Stored, InFlightAfter
  <2>2. CASE e.event_kind = "RequestEnd"
    BY <1>2, <1>3, <1>5, <1>6, <2>2 DEF Stored, InFlightAfter
  <2>3. CASE e.event_kind \notin {"RequestStart", "RequestEnd"}
    BY <1>3, <1>6, <2>3 DEF Stored, InFlightAfter
  <2> QED  BY <2>1, <2>2, <2>3
<1> QED  BY <1>7 DEF InFlightMatchesLedger

(***************************************************************************)
(* The inductive invariant holds initially.                                *)
(***************************************************************************)
LEMMA LedgerInit == Init => LedgerInv
<1> SUFFICES ASSUME Init PROVE LedgerInv
  OBVIOUS
<1>1. entries = << >> /\ Len(entries) = 0 /\ in_flight = {}  BY DEF Init
<1>2. \A x \in EntryIds : index[x] = 0  BY DEF Init, EmptyIndex
<1>3. IndexAgrees  BY <1>1, <1>2 DEF IndexAgrees
<1>4. EpochOrder  BY <1>1 DEF EpochOrder
<1>5. InFlightMatchesLedger  BY <1>1 DEF InFlightMatchesLedger, OpenInLedger
<1>6. authority.epoch = authority.accounting_generation  BY DEF Init, InitialAuthority
<1> QED  BY <1>3, <1>4, <1>5, <1>6 DEF LedgerInv

(***************************************************************************)
(* Every step of the coordinator preserves the inductive invariant: only   *)
(* handle_event stores, and the epoch only advances.                       *)
(***************************************************************************)
LEMMA LedgerNext == TypeOK /\ TypeOK' /\ LedgerInv /\ [Next]_vars => LedgerInv'
<1> SUFFICES ASSUME TypeOK, TypeOK', LedgerInv, [Next]_vars PROVE LedgerInv'
  OBVIOUS
<1>1. authority'.epoch = authority'.accounting_generation
  BY EpochStep DEF LedgerInv
<1>2. CASE UNCHANGED <<entries, index, in_flight>>
  <2>1. IndexAgrees'  BY <1>2 DEF LedgerInv, IndexAgrees
  <2>2. EpochOrder'
    <3>1. authority.epoch \in Nat /\ authority.epoch <= authority'.epoch
      <4>1. authority.epoch \in Nat  BY DEF TypeOK, AuthorityState
      <4> QED  BY <4>1, EpochStep
    <3>2. \A i \in 1..Len(entries) : entries[i].epoch \in Nat
      <4>1. \A i \in 1..Len(entries) : entries[i] \in Events  BY SMTT(30) DEF TypeOK
      <4> QED  BY <4>1, EventFields
    <3>3. authority'.epoch \in Nat  BY DEF TypeOK, AuthorityState
    <3>4. \A i \in 1..Len(entries) : entries[i].epoch <= authority'.epoch
      BY <3>1, <3>2, <3>3 DEF LedgerInv, EpochOrder
    <3> QED  BY <1>2, <3>4 DEF LedgerInv, EpochOrder
  <2>3. InFlightMatchesLedger'
    BY <1>2 DEF LedgerInv, InFlightMatchesLedger, OpenInLedger
  <2> QED  BY <1>1, <2>1, <2>2, <2>3 DEF LedgerInv
<1>3. CASE \E e \in Events : Stored(e)
  <2>1. PICK e \in Events : Stored(e)  BY <1>3
  <2>2. IndexAgrees'  BY <2>1, IndexStep DEF LedgerInv
  <2>3. EpochOrder'  BY <1>1, <2>1, OrderStep
  <2>4. InFlightMatchesLedger'  BY <2>1, InFlightStep DEF LedgerInv
  <2> QED  BY <1>1, <2>2, <2>3, <2>4 DEF LedgerInv
<1> QED  BY <1>2, <1>3, LedgerStep

(***************************************************************************)
(* The inductive invariant of the ledger holds in every reachable state:   *)
(* the index agrees, the entries are ordered by epoch, in_flight_ is exact *)
(* and epoch and accounting generation move together.                      *)
(***************************************************************************)
THEOREM LedgerInvariant == Spec => []LedgerInv
  BY TypeInit, TypeNext, LedgerInit, LedgerNext, PTL DEF Spec

(***************************************************************************)
(* Whatever is submitted, duplicated or raced, an id is stored at most     *)
(* once and find answers with the entry that has it.                       *)
(***************************************************************************)
THEOREM IndexAlwaysAgrees == Spec => []IndexAgrees
<1>1. LedgerInv => IndexAgrees  BY DEF LedgerInv
<1> QED  BY <1>1, LedgerInvariant, PTL

(***************************************************************************)
(* However worker losses, epoch changes and late events interleave, the    *)
(* ledger is ordered by epoch.                                             *)
(***************************************************************************)
THEOREM EpochsAreOrdered == Spec => []EpochOrder
<1>1. LedgerInv => EpochOrder  BY DEF LedgerInv
<1> QED  BY <1>1, LedgerInvariant, PTL

(***************************************************************************)
(* in_flight_ is always the set of requests open in the ledger.            *)
(***************************************************************************)
THEOREM InFlightIsExact == Spec => []InFlightMatchesLedger
<1>1. LedgerInv => InFlightMatchesLedger  BY DEF LedgerInv
<1> QED  BY <1>1, LedgerInvariant, PTL

(***************************************************************************)
(* The coordinator implements the append-only ledger: every step stores    *)
(* one new id at the end or leaves the stored entries alone.               *)
(***************************************************************************)
THEOREM Refinement == Spec => ImplementsAppendOnlyLedger
<1>1. Init => Abstract!Init
  BY DEF Init, Abstract!Init
<1>2. TypeOK /\ LedgerInv /\ [Next]_vars => [Abstract!Next]_entries
  <2> SUFFICES ASSUME TypeOK, LedgerInv, [Next]_vars PROVE [Abstract!Next]_entries
    OBVIOUS
  <2>1. CASE UNCHANGED <<entries, index, in_flight>>  BY <2>1
  <2>2. ASSUME NEW e \in Events, Stored(e) PROVE Abstract!Store(e)
    <3>1. \A i \in 1..Len(entries) : entries[i].id # e.id
      BY <2>2 DEF LedgerInv, IndexAgrees, Stored
    <3> QED  BY <2>2, <3>1 DEF Stored, Abstract!Store
  <2> QED  BY <2>1, <2>2, LedgerStep DEF Abstract!Next
<1> QED
  BY <1>1, <1>2, TypeCorrect, LedgerInvariant, PTL
  DEF Spec, ImplementsAppendOnlyLedger, Abstract!Spec

-----------------------------------------------------------------------------
(* What an answer says *)

(***************************************************************************)
(* What the ledger says about a stored id is never changed.                *)
(***************************************************************************)
LEMMA StoredForGood ==
  ASSUME TypeOK, LedgerInv, [Next]_vars, NEW x \in EntryIds, index[x] # 0
  PROVE  index'[x] = index[x] /\ entries'[index[x]] = entries[index[x]]
<1>1. index[x] \in 1..Len(entries)  BY DEF LedgerInv, IndexAgrees
<1>2. CASE UNCHANGED <<entries, index, in_flight>>  BY <1>2
<1>3. ASSUME NEW e \in Events, Stored(e)
      PROVE  index'[x] = index[x] /\ entries'[index[x]] = entries[index[x]]
  <2>1. x # e.id  BY <1>3 DEF Stored
  <2>2. index'[x] = index[x]  BY <1>3, <2>1 DEF Stored, TypeOK
  <2>3. entries \in Seq(Events)  BY DEF TypeOK
  <2> QED  BY <1>1, <1>3, <2>2, <2>3, PushedAt DEF Stored
<1> QED  BY <1>2, <1>3, LedgerStep

(***************************************************************************)
(* The status in an EventAck says truly whether the ledger holds e.        *)
(***************************************************************************)
TrueStatus(m, e) ==
  /\ m.status \in {"Accepted", "Duplicate"} => index[e.id] # 0 /\ entries[index[e.id]] = e
  /\ m.status = "DuplicateConflict" => index[e.id] # 0 /\ entries[index[e.id]] # e

(***************************************************************************)
(* A true status stays true.                                               *)
(***************************************************************************)
LEMMA StatusStaysTrue ==
  ASSUME TypeOK, LedgerInv, [Next]_vars, NEW m, NEW e \in Events, TrueStatus(m, e)
  PROVE  TrueStatus(m, e)'
<1>1. e.id \in EntryIds  BY EventFields
<1>2. index[e.id] # 0 => index'[e.id] = index[e.id] /\ entries'[index[e.id]] = entries[index[e.id]]
  BY <1>1, StoredForGood
<1> QED  BY <1>2 DEF TrueStatus

(***************************************************************************)
(* The status that handle_event answers with is true when it has appended. *)
(***************************************************************************)
LEMMA AnswerIsTrue ==
  ASSUME TypeOK, handle_event, NEW e \in Events, e = Head(queue).entry, NEW m,
         m.status = append_status(e, {AuthorityFor(e)}, entries, index)
  PROVE  TrueStatus(m, e)'
<1>1. e.id \in EntryIds  BY EventFields
<1>2. /\ entries' = LogAfter(e, m.status, entries)
      /\ index' = IndexAfter(e, m.status, entries, index)
  BY DEF handle_event
<1>3. entries \in Seq(Events) /\ index \in [EntryIds -> Nat] /\ Len(entries) \in Nat  BY DEF TypeOK
<1>4. CASE m.status = "Accepted"
  <2>1. index'[e.id] = Len(entries) + 1 /\ entries' = Append(entries, e)
    BY <1>1, <1>2, <1>3, <1>4 DEF LogAfter, IndexAfter
  <2>2. entries'[Len(entries) + 1] = e  BY <1>3, <2>1, PushedAt
  <2> QED  BY <1>3, <1>4, <2>1, <2>2, SMTT(30) DEF TrueStatus
<1>5. CASE m.status # "Accepted"
  <2>1. index' = index /\ entries' = entries  BY <1>2, <1>5 DEF LogAfter, IndexAfter
  <2>2. /\ m.status = "Duplicate" => index[e.id] # 0 /\ entries[index[e.id]] = e
        /\ m.status = "DuplicateConflict" => index[e.id] # 0 /\ entries[index[e.id]] # e
    BY Zenon DEF append_status
  <2> QED  BY <1>5, <2>1, <2>2, Zenon DEF TrueStatus
<1> QED  BY <1>4, <1>5

-----------------------------------------------------------------------------
(* The loss of a worker: its inductive invariants *)

(***************************************************************************)
(* A reader that has reported a loss is done, and recv_message would fail  *)
(* on its connection for ever.                                             *)
(***************************************************************************)
LossInv ==
  /\ \A c \in Conns : reader[c] = "done" => RecvFails(c)
  /\ \A c \in Conns : wpc[c] = "new" => reader[c] = "none"
  /\ \A k \in 1..Len(queue) : queue[k].kind = "WorkerLost" =>
       /\ reader[queue[k].conn] = "done"
       /\ \A j \in (k + 1)..Len(queue) : queue[j].conn # queue[k].conn

(***************************************************************************)
(* The last epoch in a channel is n, or v is when there is none: Told(c),  *)
(* said without a choice of the last frame.                                *)
(***************************************************************************)
LastEpochIs(s, v, n) ==
  \/ /\ \A k \in 1..Len(s) : s[k] \notin EpochFrames
     /\ v = n
  \/ \E k \in 1..Len(s) :
       /\ s[k] \in EpochFrames
       /\ s[k].epoch = n
       /\ \A j \in (k + 1)..Len(s) : s[j] \notin EpochFrames

NotGivenUp(c) == \A d \in Conns : WorkerOf[d] = WorkerOf[c] => reader[d] # "done"

(***************************************************************************)
(* The loss that is being handled is that of a connection whose reader has *)
(* given it up.                                                            *)
(***************************************************************************)
LostWorkerGivenUp ==
  /\ \A c \in Conns : conn_worker[c] = IF registered[c] THEN WorkerOf[c] ELSE NoWorker
  /\ \A k \in 1..Len(queue) : queue[k].kind = "WorkerLost" =>
       queue[k].worker \in {NoWorker, WorkerOf[queue[k].conn]}
  /\ acct.pc \in {"roll", "send"} =>
       acct.worker = NoWorker \/ \E d \in Conns : WorkerOf[d] = acct.worker /\ reader[d] = "done"

(***************************************************************************)
(* Whoever registered has been told the current epoch, except between the  *)
(* advance of the epoch and the Rolls that follow it.                      *)
(***************************************************************************)
ToldInv ==
  /\ (api = 0 /\ acct.pc = "publish") => acct.epoch = authority.epoch
  /\ (api = 0 /\ acct.pc # "send") =>
       \A c \in Conns : (registered[c] /\ Live(c) /\ NotGivenUp(c)) =>
         LastEpochIs(outbox[c], view[c].epoch, authority.epoch)
-----------------------------------------------------------------------------
(* The report of a loss *)

(***************************************************************************)
(* No report is in the queue at first.                                     *)
(***************************************************************************)
LEMMA LossInit == Init => LossInv
<1> SUFFICES ASSUME Init PROVE LossInv  OBVIOUS
<1>1. queue = << >> /\ \A c \in Conns : reader[c] = "none" /\ wpc[c] = "new"  BY Zenon DEF Init
<1>2. \A k \in 1..Len(queue) : FALSE  BY <1>1
<1> QED  BY <1>1, <1>2 DEF LossInv

(***************************************************************************)
(* Pushing an item of a connection whose reader is not done keeps every    *)
(* report behind what its own connection sent.                             *)
(***************************************************************************)
LEMMA LossPush ==
  ASSUME TypeOK, LossInv, NEW w \in WorkItem, queue' = Append(queue, w),
         w.conn \in Conns => reader[w.conn] # "done",
         w.kind = "WorkerLost" => reader'[w.conn] = "done",
         \A c \in Conns : reader[c] = "done" => reader'[c] = "done"
  PROVE  \A k \in 1..Len(queue') : queue'[k].kind = "WorkerLost" =>
           /\ reader'[queue'[k].conn] = "done"
           /\ \A j \in (k + 1)..Len(queue') : queue'[j].conn # queue'[k].conn
<1> DEFINE n == Len(queue)
<1>1. queue \in Seq(WorkItem)  BY DEF TypeOK
<1>2. /\ n \in Nat /\ Len(queue') = n + 1 /\ queue'[n + 1] = w
      /\ \A k \in 1..n : queue'[k] = queue[k]
  BY <1>1, PushedAt
<1>3. ASSUME NEW k \in 1..n, queue[k].kind = "WorkerLost"
      PROVE  /\ queue[k].conn \in Conns /\ reader[queue[k].conn] = "done"
             /\ \A j \in (k + 1)..n : queue[j].conn # queue[k].conn
  <2>1. queue[k] \in WorkItem  BY <1>1
  <2>2. queue[k].conn \in Conns  BY <1>3, <2>1 DEF WorkItem
  <2> QED  BY <1>3, <2>2 DEF LossInv
<1> HIDE DEF n
<1> SUFFICES ASSUME NEW k \in 1..Len(queue'), queue'[k].kind = "WorkerLost"
             PROVE  /\ reader'[queue'[k].conn] = "done"
                    /\ \A j \in (k + 1)..Len(queue') : queue'[j].conn # queue'[k].conn
  OBVIOUS
<1>4. CASE k = n + 1  BY <1>2, <1>4
<1>5. CASE k \in 1..n
  <2>1. queue'[k] = queue[k]  BY <1>2, <1>5
  <2>2. w.conn # queue[k].conn  BY <1>3, <1>5, <2>1
  <2>3. \A j \in (k + 1)..(n + 1) : j = n + 1 \/ (j \in (k + 1)..n /\ j \in 1..n)  BY <1>2, <1>5
  <2> QED  BY <1>2, <1>3, <1>5, <2>1, <2>2, <2>3, SMTT(30)
<1> QED  BY <1>2, <1>4, <1>5

(***************************************************************************)
(* Taking the head of the queue leaves the others in their order.          *)
(***************************************************************************)
LEMMA LossPop ==
  ASSUME TypeOK, LossInv, queue # << >>, queue' = Tail(queue), UNCHANGED <<reader, inbox, wpc>>
  PROVE  LossInv'
<1> DEFINE n == Len(queue)
<1>1. queue \in Seq(WorkItem)  BY DEF TypeOK
<1>2. /\ n \in Nat \ {0} /\ Len(queue') = n - 1
      /\ \A k \in 1..(n - 1) : k + 1 \in 1..n /\ queue'[k] = queue[k + 1]
  BY <1>1, PoppedAt
<1>3. ASSUME NEW k \in 1..(n - 1), queue'[k].kind = "WorkerLost"
      PROVE  /\ reader'[queue'[k].conn] = "done"
             /\ \A j \in (k + 1)..(n - 1) : queue'[j].conn # queue'[k].conn
  <2>1. /\ reader[queue[k + 1].conn] = "done"
        /\ \A j \in (k + 2)..n : queue[j].conn # queue[k + 1].conn
    BY <1>2, <1>3 DEF LossInv
  <2>2. \A j \in (k + 1)..(n - 1) : j \in 1..(n - 1) /\ j + 1 \in (k + 2)..n  BY <1>2
  <2> QED  BY <1>2, <2>1, <2>2
<1>4. \A c \in Conns : RecvFails(c)' <=> RecvFails(c)  BY DEF RecvFails
<1> QED  BY <1>2, <1>3, <1>4, SMTT(30) DEF LossInv

(***************************************************************************)
(* Every step keeps the report of a loss behind what its connection sent.  *)
(***************************************************************************)
LEMMA LossNext == TypeOK /\ LossInv /\ [Next]_vars => LossInv'
<1> SUFFICES ASSUME TypeOK, LossInv, [Next]_vars PROVE LossInv'
  OBVIOUS
<1> USE DEF ledgerVars, connVars, workerVars
<1>1. ASSUME NEW c \in Conns, Connect(c) PROVE LossInv'
  <2>1. wpc[c] = "new" /\ reader[c] = "none"  BY <1>1 DEF Connect, LossInv
  <2>2. \A k \in 1..Len(queue) : queue[k].kind = "WorkerLost" => queue[k].conn \in Conns
    <3>1. \A k \in 1..Len(queue) : queue[k] \in WorkItem  BY DEF TypeOK
    <3> QED  BY <3>1 DEF WorkItem
  <2>3. /\ wpc'[c] = "registering" /\ reader'[c] = "reading"
        /\ \A d \in Conns \ {c} : wpc'[d] = wpc[d] /\ reader'[d] = reader[d] /\ inbox'[d] = inbox[d]
        /\ UNCHANGED queue
    BY <1>1, Zenon DEF Connect, TypeOK
  <2>4. \A d \in Conns : reader'[d] = "done" => RecvFails(d)'
    BY <2>3, Zenon DEF LossInv, RecvFails
  <2>5. \A d \in Conns : wpc'[d] = "new" => reader'[d] = "none"  BY <2>3, Zenon DEF LossInv
  <2>6. \A d \in Conns : reader[d] = "done" => reader'[d] = "done"  BY <2>1, <2>3
  <2> QED  BY <2>2, <2>3, <2>4, <2>5, <2>6 DEF LossInv
<1>2. ASSUME NEW c \in Conns,
             \/ ReceiveRegisterAck(c) \/ ReceiveRoll(c) \/ ReceiveEventAck(c)
             \/ \E e \in Events : Submit(c, e)
      PROVE  LossInv'
  <2>1. /\ wpc[c] \notin {"new", "gone"} /\ wpc'[c] # "new"
        /\ \A d \in Conns \ {c} : wpc'[d] = wpc[d] /\ inbox'[d] = inbox[d]
        /\ UNCHANGED <<reader, queue>>
    BY <1>2, Zenon DEF ReceiveRegisterAck, ReceiveRoll, ReceiveEventAck, Submit, TypeOK
  <2>a. inbox[c] \in Seq(ToCoordinator)  BY DEF TypeOK
  <2>2. inbox[c] # << >> => inbox'[c] # << >> /\ Head(inbox'[c]) = Head(inbox[c])
    <3>1. CASE \E e \in Events : Submit(c, e)
      <4>1. PICK e \in Events : Submit(c, e)  BY <3>1
      <4>2. PICK m : m = [type |-> "EventSubmit", entry |-> e]  BY Zenon
      <4>3. m \in ToCoordinator  BY <4>2, Zenon DEF ToCoordinator
      <4>4. inbox' = [inbox EXCEPT ![c] = Append(@, m)]  BY <4>1, <4>2, Zenon DEF Submit
      <4>5. inbox'[c] = Append(inbox[c], m)  BY <4>4, Zenon DEF TypeOK
      <4> QED  BY <2>a, <4>3, <4>5, HeadStays, SMTT(30)
    <3>2. CASE UNCHANGED inbox  BY <3>2
    <3> QED  BY <1>2, <3>1, <3>2, Zenon DEF ReceiveRegisterAck, ReceiveRoll, ReceiveEventAck
  <2>3. \A d \in Conns : RecvFails(d) => RecvFails(d)'  BY <2>1, <2>2, Zenon DEF RecvFails
  <2> QED  BY <2>1, <2>3, Zenon DEF LossInv
<1>3. ASSUME NEW c \in Conns, Disconnect(c) PROVE LossInv'
  <2>1. /\ wpc'[c] = "gone" /\ (inbox'[c] = inbox[c] \/ inbox'[c] = << >>)
        /\ \A d \in Conns \ {c} : wpc'[d] = wpc[d] /\ inbox'[d] = inbox[d]
        /\ UNCHANGED <<reader, queue>>
    BY <1>3 DEF Disconnect, TypeOK
  <2>2. wpc[c] \notin {"new", "gone"}  BY <1>3 DEF Disconnect
  <2>3. \A d \in Conns : RecvFails(d) => RecvFails(d)'  BY <2>1, <2>2, Zenon DEF RecvFails
  <2> QED  BY <2>1, <2>3, Zenon DEF LossInv
<1>4. ASSUME NEW c \in Conns, read_message(c) PROVE LossInv'
  <2> DEFINE m == Head(inbox[c])
             w == IF m.type = "Register" THEN [kind |-> "Register", conn |-> c]
                  ELSE [kind |-> "Event", conn |-> c, entry |-> m.entry]
  <2>1. /\ inbox[c] # << >> /\ queue' = Append(queue, w) /\ reader[c] = "reading"
        /\ \A d \in Conns \ {c} : inbox'[d] = inbox[d]
        /\ UNCHANGED <<wpc, reader>>
    BY <1>4, Zenon DEF read_message, TypeOK
  <2>2. m.type = "Register" \/ m.entry \in Events
    <3>1. inbox \in [Conns -> Seq(ToCoordinator)]  BY DEF TypeOK
    <3>2. m \in ToCoordinator  BY <2>1, <3>1, ChannelType, Zenon
    <3> QED  BY <3>2 DEF ToCoordinator
  <2>3. w \in WorkItem /\ w.conn = c /\ w.kind # "WorkerLost"  BY <2>2, Zenon DEF WorkItem
  <2> HIDE DEF w
  <2>4. \A k \in 1..Len(queue') : queue'[k].kind = "WorkerLost" =>
           /\ reader'[queue'[k].conn] = "done"
           /\ \A j \in (k + 1)..Len(queue') : queue'[j].conn # queue'[k].conn
    BY <2>1, <2>3, LossPush
  <2>5. \A d \in Conns \ {c} : RecvFails(d) => RecvFails(d)'  BY <2>1, Zenon DEF RecvFails
  <2>6. \A d \in Conns : reader'[d] = "done" => RecvFails(d)'
    BY <2>1, <2>5, Zenon DEF LossInv
  <2>7. \A d \in Conns : wpc'[d] = "new" => reader'[d] = "none"  BY <2>1 DEF LossInv
  <2> QED  BY <2>4, <2>6, <2>7, Zenon DEF LossInv
<1>5. ASSUME NEW c \in Conns, read_failure(c) PROVE LossInv'
  <2>1. /\ RecvFails(c) /\ reader[c] = "reading" /\ reader'[c] = "done"
        /\ \A d \in Conns \ {c} : reader'[d] = reader[d]
        /\ UNCHANGED <<wpc, inbox>>
    BY <1>5 DEF read_failure, TypeOK
  <2>2. \A k \in 1..Len(queue') : queue'[k].kind = "WorkerLost" =>
           /\ reader'[queue'[k].conn] = "done"
           /\ \A j \in (k + 1)..Len(queue') : queue'[j].conn # queue'[k].conn
    <3>1. PICK seen \in ConnSeen(c) :
            queue' = IF seen[1] THEN Append(queue, [kind |-> "WorkerLost", conn |-> c, worker |-> seen[2]])
                     ELSE queue
      BY <1>5, Zenon DEF read_failure
    <3>2. CASE queue' = queue
      <4>1. \A k \in 1..Len(queue) : queue[k].kind = "WorkerLost" => queue[k].conn \in Conns
        <5>1. \A k \in 1..Len(queue) : queue[k] \in WorkItem  BY DEF TypeOK
        <5> QED  BY <5>1 DEF WorkItem
      <4> QED  BY <2>1, <3>2, <4>1, Zenon DEF LossInv
    <3>3. CASE queue' # queue
      <4> DEFINE w == [kind |-> "WorkerLost", conn |-> c, worker |-> seen[2]]
      <4>1. seen[2] \in Workers \cup {NoWorker}
        <5>1. conn_worker[c] \in Workers \cup {NoWorker} /\ WorkerOf[c] \in Workers
          <6>1. conn_worker \in [Conns -> Workers \cup {NoWorker}]  BY Zenon DEF TypeOK
          <6>2. WorkerOf \in [Conns -> Workers]  BY CoordinatorAssumption, Zenon
          <6> QED  BY <6>1, <6>2, Zenon
        <5>2. seen[2] \in {conn_worker[c], WorkerOf[c]}  BY DEF ConnSeen
        <5> QED  BY <5>1, <5>2, Zenon
      <4>2. w \in WorkItem /\ w.conn = c  BY <4>1, Zenon DEF WorkItem
      <4>3. queue' = Append(queue, w)  BY <3>1, <3>3
      <4> HIDE DEF w
      <4> QED  BY <2>1, <4>2, <4>3, LossPush, Zenon
    <3> QED  BY <3>2, <3>3, Zenon
  <2>3. \A d \in Conns : RecvFails(d) => RecvFails(d)'  BY <2>1, Zenon DEF RecvFails
  <2>4. wpc[c] # "new"  BY <2>1 DEF LossInv
  <2> QED  BY <2>1, <2>2, <2>3, <2>4, Zenon DEF LossInv
<1>6. CASE handle_registration \/ handle_event \/ handle_worker_lost
  <2>1. queue # << >> /\ queue' = Tail(queue) /\ UNCHANGED <<reader, inbox, wpc>>
    BY <1>6 DEF handle_registration, handle_event, handle_worker_lost, Dequeue
  <2> QED  BY <2>1, LossPop
<1>7. ASSUME NEW e \in Events, enqueue_event(e) PROVE LossInv'
  <2> DEFINE w == [kind |-> "Event", conn |-> NoConn, entry |-> e]
  <2>1. w \in WorkItem /\ w.conn \notin Conns /\ w.kind # "WorkerLost"
    BY CoordinatorAssumption DEF WorkItem
  <2>2. queue' = Append(queue, w) /\ UNCHANGED <<reader, inbox, wpc>>
    BY <1>7 DEF enqueue_event
  <2> HIDE DEF w
  <2>3. \A k \in 1..Len(queue') : queue'[k].kind = "WorkerLost" =>
           /\ reader'[queue'[k].conn] = "done"
           /\ \A j \in (k + 1)..Len(queue') : queue'[j].conn # queue'[k].conn
    BY <2>1, <2>2, LossPush
  <2> QED  BY <2>2, <2>3, Zenon DEF LossInv, RecvFails
<1>8. CASE UNCHANGED <<reader, inbox, wpc, queue>>
  BY <1>8, Zenon DEF LossInv, RecvFails
<1> QED
  BY <1>1, <1>2, <1>3, <1>4, <1>5, <1>6, <1>7, <1>8
  DEF Next, WorkerNext, ReaderNext, AccountingNext, ApiNext, vars, publish_registration, roll_epoch,
      send_rolls, advance_epoch, set_request_authority

(***************************************************************************)
(* Whatever the readers and the accounting thread do, the loss of a worker *)
(* is handled after everything that was read from its connection, and      *)
(* nothing more can be read: handle_worker_lost fences no event that was   *)
(* read before the reader gave up, and none comes after it.                *)
(***************************************************************************)
THEOREM LossComesLast == Spec => []LossIsLast
<1>1. TypeOK /\ LossInv => LossIsLast
  <2> SUFFICES ASSUME TypeOK, LossInv, NEW k \in 1..Len(queue), queue[k].kind = "WorkerLost"
               PROVE  /\ \A j \in (k + 1)..Len(queue) : queue[j].conn # queue[k].conn
                      /\ RecvFails(queue[k].conn)
    BY DEF LossIsLast
  <2>1. queue[k] \in WorkItem
    <3>1. queue \in Seq(WorkItem)  BY Zenon DEF TypeOK
    <3> QED  BY <3>1
  <2>2. queue[k].conn \in Conns  BY <2>1 DEF WorkItem
  <2> QED  BY <2>2 DEF LossInv
<1>2. Spec => []LossInv  BY TypeInit, TypeNext, LossInit, LossNext, PTL DEF Spec
<1> QED  BY <1>1, <1>2, TypeCorrect, PTL

-----------------------------------------------------------------------------
(* The lost worker *)

(***************************************************************************)
(* A worker process that has gone does not come back.                      *)
(***************************************************************************)
LEMMA GoneForever ==
  ASSUME TypeOK, [Next]_vars, NEW d \in Conns, ~Live(d)
  PROVE  ~Live(d)'
<1> USE DEF workerVars
<1>1. ASSUME NEW c \in Conns,
             \/ Connect(c) \/ ReceiveRegisterAck(c) \/ ReceiveRoll(c) \/ ReceiveEventAck(c)
             \/ Disconnect(c) \/ \E e \in Events : Submit(c, e)
      PROVE  ~Live(d)'
  BY <1>1, Zenon DEF Connect, ReceiveRegisterAck, ReceiveRoll, ReceiveEventAck, Disconnect, Submit, Live, TypeOK
<1>2. CASE UNCHANGED wpc  BY <1>2 DEF Live
<1> QED
  BY <1>1, <1>2, Zenon
  DEF Next, WorkerNext, ReaderNext, AccountingNext, ApiNext, vars, read_message, read_failure,
      handle_registration, publish_registration, handle_event, handle_worker_lost, roll_epoch,
      send_rolls, advance_epoch, set_request_authority, enqueue_event

(***************************************************************************)
(* A reader that has ended does not start again.                           *)
(***************************************************************************)
LEMMA DoneForever ==
  ASSUME TypeOK, LossInv, [Next]_vars, NEW d \in Conns, reader[d] = "done"
  PROVE  reader'[d] = "done"
<1>1. ASSUME NEW c \in Conns, Connect(c) \/ read_failure(c) PROVE reader'[d] = "done"
  <2>1. CASE Connect(c)
    <3>1. d # c  BY <2>1 DEF Connect, LossInv
    <3> QED  BY <2>1, <3>1, Zenon DEF Connect, TypeOK
  <2>2. CASE read_failure(c)  BY <2>2, Zenon DEF read_failure, TypeOK
  <2> QED  BY <1>1, <2>1, <2>2
<1>2. CASE UNCHANGED reader  BY <1>2
<1> QED
  BY <1>1, <1>2, Zenon
  DEF Next, WorkerNext, ReaderNext, AccountingNext, ApiNext, vars, read_message, ReceiveRegisterAck,
      ReceiveRoll, ReceiveEventAck, Submit, Disconnect, handle_registration, publish_registration,
      handle_event, handle_worker_lost, roll_epoch, send_rolls, advance_epoch, set_request_authority,
      enqueue_event

(***************************************************************************)
(* At first no loss is known.                                              *)
(***************************************************************************)
LEMMA LostInit == Init => LostWorkerGivenUp
<1> SUFFICES ASSUME Init PROVE LostWorkerGivenUp  OBVIOUS
<1>1. acct.pc = "idle" /\ queue = << >>  BY DEF Init, Idle
<1>2. \A c \in Conns : conn_worker[c] = NoWorker /\ ~registered[c]  BY Zenon DEF Init
<1>3. acct.pc \notin {"roll", "send"} /\ 1..Len(queue) = {}  BY <1>1
<1> QED  BY <1>2, <1>3, Zenon DEF LostWorkerGivenUp

(***************************************************************************)
(* Every step: the item that reports a loss names the worker of the        *)
(* connection, or the null worker when the report met the registration     *)
(* half way.                                                               *)
(***************************************************************************)
LEMMA LostNext ==
  ASSUME TypeOK, LossInv, LostWorkerGivenUp, [Next]_vars
  PROVE  LostWorkerGivenUp'
<1> DEFINE Named(w) == w.kind = "WorkerLost" => w.worker \in {NoWorker, WorkerOf[w.conn]}
<1> USE DEF ledgerVars, connVars, workerVars
<1>a. queue \in Seq(WorkItem)  BY DEF TypeOK
<1>b. \A k \in 1..Len(queue) : Named(queue[k])  BY DEF LostWorkerGivenUp
<1>1. \A c \in Conns : conn_worker'[c] = IF registered'[c] THEN WorkerOf[c] ELSE NoWorker
  <2>1. CASE publish_registration
    BY <2>1, Zenon DEF publish_registration, LostWorkerGivenUp, TypeOK
  <2>2. CASE UNCHANGED connVars  BY <2>2, Zenon DEF LostWorkerGivenUp
  <2> QED
    BY <2>1, <2>2, Zenon
    DEF Next, WorkerNext, ReaderNext, AccountingNext, ApiNext, vars, Connect, ReceiveRegisterAck,
        ReceiveRoll, ReceiveEventAck, Submit, Disconnect, read_message, read_failure, handle_event,
        handle_registration, handle_worker_lost, roll_epoch, send_rolls, advance_epoch,
        set_request_authority, enqueue_event
<1>2. \A k \in 1..Len(queue') : Named(queue'[k])
  <2>1. ASSUME NEW w \in WorkItem, Named(w), queue' = Append(queue, w)
        PROVE  \A k \in 1..Len(queue') : Named(queue'[k])
    <3>1. /\ Len(queue) \in Nat /\ Len(queue') = Len(queue) + 1 /\ queue'[Len(queue) + 1] = w
          /\ \A k \in 1..Len(queue) : queue'[k] = queue[k]
      BY <1>a, <2>1, PushedAt
    <3> QED  BY <1>b, <2>1, <3>1
  <2>2. ASSUME NEW c \in Conns, read_message(c) PROVE \A k \in 1..Len(queue') : Named(queue'[k])
    <3>1. inbox[c] # << >> /\ Head(inbox[c]) \in ToCoordinator
      BY <2>2, SMTT(30) DEF read_message, TypeOK
    <3>2. PICK w : w = IF Head(inbox[c]).type = "Register" THEN [kind |-> "Register", conn |-> c]
                       ELSE [kind |-> "Event", conn |-> c, entry |-> Head(inbox[c]).entry]
      BY Zenon
    <3>3. w \in WorkItem /\ w.kind # "WorkerLost"  BY <3>1, <3>2, Zenon DEF WorkItem, ToCoordinator
    <3>4. queue' = Append(queue, w)  BY <2>2, <3>2, Zenon DEF read_message
    <3> QED  BY <2>1, <3>3, <3>4
  <2>3. ASSUME NEW c \in Conns, read_failure(c) PROVE \A k \in 1..Len(queue') : Named(queue'[k])
    <3>1. PICK seen \in ConnSeen(c) :
            queue' = IF seen[1] THEN Append(queue, [kind |-> "WorkerLost", conn |-> c, worker |-> seen[2]])
                     ELSE queue
      BY <2>3, Zenon DEF read_failure
    <3>2. conn_worker[c] \in {NoWorker, WorkerOf[c]}  BY Zenon DEF LostWorkerGivenUp
    <3>3. seen[2] \in {NoWorker, WorkerOf[c]} /\ WorkerOf[c] \in Workers
      BY <3>2, CoordinatorAssumption, SMTT(30) DEF ConnSeen
    <3>4. PICK w : w = [kind |-> "WorkerLost", conn |-> c, worker |-> seen[2]]  BY Zenon
    <3>5. w \in WorkItem /\ Named(w)  BY <3>3, <3>4, Zenon DEF WorkItem
    <3>6. queue' = queue \/ queue' = Append(queue, w)  BY <3>1, <3>4
    <3> QED  BY <1>b, <2>1, <3>5, <3>6, Zenon
  <2>4. ASSUME NEW e \in Events, enqueue_event(e) PROVE \A k \in 1..Len(queue') : Named(queue'[k])
    <3>1. PICK w : w = [kind |-> "Event", conn |-> NoConn, entry |-> e]  BY Zenon
    <3>2. w \in WorkItem /\ w.kind # "WorkerLost"  BY <3>1 DEF WorkItem
    <3>3. queue' = Append(queue, w)  BY <2>4, <3>1 DEF enqueue_event
    <3> QED  BY <2>1, <3>2, <3>3
  <2>5. CASE handle_registration \/ handle_event \/ handle_worker_lost
    <3>1. queue # << >> /\ queue' = Tail(queue)
      BY <2>5 DEF handle_registration, handle_event, handle_worker_lost, Dequeue
    <3>2. \A k \in 1..Len(queue') : k + 1 \in 1..Len(queue) /\ queue'[k] = queue[k + 1]
      BY <1>a, <3>1, PoppedAt
    <3> QED  BY <1>b, <3>2
  <2>6. CASE UNCHANGED queue  BY <1>b, <2>6
  <2> QED
    BY <2>2, <2>3, <2>4, <2>5, <2>6, Zenon
    DEF Next, WorkerNext, ReaderNext, AccountingNext, ApiNext, vars, Connect, ReceiveRegisterAck,
        ReceiveRoll, ReceiveEventAck, Submit, Disconnect, publish_registration, roll_epoch, send_rolls,
        advance_epoch, set_request_authority
<1>3. ASSUME acct'.pc \in {"roll", "send"}
      PROVE  acct'.worker = NoWorker \/ \E d \in Conns : WorkerOf[d] = acct'.worker /\ reader'[d] = "done"
  <2>1. CASE handle_worker_lost
    <3>1. /\ queue # << >> /\ Head(queue).kind = "WorkerLost"
          /\ acct'.worker = Head(queue).worker /\ UNCHANGED reader
      BY <2>1 DEF handle_worker_lost, Dequeue, Idle
    <3>2. 1 \in 1..Len(queue) /\ queue[1] = Head(queue) /\ queue[1] \in WorkItem
      BY <1>a, <3>1
    <3>3. PICK d \in Conns : d = queue[1].conn  BY <3>1, <3>2 DEF WorkItem
    <3>4. queue[1].worker \in {NoWorker, WorkerOf[d]}  BY <1>b, <3>1, <3>2, <3>3
    <3>5. reader[d] = "done"  BY <3>1, <3>2, <3>3 DEF LossInv
    <3> QED  BY <3>1, <3>2, <3>4, <3>5
  <2>2. CASE acct.pc \in {"roll", "send"} /\ acct'.worker = acct.worker
    BY <2>2, DoneForever DEF LostWorkerGivenUp
  <2>3. CASE UNCHANGED acct  BY <1>3, <2>2, <2>3
  <2>4. CASE roll_epoch
    <3>1. acct.pc = "roll" /\ acct'.worker = acct.worker  BY <2>4 DEF roll_epoch, TypeOK
    <3> QED  BY <2>2, <3>1
  <2>5. CASE handle_registration \/ publish_registration \/ send_rolls
    <3>1. CASE handle_registration  BY <1>3, <3>1 DEF handle_registration, Idle
    <3>2. CASE publish_registration \/ send_rolls
      BY <1>3, <3>2, SMTT(30) DEF publish_registration, send_rolls, Idle
    <3> QED  BY <2>5, <3>1, <3>2
  <2>6. CASE handle_event
    <3>1. acct'.pc = "crashed" \/ UNCHANGED acct  BY <2>6 DEF handle_event, Idle
    <3> QED  BY <1>3, <2>3, <3>1
  <2> QED
    BY <2>1, <2>3, <2>4, <2>5, <2>6, Zenon
    DEF Next, WorkerNext, ReaderNext, AccountingNext, ApiNext, vars, Connect, ReceiveRegisterAck,
        ReceiveRoll, ReceiveEventAck, Submit, Disconnect, read_message, read_failure, advance_epoch,
        set_request_authority, enqueue_event
<1> QED  BY <1>1, <1>2, <1>3, Zenon DEF LostWorkerGivenUp

-----------------------------------------------------------------------------
(* What the survivors have been told *)

(***************************************************************************)
(* A frame that tells no epoch does not change the last one told.          *)
(***************************************************************************)
LEMMA LastOtherPushed ==
  ASSUME NEW s \in Seq(ToWorker), NEW v, NEW n, LastEpochIs(s, v, n), NEW m \in ToWorker, m \notin EpochFrames
  PROVE  LastEpochIs(Append(s, m), v, n)
<1> DEFINE t == Append(s, m)
<1>1. /\ Len(s) \in Nat /\ Len(t) = Len(s) + 1 /\ t[Len(s) + 1] = m
      /\ \A k \in 1..Len(s) : t[k] = s[k]
  BY PushedAt, SMTT(30)
<1> HIDE DEF t
<1>2. CASE (\A k \in 1..Len(s) : s[k] \notin EpochFrames) /\ v = n
  <2>1. \A k \in 1..Len(t) : t[k] \notin EpochFrames  BY <1>1, <1>2, SMTT(30)
  <2> QED  BY <1>2, <2>1 DEF LastEpochIs, t
<1>3. ASSUME NEW k \in 1..Len(s), s[k] \in EpochFrames, s[k].epoch = n,
             \A j \in (k + 1)..Len(s) : s[j] \notin EpochFrames
      PROVE  LastEpochIs(t, v, n)
  <2>1. k \in 1..Len(t) /\ t[k] = s[k]  BY <1>1, SMTT(30)
  <2>2. \A j \in (k + 1)..Len(t) : j = Len(s) + 1 \/ (j \in (k + 1)..Len(s) /\ j \in 1..Len(s))  BY <1>1
  <2>3. \A j \in (k + 1)..Len(t) : t[j] \notin EpochFrames  BY <1>1, <1>3, <2>2
  <2> QED  BY <1>3, <2>1, <2>3 DEF LastEpochIs
<1> QED  BY <1>2, <1>3, Zenon DEF LastEpochIs, t

(***************************************************************************)
(* An epoch frame that is pushed is the last one told.                     *)
(***************************************************************************)
LEMMA LastEpochPushed ==
  ASSUME NEW s \in Seq(ToWorker), NEW v, NEW m \in EpochFrames
  PROVE  LastEpochIs(Append(s, m), v, m.epoch)
<1> DEFINE t == Append(s, m)
<1>1. m \in ToWorker  BY DEF EpochFrames
<1>2. Len(s) \in Nat /\ Len(t) = Len(s) + 1 /\ t[Len(s) + 1] = m  BY <1>1, PushedAt
<1> HIDE DEF t
<1>3. Len(s) + 1 \in 1..Len(t) /\ \A j \in (Len(s) + 1 + 1)..Len(t) : FALSE  BY <1>2
<1>4. LastEpochIs(t, v, m.epoch)  BY <1>2, <1>3 DEF LastEpochIs
<1> QED  BY <1>4 DEF t

(***************************************************************************)
(* A worker that reads its head knows, or will be told, the same.          *)
(***************************************************************************)
LEMMA LastPopped ==
  ASSUME NEW s \in Seq(ToWorker), s # << >>, NEW v, NEW n, LastEpochIs(s, v, n),
         NEW now, now = IF Head(s) \in EpochFrames THEN Head(s).epoch ELSE v
  PROVE  LastEpochIs(Tail(s), now, n)
<1> DEFINE t == Tail(s)
<1>1. /\ Len(s) \in Nat \ {0} /\ Len(t) = Len(s) - 1 /\ Head(s) = s[1]
      /\ \A k \in 1..(Len(s) - 1) : k + 1 \in 1..Len(s) /\ t[k] = s[k + 1]
  BY PoppedAt
<1> HIDE DEF t
<1>2. CASE (\A k \in 1..Len(s) : s[k] \notin EpochFrames) /\ v = n
  <2>1. Head(s) \notin EpochFrames  BY <1>1, <1>2
  <2>2. \A k \in 1..Len(t) : t[k] \notin EpochFrames  BY <1>1, <1>2
  <2> QED  BY <1>2, <2>1, <2>2 DEF LastEpochIs, t
<1>3. ASSUME NEW k \in 1..Len(s), s[k] \in EpochFrames, s[k].epoch = n,
             \A j \in (k + 1)..Len(s) : s[j] \notin EpochFrames
      PROVE  LastEpochIs(t, now, n)
  <2>1. CASE k = 1
    <3>1. now = n  BY <1>1, <1>3, <2>1
    <3>2. \A j \in 1..Len(t) : j + 1 \in (k + 1)..Len(s) /\ t[j] = s[j + 1]  BY <1>1, <2>1
    <3> QED  BY <1>3, <3>1, <3>2 DEF LastEpochIs
  <2>2. CASE k # 1
    <3>1. k - 1 \in 1..Len(t) /\ t[k - 1] = s[k]  BY <1>1, <2>2
    <3>2. \A j \in (k - 1 + 1)..Len(t) : j + 1 \in (k + 1)..Len(s) /\ t[j] = s[j + 1]  BY <1>1, <2>2
    <3>3. \A j \in (k - 1 + 1)..Len(t) : t[j] \notin EpochFrames  BY <1>3, <3>2
    <3> QED  BY <1>3, <3>1, <3>3 DEF LastEpochIs
  <2> QED  BY <2>1, <2>2
<1> QED  BY <1>2, <1>3 DEF LastEpochIs, t

(***************************************************************************)
(* LastEpochIs says what Told says.                                        *)
(***************************************************************************)
LEMMA ToldIsLast ==
  ASSUME TypeOK, NEW c \in Conns, LastEpochIs(outbox[c], view[c].epoch, authority.epoch)
  PROVE  Told(c) = authority.epoch
<1> DEFINE s == outbox[c]
           K == {k \in 1..Len(s) : s[k].type \in {"RegisterAck", "Roll"}}
           top == CHOOSE k \in K : \A j \in K : j <= k
<1>1. s \in Seq(ToWorker) /\ Len(s) \in Nat  BY DEF TypeOK
<1>2. \A k \in 1..Len(s) : k \in K <=> s[k] \in EpochFrames
  <2>1. \A k \in 1..Len(s) : s[k] \in ToWorker  BY <1>1
  <2> QED  BY <2>1, Zenon DEF EpochFrames
<1>3. Told(c) = IF K = {} THEN view[c].epoch ELSE s[top].epoch  BY DEF Told
<1>4. \A k \in K : k \in 1..Len(s)  OBVIOUS
<1> HIDE DEF K
<1>5. CASE (\A k \in 1..Len(s) : s[k] \notin EpochFrames) /\ view[c].epoch = authority.epoch
  BY <1>2, <1>3, <1>4, <1>5, Zenon
<1>6. ASSUME NEW k \in 1..Len(s), s[k] \in EpochFrames, s[k].epoch = authority.epoch,
             \A j \in (k + 1)..Len(s) : s[j] \notin EpochFrames
      PROVE  Told(c) = authority.epoch
  <2>1. k \in K  BY <1>2, <1>6, Zenon
  <2>2. \A j \in K : j <= k
    <3> SUFFICES ASSUME NEW j \in K, ~(j <= k) PROVE FALSE
      OBVIOUS
    <3>1. j \in (k + 1)..Len(s)  BY <1>1, <1>4
    <3> QED  BY <1>2, <1>4, <1>6, <3>1, Zenon
  <2>3. top \in K /\ \A j \in K : j <= top  BY <2>1, <2>2, Zenon
  <2> HIDE DEF top
  <2>4. top \in Nat /\ k \in Nat /\ top <= k /\ k <= top  BY <1>1, <1>4, <2>1, <2>2, <2>3
  <2>5. top = k  BY <2>4
  <2> QED  BY <1>3, <1>6, <2>1, <2>5, Zenon
<1> QED  BY <1>5, <1>6 DEF LastEpochIs

(***************************************************************************)
(* At first nobody is registered.                                          *)
(***************************************************************************)
LEMMA ToldInit == Init => ToldInv
<1> SUFFICES ASSUME Init PROVE ToldInv  OBVIOUS
<1>1. acct.pc = "idle"  BY DEF Init, Idle
<1>2. \A c \in Conns : ~registered[c]  BY Zenon DEF Init
<1>3. acct.pc # "publish"  BY <1>1
<1> QED  BY <1>2, <1>3, Zenon DEF ToldInv

(***************************************************************************)
(* The epoch that handle_registration read under the lock is still the     *)
(* current one when it is sent, unless advance_epoch was called outside.   *)
(***************************************************************************)
LEMMA PublishedEpoch ==
  ASSUME TypeOK, ToldInv, [Next]_vars, api = 0, api' = 0, acct'.pc = "publish"
  PROVE  acct'.epoch = authority'.epoch
<1> USE DEF ledgerVars
<1>1. CASE handle_registration
  BY <1>1 DEF handle_registration, Idle, TypeOK, AuthorityState
<1>2. CASE UNCHANGED <<acct, authority>>  BY <1>2 DEF ToldInv
<1>3. CASE publish_registration \/ send_rolls
  BY <1>3, SMTT(30) DEF publish_registration, send_rolls, Idle
<1>4. CASE handle_worker_lost  BY <1>4 DEF handle_worker_lost, Idle
<1>5. CASE roll_epoch
  <2>1. acct'.pc = "send"  BY <1>5 DEF roll_epoch, TypeOK
  <2> QED  BY <2>1, Zenon
<1>6. CASE handle_event
  <2>1. acct'.pc = "crashed" \/ acct'.pc = "idle"  BY <1>6 DEF handle_event, Dequeue, Idle
  <2> QED  BY <2>1
<1>7. CASE ApiNext
  <2>1. api' = api + 1
    BY <1>7, Zenon DEF ApiNext, advance_epoch, set_request_authority, enqueue_event, Call
  <2> QED  BY <2>1
<1> QED
  BY <1>1, <1>2, <1>3, <1>4, <1>5, <1>6, <1>7, Zenon
  DEF Next, WorkerNext, ReaderNext, AccountingNext, vars, Connect, ReceiveRegisterAck, ReceiveRoll,
      ReceiveEventAck, Submit, Disconnect, read_message, read_failure

(***************************************************************************)
(* Every step: a worker that survives has been told the current epoch when *)
(* it was registered, and is told every later one by send_rolls.           *)
(***************************************************************************)
LEMMA ToldNext ==
  ASSUME TypeOK, LossInv, LostWorkerGivenUp, ToldInv, [Next]_vars
  PROVE  ToldInv'
<1> USE DEF ledgerVars, connVars, workerVars
<1>1. api' = 0 => api = 0 /\ ~ApiNext
  <2>1. api \in Nat  BY DEF TypeOK
  <2>2. api' = api \/ api' = api + 1
    BY Zenon DEF Next, WorkerNext, ReaderNext, AccountingNext, ApiNext, vars, Connect, ReceiveRegisterAck,
        ReceiveRoll, ReceiveEventAck, Submit, Disconnect, read_message, read_failure, handle_event,
        handle_registration, publish_registration, handle_worker_lost, roll_epoch, send_rolls,
        advance_epoch, set_request_authority, enqueue_event, Call
  <2>3. ApiNext => api' = api + 1
    BY Zenon DEF ApiNext, advance_epoch, set_request_authority, enqueue_event, Call
  <2> QED  BY <2>1, <2>2, <2>3
<1>2. (api' = 0 /\ acct'.pc = "publish") => acct'.epoch = authority'.epoch
  BY <1>1, PublishedEpoch, Zenon
<1> SUFFICES ASSUME api' = 0, acct'.pc # "send", NEW d \in Conns,
                    registered'[d], Live(d)', NotGivenUp(d)'
             PROVE  LastEpochIs(outbox'[d], view'[d].epoch, authority'.epoch)
  BY <1>2, Zenon DEF ToldInv
<1>a. outbox[d] \in Seq(ToWorker) /\ authority \in AuthorityState  BY DEF TypeOK
<1>b. Live(d) /\ NotGivenUp(d)
  <2>1. Live(d)  BY GoneForever
  <2>2. NotGivenUp(d)  BY DoneForever DEF NotGivenUp
  <2> QED  BY <2>1, <2>2
<1>c. registered[d] /\ acct.pc # "send" => LastEpochIs(outbox[d], view[d].epoch, authority.epoch)
  BY <1>1, <1>b DEF ToldInv
<1>d. ASSUME registered'[d] = registered[d], acct.pc # "send",
             outbox'[d] = outbox[d], view'[d] = view[d], authority'.epoch = authority.epoch
      PROVE  LastEpochIs(outbox'[d], view'[d].epoch, authority'.epoch)
  BY <1>c, <1>d, Zenon
<1>3. ASSUME NEW c \in Conns, ReceiveRegisterAck(c) \/ ReceiveRoll(c)
      PROVE  LastEpochIs(outbox'[d], view'[d].epoch, authority'.epoch)
  <2>1. /\ outbox[c] # << >> /\ outbox' = [outbox EXCEPT ![c] = Tail(@)]
        /\ Head(outbox[c]).type \in {"RegisterAck", "Roll"}
        /\ view' = [view EXCEPT ![c] =
                      [epoch |-> Head(outbox[c]).epoch,
                       accounting_generation |-> Head(outbox[c]).accounting_generation]]
        /\ UNCHANGED <<authority, registered, acct>>
    BY <1>3, Zenon DEF ReceiveRegisterAck, ReceiveRoll
  <2>2. CASE d # c
    <3>1. view'[d] = view[d] /\ outbox'[d] = outbox[d]  BY <2>1, <2>2, Zenon DEF TypeOK
    <3> QED  BY <1>d, <2>1, <3>1, Zenon
  <2>3. CASE d = c
    <3>1. outbox'[d] = Tail(outbox[d]) /\ view'[d].epoch = Head(outbox[d]).epoch
      BY <2>1, <2>3, Zenon DEF TypeOK
    <3>2. Head(outbox[d]) \in EpochFrames
      <4>1. Head(outbox[d]) \in ToWorker  BY <1>a, <2>1, <2>3
      <4> QED  BY <2>1, <2>3, <4>1 DEF EpochFrames
    <3>3. LastEpochIs(outbox[d], view[d].epoch, authority.epoch)  BY <1>c, <2>1
    <3> QED  BY <1>a, <2>1, <2>3, <3>1, <3>2, <3>3, LastPopped, Zenon
  <2> QED  BY <2>2, <2>3, Zenon
<1>4. ASSUME NEW c \in Conns, ReceiveEventAck(c)
      PROVE  LastEpochIs(outbox'[d], view'[d].epoch, authority'.epoch)
  <2>1. /\ outbox[c] # << >> /\ outbox' = [outbox EXCEPT ![c] = Tail(@)]
        /\ Head(outbox[c]).type = "EventAck"
        /\ UNCHANGED <<authority, registered, acct, view>>
    BY <1>4 DEF ReceiveEventAck
  <2>2. CASE d # c
    <3>1. outbox'[d] = outbox[d]  BY <2>1, <2>2 DEF TypeOK
    <3> QED  BY <1>d, <2>1, <3>1, Zenon
  <2>3. CASE d = c
    <3>1. outbox'[d] = Tail(outbox[d])  BY <2>1, <2>3 DEF TypeOK
    <3>2. Head(outbox[d]) \notin EpochFrames  BY <2>1, <2>3 DEF EpochFrames
    <3>3. LastEpochIs(outbox[d], view[d].epoch, authority.epoch)  BY <1>c, <2>1, Zenon
    <3> QED  BY <1>a, <2>1, <2>3, <3>1, <3>2, <3>3, LastPopped, Zenon
  <2> QED  BY <2>2, <2>3, Zenon
<1>5. ASSUME NEW c \in Conns, Disconnect(c)
      PROVE  LastEpochIs(outbox'[d], view'[d].epoch, authority'.epoch)
  <2>1. d # c  BY <1>5 DEF Disconnect, Live, TypeOK
  <2>2. outbox'[d] = outbox[d] /\ UNCHANGED <<authority, registered, acct, view>>
    BY <1>5, <2>1 DEF Disconnect, TypeOK
  <2> QED  BY <1>d, <2>2, Zenon
<1>6. CASE publish_registration
  <2>1. PICK c \in Conns : acct.conn = c /\ acct.pc = "publish"
    BY <1>6, Zenon DEF publish_registration, TypeOK
  <2>2. PICK m : m = [type |-> "RegisterAck", epoch |-> acct.epoch,
                      accounting_generation |-> acct.accounting_generation]
    BY Zenon
  <2>3. m \in EpochFrames /\ m.epoch = authority.epoch
    BY <1>1, <2>1, <2>2, Zenon DEF TypeOK, ToldInv, ToWorker, EpochFrames
  <2>4. /\ outbox' = Delivered(c, m) /\ registered' = [registered EXCEPT ![c] = TRUE]
        /\ UNCHANGED <<authority, view>>
    BY <1>6, <2>1, <2>2, Zenon DEF publish_registration
  <2>5. CASE d # c
    <3>1. outbox'[d] = outbox[d] /\ registered'[d] = registered[d]
      BY <2>4, <2>5 DEF Delivered, TypeOK
    <3> QED  BY <1>d, <2>1, <2>4, <3>1, Zenon
  <2>6. CASE d = c
    <3>1. outbox'[d] = Append(outbox[d], m)  BY <1>b, <2>4, <2>6 DEF Delivered, Live, TypeOK
    <3> QED  BY <1>a, <2>3, <2>4, <3>1, LastEpochPushed, Zenon
  <2> QED  BY <2>5, <2>6, Zenon
<1>7. CASE send_rolls
  <2>1. UNCHANGED <<authority, view, registered>> /\ acct.pc = "send"  BY <1>7, Zenon DEF send_rolls
  <2>2. Survives(d)
    <3>1. conn_worker[d] = WorkerOf[d] /\ WorkerOf[d] \in Workers
      BY <2>1, CoordinatorAssumption, Zenon DEF LostWorkerGivenUp
    <3>2. WorkerOf[d] # acct.worker
      BY <1>b, <2>1, <3>1, CoordinatorAssumption, Zenon DEF LostWorkerGivenUp, NotGivenUp
    <3> QED  BY <2>1, <3>1, <3>2, Zenon DEF Survives
  <2>3. outbox'[d] = Append(outbox[d], Roll)
    BY <1>7, <1>b, <2>2 DEF send_rolls, Delivered, Live, TypeOK
  <2>4. Roll \in EpochFrames /\ Roll.epoch = authority.epoch
    BY <1>a, Zenon DEF Roll, ToWorker, AuthorityState, EpochFrames
  <2> QED  BY <1>a, <2>1, <2>3, <2>4, LastEpochPushed, Zenon
<1>8. CASE handle_event
  <2>1. UNCHANGED <<view, registered>> /\ acct.pc # "send"  BY <1>8 DEF handle_event, Dequeue
  <2>2. authority'.epoch = authority.epoch
    BY <1>8, <1>a, Zenon DEF handle_event, AuthorityFor, RequestAdopted, AuthorityState
  <2>3. PICK e \in Events : e = Head(queue).entry
    <3>1. Head(queue) \in WorkItem /\ Head(queue).kind = "Event"
      BY <1>8 DEF handle_event, Dequeue, TypeOK
    <3> QED  BY <3>1, Zenon DEF WorkItem
  <2>4. PICK m : m = [type |-> "EventAck",
                      status |-> append_status(e, {AuthorityFor(e)}, entries, index)]
    BY Zenon
  <2>5. m \in ToWorker /\ m \notin EpochFrames
    BY <2>4, StatusType, Zenon DEF ToWorker, EpochFrames
  <2>6. outbox'[d] = outbox[d] \/ outbox'[d] = Append(outbox[d], m)
    <3>1. UNCHANGED outbox \/ outbox' = Delivered(Head(queue).conn, m)
      BY <1>8, <2>3, <2>4 DEF handle_event
    <3>2. CASE Head(queue).conn # d  BY <3>1, <3>2, Zenon DEF Delivered, TypeOK
    <3>3. CASE Head(queue).conn = d  BY <3>1, <3>3, Zenon DEF Delivered, TypeOK
    <3> QED  BY <3>2, <3>3, Zenon
  <2>7. CASE outbox'[d] = outbox[d]  BY <1>d, <2>1, <2>2, <2>7, Zenon
  <2>8. CASE outbox'[d] = Append(outbox[d], m)
    BY <1>a, <1>c, <2>1, <2>2, <2>5, <2>8, LastOtherPushed, Zenon
  <2> QED  BY <2>6, <2>7, <2>8, Zenon
<1>9. CASE handle_registration \/ handle_worker_lost
  <2>1. authority'.epoch = authority.epoch
    BY <1>9, <1>a DEF handle_registration, handle_worker_lost, AuthorityState
  <2>2. UNCHANGED <<view, registered, outbox>> /\ acct.pc # "send"
    BY <1>9 DEF handle_registration, handle_worker_lost, Dequeue
  <2> QED  BY <1>d, <2>1, <2>2, Zenon
<1>10. CASE roll_epoch
  <2>1. acct'.pc = "send"  BY <1>10 DEF roll_epoch, TypeOK
  <2> QED  BY <2>1
<1>11. CASE UNCHANGED <<registered, outbox, view, authority, acct>>
  BY <1>d, <1>11, Zenon
<1> QED
  BY <1>1, <1>3, <1>4, <1>5, <1>6, <1>7, <1>8, <1>9, <1>10, <1>11, Zenon
  DEF Next, WorkerNext, ReaderNext, AccountingNext, vars, Connect, Submit, read_message, read_failure

(***************************************************************************)
(* The loss of a worker is announced to all the others: when the           *)
(* accounting thread rests, every connected worker that is registered and  *)
(* that no reader has given up has the current epoch in its view or on its *)
(* way, for any number of connections and in any interleaving, even when   *)
(* the report met the registration of the lost worker half way.            *)
(***************************************************************************)
THEOREM SurvivorsAreTold == Spec => []SurvivorsTold
<1>1. TypeOK /\ ToldInv => SurvivorsTold
  BY ToldIsLast, Zenon DEF ToldInv, SurvivorsTold, NotGivenUp, Live
<1>2. Spec => [](LossInv /\ LostWorkerGivenUp)
  <2>1. Init => LossInv /\ LostWorkerGivenUp  BY LossInit, LostInit
  <2>2. TypeOK /\ (LossInv /\ LostWorkerGivenUp) /\ [Next]_vars => (LossInv /\ LostWorkerGivenUp)'
    BY LossNext, LostNext
  <2> QED  BY <2>1, <2>2, TypeCorrect, PTL DEF Spec
<1>3. TypeOK /\ LossInv /\ LostWorkerGivenUp /\ ToldInv /\ [Next]_vars => ToldInv'
  BY ToldNext
<1>4. Spec => []ToldInv
  BY <1>2, <1>3, ToldInit, TypeCorrect, PTL DEF Spec
<1> QED  BY <1>1, <1>4, TypeCorrect, PTL

=============================================================================
