----------------------- MODULE CoordinatorAnswerProofs -----------------------
(***************************************************************************)
(* Step lemmas about the answers and the epochs that the coordinator sends *)
(* to its workers: what one step of any thread does to the frames in       *)
(* transit, provided a connection carries one thing at a time.             *)
(* CoordinatorProtocolProofs proves that proviso and draws the theorems.   *)
(***************************************************************************)
EXTENDS CoordinatorProofs

-----------------------------------------------------------------------------
(* The answers and the epochs: their inductive invariants *)

(***************************************************************************)
(* One thing at a time on a connection.  A worker that waits for nothing,  *)
(* or whose answer has come, has nothing in transit, and one that waits    *)
(* has no second event in the channels.  The connection whose registration *)
(* is being published waits for its RegisterAck with nothing in its        *)
(* channel.  (CoordinatorProtocolProofs shows that this always holds.)     *)
(***************************************************************************)
OneAtATime ==
  \A c \in Conns : Live(c) =>
    /\ (wpc[c] # "waiting" \/ \E k \in 1..Len(outbox[c]) : outbox[c][k] \in AckFrames) =>
         /\ \A k \in 1..Len(inbox[c]) : inbox[c][k] \notin SubmitFrames
         /\ \A k \in 1..Len(queue) : queue[k] \notin EventItems(c)
         /\ wpc[c] # "waiting" => \A k \in 1..Len(outbox[c]) : outbox[c][k] \notin AckFrames
    /\ Publishing(c) => wpc[c] = "registering" /\ outbox[c] = << >> /\ ~registered[c]

(***************************************************************************)
(* The event that a waiting worker sent is the one that is being handled.  *)
(***************************************************************************)
InTransit(c) ==
  Live(c) =>
    /\ \A k \in 1..Len(inbox[c]) :
         inbox[c][k] \in SubmitFrames => pending[c] = {inbox[c][k].entry}
    /\ \A k \in 1..Len(queue) : queue[k] \in EventItems(c) => pending[c] = {queue[k].entry}

PendingInTransit == \A c \in Conns : InTransit(c)

(***************************************************************************)
(* The answers in the channel to a worker are true of the event it waits   *)
(* for.                                                                    *)
(***************************************************************************)
AcksTrue(c) ==
  \A k \in 1..Len(outbox[c]) : \A e \in pending[c] :
    outbox[c][k].type = "EventAck" => TrueStatus(outbox[c][k], e)

(***************************************************************************)
(* The epochs in a channel are ordered, between low and high.              *)
(***************************************************************************)
EpochsIn(s, low, high) ==
  \A k \in 1..Len(s) : s[k] \in EpochFrames =>
    /\ s[k].accounting_generation = s[k].epoch
    /\ low <= s[k].epoch
    /\ s[k].epoch <= high
    /\ \A j \in (k + 1)..Len(s) : s[j] \in EpochFrames => s[k].epoch <= s[j].epoch

(***************************************************************************)
(* The epochs on their way to a worker: what it knows, then the frames in  *)
(* the order they are read, then the current epoch.                        *)
(***************************************************************************)
InTurn(c) ==
  /\ view[c].accounting_generation = view[c].epoch
  /\ view[c].epoch <= authority.epoch
  /\ wpc[c] \in {"new", "registering"} => view[c].epoch = 0
  /\ EpochsIn(outbox[c], view[c].epoch, authority.epoch)

EpochsInTurn ==
  /\ acct.pc = "publish" => acct.epoch <= authority.epoch /\ acct.accounting_generation = acct.epoch
  /\ \A c \in Conns : InTurn(c)

-----------------------------------------------------------------------------
(* What an answer is about *)

(***************************************************************************)
(* At first nothing is in transit.                                         *)
(***************************************************************************)
LEMMA TransitInit == Init => PendingInTransit
  BY DEF Init, PendingInTransit, InTransit

(***************************************************************************)
(* A step that leaves the worker and its frames alone, and adds no event   *)
(* item of it, keeps what is in transit.                                   *)
(***************************************************************************)
LEMMA TransitFrame ==
  ASSUME NEW d \in Conns, InTransit(d), Live(d)' => Live(d) /\ pending'[d] = pending[d],
         \A k \in 1..Len(inbox'[d]) : inbox'[d][k] \in SubmitFrames =>
           \E j \in 1..Len(inbox[d]) : inbox[d][j] = inbox'[d][k],
         \A k \in 1..Len(queue') : queue'[k] \in EventItems(d) =>
           \E j \in 1..Len(queue) : queue[j] = queue'[k]
  PROVE  InTransit(d)'
  BY SMTT(30) DEF InTransit

(***************************************************************************)
(* Every step: only the worker itself changes what it waits for, when      *)
(* nothing is in transit.                                                  *)
(***************************************************************************)
LEMMA TransitNext ==
  TypeOK /\ OneAtATime /\ PendingInTransit /\ [Next]_vars => PendingInTransit'
<1> SUFFICES ASSUME TypeOK, OneAtATime, PendingInTransit, [Next]_vars, NEW d \in Conns
             PROVE  InTransit(d)'
  BY DEF PendingInTransit
<1> USE DEF ledgerVars, connVars, workerVars
<1>a. InTransit(d)  BY DEF PendingInTransit
<1>b. inbox[d] \in Seq(ToCoordinator) /\ outbox[d] \in Seq(ToWorker) /\ queue \in Seq(WorkItem)
  BY DEF TypeOK
<1>1. ASSUME NEW c \in Conns, Connect(c) PROVE InTransit(d)'
  <2> DEFINE m == [type |-> "Register"]
  <2>1. /\ \A b \in Conns \ {c} : wpc'[b] = wpc[b] /\ inbox'[b] = inbox[b]
        /\ wpc[c] = "new" /\ inbox'[c] = Append(inbox[c], m)
        /\ UNCHANGED <<queue, pending>>
    BY <1>1 DEF Connect, TypeOK
  <2>2. m \in ToCoordinator /\ m \notin SubmitFrames  BY DEF ToCoordinator, SubmitFrames
  <2> HIDE DEF m
  <2>3. \A k \in 1..Len(inbox'[d]) : inbox'[d][k] \in SubmitFrames =>
          \E j \in 1..Len(inbox[d]) : inbox[d][j] = inbox'[d][k]
    <3>1. CASE d = c
      <4>1. inbox'[d] = Append(inbox[d], m)  BY <2>1, <3>1
      <4> QED  BY <1>b, <2>2, <4>1, PushedOther
    <3>2. CASE d # c  BY <2>1, <3>2
    <3> QED  BY <3>1, <3>2
  <2> QED  BY <1>a, <2>1, <2>3, TransitFrame DEF Live
<1>2. ASSUME NEW c \in Conns, ReceiveRegisterAck(c) \/ ReceiveRoll(c) PROVE InTransit(d)'
  <2>1. UNCHANGED <<queue, pending, inbox>> /\ (wpc'[d] = wpc[d] \/ wpc[d] # "gone")
    BY <1>2, Zenon DEF ReceiveRegisterAck, ReceiveRoll, TypeOK
  <2> QED  BY <1>a, <2>1 DEF InTransit, Live
<1>3. ASSUME NEW c \in Conns, NEW e \in Events, Submit(c, e) PROVE InTransit(d)'
  <2> DEFINE m == [type |-> "EventSubmit", entry |-> e]
  <2>1. /\ \A b \in Conns \ {c} : wpc'[b] = wpc[b] /\ inbox'[b] = inbox[b] /\ pending'[b] = pending[b]
        /\ wpc[c] = "ready" /\ pending'[c] = {e} /\ inbox'[c] = Append(inbox[c], m)
        /\ UNCHANGED queue
    BY <1>3 DEF Submit, TypeOK
  <2>2. m \in ToCoordinator /\ m.entry = e  BY DEF ToCoordinator
  <2> HIDE DEF m
  <2>3. CASE d # c  BY <1>a, <2>1, <2>3 DEF InTransit, Live
  <2>4. CASE d = c
    <3>a. Live(c) /\ wpc[c] # "waiting"  BY <2>1 DEF Live
    <3>1. /\ \A k \in 1..Len(inbox[c]) : inbox[c][k] \notin SubmitFrames
          /\ \A k \in 1..Len(queue) : queue[k] \notin EventItems(c)
      BY <3>a, Zenon DEF OneAtATime
    <3>2. \A k \in 1..Len(inbox'[c]) : inbox'[c][k] \in SubmitFrames => inbox'[c][k] = m
      <4>1. inbox[c] \in Seq(ToCoordinator) /\ inbox'[c] = Append(inbox[c], m)  BY <1>b, <2>1, <2>4
      <4> QED  BY <2>2, <3>1, <4>1, PushedAt
    <3> QED  BY <2>1, <2>2, <2>4, <3>1, <3>2, Zenon DEF InTransit
  <2> QED  BY <2>3, <2>4
<1>4. ASSUME NEW c \in Conns, ReceiveEventAck(c) PROVE InTransit(d)'
  <2>1. /\ \A b \in Conns \ {c} : wpc'[b] = wpc[b] /\ pending'[b] = pending[b]
        /\ wpc[c] = "waiting" /\ outbox[c] # << >> /\ Head(outbox[c]).type = "EventAck"
        /\ UNCHANGED <<queue, inbox>>
    BY <1>4 DEF ReceiveEventAck, TypeOK
  <2>2. CASE d # c  BY <1>a, <2>1, <2>2 DEF InTransit, Live
  <2>3. CASE d = c
    <3>1. 1 \in 1..Len(outbox[c]) /\ outbox[c][1] \in ToWorker /\ outbox[c][1].type = "EventAck"
      BY <1>b, <2>1, <2>3
    <3>2. outbox[c][1] \in AckFrames  BY <3>1 DEF AckFrames
    <3>3. /\ \A k \in 1..Len(inbox[c]) : inbox[c][k] \notin SubmitFrames
          /\ \A k \in 1..Len(queue) : queue[k] \notin EventItems(c)
      BY <2>1, <3>1, <3>2, Zenon DEF OneAtATime, Live
    <3> QED  BY <2>1, <2>3, <3>3 DEF InTransit
  <2> QED  BY <2>2, <2>3
<1>5. ASSUME NEW c \in Conns, Disconnect(c) PROVE InTransit(d)'
  <2>1. /\ \A b \in Conns \ {c} : wpc'[b] = wpc[b] /\ pending'[b] = pending[b] /\ inbox'[b] = inbox[b]
        /\ wpc'[c] = "gone" /\ UNCHANGED queue
    BY <1>5, Zenon DEF Disconnect, TypeOK
  <2>2. CASE d # c  BY <1>a, <2>1, <2>2 DEF InTransit, Live
  <2>3. CASE d = c  BY <2>1, <2>3 DEF InTransit, Live
  <2> QED  BY <2>2, <2>3
<1>6. ASSUME NEW c \in Conns, read_message(c) PROVE InTransit(d)'
  <2> DEFINE m == Head(inbox[c])
             w == IF m.type = "Register" THEN [kind |-> "Register", conn |-> c]
                  ELSE [kind |-> "Event", conn |-> c, entry |-> m.entry]
  <2>1. /\ inbox[c] # << >> /\ inbox'[c] = Tail(inbox[c]) /\ queue' = Append(queue, w)
        /\ \A b \in Conns \ {c} : inbox'[b] = inbox[b]
        /\ UNCHANGED <<wpc, pending>>
    BY <1>6 DEF read_message, TypeOK
  <2>2. m \in ToCoordinator
    <3>1. inbox \in [Conns -> Seq(ToCoordinator)]  BY DEF TypeOK
    <3> QED  BY <2>1, <3>1, ChannelType, Zenon
  <2>3. /\ w \in WorkItem /\ w.conn = c
        /\ w.kind = "Event" => m \in SubmitFrames /\ w.entry = m.entry
    BY <2>2 DEF WorkItem, ToCoordinator, SubmitFrames
  <2> HIDE DEF w
  <2>4. /\ Len(queue) \in Nat /\ Len(queue') = Len(queue) + 1
        /\ \A k \in 1..Len(queue) : queue'[k] = queue[k]
        /\ queue'[Len(queue) + 1] = w
    BY <1>b, <2>1, <2>3, PushedAt
  <2>5. CASE d # c
    <3>1. w \notin EventItems(d)  BY <2>3, <2>5 DEF EventItems
    <3>2. \A k \in 1..Len(queue') : queue'[k] \in EventItems(d) =>
            \E j \in 1..Len(queue) : queue[j] = queue'[k]
      BY <2>4, <3>1
    <3> QED  BY <1>a, <2>1, <2>5, <3>2, TransitFrame DEF Live
  <2>6. CASE d = c
    <3>1. /\ 1 \in 1..Len(inbox[c]) /\ inbox[c][1] = m
          /\ \A k \in 1..Len(inbox'[c]) : k + 1 \in 1..Len(inbox[c]) /\ inbox'[c][k] = inbox[c][k + 1]
      BY <1>b, <2>1, <2>6, PoppedAt
    <3>2. ASSUME Live(c), w \in EventItems(c) PROVE pending[c] = {w.entry}
      BY <1>a, <2>3, <2>6, <3>1, <3>2 DEF InTransit, EventItems
    <3>3. ASSUME Live(c), NEW k \in 1..Len(inbox'[c]), inbox'[c][k] \in SubmitFrames
          PROVE  pending[c] = {inbox'[c][k].entry}
      BY <1>a, <2>6, <3>1, <3>3 DEF InTransit
    <3>4. ASSUME Live(c), NEW k \in 1..Len(queue'), queue'[k] \in EventItems(c)
          PROVE  pending[c] = {queue'[k].entry}
      <4>1. CASE k \in 1..Len(queue)  BY <1>a, <2>4, <2>6, <3>4, <4>1 DEF InTransit
      <4>2. CASE k = Len(queue) + 1  BY <2>4, <3>2, <3>4, <4>2
      <4> QED  BY <2>4, <4>1, <4>2
    <3> QED  BY <2>1, <2>6, <3>3, <3>4, Zenon DEF InTransit, Live
  <2> QED  BY <2>5, <2>6
<1>7. ASSUME NEW c \in Conns, read_failure(c) PROVE InTransit(d)'
  <2>1. UNCHANGED <<inbox, wpc, pending>>  BY <1>7 DEF read_failure
  <2>2. PICK seen \in ConnSeen(c) :
          queue' = IF seen[1] THEN Append(queue, [kind |-> "WorkerLost", conn |-> c, worker |-> seen[2]])
                   ELSE queue
    BY <1>7 DEF read_failure
  <2> DEFINE w == [kind |-> "WorkerLost", conn |-> c, worker |-> seen[2]]
  <2>3. seen[2] \in Workers \cup {NoWorker}
    BY CoordinatorAssumption, SMTT(30) DEF TypeOK, ConnSeen
  <2>4. w \in WorkItem /\ w \notin EventItems(d)  BY <2>3 DEF WorkItem, EventItems
  <2>5. queue' = queue \/ queue' = Append(queue, w)  BY <2>2
  <2> HIDE DEF w
  <2>6. \A k \in 1..Len(queue') : queue'[k] \in EventItems(d) =>
          \E j \in 1..Len(queue) : queue[j] = queue'[k]
    BY <1>b, <2>4, <2>5, PushedOther, SMTT(30)
  <2> QED  BY <1>a, <2>1, <2>6, TransitFrame DEF Live
<1>8. CASE handle_registration \/ handle_event \/ handle_worker_lost
  <2>1. queue # << >> /\ queue' = Tail(queue) /\ UNCHANGED <<inbox, wpc, pending>>
    BY <1>8 DEF handle_registration, handle_event, handle_worker_lost, Dequeue
  <2>2. \A k \in 1..Len(queue') : \E j \in 1..Len(queue) : queue[j] = queue'[k]
    BY <1>b, <2>1, PoppedAt
  <2> QED  BY <1>a, <2>1, <2>2, TransitFrame DEF Live
<1>9. ASSUME NEW e \in Events, enqueue_event(e) PROVE InTransit(d)'
  <2> DEFINE w == [kind |-> "Event", conn |-> NoConn, entry |-> e]
  <2>1. queue' = Append(queue, w) /\ UNCHANGED <<inbox, wpc, pending>>
    BY <1>9 DEF enqueue_event
  <2>2. w \in WorkItem /\ w \notin EventItems(d)
    BY CoordinatorAssumption DEF WorkItem, EventItems
  <2> HIDE DEF w
  <2>3. \A k \in 1..Len(queue') : queue'[k] \in EventItems(d) =>
          \E j \in 1..Len(queue) : queue[j] = queue'[k]
    BY <1>b, <2>1, <2>2, PushedOther
  <2> QED  BY <1>a, <2>1, <2>3, TransitFrame DEF Live
<1>10. CASE UNCHANGED <<inbox, wpc, pending, queue>>
  BY <1>a, <1>10 DEF InTransit, Live
<1> QED
  BY <1>1, <1>2, <1>3, <1>4, <1>5, <1>6, <1>7, <1>8, <1>9, <1>10, Zenon
  DEF Next, WorkerNext, ReaderNext, AccountingNext, ApiNext, vars, publish_registration, roll_epoch,
      send_rolls, advance_epoch, set_request_authority

(***************************************************************************)
(* A step that puts no new EventAck into a channel, and makes its worker   *)
(* wait for nothing new, keeps the answers in it true.                     *)
(***************************************************************************)
LEMMA AcksFrame ==
  ASSUME TypeOK, LedgerInv, [Next]_vars, NEW d \in Conns, AcksTrue(d),
         pending'[d] \subseteq pending[d],
         \A k \in 1..Len(outbox'[d]) : outbox'[d][k].type = "EventAck" =>
           \E j \in 1..Len(outbox[d]) : outbox[d][j] = outbox'[d][k]
  PROVE  AcksTrue(d)'
<1> SUFFICES ASSUME NEW k \in 1..Len(outbox'[d]), NEW e \in pending'[d], NEW m,
                    m = outbox'[d][k], m.type = "EventAck"
             PROVE  TrueStatus(m, e)'
  BY DEF AcksTrue, TrueStatus
<1>1. PICK j \in 1..Len(outbox[d]) : outbox[d][j] = m  OBVIOUS
<1>2. e \in Events /\ e \in pending[d]  BY DEF TypeOK
<1>3. TrueStatus(m, e)  BY <1>1, <1>2 DEF AcksTrue
<1> QED  BY <1>2, <1>3, StatusStaysTrue

(***************************************************************************)
(* Every step keeps the answers true: handle_event answers the event that  *)
(* the worker waits for, and the worker submits another only when the      *)
(* answer has been read.                                                   *)
(***************************************************************************)
LEMMA AcksNext ==
  ASSUME TypeOK, LedgerInv, OneAtATime, PendingInTransit, \A c \in Conns : AcksTrue(c), [Next]_vars
  PROVE  \A c \in Conns : AcksTrue(c)'
<1> SUFFICES ASSUME NEW d \in Conns PROVE AcksTrue(d)'
  OBVIOUS
<1> USE DEF ledgerVars, connVars, workerVars
<1>a. outbox[d] \in Seq(ToWorker) /\ queue \in Seq(WorkItem)  BY DEF TypeOK
<1>b. \A k \in 1..Len(outbox'[d]) : outbox'[d][k] \in ToWorker
  <2>1. TypeOK'  BY TypeNext
  <2>2. outbox'[d] \in Seq(ToWorker)  BY <2>1 DEF TypeOK
  <2> QED  BY <2>2
<1>1. ASSUME NEW c \in Conns, ReceiveRegisterAck(c) \/ ReceiveRoll(c) \/ ReceiveEventAck(c)
      PROVE  AcksTrue(d)'
  <2>1. /\ outbox[c] # << >> /\ outbox' = [outbox EXCEPT ![c] = Tail(@)]
        /\ UNCHANGED pending \/ pending' = [pending EXCEPT ![c] = {}]
    BY <1>1, Zenon DEF ReceiveRegisterAck, ReceiveRoll, ReceiveEventAck
  <2>2. pending'[d] \subseteq pending[d]  BY <2>1, Zenon DEF TypeOK
  <2>3. CASE d # c
    <3>1. outbox'[d] = outbox[d]  BY <2>1, <2>3 DEF TypeOK
    <3> QED  BY <2>2, <3>1, AcksFrame
  <2>4. CASE d = c
    <3>1. outbox'[d] = Tail(outbox[d]) /\ outbox[d] # << >>  BY <2>1, <2>4 DEF TypeOK
    <3>2. \A k \in 1..Len(outbox'[d]) : \E j \in 1..Len(outbox[d]) : outbox[d][j] = outbox'[d][k]
      BY <1>a, <3>1, PoppedAt
    <3> QED  BY <2>2, <3>2, AcksFrame, Zenon
  <2> QED  BY <2>3, <2>4
<1>2. ASSUME NEW c \in Conns, NEW e \in Events, Submit(c, e) PROVE AcksTrue(d)'
  <2>1. /\ UNCHANGED outbox /\ wpc[c] = "ready"
        /\ \A b \in Conns \ {c} : pending'[b] = pending[b]
    BY <1>2 DEF Submit, TypeOK
  <2>2. CASE d # c  BY <2>1, <2>2, AcksFrame
  <2>3. CASE d = c
    <3>a. Live(d) /\ wpc[d] # "waiting"  BY <2>1, <2>3 DEF Live
    <3>b. \A k \in 1..Len(outbox[d]) : outbox[d][k] \in ToWorker  BY <1>a
    <3>c. \A k \in 1..Len(outbox[d]) : outbox[d][k] \notin AckFrames
      BY <3>a, Zenon DEF OneAtATime
    <3>1. \A k \in 1..Len(outbox[d]) : outbox[d][k] \in ToWorker /\ outbox[d][k] \notin AckFrames
      BY <3>b, <3>c
    <3>2. \A k \in 1..Len(outbox'[d]) : outbox'[d][k].type # "EventAck"
      BY <2>1, <3>1 DEF AckFrames
    <3> QED  BY <3>2 DEF AcksTrue
  <2> QED  BY <2>2, <2>3
<1>3. ASSUME NEW c \in Conns, Disconnect(c) PROVE AcksTrue(d)'
  <2>1. /\ outbox'[d] = outbox[d] \/ outbox'[d] = << >>
        /\ pending'[d] \subseteq pending[d]
    BY <1>3 DEF Disconnect, TypeOK
  <2> QED  BY <2>1, AcksFrame
<1>4. CASE publish_registration
  <2> DEFINE m == [type |-> "RegisterAck", epoch |-> acct.epoch,
                   accounting_generation |-> acct.accounting_generation]
  <2>1. UNCHANGED pending /\ (outbox'[d] = outbox[d] \/ outbox'[d] = Append(outbox[d], m))
    BY <1>4 DEF publish_registration, Delivered, TypeOK
  <2>2. m \in ToWorker /\ m \notin AckFrames  BY Zenon DEF ToWorker, AckFrames, TypeOK
  <2> HIDE DEF m
  <2>3. \A k \in 1..Len(outbox'[d]) : outbox'[d][k] \in AckFrames =>
          \E j \in 1..Len(outbox[d]) : outbox[d][j] = outbox'[d][k]
    BY <1>a, <2>1, <2>2, PushedOther, SMTT(30)
  <2> QED  BY <1>b, <2>1, <2>3, AcksFrame DEF AckFrames
<1>5. CASE send_rolls
  <2>1. UNCHANGED pending /\ (outbox'[d] = outbox[d] \/ outbox'[d] = Append(outbox[d], Roll))
    BY <1>5 DEF send_rolls, Delivered, TypeOK
  <2>2. Roll \in ToWorker /\ Roll \notin AckFrames
    BY Zenon DEF TypeOK, Roll, ToWorker, AuthorityState, AckFrames
  <2>3. \A k \in 1..Len(outbox'[d]) : outbox'[d][k] \in AckFrames =>
          \E j \in 1..Len(outbox[d]) : outbox[d][j] = outbox'[d][k]
    BY <1>a, <2>1, <2>2, PushedOther, SMTT(30)
  <2> QED  BY <1>b, <2>1, <2>3, AcksFrame DEF AckFrames
<1>6. CASE handle_event
  <2>1. queue # << >> /\ Head(queue).kind = "Event" /\ UNCHANGED pending
    BY <1>6 DEF handle_event, Dequeue
  <2>2. PICK e \in Events : e = Head(queue).entry
    <3>1. Head(queue) \in WorkItem  BY <1>a, <2>1
    <3> QED  BY <2>1, <3>1 DEF WorkItem
  <2>3. PICK m : m = [type |-> "EventAck",
                      status |-> append_status(e, {AuthorityFor(e)}, entries, index)]
    BY Zenon
  <2>4. m \in ToWorker /\ m.status = append_status(e, {AuthorityFor(e)}, entries, index)
    BY <2>3, StatusType DEF ToWorker
  <2>5. \/ outbox'[d] = outbox[d]
        \/ /\ Head(queue).conn = d /\ Live(d)
           /\ outbox'[d] = Append(outbox[d], m)
    <3>1. UNCHANGED outbox \/ outbox' = Delivered(Head(queue).conn, m)
      BY <1>6, <2>2, <2>3 DEF handle_event
    <3>a. DOMAIN outbox = Conns  BY Zenon DEF TypeOK
    <3>2. CASE Head(queue).conn # d  BY <3>1, <3>2, <3>a, Zenon DEF Delivered
    <3>3. CASE Head(queue).conn = d  BY <3>1, <3>3, <3>a, Zenon DEF Delivered, Live
    <3> QED  BY <3>2, <3>3
  <2>6. CASE outbox'[d] = outbox[d]  BY <2>1, <2>6, AcksFrame
  <2>7. CASE Head(queue).conn = d /\ Live(d) /\ outbox'[d] = Append(outbox[d], m)
    <3>1. 1 \in 1..Len(queue) /\ queue[1] = Head(queue) /\ queue[1] \in EventItems(d)
      BY <1>a, <2>1, <2>7 DEF EventItems
    <3>2. pending[d] = {e}  BY <2>2, <2>7, <3>1 DEF PendingInTransit, InTransit
    <3>3. TrueStatus(m, e)'  BY <1>6, <2>2, <2>4, AnswerIsTrue
    <3>4. \A k \in 1..Len(outbox[d]) : outbox[d][k].type = "EventAck" => TrueStatus(outbox[d][k], e)
      BY <3>2, Zenon DEF AcksTrue
    <3>5. ASSUME NEW k \in 1..Len(outbox'[d]), NEW a, a = outbox'[d][k], a.type = "EventAck"
          PROVE  TrueStatus(a, e)'
      <4>1. a = m \/ \E j \in 1..Len(outbox[d]) : outbox[d][j] = a
        <5>1. PICK q \in Seq(ToWorker) : q = outbox[d]  BY <1>a
        <5>2. PICK r : r = Append(q, m)  BY Zenon
        <5>3. outbox'[d] = r  BY <2>7, <5>1, <5>2
        <5>4. /\ Len(q) \in Nat /\ Len(r) = Len(q) + 1
              /\ \A j \in 1..Len(q) : r[j] = q[j]
              /\ r[Len(q) + 1] = m
          <6>1. m \in ToWorker  BY <2>4
          <6> QED  BY <5>2, <6>1, SMTT(30)
        <5>5. Len(q) \in Nat /\ k \in 1..(Len(q) + 1)  BY <5>3, <5>4, Zenon
        <5>6. k \in 1..Len(q) \/ k = Len(q) + 1  BY <5>5
        <5> QED  BY <3>5, <5>1, <5>3, <5>4, <5>6, Zenon
      <4>2. CASE a = m  BY <3>3, <4>2
      <4>3. CASE TrueStatus(a, e)  BY <2>2, <4>3, StatusStaysTrue
      <4> QED  BY <3>4, <3>5, <4>1, <4>2, <4>3
    <3> QED  BY <2>1, <3>2, <3>5 DEF AcksTrue, TrueStatus
  <2> QED  BY <2>5, <2>6, <2>7
<1>7. CASE UNCHANGED <<outbox, pending>>
  BY <1>7, AcksFrame
<1> QED
  BY <1>1, <1>2, <1>3, <1>4, <1>5, <1>6, <1>7, Zenon
  DEF Next, WorkerNext, ReaderNext, AccountingNext, ApiNext, vars, Connect, read_message, read_failure,
      handle_registration, handle_worker_lost, roll_epoch, advance_epoch, set_request_authority,
      enqueue_event

-----------------------------------------------------------------------------
(* The epochs in a channel *)

(***************************************************************************)
(* An epoch frame carries numbers.                                         *)
(***************************************************************************)
LEMMA EpochFrameFields ==
  ASSUME NEW m \in EpochFrames
  PROVE  m.epoch \in Nat /\ m.accounting_generation \in Nat
  BY DEF EpochFrames, ToWorker

(***************************************************************************)
(* A later current epoch bounds the same frames.                           *)
(***************************************************************************)
LEMMA EpochsRaised ==
  ASSUME NEW s, NEW low, NEW high \in Nat, NEW top \in Nat, high <= top, EpochsIn(s, low, high)
  PROVE  EpochsIn(s, low, top)
  BY EpochFrameFields, SMTT(30) DEF EpochsIn

(***************************************************************************)
(* A frame pushed behind the others keeps the order if it tells no epoch,  *)
(* or the current one, or is the first.                                    *)
(***************************************************************************)
LEMMA EpochsPushed ==
  ASSUME NEW s \in Seq(ToWorker), NEW low \in Nat, NEW high \in Nat, low <= high,
         EpochsIn(s, low, high), NEW m \in ToWorker,
         m \in EpochFrames => /\ m.accounting_generation = m.epoch
                              /\ low <= m.epoch /\ m.epoch <= high
                              /\ m.epoch = high \/ s = << >>
  PROVE  EpochsIn(Append(s, m), low, high)
<1> DEFINE n == Len(s)
           t == Append(s, m)
<1>1. n \in Nat /\ Len(t) = n + 1 /\ t[n + 1] = m /\ \A k \in 1..n : t[k] = s[k]
  BY PushedAt
<1> HIDE DEF t
<1> SUFFICES ASSUME NEW k \in 1..(n + 1), t[k] \in EpochFrames
             PROVE  /\ t[k].accounting_generation = t[k].epoch
                    /\ low <= t[k].epoch
                    /\ t[k].epoch <= high
                    /\ \A j \in (k + 1)..(n + 1) : t[j] \in EpochFrames => t[k].epoch <= t[j].epoch
  BY <1>1, Zenon DEF EpochsIn, t
<1>2. CASE k = n + 1  BY <1>1, <1>2
<1>3. CASE k \in 1..n
  <2>1. /\ s[k] = t[k] /\ s[k].accounting_generation = s[k].epoch
        /\ low <= s[k].epoch /\ s[k].epoch <= high
        /\ \A j \in (k + 1)..n : s[j] \in EpochFrames => s[k].epoch <= s[j].epoch
    BY <1>1, <1>3 DEF EpochsIn
  <2>2. s # << >>  BY <1>1, <1>3
  <2>3. \A j \in (k + 1)..(n + 1) : j = n + 1 \/ (j \in (k + 1)..n /\ j \in 1..n)  BY <1>1, <1>3
  <2>4. m \in EpochFrames => s[k].epoch <= m.epoch  BY <2>1, <2>2
  <2> QED  BY <1>1, <2>1, <2>3, <2>4
<1> QED  BY <1>1, <1>2, <1>3

(***************************************************************************)
(* When the head is taken, the rest is ordered above what is then known.   *)
(***************************************************************************)
LEMMA EpochsPopped ==
  ASSUME NEW s \in Seq(ToWorker), s # << >>, NEW low \in Nat, NEW high \in Nat,
         EpochsIn(s, low, high), NEW now \in Nat,
         now = low \/ (Head(s) \in EpochFrames /\ now = Head(s).epoch)
  PROVE  EpochsIn(Tail(s), now, high)
<1> DEFINE n == Len(s)
           t == Tail(s)
<1>1. /\ n \in Nat \ {0} /\ Len(t) = n - 1 /\ Head(s) = s[1]
      /\ \A k \in 1..(n - 1) : k + 1 \in 1..n /\ t[k] = s[k + 1]
  BY PoppedAt
<1> HIDE DEF t
<1> SUFFICES ASSUME NEW k \in 1..(n - 1), t[k] \in EpochFrames
             PROVE  /\ t[k].accounting_generation = t[k].epoch
                    /\ now <= t[k].epoch
                    /\ t[k].epoch <= high
                    /\ \A j \in (k + 1)..(n - 1) : t[j] \in EpochFrames => t[k].epoch <= t[j].epoch
  BY <1>1 DEF EpochsIn, t
<1>2. /\ t[k] = s[k + 1] /\ k + 1 \in 1..n
      /\ s[k + 1].accounting_generation = s[k + 1].epoch
      /\ low <= s[k + 1].epoch /\ s[k + 1].epoch <= high
      /\ \A j \in (k + 2)..n : s[j] \in EpochFrames => s[k + 1].epoch <= s[j].epoch
  BY <1>1 DEF EpochsIn
<1>3. s[1] \in EpochFrames => s[1].epoch <= s[k + 1].epoch
  <2>1. 1 \in 1..n /\ k + 1 \in (1 + 1)..n /\ s[k + 1] \in EpochFrames  BY <1>1, <1>2
  <2> QED  BY <2>1 DEF EpochsIn
<1>4. \A j \in (k + 1)..(n - 1) : j + 1 \in (k + 2)..n /\ t[j] = s[j + 1]  BY <1>1
<1> QED  BY <1>1, <1>2, <1>3, <1>4, Zenon

-----------------------------------------------------------------------------
(* What a worker knows never goes backwards *)

(***************************************************************************)
(* At first no worker knows anything.                                      *)
(***************************************************************************)
LEMMA EpochsInit == Init => EpochsInTurn
<1> SUFFICES ASSUME Init PROVE EpochsInTurn
  OBVIOUS
<1>1. acct.pc # "publish"  BY DEF Init, Idle
<1>2. authority.epoch \in Nat  BY TypeInit DEF TypeOK, AuthorityState
<1>3. ASSUME NEW c \in Conns PROVE InTurn(c)
  BY <1>2, SMTT(30) DEF Init, InTurn, EpochsIn
<1> QED  BY <1>1, <1>3 DEF EpochsInTurn

(***************************************************************************)
(* A connection whose channel and worker do not change stays in turn.      *)
(***************************************************************************)
LEMMA TurnFrame ==
  ASSUME TypeOK, TypeOK', NEW d \in Conns, InTurn(d), authority.epoch <= authority'.epoch,
         view'[d] = view[d], outbox'[d] = outbox[d],
         wpc'[d] \in {"new", "registering"} => wpc[d] \in {"new", "registering"}
  PROVE  InTurn(d)'
<1>1. /\ authority.epoch \in Nat /\ authority'.epoch \in Nat /\ view[d].epoch \in Nat
  BY DEF TypeOK, AuthorityState
<1>2. EpochsIn(outbox[d], view[d].epoch, authority'.epoch)
  BY <1>1, EpochsRaised DEF InTurn
<1> QED  BY <1>1, <1>2 DEF InTurn

(***************************************************************************)
(* Reading the frame at the head of its channel, a worker learns the epoch *)
(* of an epoch frame, and nothing from another one.                        *)
(***************************************************************************)
LEMMA TurnRead ==
  ASSUME TypeOK, TypeOK', NEW c \in Conns, InTurn(c), UNCHANGED authority,
         outbox[c] # << >>, outbox'[c] = Tail(outbox[c]),
         wpc'[c] \notin {"new", "registering"},
         \/ view'[c] = view[c]
         \/ /\ Head(outbox[c]) \in EpochFrames
            /\ view'[c] = [epoch |-> Head(outbox[c]).epoch,
                           accounting_generation |-> Head(outbox[c]).accounting_generation]
  PROVE  /\ InTurn(c)'
         /\ view'[c].epoch >= view[c].epoch
         /\ view'[c].accounting_generation >= view[c].accounting_generation
<1>1. /\ authority.epoch \in Nat /\ view[c].epoch \in Nat /\ view'[c].epoch \in Nat
      /\ outbox[c] \in Seq(ToWorker)
  BY Zenon DEF TypeOK, AuthorityState
<1>2. Head(outbox[c]) \in EpochFrames =>
        /\ Head(outbox[c]).accounting_generation = Head(outbox[c]).epoch
        /\ view[c].epoch <= Head(outbox[c]).epoch
        /\ Head(outbox[c]).epoch <= authority.epoch
  <2>1. 1 \in 1..Len(outbox[c]) /\ outbox[c][1] = Head(outbox[c])  BY <1>1, PoppedAt
  <2> QED  BY <2>1, Zenon DEF InTurn, EpochsIn
<1>3. /\ view'[c].accounting_generation = view'[c].epoch
      /\ view[c].epoch <= view'[c].epoch
      /\ view'[c].epoch <= authority.epoch
  BY <1>1, <1>2 DEF InTurn
<1>4. EpochsIn(Tail(outbox[c]), view'[c].epoch, authority.epoch)
  BY <1>1, EpochsPopped DEF InTurn
<1> QED  BY <1>1, <1>3, <1>4 DEF InTurn

(***************************************************************************)
(* A frame put into the channel of a live worker keeps it in turn.         *)
(***************************************************************************)
LEMMA TurnSent ==
  ASSUME TypeOK, NEW c \in Conns, InTurn(c), authority'.epoch = authority.epoch,
         UNCHANGED <<view, wpc>>, NEW m \in ToWorker, outbox'[c] = Append(outbox[c], m),
         m \in EpochFrames => /\ m.accounting_generation = m.epoch
                              /\ m.epoch = authority.epoch \/ 
                                 (m.epoch <= authority.epoch /\ view[c].epoch = 0 /\ outbox[c] = << >>)
  PROVE  InTurn(c)'
<1>1. /\ authority.epoch \in Nat /\ view[c].epoch \in Nat /\ outbox[c] \in Seq(ToWorker)
  BY DEF TypeOK, AuthorityState
<1>2. view[c].epoch <= authority.epoch  BY DEF InTurn
<1>3. m \in EpochFrames => view[c].epoch <= m.epoch /\ m.epoch <= authority.epoch
  BY <1>1, <1>2, EpochFrameFields
<1>4. EpochsIn(Append(outbox[c], m), view[c].epoch, authority.epoch)
  BY <1>1, <1>2, <1>3, EpochsPushed, Zenon DEF InTurn
<1> QED  BY <1>1, <1>4, Zenon DEF InTurn

(***************************************************************************)
(* Every step keeps the epochs in turn.  An epoch is sent either as it is  *)
(* at that moment, or as the first frame of its channel.                   *)
(***************************************************************************)
LEMMA EpochsNext ==
  ASSUME TypeOK, TypeOK', LedgerInv, OneAtATime, EpochsInTurn, [Next]_vars
  PROVE  /\ EpochsInTurn'
         /\ \A d \in Conns : /\ view'[d].epoch >= view[d].epoch
                             /\ view'[d].accounting_generation >= view[d].accounting_generation
<1> DEFINE Forward(d) == /\ view'[d].epoch >= view[d].epoch
                         /\ view'[d].accounting_generation >= view[d].accounting_generation
<1> USE DEF ledgerVars, connVars, workerVars
<1>a. authority.epoch \in Nat /\ authority'.epoch \in Nat /\ authority.epoch <= authority'.epoch
  <2>1. authority.epoch \in Nat /\ authority'.epoch \in Nat  BY DEF TypeOK, AuthorityState
  <2> QED  BY <2>1, EpochStep
<1>b. ASSUME NEW d \in Conns PROVE InTurn(d) /\ (view'[d] = view[d] => Forward(d))
  <2>1. view[d].epoch \in Nat /\ view[d].accounting_generation \in Nat  BY Zenon DEF TypeOK
  <2> QED  BY <2>1 DEF EpochsInTurn
<1>1. ASSUME acct'.pc = "publish"
      PROVE  acct'.epoch <= authority'.epoch /\ acct'.accounting_generation = acct'.epoch
  <2>1. CASE handle_registration
    <3>1. acct'.epoch = authority.epoch /\ acct'.accounting_generation = authority.accounting_generation
      BY <2>1 DEF handle_registration, Idle
    <3> QED  BY <1>a, <3>1 DEF LedgerInv
  <2>2. CASE UNCHANGED acct
    <3>1. acct.epoch \in Nat  BY DEF TypeOK
    <3> QED  BY <1>1, <1>a, <2>2, <3>1 DEF EpochsInTurn
  <2>3. CASE publish_registration \/ handle_worker_lost \/ roll_epoch \/ send_rolls
    <3>1. CASE publish_registration \/ send_rolls
      BY <1>1, <3>1, SMTT(30) DEF publish_registration, send_rolls, Idle
    <3>2. CASE handle_worker_lost  BY <1>1, <3>2 DEF handle_worker_lost, Idle
    <3>3. CASE roll_epoch
      <4>1. acct'.pc = "send"  BY <3>3 DEF roll_epoch, TypeOK
      <4> QED  BY <1>1, <4>1
    <3> QED  BY <2>3, <3>1, <3>2, <3>3
  <2>4. CASE handle_event
    <3>1. acct'.pc = "crashed" \/ UNCHANGED acct  BY <2>4 DEF handle_event, Idle
    <3> QED  BY <1>1, <2>2, <3>1
  <2> QED
    BY <2>1, <2>2, <2>3, <2>4, Zenon
    DEF Next, WorkerNext, ReaderNext, AccountingNext, ApiNext, vars, Connect, ReceiveRegisterAck,
        ReceiveRoll, ReceiveEventAck, Submit, Disconnect, read_message, read_failure, advance_epoch,
        set_request_authority, enqueue_event
<1> SUFFICES ASSUME NEW d \in Conns PROVE InTurn(d)' /\ Forward(d)
  BY <1>1 DEF EpochsInTurn
<1>c. outbox[d] \in Seq(ToWorker)  BY DEF TypeOK
<1>d. ASSUME view'[d] = view[d], outbox'[d] = outbox[d],
             wpc'[d] \in {"new", "registering"} => wpc[d] \in {"new", "registering"}
      PROVE  InTurn(d)' /\ Forward(d)
  BY <1>a, <1>b, <1>d, TurnFrame, Zenon
<1>2. ASSUME NEW c \in Conns, Connect(c) PROVE InTurn(d)' /\ Forward(d)
  <2>1. /\ UNCHANGED <<view, outbox>>
        /\ wpc'[d] \in {"new", "registering"} => wpc[d] \in {"new", "registering"}
    <3>1. UNCHANGED <<view, outbox>>  BY <1>2, Zenon DEF Connect
    <3>2. wpc[c] = "new" /\ wpc' = [wpc EXCEPT ![c] = "registering"]  BY <1>2, Zenon DEF Connect
    <3>3. wpc'[d] \in {"new", "registering"} => wpc[d] \in {"new", "registering"}
      BY <3>2, Zenon DEF TypeOK
    <3> QED  BY <3>1, <3>3
  <2> QED  BY <1>d, <2>1, Zenon
<1>3. ASSUME NEW c \in Conns, ReceiveRegisterAck(c) \/ ReceiveRoll(c) PROVE InTurn(d)' /\ Forward(d)
  <2>1. /\ outbox[c] # << >> /\ outbox' = [outbox EXCEPT ![c] = Tail(@)]
        /\ Head(outbox[c]).type \in {"RegisterAck", "Roll"}
        /\ view' = [view EXCEPT ![c] =
                      [epoch |-> Head(outbox[c]).epoch,
                       accounting_generation |-> Head(outbox[c]).accounting_generation]]
        /\ UNCHANGED authority
    BY <1>3, Zenon DEF ReceiveRegisterAck, ReceiveRoll
  <2>2. wpc'[c] \in {"ready", "waiting"} /\ \A b \in Conns \ {c} : wpc'[b] = wpc[b]
    BY <1>3, ZenonT(40) DEF ReceiveRegisterAck, ReceiveRoll, TypeOK
  <2>3. CASE d # c
    <3>1. view'[d] = view[d] /\ outbox'[d] = outbox[d]  BY <2>1, <2>3, ZenonT(40) DEF TypeOK
    <3> QED  BY <1>d, <2>2, <2>3, <3>1, Zenon
  <2>4. CASE d = c
    <3>1. /\ outbox'[d] = Tail(outbox[d])
          /\ view'[d] = [epoch |-> Head(outbox[d]).epoch,
                         accounting_generation |-> Head(outbox[d]).accounting_generation]
      BY <2>1, <2>4, Zenon DEF TypeOK
    <3>2. Head(outbox[d]) \in EpochFrames
      <4>1. Head(outbox[d]) \in ToWorker  BY <1>c, <2>1, <2>4
      <4> QED  BY <2>1, <2>4, <4>1 DEF EpochFrames
    <3> QED  BY <1>b, <2>1, <2>2, <2>4, <3>1, <3>2, TurnRead, Zenon
  <2> QED  BY <2>3, <2>4
<1>4. ASSUME NEW c \in Conns, ReceiveEventAck(c) PROVE InTurn(d)' /\ Forward(d)
  <2>1. /\ outbox[c] # << >> /\ outbox' = [outbox EXCEPT ![c] = Tail(@)]
        /\ wpc'[c] = "ready" /\ \A b \in Conns \ {c} : wpc'[b] = wpc[b]
        /\ UNCHANGED <<authority, view>>
    BY <1>4 DEF ReceiveEventAck, TypeOK
  <2>2. CASE d # c
    <3>1. outbox'[d] = outbox[d]  BY <2>1, <2>2 DEF TypeOK
    <3> QED  BY <1>d, <2>1, <2>2, <3>1, Zenon
  <2>3. CASE d = c
    <3>1. outbox'[d] = Tail(outbox[d])  BY <2>1, <2>3 DEF TypeOK
    <3> QED  BY <1>b, <2>1, <2>3, <3>1, TurnRead, Zenon
  <2> QED  BY <2>2, <2>3
<1>5. ASSUME NEW c \in Conns, NEW e \in Events, Submit(c, e) PROVE InTurn(d)' /\ Forward(d)
  <2>1. /\ UNCHANGED <<view, outbox>>
        /\ wpc'[d] \in {"new", "registering"} => wpc[d] \in {"new", "registering"}
    <3>1. UNCHANGED <<view, outbox>> /\ wpc' = [wpc EXCEPT ![c] = "waiting"]  BY <1>5, Zenon DEF Submit
    <3>2. DOMAIN wpc = Conns  BY DEF TypeOK
    <3> QED  BY <3>1, <3>2
  <2> QED  BY <1>d, <2>1, Zenon
<1>6. ASSUME NEW c \in Conns, Disconnect(c) PROVE InTurn(d)' /\ Forward(d)
  <2>1. /\ UNCHANGED view /\ wpc' = [wpc EXCEPT ![c] = "gone"]
        /\ outbox' = [outbox EXCEPT ![c] = << >>]
    BY <1>6 DEF Disconnect
  <2>a. DOMAIN outbox = Conns /\ DOMAIN wpc = Conns  BY Zenon DEF TypeOK
  <2>2. CASE d # c
    <3>1. outbox'[d] = outbox[d] /\ wpc'[d] = wpc[d]  BY <2>1, <2>2, <2>a
    <3> QED  BY <1>d, <2>1, <3>1
  <2>3. CASE d = c
    <3>1. outbox'[d] = << >> /\ wpc'[d] = "gone" /\ view'[d] = view[d]  BY <2>1, <2>3, <2>a
    <3>2. view[d].epoch \in Nat  BY DEF TypeOK
    <3>3. EpochsIn(<< >>, view[d].epoch, authority'.epoch)  BY DEF EpochsIn
    <3>4. InTurn(d) /\ Forward(d)  BY <1>b, <3>1
    <3>5. view[d].epoch <= authority'.epoch  BY <1>a, <3>2, <3>4 DEF InTurn
    <3>6. InTurn(d)'  BY <3>1, <3>3, <3>4, <3>5, Zenon DEF InTurn
    <3> QED  BY <3>4, <3>6
  <2> QED  BY <2>2, <2>3
<1>7. CASE publish_registration
  <2>1. PICK c \in Conns : acct.conn = c /\ acct.pc = "publish"
    BY <1>7, Zenon DEF publish_registration, TypeOK
  <2>2. PICK m : m = [type |-> "RegisterAck", epoch |-> acct.epoch,
                      accounting_generation |-> acct.accounting_generation]
    BY Zenon
  <2>3. /\ m \in ToWorker /\ m.epoch <= authority.epoch /\ m.accounting_generation = m.epoch
    BY <2>1, <2>2, Zenon DEF TypeOK, EpochsInTurn, ToWorker
  <2>4. outbox' = Delivered(c, m) /\ UNCHANGED <<authority, view, wpc>>
    BY <1>7, <2>1, <2>2, Zenon DEF publish_registration
  <2>5. CASE d # c \/ ~Live(d)
    <3>1. outbox'[d] = outbox[d]  BY <2>4, <2>5, Zenon DEF Delivered, Live, TypeOK
    <3> QED  BY <1>d, <2>4, <3>1, Zenon
  <2>6. CASE d = c /\ Live(d)
    <3>1. outbox'[d] = Append(outbox[d], m)  BY <2>4, <2>6 DEF Delivered, Live, TypeOK
    <3>2. wpc[d] = "registering" /\ outbox[d] = << >>
      BY <2>1, <2>6, Zenon DEF OneAtATime, Publishing
    <3>3. view[d].epoch = 0  BY <1>b, <3>2, Zenon DEF InTurn
    <3> QED  BY <1>b, <2>3, <2>4, <3>1, <3>2, <3>3, TurnSent, Zenon
  <2> QED  BY <2>5, <2>6, Zenon
<1>8. CASE send_rolls
  <2>1. UNCHANGED <<authority, view, wpc>> /\ (outbox'[d] = outbox[d] \/ outbox'[d] = Append(outbox[d], Roll))
    BY <1>8, Zenon DEF send_rolls, Delivered, TypeOK
  <2>2. /\ Roll \in ToWorker /\ Roll.epoch = authority.epoch /\ Roll.accounting_generation = Roll.epoch
    BY Zenon DEF TypeOK, LedgerInv, Roll, ToWorker, AuthorityState
  <2>3. CASE outbox'[d] = outbox[d]  BY <1>d, <2>1, <2>3, Zenon
  <2>4. CASE outbox'[d] = Append(outbox[d], Roll)
    BY <1>b, <2>1, <2>2, <2>4, TurnSent, Zenon
  <2> QED  BY <2>1, <2>3, <2>4, Zenon
<1>9. CASE handle_event
  <2>1. UNCHANGED <<view, wpc>>  BY <1>9 DEF handle_event
  <2>2. authority'.epoch = authority.epoch
    BY <1>9, Zenon DEF handle_event, AuthorityFor, RequestAdopted, TypeOK, AuthorityState
  <2>3. PICK e \in Events : e = Head(queue).entry
    <3>a. queue # << >> /\ Head(queue).kind = "Event"  BY <1>9, Zenon DEF handle_event, Dequeue
    <3>b. queue \in Seq(WorkItem)  BY DEF TypeOK
    <3>1. Head(queue) \in WorkItem /\ Head(queue).kind = "Event"  BY <3>a, <3>b
    <3> QED  BY <3>1 DEF WorkItem
  <2>4. PICK m : m = [type |-> "EventAck",
                      status |-> append_status(e, {AuthorityFor(e)}, entries, index)]
    BY Zenon
  <2>5. m \in ToWorker /\ m \notin EpochFrames
    BY <2>4, StatusType DEF ToWorker, EpochFrames
  <2>6. outbox'[d] = outbox[d] \/ outbox'[d] = Append(outbox[d], m)
    <3>1. UNCHANGED outbox \/ outbox' = Delivered(Head(queue).conn, m)
      BY <1>9, <2>3, <2>4 DEF handle_event
    <3>a. DOMAIN outbox = Conns  BY Zenon DEF TypeOK
    <3>2. CASE Head(queue).conn # d  BY <3>1, <3>2, <3>a, Zenon DEF Delivered
    <3>3. CASE Head(queue).conn = d  BY <3>1, <3>3, <3>a, Zenon DEF Delivered
    <3> QED  BY <3>2, <3>3
  <2>7. CASE outbox'[d] = outbox[d]  BY <1>d, <2>1, <2>7, Zenon
  <2>8. CASE outbox'[d] = Append(outbox[d], m)
    BY <1>b, <2>1, <2>2, <2>5, <2>8, TurnSent, Zenon
  <2> QED  BY <2>6, <2>7, <2>8, Zenon
<1>10. CASE UNCHANGED <<view, outbox, wpc>>
  BY <1>d, <1>10
<1> QED
  BY <1>2, <1>3, <1>4, <1>5, <1>6, <1>7, <1>8, <1>9, <1>10, Zenon
  DEF Next, WorkerNext, ReaderNext, AccountingNext, ApiNext, vars, read_message, read_failure,
      handle_registration, handle_worker_lost, roll_epoch, advance_epoch, set_request_authority,
      enqueue_event

==============================================================================
