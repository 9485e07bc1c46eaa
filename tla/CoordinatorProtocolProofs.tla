--------------------- MODULE CoordinatorProtocolProofs ---------------------
(***************************************************************************)
(* Proofs about the protocol between the coordinator and its workers, for  *)
(* any number of connections, events and calls: what the frames in flight  *)
(* and the items in the queue can be, in every interleaving of workers,    *)
(* readers, the accounting thread and callers.                             *)
(***************************************************************************)
EXTENDS CoordinatorAnswerProofs, FiniteSetTheorems

-----------------------------------------------------------------------------
(* The inductive invariants *)

(***************************************************************************)
(* The number of elements of s that are in T.                              *)
(***************************************************************************)
NumOf(s, T) == Cardinality({k \in 1..Len(s) : s[k] \in T})

One(b) == IF b THEN 1 ELSE 0

RegisterFrames == {m \in ToCoordinator : m.type = "Register"}
RegisterItems(c) == {w \in WorkItem : w.kind = "Register" /\ w.conn = c}

(***************************************************************************)
(* The Register of a connection is in one place at most: its frame unread, *)
(* in the queue, being published, or done.                                 *)
(***************************************************************************)
Registrations(c) ==
  NumOf(inbox[c], RegisterFrames) + NumOf(queue, RegisterItems(c))
    + One(Publishing(c)) + One(registered[c])

RegisteredOnce(c) == Registrations(c) <= One(wpc[c] # "new")

(***************************************************************************)
(* OneAnswerPerEvent for one connection, counted over sets.                *)
(***************************************************************************)
Answers(c) ==
  NumOf(inbox[c], SubmitFrames) + NumOf(queue, EventItems(c)) + NumOf(outbox[c], AckFrames)

AnsweredOnce(c) == Live(c) => Answers(c) = One(wpc[c] = "waiting")

(***************************************************************************)
(* What can lie in the channel to a worker.                                *)
(***************************************************************************)
FramesInTurn(c) ==
  /\ wpc[c] \in {"new", "gone"} => outbox[c] = << >>
  /\ wpc[c] = "registering" =>
       IF registered[c]
       THEN /\ outbox[c] # << >>
            /\ outbox[c][1].type = "RegisterAck"
            /\ \A k \in 2..Len(outbox[c]) : outbox[c][k].type = "Roll"
       ELSE outbox[c] = << >>
  /\ wpc[c] \in {"ready", "waiting"} =>
       /\ registered[c]
       /\ \A k \in 1..Len(outbox[c]) : outbox[c][k].type \in {"Roll", "EventAck"}

Handshake(c) == RegisteredOnce(c) /\ AnsweredOnce(c) /\ FramesInTurn(c)

HandshakeInv == \A c \in Conns : Handshake(c)

-----------------------------------------------------------------------------
(* Counting in a channel *)

(***************************************************************************)
(* The positions counted are a finite set.                                 *)
(***************************************************************************)
LEMMA CountType ==
  ASSUME NEW S, NEW s \in Seq(S), NEW T
  PROVE  /\ IsFiniteSet({k \in 1..Len(s) : s[k] \in T})
         /\ NumOf(s, T) \in Nat
<1>1. Len(s) \in Nat  OBVIOUS
<1>2. IsFiniteSet(1..Len(s))  BY <1>1, FS_Interval
<1>3. {k \in 1..Len(s) : s[k] \in T} \in SUBSET (1..Len(s))  OBVIOUS
<1>4. IsFiniteSet({k \in 1..Len(s) : s[k] \in T})  BY <1>2, <1>3, FS_Subset
<1> QED  BY <1>4, FS_CardinalityType DEF NumOf

(***************************************************************************)
(* An empty channel counts nothing.                                        *)
(***************************************************************************)
LEMMA CountEmpty ==
  ASSUME NEW T
  PROVE  NumOf(<< >>, T) = 0
<1>1. {k \in 1..Len(<< >>) : << >>[k] \in T} = {}  OBVIOUS
<1> QED  BY <1>1, FS_EmptySet DEF NumOf

(***************************************************************************)
(* Nothing is counted exactly when no element is of the kind.              *)
(***************************************************************************)
LEMMA CountZero ==
  ASSUME NEW S, NEW s \in Seq(S), NEW T
  PROVE  NumOf(s, T) = 0 <=> \A k \in 1..Len(s) : s[k] \notin T
<1> DEFINE K == {k \in 1..Len(s) : s[k] \in T}
<1>1. IsFiniteSet(K)  BY CountType, Zenon
<1>2. Cardinality(K) = 0 <=> K = {}  BY <1>1, FS_EmptySet, Zenon
<1> QED  BY <1>2 DEF NumOf

(***************************************************************************)
(* Appending counts the new element.                                       *)
(***************************************************************************)
LEMMA CountAppend ==
  ASSUME NEW S, NEW s \in Seq(S), NEW m \in S, NEW T
  PROVE  NumOf(Append(s, m), T) = NumOf(s, T) + One(m \in T)
<1> DEFINE n == Len(s)
           K == {k \in 1..n : s[k] \in T}
           L == {k \in 1..Len(Append(s, m)) : Append(s, m)[k] \in T}
<1>1. n \in Nat /\ Len(Append(s, m)) = n + 1  OBVIOUS
<1>2. \A k \in 1..n : Append(s, m)[k] = s[k]  OBVIOUS
<1>3. Append(s, m)[n + 1] = m  OBVIOUS
<1>4. IsFiniteSet(K)  BY CountType, Zenon
<1>5. n + 1 \notin K  BY <1>1
<1>6. m \in T => L = K \cup {n + 1}  BY <1>1, <1>2, <1>3
<1>7. m \notin T => L = K  BY <1>1, <1>2, <1>3
<1>8. NumOf(s, T) = Cardinality(K) /\ NumOf(Append(s, m), T) = Cardinality(L)  BY DEF NumOf
<1> HIDE DEF K, L
<1>9. Cardinality(K) \in Nat  BY <1>4, FS_CardinalityType
<1>10. Cardinality(K \cup {n + 1}) = Cardinality(K) + 1  BY <1>4, <1>5, FS_AddElement, Zenon
<1>11. CASE m \in T  BY <1>6, <1>8, <1>10, <1>11, Zenon DEF One
<1>12. CASE m \notin T  BY <1>7, <1>8, <1>9, <1>12 DEF One
<1> QED  BY <1>11, <1>12

(***************************************************************************)
(* Taking the head uncounts it.                                            *)
(***************************************************************************)
LEMMA CountTail ==
  ASSUME NEW S, NEW s \in Seq(S), s # << >>, NEW T
  PROVE  NumOf(Tail(s), T) = NumOf(s, T) - One(Head(s) \in T)
<1> DEFINE n == Len(s)
           K == {k \in 1..n : s[k] \in T}
           L == {k \in 1..Len(Tail(s)) : Tail(s)[k] \in T}
           M == {k \in 2..n : s[k] \in T}
<1>1. n \in Nat \ {0} /\ Len(Tail(s)) = n - 1 /\ Head(s) = s[1]  OBVIOUS
<1>2. \A k \in 1..(n - 1) : Tail(s)[k] = s[k + 1]  OBVIOUS
<1>3. IsFiniteSet(K)  BY CountType, Zenon
<1>4. M = K \ {1}  BY <1>1
<1>5. NumOf(s, T) = Cardinality(K) /\ NumOf(Tail(s), T) = Cardinality(L)  BY DEF NumOf
<1>6. 1 \in K <=> Head(s) \in T  BY <1>1
<1>7. ExistsBijection(M, L)
  <2> DEFINE f == [k \in M |-> k - 1]
  <2>1. f \in [M -> L]  BY <1>1, <1>2
  <2>2. \A a, b \in M : f[a] = f[b] => a = b  BY <1>1
  <2>3. ASSUME NEW t \in L PROVE \E k \in M : f[k] = t
    <3>1. t + 1 \in M /\ f[t + 1] = t  BY <1>1, <1>2
    <3> QED  BY <3>1
  <2>4. f \in Bijection(M, L)  BY <2>1, <2>2, <2>3 DEF Bijection, Injection, Surjection, IsInjective
  <2> QED  BY <2>4 DEF ExistsBijection
<1> HIDE DEF K, L, M
<1>8. IsFiniteSet(M) /\ Cardinality(M) = IF 1 \in K THEN Cardinality(K) - 1 ELSE Cardinality(K)
  BY <1>3, <1>4, FS_RemoveElement
<1>9. Cardinality(L) = Cardinality(M)  BY <1>7, <1>8, FS_Bijection
<1>10. Cardinality(K) \in Nat  BY <1>3, FS_CardinalityType
<1> QED  BY <1>5, <1>6, <1>8, <1>9, <1>10 DEF One

-----------------------------------------------------------------------------
(* The registration and the answers *)

(***************************************************************************)
(* The counts of a connection are numbers.                                 *)
(***************************************************************************)
LEMMA CountsAreNat ==
  ASSUME TypeOK, NEW c \in Conns
  PROVE  /\ inbox[c] \in Seq(ToCoordinator) /\ outbox[c] \in Seq(ToWorker)
         /\ queue \in Seq(WorkItem)
         /\ NumOf(inbox[c], RegisterFrames) \in Nat
         /\ NumOf(inbox[c], SubmitFrames) \in Nat
         /\ NumOf(queue, RegisterItems(c)) \in Nat
         /\ NumOf(queue, EventItems(c)) \in Nat
         /\ NumOf(outbox[c], AckFrames) \in Nat
<1>1. inbox[c] \in Seq(ToCoordinator) /\ outbox[c] \in Seq(ToWorker) /\ queue \in Seq(WorkItem)
  BY DEF TypeOK
<1> QED  BY <1>1, CountType, Zenon

LEMMA OneType ==
  ASSUME NEW b
  PROVE  One(b) \in Nat
  BY DEF One

(***************************************************************************)
(* A step that leaves the channels, the state and the items of a           *)
(* connection alone keeps its part of the invariant.                       *)
(***************************************************************************)
LEMMA HandshakeFrame ==
  ASSUME NEW d \in Conns, Handshake(d),
         inbox'[d] = inbox[d], outbox'[d] = outbox[d], wpc'[d] = wpc[d],
         registered'[d] = registered[d], Publishing(d)' <=> Publishing(d),
         NumOf(queue', RegisterItems(d)) = NumOf(queue, RegisterItems(d)),
         NumOf(queue', EventItems(d)) = NumOf(queue, EventItems(d))
  PROVE  Handshake(d)'
<1>1. One(Publishing(d))' = One(Publishing(d))  BY DEF One
<1>2. RegisteredOnce(d)'  BY <1>1 DEF Handshake, RegisteredOnce, Registrations
<1>3. AnsweredOnce(d)'  BY DEF Handshake, AnsweredOnce, Answers, Live
<1>4. FramesInTurn(d)'  BY DEF Handshake, FramesInTurn
<1> QED  BY <1>2, <1>3, <1>4 DEF Handshake

(***************************************************************************)
(* An item put on the queue is counted for its own connection.             *)
(***************************************************************************)
LEMMA QueuePush ==
  ASSUME TypeOK, NEW w \in WorkItem, queue' = Append(queue, w), NEW d \in Conns
  PROVE  /\ NumOf(queue', RegisterItems(d)) =
              NumOf(queue, RegisterItems(d)) + One(w.kind = "Register" /\ w.conn = d)
         /\ NumOf(queue', EventItems(d)) =
              NumOf(queue, EventItems(d)) + One(w.kind = "Event" /\ w.conn = d)
<1>1. queue \in Seq(WorkItem)  BY DEF TypeOK
<1>2. w \in RegisterItems(d) <=> (w.kind = "Register" /\ w.conn = d)  BY DEF RegisterItems
<1>3. w \in EventItems(d) <=> (w.kind = "Event" /\ w.conn = d)  BY DEF EventItems
<1>4. One(w \in RegisterItems(d)) = One(w.kind = "Register" /\ w.conn = d)  BY <1>2 DEF One
<1>5. One(w \in EventItems(d)) = One(w.kind = "Event" /\ w.conn = d)  BY <1>3 DEF One
<1> QED  BY <1>1, <1>4, <1>5, CountAppend

(***************************************************************************)
(* An item taken off the queue is no longer counted.                       *)
(***************************************************************************)
LEMMA QueuePop ==
  ASSUME TypeOK, queue # << >>, queue' = Tail(queue), NEW d \in Conns
  PROVE  /\ NumOf(queue', RegisterItems(d)) = NumOf(queue, RegisterItems(d))
              - One(Head(queue).kind = "Register" /\ Head(queue).conn = d)
         /\ NumOf(queue', EventItems(d)) = NumOf(queue, EventItems(d))
              - One(Head(queue).kind = "Event" /\ Head(queue).conn = d)
<1> DEFINE w == Head(queue)
<1>1. queue \in Seq(WorkItem) /\ w \in WorkItem  BY DEF TypeOK
<1>2. w \in RegisterItems(d) <=> (w.kind = "Register" /\ w.conn = d)  BY <1>1 DEF RegisterItems
<1>3. w \in EventItems(d) <=> (w.kind = "Event" /\ w.conn = d)  BY <1>1 DEF EventItems
<1>4. One(w \in RegisterItems(d)) = One(w.kind = "Register" /\ w.conn = d)  BY <1>2 DEF One
<1>5. One(w \in EventItems(d)) = One(w.kind = "Event" /\ w.conn = d)  BY <1>3 DEF One
<1> QED  BY <1>1, <1>4, <1>5, CountTail

(***************************************************************************)
(* The initial state: every channel is empty.                              *)
(***************************************************************************)
LEMMA HandshakeInit == Init => HandshakeInv
<1> SUFFICES ASSUME Init, NEW c \in Conns PROVE Handshake(c)
  BY DEF HandshakeInv
<1>1. /\ inbox[c] = << >> /\ outbox[c] = << >> /\ queue = << >>
      /\ wpc[c] = "new" /\ registered[c] = FALSE /\ acct.pc = "idle"
  BY DEF Init, Idle
<1>2. /\ NumOf(inbox[c], RegisterFrames) = 0 /\ NumOf(inbox[c], SubmitFrames) = 0
      /\ NumOf(queue, RegisterItems(c)) = 0 /\ NumOf(queue, EventItems(c)) = 0
      /\ NumOf(outbox[c], AckFrames) = 0
  BY <1>1, CountEmpty
<1>3. RegisteredOnce(c)
  BY <1>1, <1>2 DEF RegisteredOnce, Registrations, One, Publishing
<1>4. AnsweredOnce(c)
  BY <1>1, <1>2 DEF AnsweredOnce, Answers, One
<1>5. FramesInTurn(c)  BY <1>1 DEF FramesInTurn
<1> QED  BY <1>3, <1>4, <1>5 DEF Handshake

(***************************************************************************)
(* A worker's own steps.  Connect puts the one Register on its way, Submit *)
(* the one event; reading an answer takes it out of the channel.           *)
(***************************************************************************)
LEMMA HandshakeWorker ==
  ASSUME TypeOK, HandshakeInv, WorkerNext
  PROVE  HandshakeInv'
<1> USE DEF ledgerVars, connVars, workerVars
<1>1. ASSUME NEW c \in Conns, Connect(c) PROVE HandshakeInv'
  <2> DEFINE m == [type |-> "Register"]
  <2>1. /\ wpc[c] = "new" /\ wpc'[c] = "registering" /\ inbox'[c] = Append(inbox[c], m)
        /\ \A d \in Conns \ {c} : wpc'[d] = wpc[d] /\ inbox'[d] = inbox[d]
        /\ UNCHANGED <<queue, acct, registered, outbox>>
    BY <1>1 DEF Connect, TypeOK
  <2>2. Handshake(c)'
    <3>1. m \in ToCoordinator /\ m \in RegisterFrames /\ m \notin SubmitFrames
      BY DEF ToCoordinator, RegisterFrames, SubmitFrames
    <3>2. /\ NumOf(inbox'[c], RegisterFrames) = NumOf(inbox[c], RegisterFrames) + 1
          /\ NumOf(inbox'[c], SubmitFrames) = NumOf(inbox[c], SubmitFrames)
      BY <2>1, <3>1, CountAppend, CountsAreNat DEF One
    <3>3. /\ NumOf(inbox[c], RegisterFrames) = 0 /\ NumOf(queue, RegisterItems(c)) = 0
          /\ ~Publishing(c) /\ ~registered[c]
      BY <2>1, CountsAreNat DEF HandshakeInv, Handshake, RegisteredOnce, Registrations, One
    <3>4. RegisteredOnce(c)'
      BY <2>1, <3>2, <3>3 DEF RegisteredOnce, Registrations, One, Publishing
    <3>5. AnsweredOnce(c)'
      BY <2>1, <3>2 DEF HandshakeInv, Handshake, AnsweredOnce, Answers, One, Live
    <3>6. FramesInTurn(c)'
      BY <2>1, <3>3 DEF HandshakeInv, Handshake, FramesInTurn
    <3> QED  BY <3>4, <3>5, <3>6 DEF Handshake
  <2>3. \A d \in Conns \ {c} : Handshake(d)'
    BY <2>1, HandshakeFrame DEF HandshakeInv, Publishing
  <2> QED  BY <2>2, <2>3 DEF HandshakeInv
<1>2. ASSUME NEW c \in Conns, ReceiveRegisterAck(c) PROVE HandshakeInv'
  <2>1. /\ wpc[c] = "registering" /\ wpc'[c] = "ready"
        /\ outbox[c] # << >> /\ outbox'[c] = Tail(outbox[c])
        /\ Head(outbox[c]).type = "RegisterAck"
        /\ \A d \in Conns \ {c} : wpc'[d] = wpc[d] /\ outbox'[d] = outbox[d]
        /\ UNCHANGED <<queue, acct, registered, inbox>>
    BY <1>2 DEF ReceiveRegisterAck, TypeOK
  <2>2. Handshake(c)'
    <3>1. Head(outbox[c]) \notin AckFrames  BY <2>1 DEF AckFrames
    <3>2. NumOf(outbox'[c], AckFrames) = NumOf(outbox[c], AckFrames)
      BY <2>1, <3>1, CountTail, CountsAreNat DEF One
    <3>3. RegisteredOnce(c)'
      BY <2>1 DEF HandshakeInv, Handshake, RegisteredOnce, Registrations, One, Publishing
    <3>4. AnsweredOnce(c)'
      BY <2>1, <3>2 DEF HandshakeInv, Handshake, AnsweredOnce, Answers, One, Live
    <3>5. /\ registered[c]
          /\ \A k \in 2..Len(outbox[c]) : outbox[c][k].type = "Roll"
      BY <2>1 DEF HandshakeInv, Handshake, FramesInTurn
    <3>6. \A k \in 1..Len(outbox'[c]) : k + 1 \in 2..Len(outbox[c]) /\ outbox'[c][k] = outbox[c][k + 1]
      BY <2>1, CountsAreNat
    <3>7. FramesInTurn(c)'
      BY <2>1, <3>5, <3>6 DEF FramesInTurn
    <3> QED  BY <3>3, <3>4, <3>7 DEF Handshake
  <2>3. \A d \in Conns \ {c} : Handshake(d)'
    BY <2>1, HandshakeFrame DEF HandshakeInv, Publishing
  <2> QED  BY <2>2, <2>3 DEF HandshakeInv
<1>3. ASSUME NEW c \in Conns, NEW e \in Events, Submit(c, e) PROVE HandshakeInv'
  <2> DEFINE m == [type |-> "EventSubmit", entry |-> e]
  <2>1. /\ wpc[c] = "ready" /\ wpc'[c] = "waiting" /\ inbox'[c] = Append(inbox[c], m)
        /\ \A d \in Conns \ {c} : wpc'[d] = wpc[d] /\ inbox'[d] = inbox[d]
        /\ UNCHANGED <<queue, acct, registered, outbox>>
    BY <1>3 DEF Submit, TypeOK
  <2>2. Handshake(c)'
    <3>1. m \in ToCoordinator /\ m \notin RegisterFrames /\ m \in SubmitFrames
      BY DEF ToCoordinator, RegisterFrames, SubmitFrames
    <3>2. /\ NumOf(inbox'[c], RegisterFrames) = NumOf(inbox[c], RegisterFrames)
          /\ NumOf(inbox'[c], SubmitFrames) = NumOf(inbox[c], SubmitFrames) + 1
      BY <2>1, <3>1, CountAppend, CountsAreNat DEF One
    <3>3. RegisteredOnce(c)'
      BY <2>1, <3>2 DEF HandshakeInv, Handshake, RegisteredOnce, Registrations, One, Publishing
    <3>4. AnsweredOnce(c)'
      <4>1. Answers(c) = 0
        BY <2>1 DEF HandshakeInv, Handshake, AnsweredOnce, One, Live
      <4>2. Answers(c)' = Answers(c) + 1
        BY <2>1, <3>2, CountsAreNat DEF Answers
      <4> QED  BY <2>1, <4>1, <4>2 DEF AnsweredOnce, One
    <3>5. FramesInTurn(c)'
      BY <2>1 DEF HandshakeInv, Handshake, FramesInTurn
    <3> QED  BY <3>3, <3>4, <3>5 DEF Handshake
  <2>3. \A d \in Conns \ {c} : Handshake(d)'
    BY <2>1, HandshakeFrame DEF HandshakeInv, Publishing
  <2> QED  BY <2>2, <2>3 DEF HandshakeInv
<1>4. ASSUME NEW c \in Conns, ReceiveRoll(c) \/ ReceiveEventAck(c) PROVE HandshakeInv'
  <2>1. /\ wpc[c] = "waiting" /\ outbox[c] # << >> /\ outbox'[c] = Tail(outbox[c])
        /\ \/ Head(outbox[c]).type = "Roll" /\ wpc'[c] = "waiting"
           \/ Head(outbox[c]).type = "EventAck" /\ wpc'[c] = "ready"
        /\ \A d \in Conns \ {c} : wpc'[d] = wpc[d] /\ outbox'[d] = outbox[d]
        /\ UNCHANGED <<queue, acct, registered, inbox>>
    BY <1>4, Zenon DEF ReceiveRoll, ReceiveEventAck, TypeOK
  <2>2. Handshake(c)'
    <3>1. Head(outbox[c]) \in ToWorker
      <4>1. outbox[c] \in Seq(ToWorker)  BY CountsAreNat
      <4> QED  BY <2>1, <4>1
    <3>2. NumOf(outbox'[c], AckFrames) =
            NumOf(outbox[c], AckFrames) - One(Head(outbox[c]).type = "EventAck")
      <4>1. Head(outbox[c]) \in AckFrames <=> Head(outbox[c]).type = "EventAck"
        BY <3>1 DEF AckFrames
      <4>2. One(Head(outbox[c]) \in AckFrames) = One(Head(outbox[c]).type = "EventAck")
        BY <4>1 DEF One
      <4> QED  BY <2>1, <4>2, CountTail, CountsAreNat, SMTT(30)
    <3>3. RegisteredOnce(c)'
      BY <2>1 DEF HandshakeInv, Handshake, RegisteredOnce, Registrations, One, Publishing
    <3>4. AnsweredOnce(c)'
      <4>1. Answers(c) = 1
        BY <2>1 DEF HandshakeInv, Handshake, AnsweredOnce, One, Live
      <4>2. Answers(c)' = Answers(c) - One(Head(outbox[c]).type = "EventAck")
        <5> DEFINE n == One(Head(outbox[c]).type = "EventAck")
        <5>1. n \in Nat  BY OneType
        <5>2. NumOf(outbox'[c], AckFrames) = NumOf(outbox[c], AckFrames) - n  BY <3>2
        <5> HIDE DEF n
        <5> DEFINE i == NumOf(inbox[c], SubmitFrames)
                   q == NumOf(queue, EventItems(c))
                   o == NumOf(outbox[c], AckFrames)
        <5>3. Answers(c)' = i + q + (o - n) /\ Answers(c) = i + q + o
          BY <2>1, <5>2, Zenon DEF Answers
        <5>4. i \in Nat /\ q \in Nat /\ o \in Nat  BY CountsAreNat, Zenon
        <5> HIDE DEF i, q, o
        <5>5. Answers(c)' = Answers(c) - n  BY <5>1, <5>3, <5>4
        <5> QED  BY <5>5 DEF n
      <4> QED  BY <2>1, <4>1, <4>2 DEF AnsweredOnce, One
    <3>5. \A k \in 1..Len(outbox'[c]) : k + 1 \in 1..Len(outbox[c]) /\ outbox'[c][k] = outbox[c][k + 1]
      BY <2>1, CountsAreNat
    <3>6. FramesInTurn(c)'
      BY <2>1, <3>5 DEF HandshakeInv, Handshake, FramesInTurn
    <3> QED  BY <3>3, <3>4, <3>6 DEF Handshake
  <2>3. \A d \in Conns \ {c} : Handshake(d)'
    BY <2>1, HandshakeFrame DEF HandshakeInv, Publishing
  <2> QED  BY <2>2, <2>3 DEF HandshakeInv
<1>5. ASSUME NEW c \in Conns, Disconnect(c) PROVE HandshakeInv'
  <2>1. /\ wpc[c] # "new" /\ wpc'[c] = "gone" /\ outbox'[c] = << >>
        /\ inbox'[c] = inbox[c] \/ inbox'[c] = << >>
        /\ \A d \in Conns \ {c} : wpc'[d] = wpc[d] /\ outbox'[d] = outbox[d] /\ inbox'[d] = inbox[d]
        /\ UNCHANGED <<queue, acct, registered>>
    BY <1>5 DEF Disconnect, TypeOK
  <2>2. Handshake(c)'
    <3>1. NumOf(inbox'[c], RegisterFrames) <= NumOf(inbox[c], RegisterFrames)
      BY <2>1, CountEmpty, CountsAreNat
    <3>2. NumOf(inbox'[c], RegisterFrames) \in Nat  BY <2>1, CountEmpty, CountsAreNat
    <3>3. RegisteredOnce(c)'
      BY <2>1, <3>1, <3>2, CountsAreNat, SMTT(30)
      DEF HandshakeInv, Handshake, RegisteredOnce, Registrations, One, Publishing
    <3>4. AnsweredOnce(c)' /\ FramesInTurn(c)'
      BY <2>1, Zenon DEF AnsweredOnce, Live, FramesInTurn
    <3> QED  BY <3>3, <3>4 DEF Handshake
  <2>3. \A d \in Conns \ {c} : Handshake(d)'
    BY <2>1, HandshakeFrame, Zenon DEF HandshakeInv, Publishing
  <2> QED  BY <2>2, <2>3 DEF HandshakeInv
<1> QED  BY <1>1, <1>2, <1>3, <1>4, <1>5 DEF WorkerNext

(***************************************************************************)
(* read_loop turns each frame into one item of the same kind, and the      *)
(* report of a loss is neither.                                            *)
(***************************************************************************)
LEMMA HandshakeReader ==
  ASSUME TypeOK, HandshakeInv, ReaderNext
  PROVE  HandshakeInv'
<1> USE DEF ledgerVars, connVars, workerVars
<1>1. ASSUME NEW c \in Conns, read_message(c) PROVE HandshakeInv'
  <2> DEFINE m == Head(inbox[c])
             w == IF m.type = "Register" THEN [kind |-> "Register", conn |-> c]
                  ELSE [kind |-> "Event", conn |-> c, entry |-> m.entry]
  <2>1. /\ inbox[c] # << >> /\ inbox'[c] = Tail(inbox[c]) /\ queue' = Append(queue, w)
        /\ \A d \in Conns \ {c} : inbox'[d] = inbox[d]
        /\ UNCHANGED <<wpc, acct, registered, outbox>>
    BY <1>1 DEF read_message, TypeOK
  <2>2. m \in ToCoordinator
    <3>1. inbox \in [Conns -> Seq(ToCoordinator)]  BY DEF TypeOK
    <3> QED  BY <2>1, <3>1, ChannelType, Zenon
  <2>3. \/ m.type = "Register"
        \/ m.type = "EventSubmit" /\ m.entry \in Events
    BY <2>2 DEF ToCoordinator
  <2>4. /\ w \in WorkItem /\ w.conn = c
        /\ m.type = "Register" => w.kind = "Register"
        /\ m.type = "EventSubmit" => w.kind = "Event"
    BY <2>3 DEF WorkItem
  <2>5. \A d \in Conns \ {c} : One(w.kind = "Register" /\ w.conn = d) = 0
                            /\ One(w.kind = "Event" /\ w.conn = d) = 0
    BY <2>4 DEF One
  <2>6. \A d \in Conns :
          /\ NumOf(queue', RegisterItems(d)) =
               NumOf(queue, RegisterItems(d)) + One(w.kind = "Register" /\ w.conn = d)
          /\ NumOf(queue', EventItems(d)) =
               NumOf(queue, EventItems(d)) + One(w.kind = "Event" /\ w.conn = d)
    <3> HIDE DEF w
    <3> QED  BY <2>1, <2>4, QueuePush
  <2>7. /\ NumOf(inbox'[c], RegisterFrames) =
             NumOf(inbox[c], RegisterFrames) - One(w.kind = "Register" /\ w.conn = c)
        /\ NumOf(inbox'[c], SubmitFrames) =
             NumOf(inbox[c], SubmitFrames) - One(w.kind = "Event" /\ w.conn = c)
    <3>1. One(m \in RegisterFrames) = One(w.kind = "Register" /\ w.conn = c)
      BY <2>2, <2>3, <2>4 DEF RegisterFrames, One
    <3>2. One(m \in SubmitFrames) = One(w.kind = "Event" /\ w.conn = c)
      BY <2>2, <2>3, <2>4 DEF SubmitFrames, One
    <3>3. inbox[c] \in Seq(ToCoordinator)  BY CountsAreNat
    <3>4. /\ NumOf(Tail(inbox[c]), RegisterFrames) = NumOf(inbox[c], RegisterFrames) - One(m \in RegisterFrames)
          /\ NumOf(Tail(inbox[c]), SubmitFrames) = NumOf(inbox[c], SubmitFrames) - One(m \in SubmitFrames)
      BY <2>1, <3>3, CountTail
    <3> HIDE DEF w, m
    <3> QED  BY <2>1, <3>1, <3>2, <3>4
  <2> HIDE DEF w
  <2>8. Handshake(c)'
    <3>1. Registrations(c)' = Registrations(c)
      <4>1. One(Publishing(c))' = One(Publishing(c)) /\ One(registered[c])' = One(registered[c])
        BY <2>1 DEF Publishing
      <4> DEFINE n == One(w.kind = "Register" /\ w.conn = c)
      <4>2. n \in Nat /\ One(Publishing(c)) \in Nat /\ One(registered[c]) \in Nat  BY OneType
      <4>3. /\ NumOf(inbox'[c], RegisterFrames) = NumOf(inbox[c], RegisterFrames) - n
            /\ NumOf(queue', RegisterItems(c)) = NumOf(queue, RegisterItems(c)) + n
        BY <2>6, <2>7
      <4> HIDE DEF n
      <4> DEFINE i == NumOf(inbox[c], RegisterFrames)
                 q == NumOf(queue, RegisterItems(c))
                 p == One(Publishing(c))
                 r == One(registered[c])
      <4>4. Registrations(c)' = (i - n) + (q + n) + p + r /\ Registrations(c) = i + q + p + r
        BY <4>1, <4>3, Zenon DEF Registrations
      <4>5. i \in Nat /\ q \in Nat /\ p \in Nat /\ r \in Nat  BY <4>2, CountsAreNat, Zenon
      <4> HIDE DEF i, q, p, r
      <4> QED  BY <4>2, <4>4, <4>5
    <3>2. Answers(c)' = Answers(c)
      <4> DEFINE n == One(w.kind = "Event" /\ w.conn = c)
      <4>1. n \in Nat  BY OneType
      <4>2. /\ NumOf(inbox'[c], SubmitFrames) = NumOf(inbox[c], SubmitFrames) - n
            /\ NumOf(queue', EventItems(c)) = NumOf(queue, EventItems(c)) + n
        BY <2>6, <2>7
      <4> HIDE DEF n
      <4> DEFINE i == NumOf(inbox[c], SubmitFrames)
                 q == NumOf(queue, EventItems(c))
                 o == NumOf(outbox[c], AckFrames)
      <4>3. Answers(c)' = (i - n) + (q + n) + o /\ Answers(c) = i + q + o
        BY <2>1, <4>2, Zenon DEF Answers
      <4>4. i \in Nat /\ q \in Nat /\ o \in Nat  BY CountsAreNat, Zenon
      <4> HIDE DEF i, q, o
      <4> QED  BY <4>1, <4>3, <4>4
    <3> QED
      BY <2>1, <3>1, <3>2
      DEF HandshakeInv, Handshake, RegisteredOnce, AnsweredOnce, FramesInTurn, Live
  <2>9. ASSUME NEW d \in Conns \ {c} PROVE Handshake(d)'
    <3>1. /\ NumOf(queue', RegisterItems(d)) = NumOf(queue, RegisterItems(d))
          /\ NumOf(queue', EventItems(d)) = NumOf(queue, EventItems(d))
      <4>1. /\ NumOf(queue', RegisterItems(d)) = NumOf(queue, RegisterItems(d)) + 0
            /\ NumOf(queue', EventItems(d)) = NumOf(queue, EventItems(d)) + 0
        BY <2>5, <2>6, Zenon
      <4>2. NumOf(queue, RegisterItems(d)) \in Nat /\ NumOf(queue, EventItems(d)) \in Nat
        BY CountsAreNat, Zenon
      <4> QED  BY <4>1, <4>2
    <3> QED  BY <2>1, <3>1, HandshakeFrame, Zenon DEF HandshakeInv, Publishing
  <2> QED  BY <2>8, <2>9 DEF HandshakeInv
<1>2. ASSUME NEW c \in Conns, read_failure(c), NEW d \in Conns PROVE Handshake(d)'
  <2>1. UNCHANGED <<wpc, acct, registered, outbox, inbox>>
    BY <1>2 DEF read_failure
  <2>2. /\ NumOf(queue', RegisterItems(d)) = NumOf(queue, RegisterItems(d))
        /\ NumOf(queue', EventItems(d)) = NumOf(queue, EventItems(d))
    <3>1. CASE queue' = queue  BY <3>1
    <3>2. CASE queue' # queue
      <4>1. PICK seen \in ConnSeen(c) :
              queue' = Append(queue, [kind |-> "WorkerLost", conn |-> c, worker |-> seen[2]])
        BY <1>2, <3>2 DEF read_failure
      <4> DEFINE w == [kind |-> "WorkerLost", conn |-> c, worker |-> seen[2]]
      <4>2. seen[2] \in Workers \cup {NoWorker}
        BY CoordinatorAssumption, SMTT(30) DEF TypeOK, ConnSeen
      <4>3. w \in WorkItem /\ w.kind = "WorkerLost"
        BY <4>2 DEF WorkItem
      <4>4. One(w.kind = "Register" /\ w.conn = d) = 0 /\ One(w.kind = "Event" /\ w.conn = d) = 0
        BY <4>3 DEF One
      <4> HIDE DEF w
      <4>5. /\ NumOf(queue', RegisterItems(d)) = NumOf(queue, RegisterItems(d)) + 0
            /\ NumOf(queue', EventItems(d)) = NumOf(queue, EventItems(d)) + 0
        BY <4>1, <4>3, <4>4, QueuePush DEF w
      <4> QED  BY <4>5, CountsAreNat
    <3> QED  BY <3>1, <3>2
  <2> QED  BY <2>1, <2>2, HandshakeFrame DEF HandshakeInv, Publishing
<1> QED  BY <1>1, <1>2 DEF ReaderNext, HandshakeInv

(***************************************************************************)
(* The steps of the accounting thread.  A Register taken off the queue is  *)
(* published once; an event taken off the queue is answered once.          *)
(***************************************************************************)
LEMMA HandshakeAccounting ==
  ASSUME TypeOK, HandshakeInv, AccountingNext
  PROVE  HandshakeInv'
<1> USE DEF ledgerVars, connVars, workerVars
<1>1. CASE handle_registration
  <2> DEFINE c == Head(queue).conn
  <2>1. /\ queue # << >> /\ queue' = Tail(queue) /\ Head(queue).kind = "Register"
        /\ acct.pc = "idle" /\ acct'.pc = "publish" /\ acct'.conn = c
        /\ UNCHANGED <<wpc, inbox, outbox, registered>>
    BY <1>1 DEF handle_registration, Dequeue, Idle
  <2>2. SUFFICES ASSUME NEW d \in Conns PROVE Handshake(d)'
    BY DEF HandshakeInv
  <2>3. ~Publishing(d) /\ (Publishing(d)' <=> c = d)  BY <2>1 DEF Publishing
  <2>4. /\ NumOf(queue', RegisterItems(d)) = NumOf(queue, RegisterItems(d)) - One(c = d)
        /\ NumOf(queue', EventItems(d)) = NumOf(queue, EventItems(d))
    <3>1. One(Head(queue).kind = "Register" /\ c = d) = One(c = d)
          /\ One(Head(queue).kind = "Event" /\ c = d) = 0
      BY <2>1 DEF One
    <3>2. /\ NumOf(queue', RegisterItems(d)) = NumOf(queue, RegisterItems(d)) - One(c = d)
          /\ NumOf(queue', EventItems(d)) = NumOf(queue, EventItems(d)) - 0
      BY <2>1, <3>1, QueuePop
    <3> QED  BY <3>2, CountsAreNat, SMTT(30)
  <2>5. Registrations(d)' = Registrations(d)
    <3>1. One(Publishing(d)') = One(c = d) /\ One(Publishing(d)) = 0  BY <2>3 DEF One
    <3> DEFINE n == One(c = d)
    <3>2. n \in Nat /\ One(registered[d]) \in Nat  BY OneType
    <3>3. NumOf(queue', RegisterItems(d)) = NumOf(queue, RegisterItems(d)) - n  BY <2>4
    <3>4. One(Publishing(d)') = n  BY <3>1
    <3> HIDE DEF n
    <3> DEFINE i == NumOf(inbox[d], RegisterFrames)
               q == NumOf(queue, RegisterItems(d))
               r == One(registered[d])
    <3>5. Registrations(d)' = i + (q - n) + n + r /\ Registrations(d) = i + q + 0 + r
      BY <2>1, <3>1, <3>3, <3>4, Zenon DEF Registrations
    <3>6. i \in Nat /\ q \in Nat /\ r \in Nat  BY <3>2, CountsAreNat, Zenon
    <3> HIDE DEF i, q, r
    <3> QED  BY <3>2, <3>5, <3>6
  <2>6. Answers(d)' = Answers(d)  BY <2>1, <2>4 DEF Answers
  <2> QED
    BY <2>1, <2>5, <2>6
    DEF HandshakeInv, Handshake, RegisteredOnce, AnsweredOnce, FramesInTurn, Live
<1>2. CASE publish_registration
  <2> DEFINE m == [type |-> "RegisterAck", epoch |-> acct.epoch,
                   accounting_generation |-> acct.accounting_generation]
  <2>1. PICK c \in Conns : acct.conn = c  BY <1>2 DEF publish_registration, TypeOK
  <2>2. /\ acct.pc = "publish" /\ acct'.pc = "idle"
        /\ registered'[c] = TRUE
        /\ \A d \in Conns \ {c} : registered'[d] = registered[d] /\ outbox'[d] = outbox[d]
        /\ outbox'[c] = IF wpc[c] = "gone" THEN outbox[c] ELSE Append(outbox[c], m)
        /\ UNCHANGED <<wpc, inbox, queue>>
    BY <1>2, <2>1 DEF publish_registration, Idle, Delivered, TypeOK
  <2>3. \A d \in Conns : ~Publishing(d)' /\ (Publishing(d) <=> d = c)  BY <2>1, <2>2 DEF Publishing
  <2>4. /\ ~registered[c] /\ wpc[c] # "new"
        /\ NumOf(inbox[c], RegisterFrames) = 0 /\ NumOf(queue, RegisterItems(c)) = 0
    <3>1. /\ NumOf(inbox[c], RegisterFrames) \in Nat /\ NumOf(queue, RegisterItems(c)) \in Nat
          /\ One(Publishing(c)) = 1
      BY <2>3, CountsAreNat, Zenon DEF One
    <3>2. NumOf(inbox[c], RegisterFrames) + NumOf(queue, RegisterItems(c)) + 1 + One(registered[c])
            <= One(wpc[c] # "new")
      BY <3>1, Zenon DEF HandshakeInv, Handshake, RegisteredOnce, Registrations
    <3> QED  BY <3>1, <3>2 DEF One
  <2>5. wpc[c] # "gone" => wpc[c] = "registering" /\ outbox[c] = << >>
    BY <2>1, <2>4, Zenon DEF HandshakeInv, Handshake, FramesInTurn, TypeOK
  <2>6. Handshake(c)'
    <3>1. RegisteredOnce(c)'
      <4>1. /\ NumOf(inbox'[c], RegisterFrames) = 0 /\ NumOf(queue', RegisterItems(c)) = 0
            /\ One(wpc'[c] # "new") = 1
        BY <2>2, <2>4, Zenon DEF One
      <4>2. One(Publishing(c)') = 0 /\ One(registered'[c]) = 1  BY <2>2, <2>3, Zenon DEF One
      <4>3. Registrations(c)' = 0 + 0 + 0 + 1  BY <4>1, <4>2, Zenon DEF Registrations
      <4>4. Registrations(c)' <= One(wpc'[c] # "new")  BY <4>1, <4>3
      <4> QED  BY <4>4, Zenon DEF RegisteredOnce
    <3>2. CASE wpc[c] = "gone"
      BY <2>1, <2>2, <3>1, <3>2, Zenon DEF HandshakeInv, Handshake, AnsweredOnce, FramesInTurn, Live
    <3>3. CASE wpc[c] # "gone"
      <4>1. m \in ToWorker /\ m \notin AckFrames /\ m.type = "RegisterAck"
        BY DEF ToWorker, AckFrames, TypeOK
      <4> HIDE DEF m
      <4>2. NumOf(outbox'[c], AckFrames) = NumOf(outbox[c], AckFrames)
        <5>1. outbox'[c] = Append(outbox[c], m)  BY <2>2, <3>3
        <5>2. outbox[c] \in Seq(ToWorker) /\ NumOf(outbox[c], AckFrames) \in Nat  BY CountsAreNat
        <5>3. NumOf(outbox'[c], AckFrames) = NumOf(outbox[c], AckFrames) + One(m \in AckFrames)
          BY <4>1, <5>1, <5>2, CountAppend
        <5>4. One(m \in AckFrames) = 0  BY <4>1 DEF One
        <5> QED  BY <5>2, <5>3, <5>4
      <4>3. AnsweredOnce(c)'
        BY <2>1, <2>2, <4>2, Zenon DEF HandshakeInv, Handshake, AnsweredOnce, Answers, Live
      <4>4. Len(outbox'[c]) = 1 /\ outbox'[c] # << >> /\ outbox'[c][1] = m
        BY <2>1, <2>2, <2>5, <3>3, <4>1, SMTT(30)
      <4>5. FramesInTurn(c)'
        BY <2>2, <2>5, <3>3, <4>1, <4>4, SMTT(30) DEF FramesInTurn
      <4> QED  BY <3>1, <4>3, <4>5 DEF Handshake
    <3> QED  BY <3>2, <3>3
  <2>7. \A d \in Conns \ {c} : Handshake(d)'
    BY <2>2, <2>3, HandshakeFrame, Zenon DEF HandshakeInv
  <2> QED  BY <2>6, <2>7 DEF HandshakeInv
<1>3. CASE handle_event
  <2> DEFINE c == Head(queue).conn
             m == [type |-> "EventAck",
                   status |-> append_status(Head(queue).entry, {AuthorityFor(Head(queue).entry)},
                                            entries, index)]
  <2>1. /\ queue # << >> /\ queue' = Tail(queue) /\ Head(queue).kind = "Event"
        /\ acct.pc = "idle" /\ acct'.pc # "publish"
        /\ c # NoConn => outbox' = Delivered(c, m)
        /\ c = NoConn => outbox' = outbox
        /\ UNCHANGED <<wpc, inbox, registered>>
    BY <1>3 DEF handle_event, Dequeue, Idle
  <2>2. m \in ToWorker /\ m \in AckFrames /\ m.type = "EventAck"
    BY StatusType DEF ToWorker, AckFrames
  <2> HIDE DEF m
  <2>3. SUFFICES ASSUME NEW d \in Conns PROVE Handshake(d)'
    BY DEF HandshakeInv
  <2>4. ~Publishing(d) /\ ~Publishing(d)'  BY <2>1 DEF Publishing
  <2>5. /\ NumOf(queue', RegisterItems(d)) = NumOf(queue, RegisterItems(d))
        /\ NumOf(queue', EventItems(d)) = NumOf(queue, EventItems(d)) - One(c = d)
    <3>1. One(Head(queue).kind = "Event" /\ c = d) = One(c = d)
          /\ One(Head(queue).kind = "Register" /\ c = d) = 0
      BY <2>1 DEF One
    <3>2. /\ NumOf(queue', RegisterItems(d)) = NumOf(queue, RegisterItems(d)) - 0
          /\ NumOf(queue', EventItems(d)) = NumOf(queue, EventItems(d)) - One(c = d)
      BY <2>1, <3>1, QueuePop
    <3> QED  BY <3>2, CountsAreNat
  <2>6. CASE c # d
    <3>1. outbox'[d] = outbox[d]
      BY <2>1, <2>6, Zenon DEF Delivered, TypeOK
    <3>2. NumOf(queue', EventItems(d)) = NumOf(queue, EventItems(d))
      BY <2>5, <2>6, CountsAreNat DEF One
    <3> QED  BY <2>1, <2>4, <2>5, <3>1, <3>2, HandshakeFrame, Zenon DEF HandshakeInv
  <2>7. CASE c = d
    <3>1. d # NoConn  BY CoordinatorAssumption
    <3>2. outbox'[d] = IF wpc[d] = "gone" THEN outbox[d] ELSE Append(outbox[d], m)
      BY <2>1, <2>7, <3>1 DEF Delivered, TypeOK
    <3>3. RegisteredOnce(d)'
      BY <2>1, <2>4, <2>5, Zenon DEF HandshakeInv, Handshake, RegisteredOnce, Registrations, One
    <3>4. CASE wpc[d] = "gone"
      BY <2>1, <3>2, <3>3, <3>4, Zenon DEF HandshakeInv, Handshake, AnsweredOnce, FramesInTurn, Live
    <3>5. CASE wpc[d] # "gone"
      <4>1. NumOf(queue', EventItems(d)) = NumOf(queue, EventItems(d)) - 1
        BY <2>5, <2>7 DEF One
      <4>2. NumOf(outbox'[d], AckFrames) = NumOf(outbox[d], AckFrames) + 1
        BY <2>2, <3>2, <3>5, CountAppend, CountsAreNat, SMTT(30) DEF One
      <4>3. NumOf(queue', EventItems(d)) \in Nat
        <5>1. queue' \in Seq(WorkItem)  BY <2>1, CountsAreNat
        <5> QED  BY <5>1, CountType, Zenon
      <4>4. Answers(d)' = Answers(d) /\ Answers(d) >= 1
        <5> DEFINE i == NumOf(inbox[d], SubmitFrames)
                   q == NumOf(queue, EventItems(d))
                   o == NumOf(outbox[d], AckFrames)
        <5>1. Answers(d)' = i + (q - 1) + (o + 1) /\ Answers(d) = i + q + o
          BY <2>1, <4>1, <4>2, Zenon DEF Answers
        <5>2. i \in Nat /\ q \in Nat /\ o \in Nat /\ q - 1 \in Nat
          BY <4>1, <4>3, CountsAreNat, Zenon
        <5> HIDE DEF i, q, o
        <5> QED  BY <5>1, <5>2
      <4>5. AnsweredOnce(d)' /\ wpc[d] = "waiting"
        <5>1. Answers(d) = One(wpc[d] = "waiting")
          BY <3>5, Zenon DEF HandshakeInv, Handshake, AnsweredOnce, Live
        <5>2. wpc[d] = "waiting"  BY <4>4, <5>1 DEF One
        <5> QED  BY <2>1, <4>4, <5>1, <5>2, Zenon DEF AnsweredOnce
      <4>6. \A k \in 1..Len(outbox'[d]) : \/ k \in 1..Len(outbox[d]) /\ outbox'[d][k] = outbox[d][k]
                                        \/ outbox'[d][k] = m
        <5>1. outbox[d] \in Seq(ToWorker)  BY CountsAreNat
        <5>2. outbox'[d] = Append(outbox[d], m)  BY <3>2, <3>5
        <5> QED  BY <2>2, <5>1, <5>2, PushedAt
      <4>7. FramesInTurn(d)'
        BY <2>1, <2>2, <4>5, <4>6, Zenon DEF HandshakeInv, Handshake, FramesInTurn
      <4> QED  BY <3>3, <4>5, <4>7 DEF Handshake
    <3> QED  BY <3>4, <3>5
  <2> QED  BY <2>6, <2>7
<1>4. CASE handle_worker_lost
  <2>1. /\ queue # << >> /\ queue' = Tail(queue) /\ Head(queue).kind = "WorkerLost"
        /\ acct.pc = "idle" /\ acct'.pc = "roll"
        /\ UNCHANGED <<wpc, inbox, outbox, registered>>
    BY <1>4 DEF handle_worker_lost, Dequeue, Idle
  <2>2. SUFFICES ASSUME NEW d \in Conns PROVE Handshake(d)'
    BY DEF HandshakeInv
  <2>3. One(Head(queue).kind = "Event" /\ Head(queue).conn = d) = 0
        /\ One(Head(queue).kind = "Register" /\ Head(queue).conn = d) = 0
    BY <2>1 DEF One
  <2>4. /\ NumOf(queue', RegisterItems(d)) = NumOf(queue, RegisterItems(d)) - 0
        /\ NumOf(queue', EventItems(d)) = NumOf(queue, EventItems(d)) - 0
    BY <2>1, <2>3, QueuePop
  <2>5. /\ NumOf(queue', RegisterItems(d)) = NumOf(queue, RegisterItems(d))
        /\ NumOf(queue', EventItems(d)) = NumOf(queue, EventItems(d))
    BY <2>4, CountsAreNat
  <2> QED  BY <2>1, <2>5, HandshakeFrame, Zenon DEF HandshakeInv, Publishing
<1>5. CASE roll_epoch
  <2>1. UNCHANGED <<wpc, inbox, outbox, registered, queue>> /\ acct.pc = "roll" /\ acct'.pc = "send"
    BY <1>5 DEF roll_epoch, TypeOK
  <2> QED  BY <2>1, HandshakeFrame DEF HandshakeInv, Publishing
<1>6. CASE send_rolls
  <2>1. /\ acct.pc = "send" /\ acct'.pc = "idle"
        /\ \A d \in Conns : outbox'[d] = IF Survives(d) /\ wpc[d] # "gone" THEN Append(outbox[d], Roll)
                                         ELSE outbox[d]
        /\ UNCHANGED <<wpc, inbox, registered, queue>>
    BY <1>6 DEF send_rolls, Idle, Delivered, TypeOK
  <2>2. Roll \in ToWorker /\ Roll \notin AckFrames /\ Roll.type = "Roll"
    BY Zenon DEF TypeOK, Roll, ToWorker, AuthorityState, AckFrames
  <2>3. SUFFICES ASSUME NEW d \in Conns PROVE Handshake(d)'
    BY DEF HandshakeInv
  <2>4. CASE outbox'[d] = outbox[d]
    BY <2>1, <2>4, HandshakeFrame, Zenon DEF HandshakeInv, Publishing
  <2>5. CASE outbox'[d] = Append(outbox[d], Roll) /\ registered[d] /\ wpc[d] # "gone"
    <3>1. RegisteredOnce(d)'
      BY <2>1, Zenon DEF HandshakeInv, Handshake, RegisteredOnce, Registrations, One, Publishing
    <3>2. NumOf(outbox'[d], AckFrames) = NumOf(outbox[d], AckFrames)
      BY <2>2, <2>5, CountAppend, CountsAreNat, SMTT(30) DEF One
    <3>3. AnsweredOnce(d)'
      BY <2>1, <3>2, Zenon DEF HandshakeInv, Handshake, AnsweredOnce, Answers, Live
    <3>4. wpc[d] # "new"
      BY <2>5, CountsAreNat, SMTT(30) DEF HandshakeInv, Handshake, RegisteredOnce, Registrations, One
    <3>5. /\ Len(outbox'[d]) = Len(outbox[d]) + 1 /\ Len(outbox[d]) \in Nat
          /\ \A k \in 1..Len(outbox'[d]) : \/ k \in 1..Len(outbox[d]) /\ outbox'[d][k] = outbox[d][k]
                                           \/ outbox'[d][k] = Roll
          /\ outbox[d] # << >> => Len(outbox[d]) > 0 /\ outbox'[d][1] = outbox[d][1]
          /\ outbox'[d] # << >>
      <4>1. outbox[d] \in Seq(ToWorker)  BY CountsAreNat
      <4>2. outbox'[d] = Append(outbox[d], Roll) /\ Roll \in ToWorker  BY <2>2, <2>5, Zenon
      <4> DEFINE s == outbox[d]
                 t == outbox'[d]
                 m == Roll
      <4>3. s \in Seq(ToWorker) /\ m \in ToWorker /\ t = Append(s, m)  BY <4>1, <4>2, Zenon
      <4> HIDE DEF s, t, m
      <4>4. /\ Len(t) = Len(s) + 1 /\ Len(s) \in Nat /\ t # << >> /\ t[Len(s) + 1] = m
            /\ \A k \in 1..Len(s) : t[k] = s[k]
        BY <4>3
      <4>5. s # << >> => Len(s) > 0 /\ 1 \in 1..Len(s)  BY <4>3
      <4>6. \A k \in 1..Len(t) : k \in 1..Len(s) \/ k = Len(s) + 1  BY <4>4
      <4>7. \A k \in 1..Len(t) : (k \in 1..Len(s) /\ t[k] = s[k]) \/ t[k] = m  BY <4>4, <4>6, Zenon
      <4>8. s # << >> => Len(s) > 0 /\ t[1] = s[1]  BY <4>4, <4>5, Zenon
      <4> QED  BY <4>4, <4>7, <4>8, Zenon DEF s, t, m
    <3>6. FramesInTurn(d)'
      <4>1. FramesInTurn(d) /\ UNCHANGED <<wpc, registered>>  BY <2>1 DEF HandshakeInv, Handshake
      <4>2. CASE wpc[d] = "registering"
        <5>1. /\ outbox[d] # << >> /\ outbox[d][1].type = "RegisterAck"
              /\ \A k \in 2..Len(outbox[d]) : outbox[d][k].type = "Roll"
          BY <2>5, <4>1, <4>2, Zenon DEF FramesInTurn
        <5>2. outbox'[d] # << >> /\ outbox'[d][1].type = "RegisterAck"  BY <3>5, <5>1, Zenon
        <5>3. \A k \in 2..Len(outbox'[d]) : outbox'[d][k].type = "Roll"  BY <2>2, <3>5, <5>1
        <5> QED  BY <2>5, <4>1, <4>2, <5>2, <5>3, Zenon DEF FramesInTurn
      <4>3. CASE wpc[d] \in {"ready", "waiting"}
        BY <2>2, <2>5, <3>5, <4>1, <4>3, Zenon DEF FramesInTurn
      <4> QED  BY <2>5, <3>4, <4>1, <4>2, <4>3, Zenon DEF FramesInTurn
    <3> QED  BY <3>1, <3>3, <3>6 DEF Handshake
  <2> QED  BY <2>1, <2>4, <2>5, Zenon DEF Survives
<1> QED  BY <1>1, <1>2, <1>3, <1>4, <1>5, <1>6 DEF AccountingNext

(***************************************************************************)
(* A public operation touches no connection: enqueue_event's item has none.*)
(***************************************************************************)
LEMMA HandshakeApi ==
  ASSUME TypeOK, HandshakeInv, ApiNext
  PROVE  HandshakeInv'
<1> USE DEF ledgerVars, connVars, workerVars
<1>1. UNCHANGED <<wpc, inbox, outbox, registered, acct>>
  BY Zenon DEF ApiNext, advance_epoch, set_request_authority, enqueue_event
<1>2. CASE UNCHANGED queue
  BY <1>1, <1>2, HandshakeFrame, Zenon DEF HandshakeInv, Publishing
<1>3. ASSUME NEW e \in Events, enqueue_event(e), NEW d \in Conns PROVE Handshake(d)'
  <2> DEFINE w == [kind |-> "Event", conn |-> NoConn, entry |-> e]
  <2>1. queue' = Append(queue, w)  BY <1>3 DEF enqueue_event
  <2>2. w \in WorkItem /\ w.conn # d  BY CoordinatorAssumption DEF WorkItem
  <2>3. One(w.kind = "Register" /\ w.conn = d) = 0 /\ One(w.kind = "Event" /\ w.conn = d) = 0
    BY <2>2 DEF One
  <2> HIDE DEF w
  <2>4. /\ NumOf(queue', RegisterItems(d)) = NumOf(queue, RegisterItems(d)) + 0
        /\ NumOf(queue', EventItems(d)) = NumOf(queue, EventItems(d)) + 0
    BY <2>1, <2>2, <2>3, QueuePush
  <2>5. /\ NumOf(queue', RegisterItems(d)) = NumOf(queue, RegisterItems(d))
        /\ NumOf(queue', EventItems(d)) = NumOf(queue, EventItems(d))
    BY <2>4, CountsAreNat, SMTT(30)
  <2> QED  BY <1>1, <2>5, HandshakeFrame, Zenon DEF HandshakeInv, Publishing
<1> QED  BY <1>2, <1>3 DEF ApiNext, advance_epoch, set_request_authority, HandshakeInv

(***************************************************************************)
(* Every step keeps the registration and the answers in order.             *)
(***************************************************************************)
LEMMA HandshakeNext == TypeOK /\ HandshakeInv /\ [Next]_vars => HandshakeInv'
<1> SUFFICES ASSUME TypeOK, HandshakeInv, [Next]_vars PROVE HandshakeInv'
  OBVIOUS
<1>1. CASE UNCHANGED vars
  <2>1. UNCHANGED <<wpc, inbox, outbox, registered, acct, queue>>
    BY <1>1 DEF vars, connVars, workerVars
  <2> QED  BY <2>1, HandshakeFrame DEF HandshakeInv, Publishing
<1> QED
  BY <1>1, HandshakeWorker, HandshakeReader, HandshakeAccounting, HandshakeApi DEF Next

(***************************************************************************)
(* A connection is registered at most once, and the frames to its worker   *)
(* come in the order the worker's receive loop expects.                    *)
(***************************************************************************)
THEOREM HandshakeInvariant == Spec => []HandshakeInv
  BY TypeInit, TypeNext, HandshakeInit, HandshakeNext, PTL DEF Spec

(***************************************************************************)
(* No worker ever takes the "unexpected message" exit, however Rolls,      *)
(* registrations and answers interleave: the RegisterAck is put into the   *)
(* channel by the same thread as every Roll, after the connection counts   *)
(* as registered and before any Roll can be sent to it.                    *)
(***************************************************************************)
THEOREM NoWorkerIsSurprised == Spec => []NoUnexpectedMessage
<1>1. TypeOK /\ HandshakeInv => NoUnexpectedMessage
  <2> SUFFICES ASSUME TypeOK, HandshakeInv, NEW c \in Conns
               PROVE  /\ (wpc[c] = "registering" /\ outbox[c] # << >>) =>
                           Head(outbox[c]).type = "RegisterAck"
                      /\ wpc[c] \in {"ready", "waiting"} =>
                           \A k \in 1..Len(outbox[c]) : outbox[c][k].type \in {"Roll", "EventAck"}
    BY DEF NoUnexpectedMessage
  <2>1. outbox[c] # << >> => Head(outbox[c]) = outbox[c][1]  BY DEF TypeOK
  <2> QED  BY <2>1 DEF HandshakeInv, Handshake, FramesInTurn
<1> QED  BY <1>1, TypeCorrect, HandshakeInvariant, PTL

(***************************************************************************)
(* Every event of a connected worker is answered at most once and never    *)
(* lost between its frame, the queue and its acknowledgement.              *)
(***************************************************************************)
THEOREM EveryEventHasOneAnswer == Spec => []OneAnswerPerEvent
<1>1. TypeOK /\ HandshakeInv => OneAnswerPerEvent
  <2> SUFFICES ASSUME TypeOK, HandshakeInv, NEW c \in Conns, wpc[c] # "gone"
               PROVE    Count(inbox[c], LAMBDA m : m.type = "EventSubmit")
                      + Count(queue, LAMBDA w : w.kind = "Event" /\ w.conn = c)
                      + Count(outbox[c], LAMBDA m : m.type = "EventAck")
                      = IF wpc[c] = "waiting" THEN 1 ELSE 0
    BY Zenon DEF OneAnswerPerEvent
  <2>1. Count(inbox[c], LAMBDA m : m.type = "EventSubmit") = NumOf(inbox[c], SubmitFrames)
    <3>1. {k \in 1..Len(inbox[c]) : inbox[c][k].type = "EventSubmit"} =
            {k \in 1..Len(inbox[c]) : inbox[c][k] \in SubmitFrames}
      <4>1. \A k \in 1..Len(inbox[c]) : inbox[c][k] \in ToCoordinator  BY CountsAreNat, SMTT(30)
      <4> QED  BY <4>1 DEF SubmitFrames
    <3> QED  BY <3>1, Zenon DEF Count, NumOf
  <2>2. Count(queue, LAMBDA w : w.kind = "Event" /\ w.conn = c) = NumOf(queue, EventItems(c))
    <3>1. {k \in 1..Len(queue) : queue[k].kind = "Event" /\ queue[k].conn = c} =
            {k \in 1..Len(queue) : queue[k] \in EventItems(c)}
      <4>1. \A k \in 1..Len(queue) : queue[k] \in WorkItem  BY CountsAreNat, SMTT(30)
      <4> QED  BY <4>1, Zenon DEF EventItems
    <3> QED  BY <3>1, Zenon DEF Count, NumOf
  <2>3. Count(outbox[c], LAMBDA m : m.type = "EventAck") = NumOf(outbox[c], AckFrames)
    <3>1. {k \in 1..Len(outbox[c]) : outbox[c][k].type = "EventAck"} =
            {k \in 1..Len(outbox[c]) : outbox[c][k] \in AckFrames}
      <4>1. \A k \in 1..Len(outbox[c]) : outbox[c][k] \in ToWorker  BY CountsAreNat, SMTT(30)
      <4> QED  BY <4>1 DEF AckFrames
    <3> QED  BY <3>1, Zenon DEF Count, NumOf
  <2>4. Answers(c) = One(wpc[c] = "waiting")
    BY DEF HandshakeInv, Handshake, AnsweredOnce, Live
  <2> QED  BY <2>1, <2>2, <2>3, <2>4 DEF Answers, One
<1> QED  BY <1>1, TypeCorrect, HandshakeInvariant, PTL

-----------------------------------------------------------------------------
(* What the workers are told *)

(***************************************************************************)
(* A worker that waits for nothing, or whose answer has come, has nothing  *)
(* in transit; one that waits has no second event in the channels.         *)
(***************************************************************************)
LEMMA NothingInTransit ==
  ASSUME TypeOK, HandshakeInv, NEW c \in Conns, Live(c),
         wpc[c] # "waiting" \/ \E k \in 1..Len(outbox[c]) : outbox[c][k] \in AckFrames
  PROVE  /\ \A k \in 1..Len(inbox[c]) : inbox[c][k] \notin SubmitFrames
         /\ \A k \in 1..Len(queue) : queue[k] \notin EventItems(c)
         /\ wpc[c] # "waiting" => \A k \in 1..Len(outbox[c]) : outbox[c][k] \notin AckFrames
<1>1. /\ inbox[c] \in Seq(ToCoordinator) /\ outbox[c] \in Seq(ToWorker) /\ queue \in Seq(WorkItem)
  BY DEF TypeOK
<1>2. Answers(c) = IF wpc[c] = "waiting" THEN 1 ELSE 0
  BY DEF HandshakeInv, Handshake, AnsweredOnce, One
<1>3. wpc[c] # "waiting" => NumOf(outbox[c], AckFrames) = 0
  <2> DEFINE a == NumOf(inbox[c], SubmitFrames)
             b == NumOf(queue, EventItems(c))
             m == NumOf(outbox[c], AckFrames)
  <2>1. a \in Nat /\ b \in Nat /\ m \in Nat  BY CountsAreNat, Zenon
  <2>2. wpc[c] # "waiting" => a + b + m = 0  BY <1>2, Zenon DEF Answers
  <2> HIDE DEF a, b, m
  <2>3. wpc[c] # "waiting" => m = 0  BY <2>1, <2>2
  <2> QED  BY <2>3 DEF m
<1>4. wpc[c] = "waiting" => NumOf(outbox[c], AckFrames) # 0
  BY <1>1, CountZero, Zenon
<1>5. NumOf(inbox[c], SubmitFrames) = 0 /\ NumOf(queue, EventItems(c)) = 0
  <2> DEFINE a == NumOf(inbox[c], SubmitFrames)
             b == NumOf(queue, EventItems(c))
             m == NumOf(outbox[c], AckFrames)
  <2>1. a \in Nat /\ b \in Nat /\ m \in Nat  BY CountsAreNat, Zenon
  <2>2. a + b + m = IF wpc[c] = "waiting" THEN 1 ELSE 0  BY <1>2, Zenon DEF Answers
  <2>3. wpc[c] = "waiting" => m # 0  BY <1>4, Zenon
  <2> HIDE DEF a, b, m
  <2>4. a = 0 /\ b = 0  BY <2>1, <2>2, <2>3
  <2> QED  BY <2>4, Zenon DEF a, b
<1> QED  BY <1>1, <1>3, <1>5, CountZero

(***************************************************************************)
(* The connection whose registration is being published is either gone or  *)
(* waits for its RegisterAck with nothing in its channel.                  *)
(***************************************************************************)
LEMMA PublishedFirst ==
  ASSUME TypeOK, HandshakeInv, NEW c \in Conns, Publishing(c), Live(c)
  PROVE  wpc[c] = "registering" /\ outbox[c] = << >> /\ ~registered[c]
<1>1. /\ NumOf(inbox[c], RegisterFrames) \in Nat /\ NumOf(queue, RegisterItems(c)) \in Nat
  BY CountsAreNat, Zenon
<1>2. ~registered[c] /\ wpc[c] # "new"
  <2> DEFINE a == NumOf(inbox[c], RegisterFrames)
             b == NumOf(queue, RegisterItems(c))
  <2>1. a + b + One(Publishing(c)) + One(registered[c]) <= One(wpc[c] # "new")
    BY Zenon DEF HandshakeInv, Handshake, RegisteredOnce, Registrations
  <2>2. a \in Nat /\ b \in Nat  BY <1>1, Zenon
  <2>3. One(Publishing(c)) = 1  BY Zenon DEF One
  <2> HIDE DEF a, b
  <2> QED  BY <2>1, <2>2, <2>3 DEF One
<1> QED  BY <1>2, Zenon DEF HandshakeInv, Handshake, FramesInTurn, Live, TypeOK

(***************************************************************************)
(* On every connection there is one thing at a time.                       *)
(***************************************************************************)
THEOREM OneAtATimeInvariant == Spec => []OneAtATime
<1>1. TypeOK /\ HandshakeInv => OneAtATime
  BY NothingInTransit, PublishedFirst, Zenon DEF OneAtATime
<1> QED  BY <1>1, TypeCorrect, HandshakeInvariant, PTL

(***************************************************************************)
(* A worker that reads Accepted or Duplicate can rely on its event being   *)
(* in the ledger, and one that reads DuplicateConflict on another event    *)
(* having its id, although the answer does not say what it answers.        *)
(***************************************************************************)
THEOREM AcksAreTrue == Spec => []AckMatchesLedger
<1> DEFINE AllTrue == \A c \in Conns : AcksTrue(c)
<1>1. Init => AllTrue  BY DEF Init, AcksTrue
<1>2. TypeOK /\ LedgerInv /\ OneAtATime /\ PendingInTransit /\ AllTrue /\ [Next]_vars => AllTrue'
  BY AcksNext
<1>3. AllTrue => AckMatchesLedger  BY Zenon DEF AcksTrue, TrueStatus, AckMatchesLedger
<1> HIDE DEF AllTrue
<1>4. Spec => []PendingInTransit
  BY TypeCorrect, OneAtATimeInvariant, TransitInit, TransitNext, PTL DEF Spec
<1> QED
  BY <1>1, <1>2, <1>3, <1>4, TypeCorrect, LedgerInvariant, OneAtATimeInvariant, PTL DEF Spec

(***************************************************************************)
(* The epochs stay in turn.                                                *)
(***************************************************************************)
THEOREM EpochsInvariant == Spec => []EpochsInTurn
<1>1. TypeOK /\ TypeOK' /\ LedgerInv /\ OneAtATime /\ EpochsInTurn /\ [Next]_vars => EpochsInTurn'
  BY EpochsNext, Zenon
<1> QED
  BY <1>1, EpochsInit, TypeCorrect, LedgerInvariant, OneAtATimeInvariant, PTL DEF Spec

(***************************************************************************)
(* However late a RegisterAck or a Roll is sent after the lock that its    *)
(* epoch was read under, no worker is ever told an earlier epoch after a   *)
(* later one.                                                              *)
(***************************************************************************)
THEOREM WorkersMoveForward == Spec => ViewNeverRegresses
<1>1. TypeOK /\ TypeOK' /\ LedgerInv /\ OneAtATime /\ EpochsInTurn /\ [Next]_vars =>
        [\A c \in Conns :
           /\ view'[c].epoch >= view[c].epoch
           /\ view'[c].accounting_generation >= view[c].accounting_generation]_view
  BY EpochsNext
<1> QED
  BY <1>1, EpochsInvariant, TypeCorrect, LedgerInvariant, OneAtATimeInvariant, PTL
  DEF Spec, ViewNeverRegresses

=============================================================================
