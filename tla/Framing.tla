--------------------------------- MODULE Framing --------------------------------
(***************************************************************************)
(* One direction of a connection: FramedSocket::send_message on one end,   *)
(* called by several threads, and recv_message on the other, called by one *)
(* (protocol.cpp 128-209).  send and recv move any number of bytes at a    *)
(* time; the kernel holds at most Capacity of them between the two ends.   *)
(*                                                                         *)
(* The codec is a parameter: Frame is encode_message, LengthIn reads the   *)
(* length out of a header, Parse compares the checksum and decodes.        *)
(***************************************************************************)
EXTENDS Integers, Sequences

CONSTANTS Writers,      \* the threads that send on this connection
          Messages,     \* the messages they send
          Bad,          \* what Parse gives for a content it refuses
          HeaderSize,   \* the bytes of a frame's header
          Limit,        \* the longest content recv_message takes
          Capacity,     \* bytes the kernel holds unread
          MaxSends,     \* bound: messages sent
          Frame(_),     \* the bytes of a message
          LengthIn(_),  \* the length in a header
          Parse(_, _)   \* the message of a header and a content, or Bad

NoOne == "no one"

\* The first n bytes of f after its first a.
Slice(f, a, n) == [i \in 1..n |-> f[a + i]]

ASSUME SizeAssumption ==
  HeaderSize \in Nat \ {0} /\ Limit \in Nat /\ Capacity \in Nat \ {0} /\ NoOne \notin Writers

\* A frame is a header and a content that is not empty, the header gives the
\* length of the content, and what was encoded is what is decoded.
ASSUME CodecAssumption ==
  \A m \in Messages :
    /\ Frame(m) \in Seq(Nat)
    /\ Len(Frame(m)) > HeaderSize
    /\ LengthIn(Slice(Frame(m), 0, HeaderSize)) = Len(Frame(m)) - HeaderSize
    /\ Parse(Slice(Frame(m), 0, HeaderSize),
             Slice(Frame(m), HeaderSize, Len(Frame(m)) - HeaderSize)) = m
    /\ m # Bad

VARIABLES
  lock,      \* the thread that holds write_mu_, or NoOne
  pending,   \* for each thread, the bytes write_all has yet to hand to send
  wire,      \* every byte send has accepted
  got,       \* how many of them recv has returned
  base,      \* how many of them belong to frames already received
  stage,     \* which read_all recv_message is in: "header" or "content"
  target,    \* how many bytes will have been read when it returns
  writing,   \* "open", or "closed" once the sending end is gone
  reading,   \* "open", "holding" while no thread calls recv_message, "failed" once
             \* recv_message has returned false, or "closed"
  why,       \* the error recv_message returned, or "none"
  log,       \* the messages handed to write_all, in the order of the lock
  at,        \* where in wire the frame of each of them starts
  delivered  \* the messages recv_message returned

senderVars   == <<lock, pending, log, at>>
receiverVars == <<got, base, stage, target, why, delivered>>
vars == <<lock, pending, wire, got, base, stage, target, writing, reading, why, log, at, delivered>>

Init ==
  /\ lock = NoOne
  /\ pending = [w \in Writers |-> <<>>]
  /\ wire = <<>>
  /\ got = 0 /\ base = 0 /\ stage = "header" /\ target = HeaderSize
  /\ writing = "open" /\ reading = "open" /\ why = "none"
  /\ log = <<>> /\ at = <<>>
  /\ delivered = <<>>

(***************************************************************************)
(* send_message: lock write_mu_, encode, write_all, unlock.  A message     *)
(* that cannot be encoded is refused before a byte is written, and changes *)
(* nothing here.                                                           *)
(***************************************************************************)
\* A bug: a frame is written twice.
SendTwice(w, m) ==
  /\ lock = NoOne /\ writing = "open" /\ Len(log) < MaxSends
  /\ lock' = w
  /\ pending' = [pending EXCEPT ![w] = Frame(m) \o Frame(m)]
  /\ log' = Append(log, m)
  /\ at' = Append(at, Len(wire))
  /\ UNCHANGED <<wire, writing, reading, receiverVars>>

\* A bug: write_mu_ is not taken.
SendUnlocked(w, m) ==
  /\ writing = "open" /\ pending[w] = <<>> /\ Len(log) < MaxSends
  /\ lock' = w
  /\ pending' = [pending EXCEPT ![w] = Frame(m)]
  /\ log' = Append(log, m)
  /\ at' = Append(at, Len(wire))
  /\ UNCHANGED <<wire, writing, reading, receiverVars>>

send_message(w, m) ==
  /\ lock = NoOne /\ writing = "open" /\ Len(log) < MaxSends
  /\ lock' = w
  /\ pending' = [pending EXCEPT ![w] = Frame(m)]
  /\ log' = Append(log, m)
  /\ at' = Append(at, Len(wire))
  /\ UNCHANGED <<wire, writing, reading, receiverVars>>

\* One call of send in write_all's loop; it takes some of what is left, as far
\* as the kernel has room.
write_some(w) ==
  /\ writing = "open" /\ pending[w] # <<>>
  /\ \E n \in 1..Len(pending[w]) :
       /\ Len(wire) - got + n <= Capacity
       /\ wire' = wire \o SubSeq(pending[w], 1, n)
       /\ pending' = [pending EXCEPT ![w] = SubSeq(@, n + 1, Len(@))]
  /\ UNCHANGED <<lock, log, at, writing, reading, receiverVars>>

\* A bug: the lock is never released.
KeepLock(w) ==
  /\ lock = w /\ pending[w] = <<>>
  /\ UNCHANGED vars

\* The loop ends, send_message returns true and its lock_guard unlocks.
send_returns(w) ==
  /\ lock = w /\ pending[w] = <<>>
  /\ lock' = NoOne
  /\ UNCHANGED <<pending, wire, log, at, writing, reading, receiverVars>>

\* send fails: the other end is gone, or this one was closed meanwhile.
send_fails(w) ==
  /\ pending[w] # <<>>
  /\ writing = "closed" \/ reading = "closed"
  /\ lock' = NoOne
  /\ pending' = [pending EXCEPT ![w] = <<>>]
  /\ UNCHANGED <<wire, log, at, writing, reading, receiverVars>>

(***************************************************************************)
(* recv_message: read_all of the header, the tests on the length, read_all *)
(* of the content, the checksum and decode_message.                        *)
(***************************************************************************)
\* A bug: a part of what is asked for is not taken.
ReadAtOnce ==
  /\ reading = "open" /\ got < target
  /\ target <= Len(wire)
  /\ got' = target
  /\ UNCHANGED <<senderVars, wire, base, stage, target, writing, reading, why, delivered>>

read_some ==
  /\ reading = "open" /\ got < target
  /\ \E n \in 1..(target - got) :
       /\ got + n <= Len(wire)
       /\ got' = got + n
  /\ UNCHANGED <<senderVars, wire, base, stage, target, writing, reading, why, delivered>>

\* recv_message returns false.  It leaves the socket open, and so do its callers:
\* nobody reads any more, until the process closes the socket or ends.
recv_fails(error) ==
  /\ reading' = "failed"
  /\ why' = error
  /\ UNCHANGED <<senderVars, wire, got, base, stage, target, writing, delivered>>

recv_header ==
  /\ reading = "open" /\ stage = "header" /\ got = target
  /\ LET len == LengthIn(Slice(wire, base, HeaderSize))
     IN  \/ len = 0 /\ recv_fails("zero-length frame")
         \/ len > Limit /\ recv_fails("frame too large")
         \/ /\ len \in 1..Limit
            /\ stage' = "content"
            /\ target' = target + len
            /\ UNCHANGED <<senderVars, wire, got, base, writing, reading, why, delivered>>

recv_content ==
  /\ reading = "open" /\ stage = "content" /\ got = target
  /\ \E m \in {Parse(Slice(wire, base, HeaderSize),
                     Slice(wire, base + HeaderSize, target - base - HeaderSize))} :
         \/ m = Bad /\ recv_fails("malformed frame")
         \/ /\ m # Bad
            /\ delivered' = Append(delivered, m)
            /\ stage' = "header" /\ base' = target /\ target' = target + HeaderSize
            /\ UNCHANGED <<senderVars, wire, got, writing, reading, why>>

\* recv returns 0: the other end is gone and everything it left has been read.
read_eof ==
  /\ reading = "open" /\ got < target /\ got = Len(wire) /\ writing = "closed"
  /\ recv_fails("connection closed")

(***************************************************************************)
(* The ends: a process that dies or closes its socket, and a receiver that *)
(* for the time being calls no recv_message (a worker in hold mode).  What *)
(* a closed end had written and the other has not read may be lost.        *)
(***************************************************************************)
sender_closes ==
  /\ writing = "open"
  /\ writing' = "closed"
  /\ \E n \in got..Len(wire) : wire' = SubSeq(wire, 1, n)
  /\ UNCHANGED <<senderVars, reading, receiverVars>>

receiver_closes ==
  /\ reading # "closed"
  /\ reading' = "closed"
  /\ UNCHANGED <<senderVars, wire, writing, receiverVars>>

receiver_holds ==
  /\ reading = "open"
  /\ reading' = "holding"
  /\ UNCHANGED <<senderVars, wire, writing, receiverVars>>

SenderStep(w) ==
  (\E m \in Messages : send_message(w, m)) \/ write_some(w) \/ send_returns(w) \/ send_fails(w)
ReceiverStep == read_some \/ recv_header \/ recv_content \/ read_eof
Ends == sender_closes \/ receiver_closes \/ receiver_holds

Next == (\E w \in Writers : SenderStep(w)) \/ ReceiverStep \/ Ends

Spec == Init /\ [][Next]_vars

\* A thread in send_message goes on, and the receiver's thread goes on; nobody
\* has to send, to close or to hold.
FairSpec ==
  /\ Spec
  /\ \A w \in Writers : WF_vars(write_some(w) \/ send_returns(w) \/ send_fails(w))
  /\ WF_vars(ReceiverStep)

(***************************************************************************)
(* Properties.                                                             *)
(***************************************************************************)

\* Type invariant.  recv never returns a byte that was not sent.
TypeOK ==
  /\ lock \in Writers \cup {NoOne}
  /\ pending \in [Writers -> Seq(Nat)]
  /\ wire \in Seq(Nat)
  /\ got \in 0..Len(wire) /\ base \in Nat /\ target \in Nat
  /\ stage \in {"header", "content"}
  /\ writing \in {"open", "closed"}
  /\ reading \in {"open", "holding", "failed", "closed"}
  /\ why \in {"none", "zero-length frame", "frame too large", "malformed frame",
              "connection closed"}
  /\ log \in Seq(Messages) /\ at \in Seq(Nat)
  /\ delivered \in Seq(Messages)

\* The threads of one process may send on a connection at the same time, in
\* pieces of any size, and recv_message may be handed the bytes in pieces of any
\* other size: it never loses the frame boundaries.  It reports a zero length, a
\* wrong checksum or a malformed content never, and a frame that is too large
\* only when a thread did send a message longer than the receiver takes, a limit
\* that send_message does not know of.
NeverMisread ==
  /\ why \notin {"zero-length frame", "malformed frame"}
  /\ why = "frame too large" => \E n \in 1..Len(log) : Len(Frame(log[n])) - HeaderSize > Limit

\* recv_message returns the messages that were passed to send_message, each
\* once, whole, and in the order in which the threads took write_mu_.
Queue == INSTANCE Fifo WITH sent <- log, received <- delivered
DeliversInOrder == Queue!Spec

\* Nobody calls recv_message and the kernel has no room left.
Clogged ==
  reading \in {"holding", "failed"} /\ writing = "open" /\ Len(wire) - got = Capacity

\* A thread inside send_message, with write_mu_ held, leaves it, unless the other
\* end has stopped reading with its socket open (a worker in hold mode, a reader
\* that gave up on a frame it refused) and the kernel's buffer has filled up.
SendReturns == \A w \in Writers : lock = w ~> (lock # w \/ Clogged)

\* A message that was sent is returned by recv_message, unless one of the two
\* ends closed, the receiver stopped reading, or a frame exceeded its limit.
SentArrives ==
  \A n \in 1..MaxSends :
    Len(log) >= n ~> (Len(delivered) >= n \/ reading # "open")
=============================================================================
