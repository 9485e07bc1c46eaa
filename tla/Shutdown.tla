------------------------------ MODULE Shutdown ------------------------------
(***************************************************************************)
(* The life of the coordinator's threads (coordinator.cpp): the accept     *)
(* loop, one detached reader per connection, the accounting thread that    *)
(* sleeps on q_cv_, and the thread that calls stop().  A work item is      *)
(* reduced to the connection it came from; what its handler does to the    *)
(* ledger is in module Coordinator.                                        *)
(*                                                                         *)
(* condition_variable::wait with a predicate evaluates it under q_mu_ and  *)
(* gives q_mu_ up only when it goes to sleep.  The accounting thread is    *)
(* "blocking" between the two: whoever needs q_mu_ has to wait, and a      *)
(* notification finds nobody to wake.                                      *)
(***************************************************************************)
EXTENDS Naturals, Sequences

CONSTANTS
  Conns,       \* connections that peers may open
  MaxFrames,   \* bound on the frames a peer sends
  CloseWakes   \* closing a socket wakes a thread blocked on it:
               \* TRUE for closesocket (Winsock), FALSE for close (POSIX)

ASSUME ShutdownAssumption == MaxFrames \in Nat /\ CloseWakes \in BOOLEAN

VARIABLES
  stop_requested, running,   \* the atomic flags
  listening,                 \* the listening socket is open
  spc,                       \* the thread that calls start and stop
  apc,                       \* accept_loop
  mpc,                       \* accounting_loop
  rpc,                       \* read_loop of each connection
  sock,                      \* the coordinator's socket of each connection
  peer,                      \* frames a peer may still send
  hung,                      \* the peer has closed its end
  wire,                      \* frames sent and not yet read
  registered,                \* Conn::registered
  queue                      \* queue_

flags == <<stop_requested, running, listening>>
peers == <<peer, hung, wire>>
items == <<registered, queue>>
vars == <<flags, spc, apc, mpc, rpc, sock, peers, items>>

Init ==
  /\ stop_requested = FALSE
  /\ running = TRUE
  /\ listening = TRUE
  /\ spc = "running"
  /\ apc = "check"
  /\ mpc = "check"
  /\ rpc = [c \in Conns |-> "none"]
  /\ sock = [c \in Conns |-> "none"]
  /\ peer = [c \in Conns |-> MaxFrames]
  /\ hung = [c \in Conns |-> FALSE]
  /\ wire = [c \in Conns |-> 0]
  /\ registered = [c \in Conns |-> FALSE]
  /\ queue = << >>

-----------------------------------------------------------------------------
(* Peers *)

PeerConnect(c) ==
  /\ listening
  /\ sock[c] = "none"
  /\ sock' = [sock EXCEPT ![c] = "backlog"]
  /\ UNCHANGED <<flags, spc, apc, mpc, rpc, peers, items>>

PeerSend(c) ==
  /\ sock[c] \in {"backlog", "accepted", "open"}
  /\ ~hung[c]
  /\ peer[c] > 0
  /\ peer' = [peer EXCEPT ![c] = @ - 1]
  /\ wire' = [wire EXCEPT ![c] = @ + 1]
  /\ UNCHANGED <<flags, spc, apc, mpc, rpc, sock, hung, items>>

PeerClose(c) ==
  /\ sock[c] \in {"backlog", "accepted", "open"}
  /\ ~hung[c]
  /\ hung' = [hung EXCEPT ![c] = TRUE]
  /\ UNCHANGED <<flags, spc, apc, mpc, rpc, sock, peer, wire, items>>

-----------------------------------------------------------------------------
(* accept_loop *)

AcceptCheck ==
  /\ apc = "check"
  /\ apc' = IF running THEN "accept" ELSE "exited"
  /\ UNCHANGED <<flags, spc, mpc, rpc, sock, peers, items>>

AcceptBlock ==
  /\ apc = "accept"
  /\ listening
  /\ apc' = "blocked"
  /\ UNCHANGED <<flags, spc, mpc, rpc, sock, peers, items>>

(***************************************************************************)
(* accept returns a raw socket that all_conns_ does not hold yet ...       *)
(***************************************************************************)
AcceptReturns(c) ==
  /\ apc = "blocked"
  /\ listening
  /\ sock[c] = "backlog"
  /\ sock' = [sock EXCEPT ![c] = "accepted"]
  /\ apc' = "adopt"
  /\ UNCHANGED <<flags, spc, mpc, rpc, peers, items>>

(***************************************************************************)
(* ... until it is pushed there and its reader is started.                 *)
(***************************************************************************)
Adopt(c) ==
  /\ apc = "adopt"
  /\ sock[c] = "accepted"
  /\ sock' = [sock EXCEPT ![c] = "open"]
  /\ rpc' = [rpc EXCEPT ![c] = "check"]
  /\ apc' = "check"
  /\ UNCHANGED <<flags, spc, mpc, peers, items>>

AcceptFails ==
  /\ ~listening
  /\ apc = "accept" \/ (apc = "blocked" /\ CloseWakes)
  /\ apc' = IF stop_requested THEN "exited" ELSE "check"
  /\ UNCHANGED <<flags, spc, mpc, rpc, sock, peers, items>>

accept_loop ==
  \/ AcceptCheck
  \/ AcceptBlock
  \/ \E c \in Conns : AcceptReturns(c) \/ Adopt(c)
  \/ AcceptFails

-----------------------------------------------------------------------------
(* read_loop *)

(***************************************************************************)
(* enqueue: push under q_mu_, then notify_one.  early records whether the  *)
(* item was queued before stop() was called.                               *)
(***************************************************************************)
enqueue(c) ==
  /\ mpc # "blocking"
  /\ queue' = Append(queue, [conn |-> c, early |-> ~stop_requested])
  /\ mpc' = IF mpc = "waiting" THEN "check" ELSE mpc

ReadCheck(c) ==
  /\ rpc[c] = "check"
  /\ rpc' = [rpc EXCEPT ![c] = IF running THEN "recv" ELSE "exited"]
  /\ UNCHANGED <<flags, spc, apc, mpc, sock, peers, items>>

ReadBlock(c) ==
  /\ rpc[c] = "recv"
  /\ sock[c] = "open"
  /\ rpc' = [rpc EXCEPT ![c] = "blocked"]
  /\ UNCHANGED <<flags, spc, apc, mpc, sock, peers, items>>

ReadFrame(c) ==
  /\ rpc[c] = "blocked"
  /\ sock[c] = "open"
  /\ wire[c] > 0
  /\ wire' = [wire EXCEPT ![c] = @ - 1]
  /\ enqueue(c)
  /\ rpc' = [rpc EXCEPT ![c] = "check"]
  /\ UNCHANGED <<flags, spc, apc, sock, peer, hung, registered>>

(***************************************************************************)
(* recv_message fails: the loss of a registered connection is queued.      *)
(***************************************************************************)
ReadFails(c) ==
  /\ \/ rpc[c] = "recv" /\ sock[c] = "closed"
     \/ rpc[c] = "blocked" /\ sock[c] = "closed" /\ CloseWakes
     \/ rpc[c] = "blocked" /\ sock[c] = "open" /\ hung[c] /\ wire[c] = 0
  /\ rpc' = [rpc EXCEPT ![c] = "exited"]
  /\ \/ registered[c] /\ enqueue(c)
     \/ ~registered[c] /\ UNCHANGED <<queue, mpc>>
  /\ UNCHANGED <<flags, spc, apc, sock, peers, registered>>

read_loop(c) == ReadCheck(c) \/ ReadBlock(c) \/ ReadFrame(c) \/ ReadFails(c)

-----------------------------------------------------------------------------
(* accounting_loop *)

(***************************************************************************)
(* Mutant of AccountingCheck: stop is obeyed with items left in the queue. *)
(***************************************************************************)
AccountingQuits ==
  /\ mpc = "check"
  /\ mpc' = IF stop_requested THEN "exited" ELSE IF queue = << >> THEN "blocking" ELSE "take"
  /\ UNCHANGED <<flags, spc, apc, rpc, sock, peers, items>>

(***************************************************************************)
(* The predicate of the wait, evaluated under q_mu_.                       *)
(***************************************************************************)
AccountingCheck ==
  /\ mpc = "check"
  /\ mpc' = IF queue = << >> THEN (IF stop_requested THEN "exited" ELSE "blocking")
            ELSE "take"
  /\ UNCHANGED <<flags, spc, apc, rpc, sock, peers, items>>

AccountingSleep ==
  /\ mpc = "blocking"
  /\ mpc' = "waiting"
  /\ UNCHANGED <<flags, spc, apc, rpc, sock, peers, items>>

(***************************************************************************)
(* The item is taken and handled.  The first item of a connection is its   *)
(* registration.                                                           *)
(***************************************************************************)
AccountingTake ==
  /\ mpc = "take"
  /\ registered' = [registered EXCEPT ![Head(queue).conn] = TRUE]
  /\ queue' = Tail(queue)
  /\ mpc' = "check"
  /\ UNCHANGED <<flags, spc, apc, rpc, sock, peers>>

accounting_loop == AccountingCheck \/ AccountingSleep \/ AccountingTake

-----------------------------------------------------------------------------
(* stop *)

RequestStop ==
  /\ spc = "running"
  /\ stop_requested' = TRUE
  /\ spc' = "requested"
  /\ UNCHANGED <<running, listening, apc, mpc, rpc, sock, peers, items>>

ClearRunning ==
  /\ spc = "requested"
  /\ running' = FALSE
  /\ spc' = "cleared"
  /\ UNCHANGED <<stop_requested, listening, apc, mpc, rpc, sock, peers, items>>

(***************************************************************************)
(* Mutant of CloseConns: only registered connections are closed.           *)
(***************************************************************************)
CloseRegistered ==
  /\ spc = "unlistened"
  /\ sock' = [c \in Conns |-> IF sock[c] = "open" /\ registered[c] THEN "closed" ELSE sock[c]]
  /\ spc' = "closed"
  /\ UNCHANGED <<flags, apc, mpc, rpc, peers, items>>

CloseListener ==
  /\ spc = "cleared"
  /\ listening' = FALSE
  /\ spc' = "unlistened"
  /\ UNCHANGED <<stop_requested, running, apc, mpc, rpc, sock, peers, items>>

(***************************************************************************)
(* Every socket that all_conns_ holds at this moment is closed.            *)
(***************************************************************************)
CloseConns ==
  /\ spc = "unlistened"
  /\ sock' = [c \in Conns |-> IF sock[c] = "open" THEN "closed" ELSE sock[c]]
  /\ spc' = "closed"
  /\ UNCHANGED <<flags, apc, mpc, rpc, peers, items>>

(***************************************************************************)
(* notify_all, without q_mu_: it wakes the accounting thread only if that  *)
(* is asleep by now.                                                       *)
(***************************************************************************)
NotifyAll ==
  /\ spc = "closed"
  /\ mpc' = IF mpc = "waiting" THEN "check" ELSE mpc
  /\ spc' = "join_accept"
  /\ UNCHANGED <<flags, apc, rpc, sock, peers, items>>

JoinAccept ==
  /\ spc = "join_accept"
  /\ apc = "exited"
  /\ spc' = "join_accounting"
  /\ UNCHANGED <<flags, apc, mpc, rpc, sock, peers, items>>

JoinAccounting ==
  /\ spc = "join_accounting"
  /\ mpc = "exited"
  /\ spc' = "stopped"
  /\ UNCHANGED <<flags, apc, mpc, rpc, sock, peers, items>>

stop ==
  \/ ClearRunning
  \/ CloseListener
  \/ CloseConns
  \/ NotifyAll
  \/ JoinAccept
  \/ JoinAccounting

-----------------------------------------------------------------------------
Next ==
  \/ \E c \in Conns : PeerConnect(c) \/ PeerSend(c) \/ PeerClose(c) \/ read_loop(c)
  \/ accept_loop
  \/ accounting_loop
  \/ RequestStop
  \/ stop

(***************************************************************************)
(* Every thread that can take a step takes one; peers need not do anything *)
(* and nobody is obliged to call stop().                                   *)
(***************************************************************************)
Spec ==
  /\ Init /\ [][Next]_vars
  /\ WF_vars(accept_loop) /\ WF_vars(accounting_loop) /\ WF_vars(stop)
  /\ \A c \in Conns : WF_vars(read_loop(c))

-----------------------------------------------------------------------------
(***************************************************************************)
(* accounting_loop leaves only when the queue is empty: whatever was       *)
(* queued before stop() was called is handled, in whatever order the       *)
(* notification, the flags and the readers' last items arrive.             *)
(***************************************************************************)
EarlyItemsHandled ==
  \A c \in Conns :
    (\E k \in 1..Len(queue) : queue[k] = [conn |-> c, early |-> TRUE])
      ~> ~(\E k \in 1..Len(queue) : queue[k] = [conn |-> c, early |-> TRUE])

(***************************************************************************)
(* "Close every open connection so blocking reads return" (coordinator.cpp)*)
(* : after stop() was called the accept loop ends, so that the first join  *)
(* returns, and so does every reader, also that of a connection which the  *)
(* accept loop adopts after stop() has closed the ones it found.           *)
(***************************************************************************)
BlockingReadsReturn ==
  stop_requested ~> apc = "exited" /\ \A c \in Conns : rpc[c] \in {"none", "exited"}

-----------------------------------------------------------------------------
(* Statements of the repository that the code does not keep *)

(***************************************************************************)
(* iledger_coordinator.cpp: after SHUTDOWN the process "saves a snapshot   *)
(* of the authoritative ledger and exits": stop() returns.                 *)
(***************************************************************************)
StopReturns == stop_requested ~> spc = "stopped"

=============================================================================
