------------------------- MODULE CoordinatorProcess -------------------------
(***************************************************************************)
(* The coordinator as an operating-system process                          *)
(* (tools/iledger_coordinator.cpp): the threads of Coordinator, and the    *)
(* main thread, which waits on standard input, takes a snapshot of the     *)
(* ledger, writes it to the ledger file and stops.  The other threads go   *)
(* on serving their workers meanwhile.                                     *)
(*                                                                         *)
(* Persistence models how save_snapshot writes frame by frame.  Nobody     *)
(* else looks at the file before main has printed its line or has been     *)
(* killed, so here the call has an end only: the whole file, or one of the *)
(* files that Persistence leaves when writing stops.                       *)
(***************************************************************************)
EXTENDS Coordinator, SequencesExt

CONSTANT Torn   \* a frame that is not whole, as in Persistence

VARIABLES
  stdin,    \* "open", or "closed" once SHUTDOWN has been written or the writer has gone
  main,     \* where the main thread is
  snap,     \* the local snap
  file      \* the ledger file

processVars == <<stdin, main, snap, file>>

MainPc == {"serving", "saving", "saved", "failed", "exited"}

EmptyFile == [header |-> "none", frames |-> << >>]

Written(s) == [header |-> "ok", frames |-> s]

(***************************************************************************)
(* What save_snapshot leaves of the entries s if it stops somewhere.       *)
(***************************************************************************)
PartlyWritten(s) ==
  {EmptyFile} \cup [header : {"short", "partial"}, frames : {<< >>}]
    \cup {Written(SubSeq(s, 1, n)) : n \in 0..Len(s)}
    \cup {Written(Append(SubSeq(s, 1, n), Torn)) : n \in 0..(Len(s) - 1)}

(***************************************************************************)
(* start has succeeded; there is no ledger file yet.                       *)
(***************************************************************************)
ProcessInit ==
  /\ Init
  /\ stdin = "open"
  /\ main = "serving"
  /\ snap = << >>
  /\ file = EmptyFile

(***************************************************************************)
(* Mutant of take_snapshot: the snapshot is taken before the wait.         *)
(***************************************************************************)
SnapshotBeforeWait ==
  /\ main = "serving"
  /\ snap' = entries
  /\ main' = "saving"
  /\ UNCHANGED <<vars, stdin, file>>

(***************************************************************************)
(* SHUTDOWN or the end of standard input is read; Ledger::snapshot copies  *)
(* the entries under the ledger's mutex.                                   *)
(***************************************************************************)
take_snapshot ==
  /\ main = "serving"
  /\ stdin = "closed"
  /\ snap' = entries
  /\ main' = "saving"
  /\ UNCHANGED <<vars, stdin, file>>

(***************************************************************************)
(* save_snapshot returns true, and COORD_STOPPED is printed ...            *)
(***************************************************************************)
save ==
  /\ main = "saving"
  /\ file' = Written(snap)
  /\ main' = "saved"
  /\ UNCHANGED <<vars, stdin, snap>>

(***************************************************************************)
(* ... or false: a write has failed.                                       *)
(***************************************************************************)
save_fails ==
  /\ main = "saving"
  /\ file' \in PartlyWritten(snap)
  /\ main' = "failed"
  /\ UNCHANGED <<vars, stdin, snap>>

(***************************************************************************)
(* coord.stop() has joined the threads, and main returns.                  *)
(***************************************************************************)
exit ==
  /\ main \in {"saved", "failed"}
  /\ main' = "exited"
  /\ acct' = [Idle EXCEPT !.pc = "crashed"]
  /\ UNCHANGED <<ledgerVars, queue, connVars, reader, inbox, outbox, workerVars, api>>
  /\ UNCHANGED <<stdin, snap, file>>

=============================================================================
