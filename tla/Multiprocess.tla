---------------------------- MODULE Multiprocess ----------------------------
(***************************************************************************)
(* The end-to-end scenario of the repository                               *)
(* (tools/iledger_multiprocess.cpp): a driver process that spawns the      *)
(* coordinator and the workers A and B, kills A, starts it again with a    *)
(* new boot id and a script of stale and fresh events, shuts the           *)
(* coordinator down, and judges the run by the lines the children printed  *)
(* and by the ledger file.                                                 *)
(*                                                                         *)
(* The coordinator process, its threads, the workers and the file are      *)
(* those of CoordinatorProcess; the accounts are those of RequestAccount.  *)
(* What a child has printed is read off its state.  Timeouts and the sleep *)
(* may be too short for anything: no step of the driver waits for more     *)
(* than the code checks.                                                   *)
(***************************************************************************)
EXTENDS CoordinatorProcess

CONSTANTS
  SlowWaits,   \* the calls of wait_for that may be too short
  MaxMishaps   \* bound on mishaps, failed writes and deaths of the driver

ASSUME ScenarioAssumption ==
  /\ SlowWaits \subseteq {"wait_a", "wait_b", "wait_a2", "wait_stopped"}
  /\ MaxMishaps \in Nat

VARIABLES
  driver,     \* where main of the driver is
  pass,       \* the local pass
  spawned,    \* the workers started so far
  lines,      \* the statuses in the ACK lines of each worker
  stopped,    \* COORD_STOPPED has been printed
  mishaps,    \* the mishaps, failed writes and deaths of the driver so far
  late,       \* an event of the restarted A was read before the loss of A was
  owed        \* the events acknowledged as stored when stdin was closed

driverVars == <<driver, pass, spawned, lines, stopped, mishaps, late, owed>>
allVars == <<vars, processVars, driverVars>>

Mishap == mishaps < MaxMishaps /\ mishaps' = mishaps + 1

-----------------------------------------------------------------------------
(* The scripts *)

Children == {"wa", "wb", "wa2"}
ChildWorker == [c \in Children |-> IF c = "wb" THEN "WB" ELSE "WA"]
ChildBoot == [c \in Children |-> CASE c = "wa" -> 1 [] c = "wa2" -> 2 [] c = "wb" -> 3]

(***************************************************************************)
(* What mk puts into an entry besides its authority: the fields that the   *)
(* account of the request is made from.  Quantities are in halves.         *)
(***************************************************************************)
Body(kind, resource, value, unit, start, end, attempt) ==
  [kind |-> kind, attempt |-> attempt, resource |-> resource, unit |-> unit,
   value |-> value, start |-> start, end |-> end, has_end |-> end # 0]

(***************************************************************************)
(* mk and envelope.  auth is <<epoch, worker, boot, generation, accounting *)
(* generation>>; the generations of the request and of the attempt are     *)
(* equal in every entry of the scenario.                                   *)
(***************************************************************************)
mk(id, body, request, auth) ==
  [id |-> id,
   event_kind |-> IF body.kind \in {"RequestStart", "RequestEnd"} THEN body.kind ELSE "Work",
   request |-> request, worker |-> auth[2],
   resource_kind |-> IF body.resource = "Physical" THEN "Energy" ELSE "Generic",
   unit |-> IF body.unit = "Count" THEN "Count" ELSE "Seconds",
   quantity |-> body.value, payload |-> body,
   epoch |-> auth[1], worker_boot |-> auth[3],
   request_generation |-> auth[4], attempt |-> body.attempt, attempt_generation |-> auth[4],
   accounting_generation |-> auth[5]]

A1 == 1   \* the attempts, in the order of their ids
A2 == 2
B1 == 3

AuthA1 == <<1, "WA", 1, 1, 1>>
AuthA2 == <<2, "WA", 2, 2, 2>>
AuthB == <<1, "WB", 3, 1, 1>>

(***************************************************************************)
(* The scripts.  Of entries with the same authority that differ only in    *)
(* what they are charged to, one is kept: of a1, GpuExecution stands for   *)
(* the six entries behind the reservation; of a2, the stale RequestEnd     *)
(* also for the stale Decode, and the fresh GpuExecution for the four work *)
(* entries between start and end.                                          *)
(***************************************************************************)
a1 ==
  << mk(<<"A", 1>>, Body("RequestStart", "Generic", 0, "Count", 1000, 0, A1), "R", AuthA1),
     mk(<<"A", 2>>, Body("Reserve", "Physical", 2, "Count", 1100, 0, A1), "R", AuthA1),
     mk(<<"A", 7>>, Body("GpuExecution", "Physical", 1, "Other", 1400, 2400, A1), "R", AuthA1) >>

(***************************************************************************)
(* The quarter of a second that the second entry carries is rounded to a   *)
(* half; nothing reads it.                                                 *)
(***************************************************************************)
b1 ==
  LET start == mk(<<"B", 1>>, Body("RequestStart", "Generic", 0, "Count", 1000, 0, B1),
                  "R2", AuthB)
  IN  << start,
         mk(<<"B", 2>>, Body("GpuExecution", "Physical", 1, "Other", 1500, 1750, B1), "R2", AuthB),
         start,
         mk(<<"B", 3>>, Body("RequestEnd", "Generic", 0, "Count", 1800, 0, B1), "R2", AuthB) >>

StaleScript ==
  LET reserve == Body("Reserve", "Physical", 2, "Count", 1100, 0, A1)
  IN  << mk(<<"A", 20>>, reserve, "R", <<1, "WA", 2, 1, 1>>),
         mk(<<"A", 21>>, reserve, "R", <<2, "WA", 1, 1, 1>>),
         mk(<<"A", 22>>, Body("RequestEnd", "Generic", 0, "Count", 2500, 0, A1), "R",
            <<2, "WA", 2, 1, 1>>),
         mk(<<"A", 2>>, reserve, "R", AuthA1) >>

FreshScript ==
  << mk(<<"A", 30>>, Body("RequestStart", "Generic", 0, "Count", 3000, 0, A2), "R", AuthA2),
     mk(<<"A", 32>>, Body("GpuExecution", "Physical", 1, "Other", 3200, 3800, A2), "R", AuthA2),
     mk(<<"A", 35>>, Body("RequestEnd", "Generic", 0, "Count", 4400, 0, A2), "R", AuthA2) >>

a2 == StaleScript \o FreshScript

Script == [c \in Children |-> CASE c = "wa" -> a1 [] c = "wb" -> b1 [] c = "wa2" -> a2]

ScriptEvents == UNION {Range(Script[c]) : c \in Children}

-----------------------------------------------------------------------------
(* The workers and the coordinator *)

(***************************************************************************)
(* WORKER_DONE has been printed; a worker that holds does nothing more.    *)
(***************************************************************************)
WorkerDone(c) == wpc[c] = "ready" /\ sent[c] = Len(Script[c])

worker_connect(c) ==
  /\ c \in spawned
  /\ Connect(c)
  /\ UNCHANGED <<processVars, driverVars>>

worker_submit(c) ==
  /\ sent[c] < Len(Script[c])
  /\ Submit(c, Script[c][sent[c] + 1])
  /\ UNCHANGED <<processVars, driverVars>>

(***************************************************************************)
(* A reply is read; an acknowledgement is printed.                         *)
(***************************************************************************)
worker_receive(c) ==
  /\ \/ /\ ReceiveRegisterAck(c) \/ ReceiveRoll(c)
        /\ UNCHANGED lines
     \/ /\ ReceiveEventAck(c)
        /\ lines' = [lines EXCEPT ![c] = Append(@, Head(outbox[c]).status)]
  /\ UNCHANGED <<processVars, driver, pass, spawned, stopped, mishaps, late, owed>>

WorkerStep(c) == worker_connect(c) \/ worker_submit(c) \/ worker_receive(c)

(***************************************************************************)
(* A reader of the coordinator; it is noted whether it overtakes the       *)
(* reader that has still to report the loss of A.                          *)
(***************************************************************************)
reader_step(c) ==
  /\ read_message(c) \/ read_failure(c)
  /\ late' = (late \/ (c = "wa2" /\ reader["wa"] = "reading"
                         /\ inbox[c] # << >> /\ Head(inbox[c]).type = "EventSubmit"))
  /\ UNCHANGED <<processVars, driver, pass, spawned, lines, stopped, mishaps, owed>>

accounting_step == AccountingNext /\ UNCHANGED <<processVars, driverVars>>

main_step ==
  /\ \/ (take_snapshot \/ save \/ exit) /\ UNCHANGED mishaps
     \/ save_fails /\ Mishap
  /\ stopped' = (stopped \/ main' = "saved")
  /\ UNCHANGED <<driver, pass, spawned, lines, late, owed>>

-----------------------------------------------------------------------------
(* The driver *)

(***************************************************************************)
(* wait_for: the marker is there, or it is not and the time is up.         *)
(***************************************************************************)
wait_for(marker) ==
  \/ marker /\ UNCHANGED mishaps
  \/ ~marker /\ driver \in SlowWaits /\ Mishap

(***************************************************************************)
(* No ACK line i of the worker c shows another status.  A line that was    *)
(* not printed is not missed.                                              *)
(***************************************************************************)
AckIs(c, i, status) == i < Len(lines[c]) => lines[c][i + 1] = status

(***************************************************************************)
(* kill_child of the workers in S.                                         *)
(***************************************************************************)
Killed(S) ==
  /\ wpc' = [c \in Conns |-> IF c \in S THEN "gone" ELSE wpc[c]]
  /\ pending' = [c \in Conns |-> IF c \in S THEN {} ELSE pending[c]]
  /\ outbox' = [c \in Conns |-> IF c \in S THEN << >> ELSE outbox[c]]
  /\ \E lost \in SUBSET {c \in S : inbox[c] # << >>} :
       inbox' = [c \in Conns |-> IF c \in lost THEN << >> ELSE inbox[c]]

spawn_workers ==
  /\ driver = "spawn"
  /\ spawned' = {"wa", "wb"}
  /\ driver' = "wait_a"
  /\ UNCHANGED <<vars, processVars, pass, lines, stopped, mishaps, late, owed>>

await_a ==
  /\ driver = "wait_a"
  /\ wait_for(WorkerDone("wa"))
  /\ pass' = (pass /\ WorkerDone("wa"))
  /\ driver' = "wait_b"
  /\ UNCHANGED <<vars, processVars, spawned, lines, stopped, late, owed>>

await_b ==
  /\ driver = "wait_b"
  /\ wait_for(WorkerDone("wb"))
  /\ pass' = (pass /\ WorkerDone("wb") /\ AckIs("wb", 2, "Duplicate"))
  /\ driver' = "kill_a"
  /\ UNCHANGED <<vars, processVars, spawned, lines, stopped, late, owed>>

kill_a ==
  /\ driver = "kill_a"
  /\ Killed({"wa"})
  /\ driver' = "sleep"
  /\ UNCHANGED <<ledgerVars, queue, acct, connVars, reader, view, sent, api>>
  /\ UNCHANGED <<processVars, pass, spawned, lines, stopped, mishaps, late, owed>>

(***************************************************************************)
(* The 600 ms are over, whatever the coordinator has done in them.         *)
(***************************************************************************)
restart_a ==
  /\ driver = "sleep"
  /\ spawned' = spawned \cup {"wa2"}
  /\ driver' = "wait_a2"
  /\ UNCHANGED <<vars, processVars, pass, lines, stopped, mishaps, late, owed>>

(***************************************************************************)
(* Mutant of await_a2: the answer to the first stale event is not checked. *)
(***************************************************************************)
AwaitUnchecked ==
  /\ driver = "wait_a2"
  /\ wait_for(WorkerDone("wa2"))
  /\ pass' = (/\ pass
              /\ WorkerDone("wa2")
              /\ \A i \in 1..3 : AckIs("wa2", i, "Stale")
              /\ AckIs("wa2", 4, "Accepted")
              /\ AckIs("wa2", 6, "Accepted"))
  /\ driver' = "shutdown"
  /\ UNCHANGED <<vars, processVars, spawned, lines, stopped, late, owed>>

await_a2 ==
  /\ driver = "wait_a2"
  /\ wait_for(WorkerDone("wa2"))
  /\ pass' = (/\ pass
              /\ WorkerDone("wa2")
              /\ \A i \in 0..3 : AckIs("wa2", i, "Stale")
              /\ AckIs("wa2", 4, "Accepted")
              /\ AckIs("wa2", 6, "Accepted"))
  /\ driver' = "shutdown"
  /\ UNCHANGED <<vars, processVars, spawned, lines, stopped, late, owed>>

(***************************************************************************)
(* The events that some worker has seen acknowledged as stored.            *)
(***************************************************************************)
Acknowledged ==
  UNION {{Script[c][i] : i \in {j \in 1..Len(lines[c]) : lines[c][j] \in {"Accepted", "Duplicate"}}} :
         c \in Children}

CloseStdin == stdin' = "closed" /\ owed' = Acknowledged

write_shutdown ==
  /\ driver = "shutdown"
  /\ CloseStdin
  /\ driver' = "wait_stopped"
  /\ UNCHANGED <<vars, main, snap, file, pass, spawned, lines, stopped, mishaps, late>>

await_stopped ==
  /\ driver = "wait_stopped"
  /\ wait_for(stopped)
  /\ pass' = (pass /\ stopped)
  /\ driver' = "kill_all"
  /\ UNCHANGED <<vars, processVars, spawned, lines, stopped, late, owed>>

(***************************************************************************)
(* The coordinator, wherever it is, and the workers left are killed.       *)
(***************************************************************************)
kill_all ==
  /\ driver = "kill_all"
  /\ Killed({"wb", "wa2"})
  /\ acct' = [Idle EXCEPT !.pc = "crashed"]
  /\ main' = "exited"
  /\ file' \in (IF main = "saving" THEN PartlyWritten(snap) ELSE {file})
  /\ driver' = "verify"
  /\ UNCHANGED <<ledgerVars, queue, connVars, reader, view, sent, api>>
  /\ UNCHANGED <<stdin, snap>>
  /\ UNCHANGED <<pass, spawned, lines, stopped, mishaps, late, owed>>

(***************************************************************************)
(* The driver itself dies: its end of the coordinator's standard input is  *)
(* closed, the children live on.                                           *)
(***************************************************************************)
driver_dies ==
  /\ driver \in {"wait_a", "wait_b", "kill_a", "sleep", "wait_a2", "shutdown"}
  /\ Mishap
  /\ CloseStdin
  /\ driver' = "died"
  /\ UNCHANGED <<vars, main, snap, file, pass, spawned, lines, stopped, late>>

-----------------------------------------------------------------------------
(* The verdict *)

Books == INSTANCE RequestAccount WITH AttemptIds <- {A1, A2, B1}, CountModulus <- 2^20,
                                      NoAttempt <- Absent

(***************************************************************************)
(* reconcile_request of the entries of request r.  (g \in {f} makes TLC    *)
(* evaluate the fold so far once.)                                         *)
(***************************************************************************)
AccountIn(frames, r) ==
  LET mine == SelectSeq(frames, LAMBDA e : e.request = r)
      Step(f, e) == CHOOSE h \in {Books!Folded(g, e.payload) : g \in {f}} : TRUE
  IN  Books!Account(FoldLeft(Step, Books!EmptyFold, mine))

(***************************************************************************)
(* The ledger after replay_into an empty one.                              *)
(***************************************************************************)
Replayed(frames) ==
  LET After(l, status, e) ==
        [log |-> LogAfter(e, status, l.log), idx |-> IndexAfter(e, status, l.log, l.idx)]
      Step(f, e) ==
        CHOOSE h \in {After(l, append_status(e, {}, l.log, l.idx), e) : l \in {f}} : TRUE
  IN  FoldLeft(Step, [log |-> << >>, idx |-> EmptyIndex], frames).log

(***************************************************************************)
(* LedgerStore::load succeeds (load_ok of Persistence).                    *)
(***************************************************************************)
load_ok(f) ==
  /\ f.header = "ok"
  /\ \A i \in 1..Len(f.frames) : f.frames[i] # Torn
  /\ \A i, j \in 1..Len(f.frames) : f.frames[i].id = f.frames[j].id => i = j

(***************************************************************************)
(* A file that loads as no entry at all is not examined.                   *)
(***************************************************************************)
verify ==
  /\ driver = "verify"
  /\ pass' = (/\ pass
              /\ load_ok(file)
              /\ file.frames # << >> =>
                   /\ AccountIn(file.frames, "R").outcome = "completed"
                   /\ AccountIn(file.frames, "R").attempt_count = 2
                   /\ AccountIn(file.frames, "R2").outcome = "completed"
              /\ Replayed(file.frames) = file.frames)
  /\ driver' = "report"
  /\ UNCHANGED <<vars, processVars, spawned, lines, stopped, mishaps, late, owed>>

DriverNext ==
  \/ spawn_workers \/ await_a \/ await_b \/ kill_a \/ restart_a \/ await_a2
  \/ write_shutdown \/ await_stopped \/ kill_all \/ verify

ScenarioInit ==
  /\ ProcessInit
  /\ driver = "spawn"
  /\ pass = TRUE
  /\ spawned = {}
  /\ lines = [c \in Children |-> << >>]
  /\ stopped = FALSE
  /\ mishaps = 0
  /\ late = FALSE
  /\ owed = {}

ScenarioNext ==
  \/ \E c \in Children : WorkerStep(c) \/ reader_step(c)
  \/ accounting_step
  \/ main_step
  \/ DriverNext
  \/ driver_dies

ScenarioSpec == ScenarioInit /\ [][ScenarioNext]_allVars

(***************************************************************************)
(* As long as something can happen, something does; but no wait is obliged *)
(* to time out, no write to fail and the driver not to die.  This is less  *)
(* than the operating system grants, and enough: no process or thread of   *)
(* the scenario can take steps for ever.                                   *)
(***************************************************************************)
ScenarioFairness == WF_allVars(ScenarioNext /\ mishaps' = mishaps)

FairScenarioSpec == ScenarioSpec /\ ScenarioFairness

-----------------------------------------------------------------------------
(***************************************************************************)
(* A run of the driver in which nothing timed out and no write failed      *)
(* reports PASS exactly if the coordinator saw the loss of worker A before *)
(* the first event of its successor: the verdict hangs on the 600 ms sleep *)
(* (iledger_multiprocess.cpp, "Allow the coordinator to notice the loss")  *)
(* and on nothing else, whatever the threads and processes do.             *)
(***************************************************************************)
VerdictHangsOnTheSleep ==
  (driver = "report" /\ mishaps = 0) => (pass <=> ~late)

(***************************************************************************)
(* PASS means what the head of iledger_multiprocess.cpp promises: the file *)
(* holds the entries of A's first life, those of B once, and the fresh     *)
(* ones of A's second life; none of the stale ones; each script in its own *)
(* order; and the account of R is that of the fresh attempt alone.         *)
(***************************************************************************)
PassMeansTheClaims ==
  (driver = "report" /\ pass) =>
    LET Of(script) == SelectSeq(file.frames, LAMBDA e : e \in Range(script))
        r == AccountIn(file.frames, "R")
    IN  /\ file.frames = entries
        /\ Of(a1) = a1
        /\ Of(b1) = <<b1[1], b1[2], b1[4]>>
        /\ Of(FreshScript) = FreshScript
        /\ Len(file.frames) = Len(a1) + 3 + Len(FreshScript)
        /\ r.work.gpu_active_s = 600
        /\ r.totals.res_acq = 1

(***************************************************************************)
(* Whenever the coordinator process reports COORD_STOPPED, the file loads, *)
(* it is a prefix of the ledger, and it holds every event that a worker    *)
(* had seen acknowledged when standard input was closed: by SHUTDOWN, or   *)
(* by the death of the driver with workers in the middle of their scripts. *)
(***************************************************************************)
SavedHoldsAcked ==
  stopped =>
    /\ load_ok(file)
    /\ IsPrefix(file.frames, entries)
    /\ owed \subseteq Range(file.frames)

(***************************************************************************)
(* No wait of the driver depends on its timeout: the scenario reports a    *)
(* verdict, or the driver has died, or the ledger could not be written.    *)
(***************************************************************************)
ScenarioReports == <>(driver \in {"report", "died"} \/ main = "failed")

=============================================================================
