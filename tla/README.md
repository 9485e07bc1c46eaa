# A TLA+ model of Inference Ledger

Inference Ledger records what inference requests consume. Worker processes send
events to a coordinator over framed TCP; the coordinator fences them by authority
(epoch, boot id, request and attempt generations) and appends the accepted ones to
an append-only ledger. The ledger is saved to and replayed from a file. From a
snapshot of it the library derives an account for each request, accounts for
batches, shares of shared costs, and prices.

This directory holds TLA+ modules for these parts, TLC configurations that check
them on small instances, and proofs that TLAPS checks for every value of the
constants. `PROJECT.json` lists the runs and the source lines behind each
definition.

## Inventory

| part | state | operations | hard behaviour |
|---|---|---|---|
| coordinator (`coordinator.cpp`) | authority, in-flight requests, work queue, connections | register, event, worker loss; public `advance_epoch`, `set_request_authority`, `enqueue_event`; `start`, `stop` | a reader per connection, one accounting thread, callers of public operations; losses race restarts; shutdown races everything |
| worker (`iledger_worker.cpp`) | the epoch it was told, the event it waits on | connect, submit, receive | dies at any time, is restarted with a new boot id |
| authority fence (`authority_state.hpp`) | epochs, generations, boots, attempts | validate, advance, adopt | events of an earlier authority arrive late |
| ledger (`ledger.hpp`) | entries and an index by id | append | duplicates, conflicts, invalid and stale entries |
| persistence (`persistence.cpp`, `codec.cpp`) | a file | save, append, load, replay | crashes and failed writes at any byte, retries |
| request accounting (`request_account.cpp`) | locals of one loop | fold an entry, read off the account | attempts interleave and end in several ways; releases come early or twice |
| pricing (`pricing.cpp`) | a store of policies | add, price an account | the same seconds sit in several sums |
| shared costs, batches (`batch.cpp`) | none | allocate, reconcile a batch, weigh its members | rounding; weights that do not fit; entries of other batches |
| queries (`query.cpp`) | none | select, group, aggregate | several ways to take a snapshot apart |
| protocol (`protocol.cpp`) | sockets | send, receive, close | partial reads and writes, several senders, an end that closes inside a frame or does not read |
| codecs (`codec.cpp`, `protocol.cpp`) | none | encode, decode | lengths, checksum, refusals |
| coordinator process (`iledger_coordinator.cpp`) | standard input, snapshot, file | wait, snapshot, save, stop | events arrive meanwhile |
| multiprocess driver (`iledger_multiprocess.cpp`) | the children, their output, the verdict | spawn, wait, kill, sleep, restart, shut down, verify | waits that are too short, a restart that overtakes a loss, its own death |

The command line tool, the benchmark and the CUDA demonstration only call the library
and print; they have no state to model.

## Modules

| module | models |
|---|---|
| `Authority` | `AuthorityState`, `validate_authority`, and the two ways in which the coordinator changes it |
| `Ledger` | `Ledger::append`: the status, the log and the index after it |
| `AppendOnlyLedger` | the promise of the ledger: a log to which entries with new ids are added, and nothing else |
| `Coordinator` | the running coordinator with its workers |
| `CoordinatorProperties` | what it is expected to guarantee |
| `CoordinatorProofs`, `CoordinatorAnswerProofs`, `CoordinatorProtocolProofs` | proofs about it: ledger and losses, answers and epochs, the protocol; each extends the one before |
| `Shutdown` | the threads of the coordinator from `start` to the end of `stop` |
| `Persistence` | the ledger file and the process that writes it |
| `PersistenceProofs` | proofs about it |
| `RequestAccount` | `reconcile_request` as operators: one entry folded in, the account read off |
| `ReconcileRequest` | its loop as a state machine, and the properties of accounts |
| `Pricing` | `apply_pricing` and the policy store, on top of `ReconcileRequest` |
| `RequestAccountProofs` | lemmas: what folds over any sets and sequences compute, and what the operators of `RequestAccount` do |
| `AccountProofs` | proofs about accounts and prices |
| `SharedAllocation` | `allocate_shared`, one step for each branch and iteration |
| `Query` | `query.cpp` and `reconcile_batch` as operators |
| `Billing` | a ledger that grows, and the bill of a batch: `reconcile_batch`, `member_weights_for_policy`, `allocate_shared` |
| `BillingProofs` | proofs about queries, batches, shared costs and bills |
| `CoordinatorProcess` | `main` of the coordinator process, around `Coordinator` |
| `Multiprocess` | the end-to-end scenario: driver, coordinator process, three workers, file and verdict |
| `Wire` | `ByteWriter`, `ByteReader`, `crc32`, and formats given as lists of fields |
| `Codec` | `encode_entry`, `decode_entry`, `encode_message`, `decode_message` |
| `Framing` | `send_message`, `write_all`, `recv_message`, `read_all`, `close` of a `FramedSocket`, for any codec |
| `Fifo` | the promise of a connection: whole messages, in order, each at most once |
| `FramingProofs` | proofs about `Framing` |
| `Strict` | `Strictly`, which makes TLC evaluate an argument once |
| `MCCoordinator`, `MCShutdown`, `MCPersistence`, `MCPricing`, `MCBilling`, `MCMultiprocess`, `MCFraming` | instances for TLC |

**Coordinator.** A connection `c` stands for one worker process, with worker id
`WorkerOf[c]` and boot id `BootOf[c]`; two connections of one worker are a restart.
`inbox` and `outbox` are the two directions of the TCP stream: ordered, and cut off
when the process dies (`Disconnect`, which may lose what was not yet read). A reader
step takes one frame and queues one work item. An event of `Oversize` encodes to a frame
over 16 MiB, which `recv_message` refuses: the reader then reports the worker lost and
ends, as at the end of a stream (`RecvFails`), but the socket stays open and the worker
goes on waiting. The accounting thread takes an item;
each section of a handler that holds `state_mu_` is one step, and `acct` remembers
where between two sections the thread is. So `handle_registration` has two steps and
`handle_worker_lost` three, between which readers, workers and public calls run.
The last of the three gathers the sockets, reads the epoch and sends in one step:
only this thread sends rolls and changes registrations, and an `advance_epoch` that
falls inside is the same as one just before or after. `Conn::registered` and
`Conn::worker` are read by readers without a lock; `ConnSeen` lets them find either
value while the accounting thread writes. A null connection (`enqueue_event`) ends
the accounting thread in state `"crashed"`. The answer to `Ping` is left out, as it
touches no state. That the streams carry whole messages in order, whatever the sockets
do with the bytes, is what `Framing` shows. Sends do not block here; when they can is
`SendReturns` of `Framing`.

**Shutdown.** Work items are reduced to the connection they come from. `wait` of the
condition variable has the two states that matter: `"blocking"`, when the predicate
was false and `q_mu_` is still held, and `"waiting"`, when a notification is heard.
`CloseWakes` tells the two socket layers apart: `closesocket` wakes a thread blocked
on the socket, POSIX `close` without `shutdown` does not.

**Persistence.** The file is the state of its header and a sequence of frames, a
frame being an entry or `Torn`. `save_snapshot` and `append_entries` write in steps.
A crash or failed write leaves what was written so far, possibly with a part of what
came next (`Interrupted`). The header of a new file may be lost without notice
(`header_lost`). `claimed` and `intent` are history variables: what a caller may take the
file to hold, because a header was written or the file would have loaded, and what the
last operation was to write.

**Coordinator process and scenario.** `CoordinatorProcess` adds the main thread: it
reads SHUTDOWN or the end of standard input, copies the ledger, writes the file and
stops, while the threads of `Coordinator` go on. Nobody looks at the file before it is
finished or the process is killed, so `save` is one step, which fails or is cut short
to one of the files that `Persistence` can leave. `Multiprocess` adds the driver, one
step for each statement that waits or acts, with the scripts of the repository. Of
entries in a script that differ only in what they are charged to, one is kept. The
driver is never made to wait longer than the code makes it: a `wait_for` may end too
early (`SlowWaits`), and the sleep of 600 ms has no length. The driver may also die, and
a save may fail. The judgement is the code's own: the acknowledgements it looks at, then
load, accounts and replay of the file. `late` and `owed` are history variables.

**Connection.** `Framing` keeps every byte: what each sender has still to hand to
`send`, what the kernel holds (at most `Capacity`), how far `recv_message` has read.
`send` and `recv` move any number of bytes. A sender or receiver may close at any point, a closed end may take
unread bytes with it, and a receiver may stop reading, as a worker in hold mode does. A
`recv_message` that returns false leaves the socket open, and so does its caller:
`reading` is then `"failed"`, nobody reads, and the sender is not told.
The codec is a parameter, of which `CodecAssumption` asks only that a header tells the
length and that a frame decodes to its message; TLC evaluates the assumption for
`Codec`: the layouts of the code, field by field, over `Wire`, with the
numbers of bits and bytes as constants, and a checksum that is computed bit by bit as in
`crc32_impl`. An optional field is one field. The bits of a double are a number, of which
some are negative, not finite or not integral.

**Accounts.** Time is in ticks and quantities in halves, so that `llround` has
something to round; sums of doubles are exact. Counters are sums taken modulo
`CountModulus` (2^64 in the code) where they are read. Units and provenance labels
are left out. `Pricing` counts money in a unit in which the quotients by `kGiB` and
`kJoulesPerKwh` are whole. `SharedAllocation` rounds quotients to a coarse grid, so
that, as in doubles, shares do not add up to the total; a residual is dropped by its size
(`Negligible`) and accepted relative to the total (`Tolerance * Scale`). In `Query` one
field stands for all those that a query compares in the same way, what a loop over the
ledger selects is the set of its positions, taken in order (`InOrder`), and an average is
a numerator with its denominator. `Billing` takes the calls in the
order of `examples.cpp`; it also calls `allocate_shared` with arguments that no ledger
stands behind, as the tests do.

Definitions with a comment that begins with "Mutant" or "A bug" are faulty variants of
the definition that follows them. No specification uses them; each shows that some
property would notice that fault.

## Runs

Expected to pass:

| run | instance | question |
|---|---|---|
| `race` | three connections: a worker, its restart, another worker; one of three events each, one of them too large | Whatever order workers come, submit, die and are lost in: is a loss queued behind all that is ever read from the connection (`LossIsLast`), are survivors told the epoch (`SurvivorsTold`) and never an older one (`ViewNeverRegresses`), does a worker see only messages it expects (`NoUnexpectedMessage`)? |
| `fence` | two workers, six kinds of event; four events in all, or two and a public call (`Budget`) | Do log, index, in-flight set and acknowledgements agree (`IndexAgrees`, `InFlightMatchesLedger`, `AckMatchesLedger`, `OneAnswerPerEvent`), are epochs in order (`EpochOrder`), is the log append-only (`ImplementsAppendOnlyLedger`)? |
| `progress` | two workers, one event each, which may be too large, one public call; fair | Is every waiting worker answered, unless its event was refused (`EventAnswered`), does the loss of a registered worker, or its event being refused, advance the epoch (`PublishedLossRolls`)? |
| `winsock` | two connections, one frame each, `CloseWakes` | Do the accept loop and all readers end after `stop` (`BlockingReadsReturn`), is everything queued before it handled (`EarlyItemsHandled`)? |
| `files` | two ids, one with two contents, an entry that does not encode; three frames, two faults | Does success mean that all is in the file, and when does it mean loadable (`SuccessIsLoadable`), does load only ever return a prefix of what was to be written (`LoadedIsPrefixOfIntent`), does replay reproduce (`ReplayReproduces`, `ReplayOnlyConflicts`), does an append leave what was there (`AppendKeepsTheOld`)? |
| `accounts` | four entries about two attempts, or three about resources; one policy | Is the winner the one that ended last (`WinnerEndedLast`), whatever the order of arrival (`ArrivalOrderIrrelevant`); are work and waste all of the execution (`SettledTotalsReconcile`), and, without CPU work, billed once (`GpuWorkBilledOnce`); do other attempts add nothing (`OtherAttemptsAddNothing`); are sums and peaks consistent (`ExecutionIsGpuPlusCpu`, `PeakBounds`)? |
| `bills` | ledgers of up to four entries of two requests or none, in two batches or none; up to four members and weights of a caller's own; all policies | Do the ways to take a ledger apart agree (`GroupsAgreeWithQueries`, `BatchesPartitionTheWork`)? Do shares and overhead equal the total (`ProportionalReconciles`), do shares follow the weights (`SharesFollowWeights`) and, from end to end, what the ledger records (`BillFollowsTheLedger`)? |
| `scenario` | the scenario of the repository, one mishap, fair | Does PASS mean what the driver's head says (`PassMeansTheClaims`)? Without a mishap, does the verdict depend on anything but the sleep being long enough (`VerdictHangsOnTheSleep`)? Is what was acknowledged before shutdown in the file (`SavedHoldsAcked`), even when the driver dies? Does a verdict always come (`ScenarioReports`)? |
| `stream` | two threads, two messages of four kinds, one too long, one with an entry; the kernel holds four bytes; `Codec` with small fields; fair | Are frames never confused (`NeverMisread`) and messages delivered whole, once and in order (`DeliversInOrder`, a refinement of `Fifo`)? Does a frame that is cut short never decode (`CutShortNeverDecodes`)? Does a sender always return, unless nobody reads an open socket whose buffer is full (`SendReturns`), and does what is sent arrive (`SentArrives`)? |

Expected to be violated, because the code does not do what the repository says:

| run | statement | what happens |
|---|---|---|
| `superseded` | "A stale attempt completion never adds cost to the current request." (`README.md:72`) | A `RequestStart` delivered again is answered Duplicate, but `handle_event` has by then made its attempt the current one; work of the superseded attempt is accepted. |
| `lost` | the coordinator "rolls authority when a worker is lost" (`coordinator.hpp:8-9`) | A worker dies while its registration is being published; its reader finds `registered` false, the loss is never queued. |
| `wakeup` | after SHUTDOWN the process "saves a snapshot of the authoritative ledger and exits" (`iledger_coordinator.cpp:6-7`) | `notify_all` without `q_mu_` falls between predicate and sleep; `stop` joins for ever. |

**Bounds.** Two workers and one restart are the smallest system in which a loss races
a restart while somebody survives. The six events of `fence` are one of each status
and kind that a handler distinguishes; four between two workers, at most three from
one, suffice to repeat, conflict, supersede and end. `Budget` trades two of them for a
public call, since a call multiplies the states. `MaxApi` bounds public calls,
`MaxEvents` events of a process, `MaxFrames` frames of a peer or file, `MaxFaults` crashes
and failures; two faults are a failure followed by a failed retry. Four entries are two attempts with work and an outcome
each. The grid of 8 parts cannot represent thirds and fifths; a `Unit` of 4 has amounts
on both sides of the one from which on a dropped residual is within the tolerance. `scenario` has one
instance, the repository's, with one mishap (`MaxMishaps`): the wait for worker A or for
COORD_STOPPED is too short, the save fails, or the driver dies at some point. The other
two waits are not cut short (`SlowWaits`); where they are, the verdict is FAIL. In
`stream` a byte has 6 bits, a number two bytes and an id one, with a checksum polynomial
of that width: layouts and tests are those of the code, the sizes are not. Two messages
(`MaxSends`) are enough for two senders to meet and for a frame to follow another, and a
`Capacity` of one header forces every frame to be written in pieces. `accounts` explores
requests about attempts and requests about resources separately (`Explored`) to stay
small, with the policy there from the first entry on; a request that mixes the two kinds
of entries is not explored. Deadlock is not checked: all these systems may stop,
when workers are gone or bounds are reached.

**Fairness.** Only threads are fair. In `Coordinator` the accounting thread, each
reader, and a worker with a frame to read take steps as long as they can; in
`Shutdown` each thread does; in `Framing` each thread inside `send_message` and the
receiving thread do; in `Multiprocess` it is enough that something that can happen
happens, since nothing there can go on for ever. Elsewhere nobody has to connect, send,
die, call an operation or call `stop`. This is what a preemptive scheduler gives: no thread spins on a lock and
each critical section is finite.

## Proofs

**Coordinator**, for any connections, events and bounds, from `CoordinatorAssumption`
alone. `CoordinatorProofs`:

* `TypeCorrect`: `TypeOK` is inductive; one step per action.
* `LedgerInvariant`: the inductive invariant `LedgerInv` is `IndexAgrees`,
  `EpochOrder`, `InFlightMatchesLedger` and `authority.epoch =
  authority.accounting_generation`. The last conjunct is the strengthening: an
  accepted entry carries the current epoch and generation, so the pairs in the log
  belong together only if the current ones do. The lemmas `LedgerStep` and `EpochStep`
  reduce the seventeen actions to two cases: the ledger takes one event through
  `append`, or it does not change, and the epoch never decreases. `IndexStep`,
  `OrderStep` and `InFlightStep` then treat one conjunct each.
* `IndexAlwaysAgrees`, `EpochsAreOrdered`, `InFlightIsExact` follow.
* `Refinement`: every step is a `Store` of `AppendOnlyLedger` or leaves the log
  alone. That the id is new comes from `IndexAgrees`.
* `LossComesLast` (`LossIsLast`). The strengthening `LossInv` says that the reader of a
  connection whose loss is queued is done, and that nothing more can be read from it: its
  worker is gone and its stream drained, or the next frame is refused. A frame that is
  refused stays at the head of its stream (`HeadStays`), so nothing is queued later.
* `SurvivorsAreTold` (`SurvivorsTold`). `ToldInv` says that the current epoch is the last
  one in the stream to each registered worker, or the one it knows, except between the
  advance of the epoch and the Rolls that follow. The Rolls skip the worker that was
  lost; `LostWorkerGivenUp` says that the reader of one of its connections is done, and
  it stays so (`DoneForever`), so that the worker is no survivor.

`CoordinatorProtocolProofs`, with the step lemmas of `CoordinatorAnswerProofs`:

* `HandshakeInvariant`. `HandshakeInv` counts: the Register of a connection is in at most
  one place (frame, queue, being published, done), the event of a worker in exactly one
  place while it waits and in none otherwise (unread, queued, answered), and the frames
  to a worker come in the order in which it reads them. Finite cardinalities are needed
  because each action moves one element from one place to another.
* `NoWorkerIsSurprised` (`NoUnexpectedMessage`) and `EveryEventHasOneAnswer`
  (`OneAnswerPerEvent`) follow from it.
* `AcksAreTrue` (`AckMatchesLedger`). From the counts follows `OneAtATime`: a worker that
  does not wait has nothing in transit. Given this, the event in transit is the one that
  the worker waits for (`PendingInTransit`), and an answer in its stream is true of that
  event and of the ledger (`AcksTrue`) and stays true as the ledger grows
  (`StatusStaysTrue`), although it carries no id.
* `WorkersMoveForward` (`ViewNeverRegresses`). `EpochsInTurn` says that the epochs in a
  stream do not decrease, are not below what the worker knows and not above the
  current one; the epoch that a handler has read and not yet sent is not above it either.

**Accounts and prices**, `AccountProofs` with the lemmas of `RequestAccountProofs`, for any
attempts, entries and policies, from the assumptions of `RequestAccount`,
`ReconcileRequest` and `Pricing`:

* `TypeCorrect`: no duration is ever negative, whatever the timestamps.
* `ExecutionIsExact`: `ExecutionIsGpuPlusCpu` is inductive attempt by attempt.
* `PeaksAreBounded`: `PeakBounds` is inductive when the entries are physical.
* `WinnerIsLastToEnd` (`WinnerEndedLast`): the selection over any set of attempts yields a
  successful one that ended last, or none if none succeeded. `LosersAddNothing`
  (`OtherAttemptsAddNothing`) needs that an attempt not seen is as `EmptyFold` has it
  (`UnseenIsFresh`).
* `NoWorkLostOrDoubled` (`SettledTotalsReconcile`): the sums over completed, failed and
  cancelled attempts are sums over sets that partition the attempts seen.
* `FoldCommutes`: two entries folded in either order give the same attempts, totals
  and allocations, from every state. `EitherOrderSameAccount` (`ArrivalOrderIrrelevant`)
  carries this through the rest of a log of any length: the state of the loop is the fold
  of the entries so far (`FoldFollowsEntries`), and states that record the same work
  (`SameWork`) still do so after one more entry.
* `GpuSecondsBilledOnce` (`GpuWorkBilledOnce`): from the partition of the attempts behind
  `NoWorkLostOrDoubled`, for every policy. Attempts of one outcome and no CPU work are
  premises: without them the code bills some seconds twice or not at all (see below).

Folds over sets and sequences are recursive functions. `RequestAccountProofs` shows by least
counterexample that they are defined on every finite set or sequence and what one more
element does to them; the proofs about accounts and shares go the same way.

**Queries, batches and bills**, `BillingProofs`. For any ledger, requests and finitely many
batches, from the assumptions of `RequestAccount`, `Query` and `Billing`:

* `GroupsAreTheQueries` (`GroupsAgreeWithQueries`). The sequences are listings of sets of
  positions or ids in increasing order; `InOrderListsOnce` shows, by counting the smaller
  elements, that `InOrder` lists each element exactly once, and `DistinctListsOnce` that
  the first entries of the requests list the requests.
* `BatchesAddUpToRequests` (`BatchesPartitionTheWork`). A sum over a listing is the sum over
  the set that is listed (`SumReindexed`), so the sum over batches of sums over members is
  one sum over the requests (`SumOfSums`); under the premises of the property the entries
  of a member in its batch are all of its entries.

For one call of `allocate_shared` with any integer amount, any members and any weights
(`AllocationSpec`), from `AllocationAssumption`:

* `SharesMakeUpTheTotal` (`ProportionalReconciles`). `AllocationInv`: `assigned` is the sum of the
  shares so far, each of which is `Share` of its index. What is missing is then the
  residual, or less than `Negligible`, which is within the tolerance of all but tiny totals.
* `SmallerWeightNeverPaysMore`: `SharesFollowWeights` if the total is not negative. For a
  negative one the order is reversed.

From the ledger to the bill:

* `BillsAreAllocations`: `Billing` implements `AllocationSpec`. What `reconcile_batch` and
  `member_weights_for_policy` pass on are numbers, one weight for each member
  (`BatchNumbers`).
* `EveryBillReconciles` (`ProportionalReconciles`) and `EveryBillFollowsWeights`
  (`SharesFollowWeights`): the two theorems above for every bill. GPU time and its price are
  never negative, so the second needs no condition on the total.

**Connection**, `FramingProofs`, for any codec that satisfies `CodecAssumption`, any senders,
messages, limits and sizes of reads and writes, from it and `SizeAssumption`:

* `FramesNeverMisread` and `FramingImplementsFifo`. The inductive invariant `IInv` adds
  three facts to the types and to `NeverMisread`: the frames lie on the wire one after the
  other as far as it goes (`Laid`); all but the last are whole, and what is missing of
  the last is what the holder of `write_mu_` has still to write (`Written`); the
  receiver is inside the frame after those it has returned (`Placed`). Each is needed:
  without `Written` two senders could mix, without `Placed` the bytes that the
  receiver takes for a header need not be one. One lemma per action; `HeaderRead` and
  `SliceOfFrame` show that the bytes read are those of the frame.

**Persistence**, `PersistenceProofs`, for any entries and any number of operations and faults,
from `PersistenceAssumption`:

* `LoadIsPrefix`, `SuccessLoads`, `AppendIsSafe`, `OnlyConflictsStop`: the properties
  `LoadedIsPrefixOfIntent`, `SuccessIsLoadable`, `AppendKeepsTheOld` and
  `ReplayOnlyConflicts`. The inductive invariant says that while an operation writes, the
  frames in the file and those it has still to write are what it was to write
  (`WritingInv`); that a file at rest is a prefix of that if it loads (`RestInv`), and all
  of it if the operation succeeded (`CompleteInv`); that a file relied on has a header and
  whole frames, also during the next append (`ClaimedInv`); and that only valid entries
  are in it (`ValidInv`). One lemma per action;
  `StopStep` treats all the ways in which writing can stop.
* `ReplayIsFaithful` (`ReplayReproduces`). `MemoryIndexed` says that the index of the ledger in
  memory finds exactly its entries, `ReplayInv` where each frame replayed so far has gone.
  That every new frame is added depends on the ids of a file that loads being
  distinct (`UniqueIds`), which `LedgerStore::load` checks.

Only model-checked: liveness (`progress`, `winsock`, `scenario`, `stream`), which the prover
cannot treat with fairness; that the codec satisfies `CodecAssumption` and
`CutShortNeverDecodes`, which are evaluated for the messages of `stream`, since `Wire` is
recursive and computes with bits; `BillFollowsTheLedger`, which reads off the ledger what an
account should hold and is right only for the kinds of entries of its instance;
`Shutdown`, of which only liveness is stated; and `Multiprocess`, which has the one
instance that TLC explores.

## Further observations

Behaviour of the code, met while modelling, that a doc or comment describes
differently and for which no run is kept.

* `coordinator.cpp:195`: a `RequestStart` that is then rejected as stale has already
  released a rolled request (`authority_state.hpp:30-32`).
* `coordinator.cpp:175`: the `Register` of a dead process, handled late, replaces the
  boot id of its successor.
* `coordinator.cpp:230`: a restarted worker that registers before the loss of its
  predecessor is handled is not sent the roll. `SurvivorsTold` excludes it.
* `coordinator.cpp:163`: `enqueue_event` leads to a null dereference.
* `coordinator.cpp:35`: with POSIX sockets `close` does not wake a blocked reader; the
  comment at line 31 says "so blocking reads return". The runs of `Shutdown` use the
  Winsock behaviour, so nothing is shown of the other.
* `coordinator.cpp:101`: on all platforms a detached reader may outlive `stop`.
* `coordinator.cpp:111`: `registered` and `worker` are read without a lock while the
  accounting thread writes them.
* `iledger_coordinator.cpp:43`: the snapshot is taken before `stop`, so an event
  acknowledged in between is not in the file. `SavedHoldsAcked` speaks of those
  acknowledged before standard input was closed.
* `iledger_multiprocess.cpp:358-377`: the entries for a stale boot and a stale attempt
  also carry accounting generation 1, for which alone they are stale; the fences they
  are named after are not exercised.
* `iledger_multiprocess.cpp:355`: whether the scenario passes depends on 600 ms being
  enough for the loss to be noticed (`VerdictHangsOnTheSleep`).
* `persistence.cpp:118`: `append_entries` empties a file whose first eight bytes are
  not the magic; `persistence.hpp:60` says "Existing content is left untouched".
* `persistence.cpp:100-113`: a file with the magic and another schema version, or with
  a header that is cut short, is appended to with success, and load refuses it.
* `persistence.cpp:126`: an append behind a frame that was cut short reports success, for
  a file that load refuses.
* `persistence.cpp:160`: a file that ends between two frames loads as a shorter ledger;
  `persistence.hpp:11` and `README.md:92` say that truncation is rejected.
  `LoadedIsPrefixOfIntent` is what holds.
* `persistence.cpp:119`: the header of a new file is flushed by the destructor of its
  stream. If that write fails, the append goes on and may report success for a file that
  load refuses.
* `codec.cpp:224`: `decode_entry` does not ask that a count is whole; `encode_entry`
  does.
* `protocol.cpp:12-23`: an unknown message type is taken for `Ping`.
* `protocol.cpp:203`: frames over 16 MiB are refused by the receiver, a limit that
  `encode_message` does not know. The reader of the coordinator gives the connection up
  without closing it: the worker, alive, is reported lost and waits for an answer that
  never comes. `EventAnswered` excludes it.
* `coordinator.cpp:216-217` says that in-flight events of a lost worker are "rejected as
  stale": those that were read before its end are in the queue before the loss, and are
  judged under the old epoch (`LossIsLast`).
* `README.md:59` says "Attempt totals reconcile to the request total": an attempt that
  failed and was cancelled is in two sums (`request_account.cpp:287`), one that
  completed and did not win is in none. `SettledTotalsReconcile` is the case that holds.
* `query.cpp:61-86`: nothing sets the cost total of an aggregate, so the cost per token
  is 0; nothing in `request_account.cpp` sets `reused_work`, so the reuse rate is 0.
* `ledger.hpp:126`: a negative allocation passes under the resource kind `Generic`.
* `pricing.cpp:57`: `execution_s`, billed at the GPU rate, contains the CPU time, which
  line 70 bills again at its own rate; the comment at lines 65-69 says that "the useful
  split uses GPU time". `GpuWorkBilledOnce` is the case without CPU time.
* `pricing.cpp:99`: `add` replaces a policy of the same id; `pricing.hpp:105` says it
  "never mutates an existing one".
* `batch.cpp:68` drops a negative residual below 1e-12, `batch.hpp:66-67` accepts one below
  1e-9 of the total: of a total under 0.001 the first may be more than the second.
  `ProportionalReconciles` leaves such totals out.
* `batch.cpp:35`: a directly owned cost reconciles only if the owner is a member
  exactly once.
* `query.cpp:57`: groups come sorted by id; `query.hpp:48` says "preserving first-seen
  order".
* `batch.cpp:112`: an entry without a batch id is counted in every batch; one without a
  request as well makes the zero id a member, and, where it comes first, the default
  owner of a directly owned cost.

## Not modelled

* `derive_entry_id` and ledger fingerprints: hashes of content, of which the code asks
  no more than that equal contents hash alike. Ids are values here.
* Parsing and printing of ids, units and reports; the command line tool and the
  benchmark, which do little else; the CUDA demonstration, which needs a device.
* `all_finite`, `useful_fraction`: tests and quotients of sums that are modelled.
* Rounding of sums of doubles: the arithmetic of accounts and prices is exact, except
  for the quotients in `allocate_shared`.
* Sockets on POSIX, where `close` does not wake a reader and `send` may raise SIGPIPE.
* Sends that block inside the coordinator: `Framing` shows when they do, `Coordinator`
  takes a send as one step.
