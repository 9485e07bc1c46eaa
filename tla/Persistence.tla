---------------------------- MODULE Persistence ----------------------------
(***************************************************************************)
(* LedgerStore (persistence.cpp): a ledger file, the operations that write *)
(* it frame by frame, the process that runs them and may die in any of     *)
(* them, and recovery into an in-memory ledger.                            *)
(*                                                                         *)
(* A file is its header and its frames.  A frame holds an entry, or is     *)
(* Torn: a prefix of a frame, which load recognises by its length or its   *)
(* checksum, as it does every frame behind a torn one.                     *)
(***************************************************************************)
EXTENDS Ledger, FiniteSets

CONSTANTS
  Events,      \* the entries of the in-memory ledger and of callers
  Torn,        \* a frame that is not whole
  Unknown,     \* no operation vouches for what the file holds
  MaxMem,      \* bound on the in-memory ledger
  MaxBatch,    \* bound on the entries of one append_entries
  MaxFrames,   \* bound on the frames of a file that is appended to
  MaxFaults    \* bound on crashes and failed writes

ASSUME PersistenceAssumption ==
  /\ Events \subseteq LedgerEntry
  /\ {MaxMem, MaxBatch, MaxFrames, MaxFaults} \subseteq Nat
  /\ Torn \notin Events

VARIABLES
  mem, idx,    \* the in-memory ledger: entries_ and index_
  file,        \* the ledger file
  op,          \* the operation in progress, the entries it has still to do, and
               \* (of a replay) the size of the ledger it started with
  last,        \* the last operation that returned, and its result
  claimed,     \* what a caller may take the file to hold, by its header, a load
               \* and the results returned; or Unknown
  intent,      \* what the last writing operation was to make the file hold
  faults       \* crashes and failed writes so far

vars == <<mem, idx, file, op, last, claimed, intent, faults>>

(***************************************************************************)
(* The first 28 bytes of the file: "none" (no or an empty file), "short"   *)
(* (less than the 8 bytes of the magic), "partial" (the magic, but less    *)
(* than the whole header), "foreign" (another magic), "version" (another   *)
(* schema version) or "ok".                                                *)
(***************************************************************************)
Headers == {"none", "short", "partial", "foreign", "version", "ok"}

NoOp == [kind |-> "none", stage |-> "none", todo |-> << >>, base |-> 0]

Init ==
  /\ mem = << >>
  /\ idx = EmptyIndex
  /\ file \in [header : {"none", "foreign", "version"}, frames : {<< >>}]
  /\ op = NoOp
  /\ last = [kind |-> "none", ok |-> TRUE]
  /\ claimed = Unknown
  /\ intent = << >>
  /\ faults = 0

-----------------------------------------------------------------------------
(* Reading *)

UniqueIds(s) == \A i, j \in 1..Len(s) : s[i].id = s[j].id => i = j

(***************************************************************************)
(* Mutant of load_ok: ids are not compared.                                *)
(***************************************************************************)
LoadIgnoringIds(f) ==
  f.header = "ok" /\ \A i \in 1..Len(f.frames) : f.frames[i] # Torn

(***************************************************************************)
(* Mutant of load_ok: length and checksum of a frame are not compared.     *)
(***************************************************************************)
LoadUnchecked(f) ==
  /\ f.header = "ok"
  /\ \A i, j \in {k \in 1..Len(f.frames) : f.frames[k] # Torn} :
       f.frames[i].id = f.frames[j].id => i = j

(***************************************************************************)
(* load succeeds.  Its result is then file.frames; otherwise it returns no *)
(* entry at all.                                                           *)
(***************************************************************************)
load_ok(f) ==
  /\ f.header = "ok"
  /\ \A i \in 1..Len(f.frames) : f.frames[i] # Torn
  /\ UniqueIds(f.frames)

(***************************************************************************)
(* replay_into the ledger in memory: load, then append one after another.  *)
(***************************************************************************)
replay_load ==
  /\ op = NoOp
  /\ \/ /\ load_ok(file)
        /\ op' = [kind |-> "replay", stage |-> "frames", todo |-> file.frames,
                  base |-> Len(mem)]
        /\ UNCHANGED last
     \/ /\ ~load_ok(file)
        /\ last' = [kind |-> "replay", ok |-> FALSE]
        /\ UNCHANGED op
  /\ UNCHANGED <<mem, idx, file, claimed, intent, faults>>

replay_entry ==
  /\ op.kind = "replay"
  /\ op.todo # << >>
  /\ LET e == Head(op.todo)
         status == append_status(e, {}, mem, idx)
     IN  /\ mem' = LogAfter(e, status, mem)
         /\ idx' = IndexAfter(e, status, mem, idx)
         /\ \/ /\ status \in {"Accepted", "Duplicate"}
               /\ op' = [op EXCEPT !.todo = Tail(@)]
               /\ UNCHANGED last
            \/ /\ status \notin {"Accepted", "Duplicate"}
               /\ op' = NoOp
               /\ last' = [kind |-> "replay", ok |-> FALSE]
  /\ UNCHANGED <<file, claimed, intent, faults>>

replay_done ==
  /\ op.kind = "replay"
  /\ op.todo = << >>
  /\ op' = NoOp
  /\ last' = [kind |-> "replay", ok |-> TRUE]
  /\ UNCHANGED <<mem, idx, file, claimed, intent, faults>>

-----------------------------------------------------------------------------
(* Writing *)

EmptyFile == [header |-> "none", frames |-> << >>]

(***************************************************************************)
(* save_snapshot opens the file for writing, which empties it.  (What a    *)
(* caller may rely on is a variable of the model, not of the code.)        *)
(***************************************************************************)
save_snapshot ==
  /\ op = NoOp
  /\ file' = EmptyFile
  /\ op' = [NoOp EXCEPT !.kind = "save", !.stage = "header", !.todo = mem]
  /\ intent' = mem
  /\ claimed' = Unknown
  /\ UNCHANGED <<mem, idx, last, faults>>

(***************************************************************************)
(* Mutant of has_header: the magic is looked for in a file that ends       *)
(* behind it.                                                              *)
(***************************************************************************)
HeaderUnread(f) == f.header = "partial"

(***************************************************************************)
(* append_entries looks at the magic only.  A file without it is started   *)
(* anew.  A file that load accepts is known to the caller, also when an    *)
(* earlier append to it failed.                                            *)
(***************************************************************************)
has_header(f) == f.header \in {"partial", "version", "ok"}

append_entries(batch) ==
  /\ op = NoOp
  /\ Len(file.frames) + Len(batch) <= MaxFrames
  /\ \/ /\ has_header(file)
        /\ op' = [NoOp EXCEPT !.kind = "append", !.stage = "frames", !.todo = batch]
        /\ intent' = file.frames \o batch
        /\ claimed' = IF load_ok(file) THEN file.frames ELSE claimed
        /\ UNCHANGED file
     \/ /\ ~has_header(file)
        /\ op' = [NoOp EXCEPT !.kind = "append", !.stage = "header", !.todo = batch]
        /\ intent' = batch
        /\ file' = EmptyFile
        /\ UNCHANGED claimed
  /\ UNCHANGED <<mem, idx, last, faults>>

write_header ==
  /\ op.stage = "header"
  /\ file' = [file EXCEPT !.header = "ok"]
  /\ op' = [op EXCEPT !.stage = "frames"]
  /\ claimed' = << >>
  /\ UNCHANGED <<mem, idx, last, intent, faults>>

(***************************************************************************)
(* append_entries writes the header of a new file through a stream of its  *)
(* own, which it does not flush: the write happens when the stream is      *)
(* destroyed, where a failure goes unnoticed and the append goes on.       *)
(***************************************************************************)
header_lost ==
  /\ op.kind = "append" /\ op.stage = "header"
  /\ faults < MaxFaults
  /\ \E h \in {"none", "short", "partial"} : file' = [file EXCEPT !.header = h]
  /\ op' = [op EXCEPT !.stage = "frames"]
  /\ faults' = faults + 1
  /\ UNCHANGED <<mem, idx, last, claimed, intent>>

Writing == op.kind \in {"save", "append"}

(***************************************************************************)
(* Mutant of write_frame: the entry is encoded without being checked.      *)
(***************************************************************************)
WriteUnchecked ==
  /\ Writing /\ op.stage = "frames" /\ op.todo # << >>
  /\ file' = [file EXCEPT !.frames = Append(@, Head(op.todo))]
  /\ op' = [op EXCEPT !.todo = Tail(@)]
  /\ UNCHANGED <<mem, idx, last, claimed, intent, faults>>

write_frame ==
  /\ Writing /\ op.stage = "frames" /\ op.todo # << >>
  /\ content_is_valid(Head(op.todo))
  /\ file' = [file EXCEPT !.frames = Append(@, Head(op.todo))]
  /\ op' = [op EXCEPT !.todo = Tail(@)]
  /\ UNCHANGED <<mem, idx, last, claimed, intent, faults>>

(***************************************************************************)
(* encode_entry refuses the next entry: the operation returns false, with  *)
(* the frames before it written.                                           *)
(***************************************************************************)
encode_fails ==
  /\ Writing /\ op.stage = "frames" /\ op.todo # << >>
  /\ ~content_is_valid(Head(op.todo))
  /\ last' = [kind |-> op.kind, ok |-> FALSE]
  /\ op' = NoOp
  /\ claimed' = Unknown
  /\ UNCHANGED <<mem, idx, file, intent, faults>>

(***************************************************************************)
(* The final flush succeeds.  A caller may rely on the content of the file *)
(* if it could before.                                                     *)
(***************************************************************************)
write_done ==
  /\ Writing /\ op.stage = "frames" /\ op.todo = << >>
  /\ last' = [kind |-> op.kind, ok |-> TRUE]
  /\ op' = NoOp
  /\ claimed' = IF claimed # Unknown THEN intent ELSE Unknown
  /\ UNCHANGED <<mem, idx, file, intent, faults>>

(***************************************************************************)
(* The bytes on disk when writing stops somewhere: what was written, or    *)
(* also a part of what comes next.                                         *)
(***************************************************************************)
Interrupted ==
  {file} \cup
  (IF op.stage = "header" THEN [header : {"short", "partial"}, frames : {<< >>}]
   ELSE IF op.todo # << >> THEN {[file EXCEPT !.frames = Append(@, Torn)]}
   ELSE {})

(***************************************************************************)
(* A write or the flush fails (the disk is full): the operation returns    *)
(* false.                                                                  *)
(***************************************************************************)
write_fails ==
  /\ Writing
  /\ faults < MaxFaults
  /\ file' \in Interrupted
  /\ last' = [kind |-> op.kind, ok |-> FALSE]
  /\ op' = NoOp
  /\ claimed' = Unknown
  /\ faults' = faults + 1
  /\ UNCHANGED <<mem, idx, intent>>

-----------------------------------------------------------------------------
(* The process *)

(***************************************************************************)
(* The process dies and is started again with an empty ledger.             *)
(***************************************************************************)
crash ==
  /\ faults < MaxFaults
  /\ \/ /\ Writing
        /\ file' \in Interrupted
        /\ claimed' = Unknown
     \/ /\ ~Writing
        /\ UNCHANGED <<file, claimed>>
  /\ mem' = << >>
  /\ idx' = EmptyIndex
  /\ op' = NoOp
  /\ last' = [kind |-> "none", ok |-> TRUE]
  /\ faults' = faults + 1
  /\ UNCHANGED intent

(***************************************************************************)
(* The process stores an entry in its ledger.                              *)
(***************************************************************************)
append(e) ==
  /\ op = NoOp
  /\ Len(mem) < MaxMem
  /\ LET status == append_status(e, {}, mem, idx)
     IN  /\ mem' = LogAfter(e, status, mem)
         /\ idx' = IndexAfter(e, status, mem, idx)
  /\ last' = [kind |-> "none", ok |-> TRUE]
  /\ UNCHANGED <<file, op, claimed, intent, faults>>

Batches == UNION {[1..n -> Events] : n \in 0..MaxBatch}

Next ==
  \/ \E e \in Events : append(e)
  \/ save_snapshot
  \/ \E batch \in Batches : append_entries(batch)
  \/ write_header
  \/ header_lost
  \/ write_frame
  \/ encode_fails
  \/ write_done
  \/ write_fails
  \/ crash
  \/ replay_load
  \/ replay_entry
  \/ replay_done

Spec == Init /\ [][Next]_vars

-----------------------------------------------------------------------------
(***************************************************************************)
(* Type invariant of the file, the operation and the ledger in memory.     *)
(***************************************************************************)
TypeOK ==
  /\ mem \in Seq(Events)
  /\ idx \in [EntryIds -> Nat]
  /\ file \in [header : Headers, frames : Seq(Events \cup {Torn})]
  /\ op \in [kind : {"none", "save", "append", "replay"},
             stage : {"none", "header", "frames"}, todo : Seq(Events), base : Nat]
  /\ last \in [kind : {"none", "save", "append", "replay"}, ok : BOOLEAN]
  /\ claimed = Unknown \/ claimed \in Seq(Events)
  /\ faults \in 0..MaxFaults

(***************************************************************************)
(* What the result true of save_snapshot or append_entries is worth.  All  *)
(* the entries are in the file, behind those it held.  load returns        *)
(* exactly these, in order, unless a caller put an id into the file twice: *)
(* after every save, after an append that wrote the header of a new file,  *)
(* and after an append to a file that load would have accepted, whatever   *)
(* had failed before and was tried again.  Not covered are an append       *)
(* behind a torn frame, and one whose new header was lost unnoticed        *)
(* (persistence.cpp:118-119): they return true, and load refuses the file. *)
(***************************************************************************)
SuccessIsLoadable ==
  op = NoOp =>
    /\ last.ok /\ last.kind \in {"save", "append"} => file.frames = intent
    /\ claimed # Unknown =>
         /\ file.frames = claimed
         /\ load_ok(file) <=> UniqueIds(claimed)

(***************************************************************************)
(* A crash or failure at any byte of save_snapshot or append_entries, in   *)
(* any sequence of retries, never makes load return anything but a prefix  *)
(* of what the last operation was to write.                                *)
(***************************************************************************)
LoadedIsPrefixOfIntent ==
  load_ok(file) =>
    /\ Len(file.frames) <= Len(intent)
    /\ \A i \in 1..Len(file.frames) : file.frames[i] = intent[i]

(***************************************************************************)
(* "Replay reproduces the same physical totals and the same ledger         *)
(* fingerprint" (ARCHITECTURE.md): replay_into leaves what the ledger      *)
(* held in place and adds behind it, in the order of the file and each     *)
(* once, the entries of the file it did not hold.                          *)
(***************************************************************************)
ReplayReproduces ==
  op.kind = "replay" =>
    LET done == 1..(Len(file.frames) - Len(op.todo))
        Held(e) == \E i \in 1..op.base : mem[i] = e
        new == {i \in done : ~Held(file.frames[i])}
        place(i) == op.base + Cardinality({j \in new : j <= i})
    IN  /\ Len(mem) = op.base + Cardinality(new)
        /\ \A i \in new : mem[place(i)] = file.frames[i]

(***************************************************************************)
(* replay_into stops at the first entry the ledger refuses: it never       *)
(* replaces an entry in memory, and only a content conflict stops it (the  *)
(* file holds no invalid content, for encode_entry wrote it).              *)
(***************************************************************************)
ReplayOnlyConflicts ==
  [][(op.kind = "replay" /\ op' = NoOp /\ ~last'.ok) =>
       LET e == Head(op.todo)
       IN  idx[e.id] # 0 /\ mem[idx[e.id]] # e]_vars

(***************************************************************************)
(* append_entries empties a file that has no magic (persistence.cpp:118).  *)
(* Whatever becomes of the append, a crash and a full disk included, it    *)
(* never takes away or changes an entry of a file that load accepts.       *)
(***************************************************************************)
AppendKeepsTheOld ==
  [][load_ok(file) /\ "save" \notin {op.kind, op'.kind} =>
       /\ file'.header = "ok"
       /\ Len(file.frames) <= Len(file'.frames)
       /\ SubSeq(file'.frames, 1, Len(file.frames)) = file.frames]_file

=============================================================================
