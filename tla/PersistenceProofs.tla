------------------------- MODULE PersistenceProofs -------------------------
(***************************************************************************)
(* Proofs about the ledger file, for any entries and any number of         *)
(* operations, crashes and failed writes.                                  *)
(***************************************************************************)
EXTENDS Persistence, FiniteSetTheorems, TLAPS

-----------------------------------------------------------------------------
(* The inductive invariant *)

Frames == Events \cup {Torn}

(***************************************************************************)
(* While an operation writes, the file and what is left to do make up what *)
(* was intended.                                                           *)
(***************************************************************************)
WritingInv ==
  /\ op.stage = "header" => /\ Writing
                            /\ file = EmptyFile
                            /\ intent = op.todo
  /\ Writing /\ op.stage # "header" => intent = file.frames \o op.todo

(***************************************************************************)
(* Between the operations a file that load accepts is a prefix of what was *)
(* intended.                                                               *)
(***************************************************************************)
RestInv == ~Writing => LoadedIsPrefixOfIntent

(***************************************************************************)
(* A file that a caller relies on has its header, and was made from whole  *)
(* frames; what writes to it goes on behind them.                          *)
(***************************************************************************)
ClaimedInv ==
  claimed # Unknown =>
    /\ intent \in Seq(Events)
    /\ file.header = "ok" /\ op.stage # "header"
    /\ ~Writing => file.frames = claimed

(***************************************************************************)
(* Nothing is missing in a file whose writing was reported as successful.  *)
(***************************************************************************)
CompleteInv ==
  ~Writing /\ last.ok /\ last.kind \in {"save", "append"} => file.frames = intent

(***************************************************************************)
(* Only what encode_entry accepts is in the file, and so in a replay.      *)
(***************************************************************************)
ValidInv ==
  /\ \A i \in 1..Len(file.frames) : file.frames[i] = Torn \/ content_is_valid(file.frames[i])
  /\ op.kind = "replay" => \A i \in 1..Len(op.todo) : content_is_valid(op.todo[i])

IInv ==
  /\ TypeOK
  /\ intent \in Seq(Frames)
  /\ WritingInv
  /\ RestInv
  /\ ClaimedInv
  /\ ValidInv

LEMMA FileType ==
  /\ << >> \in Seq(Frames)
  /\ \A h \in Headers, s \in Seq(Frames) :
       [header |-> h, frames |-> s] \in [header : Headers, frames : Seq(Events \cup {Torn})]
  BY DEF Frames

LEMMA InitInv == Init => IInv
<1> SUFFICES ASSUME Init PROVE IInv
  OBVIOUS
<1>1. TypeOK
  <2>1. file.header \in Headers /\ file.frames = << >>
        /\ file = [header |-> file.header, frames |-> file.frames]
    BY DEF Init, Headers
  <2>2. file \in [header : Headers, frames : Seq(Events \cup {Torn})]
    BY <2>1, FileType, Zenon
  <2>3. NoOp \in [kind : {"none", "save", "append", "replay"},
                  stage : {"none", "header", "frames"}, todo : Seq(Events), base : Nat]
    BY DEF NoOp
  <2>4. 0 \in 0..MaxFaults
    BY PersistenceAssumption
  <2> QED  BY <2>2, <2>3, <2>4 DEF Init, TypeOK, EmptyIndex
<1>2. intent \in Seq(Frames) /\ WritingInv /\ ClaimedInv /\ ValidInv
  BY DEF Init, NoOp, WritingInv, ClaimedInv, ValidInv, Writing
<1>3. RestInv
  BY DEF Init, RestInv, LoadedIsPrefixOfIntent, load_ok
<1> QED  BY <1>1, <1>2, <1>3 DEF IInv

-----------------------------------------------------------------------------
(* Facts about sequences and files *)

LEMMA PrefixFacts ==
  ASSUME NEW S, NEW s \in Seq(S), NEW t \in Seq(S)
  PROVE  /\ s \o t \in Seq(S)
         /\ Len(s) <= Len(s \o t)
         /\ \A i \in 1..Len(s) : s[i] = (s \o t)[i]
  OBVIOUS

LEMMA MoveOver ==
  ASSUME NEW S, NEW s \in Seq(S), NEW t \in Seq(S), t # << >>
  PROVE  /\ Append(s, Head(t)) \o Tail(t) = s \o t
         /\ Head(t) \in S /\ Tail(t) \in Seq(S)
         /\ Append(s, Head(t)) \in Seq(S)
<1>1. Head(t) \in S /\ Tail(t) \in Seq(S)
  OBVIOUS
<1>2. Append(s, Head(t)) \in Seq(S)
  BY <1>1
<1>3. Append(s, Head(t)) \o Tail(t) = s \o t
  OBVIOUS
<1> QED  BY <1>1, <1>2, <1>3

LEMMA FileFacts ==
  ASSUME TypeOK
  PROVE  /\ file.header \in Headers /\ file.frames \in Seq(Frames)
         /\ file = [header |-> file.header, frames |-> file.frames]
         /\ op.todo \in Seq(Events) /\ op.todo \in Seq(Frames)
         /\ op.kind \in {"none", "save", "append", "replay"}
         /\ op.stage \in {"none", "header", "frames"}
         /\ mem \in Seq(Events) /\ mem \in Seq(Frames)
<1>1. \A q \in Seq(Events) : q \in Seq(Frames)
  BY DEF Frames
<1> QED  BY <1>1 DEF TypeOK, Frames

(***************************************************************************)
(* What an interrupted operation leaves: the file, a part of a header, or  *)
(* the file with a torn frame behind it.                                   *)
(***************************************************************************)
LEMMA InterruptedFacts ==
  ASSUME TypeOK, NEW f \in Interrupted
  PROVE  /\ f \in [header : Headers, frames : Seq(Frames)]
         /\ \/ f = file
            \/ f.header # "ok" /\ f.frames = << >>
            \/ f.header = file.header /\ f.frames = Append(file.frames, Torn)
<1>1. file \in [header : Headers, frames : Seq(Frames)]
  BY DEF TypeOK, Frames
<1>2. CASE f = file
  BY <1>1, <1>2
<1>3. CASE f \in [header : {"short", "partial"}, frames : {<< >>}]
  <2>1. f.header \in {"short", "partial"} /\ f.frames = << >>
        /\ f = [header |-> f.header, frames |-> f.frames]
    BY <1>3
  <2>2. f.header \in Headers /\ f.header # "ok"
    BY <2>1 DEF Headers
  <2> QED  BY <2>1, <2>2, FileType, Zenon DEF Frames
<1>4. CASE f = [file EXCEPT !.frames = Append(@, Torn)]
  <2>1. Append(file.frames, Torn) \in Seq(Frames)
    BY <1>1 DEF Frames
  <2> QED  BY <1>1, <1>4, <2>1, Zenon
<1> QED  BY <1>2, <1>3, <1>4 DEF Interrupted

(***************************************************************************)
(* The ledger in memory after append.                                      *)
(***************************************************************************)
LEMMA MemoryType ==
  ASSUME TypeOK, NEW e \in Events, NEW status
  PROVE  /\ LogAfter(e, status, mem) \in Seq(Events)
         /\ IndexAfter(e, status, mem, idx) \in [EntryIds -> Nat]
<1>1. e.id \in EntryIds
  BY PersistenceAssumption DEF LedgerEntry
<1>2. Append(mem, e) \in Seq(Events) /\ Len(mem) + 1 \in Nat
  BY DEF TypeOK
<1> QED  BY <1>1, <1>2 DEF TypeOK, LogAfter, IndexAfter

-----------------------------------------------------------------------------
(* The operations *)

OpType ==
  [kind : {"none", "save", "append", "replay"}, stage : {"none", "header", "frames"},
   todo : Seq(Events), base : Nat]

LEMMA OpFacts == NoOp \in OpType /\ NoOp.kind = "none" /\ NoOp.stage = "none"
  BY DEF NoOp, OpType

LEMMA Started ==
  ASSUME NEW k \in {"save", "append"}, NEW st \in {"header", "frames"}, NEW q \in Seq(Events),
         NEW o, o = [kind |-> k, stage |-> st, todo |-> q, base |-> 0]
  PROVE  o \in OpType /\ o.kind = k /\ o.stage = st /\ o.todo = q
  BY DEF OpType

LEMMA SaveStep ==
  ASSUME IInv, save_snapshot
  PROVE  IInv'
<1>1. TypeOK
  BY DEF IInv
<1>2. /\ op' \in OpType /\ op'.kind = "save" /\ op'.stage = "header" /\ op'.todo = mem
      /\ file' = EmptyFile /\ file'.frames = << >> /\ intent' = mem
      /\ mem \in Seq(Events) /\ mem \in Seq(Frames) /\ claimed' = Unknown
      /\ UNCHANGED <<mem, idx, last, faults>>
  <2>1. op' = [kind |-> "save", stage |-> "header", todo |-> mem, base |-> 0]
    BY Zenon DEF save_snapshot, NoOp
  <2>2. mem \in Seq(Events) /\ mem \in Seq(Frames)
    BY <1>1, FileFacts
  <2>3. op' \in OpType /\ op'.kind = "save" /\ op'.stage = "header" /\ op'.todo = mem
    BY <2>1, <2>2, Started
  <2> QED  BY <2>2, <2>3 DEF save_snapshot, EmptyFile
<1>3. TypeOK'
  <2>1. EmptyFile \in [header : Headers, frames : Seq(Events \cup {Torn})]
    BY FileType DEF EmptyFile, Headers
  <2> QED  BY <1>1, <1>2, <2>1 DEF TypeOK, OpType
<1>4. WritingInv' /\ RestInv' /\ ClaimedInv' /\ ValidInv'
  BY <1>2 DEF WritingInv, RestInv, ClaimedInv, ValidInv, Writing
<1> QED  BY <1>2, <1>3, <1>4 DEF IInv

LEMMA AppendStep ==
  ASSUME IInv, NEW batch \in Batches, append_entries(batch)
  PROVE  IInv'
<1>1. TypeOK /\ op = NoOp
  BY DEF IInv, append_entries
<1>2. batch \in Seq(Events) /\ batch \in Seq(Frames)
  BY DEF Batches, Frames
<1>3. file.frames \in Seq(Frames) /\ ~Writing
  BY <1>1, FileFacts, OpFacts DEF Writing
<1>4. CASE has_header(file)
  <2>1. /\ op' \in OpType /\ op'.kind = "append" /\ op'.stage = "frames" /\ op'.todo = batch
        /\ file' = file /\ intent' = file.frames \o batch
        /\ claimed' = IF load_ok(file) THEN file.frames ELSE claimed
        /\ UNCHANGED <<mem, idx, last, faults>>
    <3>1. op' = [kind |-> "append", stage |-> "frames", todo |-> batch, base |-> 0]
      BY <1>4, Zenon DEF append_entries, NoOp
    <3>2. /\ op' \in OpType /\ op'.kind = "append" /\ op'.stage = "frames"
          /\ op'.todo = batch
      BY <1>2, <3>1, Started
    <3> QED  BY <1>4, <3>2 DEF append_entries
  <2>a. load_ok(file) => file.frames \in Seq(Events)
    <3> SUFFICES ASSUME load_ok(file) PROVE file.frames \in Seq(Events)
      OBVIOUS
    <3>1. \A i \in 1..Len(file.frames) : file.frames[i] \in Events
      BY <1>3 DEF load_ok, Frames
    <3> QED  BY <1>3, <3>1
  <2>2. TypeOK' /\ intent' \in Seq(Frames)
    <3>1. claimed' = Unknown \/ claimed' \in Seq(Events)
      BY <1>1, <2>1, <2>a DEF TypeOK
    <3> QED  BY <1>1, <1>2, <1>3, <2>1, <3>1, PrefixFacts DEF TypeOK, OpType
  <2>3. WritingInv' /\ RestInv'
    BY <2>1 DEF WritingInv, RestInv, Writing
  <2>4. ClaimedInv'
    <3>1. SUFFICES ASSUME claimed' # Unknown PROVE ClaimedInv'
      BY DEF ClaimedInv
    <3>2. file.header = "ok" /\ file.frames \in Seq(Events)
      <4>1. CASE load_ok(file)  BY <2>a, <4>1 DEF load_ok
      <4>2. CASE claimed # Unknown  BY <1>1, <1>3, <4>2 DEF IInv, ClaimedInv, TypeOK
      <4> QED  BY <2>1, <3>1, <4>1, <4>2
    <3>3. intent' \in Seq(Events)
      BY <1>2, <2>1, <3>2, PrefixFacts
    <3> QED  BY <2>1, <3>2, <3>3 DEF ClaimedInv, Writing
  <2>5. ValidInv'
    BY <2>1 DEF IInv, ValidInv
  <2> QED  BY <2>2, <2>3, <2>4, <2>5 DEF IInv
<1>5. CASE ~has_header(file)
  <2>1. /\ op' \in OpType /\ op'.kind = "append" /\ op'.stage = "header" /\ op'.todo = batch
        /\ file' = EmptyFile /\ file'.frames = << >> /\ intent' = batch
        /\ UNCHANGED <<mem, idx, last, claimed, faults>>
    <3>1. op' = [kind |-> "append", stage |-> "header", todo |-> batch, base |-> 0]
      BY <1>5, Zenon DEF append_entries, NoOp
    <3>2. /\ op' \in OpType /\ op'.kind = "append" /\ op'.stage = "header"
          /\ op'.todo = batch
      BY <1>2, <3>1, Started
    <3> QED  BY <1>5, <3>2 DEF append_entries, EmptyFile
  <2>2. TypeOK'
    <3>1. EmptyFile \in [header : Headers, frames : Seq(Events \cup {Torn})]
      BY FileType DEF EmptyFile, Headers
    <3> QED  BY <1>1, <2>1, <3>1 DEF TypeOK, OpType
  <2>3. WritingInv' /\ RestInv' /\ ValidInv'
    BY <2>1 DEF WritingInv, RestInv, ValidInv, Writing
  <2>4. claimed = Unknown
    BY <1>3, <1>5 DEF IInv, ClaimedInv, has_header
  <2> QED  BY <1>2, <2>1, <2>2, <2>3, <2>4 DEF IInv, ClaimedInv
<1> QED  BY <1>4, <1>5

LEMMA HeaderStep ==
  ASSUME IInv, write_header \/ header_lost
  PROVE  IInv'
<1>1. /\ TypeOK /\ op.stage = "header" /\ Writing /\ file = EmptyFile /\ intent = op.todo
      /\ op.todo \in Seq(Frames)
  BY FileFacts DEF IInv, WritingInv, write_header, header_lost
<1>2. op' \in OpType /\ op'.kind = op.kind /\ op'.stage = "frames" /\ op'.todo = op.todo
  <2>1. op \in OpType
    BY <1>1 DEF TypeOK, OpType
  <2>2. op' = [op EXCEPT !.stage = "frames"]
    BY DEF write_header, header_lost
  <2> QED  BY <2>1, <2>2 DEF OpType
<1>3. /\ file'.frames = << >> /\ file'.header \in Headers
      /\ file' = [header |-> file'.header, frames |-> << >>]
  BY <1>1 DEF write_header, header_lost, EmptyFile, Headers
<1>4. /\ UNCHANGED <<mem, idx, last, intent>> /\ faults' \in 0..MaxFaults
      /\ claimed' = claimed \/ (claimed' = << >> /\ file'.header = "ok")
  BY <1>1, PersistenceAssumption DEF write_header, header_lost, TypeOK
<1>5. TypeOK'
  <2>1. file' \in [header : Headers, frames : Seq(Events \cup {Torn})]
    BY <1>3, FileType, Zenon
  <2>2. claimed' = Unknown \/ claimed' \in Seq(Events)
    <3>1. << >> \in Seq(Events)  OBVIOUS
    <3>2. claimed = Unknown \/ claimed \in Seq(Events)  BY <1>1, Zenon DEF TypeOK
    <3> QED  BY <1>4, <3>1, <3>2, Zenon
  <2>3. op' \in [kind : {"none", "save", "append", "replay"},
                 stage : {"none", "header", "frames"}, todo : Seq(Events), base : Nat]
    BY <1>2 DEF OpType
  <2> QED  BY <1>1, <1>4, <2>1, <2>2, <2>3, Zenon DEF TypeOK
<1>6. WritingInv'
  <2>1. intent' = file'.frames \o op'.todo
    BY <1>1, <1>2, <1>3, <1>4
  <2> QED  BY <1>2, <1>3, <1>4, <2>1 DEF IInv, WritingInv, Writing
<1>7. RestInv' /\ ValidInv'
  BY <1>1, <1>2, <1>3 DEF RestInv, ValidInv, Writing
<1>8. ClaimedInv'
  <2>1. intent \in Seq(Events) /\ Writing'
    BY <1>1, <1>2 DEF TypeOK, Writing
  <2> QED  BY <1>1, <1>2, <1>4, <2>1 DEF IInv, ClaimedInv
<1> QED  BY <1>4, <1>5, <1>6, <1>7, <1>8 DEF IInv

LEMMA FrameStep ==
  ASSUME IInv, write_frame
  PROVE  IInv'
<1>1. /\ TypeOK /\ Writing /\ op.stage = "frames" /\ op.todo # << >>
      /\ content_is_valid(Head(op.todo))
      /\ intent = file.frames \o op.todo
      /\ file.frames \in Seq(Frames) /\ op.todo \in Seq(Events) /\ op.todo \in Seq(Frames)
  BY FileFacts DEF IInv, WritingInv, write_frame
<1>2. /\ op' \in OpType /\ op'.kind = op.kind /\ op'.stage = "frames"
      /\ op'.todo = Tail(op.todo)
  <2>1. op \in OpType /\ Tail(op.todo) \in Seq(Events)
    BY <1>1, MoveOver DEF TypeOK, OpType
  <2>2. op' = [op EXCEPT !.todo = Tail(@)]
    BY DEF write_frame
  <2> QED  BY <1>1, <2>1, <2>2, Zenon DEF OpType
<1>3. /\ file'.frames = Append(file.frames, Head(op.todo)) /\ file'.header = file.header
      /\ file' = [header |-> file.header, frames |-> Append(file.frames, Head(op.todo))]
  BY <1>1, FileFacts, Zenon DEF write_frame
<1>4. /\ Append(file.frames, Head(op.todo)) \in Seq(Frames)
      /\ Append(file.frames, Head(op.todo)) \o Tail(op.todo) = intent
  <2>1. file.frames \in Seq(Frames) /\ op.todo \in Seq(Frames) /\ op.todo # << >>
    BY <1>1
  <2>2. /\ Append(file.frames, Head(op.todo)) \in Seq(Frames)
        /\ Append(file.frames, Head(op.todo)) \o Tail(op.todo) = file.frames \o op.todo
    BY ONLY <2>1, MoveOver, Zenon
  <2> QED  BY <1>1, <2>2, Zenon
<1>5. UNCHANGED <<mem, idx, last, claimed, intent, faults>>
  BY DEF write_frame
<1>6. TypeOK'
  <2>1. file' \in [header : Headers, frames : Seq(Events \cup {Torn})]
    BY <1>1, <1>3, <1>4, FileType, FileFacts
  <2> QED  BY <1>1, <1>2, <1>5, <2>1 DEF TypeOK, OpType
<1>7. WritingInv' /\ RestInv' /\ ClaimedInv'
  BY <1>1, <1>2, <1>3, <1>4, <1>5, Zenon DEF IInv, WritingInv, RestInv, ClaimedInv, Writing
<1>8. ValidInv'
  BY <1>1, <1>2, <1>3 DEF IInv, ValidInv, Writing
<1> QED  BY <1>5, <1>6, <1>7, <1>8 DEF IInv

(***************************************************************************)
(* Writing stops, by an error, a failure or a crash.                       *)
(***************************************************************************)
LEMMA StopStep ==
  ASSUME IInv, Writing, file' \in Interrupted, op' = NoOp, claimed' = Unknown,
         intent' = intent
  PROVE  /\ file' \in [header : Headers, frames : Seq(Frames)]
         /\ WritingInv' /\ RestInv' /\ ClaimedInv' /\ ValidInv'
<1>1. TypeOK /\ file.frames \in Seq(Frames) /\ op.todo \in Seq(Frames)
  BY FileFacts DEF IInv
<1>2. /\ file' \in [header : Headers, frames : Seq(Frames)]
      /\ \/ file' = file
         \/ file'.header # "ok" /\ file'.frames = << >>
         \/ file'.header = file.header /\ file'.frames = Append(file.frames, Torn)
  BY <1>1, InterruptedFacts
<1>3. op'.kind = "none" /\ op'.stage = "none" /\ ~Writing'
  BY OpFacts DEF Writing
<1>4. WritingInv' /\ ClaimedInv'
  BY <1>3, Zenon DEF WritingInv, ClaimedInv
<1>5. RestInv'
  <2>1. CASE file' = file
    <3>1. CASE op.stage = "header"
      <4>1. file'.header = "none"
        BY <2>1, <3>1 DEF IInv, WritingInv, EmptyFile
      <4> QED  BY <4>1 DEF RestInv, LoadedIsPrefixOfIntent, load_ok
    <3>2. CASE op.stage # "header"
      <4>1. intent = file.frames \o op.todo
        BY <3>2, Zenon DEF IInv, WritingInv
      <4>2. /\ Len(file.frames) <= Len(intent)
            /\ \A i \in 1..Len(file.frames) : file.frames[i] = intent[i]
        BY <1>1, <4>1, PrefixFacts, Zenon
      <4> QED  BY <2>1, <4>2 DEF RestInv, LoadedIsPrefixOfIntent
    <3> QED  BY <3>1, <3>2
  <2>2. CASE file'.header # "ok"
    BY <2>2 DEF RestInv, LoadedIsPrefixOfIntent, load_ok
  <2>3. CASE file'.frames = Append(file.frames, Torn)
    <3>1. Len(file'.frames) \in 1..Len(file'.frames) /\ file'.frames[Len(file'.frames)] = Torn
      BY <1>1, <2>3
    <3> QED  BY <3>1 DEF RestInv, LoadedIsPrefixOfIntent, load_ok
  <2> QED  BY <1>2, <2>1, <2>2, <2>3
<1>6. ValidInv'
  <2>1. \A i \in 1..Len(file'.frames) :
          file'.frames[i] = Torn \/ content_is_valid(file'.frames[i])
    BY <1>1, <1>2, SMTT(30) DEF IInv, ValidInv
  <2> QED  BY <1>3, <2>1 DEF ValidInv
<1> QED  BY <1>2, <1>4, <1>5, <1>6

LEMMA FailureStep ==
  ASSUME IInv, encode_fails \/ write_fails
  PROVE  IInv'
<1>1. Writing /\ op' = NoOp /\ claimed' = Unknown /\ intent' = intent
  BY DEF encode_fails, write_fails
<1>2. file' \in Interrupted
  BY DEF encode_fails, write_fails, Interrupted
<1>3. /\ file' \in [header : Headers, frames : Seq(Frames)]
      /\ WritingInv' /\ RestInv' /\ ClaimedInv' /\ ValidInv'
  BY <1>1, <1>2, StopStep
<1>4. TypeOK'
  <2>1. TypeOK /\ UNCHANGED <<mem, idx>> /\ op' \in OpType
    BY <1>1, OpFacts DEF IInv, encode_fails, write_fails
  <2>2. last' \in [kind : {"none", "save", "append", "replay"}, ok : BOOLEAN]
    <3>1. op.kind \in {"none", "save", "append", "replay"}
      BY <2>1, FileFacts
    <3>2. last' = [kind |-> op.kind, ok |-> FALSE]
      BY DEF encode_fails, write_fails
    <3> QED  BY <3>1, <3>2
  <2>3. faults' \in 0..MaxFaults
    BY <2>1, PersistenceAssumption DEF TypeOK, encode_fails, write_fails
  <2> QED  BY <1>1, <1>3, <2>1, <2>2, <2>3 DEF TypeOK, OpType, Frames
<1> QED  BY <1>1, <1>3, <1>4 DEF IInv

LEMMA CrashStep ==
  ASSUME IInv, crash
  PROVE  IInv'
<1>1. /\ TypeOK /\ op' = NoOp /\ intent' = intent /\ mem' = << >> /\ idx' = EmptyIndex
      /\ last' = [kind |-> "none", ok |-> TRUE]
  BY DEF IInv, crash
<1>2. faults' \in 0..MaxFaults
  BY <1>1, PersistenceAssumption DEF TypeOK, crash
<1>3. op' \in OpType /\ op'.kind = "none" /\ op'.stage = "none" /\ ~Writing'
  BY <1>1, OpFacts DEF Writing
<1>4. /\ file' \in [header : Headers, frames : Seq(Frames)]
      /\ WritingInv' /\ RestInv' /\ ClaimedInv' /\ ValidInv'
  <2>1. CASE Writing
    BY <1>1, <2>1, StopStep DEF crash
  <2>2. CASE ~Writing
    <3>1. UNCHANGED <<file, claimed, intent>> /\ op.kind # "save"
      BY <1>1, <2>2 DEF crash, Writing
    <3>2. file \in [header : Headers, frames : Seq(Frames)]
      BY <1>1 DEF TypeOK, Frames
    <3> QED  BY <1>3, <2>2, <3>1, <3>2
             DEF IInv, WritingInv, RestInv, ClaimedInv, ValidInv, LoadedIsPrefixOfIntent
  <2> QED  BY <2>1, <2>2
<1>5. claimed' = Unknown \/ claimed' \in Seq(Events)
  BY <1>1 DEF TypeOK, crash
<1>6. TypeOK'
  BY <1>1, <1>2, <1>3, <1>4, <1>5 DEF TypeOK, OpType, Frames, EmptyIndex
<1> QED  BY <1>1, <1>4, <1>6 DEF IInv

LEMMA DoneStep ==
  ASSUME IInv, write_done
  PROVE  IInv'
<1>1. /\ TypeOK /\ Writing /\ op.stage = "frames" /\ op.todo = << >>
      /\ UNCHANGED <<mem, idx, file, intent, faults>> /\ op' = NoOp
  BY DEF IInv, write_done
<1>2. op' \in OpType /\ op'.kind = "none" /\ op'.stage = "none" /\ ~Writing'
  BY <1>1, OpFacts DEF Writing
<1>3. intent = file.frames
  <2>1. intent = file.frames \o << >> /\ file.frames \in Seq(Frames)
    BY <1>1, FileFacts DEF IInv, WritingInv
  <2> QED  BY <2>1
<1>4. claimed' # Unknown => claimed' = intent /\ file.header = "ok" /\ intent \in Seq(Events)
  BY <1>1 DEF write_done, IInv, WritingInv, ClaimedInv, Writing
<1>5. last' \in [kind : {"none", "save", "append", "replay"}, ok : BOOLEAN]
  BY <1>1 DEF TypeOK, write_done
<1>6. TypeOK'
  BY <1>1, <1>2, <1>4, <1>5 DEF TypeOK, OpType
<1>7. WritingInv' /\ ClaimedInv' /\ ValidInv'
  BY <1>1, <1>2, <1>3, <1>4, Zenon DEF IInv, WritingInv, ClaimedInv, ValidInv
<1>8. RestInv'
  <2>1. Len(intent) \in Nat
    BY DEF IInv
  <2> QED  BY <1>1, <1>3, <2>1 DEF RestInv, LoadedIsPrefixOfIntent
<1> QED  BY <1>1, <1>6, <1>7, <1>8 DEF IInv

(***************************************************************************)
(* Steps that leave the file and what is known of it alone.                *)
(***************************************************************************)
LEMMA ReadingStep ==
  ASSUME IInv, TypeOK', UNCHANGED <<file, claimed, intent>>, ~Writing, ~Writing',
         op'.stage # "header",
         op'.kind = "replay" => \A i \in 1..Len(op'.todo) : content_is_valid(op'.todo[i])
  PROVE  IInv'
<1>1. op.kind # "save" /\ op'.kind # "save"
  BY DEF Writing
<1> QED  BY <1>1, Zenon DEF IInv, WritingInv, RestInv, ClaimedInv, ValidInv, LoadedIsPrefixOfIntent

LEMMA ReplayLoadStep ==
  ASSUME IInv, replay_load
  PROVE  IInv'
<1>1. TypeOK /\ UNCHANGED <<mem, idx, file, claimed, intent, faults>> /\ op = NoOp
  BY DEF IInv, replay_load
<1>2. ~Writing
  BY <1>1, OpFacts DEF Writing
<1>3. CASE load_ok(file)
  <2>1. /\ op' = [kind |-> "replay", stage |-> "frames", todo |-> file.frames,
                  base |-> Len(mem)]
        /\ last' = last
    BY <1>3 DEF replay_load
  <2>2. file.frames \in Seq(Events)
    <3>1. file.frames \in Seq(Frames) /\ \A i \in 1..Len(file.frames) : file.frames[i] # Torn
      BY <1>1, <1>3, FileFacts DEF load_ok
    <3> QED  BY <3>1 DEF Frames
  <2>3. op' \in OpType /\ op'.kind = "replay" /\ op'.stage = "frames" /\ op'.todo = file.frames
    BY <1>1, <2>1, <2>2 DEF OpType, TypeOK
  <2>4. TypeOK'
    BY <1>1, <2>1, <2>3 DEF TypeOK, OpType
  <2>5. \A i \in 1..Len(op'.todo) : content_is_valid(op'.todo[i])
    BY <1>3, <2>3 DEF IInv, ValidInv, load_ok
  <2> QED  BY <1>1, <1>2, <2>3, <2>4, <2>5, ReadingStep DEF Writing
<1>4. CASE ~load_ok(file)
  <2>1. op' = op /\ last' = [kind |-> "replay", ok |-> FALSE]
    BY <1>4 DEF replay_load
  <2>2. op'.kind = "none" /\ op'.stage = "none"
    BY <1>1, <2>1, OpFacts
  <2>3. TypeOK'
    BY <1>1, <2>1 DEF TypeOK
  <2> QED  BY <1>1, <1>2, <2>2, <2>3, ReadingStep DEF Writing
<1> QED  BY <1>3, <1>4

LEMMA ReplayEntryStep ==
  ASSUME IInv, replay_entry
  PROVE  IInv'
<1>1. /\ TypeOK /\ UNCHANGED <<file, claimed, intent, faults>>
      /\ op.kind = "replay" /\ op.todo # << >> /\ op.todo \in Seq(Events) /\ op \in OpType
  BY FileFacts DEF IInv, TypeOK, OpType, replay_entry
<1>2. Head(op.todo) \in Events /\ Tail(op.todo) \in Seq(Events)
  BY <1>1
<1>3. mem' \in Seq(Events) /\ idx' \in [EntryIds -> Nat]
  BY <1>1, <1>2, MemoryType DEF replay_entry
<1>4. CASE op' = [op EXCEPT !.todo = Tail(@)] /\ last' = last
  <2>1. op' \in OpType /\ op'.kind = "replay" /\ op'.todo = Tail(op.todo) /\ op'.stage = op.stage
    BY <1>1, <1>2, <1>4, Zenon DEF OpType
  <2>2. TypeOK'
    BY <1>1, <1>3, <1>4, <2>1 DEF TypeOK, OpType
  <2>3. op.stage # "header"
    BY <1>1 DEF IInv, WritingInv, Writing
  <2>4. \A i \in 1..Len(op'.todo) : content_is_valid(op'.todo[i])
    BY <1>1, <2>1 DEF IInv, ValidInv
  <2> QED  BY <1>1, <2>1, <2>2, <2>3, <2>4, ReadingStep DEF Writing
<1>5. CASE op' = NoOp /\ last' = [kind |-> "replay", ok |-> FALSE]
  <2>1. op' \in OpType /\ op'.kind = "none" /\ op'.stage = "none"
    BY <1>5, OpFacts
  <2>2. TypeOK'
    BY <1>1, <1>3, <1>5, <2>1 DEF TypeOK, OpType
  <2> QED  BY <1>1, <2>1, <2>2, ReadingStep DEF Writing
<1> QED  BY <1>4, <1>5 DEF replay_entry

LEMMA ReplayDoneStep ==
  ASSUME IInv, replay_done
  PROVE  IInv'
<1>1. /\ TypeOK /\ UNCHANGED <<mem, idx, file, claimed, intent, faults>>
      /\ op.kind = "replay" /\ op' = NoOp /\ last' = [kind |-> "replay", ok |-> TRUE]
  BY DEF IInv, replay_done
<1>2. op' \in OpType /\ op'.kind = "none" /\ op'.stage = "none"
  BY <1>1, OpFacts
<1>3. TypeOK'
  BY <1>1, <1>2 DEF TypeOK, OpType
<1> QED  BY <1>1, <1>2, <1>3, ReadingStep DEF Writing

LEMMA StoreStep ==
  ASSUME IInv, NEW e \in Events, append(e)
  PROVE  IInv'
<1>1. /\ TypeOK /\ UNCHANGED <<file, op, claimed, intent, faults>>
      /\ op = NoOp /\ last' = [kind |-> "none", ok |-> TRUE]
  BY DEF IInv, append
<1>2. op'.kind = "none" /\ op'.stage = "none" /\ op.kind = "none"
  BY <1>1, OpFacts
<1>3. mem' \in Seq(Events) /\ idx' \in [EntryIds -> Nat]
  BY <1>1, MemoryType DEF append
<1>4. TypeOK'
  BY <1>1, <1>3 DEF TypeOK
<1> QED  BY <1>1, <1>2, <1>4, ReadingStep DEF Writing

LEMMA NextInv == IInv /\ [Next]_vars => IInv'
<1> SUFFICES ASSUME IInv, [Next]_vars PROVE IInv'
  OBVIOUS
<1>1. CASE UNCHANGED vars
  BY <1>1 DEF vars, IInv, TypeOK, WritingInv, RestInv, ClaimedInv, ValidInv, Writing,
              LoadedIsPrefixOfIntent
<1>2. CASE Next
  BY <1>2, StoreStep, SaveStep, AppendStep, HeaderStep, FrameStep, FailureStep, DoneStep,
     CrashStep, ReplayLoadStep, ReplayEntryStep, ReplayDoneStep DEF Next
<1> QED  BY <1>1, <1>2

LEMMA Inductive == Spec => []IInv
  BY InitInv, NextInv, PTL DEF Spec

-----------------------------------------------------------------------------
(* Theorems *)

(***************************************************************************)
(* Whatever is saved, appended, replayed, interrupted and tried again,     *)
(* load returns nothing but a prefix of what the last writing operation    *)
(* was to write (save_snapshot, append_entries, load).                     *)
(***************************************************************************)
THEOREM LoadIsPrefix == Spec => []LoadedIsPrefixOfIntent
<1>1. IInv => LoadedIsPrefixOfIntent
  <2> SUFFICES ASSUME IInv, Writing PROVE LoadedIsPrefixOfIntent
    BY DEF IInv, RestInv
  <2>1. CASE op.stage = "header"
    BY <2>1 DEF IInv, WritingInv, LoadedIsPrefixOfIntent, load_ok, EmptyFile
  <2>2. CASE op.stage # "header"
    <3>1. intent = file.frames \o op.todo
      BY <2>2, Zenon DEF IInv, WritingInv
    <3>2. file.frames \in Seq(Frames) /\ op.todo \in Seq(Frames)
      BY FileFacts DEF IInv
    <3> QED  BY <3>1, <3>2, PrefixFacts, Zenon DEF LoadedIsPrefixOfIntent
  <2> QED  BY <2>1, <2>2
<1> QED  BY <1>1, Inductive, PTL

(***************************************************************************)
(* A failure is reported, or everything has been written: whatever ran     *)
(* before.                                                                 *)
(***************************************************************************)
LEMMA Complete == Spec => []CompleteInv
<1>1. Init => CompleteInv
  BY DEF Init, CompleteInv
<1>2. IInv /\ CompleteInv /\ [Next]_vars => CompleteInv'
  <2> SUFFICES ASSUME IInv, CompleteInv, [Next]_vars PROVE CompleteInv'
    OBVIOUS
  <2>1. CASE write_done
    <3>1. intent = file.frames \o << >> /\ file.frames \in Seq(Frames) /\ UNCHANGED <<file, intent>>
      BY <2>1, FileFacts DEF IInv, WritingInv, write_done
    <3> QED  BY <3>1 DEF CompleteInv
  <2>2. CASE encode_fails \/ write_fails \/ crash
    BY <2>2 DEF encode_fails, write_fails, crash, CompleteInv
  <2>3. CASE save_snapshot \/ write_header \/ header_lost \/ write_frame
             \/ \E batch \in Batches : append_entries(batch)
    <3>1. op'.kind \in {"save", "append"}
      BY <2>3 DEF save_snapshot, write_header, header_lost, write_frame, append_entries, NoOp,
                  IInv, WritingInv, Writing, TypeOK
    <3> QED  BY <3>1 DEF CompleteInv, Writing
  <2>4. CASE replay_load \/ replay_entry \/ replay_done \/ \E e \in Events : append(e)
    <3>1. ~Writing /\ UNCHANGED <<file, intent>>
          /\ (last' = last \/ last'.kind \in {"none", "replay"})
      BY <2>4, OpFacts DEF replay_load, replay_entry, replay_done, append, Writing
    <3> QED  BY <3>1 DEF CompleteInv
  <2>5. CASE UNCHANGED vars
    BY <2>5 DEF vars, CompleteInv, Writing
  <2> QED  BY <2>1, <2>2, <2>3, <2>4, <2>5 DEF Next
<1> QED  BY <1>1, <1>2, Inductive, PTL DEF Spec

(***************************************************************************)
(* What the result true of save_snapshot and append_entries guarantees,    *)
(* after any number of crashes, failures and retries: all the entries are  *)
(* in the file, and load returns them, whole and in order, unless a caller *)
(* put the same id into it twice, when the operation wrote the header of   *)
(* the file or found a file that load accepts.  (Behind a torn frame, or   *)
(* under a header that was lost unnoticed, load refuses the file.)         *)
(***************************************************************************)
THEOREM SuccessLoads == Spec => []SuccessIsLoadable
<1>1. IInv /\ CompleteInv => SuccessIsLoadable
  <2> SUFFICES ASSUME IInv, CompleteInv, op = NoOp
               PROVE  /\ last.ok /\ last.kind \in {"save", "append"} => file.frames = intent
                      /\ claimed # Unknown =>
                           /\ file.frames = claimed
                           /\ load_ok(file) <=> UniqueIds(claimed)
    BY DEF SuccessIsLoadable
  <2>1. ~Writing
    BY OpFacts DEF Writing
  <2>2. ASSUME claimed # Unknown
        PROVE  file.frames = claimed /\ (load_ok(file) <=> UniqueIds(claimed))
    <3>1. file.header = "ok" /\ file.frames = claimed /\ claimed \in Seq(Events)
      BY <2>1, <2>2 DEF IInv, ClaimedInv, TypeOK
    <3>2. \A i \in 1..Len(file.frames) : file.frames[i] # Torn
      BY <3>1, PersistenceAssumption
    <3> QED  BY <3>1, <3>2 DEF load_ok
  <2> QED  BY <2>1, <2>2 DEF CompleteInv
<1> QED  BY <1>1, Inductive, Complete, PTL

(***************************************************************************)
(* append_entries, whatever becomes of it, never takes away or changes an  *)
(* entry of a file that load accepts.                                      *)
(***************************************************************************)
THEOREM AppendIsSafe == Spec => AppendKeepsTheOld
<1> DEFINE Kept == load_ok(file) /\ "save" \notin {op.kind, op'.kind} =>
                     /\ file'.header = "ok"
                     /\ Len(file.frames) <= Len(file'.frames)
                     /\ SubSeq(file'.frames, 1, Len(file.frames)) = file.frames
<1>1. IInv /\ [Next]_vars => [Kept]_file
  <2> SUFFICES ASSUME IInv, Next, file' # file, load_ok(file),
                      op.kind # "save", op'.kind # "save"
               PROVE  /\ file'.header = "ok"
                      /\ Len(file.frames) <= Len(file'.frames)
                      /\ SubSeq(file'.frames, 1, Len(file.frames)) = file.frames
    BY DEF vars
  <2>1. TypeOK /\ file.header = "ok" /\ file.frames \in Seq(Frames) /\ op.stage # "header"
    BY FileFacts DEF IInv, load_ok, WritingInv, EmptyFile
  <2>2. \E x : file'.header = "ok" /\ file'.frames = Append(file.frames, x)
    <3>1. CASE save_snapshot
      <4>1. op'.kind = "save"
        BY <3>1 DEF save_snapshot, NoOp
      <4> QED  BY <4>1
    <3>2. CASE \E batch \in Batches : append_entries(batch)
      BY <2>1, <3>2 DEF append_entries, has_header
    <3>3. CASE write_header \/ header_lost
      BY <2>1, <3>3 DEF write_header, header_lost
    <3>4. CASE write_frame
      BY <2>1, <3>4, FileFacts DEF write_frame
    <3>5. CASE write_fails \/ crash
      <4>1. file' \in Interrupted
        BY <3>5 DEF write_fails, crash
      <4> QED  BY <2>1, <4>1, Zenon DEF Interrupted, TypeOK
    <3> QED  BY <3>1, <3>2, <3>3, <3>4, <3>5, Zenon
             DEF Next, append, encode_fails, write_done, replay_load, replay_entry, replay_done
  <2> QED  BY <2>1, <2>2
<1> QED  BY <1>1, Inductive, PTL DEF Spec, AppendKeepsTheOld

(***************************************************************************)
(* replay_into is stopped by nothing but an entry whose id the ledger      *)
(* holds with another content.                                             *)
(***************************************************************************)
THEOREM OnlyConflictsStop == Spec => ReplayOnlyConflicts
<1> DEFINE Conflict == (op.kind = "replay" /\ op' = NoOp /\ ~last'.ok) =>
                         LET e == Head(op.todo)
                         IN  idx[e.id] # 0 /\ mem[idx[e.id]] # e
<1>1. IInv /\ [Next]_vars => [Conflict]_vars
  <2> SUFFICES ASSUME IInv, Next, op.kind = "replay", op' = NoOp, ~last'.ok
               PROVE  /\ idx[Head(op.todo).id] # 0
                      /\ mem[idx[Head(op.todo).id]] # Head(op.todo)
    OBVIOUS
  <2>1. op # NoOp /\ ~Writing /\ op.stage # "header"
    BY OpFacts DEF IInv, WritingInv, Writing
  <2>2. replay_entry
    <3>1. ~(crash \/ replay_done)
      BY DEF crash, replay_done
    <3>2. ~(save_snapshot \/ replay_load \/ \E e \in Events : append(e))
      BY <2>1 DEF save_snapshot, replay_load, append
    <3>3. ~(\E batch \in Batches : append_entries(batch))
      BY <2>1, Zenon DEF append_entries
    <3>4. ~(write_header \/ header_lost)
      BY <2>1 DEF write_header, header_lost
    <3>5. ~(write_frame \/ encode_fails \/ write_done \/ write_fails)
      BY <2>1 DEF write_frame, encode_fails, write_done, write_fails
    <3> QED  BY <3>1, <3>2, <3>3, <3>4, <3>5 DEF Next
  <2>3. op.todo \in Seq(Events) /\ op.todo # << >>
    BY <2>2, FileFacts DEF IInv, replay_entry
  <2>4. content_is_valid(Head(op.todo))
    BY <2>3 DEF IInv, ValidInv
  <2>5. append_status(Head(op.todo), {}, mem, idx) \notin {"Accepted", "Duplicate"}
    <3>1. op'.kind # "replay"
      BY OpFacts
    <3>2. op' # [op EXCEPT !.todo = Tail(@)]
      BY <3>1, FileFacts DEF IInv, TypeOK
    <3> QED  BY <2>2, <3>2 DEF replay_entry
  <2> QED  BY <2>4, <2>5 DEF append_status
<1> QED  BY <1>1, Inductive, PTL DEF Spec, ReplayOnlyConflicts

-----------------------------------------------------------------------------
(* What a replay adds *)

(***************************************************************************)
(* The index and the entries of the ledger in memory agree.                *)
(***************************************************************************)
MemoryIndexed ==
  /\ \A i \in 1..Len(mem) : idx[mem[i].id] = i
  /\ \A x \in EntryIds : idx[x] # 0 => idx[x] \in 1..Len(mem) /\ mem[idx[x]].id = x

(***************************************************************************)
(* Ledger::append of e: the entry is stored behind the others and indexed, *)
(* or nothing changes.                                                     *)
(***************************************************************************)
Stores(e) ==
  /\ idx[e.id] = 0
  /\ mem' = Append(mem, e)
  /\ idx' = [idx EXCEPT ![e.id] = Len(mem) + 1]

Appends(e) ==
  /\ mem' = LogAfter(e, append_status(e, {}, mem, idx), mem)
  /\ idx' = IndexAfter(e, append_status(e, {}, mem, idx), mem, idx)

LEMMA AppendOutcome ==
  ASSUME NEW e, Appends(e)
  PROVE  /\ append_status(e, {}, mem, idx) = "Accepted" => Stores(e)
         /\ append_status(e, {}, mem, idx) # "Accepted" => UNCHANGED <<mem, idx>>
  BY DEF Appends, Stores, LogAfter, IndexAfter, append_status

LEMMA AppendAt ==
  ASSUME NEW S, NEW s \in Seq(S), NEW e \in S
  PROVE  /\ Len(s) \in Nat
         /\ Len(Append(s, e)) = Len(s) + 1
         /\ \A i \in 1..Len(s) : Append(s, e)[i] = s[i]
         /\ Append(s, e)[Len(s) + 1] = e
  OBVIOUS

LEMMA EntryId ==
  ASSUME NEW e \in Events
  PROVE  e.id \in EntryIds
  BY PersistenceAssumption DEF LedgerEntry

LEMMA StoredIndexed ==
  ASSUME TypeOK, MemoryIndexed, NEW e \in Events, Stores(e)
  PROVE  MemoryIndexed'
<1> DEFINE n == Len(mem)
<1>1. /\ n \in Nat /\ e.id \in EntryIds
      /\ Len(mem') = n + 1
      /\ \A i \in 1..n : mem'[i] = mem[i]
      /\ mem'[n + 1] = e
  <2>1. mem \in Seq(Events)  BY DEF TypeOK
  <2> QED  BY <2>1, AppendAt, EntryId DEF Stores
<1>2. \A x \in EntryIds : idx'[x] = IF x = e.id THEN n + 1 ELSE idx[x]
  BY <1>1 DEF TypeOK, Stores
<1>3. \A i \in 1..n : mem[i].id \in EntryIds /\ mem[i].id # e.id
  <2> TAKE i \in 1..n
  <2>1. mem[i] \in Events  BY DEF TypeOK
  <2> QED  BY <2>1, EntryId DEF MemoryIndexed, Stores
<1>4. ASSUME NEW i \in 1..(n + 1) PROVE idx'[mem'[i].id] = i
  <2>1. CASE i = n + 1  BY <1>1, <1>2, <2>1
  <2>2. CASE i \in 1..n  BY <1>1, <1>2, <1>3, <2>2 DEF MemoryIndexed
  <2> QED  BY <1>1, <2>1, <2>2
<1>5. ASSUME NEW x \in EntryIds, idx'[x] # 0
      PROVE  idx'[x] \in 1..(n + 1) /\ mem'[idx'[x]].id = x
  <2>1. CASE x = e.id  BY <1>1, <1>2, <2>1
  <2>2. CASE x # e.id
    <3>1. idx'[x] = idx[x]  BY <1>2, <2>2
    <3>2. idx[x] \in 1..n /\ mem[idx[x]].id = x  BY <1>5, <3>1 DEF MemoryIndexed
    <3> QED  BY <1>1, <3>1, <3>2
  <2> QED  BY <2>1, <2>2
<1> QED  BY <1>1, <1>4, <1>5 DEF MemoryIndexed

LEMMA IndexedStep ==
  ASSUME TypeOK, MemoryIndexed, Next
  PROVE  MemoryIndexed'
<1>1. ASSUME NEW e \in Events, Appends(e) PROVE MemoryIndexed'
  <2>1. CASE Stores(e)  BY <2>1, StoredIndexed
  <2>2. CASE UNCHANGED <<mem, idx>>  BY <2>2 DEF MemoryIndexed
  <2> QED  BY <1>1, <2>1, <2>2, AppendOutcome
<1>2. CASE \E e \in Events : append(e)
  <2>1. PICK e \in Events : append(e)  BY <1>2
  <2>2. Appends(e)  BY <2>1 DEF append, Appends
  <2> QED  BY <1>1, <2>2
<1>3. CASE replay_entry
  <2>1. op.todo \in Seq(Events) /\ op.todo # << >>  BY <1>3, FileFacts DEF replay_entry
  <2>2. Head(op.todo) \in Events  BY <2>1
  <2>3. Appends(Head(op.todo))  BY <1>3 DEF replay_entry, Appends
  <2> QED  BY <1>1, <2>2, <2>3
<1>4. CASE crash
  <2>1. mem' = << >> /\ \A x \in EntryIds : idx'[x] = 0  BY <1>4 DEF crash, EmptyIndex
  <2> QED  BY <2>1 DEF MemoryIndexed
<1>5. CASE UNCHANGED <<mem, idx>>  BY <1>5 DEF MemoryIndexed
<1>6. ASSUME NEW batch, append_entries(batch) PROVE UNCHANGED <<mem, idx>>
  BY <1>6 DEF append_entries
<1> QED  BY <1>2, <1>3, <1>4, <1>5, <1>6
         DEF Next, save_snapshot, write_header, header_lost, write_frame, encode_fails,
             write_done, write_fails, replay_load, replay_done

(***************************************************************************)
(* The frames replayed so far, those of them that the ledger did not hold  *)
(* when the replay began, and those up to frame i.                         *)
(***************************************************************************)
Done == Len(file.frames) - Len(op.todo)

HeldBefore(e) == \E k \in 1..op.base : mem[k] = e

Added == {i \in 1..Done : ~HeldBefore(file.frames[i])}

UpTo(i) == {j \in Added : j <= i}

Placed ==
  /\ Len(mem) = op.base + Cardinality(Added)
  /\ \A i \in Added : mem[op.base + Cardinality(UpTo(i))] = file.frames[i]

(***************************************************************************)
(* During a replay the file does not change, what is left to do is its     *)
(* end, and what was added to the ledger comes from the frames before.     *)
(***************************************************************************)
ReplayInv ==
  op.kind = "replay" =>
    /\ load_ok(file)
    /\ op.base <= Len(mem)
    /\ Len(op.todo) <= Len(file.frames)
    /\ \A k \in 1..Len(op.todo) : op.todo[k] = file.frames[Done + k]
    /\ \A p \in (op.base + 1)..Len(mem) : \E i \in 1..Done : mem[p] = file.frames[i]
    /\ Placed

LEMMA ReplayRestated == ReplayInv => ReplayReproduces
  BY Zenon DEF ReplayInv, ReplayReproduces, Placed, Added, UpTo, HeldBefore, Done

LEMMA CountAdded ==
  ASSUME TypeOK
  PROVE  /\ Done \in Int /\ op.base \in Nat
         /\ IsFiniteSet(Added) /\ Cardinality(Added) \in Nat
         /\ \A i \in Added : /\ Cardinality(UpTo(i)) \in Nat
                             /\ 1 <= Cardinality(UpTo(i))
                             /\ Cardinality(UpTo(i)) <= Cardinality(Added)
<1>1. Done \in Int /\ op.base \in Nat
  <2>1. file.frames \in Seq(Frames) /\ op.todo \in Seq(Events)  BY FileFacts
  <2>2. op.base \in Nat  BY DEF TypeOK
  <2> QED  BY <2>1, <2>2 DEF Done
<1>2. IsFiniteSet(Added) /\ Cardinality(Added) \in Nat
  <2>1. IsFiniteSet(1..Done)  BY <1>1, FS_Interval
  <2>2. Added \in SUBSET (1..Done)  BY DEF Added
  <2>3. IsFiniteSet(Added)  BY <2>1, <2>2, FS_Subset, Zenon
  <2> QED  BY <2>3, FS_CardinalityType
<1>3. ASSUME NEW i \in Added
      PROVE  /\ Cardinality(UpTo(i)) \in Nat
             /\ 1 <= Cardinality(UpTo(i))
             /\ Cardinality(UpTo(i)) <= Cardinality(Added)
  <2>1. UpTo(i) \in SUBSET Added  BY DEF UpTo
  <2>2. i \in UpTo(i)
    <3>1. i \in Int  BY DEF Added
    <3> QED  BY <3>1 DEF UpTo
  <2>3. IsFiniteSet(UpTo(i)) /\ Cardinality(UpTo(i)) <= Cardinality(Added)
    BY <1>2, <2>1, FS_Subset
  <2>4. Cardinality(UpTo(i)) \in Nat  BY <2>3, FS_CardinalityType
  <2>5. Cardinality(UpTo(i)) # 0  BY <2>2, <2>3, FS_EmptySet
  <2> QED  BY <2>3, <2>4, <2>5
<1> QED  BY <1>1, <1>2, <1>3

(***************************************************************************)
(* The replay of the next frame goes on.                                   *)
(***************************************************************************)
LEMMA NextFrame ==
  ASSUME TypeOK, ReplayInv, op.kind = "replay", op.todo # << >>,
         op' = [op EXCEPT !.todo = Tail(@)], file' = file
  PROVE  /\ op'.kind = "replay" /\ op'.base = op.base
         /\ Len(op'.todo) <= Len(file'.frames)
         /\ Done \in Nat /\ Done' = Done + 1 /\ Done + 1 <= Len(file.frames)
         /\ Head(op.todo) \in Events /\ Head(op.todo) = file.frames[Done + 1]
         /\ \A k \in 1..Len(op'.todo) : op'.todo[k] = file'.frames[Done' + k]
<1>1. /\ op.todo \in Seq(Events) /\ op.todo # << >>
      /\ file.frames \in Seq(Frames) /\ Len(op.todo) <= Len(file.frames)
      /\ \A k \in 1..Len(op.todo) : op.todo[k] = file.frames[Done + k]
  BY FileFacts DEF ReplayInv
<1>2. op'.kind = "replay" /\ op'.base = op.base /\ op'.todo = Tail(op.todo)
  BY DEF TypeOK
<1>3. /\ Len(op.todo) \in Nat \ {0} /\ Len(file.frames) \in Nat
      /\ Len(Tail(op.todo)) = Len(op.todo) - 1
      /\ \A k \in 1..(Len(op.todo) - 1) : Tail(op.todo)[k] = op.todo[k + 1]
      /\ Head(op.todo) = op.todo[1] /\ Head(op.todo) \in Events
  BY <1>1
<1>4. Done \in Nat /\ Done' = Done + 1 /\ Done + 1 <= Len(file.frames)
  <2>1. /\ Done = Len(file.frames) - Len(op.todo)
        /\ Done' = Len(file.frames) - (Len(op.todo) - 1)
    BY Zenon, <1>2, <1>3 DEF Done
  <2>2. Len(op.todo) <= Len(file.frames)  BY <1>1
  <2> HIDE DEF Done
  <2> QED  BY <1>3, <2>1, <2>2
<1>5. Head(op.todo) = file.frames[Done + 1]
  BY <1>1, <1>3
<1>6. ASSUME NEW k \in 1..Len(op'.todo) PROVE op'.todo[k] = file'.frames[Done' + k]
  <2>1. k \in 1..(Len(op.todo) - 1) /\ k + 1 \in 1..Len(op.todo)  BY <1>2, <1>3
  <2>2. op'.todo[k] = op.todo[k + 1]  BY <1>2, <1>3, <2>1
  <2>3. op.todo[k + 1] = file.frames[Done + (k + 1)]  BY <1>1, <2>1
  <2>4. Done + (k + 1) = Done' + k  BY <1>4, <2>1
  <2> QED  BY <2>2, <2>3, <2>4
<1>7. Len(op'.todo) <= Len(file'.frames)  BY <1>1, <1>2, <1>3
<1> QED  BY <1>2, <1>3, <1>4, <1>5, <1>6, <1>7

LEMMA FrameStored ==
  ASSUME TypeOK, TypeOK', MemoryIndexed, ReplayInv, op.kind = "replay", op.todo # << >>,
         op' = [op EXCEPT !.todo = Tail(@)], file' = file, Stores(Head(op.todo))
  PROVE  ReplayInv'
<1> DEFINE e == Head(op.todo)
           n == Done
           b == op.base
           C == Cardinality(Added)
           at(i) == Cardinality(UpTo(i))
<1>1. /\ op'.kind = "replay" /\ op'.base = b
      /\ Len(op'.todo) <= Len(file'.frames)
      /\ n \in Nat /\ Done' = n + 1 /\ n + 1 <= Len(file.frames)
      /\ e \in Events /\ e = file.frames[n + 1]
      /\ \A k \in 1..Len(op'.todo) : op'.todo[k] = file'.frames[Done' + k]
  BY NextFrame
<1>2. /\ load_ok(file) /\ b <= Len(mem)
      /\ \A p \in (b + 1)..Len(mem) : \E i \in 1..n : mem[p] = file.frames[i]
      /\ Len(mem) = b + C
      /\ \A i \in Added : mem[b + at(i)] = file.frames[i]
  BY DEF ReplayInv, Placed
<1>3. /\ mem' = Append(mem, e) /\ Len(mem) \in Nat
      /\ Len(mem') = Len(mem) + 1
      /\ \A i \in 1..Len(mem) : mem'[i] = mem[i]
      /\ mem'[Len(mem) + 1] = e
  <2>1. mem \in Seq(Events)  BY DEF TypeOK
  <2> QED  BY <1>1, <2>1, AppendAt DEF Stores
<1>4. /\ b \in Nat /\ IsFiniteSet(Added) /\ C \in Nat
      /\ \A i \in Added : at(i) \in Nat /\ 1 <= at(i) /\ at(i) <= C
  BY CountAdded
<1>5. \A x : HeldBefore(x)' <=> HeldBefore(x)
  <2>1. \A k \in 1..b : k \in 1..Len(mem)  BY <1>2, <1>3, <1>4
  <2> QED  BY <1>1, <1>3, <2>1 DEF HeldBefore
<1>6. ~HeldBefore(e)
  <2> SUFFICES ASSUME NEW k \in 1..b, mem[k] = e PROVE FALSE  BY DEF HeldBefore
  <2>1. k \in 1..Len(mem)  BY <1>2, <1>3, <1>4
  <2>2. idx[e.id] = k  BY <2>1 DEF MemoryIndexed
  <2> QED  BY <2>1, <2>2 DEF Stores
<1>7. Added' = Added \cup {n + 1} /\ n + 1 \notin Added
  <2>1. 1..(n + 1) = (1..n) \cup {n + 1} /\ n + 1 \notin 1..n  BY <1>1
  <2>2. Added' = {i \in 1..(n + 1) : ~HeldBefore(file.frames[i])}
    BY <1>1, <1>5 DEF Added
  <2>3. Added = {i \in 1..n : ~HeldBefore(file.frames[i])}  BY DEF Added
  <2> HIDE DEF n
  <2> QED  BY <1>1, <1>6, <2>1, <2>2, <2>3
<1>8. Cardinality(Added') = C + 1
  BY <1>4, <1>7, FS_AddElement, Zenon
<1>9. \A i \in Added : i \in Int /\ i <= n /\ UpTo(i)' = UpTo(i)
  <2> TAKE i \in Added
  <2>1. i \in Int /\ i <= n /\ ~(n + 1 <= i)  BY <1>1 DEF Added
  <2>2. UpTo(i)' = {j \in Added' : j <= i}  BY DEF UpTo
  <2> QED  BY <1>7, <2>1, <2>2 DEF UpTo
<1>10. ASSUME NEW i, i = n + 1 PROVE UpTo(i)' = Added'
  <2>1. \A j \in Added' : j <= i  BY <1>1, <1>7, <1>9, <1>10
  <2>2. UpTo(i)' = {j \in Added' : j <= i}  BY DEF UpTo
  <2> QED  BY <2>1, <2>2
<1>11. Placed'
  <2>1. Len(mem') = op'.base + Cardinality(Added')
    <3> HIDE DEF C, b
    <3> QED  BY <1>1, <1>2, <1>3, <1>4, <1>8
  <2>2. ASSUME NEW i \in Added' PROVE mem'[op'.base + Cardinality(UpTo(i)')] = file'.frames[i]
    <3>1. CASE i = n + 1
      <4>1. op'.base + Cardinality(UpTo(i)') = Len(mem) + 1
        <5>1. UpTo(i)' = Added'  BY <1>10, <3>1
        <5> HIDE DEF C, b
        <5> QED  BY <1>1, <1>2, <1>3, <1>4, <1>8, <5>1
      <4> QED  BY <1>1, <1>3, <3>1, <4>1
    <3>2. CASE i \in Added
      <4>1. UpTo(i)' = UpTo(i)  BY <1>9, <3>2
      <4>2. b + at(i) \in 1..Len(mem)
        <5>1. at(i) \in Nat /\ 1 <= at(i) /\ at(i) <= C  BY <1>4, <3>2
        <5> HIDE DEF C, b, at
        <5> QED  BY <1>2, <1>4, <5>1
      <4>3. mem'[b + at(i)] = mem[b + at(i)]  BY <1>3, <4>2
      <4>4. mem[b + at(i)] = file.frames[i]  BY <1>2, <3>2
      <4> QED  BY <1>1, <4>1, <4>3, <4>4
    <3> QED  BY <1>7, <2>2, <3>1, <3>2
  <2> QED  BY <2>1, <2>2 DEF Placed
<1>12. ASSUME NEW p \in (b + 1)..Len(mem') PROVE \E i \in 1..(n + 1) : mem'[p] = file.frames[i]
  <2>1. CASE p = Len(mem) + 1
    <3>1. n + 1 \in 1..(n + 1)  BY <1>1
    <3> QED  BY <1>1, <1>3, <2>1, <3>1
  <2>2. CASE p # Len(mem) + 1
    <3>1. p \in (b + 1)..Len(mem) /\ p \in 1..Len(mem)  BY <1>3, <1>4, <2>2
    <3>2. PICK i \in 1..n : mem[p] = file.frames[i]  BY <1>2, <3>1
    <3>3. i \in 1..(n + 1)  BY <1>1
    <3> QED  BY <1>3, <3>1, <3>2, <3>3
  <2> QED  BY <2>1, <2>2
<1>13. op'.base <= Len(mem')  BY <1>1, <1>2, <1>3, <1>4
<1> QED  BY <1>1, <1>2, <1>11, <1>12, <1>13 DEF ReplayInv, load_ok

LEMMA FrameKnown ==
  ASSUME TypeOK, MemoryIndexed, ReplayInv, op.kind = "replay", op.todo # << >>,
         op' = [op EXCEPT !.todo = Tail(@)], UNCHANGED <<file, mem, idx>>,
         idx[Head(op.todo).id] # 0, mem[idx[Head(op.todo).id]] = Head(op.todo)
  PROVE  ReplayInv'
<1> DEFINE e == Head(op.todo)
           n == Done
           b == op.base
<1>1. /\ op'.kind = "replay" /\ op'.base = b
      /\ Len(op'.todo) <= Len(file'.frames)
      /\ n \in Nat /\ Done' = n + 1 /\ n + 1 <= Len(file.frames)
      /\ e \in Events /\ e = file.frames[n + 1]
      /\ \A k \in 1..Len(op'.todo) : op'.todo[k] = file'.frames[Done' + k]
  BY NextFrame
<1>2. /\ load_ok(file) /\ b <= Len(mem)
      /\ \A p \in (b + 1)..Len(mem) : \E i \in 1..n : mem[p] = file.frames[i]
      /\ Placed
  BY DEF ReplayInv
<1>3. /\ b \in Nat /\ Len(mem) \in Nat /\ Len(file.frames) \in Nat
  <2>1. mem \in Seq(Events) /\ file.frames \in Seq(Frames)  BY FileFacts
  <2> QED  BY <2>1 DEF TypeOK
<1>4. HeldBefore(e)
  <2> DEFINE p == idx[e.id]
  <2>1. p \in 1..Len(mem) /\ mem[p] = e  BY <1>1, EntryId DEF MemoryIndexed
  <2>2. CASE p \in 1..b  BY <2>1, <2>2 DEF HeldBefore
  <2>3. CASE p \notin 1..b
    <3>1. p \in (b + 1)..Len(mem)
      <4> HIDE DEF p, b
      <4> QED  BY <1>3, <2>1, <2>3
    <3>2. PICK i \in 1..n : mem[p] = file.frames[i]  BY <1>2, <3>1
    <3>3. i \in 1..Len(file.frames) /\ n + 1 \in 1..Len(file.frames) /\ i # n + 1
      BY <1>1, <1>3
    <3>4. file.frames[i].id = file.frames[n + 1].id  BY <1>1, <2>1, <3>2
    <3> QED  BY <1>2, <3>3, <3>4 DEF load_ok, UniqueIds
  <2> QED  BY <2>2, <2>3
<1>5. \A x : HeldBefore(x)' <=> HeldBefore(x)  BY <1>1 DEF HeldBefore
<1>6. Added' = Added
  <2>1. 1..(n + 1) = (1..n) \cup {n + 1}  BY <1>1
  <2>2. Added' = {i \in 1..(n + 1) : ~HeldBefore(file.frames[i])}
    BY <1>1, <1>5 DEF Added
  <2>3. Added = {i \in 1..n : ~HeldBefore(file.frames[i])}  BY DEF Added
  <2> HIDE DEF n
  <2> QED  BY <1>1, <1>4, <2>1, <2>2, <2>3
<1>7. \A i : UpTo(i)' = UpTo(i)  BY <1>6 DEF UpTo
<1>8. Placed'
  BY <1>1, <1>2, <1>6, <1>7 DEF Placed
<1>9. \A p \in (b + 1)..Len(mem') : \E i \in 1..(n + 1) : mem'[p] = file'.frames[i]
  <2>1. \A i \in 1..n : i \in 1..(n + 1)  BY <1>1
  <2> QED  BY <1>2, <2>1
<1> QED  BY <1>1, <1>2, <1>8, <1>9 DEF ReplayInv, load_ok

LEMMA ReplayStep ==
  ASSUME IInv, IInv', MemoryIndexed, ReplayInv, Next
  PROVE  ReplayInv'
<1> SUFFICES ASSUME op'.kind = "replay" PROVE ReplayInv'  BY DEF ReplayInv
<1>1. TypeOK /\ TypeOK'  BY DEF IInv
<1>2. op' # NoOp  BY OpFacts
<1>3. CASE op.kind = "replay"
  <2>1. replay_entry
    <3>1. op # NoOp /\ ~Writing /\ op.stage # "header"
      BY <1>3, OpFacts DEF IInv, WritingInv, Writing
    <3>2. ~(crash \/ replay_done)  BY <1>2 DEF crash, replay_done
    <3>3. ~(save_snapshot \/ replay_load \/ \E e \in Events : append(e))
      BY <3>1 DEF save_snapshot, replay_load, append
    <3>4. ~(\E batch \in Batches : append_entries(batch))  BY <3>1, Zenon DEF append_entries
    <3>5. ~(write_header \/ header_lost)  BY <3>1 DEF write_header, header_lost
    <3>6. ~(write_frame \/ encode_fails \/ write_done \/ write_fails)
      BY <3>1 DEF write_frame, encode_fails, write_done, write_fails
    <3> QED  BY <3>2, <3>3, <3>4, <3>5, <3>6 DEF Next
  <2> DEFINE e == Head(op.todo)
             status == append_status(e, {}, mem, idx)
  <2>2. /\ op.todo # << >> /\ file' = file /\ Appends(e)
        /\ op' = [op EXCEPT !.todo = Tail(@)] /\ status \in {"Accepted", "Duplicate"}
    BY <1>2, <2>1 DEF replay_entry, Appends
  <2>3. CASE status = "Accepted"
    <3>1. Stores(e)  BY <2>2, <2>3, AppendOutcome
    <3> QED  BY <1>1, <1>3, <2>2, <3>1, FrameStored
  <2>4. CASE status = "Duplicate"
    <3>1. UNCHANGED <<mem, idx>>  BY <2>2, <2>4, AppendOutcome
    <3>2. idx[e.id] # 0 /\ mem[idx[e.id]] = e  BY <2>4 DEF append_status
    <3> QED  BY <1>1, <1>3, <2>2, <3>1, <3>2, FrameKnown
  <2> QED  BY <2>2, <2>3, <2>4
<1>4. CASE op.kind # "replay"
  <2>1. replay_load
    <3>1. ~(crash \/ replay_done \/ replay_entry)
      BY <1>2, <1>4 DEF crash, replay_done, replay_entry
    <3>2. ~(save_snapshot \/ \E e \in Events : append(e))
      BY <1>4, Zenon DEF save_snapshot, append, NoOp
    <3>3. ~(\E batch \in Batches : append_entries(batch))  BY Zenon DEF append_entries, NoOp
    <3>4. ~(write_header \/ header_lost)
      BY <1>1, <1>4 DEF write_header, header_lost, TypeOK
    <3>5. ~(write_frame \/ encode_fails \/ write_done \/ write_fails)
      BY <1>1, <1>2, <1>4 DEF write_frame, encode_fails, write_done, write_fails, TypeOK
    <3> QED  BY <3>1, <3>2, <3>3, <3>4, <3>5 DEF Next
  <2>2. /\ load_ok(file) /\ UNCHANGED <<mem, idx, file>>
        /\ op'.todo = file.frames /\ op'.base = Len(mem)
    BY <1>4, <2>1 DEF replay_load
  <2>3. /\ Len(file.frames) \in Nat /\ Len(mem) \in Nat
    <3>1. mem \in Seq(Events) /\ file.frames \in Seq(Frames)  BY <1>1, FileFacts
    <3> QED  BY <3>1
  <2>4. Done' = 0
    <3>1. Done' = Len(file.frames) - Len(file.frames)  BY <2>2 DEF Done
    <3> QED  BY <2>3, <3>1
  <2>5. Added' = {} /\ Cardinality(Added') = 0
    <3>1. Added' = {}  BY <2>4 DEF Added
    <3> QED  BY <3>1, FS_EmptySet
  <2>6. Placed'
    <3>1. Len(mem') = op'.base + Cardinality(Added')  BY <2>2, <2>3, <2>5
    <3> QED  BY <2>5, <3>1 DEF Placed
  <2>7. \A k \in 1..Len(op'.todo) : op'.todo[k] = file'.frames[Done' + k]  BY <2>2, <2>4
  <2>8. /\ op'.base <= Len(mem') /\ Len(op'.todo) <= Len(file'.frames)
        /\ \A p \in (op'.base + 1)..Len(mem') : FALSE
    BY <2>2, <2>3
  <2>9. load_ok(file)'  BY <2>2 DEF load_ok
  <2> QED  BY <2>6, <2>7, <2>8, <2>9 DEF ReplayInv
<1> QED  BY <1>3, <1>4

(***************************************************************************)
(* "Replay reproduces the same physical totals": replay_into adds behind   *)
(* what the ledger held exactly the entries of the file that it did not    *)
(* hold, each once and in the order of the file, after any history of      *)
(* saves, appends, crashes and earlier replays.  An entry that the ledger  *)
(* knows cannot be one that this replay added, because load refuses a file *)
(* with an id twice.                                                       *)
(***************************************************************************)
THEOREM ReplayIsFaithful == Spec => []ReplayReproduces
<1> DEFINE Inv == MemoryIndexed /\ ReplayInv
<1>1. Init => Inv
  BY OpFacts DEF Init, MemoryIndexed, ReplayInv, EmptyIndex
<1>2. IInv /\ IInv' /\ Inv /\ [Next]_vars => Inv'
  <2> SUFFICES ASSUME IInv, IInv', Inv, [Next]_vars PROVE Inv'  OBVIOUS
  <2>1. CASE Next
    <3>1. TypeOK  BY DEF IInv
    <3> QED  BY <2>1, <3>1, IndexedStep, ReplayStep
  <2>2. CASE UNCHANGED vars
    <3>1. UNCHANGED <<mem, idx, file, op>>  BY <2>2 DEF vars
    <3>2. Done' = Done /\ load_ok(file)' = load_ok(file)  BY Zenon, <3>1 DEF Done, load_ok
    <3>3. Added' = Added  BY Zenon, <3>1, <3>2 DEF Added, HeldBefore
    <3>4. \A i : UpTo(i)' = UpTo(i)  BY Zenon, <3>3 DEF UpTo
    <3>5. Placed' = Placed  BY Zenon, <3>1, <3>3, <3>4 DEF Placed
    <3>6. ReplayInv'  BY <3>1, <3>2, <3>5 DEF ReplayInv
    <3>7. MemoryIndexed'  BY <3>1 DEF MemoryIndexed
    <3> QED  BY <3>6, <3>7
  <2> QED  BY <2>1, <2>2
<1>3. Inv => ReplayReproduces  BY ReplayRestated
<1> QED  BY <1>1, <1>2, <1>3, Inductive, PTL DEF Spec

=============================================================================
