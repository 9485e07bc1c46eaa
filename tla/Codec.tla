---------------------------------- MODULE Codec ---------------------------------
(***************************************************************************)
(* encode_entry and decode_entry (codec.cpp), encode_message and           *)
(* decode_message (protocol.cpp), over the byte formats of module Wire.    *)
(*                                                                         *)
(* An entry is a record with one field per field of EntryLayout; has_x and *)
(* x are one optional field.  The bits of a quantity are a number: those   *)
(* of the upper half are negative, the largest is not finite, the odd ones *)
(* are not integral.                                                       *)
(***************************************************************************)
EXTENDS Wire

Marker  == 190 % Base                                   \* kCodecEndianMarker
Version == 1                                            \* kSchemaVersion
Count   == 0                                            \* Unit::Count

Ids(names) == [i \in 1..Len(names) |-> <<names[i], "id">>]
EntryLayout ==
  << <<"marker", "u8">>, <<"version", "u32">> >>
    \o Ids(<<"id", "ledger", "tenant", "workload", "request", "model", "model_revision">>)
    \o << <<"adapter", "option">> >>
    \o Ids(<<"attempt", "dispatch", "worker", "node", "device">>)
    \o << <<"event_kind", "u8">>, <<"resource_kind", "u8">>, <<"quantity", "u64">>,
          <<"unit", "u8">>, <<"provenance", "u8">>, <<"start_ts_ns", "u64">>,
          <<"end_ts_ns", "u64">>, <<"has_end", "bool">> >>
    \o Ids(<<"source_worker", "source_boot">>)
    \o << <<"source_generation", "u64">>, <<"epoch", "u64">>, <<"worker_boot", "id">>,
          <<"request_generation", "u64">>, <<"accounting_generation", "u64">>,
          <<"authority_attempt", "id">>, <<"attempt_generation", "u64">>,
          <<"authority_dispatch", "id">>, <<"accounting_policy", "option">>,
          <<"pricing_policy", "option">>, <<"metadata", "map">> >>

isfinite(q)    == q # Base ^ U64 - 1
Negative(q)    == 2 * q >= Base ^ U64
is_integral(q) == q % 2 = 0
is_physical_resource(k) == k \in 1..8
valid_event_kind(v)    == v \in 1..37
valid_resource_kind(v) == v \in 1..10
valid_unit(v)          == v \in 0..8
valid_provenance(v)    == v \in 0..5

\* The quantities both directions refuse.
Sane(e) == /\ isfinite(e.quantity)
           /\ ~ (is_physical_resource(e.resource_kind) /\ Negative(e.quantity))

encode_entry(e) ==
  IF Sane(e) /\ (e.unit = Count => is_integral(e.quantity))
  THEN Framed(Encode(EntryLayout, e))
  ELSE Malformed

\* decode_entry reads one frame at the front of b and says how much it was.
NoEntry == [entry |-> Malformed, consumed |-> 0]
WellFormed(e) ==
  /\ e # Malformed
  /\ e.marker = Marker
  /\ e.version = Version
  /\ valid_event_kind(e.event_kind) /\ valid_resource_kind(e.resource_kind)
  /\ valid_unit(e.unit) /\ valid_provenance(e.provenance)
  /\ Sane(e)
decode_entry(b) ==
  LET total   == HeaderLen + FrameLen(b)
      payload == SubSeq(b, HeaderLen + 1, total)
      checked(e) == IF WellFormed(e) THEN [entry |-> e, consumed |-> total] ELSE NoEntry
  IN  IF Len(b) < HeaderLen THEN NoEntry
      ELSE IF total > Len(b) \/ crc32(payload) # FrameCrc(b) THEN NoEntry
      ELSE Strictly(checked, Decode(EntryLayout, payload))

(***************************************************************************)
(* Messages: a type and the fields of that type.  The event of an          *)
(* EventSubmit is an entry's frame preceded by its length.                 *)
(***************************************************************************)
Register == 1
RegisterAck == 2
EventSubmit == 3
EventAck == 4
Roll == 5
Shutdown == 6
Ping == 7

msg_type_from(v) == IF v \in Register..Ping THEN v ELSE Ping

MessageLayout(type) ==
  CASE type = Register    -> << <<"worker", "id">>, <<"boot", "id">> >>
    [] type = RegisterAck -> << <<"ok", "bool">>, <<"epoch", "u64">>,
                                <<"accounting_generation", "u64">>, <<"reason", "string">> >>
    [] type = EventSubmit -> << <<"frame", "string">> >>
    [] type = EventAck    -> << <<"status", "u8">>, <<"reason", "string">> >>
    [] type = Roll        -> << <<"epoch", "u64">>, <<"accounting_generation", "u64">> >>
    [] OTHER              -> <<>>

Content(m) ==
  <<m.type>> \o Encode(MessageLayout(m.type),
                       IF m.type = EventSubmit THEN [frame |-> encode_entry(m.body)] ELSE m.body)
encode_message(m) ==
  IF m.type = EventSubmit /\ encode_entry(m.body) = Malformed THEN Malformed
  ELSE Framed(Content(m))

Message(type, body) ==
  IF body = Malformed THEN Malformed ELSE [type |-> type, body |-> body]
EntryMessage(body) ==
  IF body = Malformed THEN Malformed
  ELSE Strictly(LAMBDA d : IF d.consumed = Len(body.frame) THEN Message(EventSubmit, d.entry)
                           ELSE Malformed,
                decode_entry(body.frame))
MessageOf(type, body) == IF type = EventSubmit THEN EntryMessage(body) ELSE Message(type, body)
decode_message(b) ==
  IF b = <<>> THEN Malformed
  ELSE Strictly(LAMBDA body : MessageOf(msg_type_from(b[1]), body),
                Decode(MessageLayout(msg_type_from(b[1])), Tail(b)))
=============================================================================
