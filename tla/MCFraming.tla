------------------------------- MODULE MCFraming -------------------------------
(***************************************************************************)
(* One direction of a connection with the codec of the code: what the      *)
(* coordinator's threads write to a worker, and what a worker writes.      *)
(***************************************************************************)
EXTENDS Framing, Codec

CONSTANTS MCPayloads  \* the lengths of the reason strings

MCEntry ==
  [n \in Names(EntryLayout) |->
     CASE n = "marker" -> Marker
       [] n = "version" -> Version
       [] n = "adapter" -> 5
       [] n = "metadata" -> << <<<<1>>, <<2, 3>>>> >>
       [] n \in {"accounting_policy", "pricing_policy"} -> None
       [] n = "has_end" -> TRUE
       [] n \in {"event_kind", "resource_kind"} -> 8
       [] n = "unit" -> Count
       [] n = "provenance" -> 2
       [] n = "quantity" -> 4
       [] OTHER -> 1]

MCMessages ==
  {[type |-> EventAck, body |-> [status |-> 1, reason |-> [i \in 1..n |-> 7]]] : n \in MCPayloads}
    \cup {[type |-> Roll, body |-> [epoch |-> 1, accounting_generation |-> 70]]}
    \cup {[type |-> EventSubmit, body |-> MCEntry]}

MCLengthIn(h) == FrameLen(h)
Parsed(h, c) == IF crc32(c) = FrameCrc(h) THEN decode_message(c) ELSE Malformed

\* The frames of the messages and what they parse to, as tables.
MCFrames == {<<m, encode_message(m)>> : m \in MCMessages}
MCFrame(m) == (CHOOSE f \in MCFrames : f[1] = m)[2]
ParsedFrame(f) == Parsed(SubSeq(f, 1, HeaderLen), SubSeq(f, HeaderLen + 1, Len(f)))
MCParsed == {<<f[2], Strictly(ParsedFrame, f[2])>> : f \in MCFrames}
MCParse(h, c) ==
  IF \E p \in MCParsed : p[1] = h \o c THEN (CHOOSE p \in MCParsed : p[1] = h \o c)[2]
  ELSE Parsed(h, c)

\* The proper beginnings of a content that decode_message would accept.
MCCuts ==
  {<<m, n>> \in MCMessages \X (1..Limit) :
     /\ n < Len(MCFrame(m)) - HeaderLen
     /\ Strictly(decode_message, SubSeq(MCFrame(m), HeaderLen + 1, HeaderLen + n)) # Malformed}

\* A connection may end anywhere inside a frame, when the process at the other
\* end is killed.  What recv_message has read of the content by then is refused
\* by decode_message whatever the length that was cut off: the formats delimit
\* themselves, so a message cannot be taken for a shorter one of its type.
CutShortNeverDecodes ==
  why = "connection closed" /\ stage = "content" /\ Len(delivered) < Len(log)
    => <<log[Len(delivered) + 1], got - base - HeaderSize>> \notin MCCuts
=============================================================================
