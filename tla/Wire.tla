---------------------------------- MODULE Wire ----------------------------------
(***************************************************************************)
(* The byte formats: ByteWriter and ByteReader (codec.hpp), the checksum   *)
(* and the entry codec (codec.cpp), the message codec (protocol.cpp).      *)
(*                                                                         *)
(* A byte is a number below 2^ByteBits; the widths of the integers and of  *)
(* the identities are parameters (8 bits and 4, 8 and 16 bytes in the      *)
(* code).  What is written field by field in the code is a layout here: a  *)
(* sequence of fields, each a name and the kind of value written for it.   *)
(* The encoder walks the layout forwards, the decoder reads it back.       *)
(***************************************************************************)
EXTENDS Integers, Sequences, SequencesExt, Bitwise, Strict

CONSTANTS ByteBits,  \* bits of a byte
          U32,       \* bytes of an uint32_t: lengths, counts and the checksum
          U64,       \* bytes of an uint64_t
          IdBytes,   \* kIdentityBytes
          Poly,      \* the reflected polynomial of the checksum
          None,      \* an optional field that is not set
          Malformed  \* the outcome of an encoding or a decoding that returns false

Base == 2 ^ ByteBits

(***************************************************************************)
(* Integers and identities, most significant byte first.                   *)
(***************************************************************************)
Digits(v, n) == [i \in 1..n |-> (v \div Base ^ (n - i)) % Base]
Number(b) == FoldLeft(LAMBDA v, d : v * Base + d, 0, b)

(***************************************************************************)
(* crc32_impl: a register of 32 bits, all ones at first, into which each   *)
(* byte is added and shifted out bit by bit.                               *)
(***************************************************************************)
Ones == Base ^ U32 - 1
ShiftOut(r) == (r \div 2) ^^ (IF r % 2 = 1 THEN Poly ELSE 0)
AddByte(r, d) ==
  LET reg[k \in 0..ByteBits] == IF k = 0 THEN r ^^ d ELSE Strictly(ShiftOut, reg[k - 1])
  IN  reg[ByteBits]

\* The register after the bytes of b, by halves.
RECURSIVE Feed(_, _)
Feed(r, b) ==
  LET n == Len(b)
      first(t) == Feed(r, t)
  IN  CASE n = 0 -> r
        [] n = 1 -> AddByte(r, b[1])
        [] n > 1 -> Strictly(LAMBDA s : Strictly(LAMBDA t : Feed(s, t), SubSeq(b, n \div 2 + 1, n)),
                             Strictly(first, SubSeq(b, 1, n \div 2)))
crc32(b) == Ones - Strictly(LAMBDA c : Feed(Ones, c), b)

\* A frame: the length and the checksum of what follows, and what follows.
HeaderLen == 2 * U32
Framed(content) ==
  Strictly(LAMBDA c : Digits(Len(c), U32) \o Digits(crc32(c), U32) \o c, content)
FrameLen(header) == Number(SubSeq(header, 1, U32))
FrameCrc(header) == Number(SubSeq(header, U32 + 1, HeaderLen))

(***************************************************************************)
(* ByteWriter: the bytes written for a value of each kind.  An optional    *)
(* identity is a flag and, when the flag is set, the identity; a map is    *)
(* its size and its pairs in the order of the keys.                        *)
(***************************************************************************)
PutString(s) == Digits(Len(s), U32) \o s
Put(kind, v) ==
  CASE kind = "u8"     -> <<v>>
    [] kind = "bool"   -> <<IF v THEN 1 ELSE 0>>
    [] kind = "u32"    -> Digits(v, U32)
    [] kind = "u64"    -> Digits(v, U64)
    [] kind = "id"     -> Digits(v, IdBytes)
    [] kind = "option" -> IF v = None THEN <<0>> ELSE <<1>> \o Digits(v, IdBytes)
    [] kind = "string" -> PutString(v)
    [] kind = "map"    -> Digits(Len(v), U32)
                            \o FlattenSeq([i \in 1..Len(v) |->
                                             PutString(v[i][1]) \o PutString(v[i][2])])

(***************************************************************************)
(* ByteReader: a reader r is the bytes, the number of them consumed, and   *)
(* whether every read so far succeeded; a read of a kind gives the value   *)
(* and the reader after it.                                                *)
(***************************************************************************)
Reader(b) == [bytes |-> b, pos |-> 0, ok |-> TRUE]
remaining(r) == Len(r.bytes) - r.pos
Take(r, n) == SubSeq(r.bytes, r.pos + 1, r.pos + n)
Skip(r, n) == [r EXCEPT !.pos = @ + n]
Fail(r) == [v |-> Malformed, r |-> [r EXCEPT !.ok = FALSE]]
GetNumber(r, n) ==
  IF r.ok /\ remaining(r) >= n THEN [v |-> Number(Take(r, n)), r |-> Skip(r, n)] ELSE Fail(r)

\* A bug: a string that ends too early is taken as it is.
ShortString(r) ==
  LET len == GetNumber(r, U32)
      n   == IF remaining(len.r) < len.v THEN remaining(len.r) ELSE len.v
  IN  IF len.r.ok THEN [v |-> Take(len.r, n), r |-> Skip(len.r, n)] ELSE Fail(r)

GetString(r) ==
  LET len == GetNumber(r, U32)
  IN  IF len.r.ok /\ remaining(len.r) >= len.v
      THEN [v |-> Take(len.r, len.v), r |-> Skip(len.r, len.v)]
      ELSE Fail(r)

\* One pair of a map: emplace leaves the map alone when it holds the key.
GetPair(g) ==
  LET key   == GetString(g.r)
      value == GetString(key.r)
  IN  IF ~value.r.ok THEN Fail(g.r)
      ELSE [v |-> IF \E i \in 1..Len(g.v) : g.v[i][1] = key.v
                    THEN g.v ELSE Append(g.v, <<key.v, value.v>>),
            r |-> value.r]
GetMap(r) ==
  LET count == GetNumber(r, U32)
  IN  IF ~count.r.ok THEN Fail(r)
      ELSE FoldLeft(LAMBDA g, i : IF g.r.ok THEN Strictly(GetPair, g) ELSE g,
                    [v |-> <<>>, r |-> count.r], [i \in 1..count.v |-> i])

Get(kind, r) ==
  CASE kind = "u8"     -> GetNumber(r, 1)
    [] kind = "bool"   -> LET g == GetNumber(r, 1) IN [g EXCEPT !.v = g.r.ok /\ g.v # 0]
    [] kind = "u32"    -> GetNumber(r, U32)
    [] kind = "u64"    -> GetNumber(r, U64)
    [] kind = "id"     -> GetNumber(r, IdBytes)
    [] kind = "option" -> LET g == GetNumber(r, 1)
                          IN  IF g.r.ok /\ g.v # 0 THEN GetNumber(g.r, IdBytes)
                              ELSE [g EXCEPT !.v = None]
    [] kind = "string" -> GetString(r)
    [] kind = "map"    -> GetMap(r)

(***************************************************************************)
(* Layouts: what is written for a record, and what is read back: the       *)
(* record, or Malformed when a read fails or bytes are left over.          *)
(***************************************************************************)
Encode(layout, rec) == FlattenSeq([i \in 1..Len(layout) |-> Put(layout[i][2], rec[layout[i][1]])])

ReadField(p, field) ==
  LET add(g) == [vals |-> Append(p.vals, g.v), r |-> g.r]
  IN  IF p.r.ok THEN Strictly(add, Get(field[2], p.r)) ELSE p

\* The fields of a layout one after the other, by halves.
RECURSIVE ReadFields(_, _)
ReadFields(p, layout) ==
  LET n == Len(layout)
      first(t) == ReadFields(p, t)
  IN  CASE n = 0 -> p
        [] n = 1 -> ReadField(p, layout[1])
        [] n > 1 -> Strictly(LAMBDA q : Strictly(LAMBDA t : ReadFields(q, t),
                                                 SubSeq(layout, n \div 2 + 1, n)),
                             Strictly(first, SubSeq(layout, 1, n \div 2)))
ReadAll(layout, b) ==
  Strictly(LAMBDA p : Strictly(LAMBDA t : ReadFields(p, t), layout),
           [vals |-> <<>>, r |-> Strictly(Reader, b)])
Names(layout) == {layout[i][1] : i \in 1..Len(layout)}
AsRecord(layout, vals) ==
  [n \in Names(layout) |-> vals[CHOOSE i \in 1..Len(layout) : layout[i][1] = n]]
Decode(layout, b) ==
  Strictly(LAMBDA p : IF p.r.ok /\ remaining(p.r) = 0
                      THEN AsRecord(layout, p.vals) ELSE Malformed,
           ReadAll(layout, b))
=============================================================================
