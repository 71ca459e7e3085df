------------------------------ MODULE MetaCodec ------------------------------
(***************************************************************************)
(* Blocks of typed fields: the codecs of src/src/codec/codec.rs and the    *)
(* functions of src/src/deploy.rs that encode a JSON object by a           *)
(* DataBlockDefinition and decode a block by it, from the definition's     *)
(* lookup on.  A byte has Base values, 256 in the code; everything the     *)
(* code derives from 256 (the limit of a string, the size of a text field) *)
(* is derived from Base.  Floating-point numbers and JSON strings in place *)
(* of numbers are left out, and so are texts of more than one byte a       *)
(* character: every sequence of bytes is a text, where the code refuses    *)
(* one that is not UTF-8.  Deployed and Watched are the ways of a block to *)
(* and from the PLC.                                                       *)
(***************************************************************************)
EXTENDS Integers, Sequences, SequencesExt

CONSTANTS
    Base,
    Err,        \* Err(_) of a codec
    Panic,      \* a slice out of bounds, or copied from one of another length
    Absent      \* a field that is not in a definition, an object or a map

ASSUME BaseAssumption == Base \in Nat /\ Base >= 4 /\ Base % 2 = 0

Byte == 0..(Base - 1)

\* What a codec decodes a value to.
Decoded == Int \cup BOOLEAN \cup Seq(Int)

ASSUME NoBytes == Panic \notin Seq(Byte) /\ Err \notin Decoded \cup Seq(Decoded)

-----------------------------------------------------------------------------
(* The codecs                                                               *)

Numbers ==
    [byte |-> [width |-> 1, signed |-> FALSE],
     integer |-> [width |-> 2, signed |-> TRUE],
     word |-> [width |-> 2, signed |-> FALSE],
     dint |-> [width |-> 4, signed |-> TRUE],
     dword |-> [width |-> 4, signed |-> FALSE],
     lint |-> [width |-> 8, signed |-> TRUE],
     intAsBigDecimal |-> [width |-> 2, signed |-> TRUE],
     longAsInt |-> [width |-> 8, signed |-> TRUE]]

Codecs == DOMAIN Numbers \cup {"boolean", "ip", "string", "wstring",
                              "char", "datetime", "longAsDateTime"}

\* The powers of Base: how many values k bytes have.
Pow[k \in 0..8] == IF k = 0 THEN 1 ELSE Base * Pow[k - 1]

\* as_i64 and as_u64, then 0 for what they have no value for.
AsI64(n) == IF n \in -(Pow[8] \div 2)..(Pow[8] \div 2 - 1) THEN n ELSE 0
AsU64(n) == IF n \in 0..(Pow[8] - 1) THEN n ELSE 0

\* Two's complement, the highest byte first.
BigEndian(n, width) == [i \in 1..width |-> (n \div Pow[width - i]) % Base]

FromBigEndian(bytes, signed) ==
    LET upTo[i \in 0..Len(bytes)] == IF i = 0 THEN 0 ELSE upTo[i - 1] * Base + bytes[i]
        v == upTo[Len(bytes)]
    IN  IF signed /\ bytes[1] >= Base \div 2 THEN v - Pow[Len(bytes)] ELSE v

\* Mutant: a negative number wraps in an unsigned type.
EncodeNumberWraps(t, n) == BigEndian(AsI64(n), Numbers[t].width)

\* `as` narrows to the lower bytes.
EncodeNumber(t, n) ==
    BigEndian(IF Numbers[t].signed THEN AsI64(n) ELSE AsU64(n), Numbers[t].width)

\* longAsInt is narrowed to its lower two bytes.
DecodeNumber(t, bytes) ==
    LET w == Numbers[t].width IN
    IF Len(bytes) < w THEN Err
    ELSE IF t = "longAsInt" THEN FromBigEndian(SubSeq(bytes, w - 1, w), TRUE)
    ELSE FromBigEndian(SubSeq(bytes, 1, w), Numbers[t].signed)

\* Capacity and length before the bytes of the text.
EncodeString(s) ==
    IF Len(s) > Base - 2 THEN Err ELSE <<Base - 2, Len(s)>> \o s

DecodeString(bytes) ==
    IF Len(bytes) < 2 THEN Err
    ELSE IF Len(bytes) < 2 + bytes[2] THEN Err
    ELSE SubSeq(bytes, 3, 2 + bytes[2])

\* Capacity and length, the lower byte first, before UTF-16 units.
EncodeWString(s) ==
    <<Base - 2, 0, Len(s) % Base, Len(s) \div Base>>
    \o FlattenSeq([i \in 1..Len(s) |-> BigEndian(s[i], 2)])

\* The decoder takes the capacity for the length, and the units from the
\* length on.
DecodeWString(bytes) ==
    IF Len(bytes) < 4 THEN Err
    ELSE LET len == bytes[1] + Base * bytes[2] IN
         IF Len(bytes) < 4 + 2 * len THEN Err
         ELSE [i \in 1..len |-> FromBigEndian(SubSeq(bytes, 2 * i + 1, 2 * i + 2), FALSE)]

\* The first character or a blank, narrowed to a byte.
EncodeChar(s) == <<(IF s = <<>> THEN 32 ELSE s[1]) % Base>>

\* Year, month, day, hour, minute, second, weekday and hundredths of a second
\* in the date's own time zone, which is not written.
EncodeDateTime(d) ==
    LET year == IF d[1] >= 2000 THEN (d[1] - 2000) % 100 ELSE -((2000 - d[1]) % 100)
    IN  <<year % Base>> \o [i \in 1..7 |-> d[i + 1] % Base]

\* Weekday and hundredths are left out, the zone is said to be UTC.
DecodeDateTime(bytes) ==
    IF Len(bytes) < 8 THEN Err ELSE <<2000 + bytes[1]>> \o SubSeq(bytes, 2, 6)

\* Milliseconds are left out of the text; a remainder below 0 is no moment.
DecodeLongAsDateTime(bytes) ==
    IF Len(bytes) < 8 THEN Err
    ELSE LET millis == FromBigEndian(SubSeq(bytes, 1, 8), TRUE)
         IN  IF millis < 0 /\ millis % 1000 # 0 THEN Err ELSE millis - (millis % 1000)

EncodeValue(t, v) ==
    CASE t \in DOMAIN Numbers -> EncodeNumber(t, v)
      [] t = "boolean" -> <<IF v THEN 1 ELSE 0>>
      [] t = "ip"      -> v
      [] t = "string"  -> EncodeString(v)
      [] t = "wstring" -> EncodeWString(v)
      [] t = "char"     -> EncodeChar(v)
      [] t = "datetime" -> EncodeDateTime(v)
      [] t = "longAsDateTime" -> BigEndian(v, 8)

DecodeValue(t, bytes) ==
    CASE t \in DOMAIN Numbers -> DecodeNumber(t, bytes)
      [] t = "boolean" -> IF bytes = <<>> THEN Err ELSE bytes[1] # 0
      [] t = "ip"      -> IF Len(bytes) < 4 THEN Err ELSE SubSeq(bytes, 1, 4)
      [] t = "string"  -> DecodeString(bytes)
      [] t = "wstring" -> DecodeWString(bytes)
      [] t = "char"     -> IF bytes = <<>> THEN Err ELSE SubSeq(bytes, 1, 1)
      [] t = "datetime" -> DecodeDateTime(bytes)
      [] t = "longAsDateTime" -> DecodeLongAsDateTime(bytes)

-----------------------------------------------------------------------------
(* Definitions: [size, fields]; a field is                                  *)
(* [name, type, offset, count, byteSize]                                    *)

\* The names that a table or the registry knows, and one that none knows.
Types == Codecs \cup {"bool", "int", "long", "ipaddress", "date", "integerAsBigDecimal", "other"}

\* Names are compared in lower case: an arm with a capital letter, as those of
\* intAsBigDecimal, longAsInt and longAsDateTime, is never taken.
TypeSize(t) ==
    CASE t \in {"boolean", "bool", "byte", "char"} -> 1
      [] t \in {"integer", "int", "word"} -> 2
      [] t \in {"dint", "dword", "ip", "ipaddress"} -> 4
      [] t \in {"lint", "long", "datetime"} -> 8
      [] t = "string" -> Base
      [] t = "wstring" -> 2 * Base
      [] OTHER -> 1

SizeOf(f) == IF f.byteSize = Absent THEN TypeSize(f.type) ELSE f.byteSize

Least(m, n) == IF m <= n THEN m ELSE n

\* bytes[start..end].copy_from_slice(&enc[..(end - start)])
Copy(bytes, start, end, enc) ==
    IF end < start \/ Len(enc) < end - start THEN Panic
    ELSE [i \in DOMAIN bytes |-> IF i \in (start + 1)..end THEN enc[i - start] ELSE bytes[i]]

\* Mutant: the size of the encoded value is taken for the size of the field.
EncodeItemWhole(bytes, f, n, v) ==
    LET start == f.offset + n * SizeOf(f)
        enc   == IF f.type \in Codecs THEN EncodeValue(f.type, v) ELSE Err
    IN  IF bytes = Panic \/ enc = Err THEN bytes
        ELSE Copy(bytes, start, Least(start + Len(enc), Len(bytes)), enc)

\* The n-th value of a field, cut at the end of the block.
EncodeItem(bytes, f, n, v) ==
    LET start == f.offset + n * SizeOf(f)
        enc   == IF f.type \in Codecs THEN EncodeValue(f.type, v) ELSE Err
    IN  IF bytes = Panic \/ enc = Err THEN bytes
        ELSE Copy(bytes, start, Least(start + SizeOf(f), Len(bytes)), enc)

\* The values of a property: one, or the first `count` of a sequence.
ItemCount(f, v) == IF f.count = 1 THEN 1 ELSE Least(f.count, Len(v))

Item(f, v, i) == IF f.count = 1 THEN v ELSE v[i]

EncodeField(bytes, f, v) ==
    LET upTo[i \in 0..ItemCount(f, v)] ==
            IF i = 0 THEN bytes ELSE EncodeItem(upTo[i - 1], f, i - 1, Item(f, v, i))
    IN  upTo[ItemCount(f, v)]

EncodeProperty(bytes, f, content) ==
    IF f.name \in DOMAIN content THEN EncodeField(bytes, f, content[f.name]) ELSE bytes

Zeros(n) == [i \in 1..n |-> 0]

\* Every field that the object has a value of is written over zeros.
Encode(content, def) ==
    LET upTo[i \in 0..Len(def.fields)] ==
            IF i = 0 THEN Zeros(def.size)
            ELSE EncodeProperty(upTo[i - 1], def.fields[i], content)
    IN  upTo[Len(def.fields)]

DecodeSlice(data, t, start, end) ==
    IF t \in Codecs THEN DecodeValue(t, SubSeq(data, start + 1, Least(end, Len(data)))) ELSE Err

\* Values of an array that cannot be decoded are skipped.
Readable(items) ==
    LET upTo[i \in 0..Len(items)] ==
            IF i = 0 THEN <<>>
            ELSE IF items[i] = Err THEN upTo[i - 1] ELSE Append(upTo[i - 1], items[i])
        read == upTo[Len(items)]
    IN  IF read = <<>> THEN Err ELSE read

DecodeArray(data, f) ==
    LET start(i) == f.offset + (i - 1) * SizeOf(f)
    IN  Readable([i \in 1..f.count |->
            IF start(i) >= Len(data) THEN Err
            ELSE DecodeSlice(data, f.type, start(i), start(i) + SizeOf(f))])

DecodeField(data, f) ==
    IF f.offset >= Len(data) THEN Err
    ELSE IF f.count = 1 THEN DecodeSlice(data, f.type, f.offset, f.offset + SizeOf(f))
    ELSE DecodeArray(data, f)

\* Fields that cannot be decoded are not in the map; of two with a name the
\* last stays.
DecodeAsMap(data, def) ==
    LET decoded == {i \in DOMAIN def.fields : DecodeField(data, def.fields[i]) # Err}
        named(n) == {i \in decoded : def.fields[i].name = n}
    IN  [n \in {def.fields[i].name : i \in decoded} |->
            DecodeField(data, def.fields[Max(named(n))])]

-----------------------------------------------------------------------------
(* To the PLC and back                                                      *)

\* The PLC refuses what reaches over the end of its block.
PlcWrite(block, at, bytes) ==
    IF at + Len(bytes) > Len(block) THEN block
    ELSE [i \in DOMAIN block |-> IF i \in (at + 1)..(at + Len(bytes)) THEN bytes[i - at] ELSE block[i]]

PlcRead(block, at, n) ==
    IF at + n > Len(block) THEN Err ELSE SubSeq(block, at + 1, at + n)

\* Mutant: the length of the deployment is passed over.
DeployedWhole(block, bytes, d) ==
    IF d.offset > Len(bytes) THEN Panic
    ELSE PlcWrite(block, d.offset % (Base * Base), SubSeq(bytes, d.offset + 1, Len(bytes)))

\* Of the encoded object, `length` bytes from `offset` on, all for 0, are
\* written where they are in the object; the offset is narrowed to 16 bits.
Deployed(block, bytes, d) ==
    LET end == IF d.length > 0 THEN Least(d.offset + d.length, Len(bytes)) ELSE Len(bytes)
    IN  IF d.offset > Len(bytes) THEN Panic
        ELSE PlcWrite(block, d.offset % (Base * Base), SubSeq(bytes, d.offset + 1, end))

\* A monitor reads from its offset to its block size and puts zeros before
\* what it has read, and after it when the size has been narrowed.
Watched(block, w) ==
    LET size == IF w.offset <= w.blockSize THEN w.blockSize - w.offset ELSE 0
        read == PlcRead(block, w.offset % (Base * Base), size % (Base * Base))
    IN  IF read = Err THEN Err
        ELSE IF w.offset > w.blockSize THEN Panic
        ELSE [i \in 1..w.blockSize |->
                IF i \in (w.offset + 1)..(w.offset + Len(read)) THEN read[i - w.offset] ELSE 0]
=============================================================================
