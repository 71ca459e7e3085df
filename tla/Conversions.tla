----------------------------- MODULE Conversions -----------------------------
(***************************************************************************)
(* The conversions of the report cache and of the metadata factory at      *)
(* work: a date read from a report block (src/src/report/cache.rs); an     *)
(* object encoded by a definition, deployed to a PLC and read from there   *)
(* by a monitor (src/src/deploy.rs, report/monitor.rs, with the codecs of  *)
(* src/src/codec/codec.rs); and the same object and bytes in the hands of  *)
(* the second encoder and decoder (src/src/codec/data_block.rs).           *)
(***************************************************************************)
EXTENDS DataBlock, S7DateTime

CONSTANTS
    Dates,      \* byte sequences a report block may hold
    Objects,    \* a family of [content, def, deploy, watch]: objects with
                \* their definitions and the slices written and read
    PlcBlock,   \* what the PLC's block holds before
    Nothing     \* not converted yet

Field == [name : STRING, type : Types, offset : Nat, count : Nat,
          byteSize : Nat \cup {Absent}]

Faithful == Codecs \ {"wstring"}

\* The values that JSON and the codecs know of a type: integers that one of
\* as_i64 and as_u64 takes, the parts of an address, the bytes or characters of
\* a text, the parts of a date, the milliseconds of a moment.
ValueOf(t) ==
    CASE t \in DOMAIN Numbers -> -(Pow[8] \div 2)..(Pow[8] - 1)
      [] t = "boolean"  -> BOOLEAN
      [] t = "ip"       -> [1..4 -> Byte]
      [] t = "string"   -> Seq(Byte)
      [] t = "char"     -> Seq(Nat)
      [] t = "datetime" -> {d \in [1..8 -> Int] : \A i \in 2..6 : d[i] \in Byte}
      [] t = "longAsDateTime" -> -(Pow[8] \div 2)..(Pow[8] \div 2 - 1)

\* The values an object has of a field are of its type: encode gives their
\* bytes or an error.
HasType(f, content) ==
    f.name \in DOMAIN content =>
        LET v == content[f.name] IN
        /\ f.count # 1 => Len(v) \in Nat
        /\ \A i \in 1..ItemCount(f, v) :
            /\ f.type \in Faithful => Item(f, v, i) \in ValueOf(f.type)
            /\ f.type \in Codecs => EncodeValue(f.type, Item(f, v, i)) \in {Err} \cup Seq(Byte)
            /\ SchemaEncodeValue(SchemaField(f), Item(f, v, i)) \in {Err} \cup Seq(Byte)

ASSUME ObjectsAssumption ==
    \A k \in DOMAIN Objects :
        LET o == Objects[k] IN
        /\ o.def.size \in Nat /\ o.def.fields \in Seq(Field)
        /\ {o.deploy.offset, o.deploy.length, o.watch.offset, o.watch.blockSize} \subseteq Nat
        /\ \A i \in DOMAIN o.def.fields : HasType(o.def.fields[i], o.content)

ASSUME PlcBlockAssumption == PlcBlock \in Seq(Byte)

ASSUME NothingAssumption == Nothing # Panic /\ \A k \in DOMAIN Objects : Objects[k] # Nothing

ASSUME DatesAssumption == \A d \in Dates : d \in Seq(0..255) /\ Len(d) >= 8

VARIABLES
    data,       \* the bytes of a report block, or of an encoded object
    object,     \* the object to be written; Nothing when a date is read
    time,       \* what the date is read as
    block,      \* the PLC's block after the deployment
    values,     \* what the monitor's block is read as
    schema      \* what DataBlock encodes the object as and reads the data as

vars == <<data, object, time, block, values, schema>>

Init ==
    /\ \/ data \in Dates /\ object = Nothing
       \/ data = Nothing /\ \E k \in DOMAIN Objects : object = Objects[k]
    /\ time = Nothing
    /\ block = Nothing
    /\ values = Nothing
    /\ schema = Nothing

ReadTime ==
    /\ object = Nothing
    /\ time = Nothing
    /\ time' = ExtractS7DateTime(data, 0)
    /\ UNCHANGED <<data, object, block, values, schema>>

EncodeObject ==
    /\ object # Nothing
    /\ data = Nothing
    /\ data' = Encode(object.content, object.def)
    /\ UNCHANGED <<object, time, block, values, schema>>

DeployObject ==
    /\ object # Nothing
    /\ data \notin {Nothing, Panic}
    /\ block = Nothing /\ schema = Nothing
    /\ block' = Deployed(PlcBlock, data, object.deploy)
    /\ UNCHANGED <<data, object, time, values, schema>>

ReadObject ==
    /\ block \notin {Nothing, Panic}
    /\ values = Nothing
    /\ LET full == Watched(block, object.watch)
       IN  values' = IF full \in {Err, Panic} THEN full ELSE DecodeAsMap(full, object.def)
    /\ UNCHANGED <<data, object, time, block, schema>>

UseDataBlock ==
    /\ object # Nothing
    /\ data \notin {Nothing, Panic}
    /\ block = Nothing /\ schema = Nothing
    /\ schema' = [bytes  |-> SchemaEncode(object.content, Schema(object.def)),
                  values |-> SchemaDecode(data, Schema(object.def))]
    /\ UNCHANGED <<data, object, time, block, values>>

Next == ReadTime \/ EncodeObject \/ DeployObject \/ ReadObject \/ UseDataBlock

Spec == Init /\ [][Next]_vars

-----------------------------------------------------------------------------
(* Dates                                                                    *)

\* Days since 1970-01-01 in the Gregorian calendar: years of 365.2425 days
\* that begin in March.
CivilDays(y, m, d) ==
    LET yy == IF m <= 2 THEN y - 1 ELSE y
        mm == IF m <= 2 THEN m + 9 ELSE m - 3
    IN  yy * 365 + yy \div 4 - yy \div 100 + yy \div 400
        + (153 * mm + 2) \div 5 + d - 1 - 719468

Digits(b) == 10 * (b \div 16) + (b % 16)

\* A date and time of the calendar is read as the moment it stands for, a
\* month or day that is none as no time (extract_s7_datetime), in the leap years and
\* months of the whole range of its two-digit year.
DateExact ==
    time # Nothing =>
        LET y == 2000 + Digits(data[1])
            m == Digits(data[2])
            d == Digits(data[3])
        IN  IF m \notin 1..12 \/ d \notin 1..31 THEN time = None
            ELSE time = [days    |-> CivilDays(y, m, d),
                         seconds |-> 60 * (60 * Digits(data[4]) + Digits(data[5]))
                                     + Digits(data[6])]

-----------------------------------------------------------------------------
(* Blocks                                                                   *)

FieldSet(def) == {def.fields[i] : i \in DOMAIN def.fields}

Place(f) == f.offset .. (f.offset + f.count * SizeOf(f) - 1)

\* No other field of the definition shares a byte with f.
Apart(f, def) == \A g \in FieldSet(def) \ {f} : Place(f) \cap Place(g) = {}

\* Nor shares its name.
Named(f, def) == \A g \in FieldSet(def) \ {f} : g.name # f.name

\* The number of the type's range that is n modulo the size of the range; 0
\* for a negative number in an unsigned type, and for one of 8 bytes that takes
\* all of them in a signed type.
InRange(t, n) ==
    LET m == Pow[IF t = "longAsInt" THEN 2 ELSE Numbers[t].width]
    IN  IF Numbers[t].signed
        THEN IF n >= Pow[8] \div 2 THEN 0 ELSE ((n + m \div 2) % m) - m \div 2
        ELSE IF n < 0 THEN 0 ELSE n % m

Zero(t) ==
    CASE t \in DOMAIN Numbers \cup {"longAsDateTime"} -> 0
      [] t = "boolean"  -> FALSE
      [] t = "ip"       -> <<0, 0, 0, 0>>
      [] t = "string"   -> <<>>
      [] t = "char"     -> <<0>>
      [] t = "datetime" -> <<2000, 0, 0, 0, 0, 0>>

\* The bytes a value of the type takes, or the least that a text takes.
ByteSize(t) ==
    CASE t \in DOMAIN Numbers -> Numbers[t].width
      [] t \in {"boolean", "char"} -> 1
      [] t = "ip" -> 4
      [] t = "string" -> 2
      [] t \in {"datetime", "longAsDateTime"} -> 8

\* What one value is to be read as: a character in a byte, a date in its own
\* zone and in seconds.
ReadAs(t, v) ==
    CASE t \in DOMAIN Numbers -> InRange(t, v)
      [] t = "string" /\ Len(v) > Base - 2 -> <<>>
      [] t = "char" -> <<(IF v = <<>> THEN 32 ELSE v[1]) % Base>>
      [] t = "datetime" -> SubSeq(v, 1, 6)
      [] t = "longAsDateTime" -> v - (v % 1000)
      [] OTHER -> v

\* What a field is to be read as: zero when the object does not have it.
Stored(f) ==
    LET given == f.name \in DOMAIN object.content
        v     == object.content[f.name]
    IN  IF f.count = 1 THEN IF given THEN ReadAs(f.type, v) ELSE Zero(f.type)
        ELSE [i \in 1..f.count |-> IF given /\ i <= Len(v) THEN ReadAs(f.type, v[i])
                                   ELSE Zero(f.type)]

\* As many bytes as the field's values take are set aside for it in the block.
Fits(f) ==
    /\ f.type \in Codecs
    /\ f.offset + f.count * SizeOf(f) <= object.def.size
    /\ f.name \in DOMAIN object.content =>
          LET v == object.content[f.name] IN
          \A i \in 1..ItemCount(f, v) :
              LET enc == EncodeValue(f.type, Item(f, v, i))
              IN  enc # Err => Len(enc) = SizeOf(f)

\* The bytes the deployment is about, and those the monitor reads.
Deploying ==
    object.deploy.offset .. (IF object.deploy.length = 0 THEN object.def.size
                             ELSE object.deploy.offset + object.deploy.length) - 1

Watching == object.watch.offset .. (object.watch.blockSize - 1)

\* The monitor has read a block.
Seen == values \notin {Nothing, Err, Panic}

\* The PLC takes the bytes deployed: its block is not shorter.
Accepted == Deploying \cap 0..(object.def.size - 1) \subseteq 0..(Len(PlcBlock) - 1)

\* The offsets of the slices are those of the PLC's block after they have been
\* narrowed to 16 bits.
Addressable == object.def.size < Base * Base /\ object.watch.blockSize < Base * Base

\* A date is one of the years that two digits tell apart, a moment before 1970 is one
\* in whole seconds.
Dated(t, v) ==
    CASE t = "datetime" -> v[1] - 2000 \in Byte \cap 0..99
      [] t = "longAsDateTime" -> v >= 0 \/ v % 1000 = 0
      [] OTHER -> TRUE

\* All values the object has of the field are.
AllDated(f) ==
    f.name \in DOMAIN object.content =>
        LET v == object.content[f.name] IN
        \A i \in 1..ItemCount(f, v) : Dated(f.type, Item(f, v, i))

\* Of an object all of whose fields have the bytes their values take, a field
\* that no other overlaps and that the deployment and the monitor both cover is
\* read on the other side of the PLC as the value given, narrowed to its type
\* (encode, deploy, the monitor's block and decode_as_map agree on sizes,
\* places, byte order and signs).
RoundTrip ==
    Seen /\ Addressable /\ Accepted /\ (\A f \in FieldSet(object.def) : Fits(f)) =>
        \A f \in FieldSet(object.def) :
            (/\ f.type \in Faithful /\ AllDated(f) /\ f.count > 0
             /\ Apart(f, object.def) /\ Named(f, object.def)
             /\ Place(f) \subseteq Deploying \cap Watching
             /\ SizeOf(f) >= ByteSize(f.type))
            => f.name \in DOMAIN values /\ values[f.name] = Stored(f)

\* Whatever the sizes and places, a field that no other overlaps is read as
\* what was written to it or is missing, an array as a prefix of it; a value
\* too long for its field never reaches a neighbour (the slices of encode and
\* the cuts of decode_as_map).
NothingWrong ==
    Seen /\ Addressable /\ Accepted =>
        \A f \in FieldSet(object.def) :
            (/\ f.name \in DOMAIN values /\ f.type \in Faithful
             /\ f.type = "datetime" => AllDated(f)
             /\ Apart(f, object.def) /\ Named(f, object.def)
             /\ Place(f) \cap 0..(object.def.size - 1) \subseteq Deploying \cap Watching
             /\ \/ Place(f) \subseteq 0..(object.def.size - 1)
                \/ object.watch.blockSize <= object.def.size)
            => IF f.count = 1 THEN values[f.name] = Stored(f)
               ELSE f.type \in DOMAIN Numbers => IsPrefix(values[f.name], Stored(f))

\* A field that the deployment does not cover is read as the PLC had it
\* before, wherever the slice begins and ends and whatever the other fields
\* are (the offset and length of deploy), in blocks that can be addressed.
OthersStay ==
    Seen /\ Addressable =>
        \A f \in FieldSet(object.def) :
            (/\ Named(f, object.def)
             /\ Place(f) \cap Deploying = {} /\ Place(f) \subseteq Watching)
            => LET before == DecodeField(PlcBlock, f)
               IN  IF before = Err THEN f.name \notin DOMAIN values
                   ELSE f.name \in DOMAIN values /\ values[f.name] = before

\* The types that both decoders know by one name.
Shared == {t \in Faithful : FromStr(t) = t}

\* The bytes of a field by the sizes of PropertyType.
SchemaPlace(f) == f.offset .. (f.offset + f.count * SchemaSizeOf(SchemaField(f)) - 1)

\* Where the two encoders and decoders are meant to be one: a field of one value,
\* of a type that both know by one name (numbers but for intAsBigDecimal and
\* longAsInt, booleans, addresses, texts, datetime), that no other field overlaps
\* by the sizes of either table.  Inside both blocks they write it to the same
\* bytes, inside the block decoded they read it alike, so the tables agree on its
\* size (deploy.rs 362, data_block.rs 134).
\* Beyond it they do differ: date, char, longAsInt, longAsDateTime and the
\* aliases have other sizes or codecs, an array is read as its first value.
SchemasAgree ==
    schema # Nothing =>
        \A f \in FieldSet(object.def) :
            (/\ f.type \in Shared /\ f.count = 1
             /\ Apart(f, object.def) /\ Named(f, object.def)
             /\ \A g \in FieldSet(object.def) \ {f} : Place(f) \cap SchemaPlace(g) = {})
            => /\ Place(f) \subseteq 0..(object.def.size - 1) =>
                    /\ f.name \in DOMAIN schema.values <=> DecodeField(data, f) # Err
                    /\ f.name \in DOMAIN schema.values =>
                        schema.values[f.name] = DecodeField(data, f)
               /\ schema.bytes # Panic =>
                    \A i \in Place(f) :
                        i < object.def.size /\ f.offset + SizeOf(f) <= Len(schema.bytes) =>
                            schema.bytes[i + 1] = data[i + 1]
=============================================================================
