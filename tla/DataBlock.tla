------------------------------ MODULE DataBlock ------------------------------
(***************************************************************************)
(* The second encoder and decoder of blocks, DataBlock of                  *)
(* src/src/codec/data_block.rs, with the definitions that POST /deploy of  *)
(* src/src/http.rs makes for it.  It shares the codecs with MetaCodec and  *)
(* has type names, sizes and bounds of its own.  read_data_block and       *)
(* write_data_block of src/src/s7.rs use it; nothing calls these.          *)
(***************************************************************************)
EXTENDS MetaCodec

\* PropertyType::from_str: unknown names, "char" and "intAsBigDecimal" among
\* them, are bytes.  The names are those of as_str, in lower case.
FromStr(t) ==
    CASE t \in {"boolean", "bool"} -> "boolean"
      [] t \in {"integer", "int"}  -> "integer"
      [] t \in {"ip", "ipaddress"} -> "ip"
      [] t = "longAsInt"           -> "longasint"
      [] t = "longAsDateTime"      -> "longasdatetime"
      [] t = "integerAsBigDecimal" -> "integerasbigdecimal"
      [] t \in {"datetime", "date"} -> "datetime"
      [] t \in {"word", "dint", "dword", "lint", "long", "string", "wstring"} -> t
      [] OTHER -> "byte"

\* Mutant: a double word has the size of a word.
SchemaTypeSizeWords(t) ==
    CASE t \in {"boolean", "byte"} -> 1
      [] t \in {"integer", "word", "dword"} -> 2
      [] t \in {"dint", "ip", "longasint"} -> 4
      [] t \in {"lint", "long", "datetime", "longasdatetime", "integerasbigdecimal"} -> 8
      [] t = "string" -> Base
      [] t = "wstring" -> 2 * Base

SchemaTypeSize(t) ==
    CASE t \in {"boolean", "byte"} -> 1
      [] t \in {"integer", "word"} -> 2
      [] t \in {"dword", "dint", "ip", "longasint"} -> 4
      [] t \in {"lint", "long", "datetime", "longasdatetime", "integerasbigdecimal"} -> 8
      [] t = "string" -> Base
      [] t = "wstring" -> 2 * Base

\* A field with its type of PropertyType; `text` says that its values are texts.
SchemaField(f) ==
    [name |-> f.name, type |-> FromStr(f.type), offset |-> f.offset, count |-> f.count,
     byteSize |-> f.byteSize, text |-> f.type = "char"]

SchemaSizeOf(f) == IF f.byteSize = Absent THEN SchemaTypeSize(f.type) ELSE f.byteSize

\* calculate_size: the sizes of the fields, wherever they are.
SizeSum(fields) ==
    LET upTo[i \in 0..Len(fields)] ==
            IF i = 0 THEN 0 ELSE upTo[i - 1] + fields[i].count * SchemaSizeOf(fields[i])
    IN  upTo[Len(fields)]

Schema(def) ==
    LET fields == [i \in DOMAIN def.fields |-> SchemaField(def.fields[i])]
    IN  [fields |-> fields, size |-> SizeSum(fields)]

\* The codecs of numbers parse a text and take 0 for one that is no number.
SchemaEncodeValue(f, v) ==
    IF f.type \notin Codecs THEN Err
    ELSE EncodeValue(f.type, IF f.text /\ f.type \in DOMAIN Numbers THEN 0 ELSE v)

\* A value that would reach over the end is left out; one that has not the
\* size of its field panics.
SchemaEncodeItem(bytes, f, n, v) ==
    LET start == f.offset + n * SchemaSizeOf(f)
        end   == start + SchemaSizeOf(f)
        enc   == SchemaEncodeValue(f, v)
    IN  IF bytes = Panic \/ enc = Err \/ end > Len(bytes) THEN bytes
        ELSE IF Len(enc) # end - start THEN Panic
        ELSE Copy(bytes, start, end, enc)

SchemaEncodeField(bytes, f, v) ==
    LET upTo[i \in 0..ItemCount(f, v)] ==
            IF i = 0 THEN bytes ELSE SchemaEncodeItem(upTo[i - 1], f, i - 1, Item(f, v, i))
    IN  upTo[ItemCount(f, v)]

SchemaEncodeProperty(bytes, f, content) ==
    IF f.name \in DOMAIN content THEN SchemaEncodeField(bytes, f, content[f.name]) ELSE bytes

SchemaEncode(content, schema) ==
    LET upTo[i \in 0..Len(schema.fields)] ==
            IF i = 0 THEN Zeros(schema.size)
            ELSE SchemaEncodeProperty(upTo[i - 1], schema.fields[i], content)
    IN  upTo[Len(schema.fields)]

\* The slice of a field is one value long whatever its count: an array is read
\* as its first value.
SchemaDecodeField(data, f) ==
    LET end == f.offset + SchemaSizeOf(f)
        v   == DecodeValue(f.type, SubSeq(data, f.offset + 1, end))
    IN  IF f.type \notin Codecs \/ end > Len(data) \/ f.count = 0 THEN Err
        ELSE IF f.count = 1 \/ v = Err THEN v
        ELSE <<v>>

SchemaDecode(data, schema) ==
    LET decoded == {i \in DOMAIN schema.fields : SchemaDecodeField(data, schema.fields[i]) # Err}
        named(n) == {i \in decoded : schema.fields[i].name = n}
    IN  [n \in {schema.fields[i].name : i \in decoded} |->
            SchemaDecodeField(data, schema.fields[Max(named(n))])]
=============================================================================
