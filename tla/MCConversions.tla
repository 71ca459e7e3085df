---------------------------- MODULE MCConversions ----------------------------
(***************************************************************************)
(* Every date of 2000 to 2099, and blocks with two fields of every codec   *)
(* at the limits of its values, in bytes of four values.                   *)
(***************************************************************************)
EXTENDS Conversions

Bcd(n) == (n \div 10) * 16 + (n % 10)

Days(y, m) ==
    IF m = 2 THEN IF y % 4 = 0 THEN 29 ELSE 28
    ELSE IF m \in {4, 6, 9, 11} THEN 30 ELSE 31

MCDates ==
    UNION {{<<Bcd(y), Bcd(m), Bcd(d), Bcd(23), Bcd(59), Bcd(s), 0, 0>> : d \in {1, 15, Days(y, m)}} :
           y \in 0..99, m \in 1..12, s \in {0, 58}}
    \cup {<<Bcd(24), m, 1, 0, 0, 0, 0, 0>> : m \in {0, Bcd(13)}}
    \cup {<<Bcd(24), Bcd(3), d, 0, 0, 0, 0, 0>> : d \in {0, Bcd(32), 255}}

\* Fields without names and places, each with one of the values given; Absent
\* leaves it out of the object.
Items(t, size, count, given) ==
    [i \in DOMAIN given |-> [type |-> t, byteSize |-> size, count |-> count, value |-> given[i]]]

Fields == FlattenSeq(<<
    Items("byte", Absent, 1, <<-1, 3, 4, Absent>>),
    Items("integer", Absent, 1, <<-9, -8, 7>>),
    Items("integer", 1, 1, <<6>>),
    Items("int", Absent, 1, <<5>>),
    Items("word", Absent, 1, <<-1, 15>>),
    Items("word", 4, 1, <<15>>),
    Items("byte", Absent, 0, <<<<1>>>>),
    Items("byte", Absent, 2, <<<<1>>, <<3, 2, 1>>>>),
    Items("integer", Absent, 2, <<<<-8, 7>>>>),
    Items("dint", Absent, 1, <<-128, 127>>),
    Items("dword", Absent, 1, <<255>>),
    Items("lint", Absent, 1, <<-32768, -1, 32769>>),
    Items("intAsBigDecimal", 2, 1, <<-3>>),
    Items("longAsInt", 8, 1, <<32767>>),
    Items("longAsInt", Absent, 1, <<5>>),
    Items("boolean", Absent, 1, <<TRUE, Absent>>),
    Items("ip", Absent, 1, <<<<3, 0, 1, 2>>>>),
    Items("string", Absent, 1, <<<<1>>, <<1, 2>>, <<1, 2, 3>>>>),
    Items("string", 3, 1, <<<<1>>, <<2, 3>>>>),
    Items("char", Absent, 1, <<<<3, 1>>, <<>>>>),
    Items("datetime", Absent, 1, <<<<2003, 3, 2, 1, 0, 3, 2, 1>>>>),
    Items("date", Absent, 1, <<<<2003, 3, 2, 1, 0, 3, 2, 1>>>>),
    Items("longAsDateTime", 8, 1, <<31999, -1000, -1>>),
    Items("wstring", 6, 1, <<<<7>>>>),
    Items("wstring", Absent, 1, <<<<7, 14>>>>)>>)

Size == 12

Slice(from, n, at, to) == [deploy |-> [offset |-> from, length |-> n],
                           watch |-> [offset |-> at, blockSize |-> to]]

Layout(a, b, size, by) == [at |-> <<a, b>>, size |-> size, by |-> by]

\* Two fields, listed by their places or against them; some overlap, some
\* reach over the end of the block or lie beyond it.  The whole block, or
\* slices of it that begin and end anywhere, are deployed and watched; the last
\* monitor but one has a size that is none of 16 bits; the last block is longer than
\* the PLC's, which refuses it.
Places == <<
    Layout(0, 4, Size, Slice(0, 0, 0, Size)),
    Layout(4, 0, Size, Slice(4, 0, 0, Size)),
    Layout(4, 0, Size, Slice(0, 4, 4, Size)),
    Layout(3, 0, Size, Slice(0, 3, 0, 11)),
    Layout(7, 2, Size, Slice(2, 99, 2, Size + 2)),
    Layout(0, 13, Size, Slice(13, 0, 0, Size)),
    Layout(10, 1, Size, Slice(0, 0, 1, Size)),
    Layout(0, 8, Size, Slice(8, 4, 5, 4)),
    Layout(8, 0, Size, Slice(0, 8, 0, Size)),
    Layout(2, 8, Size, Slice(0, 8, 2, Size + 6)),
    Layout(0, 6, 15, Slice(0, 0, 0, 10))>>

MCPlcBlock == <<1, 0, 3, 2, 2, 1, 0, 3, 1, 2, 0, 1, 3, 3>>

MCObjects ==
    [k \in [a : DOMAIN Fields, b : DOMAIN Fields, at : DOMAIN Places] |->
        LET item == [n \in {"a", "b"} |-> Fields[k[n]]]
            place == Places[k.at]
            field(n, o) == [name |-> n, type |-> item[n].type, offset |-> o,
                            count |-> item[n].count, byteSize |-> item[n].byteSize]
        IN  [content |-> [n \in {m \in {"a", "b"} : item[m].value # Absent} |-> item[n].value],
             def |-> [size |-> place.size, fields |-> <<field("a", place.at[1]),
                                                  field("b", place.at[2])>>],
             deploy |-> place.by.deploy,
             watch |-> place.by.watch]]
=============================================================================
