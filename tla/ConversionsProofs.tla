-------------------------- MODULE ConversionsProofs --------------------------
(***************************************************************************)
(* Theorems about Conversions, for every set of dates and objects.  What   *)
(* the loops of the code compute is proved by the least number of rounds   *)
(* after which it would be wrong.                                          *)
(***************************************************************************)
EXTENDS Conversions, SequenceTheorems, FiniteSetTheorems, WellFoundedInduction, TLAPS

\* A set of naturals that has an element has a least one.
LEMMA LeastNumber ==
    ASSUME NEW S \in SUBSET Nat, NEW n \in S
    PROVE  \E m \in S : \A k \in S : m <= k
<1>. DEFINE R == OpToRel(<, Nat)
<1>1. IsWellFoundedOn(R, Nat)  BY NatLessThanWellFounded
<1>2. \A x, y \in Nat : x < y => <<x, y>> \in R  BY DEF OpToRel
<1>. HIDE DEF R
<1>3. PICK x \in S : \A y \in S : ~(<<y, x>> \in R)  BY <1>1, WFMin
<1>4. \A y \in S : x <= y
  <2>1. TAKE y \in S
  <2>2. x \in Nat /\ y \in Nat  OBVIOUS
  <2>3. ~(y < x)  BY <1>2, <1>3, <2>2
  <2>. QED  BY <2>2, <2>3
<1>. QED  BY <1>4

\* What holds at 0 and is kept from one round to the next holds at each.
LEMMA Rounds ==
    ASSUME NEW n \in Nat, NEW Good \in SUBSET (0..n),
           0 \in Good, \A i \in 1..n : i - 1 \in Good => i \in Good
    PROVE  Good = 0..n
<1>. DEFINE S == (0..n) \ Good
<1>1. SUFFICES ASSUME NEW k \in S PROVE FALSE
  OBVIOUS
<1>2. S \in SUBSET Nat  OBVIOUS
<1>3. PICK m \in S : \A j \in S : m <= j  BY <1>2, LeastNumber
<1>4. m \in 1..n /\ m - 1 \in 0..n /\ m - 1 \notin S  BY <1>2, <1>3
<1>. QED  BY <1>4

\* run has what a loop of n rounds over a set makes, from the first.
IsRun(run, n, S, first, G) ==
    /\ run \in [0..n -> S]
    /\ \A i \in 0..n : run[i] = IF i = 0 THEN first ELSE G[<<run[i - 1], i>>]

LEMMA RunExists ==
    ASSUME NEW n \in Nat, NEW S, NEW first \in S, NEW G \in [S \X (1..n) -> S]
    PROVE  \E run : IsRun(run, n, S, first, G)
<1>. DEFINE Good == {k \in 0..n : \E run : IsRun(run, k, S, first, G)}
<1>1. 0 \in Good
  <2>1. IsRun([i \in 0..0 |-> first], 0, S, first, G)  BY DEF IsRun
  <2>. QED  BY <2>1
<1>2. ASSUME NEW m \in 1..n, m - 1 \in Good  PROVE m \in Good
  <2>1. PICK run : IsRun(run, m - 1, S, first, G)  BY <1>2
  <2>. DEFINE next == G[<<run[m - 1], m>>]
              more == [i \in 0..m |-> IF i = m THEN next ELSE run[i]]
  <2>2. next \in S
    <3>1. run[m - 1] \in S  BY <2>1 DEF IsRun
    <3>. QED  BY <3>1
  <2>3. ASSUME NEW i \in 0..m
        PROVE  more[i] \in S /\ more[i] = IF i = 0 THEN first ELSE G[<<more[i - 1], i>>]
    <3>1. CASE i = m
      <4>1. i # 0 /\ i - 1 \in 0..m /\ i - 1 # m  BY <3>1
      <4>2. more[i] = next /\ more[i - 1] = run[i - 1]  BY <3>1, <4>1
      <4>. QED  BY <2>2, <3>1, <4>1, <4>2
    <3>2. CASE i # m
      <4>1. i \in 0..(m - 1) /\ (i # 0 => i - 1 \in 0..m /\ i - 1 # m)  BY <3>2
      <4>2. run[i] \in S /\ run[i] = IF i = 0 THEN first ELSE G[<<run[i - 1], i>>]
        BY <2>1, <4>1 DEF IsRun
      <4>3. more[i] = run[i] /\ (i # 0 => more[i - 1] = run[i - 1])  BY <3>2, <4>1
      <4>. QED  BY <4>2, <4>3
    <3>. QED  BY <3>1, <3>2
  <2>. HIDE DEF next
  <2>4. more \in [0..m -> S]
    <3>1. \A i \in 0..m : (IF i = m THEN next ELSE run[i]) \in S  BY <2>3
    <3>. QED  BY <3>1
  <2>. HIDE DEF more
  <2>5. IsRun(more, m, S, first, G)  BY <2>3, <2>4 DEF IsRun
  <2>. QED  BY <2>5
<1>. HIDE DEF Good
<1>3. Good \in SUBSET (0..n)  BY DEF Good
<1>4. n \in Good  BY <1>1, <1>2, <1>3, Rounds
<1>. QED  BY <1>4 DEF Good

-----------------------------------------------------------------------------
(* The loops of encode                                                      *)

\* f has the bytes after each value of a property, from those before.
ItemRun(run, n, bytes, f, v) ==
    run = [i \in 0..n |-> IF i = 0 THEN bytes
                          ELSE EncodeItem(run[i - 1], f, i - 1, Item(f, v, i))]

\* There is such a run.
LEMMA ItemRunExists ==
    ASSUME NEW n \in Nat, NEW bytes, NEW f, NEW v
    PROVE  \E run : ItemRun(run, n, bytes, f, v)
<1>. DEFINE Good == {k \in 0..n : \E run : ItemRun(run, k, bytes, f, v)}
<1>1. 0 \in Good
  <2>1. ItemRun([i \in 0..0 |-> bytes], 0, bytes, f, v)  BY DEF ItemRun
  <2>. QED  BY <2>1
<1>2. ASSUME NEW m \in 1..n, m - 1 \in Good  PROVE m \in Good
  <2>1. PICK run : ItemRun(run, m - 1, bytes, f, v)  BY <1>2
  <2>. DEFINE next(i) == EncodeItem(run[i - 1], f, i - 1, Item(f, v, i))
              more == [i \in 0..m |-> IF i = m THEN next(m) ELSE run[i]]
  <2>2. ASSUME NEW i \in 0..m
        PROVE  more[i] = IF i = 0 THEN bytes
                         ELSE EncodeItem(more[i - 1], f, i - 1, Item(f, v, i))
    <3>1. run = [j \in 0..(m - 1) |-> IF j = 0 THEN bytes ELSE next(j)]
      BY <2>1 DEF ItemRun
    <3>2. CASE i = m
      <4>1. i # 0 /\ i - 1 \in 0..m /\ i - 1 # m  BY <3>2
      <4>2. more[i] = next(i) /\ more[i - 1] = run[i - 1]  BY <3>2, <4>1
      <4>. QED  BY <4>1, <4>2
    <3>3. CASE i # m
      <4>1. i \in 0..(m - 1) /\ (i # 0 => i - 1 \in 0..m /\ i - 1 # m)  BY <3>3
      <4>2. run[i] = IF i = 0 THEN bytes ELSE next(i)  BY <3>1, <4>1
      <4>3. more[i] = run[i] /\ (i # 0 => more[i - 1] = run[i - 1])  BY <3>3, <4>1
      <4>. QED  BY <4>2, <4>3
    <3>. QED  BY <3>2, <3>3
  <2>. HIDE DEF more
  <2>3. more = [i \in 0..m |-> more[i]]  BY DEF more
  <2>4. ItemRun(more, m, bytes, f, v)  BY <2>2, <2>3 DEF ItemRun
  <2>. QED  BY <2>4
<1>. HIDE DEF Good
<1>3. Good \in SUBSET (0..n)  BY DEF Good
<1>4. n \in Good  BY <1>1, <1>2, <1>3, Rounds
<1>. QED  BY <1>4 DEF Good

\* EncodeField is the last of its run.
LEMMA FieldIsRun ==
    ASSUME NEW bytes, NEW f, NEW v, ItemCount(f, v) \in Nat
    PROVE  \E run : /\ run[0] = bytes
                    /\ \A i \in 1..ItemCount(f, v) :
                          run[i] = EncodeItem(run[i - 1], f, i - 1, Item(f, v, i))
                    /\ EncodeField(bytes, f, v) = run[ItemCount(f, v)]
<1>. DEFINE n == ItemCount(f, v)
            c == CHOOSE run : run = [i \in 0..n |-> IF i = 0 THEN bytes
                                     ELSE EncodeItem(run[i - 1], f, i - 1, Item(f, v, i))]
<1>1. ItemRun(c, n, bytes, f, v)  BY ItemRunExists DEF ItemRun
<1>2. EncodeField(bytes, f, v) = c[n]  BY DEF EncodeField
<1>. HIDE DEF c
<1>3. c[0] = bytes /\ \A i \in 1..n : c[i] = EncodeItem(c[i - 1], f, i - 1, Item(f, v, i))
  BY <1>1 DEF ItemRun
<1>. QED  BY <1>2, <1>3

\* The same of the fields of a definition.
FieldRun(run, n, content, def) ==
    run = [i \in 0..n |-> IF i = 0 THEN Zeros(def.size)
                          ELSE EncodeProperty(run[i - 1], def.fields[i], content)]

LEMMA FieldRunExists ==
    ASSUME NEW n \in Nat, NEW content, NEW def
    PROVE  \E run : FieldRun(run, n, content, def)
<1>. DEFINE Good == {k \in 0..n : \E run : FieldRun(run, k, content, def)}
<1>1. 0 \in Good
  <2>1. FieldRun([i \in 0..0 |-> Zeros(def.size)], 0, content, def)  BY DEF FieldRun
  <2>. QED  BY <2>1
<1>2. ASSUME NEW m \in 1..n, m - 1 \in Good  PROVE m \in Good
  <2>1. PICK run : FieldRun(run, m - 1, content, def)  BY <1>2
  <2>. DEFINE next(i) == EncodeProperty(run[i - 1], def.fields[i], content)
              more == [i \in 0..m |-> IF i = m THEN next(m) ELSE run[i]]
  <2>2. ASSUME NEW i \in 0..m
        PROVE  more[i] = IF i = 0 THEN Zeros(def.size)
                         ELSE EncodeProperty(more[i - 1], def.fields[i], content)
    <3>1. run = [j \in 0..(m - 1) |-> IF j = 0 THEN Zeros(def.size) ELSE next(j)]
      BY <2>1 DEF FieldRun
    <3>2. CASE i = m
      <4>1. i # 0 /\ i - 1 \in 0..m /\ i - 1 # m  BY <3>2
      <4>2. more[i] = next(i) /\ more[i - 1] = run[i - 1]  BY <3>2, <4>1
      <4>. QED  BY <4>1, <4>2
    <3>3. CASE i # m
      <4>1. i \in 0..(m - 1) /\ (i # 0 => i - 1 \in 0..m /\ i - 1 # m)  BY <3>3
      <4>2. run[i] = IF i = 0 THEN Zeros(def.size) ELSE next(i)  BY <3>1, <4>1
      <4>3. more[i] = run[i] /\ (i # 0 => more[i - 1] = run[i - 1])  BY <3>3, <4>1
      <4>. QED  BY <4>2, <4>3
    <3>. QED  BY <3>2, <3>3
  <2>. HIDE DEF more
  <2>3. more = [i \in 0..m |-> more[i]]  BY DEF more
  <2>4. FieldRun(more, m, content, def)  BY <2>2, <2>3 DEF FieldRun
  <2>. QED  BY <2>4
<1>. HIDE DEF Good
<1>3. Good \in SUBSET (0..n)  BY DEF Good
<1>4. n \in Good  BY <1>1, <1>2, <1>3, Rounds
<1>. QED  BY <1>4 DEF Good

\* Encode is the last of its run.
LEMMA EncodeIsRun ==
    ASSUME NEW content, NEW def, Len(def.fields) \in Nat
    PROVE  \E run : /\ run[0] = Zeros(def.size)
                    /\ \A i \in 1..Len(def.fields) :
                          run[i] = EncodeProperty(run[i - 1], def.fields[i], content)
                    /\ Encode(content, def) = run[Len(def.fields)]
<1>. DEFINE n == Len(def.fields)
            c == CHOOSE run : run = [i \in 0..n |-> IF i = 0 THEN Zeros(def.size)
                                     ELSE EncodeProperty(run[i - 1], def.fields[i], content)]
<1>1. FieldRun(c, n, content, def)  BY FieldRunExists DEF FieldRun
<1>2. Encode(content, def) = c[n]  BY DEF Encode
<1>. HIDE DEF c
<1>3. /\ c[0] = Zeros(def.size)
      /\ \A i \in 1..n : c[i] = EncodeProperty(c[i - 1], def.fields[i], content)
  BY <1>1 DEF FieldRun
<1>. QED  BY <1>2, <1>3

-----------------------------------------------------------------------------
(* What encode makes is a block of the definition's size or a panic.        *)

Blocks(n) == [1..n -> Byte]

LEMMA ErrIsNone ==
    /\ Int \subseteq Decoded /\ Seq(Int) \subseteq Decoded /\ Seq(Byte) \subseteq Decoded
    /\ TRUE \in Decoded /\ FALSE \in Decoded
    /\ \A x \in Decoded : x # Err
    /\ \A s \in Seq(Decoded) : s # Err
<1>1. Byte \subseteq Int  BY BaseAssumption DEF Byte
<1>2. Seq(Byte) \subseteq Seq(Int)  BY <1>1, SeqMonotonic
<1>3. Int \subseteq Decoded /\ Seq(Int) \subseteq Decoded  BY DEF Decoded
<1>4. TRUE \in Decoded /\ FALSE \in Decoded  BY Zenon DEF Decoded
<1>5. (\A x \in Decoded : x # Err) /\ \A s \in Seq(Decoded) : s # Err  BY NoBytes
<1>. QED  BY <1>2, <1>3, <1>4, <1>5

LEMMA BlockIsSeq ==
    ASSUME NEW n \in Nat, NEW b \in Blocks(n)
    PROVE  b \in Seq(Byte) /\ Len(b) = n /\ DOMAIN b = 1..n /\ b # Panic /\ b # Err
<1>1. b \in Seq(Byte)  BY DEF Blocks
<1>2. DOMAIN b = 1..n  BY DEF Blocks
<1>3. Len(b) \in Nat /\ DOMAIN b = 1..Len(b)  BY <1>1, LenProperties
<1>4. Len(b) = n  BY <1>2, <1>3
<1>5. b # Panic  BY <1>1, NoBytes
<1>6. b # Err  BY <1>1, ErrIsNone
<1>. QED  BY <1>1, <1>2, <1>4, <1>5, <1>6

LEMMA SeqIsBlock ==
    ASSUME NEW b \in Seq(Byte)
    PROVE  Len(b) \in Nat /\ b \in Blocks(Len(b))
BY LenProperties DEF Blocks

LEMMA ByteType == Base \in Nat /\ Base >= 4 /\ 0 \in Byte /\ Byte \subseteq Nat
BY BaseAssumption DEF Byte

LEMMA SizeType ==
    ASSUME NEW f \in Field
    PROVE  /\ SizeOf(f) \in Nat /\ f.offset \in Nat /\ f.count \in Nat
           /\ \A k \in Nat : k * SizeOf(f) \in Nat
<1>1. TypeSize(f.type) \in Nat  BY BaseAssumption DEF TypeSize
<1>2. SizeOf(f) \in Nat /\ f.offset \in Nat /\ f.count \in Nat
  BY <1>1 DEF SizeOf, Field
<1>. QED  BY <1>2

\* An encoded value, or Err.
Encoded(f, v) == IF f.type \in Codecs THEN EncodeValue(f.type, v) ELSE Err

\* A value is encoded into its place; there is no panic when it has the
\* field's size and its place is in the block.
LEMMA ItemStep ==
    ASSUME NEW n \in Nat, NEW b \in Blocks(n), NEW f \in Field, NEW k \in Nat, NEW v,
           Encoded(f, v) \in {Err} \cup Seq(Byte)
    PROVE  /\ EncodeItem(b, f, k, v) \in Blocks(n) \cup {Panic}
           /\ /\ f.offset + k * SizeOf(f) + SizeOf(f) <= n
              /\ Encoded(f, v) # Err => Len(Encoded(f, v)) = SizeOf(f)
              => EncodeItem(b, f, k, v) \in Blocks(n)
<1>. DEFINE size == SizeOf(f)
            start == f.offset + k * SizeOf(f)
            enc == Encoded(f, v)
            end == Least(start + size, Len(b))
            r == EncodeItem(b, f, k, v)
<1>1. start \in Nat /\ size \in Nat
  <2>1. size \in Nat /\ f.offset \in Nat  BY SizeType
  <2>. HIDE DEF size
  <2>2. k * size \in Nat  BY <2>1
  <2>. QED  BY <2>1, <2>2 DEF size
<1>2. Len(b) = n /\ DOMAIN b = 1..n /\ b # Panic  BY BlockIsSeq
<1>3. r = IF enc = Err THEN b ELSE Copy(b, start, end, enc)
  BY <1>2 DEF EncodeItem, Encoded
<1>4. enc \in {Err} \cup Seq(Byte)  OBVIOUS
<1>5. end = IF start + size <= n THEN start + size ELSE n  BY <1>2 DEF Least
<1>. HIDE DEF r, start, size, enc, end
<1>6. SUFFICES /\ r \in Blocks(n) \cup {Panic}
               /\ start + size <= n /\ (enc # Err => Len(enc) = size) => r \in Blocks(n)
  BY DEF r, start, size, enc
<1>7. CASE enc = Err
  BY <1>3, <1>7
<1>8. CASE enc # Err
  <2>1. end \in Nat /\ end <= n  BY <1>1, <1>5
  <2>2. Len(enc) \in Nat /\ \A j \in 1..Len(enc) : enc[j] \in Byte  BY <1>4, <1>8
  <2>3. CASE end < start \/ Len(enc) < end - start
    <3>1. r = Panic  BY <1>3, <1>8, <2>3 DEF Copy
    <3>2. ~(start + size <= n /\ Len(enc) = size)
      BY <1>1, <1>5, <2>2, <2>3
    <3>. QED  BY <3>1, <3>2, <1>8
  <2>4. CASE ~(end < start \/ Len(enc) < end - start)
    <3>1. r = [i \in 1..n |-> IF i \in (start + 1)..end THEN enc[i - start] ELSE b[i]]
      BY <1>2, <1>3, <1>8, <2>4 DEF Copy
    <3>2. ASSUME NEW i \in 1..n
          PROVE  (IF i \in (start + 1)..end THEN enc[i - start] ELSE b[i]) \in Byte
      <4>1. CASE i \in (start + 1)..end
        <5>1. i - start \in 1..Len(enc)  BY <1>1, <2>1, <2>2, <2>4, <4>1
        <5>. QED  BY <2>2, <4>1, <5>1
      <4>2. CASE i \notin (start + 1)..end
        BY <4>2 DEF Blocks
      <4>. QED  BY <4>1, <4>2
    <3>3. r \in Blocks(n)  BY <3>1, <3>2 DEF Blocks
    <3>. QED  BY <3>3
  <2>. QED  BY <2>3, <2>4
<1>. QED  BY <1>7, <1>8

\* The n-th of the values of a property begins and ends before the last ends.
LEMMA Products ==
    ASSUME NEW k \in Nat, NEW c \in Nat, NEW m \in Nat, k < c
    PROVE  k * m + m <= c * m
<1>1. c * m = (k + 1) * m + (c - (k + 1)) * m  OBVIOUS
<1>2. (c - (k + 1)) * m >= 0  OBVIOUS
<1>3. (k + 1) * m = k * m + m  OBVIOUS
<1>. QED  BY <1>1, <1>2, <1>3

\* How many values are encoded, each with a type.
LEMMA ItemTypes ==
    ASSUME NEW f \in Field, NEW content, HasType(f, content), f.name \in DOMAIN content
    PROVE  LET v == content[f.name] IN
           /\ ItemCount(f, v) \in Nat /\ ItemCount(f, v) <= f.count
           /\ \A i \in 1..ItemCount(f, v) : Encoded(f, Item(f, v, i)) \in {Err} \cup Seq(Byte)
<1>1. f.count \in Nat  BY SizeType
<1>2. f.count # 1 => Len(content[f.name]) \in Nat  BY DEF HasType
<1>. QED  BY <1>1, <1>2 DEF HasType, Encoded, ItemCount, Least

\* Fits of a field for any object and size of the block.
FitsIn(f, content, n) ==
    /\ f.type \in Codecs
    /\ f.offset + f.count * SizeOf(f) <= n
    /\ f.name \in DOMAIN content =>
          LET v == content[f.name] IN
          \A i \in 1..ItemCount(f, v) :
              LET enc == EncodeValue(f.type, Item(f, v, i))
              IN  enc # Err => Len(enc) = SizeOf(f)

LEMMA PropertyStep ==
    ASSUME NEW n \in Nat, NEW b \in Blocks(n) \cup {Panic}, NEW f \in Field, NEW content,
           HasType(f, content)
    PROVE  /\ EncodeProperty(b, f, content) \in Blocks(n) \cup {Panic}
           /\ b \in Blocks(n) /\ FitsIn(f, content, n)
              => EncodeProperty(b, f, content) \in Blocks(n)
<1>1. CASE f.name \notin DOMAIN content
  BY <1>1 DEF EncodeProperty
<1>2. CASE f.name \in DOMAIN content
  <2>. DEFINE v == content[f.name]
              m == ItemCount(f, v)
  <2>1. /\ m \in Nat /\ m <= f.count
        /\ \A i \in 1..m : Encoded(f, Item(f, v, i)) \in {Err} \cup Seq(Byte)
    BY <1>2, ItemTypes
  <2>2. PICK run : /\ run[0] = b
                   /\ \A i \in 1..m : run[i] = EncodeItem(run[i - 1], f, i - 1, Item(f, v, i))
                   /\ EncodeField(b, f, v) = run[m]
    BY <2>1, FieldIsRun
  <2>3. EncodeProperty(b, f, content) = run[m]  BY <1>2, <2>2 DEF EncodeProperty
  <2>4. run[m] \in Blocks(n) \cup {Panic}
    <3>. DEFINE Good == {i \in 0..m : run[i] \in Blocks(n) \cup {Panic}}
    <3>1. ASSUME NEW i \in 1..m, i - 1 \in Good  PROVE i \in Good
      <4>1. CASE run[i - 1] = Panic
        <5>1. run[i] = Panic  BY <2>2, <3>1, <4>1 DEF EncodeItem
        <5>. QED  BY <5>1
      <4>2. CASE run[i - 1] \in Blocks(n)
        <5>1. i - 1 \in Nat  OBVIOUS
        <5>2. EncodeItem(run[i - 1], f, i - 1, Item(f, v, i)) \in Blocks(n) \cup {Panic}
          BY <2>1, <4>2, <5>1, ItemStep
        <5>. QED  BY <2>2, <5>2
      <4>. QED  BY <3>1, <4>1, <4>2
    <3>2. 0 \in Good  BY <2>1, <2>2
    <3>. HIDE DEF m, v
    <3>3. Good \in SUBSET (0..m)  OBVIOUS
    <3>. HIDE DEF Good
    <3>4. m \in Good  BY <2>1, <3>1, <3>2, <3>3, Rounds
    <3>. QED  BY <3>4 DEF Good
  <2>5. ASSUME b \in Blocks(n), FitsIn(f, content, n)  PROVE run[m] \in Blocks(n)
    <3>. DEFINE Good == {i \in 0..m : run[i] \in Blocks(n)}
    <3>1. ASSUME NEW i \in 1..m, i - 1 \in Good  PROVE i \in Good
      <4>1. i - 1 \in Nat /\ i - 1 < f.count  BY <2>1, SizeType
      <4>2. f.offset + (i - 1) * SizeOf(f) + SizeOf(f) <= n
        <5>. DEFINE k == i - 1
                    size == SizeOf(f)
        <5>1. size \in Nat /\ f.count \in Nat /\ f.offset \in Nat  BY SizeType
        <5>2. k \in Nat /\ k < f.count  BY <4>1
        <5>3. f.offset + f.count * size <= n  BY <2>5 DEF FitsIn
        <5>. HIDE DEF k, size
        <5>4. k * size + size <= f.count * size  BY <5>1, <5>2, Products
        <5>5. k * size \in Nat /\ f.count * size \in Nat  BY <5>1, <5>2
        <5>6. f.offset + k * size + size <= n  BY <5>1, <5>3, <5>4, <5>5
        <5>. QED  BY <5>6 DEF k, size
      <4>3. Encoded(f, Item(f, v, i)) # Err => Len(Encoded(f, Item(f, v, i))) = SizeOf(f)
        BY <1>2, <2>5 DEF FitsIn, Encoded
      <4>4. EncodeItem(run[i - 1], f, i - 1, Item(f, v, i)) \in Blocks(n)
        BY <2>1, <3>1, <4>1, <4>2, <4>3, ItemStep
      <4>. QED  BY <2>2, <4>4
    <3>2. 0 \in Good  BY <2>1, <2>2, <2>5
    <3>. HIDE DEF m, v
    <3>3. Good \in SUBSET (0..m)  OBVIOUS
    <3>. HIDE DEF Good
    <3>4. m \in Good  BY <2>1, <3>1, <3>2, <3>3, Rounds
    <3>. QED  BY <3>4 DEF Good
  <2>. QED  BY <2>3, <2>4, <2>5
<1>. QED  BY <1>1, <1>2

\* encode makes a block of the definition's size or panics; it does not when
\* all fields have the bytes their values take.
LEMMA EncodeTypes ==
    ASSUME NEW def, NEW content, def.size \in Nat, def.fields \in Seq(Field),
           \A i \in DOMAIN def.fields : HasType(def.fields[i], content)
    PROVE  /\ Encode(content, def) \in Blocks(def.size) \cup {Panic}
           /\ (\A i \in DOMAIN def.fields : FitsIn(def.fields[i], content, def.size))
              => Encode(content, def) \in Blocks(def.size)
<1>. DEFINE m == Len(def.fields)
            n == def.size
<1>1. m \in Nat /\ DOMAIN def.fields = 1..m /\ \A i \in 1..m : def.fields[i] \in Field
  BY LenProperties
<1>2. PICK run : /\ run[0] = Zeros(n)
                 /\ \A i \in 1..m : run[i] = EncodeProperty(run[i - 1], def.fields[i], content)
                 /\ Encode(content, def) = run[m]
  BY <1>1, EncodeIsRun
<1>3. Zeros(n) \in Blocks(n)  BY ByteType DEF Zeros, Blocks
<1>4. run[m] \in Blocks(n) \cup {Panic}
  <2>. DEFINE Good == {i \in 0..m : run[i] \in Blocks(n) \cup {Panic}}
  <2>1. ASSUME NEW i \in 1..m, i - 1 \in Good  PROVE i \in Good
    BY <1>1, <1>2, <2>1, PropertyStep
  <2>2. 0 \in Good  BY <1>1, <1>2, <1>3
  <2>. HIDE DEF m
  <2>3. Good \in SUBSET (0..m)  OBVIOUS
  <2>. HIDE DEF Good
  <2>4. m \in Good  BY <1>1, <2>1, <2>2, <2>3, Rounds
  <2>. QED  BY <2>4 DEF Good
<1>5. ASSUME \A i \in DOMAIN def.fields : FitsIn(def.fields[i], content, n)
      PROVE  run[m] \in Blocks(n)
  <2>. DEFINE Good == {i \in 0..m : run[i] \in Blocks(n)}
  <2>1. ASSUME NEW i \in 1..m, i - 1 \in Good  PROVE i \in Good
    BY <1>1, <1>2, <1>5, <2>1, PropertyStep
  <2>2. 0 \in Good  BY <1>1, <1>2, <1>3
  <2>. HIDE DEF m
  <2>3. Good \in SUBSET (0..m)  OBVIOUS
  <2>. HIDE DEF Good
  <2>4. m \in Good  BY <1>1, <2>1, <2>2, <2>3, Rounds
  <2>. QED  BY <2>4 DEF Good
<1>. QED  BY <1>2, <1>4, <1>5

-----------------------------------------------------------------------------
(* What each step has made of the date or the object.                       *)

ConvInv ==
    /\ object = Nothing => data \in Dates /\ block = Nothing
    /\ object # Nothing => \E k \in DOMAIN Objects : object = Objects[k]
    /\ object # Nothing /\ data # Nothing => data = Encode(object.content, object.def)
    /\ time # Nothing => object = Nothing /\ time = ExtractS7DateTime(data, 0)
    /\ block # Nothing => /\ data \notin {Nothing, Panic}
                          /\ block = Deployed(PlcBlock, data, object.deploy)
    /\ values # Nothing =>
          /\ block \notin {Nothing, Panic}
          /\ LET full == Watched(block, object.watch)
             IN  values = IF full \in {Err, Panic} THEN full ELSE DecodeAsMap(full, object.def)
    /\ schema # Nothing =>
          /\ object # Nothing /\ data \notin {Nothing, Panic}
          /\ schema = [bytes  |-> SchemaEncode(object.content, Schema(object.def)),
                       values |-> SchemaDecode(data, Schema(object.def))]

LEMMA InitConv == Init => ConvInv
BY NothingAssumption DEF Init, ConvInv

\* Every step keeps it.
LEMMA StepConv == ConvInv /\ [Next]_vars => ConvInv'
<1>. SUFFICES ASSUME ConvInv, [Next]_vars PROVE ConvInv'
  OBVIOUS
<1>1. CASE ReadTime
  BY <1>1 DEF ReadTime, ConvInv
<1>2. CASE EncodeObject
  BY <1>2 DEF EncodeObject, ConvInv
<1>3. CASE DeployObject
  BY <1>3 DEF DeployObject, ConvInv
<1>4. CASE ReadObject
  BY <1>4 DEF ReadObject, ConvInv
<1>5. CASE UseDataBlock
  BY <1>5 DEF UseDataBlock, ConvInv
<1>6. CASE UNCHANGED vars
  BY <1>6 DEF vars, ConvInv
<1>. QED  BY <1>1, <1>2, <1>3, <1>4, <1>5, <1>6 DEF Next

THEOREM ConvInvHolds == Spec => []ConvInv
BY InitConv, StepConv, PTL DEF Spec

\* The types of an object.
LEMMA ObjectTypes ==
    ASSUME ConvInv, object # Nothing
    PROVE  /\ object.def.size \in Nat /\ object.def.fields \in Seq(Field)
           /\ object.deploy.offset \in Nat /\ object.deploy.length \in Nat
           /\ object.watch.offset \in Nat /\ object.watch.blockSize \in Nat
           /\ \A i \in DOMAIN object.def.fields : HasType(object.def.fields[i], object.content)
           /\ FieldSet(object.def) \subseteq Field
<1>1. PICK k \in DOMAIN Objects : object = Objects[k]  BY DEF ConvInv
<1>2. /\ object.def.size \in Nat /\ object.def.fields \in Seq(Field)
      /\ object.deploy.offset \in Nat /\ object.deploy.length \in Nat
      /\ object.watch.offset \in Nat /\ object.watch.blockSize \in Nat
      /\ \A i \in DOMAIN object.def.fields : HasType(object.def.fields[i], object.content)
  BY <1>1, ObjectsAssumption
<1>3. \A i \in DOMAIN object.def.fields : object.def.fields[i] \in Field
  <2>1. DOMAIN object.def.fields = 1..Len(object.def.fields)  BY <1>2, LenProperties
  <2>. QED  BY <1>2, <2>1, ElementOfSeq
<1>. QED  BY <1>2, <1>3 DEF FieldSet

-----------------------------------------------------------------------------
(* What a field is decoded to depends on the bytes of its place alone.      *)

\* Of items that can be decoded up to one and not from there on, those up to it
\* are kept.
LEMMA ReadableIs ==
    ASSUME NEW c \in Nat, NEW items, DOMAIN items = 1..c, items = [i \in 1..c |-> items[i]],
           NEW m \in 0..c,
           \A i \in 1..c : items[i] # Err <=> i <= m
    PROVE  Readable(items) = IF m = 0 THEN Err ELSE [i \in 1..m |-> items[i]]
<1>. DEFINE T == {items[i] : i \in 1..c}
            S == Seq(T)
            Is(p) == p = [i \in 0..Len(items) |->
                            IF i = 0 THEN <<>>
                            ELSE IF items[i] = Err THEN p[i - 1] ELSE Append(p[i - 1], items[i])]
            r == CHOOSE p : Is(p)
            G == [p \in S \X (1..c) |->
                    IF items[p[2]] = Err THEN p[1] ELSE Append(p[1], items[p[2]])]
<1>1. Len(items) = c /\ \A i \in 1..c : items[i] \in T
  <2>1. items \in [1..c -> T]  OBVIOUS
  <2>2. items \in Seq(T)  BY <2>1
  <2>. HIDE DEF T
  <2>3. Len(items) \in Nat /\ DOMAIN items = 1..Len(items)  BY <2>2, LenProperties
  <2>4. Len(items) = c  BY <2>3
  <2>. QED  BY <2>4 DEF T
<1>. HIDE DEF T
<1>2. PICK run : IsRun(run, c, S, <<>>, G)
  <2>1. G \in [S \X (1..c) -> S] /\ <<>> \in S  BY <1>1
  <2>. HIDE DEF G, S
  <2>. QED  BY <2>1, RunExists
<1>3. Is(run)
  <2>1. \A k \in 1..c : <<run[k - 1], k>> \in S \X (1..c)
    <3>. HIDE DEF S
    <3>. QED  BY <1>2 DEF IsRun
  <2>2. \A k \in 1..c : G[<<run[k - 1], k>>] = IF items[k] = Err THEN run[k - 1]
                                               ELSE Append(run[k - 1], items[k])
    <3>. HIDE DEF S
    <3>. QED  BY <2>1
  <2>. HIDE DEF G, S
  <2>3. ASSUME NEW k \in 0..c
        PROVE  run[k] = IF k = 0 THEN <<>> ELSE IF items[k] = Err THEN run[k - 1]
                        ELSE Append(run[k - 1], items[k])
    <3>1. CASE k = 0  BY <1>2, <3>1 DEF IsRun
    <3>2. CASE k # 0
      <4>1. k \in 1..c  BY <3>2
      <4>. QED  BY <1>2, <2>2, <3>2, <4>1 DEF IsRun
    <3>. QED  BY <3>1, <3>2
  <2>4. run = [k \in 0..c |-> run[k]]  BY <1>2 DEF IsRun
  <2>. QED  BY <1>1, <2>3, <2>4
<1>4. Is(r)  BY <1>3
<1>5. Readable(items) = IF r[c] = <<>> THEN Err ELSE r[c]  BY <1>1 DEF Readable
<1>. HIDE DEF r
<1>6. r[0] = <<>> /\ \A i \in 1..c : r[i] = IF items[i] = Err THEN r[i - 1]
                                            ELSE Append(r[i - 1], items[i])
  <2>1. \A i \in 0..c : r[i] = IF i = 0 THEN <<>> ELSE IF items[i] = Err THEN r[i - 1]
                               ELSE Append(r[i - 1], items[i])
    BY <1>1, <1>4
  <2>2. 0 \in 0..c /\ \A i \in 1..c : i \in 0..c /\ i # 0  OBVIOUS
  <2>. QED  BY <2>1, <2>2
<1>. DEFINE kept(k) == [i \in 1..k |-> items[i]]
<1>7. \A k \in 0..m : kept(k) \in Seq(T) /\ Len(kept(k)) = k
  <2>1. TAKE k \in 0..m
  <2>. DEFINE s == kept(k)
  <2>2. \A i \in 1..k : i \in 1..c  OBVIOUS
  <2>3. \A i \in 1..k : items[i] \in T  BY <1>1, <2>2
  <2>4. s \in [1..k -> T]  BY <2>3
  <2>5. k \in Nat  OBVIOUS
  <2>. HIDE DEF s
  <2>6. s \in Seq(T) /\ DOMAIN s = 1..k  BY <2>4, <2>5
  <2>7. Len(s) \in Nat /\ DOMAIN s = 1..Len(s)  BY <2>6, LenProperties
  <2>8. Len(s) = k  BY <2>5, <2>6, <2>7
  <2>. QED  BY <2>6, <2>8 DEF s
<1>. DEFINE Good == {k \in 0..c : r[k] = kept(IF k <= m THEN k ELSE m)}
<1>8. 0 \in Good
  <2>1. kept(0) = <<>>  OBVIOUS
  <2>. QED  BY <1>6, <2>1
<1>9. ASSUME NEW k \in 1..c, k - 1 \in Good  PROVE k \in Good
  <2>1. CASE k > m
    <3>1. items[k] = Err  BY <2>1
    <3>2. (k - 1 <= m => k - 1 = m) /\ ~(k <= m)  BY <2>1
    <3>3. r[k] = r[k - 1]  BY <1>6, <3>1
    <3>4. r[k - 1] = kept(m)
      <4>1. r[k - 1] = kept(IF k - 1 <= m THEN k - 1 ELSE m)  BY <1>9
      <4>2. (IF k - 1 <= m THEN k - 1 ELSE m) = m  BY <3>2
      <4>. QED  BY <4>1, <4>2
    <3>. QED  BY <3>2, <3>3, <3>4
  <2>2. CASE ~(k > m)
    <3>1. k <= m /\ k - 1 <= m /\ k \in 0..m /\ k - 1 \in 0..m  BY <2>2
    <3>2. items[k] # Err /\ items[k] \in T  BY <1>1, <3>1
    <3>. DEFINE s == kept(k - 1)
                t == kept(k)
                u == Append(s, items[k])
    <3>3. r[k] = u
      <4>1. r[k - 1] = s
        <5>1. r[k - 1] = kept(IF k - 1 <= m THEN k - 1 ELSE m)  BY <1>9
        <5>2. (IF k - 1 <= m THEN k - 1 ELSE m) = k - 1  BY <3>1
        <5>. QED  BY <5>1, <5>2
      <4>. QED  BY <1>6, <3>2, <4>1
    <3>4. s \in Seq(T) /\ Len(s) = k - 1 /\ t \in Seq(T) /\ Len(t) = k  BY <1>7, <3>1
    <3>5. /\ \A i \in 1..(k - 1) : s[i] = items[i]
          /\ \A i \in 1..k : t[i] = items[i]
      OBVIOUS
    <3>. HIDE DEF s, t
    <3>6. /\ u \in Seq(T) /\ Len(u) = k
          /\ \A i \in 1..k : u[i] = IF i = k THEN items[k] ELSE s[i]
      <4>1. /\ u \in Seq(T) /\ Len(u) = Len(s) + 1 /\ u[Len(s) + 1] = items[k]
            /\ \A i \in 1..Len(s) : u[i] = s[i]
        BY <3>2, <3>4, AppendProperties
      <4>2. Len(s) + 1 = k  BY <3>4
      <4>. QED  BY <3>4, <4>1, <4>2
    <3>. HIDE DEF u
    <3>7. ASSUME NEW i \in 1..k  PROVE u[i] = t[i]
      <4>1. u[i] = IF i = k THEN items[k] ELSE s[i]  BY <3>6
      <4>2. i # k => i \in 1..(k - 1)  OBVIOUS
      <4>. QED  BY <3>5, <4>1, <4>2
    <3>8. u = t  BY <3>4, <3>6, <3>7, SeqEqual
    <3>. QED  BY <3>1, <3>3, <3>8 DEF t
  <2>. QED  BY <2>1, <2>2
<1>. HIDE DEF Good
<1>10. Good \in SUBSET (0..c)  BY DEF Good
<1>11. c \in Good  BY <1>8, <1>9, <1>10, Rounds
<1>12. r[c] = kept(m)
  <2>1. (IF c <= m THEN c ELSE m) = m  OBVIOUS
  <2>. QED  BY <1>11, <2>1 DEF Good
<1>13. kept(m) = <<>> <=> m = 0
  <2>1. m \in 0..m  OBVIOUS
  <2>2. Len(kept(m)) = m /\ kept(m) \in Seq(T)  BY <1>7, <2>1
  <2>. DEFINE s == kept(m)
  <2>. HIDE DEF s
  <2>3. s = <<>> <=> m = 0  BY <2>2, EmptySeq DEF s
  <2>. QED  BY <2>3 DEF s
<1>. QED  BY <1>5, <1>12, <1>13

\* From no bytes nothing is decoded.
LEMMA DecodeNothing ==
    ASSUME NEW t \in Codecs
    PROVE  DecodeValue(t, <<>>) = Err
<1>1. CASE t \in DOMAIN Numbers
  <2>1. Numbers[t].width > 0  BY <1>1 DEF Numbers
  <2>2. DecodeNumber(t, <<>>) = Err  BY <2>1 DEF DecodeNumber
  <2>3. t \notin {"boolean", "ip", "string", "wstring", "char", "datetime", "longAsDateTime"}
    BY <1>1 DEF Numbers
  <2>. QED  BY <1>1, <2>2, <2>3 DEF DecodeValue
<1>2. CASE t \notin DOMAIN Numbers
  <2>1. t \in {"boolean", "ip", "string", "wstring", "char", "datetime", "longAsDateTime"}
    BY <1>2 DEF Codecs
  <2>. QED
    BY <1>2, <2>1 DEF DecodeValue, DecodeString, DecodeWString, DecodeDateTime, DecodeLongAsDateTime
<1>. QED  BY <1>1, <1>2

\* Slices of blocks that have the same bytes there.
LEMMA SameSlice ==
    ASSUME NEW m \in Nat, NEW n \in Nat, NEW s \in Blocks(m), NEW t \in Blocks(n),
           NEW a \in Nat, NEW e \in Nat, e <= m, e <= n,
           \A j \in a..(e - 1) : s[j + 1] = t[j + 1]
    PROVE  SubSeq(s, a + 1, e) = SubSeq(t, a + 1, e)
<1>1. \A i \in (a + 1)..e : s[i] \in Byte /\ t[i] \in Byte /\ s[i] = t[i]
  <2>1. TAKE i \in (a + 1)..e
  <2>2. i - 1 \in a..(e - 1) /\ i \in 1..m /\ i \in 1..n /\ i = (i - 1) + 1  OBVIOUS
  <2>. QED  BY <2>2 DEF Blocks
<1>2. /\ SubSeq(s, a + 1, e) \in Seq(Byte) /\ SubSeq(t, a + 1, e) \in Seq(Byte)
      /\ Len(SubSeq(s, a + 1, e)) = Len(SubSeq(t, a + 1, e))
      /\ \A i \in 1..Len(SubSeq(s, a + 1, e)) :
            SubSeq(s, a + 1, e)[i] = SubSeq(t, a + 1, e)[i]
  <2>. DEFINE k == IF a + 1 <= e THEN e - (a + 1) + 1 ELSE 0
  <2>1. /\ SubSeq(s, a + 1, e) \in Seq(Byte) /\ Len(SubSeq(s, a + 1, e)) = k
        /\ \A i \in 1..(e - (a + 1) + 1) : SubSeq(s, a + 1, e)[i] = s[a + 1 + i - 1]
    BY <1>1, SubSeqProperties
  <2>2. /\ SubSeq(t, a + 1, e) \in Seq(Byte) /\ Len(SubSeq(t, a + 1, e)) = k
        /\ \A i \in 1..(e - (a + 1) + 1) : SubSeq(t, a + 1, e)[i] = t[a + 1 + i - 1]
    BY <1>1, SubSeqProperties
  <2>3. ASSUME NEW i \in 1..k
        PROVE  i \in 1..(e - (a + 1) + 1) /\ a + 1 + i - 1 \in (a + 1)..e
    OBVIOUS
  <2>. QED  BY <1>1, <2>1, <2>2, <2>3
<1>. QED  BY <1>2, SeqEqual

\* One value.
LEMMA SameValue ==
    ASSUME NEW m \in Nat, NEW n \in Nat, NEW s \in Blocks(m), NEW t \in Blocks(n),
           NEW ty, NEW a \in Nat, NEW e \in Nat, a <= e,
           (e <= m /\ e <= n) \/ e = a,
           \A j \in a..(e - 1) : s[j + 1] = t[j + 1]
    PROVE  DecodeSlice(s, ty, a, e) = DecodeSlice(t, ty, a, e)
<1>1. Len(s) = m /\ Len(t) = n  BY BlockIsSeq
<1>2. CASE e <= m /\ e <= n
  <2>1. Least(e, m) = e /\ Least(e, n) = e  BY <1>2 DEF Least
  <2>2. SubSeq(s, a + 1, e) = SubSeq(t, a + 1, e)  BY <1>2, SameSlice
  <2>. QED  BY <1>1, <2>1, <2>2 DEF DecodeSlice
<1>3. CASE e = a
  <2>1. Least(e, m) \in Int /\ Least(e, n) \in Int /\ Least(e, m) < a + 1 /\ Least(e, n) < a + 1
    BY <1>3 DEF Least
  <2>2. SubSeq(s, a + 1, Least(e, m)) = <<>> /\ SubSeq(t, a + 1, Least(e, n)) = <<>>
    BY <2>1, SubSeqEmpty
  <2>. QED  BY <1>1, <2>2 DEF DecodeSlice
<1>. QED  BY <1>2, <1>3

\* The field.
LEMMA SameField ==
    ASSUME NEW m \in Nat, NEW n \in Nat, NEW s \in Blocks(m), NEW t \in Blocks(n),
           NEW f \in Field,
           \A j \in Place(f) : j < m /\ j < n /\ s[j + 1] = t[j + 1]
    PROVE  DecodeField(s, f) = DecodeField(t, f)
<1>. DEFINE size == SizeOf(f)
            from == f.offset
            c == f.count
            start(i) == from + (i - 1) * size
<1>1. size \in Nat /\ from \in Nat /\ c \in Nat  BY SizeType
<1>2. Len(s) = m /\ Len(t) = n  BY BlockIsSeq
<1>3. Place(f) = from..(from + c * size - 1)  BY DEF Place
<1>. HIDE DEF size, from, c
<1>4. CASE c = 0
  <2>1. ASSUME NEW b  PROVE DecodeArray(b, f) = Err
    <3>. DEFINE item(i) == IF start(i) >= Len(b) THEN Err
                           ELSE DecodeSlice(b, f.type, start(i), start(i) + size)
                items == [i \in 1..c |-> item(i)]
    <3>1. DecodeArray(b, f) = Readable(items)  BY DEF DecodeArray, c, size, from
    <3>. HIDE DEF item
    <3>2. DOMAIN items = 1..c /\ items = [i \in 1..c |-> items[i]]  OBVIOUS
    <3>3. 0 \in 0..c /\ \A i \in 1..c : items[i] # Err <=> i <= 0  BY <1>1, <1>4
    <3>. HIDE DEF items
    <3>. QED  BY <1>1, <3>1, <3>2, <3>3, ReadableIs
  <2>. QED  BY <1>4, <2>1 DEF DecodeField, c
<1>5. CASE size = 0 /\ c # 0
  <2>1. ASSUME NEW b \in Seq(Byte), NEW a \in Nat
        PROVE  DecodeSlice(b, f.type, a, a + size) = Err
    <3>2. Least(a + size, Len(b)) \in Int /\ Least(a + size, Len(b)) < a + 1
      BY <1>5, LenProperties DEF Least
    <3>3. SubSeq(b, a + 1, Least(a + size, Len(b))) = <<>>  BY <3>2, SubSeqEmpty
    <3>4. f.type \in Codecs => DecodeValue(f.type, <<>>) = Err  BY DecodeNothing
    <3>. QED  BY <3>3, <3>4 DEF DecodeSlice
  <2>2. ASSUME NEW b \in Seq(Byte)  PROVE DecodeField(b, f) = Err
    <3>1. DecodeArray(b, f) = Err
      <4>1. ASSUME NEW i \in 1..c
            PROVE  DecodeSlice(b, f.type, start(i), start(i) + size) = Err
        <5>1. start(i) \in Nat  BY <1>1, <1>5
        <5>. HIDE DEF start
        <5>. QED  BY <2>1, <5>1
      <4>. DEFINE item(i) == IF start(i) >= Len(b) THEN Err
                             ELSE DecodeSlice(b, f.type, start(i), start(i) + size)
                  items == [i \in 1..c |-> item(i)]
      <4>2. DecodeArray(b, f) = Readable(items)  BY DEF DecodeArray, c, size, from
      <4>3. \A i \in 1..c : item(i) = Err  BY <4>1
      <4>. HIDE DEF item
      <4>4. DOMAIN items = 1..c /\ items = [i \in 1..c |-> items[i]]  OBVIOUS
      <4>5. 0 \in 0..c /\ \A i \in 1..c : items[i] # Err <=> i <= 0  BY <1>1, <4>3
      <4>. HIDE DEF items
      <4>. QED  BY <1>1, <4>2, <4>4, <4>5, ReadableIs
    <3>2. DecodeSlice(b, f.type, from, from + size) = Err  BY <1>1, <2>1
    <3>. QED  BY <3>1, <3>2 DEF DecodeField, from, size
  <2>3. s \in Seq(Byte) /\ t \in Seq(Byte)  BY BlockIsSeq
  <2>. QED  BY <2>2, <2>3
<1>6. CASE size # 0 /\ c # 0
  <2>1. ASSUME NEW i \in 1..c
        PROVE  /\ start(i) \in Nat /\ start(i) + size \in Nat
               /\ start(i) + size <= from + c * size
    <3>1. i - 1 \in Nat /\ i - 1 < c  BY <1>1
    <3>2. (i - 1) * size + size <= c * size  BY <1>1, <3>1, Products
    <3>3. (i - 1) * size \in Nat /\ c * size \in Nat  BY <1>1, <3>1
    <3>. QED  BY <1>1, <3>2, <3>3
  <2>2. c * size \in Nat /\ c * size >= size
    <3>1. 0 * size + size <= c * size  BY <1>1, <1>6, Products
    <3>. QED  BY <1>1, <3>1
  <2>3. from + c * size - 1 \in Place(f)  BY <1>1, <1>3, <1>6, <2>2
  <2>4. from + c * size <= m /\ from + c * size <= n /\ from < m /\ from < n
    BY <1>1, <1>6, <2>2, <2>3
  <2>5. ASSUME NEW i \in 1..c
        PROVE  /\ DecodeSlice(s, f.type, start(i), start(i) + size)
                    = DecodeSlice(t, f.type, start(i), start(i) + size)
               /\ start(i) < m /\ start(i) < n
    <3>. DEFINE a == start(i)
                e == start(i) + size
    <3>1. /\ a \in Nat /\ e \in Nat /\ a <= e /\ e <= m /\ e <= n /\ from <= a /\ a < m /\ a < n
          /\ e <= from + c * size
      <4>1. (i - 1) * size \in Nat  BY <1>1
      <4>. QED  BY <1>1, <1>6, <2>1, <2>2, <2>4, <4>1
    <3>. HIDE DEF a, e
    <3>2. \A j \in a..(e - 1) : j \in Place(f)  BY <1>1, <1>3, <2>2, <3>1
    <3>3. \A j \in a..(e - 1) : s[j + 1] = t[j + 1]  BY <3>2
    <3>4. DecodeSlice(s, f.type, a, e) = DecodeSlice(t, f.type, a, e)
      BY <3>1, <3>3, SameValue
    <3>. QED  BY <3>1, <3>4 DEF a, e
  <2>6. DecodeSlice(s, f.type, from, from + size) = DecodeSlice(t, f.type, from, from + size)
    <3>1. 1 \in 1..c /\ start(1) = from  BY <1>1, <1>6
    <3>. QED  BY <2>5, <3>1
  <2>7. DecodeArray(s, f) = DecodeArray(t, f)
    <3>. DEFINE items(b, l) == [i \in 1..c |-> IF start(i) >= l THEN Err
                                    ELSE DecodeSlice(b, f.type, start(i), start(i) + size)]
    <3>1. items(s, m) = items(t, n)
      <4>1. ASSUME NEW i \in 1..c
            PROVE  (IF start(i) >= m THEN Err
                    ELSE DecodeSlice(s, f.type, start(i), start(i) + size))
                 = (IF start(i) >= n THEN Err
                    ELSE DecodeSlice(t, f.type, start(i), start(i) + size))
        <5>1. start(i) \in Nat /\ start(i) < m /\ start(i) < n  BY <2>1, <2>5
        <5>2. DecodeSlice(s, f.type, start(i), start(i) + size)
                = DecodeSlice(t, f.type, start(i), start(i) + size)
          BY <2>5
        <5>. HIDE DEF start
        <5>. QED  BY <5>1, <5>2
      <4>. QED  BY <4>1
    <3>2. DecodeArray(s, f) = Readable(items(s, m)) /\ DecodeArray(t, f) = Readable(items(t, n))
      BY <1>2 DEF DecodeArray, c, size, from
    <3>. QED  BY <3>1, <3>2
  <2>8. /\ DecodeField(s, f) = IF f.count = 1 THEN DecodeSlice(s, f.type, from, from + size)
                              ELSE DecodeArray(s, f)
        /\ DecodeField(t, f) = IF f.count = 1 THEN DecodeSlice(t, f.type, from, from + size)
                              ELSE DecodeArray(t, f)
    <3>1. ~(from >= m) /\ ~(from >= n)  BY <1>1, <2>4
    <3>. QED  BY <1>2, <3>1 DEF DecodeField, from, size
  <2>. QED  BY <2>6, <2>7, <2>8
<1>. QED  BY <1>4, <1>5, <1>6

-----------------------------------------------------------------------------
(* What a deployment does not cover stays.                                  *)

\* Offsets in a block that can be addressed are not narrowed.
LEMMA NotNarrowed ==
    ASSUME NEW k \in Nat, k < Base * Base
    PROVE  k % (Base * Base) = k
<1>. DEFINE w == Base * Base
<1>1. w \in Nat /\ w > 0  BY ByteType
<1>2. k < w  OBVIOUS
<1>. HIDE DEF w
<1>3. k % w = k  BY <1>1, <1>2
<1>. QED  BY <1>3 DEF w

\* The bytes that a deployment of n bytes is about; the PLC takes them.
Chosen(d, n) == d.offset..((IF d.length = 0 THEN n ELSE d.offset + d.length) - 1)

Takes(d, n) == \A j \in Chosen(d, n) : j < n => j < Len(PlcBlock)

\* The bytes outside the slice are those of before, those of a slice that the PLC
\* takes are the object's.
LEMMA DeployedBytes ==
    ASSUME NEW n \in Nat, NEW b \in Blocks(n), n < Base * Base,
           NEW d, d.offset \in Nat, d.length \in Nat,
           Deployed(PlcBlock, b, d) # Panic
    PROVE  /\ Deployed(PlcBlock, b, d) \in Blocks(Len(PlcBlock))
           /\ \A j \in 0..(Len(PlcBlock) - 1) :
                 j \notin Chosen(d, n) => Deployed(PlcBlock, b, d)[j + 1] = PlcBlock[j + 1]
           /\ Takes(d, n) =>
                 \A j \in Chosen(d, n) : j < n =>
                    j < Len(PlcBlock) /\ Deployed(PlcBlock, b, d)[j + 1] = b[j + 1]
<1>. DEFINE from == d.offset
            m == Len(PlcBlock)
            end == IF d.length > 0 THEN Least(from + d.length, n) ELSE n
            part == SubSeq(b, from + 1, end)
            r == Deployed(PlcBlock, b, d)
            upTo == IF d.length = 0 THEN n ELSE from + d.length
            taken == Takes(d, n)
<1>1. Len(b) = n /\ b \in Seq(Byte) /\ DOMAIN b = 1..n  BY BlockIsSeq
<1>2. from \in Nat /\ from <= n  BY <1>1 DEF Deployed
<1>3. from % (Base * Base) = from
  <2>. DEFINE v == Base * Base
  <2>1. v \in Nat /\ n < v  BY ByteType
  <2>. HIDE DEF v, from
  <2>2. from < v  BY <1>2, <2>1
  <2>. QED  BY <1>2, <2>2, NotNarrowed DEF v
<1>4. m \in Nat /\ PlcBlock \in Blocks(m) /\ DOMAIN PlcBlock = 1..m
  BY PlcBlockAssumption, SeqIsBlock, BlockIsSeq
<1>5. r = PlcWrite(PlcBlock, from, part)  BY <1>1, <1>2, <1>3 DEF Deployed
<1>6. end \in Nat /\ end <= n /\ (d.length # 0 => end <= from + d.length)
      /\ (d.length = 0 => end = n)
  BY <1>2 DEF Least
<1>7. Chosen(d, n) = from..(upTo - 1)  BY DEF Chosen
<1>8. taken => \A i \in from..(upTo - 1) : i < n => i < m  BY <1>7 DEF Takes
<1>9. ASSUME NEW j \in from..(upTo - 1), j < n, taken
       PROVE  /\ from + 1 <= end /\ from + 1 <= j + 1 /\ j + 1 <= end /\ j < m /\ end <= m
              /\ j + 1 - from \in 1..(end - from) /\ j + 1 \in 1..m
  <2>1. upTo \in Nat /\ (upTo <= n => end = upTo) /\ (n <= upTo => end = n)
    <3>1. from + d.length \in Nat  BY <1>2
    <3>. QED  BY <1>2, <3>1 DEF Least
  <2>. HIDE DEF upTo, from, m, end, taken
  <2>2. j \in Nat /\ from <= j /\ j < upTo /\ j < m  BY <1>2, <1>9, <1>8, <2>1
  <2>3. j < end  BY <1>6, <1>9, <2>1, <2>2
  <2>4. end - 1 \in from..(upTo - 1) /\ end - 1 < n  BY <1>2, <1>6, <2>1, <2>2, <2>3
  <2>5. end - 1 < m  BY <1>9, <1>8, <2>4
  <2>. QED  BY <1>2, <1>4, <1>6, <2>2, <2>3, <2>5
<1>. HIDE DEF from, m, end, upTo, taken
<1>10. /\ part \in Seq(Byte)
       /\ Len(part) = IF from + 1 <= end THEN end - from ELSE 0
       /\ \A i \in 1..Len(part) : part[i] \in Byte
       /\ \A i \in 1..(end - from) : part[i] = b[from + i]
  <2>1. \A i \in (from + 1)..end : b[i] \in Byte
    <3>1. \A i \in (from + 1)..end : i \in 1..n  BY <1>2, <1>6
    <3>. QED  BY <3>1 DEF Blocks
  <2>2. part \in Seq(Byte) /\ Len(part) = IF from + 1 <= end THEN end - (from + 1) + 1 ELSE 0
    BY <1>2, <1>6, <2>1, SubSeqProperties
  <2>4. \A i \in 1..(end - from) : part[i] = b[from + i]
    <3>1. \A i \in 1..(end - (from + 1) + 1) : part[i] = b[from + 1 + i - 1]
      BY <1>2, <1>6, <2>1, SubSeqProperties
    <3>2. \A i \in 1..(end - from) :
             i \in 1..(end - (from + 1) + 1) /\ from + 1 + i - 1 = from + i
      BY <1>2, <1>6
    <3>. QED  BY <3>1, <3>2
  <2>3. (IF from + 1 <= end THEN end - (from + 1) + 1 ELSE 0)
          = IF from + 1 <= end THEN end - from ELSE 0
    BY <1>2, <1>6
  <2>5. part \in Seq(Byte) /\ Len(part) = IF from + 1 <= end THEN end - from ELSE 0
    BY <2>2, <2>3
  <2>6. \A i \in 1..Len(part) : part[i] \in Byte  BY <2>5
  <2>. QED  BY <2>4, <2>5, <2>6
<1>. HIDE DEF part, r
<1>11. Len(part) \in Nat /\ (Len(part) # 0 => from + Len(part) = end)  BY <1>2, <1>6, <1>10
<1>12. CASE from + Len(part) > m
  <2>1. r = PlcBlock  BY <1>5, <1>12 DEF PlcWrite, m
  <2>2. ASSUME NEW j \in from..(upTo - 1), j < n, taken  PROVE FALSE
    <3>1. from + 1 <= end /\ end <= m  BY <1>9, <2>2
    <3>2. from + Len(part) = end  BY <1>2, <1>6, <1>10, <3>1
    <3>. QED  BY <1>4, <1>6, <1>12, <3>1, <3>2
  <2>. HIDE DEF from, m, upTo, taken
  <2>. QED  BY <1>4, <1>7, <2>1, <2>2 DEF r, m, taken
<1>13. CASE ~(from + Len(part) > m)
  <2>1. r = [i \in 1..m |-> IF i \in (from + 1)..(from + Len(part)) THEN part[i - from]
                            ELSE PlcBlock[i]]
    BY <1>4, <1>5, <1>13 DEF PlcWrite, m
  <2>2. ASSUME NEW i \in 1..m
        PROVE  (IF i \in (from + 1)..(from + Len(part)) THEN part[i - from]
                ELSE PlcBlock[i]) \in Byte
    <3>1. CASE i \in (from + 1)..(from + Len(part))
      <4>1. i - from \in 1..Len(part)  BY <1>2, <1>4, <1>11, <3>1
      <4>. QED  BY <1>10, <3>1, <4>1
    <3>2. CASE i \notin (from + 1)..(from + Len(part))
      <4>1. PlcBlock[i] \in Byte  BY <1>4 DEF Blocks
      <4>. QED  BY <3>2, <4>1
    <3>. QED  BY <3>1, <3>2
  <2>3. r \in Blocks(m)  BY <2>1, <2>2 DEF Blocks
  <2>4. ASSUME NEW j \in 0..(m - 1),
               j \notin from..((IF d.length = 0 THEN n ELSE from + d.length) - 1)
        PROVE  r[j + 1] = PlcBlock[j + 1]
    <3>1. j + 1 \in 1..m  BY <1>4
    <3>2. from + d.length \in Nat  BY <1>2
    <3>3. j \notin from..(end - 1)
      <4>1. CASE d.length = 0
        BY <1>6, <2>4, <4>1
      <4>2. CASE d.length # 0
        <5>. DEFINE stop == IF d.length = 0 THEN n ELSE from + d.length
        <5>1. stop = from + d.length /\ j \notin from..(stop - 1)  BY <2>4, <4>2
        <5>. HIDE DEF stop
        <5>2. j \notin from..(from + d.length - 1)  BY <1>2, <1>4, <3>2, <5>1
        <5>. QED  BY <1>2, <1>4, <1>6, <3>2, <4>2, <5>2
      <4>. QED  BY <4>1, <4>2
    <3>4. j + 1 \notin (from + 1)..(from + Len(part))  BY <1>2, <1>4, <1>6, <1>11, <3>3
    <3>. QED  BY <2>1, <3>1, <3>4
  <2>5. ASSUME NEW j \in from..(upTo - 1), j < n, taken
        PROVE  j < m /\ r[j + 1] = b[j + 1]
    <3>1. /\ from + 1 <= end /\ from + 1 <= j + 1 /\ j + 1 <= end /\ j < m
          /\ j + 1 - from \in 1..(end - from) /\ j + 1 \in 1..m
      BY <1>9, <2>5
    <3>2. from + Len(part) = end  BY <1>2, <1>6, <1>10, <3>1
    <3>3. j \in Int /\ j + 1 \in (from + 1)..(from + Len(part))
      <4>1. j \in Int  BY <2>5
      <4>. QED  BY <1>2, <1>6, <3>1, <3>2, <4>1
    <3>4. r[j + 1] = part[j + 1 - from]
      <4>1. \A i \in 1..m : i \in (from + 1)..(from + Len(part)) => r[i] = part[i - from]
        BY <2>1
      <4>2. j + 1 \in 1..m /\ j + 1 \in (from + 1)..(from + Len(part))  BY <3>1, <3>3
      <4>. DEFINE i == j + 1
      <4>3. i \in 1..m /\ i \in (from + 1)..(from + Len(part))  BY <4>2
      <4>. HIDE DEF i
      <4>4. r[i] = part[i - from]  BY <4>1, <4>3
      <4>. QED  BY <1>2, <3>3, <4>4 DEF i
    <3>5. part[j + 1 - from] = b[from + (j + 1 - from)]  BY <1>10, <3>1
    <3>6. from + (j + 1 - from) = j + 1  BY <1>2, <3>3
    <3>. QED  BY <3>1, <3>4, <3>5, <3>6
  <2>6. \A j \in 0..(m - 1) : j \notin from..(upTo - 1) => r[j + 1] = PlcBlock[j + 1]
    BY <2>4 DEF upTo
  <2>. QED  BY <1>7, <2>3, <2>5, <2>6 DEF r, m, taken
<1>. QED  BY <1>12, <1>13

\* A monitor's block has the bytes that it covers at their places.
LEMMA WatchedBytes ==
    ASSUME NEW n \in Nat, NEW b \in Blocks(n), NEW w, w.offset \in Nat,
           w.blockSize \in Nat, w.blockSize < Base * Base,
           Watched(b, w) \notin {Err, Panic}
    PROVE  /\ Watched(b, w) \in Blocks(w.blockSize)
           /\ \A j \in w.offset..(w.blockSize - 1) :
                 j < w.blockSize /\ j < n /\ Watched(b, w)[j + 1] = b[j + 1]
<1>. DEFINE from == w.offset
            to == w.blockSize
            size == to - from
            read == PlcRead(b, from, size)
            r == Watched(b, w)
<1>1. Len(b) = n /\ DOMAIN b = 1..n  BY BlockIsSeq
<1>2. from \in Nat /\ to \in Nat /\ from <= to
  <2>1. ~(from > to)  BY DEF Watched
  <2>. QED  BY <2>1
<1>3. size \in Nat /\ size < Base * Base /\ from < Base * Base
  <2>. DEFINE v == Base * Base
  <2>1. v \in Nat /\ to < v  BY ByteType
  <2>. HIDE DEF v
  <2>2. size \in Nat /\ size < v /\ from < v  BY <1>2, <2>1
  <2>. QED  BY <2>2 DEF v
<1>4. from % (Base * Base) = from /\ size % (Base * Base) = size  BY <1>2, <1>3, NotNarrowed
<1>5. /\ read # Err
      /\ r = [i \in 1..to |-> IF i \in (from + 1)..(from + Len(read)) THEN read[i - from] ELSE 0]
  BY <1>2, <1>4 DEF Watched
<1>6. from + size = to /\ from + size <= n /\ read = SubSeq(b, from + 1, from + size)
  <2>1. ~(from + size > n) /\ read = SubSeq(b, from + 1, from + size)
    BY <1>1, <1>5 DEF PlcRead
  <2>. QED  BY <1>2, <1>3, <2>1
<1>. HIDE DEF read, r
<1>7. /\ Len(read) = size
      /\ \A i \in 1..size : read[i] = b[from + i] /\ read[i] \in Byte
  <2>1. \A i \in (from + 1)..to : b[i] \in Byte
    <3>1. \A i \in (from + 1)..to : i \in 1..n  BY <1>2, <1>6
    <3>. QED  BY <3>1 DEF Blocks
  <2>2. read = SubSeq(b, from + 1, to)  BY <1>6
  <2>. HIDE DEF from, to
  <2>3. /\ Len(SubSeq(b, from + 1, to)) = IF from + 1 <= to THEN to - (from + 1) + 1 ELSE 0
        /\ \A i \in 1..(to - (from + 1) + 1) :
              SubSeq(b, from + 1, to)[i] = b[from + 1 + i - 1]
    BY <1>2, <2>1, SubSeqProperties
  <2>4. Len(read) = size  BY <1>2, <2>2, <2>3
  <2>5. ASSUME NEW i \in 1..size  PROVE read[i] = b[from + i] /\ read[i] \in Byte
    <3>1. i \in 1..(to - (from + 1) + 1) /\ from + 1 + i - 1 = from + i /\ from + i \in (from + 1)..to
      BY <1>2
    <3>. QED  BY <2>1, <2>2, <2>3, <3>1
  <2>. QED  BY <2>4, <2>5
<1>8. ASSUME NEW i \in 1..to
      PROVE  (IF i \in (from + 1)..(from + Len(read)) THEN read[i - from] ELSE 0) \in Byte
  <2>1. CASE i \in (from + 1)..(from + Len(read))
    <3>1. i - from \in 1..size
      <4>1. Len(read) = size  BY <1>7
      <4>. HIDE DEF from, to, size
      <4>. QED  BY <1>2, <1>3, <2>1, <4>1
    <3>. QED  BY <1>7, <2>1, <3>1
  <2>2. CASE i \notin (from + 1)..(from + Len(read))
    BY <2>2, ByteType
  <2>. QED  BY <2>1, <2>2
<1>9. r \in Blocks(to)  BY <1>5, <1>8 DEF Blocks
<1>10. ASSUME NEW j \in from..(to - 1)
       PROVE  j < to /\ j < n /\ r[j + 1] = b[j + 1]
  <2>1. /\ j < to /\ j < n /\ j + 1 \in 1..to /\ j + 1 \in (from + 1)..(from + Len(read))
        /\ j + 1 - from \in 1..size /\ from + (j + 1 - from) = j + 1
    <3>1. Len(read) = size /\ from + size = to  BY <1>6, <1>7
    <3>. HIDE DEF from, to, size
    <3>. QED  BY <1>2, <1>3, <1>6, <3>1
  <2>2. r[j + 1] = read[j + 1 - from]  BY <1>5, <2>1
  <2>3. read[j + 1 - from] = b[j + 1]  BY <1>7, <2>1
  <2>. QED  BY <2>1, <2>2, <2>3
<1>. QED  BY <1>9, <1>10 DEF r, from, to

\* A set of indices that has an element has a last one.
LEMMA LastIndex ==
    ASSUME NEW n \in Nat, NEW S \in SUBSET (1..n), NEW i \in S
    PROVE  Max(S) \in S
<1>. DEFINE T == {n - k : k \in S}
<1>1. T \in SUBSET Nat /\ n - i \in T  OBVIOUS
<1>2. PICK t \in T : \A u \in T : t <= u  BY <1>1, LeastNumber
<1>3. PICK k \in S : t = n - k  BY <1>2
<1>4. \A j \in S : k >= j
  <2>1. TAKE j \in S
  <2>2. n - j \in T  OBVIOUS
  <2>3. n - k <= n - j  BY <1>2, <1>3, <2>2
  <2>. QED  BY <2>3
<1>. QED  BY <1>4 DEF Max

\* In the map a field that shares its name with none is what it is decoded to.
LEMMA MapOf ==
    ASSUME NEW d, NEW def, def.fields \in Seq(Field), NEW f \in FieldSet(def),
           Named(f, def)
    PROVE  IF DecodeField(d, f) = Err THEN f.name \notin DOMAIN DecodeAsMap(d, def)
           ELSE /\ f.name \in DOMAIN DecodeAsMap(d, def)
                /\ DecodeAsMap(d, def)[f.name] = DecodeField(d, f)
<1>. DEFINE decoded == {i \in DOMAIN def.fields : DecodeField(d, def.fields[i]) # Err}
            named == {i \in decoded : def.fields[i].name = f.name}
<1>1. PICK k \in DOMAIN def.fields : def.fields[k] = f  BY DEF FieldSet
<1>2. DOMAIN DecodeAsMap(d, def) = {def.fields[i].name : i \in decoded}
  BY DEF DecodeAsMap
<1>3. \A i \in DOMAIN def.fields : def.fields[i].name = f.name => def.fields[i] = f
  BY DEF FieldSet, Named
<1>4. CASE DecodeField(d, f) = Err
  BY <1>2, <1>3, <1>4
<1>5. CASE DecodeField(d, f) # Err
  <2>1. k \in named  BY <1>1, <1>5
  <2>2. f.name \in {def.fields[i].name : i \in decoded}  BY <2>1
  <2>3. DecodeAsMap(d, def)[f.name] = DecodeField(d, def.fields[Max(named)])
    BY <2>2 DEF DecodeAsMap
  <2>4. DOMAIN def.fields = 1..Len(def.fields) /\ Len(def.fields) \in Nat  BY LenProperties
  <2>5. named \in SUBSET (1..Len(def.fields))  BY <2>4
  <2>6. Max(named) \in named
    <3>. HIDE DEF named
    <3>. QED  BY <2>1, <2>4, <2>5, LastIndex
  <2>7. def.fields[Max(named)] = f  BY <1>3, <2>6
  <2>. QED  BY <1>2, <1>5, <2>2, <2>3, <2>7
<1>. QED  BY <1>4, <1>5

\* A field that the deployment does not cover and the monitor reads is what it
\* was in the PLC before, for every definition, content, slice and block
\* (deploy.rs 424-439, monitor.rs 297-312, deploy.rs 267-306).
THEOREM OthersStayHolds == Spec => []OthersStay
<1>1. ConvInv => OthersStay
  <2>. SUFFICES ASSUME ConvInv, Seen, Addressable, NEW f \in FieldSet(object.def),
                       Place(f) \cap Deploying = {}, Place(f) \subseteq Watching,
                       Named(f, object.def)
                PROVE  IF DecodeField(PlcBlock, f) = Err THEN f.name \notin DOMAIN values
                       ELSE f.name \in DOMAIN values /\ values[f.name] = DecodeField(PlcBlock, f)
    BY DEF OthersStay
  <2>. DEFINE full == Watched(block, object.watch)
              n == Len(PlcBlock)
              to == object.watch.blockSize
  <2>1. /\ block \notin {Nothing, Panic} /\ full \notin {Err, Panic}
        /\ values = DecodeAsMap(full, object.def)
    BY DEF Seen, ConvInv
  <2>2. data \notin {Nothing, Panic} /\ block = Deployed(PlcBlock, data, object.deploy)
    BY <2>1 DEF ConvInv
  <2>3. object # Nothing /\ data = Encode(object.content, object.def)
    BY <2>1, <2>2 DEF ConvInv
  <2>4. /\ object.def.size \in Nat /\ object.def.size < Base * Base
        /\ to \in Nat /\ to < Base * Base
    BY <2>3, ObjectTypes DEF Addressable
  <2>5. data \in Blocks(object.def.size)  BY <2>2, <2>3, ObjectTypes, EncodeTypes
  <2>6. /\ block \in Blocks(n)
        /\ \A j \in 0..(n - 1) : j \notin Deploying => block[j + 1] = PlcBlock[j + 1]
    <3>1. Deploying = Chosen(object.deploy, object.def.size)  BY DEF Deploying, Chosen
    <3>. QED  BY <2>1, <2>2, <2>3, <2>4, <2>5, <3>1, ObjectTypes, DeployedBytes
  <2>7. n \in Nat /\ PlcBlock \in Blocks(n)  BY PlcBlockAssumption, SeqIsBlock
  <2>8. /\ full \in Blocks(to)
        /\ \A j \in Watching : j < to /\ j < n /\ full[j + 1] = block[j + 1]
    BY <2>1, <2>3, <2>4, <2>6, <2>7, ObjectTypes, WatchedBytes DEF Watching
  <2>9. f \in Field  BY <2>3, ObjectTypes
  <2>10. ASSUME NEW j \in Place(f)
         PROVE  j < to /\ j < n /\ full[j + 1] = PlcBlock[j + 1]
    <3>1. j \in Watching /\ j \notin Deploying  BY <2>10
    <3>2. j \in 0..(n - 1)
      <4>1. j \in Int /\ j >= object.watch.offset  BY <3>1, <2>3, <2>4, ObjectTypes DEF Watching
      <4>. QED  BY <2>3, <2>7, <2>8, <3>1, <4>1, ObjectTypes
    <3>. QED  BY <2>6, <2>8, <3>1, <3>2
  <2>. HIDE DEF full, n, to
  <2>11. DecodeField(full, f) = DecodeField(PlcBlock, f)
    BY <2>4, <2>7, <2>8, <2>9, <2>10, SameField
  <2>12. IF DecodeField(full, f) = Err THEN f.name \notin DOMAIN DecodeAsMap(full, object.def)
         ELSE /\ f.name \in DOMAIN DecodeAsMap(full, object.def)
              /\ DecodeAsMap(full, object.def)[f.name] = DecodeField(full, f)
    BY <2>3, ObjectTypes, MapOf
  <2>. QED  BY <2>1, <2>11, <2>12
<1>. QED  BY <1>1, ConvInvHolds, PTL

-----------------------------------------------------------------------------
(* The days of a date.                                                      *)

\* The leap years up to a year: 477 of them before 1970.
Leaps(y) == y \div 4 - y \div 100 + y \div 400

LEMMA LeapStep ==
    ASSUME NEW y \in Nat, y > 0
    PROVE  /\ Leaps(y) \in Int
           /\ Leaps(y) = Leaps(y - 1) + (IF IsLeapYear(y) THEN 1 ELSE 0)
<1>1. y \div 4 = (y - 1) \div 4 + (IF y % 4 = 0 THEN 1 ELSE 0)  OBVIOUS
<1>2. y \div 100 = (y - 1) \div 100 + (IF y % 100 = 0 THEN 1 ELSE 0)  OBVIOUS
<1>3. y \div 400 = (y - 1) \div 400 + (IF y % 400 = 0 THEN 1 ELSE 0)  OBVIOUS
<1>4. (y % 400 = 0 => y % 100 = 0) /\ (y % 100 = 0 => y % 4 = 0)  OBVIOUS
<1>. QED  BY <1>1, <1>2, <1>3, <1>4 DEF Leaps, IsLeapYear

\* The loop over the years.
LEMMA LeapYears ==
    ASSUME NEW y \in Nat, y >= 1970
    PROVE  DaysBeforeYear(y) = (y - 1970) * 365 + Leaps(y - 1) - 477
<1>. DEFINE n == y - 1970
            years(i) == {x \in 1970..(1970 + i - 1) : IsLeapYear(x)}
            Good == {i \in 0..n : /\ IsFiniteSet(years(i))
                                  /\ Cardinality(years(i)) = Leaps(1970 + i - 1) - 477}
<1>1. n \in Nat  OBVIOUS
<1>2. 0 \in Good
  <2>1. years(0) = {}  OBVIOUS
  <2>2. Leaps(1970 + 0 - 1) = 477  BY DEF Leaps
  <2>. QED  BY <1>1, <2>1, <2>2, FS_EmptySet
<1>3. ASSUME NEW i \in 1..n, i - 1 \in Good  PROVE i \in Good
  <2>. DEFINE last == 1970 + i - 1
  <2>1. last \in Nat /\ last > 0 /\ last - 1 = 1970 + (i - 1) - 1  OBVIOUS
  <2>2. /\ IsFiniteSet(years(i - 1))
        /\ Cardinality(years(i - 1)) = Leaps(last - 1) - 477
    BY <1>3, <2>1
  <2>3. Leaps(last) = Leaps(last - 1) + (IF IsLeapYear(last) THEN 1 ELSE 0)
        /\ Leaps(last) \in Int
    BY <2>1, LeapStep
  <2>4. last \notin years(i - 1)  OBVIOUS
  <2>5. years(i) = years(i - 1) \cup (IF IsLeapYear(last) THEN {last} ELSE {})
    <3>1. 1970..(1970 + i - 1) = 1970..(1970 + (i - 1) - 1) \cup {last}  OBVIOUS
    <3>. QED  BY <3>1
  <2>. HIDE DEF years, last
  <2>6. CASE IsLeapYear(last)
    <3>1. years(i) = years(i - 1) \cup {last}  BY <2>5, <2>6
    <3>2. IsFiniteSet(years(i)) /\ Cardinality(years(i)) = Cardinality(years(i - 1)) + 1
      BY <2>2, <2>4, <3>1, FS_AddElement
    <3>3. Cardinality(years(i)) = Leaps(last) - 477
      <4>1. Leaps(last - 1) = Leaps(last) - 1  BY <2>1, <2>3, <2>6, LeapStep DEF Leaps
      <4>. QED  BY <2>2, <2>3, <3>2, <4>1
    <3>. QED  BY <3>2, <3>3 DEF last
  <2>7. CASE ~IsLeapYear(last)
    <3>1. years(i) = years(i - 1)  BY <2>5, <2>7
    <3>2. Leaps(last - 1) = Leaps(last)  BY <2>1, <2>3, <2>7, LeapStep DEF Leaps
    <3>3. Cardinality(years(i)) = Leaps(last) - 477  BY <2>2, <3>1, <3>2
    <3>. QED  BY <2>2, <3>1, <3>3 DEF last
  <2>. QED  BY <2>6, <2>7
<1>. HIDE DEF Good
<1>4. Good \in SUBSET (0..n)  BY DEF Good
<1>5. n \in Good  BY <1>1, <1>2, <1>3, <1>4, Rounds
<1>6. Cardinality(years(n)) = Leaps(y - 1) - 477
  <2>1. 1970 + n - 1 = y - 1  OBVIOUS
  <2>. QED  BY <1>5, <2>1 DEF Good
<1>7. years(n) = {x \in 1970..(y - 1) : IsLeapYear(x)}
  <2>1. 1970 + n - 1 = y - 1  OBVIOUS
  <2>. QED  BY <2>1
<1>. HIDE DEF years, n
<1>. QED  BY <1>6, <1>7, LeapStep DEF DaysBeforeYear, Leaps

\* The loop over the months.
LEMMA MonthTable ==
    ASSUME NEW m \in 1..12
    PROVE  DaysBeforeMonth[m] = CASE m = 1 -> 0     [] m = 2 -> 31    [] m = 3 -> 59
                                  [] m = 4 -> 90    [] m = 5 -> 120   [] m = 6 -> 151
                                  [] m = 7 -> 181   [] m = 8 -> 212   [] m = 9 -> 243
                                  [] m = 10 -> 273  [] m = 11 -> 304  [] m = 12 -> 334
<1>. DEFINE Sum(f) == f = [n \in 0..11 |-> IF n = 0 THEN 0 ELSE f[n - 1] + DaysInMonths[n]]
            c == CHOOSE f : Sum(f)
            g == [n \in 0..11 |->
                     CASE n = 0 -> 0    [] n = 1 -> 31   [] n = 2 -> 59   [] n = 3 -> 90
                       [] n = 4 -> 120  [] n = 5 -> 151  [] n = 6 -> 181  [] n = 7 -> 212
                       [] n = 8 -> 243  [] n = 9 -> 273  [] n = 10 -> 304 [] n = 11 -> 334]
<1>1. /\ DaysInMonths[1] = 31 /\ DaysInMonths[2] = 28 /\ DaysInMonths[3] = 31
      /\ DaysInMonths[4] = 30 /\ DaysInMonths[5] = 31 /\ DaysInMonths[6] = 30
      /\ DaysInMonths[7] = 31 /\ DaysInMonths[8] = 31 /\ DaysInMonths[9] = 30
      /\ DaysInMonths[10] = 31 /\ DaysInMonths[11] = 30
  BY DEF DaysInMonths
<1>2. Sum(g)
  <2>1. ASSUME NEW n \in 0..11
        PROVE  g[n] = IF n = 0 THEN 0 ELSE g[n - 1] + DaysInMonths[n]
    <3>1. CASE n = 0  BY <3>1
    <3>2. CASE n \in 1..4  BY <1>1, <3>2
    <3>3. CASE n \in 5..8  BY <1>1, <3>3
    <3>4. CASE n \in 9..11  BY <1>1, <3>4
    <3>. QED  BY <3>1, <3>2, <3>3, <3>4
  <2>2. g = [n \in 0..11 |-> g[n]]  OBVIOUS
  <2>. HIDE DEF g
  <2>. QED  BY <2>1, <2>2
<1>. HIDE DEF g
<1>3. Sum(c)  BY <1>2
<1>4. DaysBeforeMonth[m] = c[m - 1]  BY DEF DaysBeforeMonth
<1>. HIDE DEF c
<1>5. \A n \in 0..11 : c[n] = IF n = 0 THEN 0 ELSE c[n - 1] + DaysInMonths[n]  BY <1>3
<1>6. c[0] = 0 /\ c[1] = 31 /\ c[2] = 59 /\ c[3] = 90 /\ c[4] = 120 /\ c[5] = 151
  BY <1>1, <1>5
<1>7. /\ c[6] = 181 /\ c[7] = 212 /\ c[8] = 243 /\ c[9] = 273 /\ c[10] = 304
      /\ c[11] = 334
  BY <1>1, <1>5, <1>6
<1>. QED  BY <1>4, <1>6, <1>7

\* A date's days are those of the calendar.
LEMMA DaysAreCivil ==
    ASSUME NEW y \in Nat, NEW m \in 1..12, NEW d \in 1..31, y >= 2000
    PROVE  DaysSinceEpoch(y, m, d) = CivilDays(y, m, d)
<1>. DEFINE leap == IF IsLeapYear(y) THEN 1 ELSE 0
            months == DaysBeforeMonth[m]
            before == Leaps(y - 1)
            days == DaysSinceEpoch(y, m, d)
<1>1. days = (y - 1970) * 365 + before - 477 + months + (IF m > 2 THEN leap ELSE 0) + d - 1
  <2>1. DaysBeforeYear(y) = (y - 1970) * 365 + before - 477  BY LeapYears
  <2>2. days = DaysBeforeYear(y) + months + (IF m > 2 /\ IsLeapYear(y) THEN 1 ELSE 0) + d - 1
    BY DEF DaysSinceEpoch
  <2>. QED  BY <2>1, <2>2
<1>2. Leaps(y) = before + leap /\ before \in Int /\ Leaps(y) \in Int /\ before >= 0
  <2>1. y > 0 /\ y - 1 > 0 /\ y - 1 \in Nat  OBVIOUS
  <2>2. before >= 0  BY DEF Leaps
  <2>. QED  BY <2>1, <2>2, LeapStep
<1>3. CASE m <= 2
  <2>1. CivilDays(y, m, d) = (y - 1) * 365 + before + (153 * (m + 9) + 2) \div 5 + d - 1 - 719468
    BY <1>3 DEF CivilDays, Leaps
  <2>. HIDE DEF before, days, months
  <2>2. m = 1 \/ m = 2  BY <1>3
  <2>3. months = 31 * (m - 1)  BY <2>2, MonthTable DEF months
  <2>4. (153 * (m + 9) + 2) \div 5 = 306 + 31 * (m - 1)  BY <2>2
  <2>5. days = CivilDays(y, m, d)  BY <1>1, <1>2, <1>3, <2>1, <2>3, <2>4
  <2>. QED  BY <2>5 DEF days
<1>4. CASE m > 2
  <2>1. CivilDays(y, m, d) = y * 365 + Leaps(y) + (153 * (m - 3) + 2) \div 5 + d - 1 - 719468
    BY <1>4 DEF CivilDays, Leaps
  <2>2. months = 59 + (153 * (m - 3) + 2) \div 5 /\ months \in Nat
    <3>1. m \in {3, 4, 5, 6} \/ m \in {7, 8, 9} \/ m \in {10, 11, 12}  BY <1>4
    <3>2. CASE m \in {3, 4, 5, 6}  BY <3>2, MonthTable
    <3>3. CASE m \in {7, 8, 9}  BY <3>3, MonthTable
    <3>4. CASE m \in {10, 11, 12}  BY <3>4, MonthTable
    <3>. QED  BY <3>1, <3>2, <3>3, <3>4
  <2>. DEFINE part == (153 * (m - 3) + 2) \div 5
  <2>3. part \in Int  OBVIOUS
  <2>. HIDE DEF before, days, months, part
  <2>4. leap \in {0, 1}  OBVIOUS
  <2>5. days = (y - 1970) * 365 + before - 477 + months + leap + d - 1  BY <1>1, <1>4
  <2>. HIDE DEF leap
  <2>6. days = y * 365 + Leaps(y) + part + d - 1 - 719468
    <3>1. months = 59 + part /\ months \in Nat  BY <2>2 DEF part
    <3>. QED  BY <1>2, <2>3, <2>4, <2>5, <3>1
  <2>. QED  BY <2>1, <2>6 DEF days, part
<1>. QED  BY <1>3, <1>4

LEMMA DaysAreSome ==
    ASSUME NEW y \in Nat, NEW m \in 1..12, NEW d \in 1..31, y >= 2000
    PROVE  CivilDays(y, m, d) # None
<1>. DEFINE yy == IF m <= 2 THEN y - 1 ELSE y
            mm == IF m <= 2 THEN m + 9 ELSE m - 3
            of == (153 * mm + 2) \div 5
<1>1. yy \in Nat /\ yy >= 1999 /\ of \in Nat  OBVIOUS
<1>2. CivilDays(y, m, d) = yy * 365 + yy \div 4 - yy \div 100 + yy \div 400
                           + of + d - 1 - 719468
  BY DEF CivilDays
<1>. DEFINE days == CivilDays(y, m, d)
<1>. HIDE DEF yy, of, days
<1>3. days \in Nat  BY <1>1, <1>2 DEF days
<1>. QED  BY <1>3, NoneAssumption DEF days

\* For every byte sequence of a report block: the time read is the moment of the
\* calendar that its date stands for, from 2000 to 2165, and none for a month or
\* day that is none (cache.rs 334-385).
THEOREM DateIsExact == Spec => []DateExact
<1>1. ConvInv => DateExact
  <2>. SUFFICES ASSUME ConvInv, time # Nothing PROVE DateExact
    BY DEF DateExact
  <2>. DEFINE year == 2000 + Digits(data[1])
              month == Digits(data[2])
              day == Digits(data[3])
              s == Digits(data[4]) * 3600 + Digits(data[5]) * 60 + Digits(data[6])
  <2>1. time = ExtractS7DateTime(data, 0) /\ data \in Seq(0..255) /\ Len(data) >= 8
    BY DatesAssumption DEF ConvInv
  <2>2. \A i \in 1..6 : /\ data[0 + i] = data[i]
                        /\ BcdToU8(data[i]) = Digits(data[i])
                        /\ Digits(data[i]) \in Nat
    <3>1. TAKE i \in 1..6
    <3>2. data[i] \in 0..255
      <4>1. Len(data) \in Nat /\ i \in 1..Len(data)  BY <2>1, LenProperties
      <4>. QED  BY <2>1, <4>1, ElementOfSeq
    <3>. QED  BY <3>2 DEF BcdToU8, Digits
  <2>3. time = IF DaysSinceEpoch(year, month, day) = None THEN None
               ELSE [days |-> DaysSinceEpoch(year, month, day), seconds |-> s]
    <3>1. ~(Len(data) < 0 + 8)  BY <2>1, LenProperties
    <3>2. /\ BcdToU8(data[0 + 1]) = Digits(data[1]) /\ BcdToU8(data[0 + 2]) = Digits(data[2])
          /\ BcdToU8(data[0 + 3]) = Digits(data[3]) /\ BcdToU8(data[0 + 4]) = Digits(data[4])
          /\ BcdToU8(data[0 + 5]) = Digits(data[5]) /\ BcdToU8(data[0 + 6]) = Digits(data[6])
      BY <2>2
    <3>. QED  BY <2>1, <3>1, <3>2 DEF ExtractS7DateTime
  <2>4. s = 60 * (60 * Digits(data[4]) + Digits(data[5])) + Digits(data[6])  BY <2>2
  <2>5. CASE month \notin 1..12 \/ day \notin 1..31
    <3>1. DaysSinceEpoch(year, month, day) = None  BY <2>5 DEF DaysSinceEpoch
    <3>. QED  BY <2>3, <2>5, <3>1 DEF DateExact
  <2>6. CASE month \in 1..12 /\ day \in 1..31
    <3>1. year \in Nat /\ year >= 2000  BY <2>2
    <3>2. /\ DaysSinceEpoch(year, month, day) = CivilDays(year, month, day)
          /\ CivilDays(year, month, day) # None
      <4>. HIDE DEF year, month, day
      <4>1. DaysSinceEpoch(year, month, day) = CivilDays(year, month, day)
        BY <2>6, <3>1, DaysAreCivil
      <4>2. CivilDays(year, month, day) # None  BY <2>6, <3>1, DaysAreSome
      <4>. QED  BY <4>1, <4>2
    <3>3. time = [days |-> CivilDays(year, month, day), seconds |-> s]  BY <2>3, <3>2
    <3>. QED  BY <2>4, <2>6, <3>3 DEF DateExact
  <2>. QED  BY <2>5, <2>6
<1>. QED  BY <1>1, ConvInvHolds, PTL

-----------------------------------------------------------------------------
(* Which bytes encode writes.                                               *)

\* A value is copied to its place and nowhere else.
LEMMA ItemByte ==
    ASSUME NEW n \in Nat, NEW b \in Blocks(n), NEW f \in Field, NEW k \in Nat, NEW v,
           Encoded(f, v) \in {Err} \cup Seq(Byte), EncodeItem(b, f, k, v) # Panic,
           NEW j \in 0..(n - 1)
    PROVE  LET start == f.offset + k * SizeOf(f) IN
           EncodeItem(b, f, k, v)[j + 1] =
               IF Encoded(f, v) # Err /\ j \in start..(start + SizeOf(f) - 1)
               THEN Encoded(f, v)[j - start + 1] ELSE b[j + 1]
<1>. DEFINE size == SizeOf(f)
            start == f.offset + k * SizeOf(f)
            enc == Encoded(f, v)
            end == Least(start + size, Len(b))
            r == EncodeItem(b, f, k, v)
<1>1. start \in Nat /\ size \in Nat
  <2>1. size \in Nat /\ f.offset \in Nat  BY SizeType
  <2>. HIDE DEF size
  <2>2. k * size \in Nat  BY <2>1
  <2>. QED  BY <2>1, <2>2 DEF size
<1>2. Len(b) = n /\ DOMAIN b = 1..n /\ b # Panic  BY BlockIsSeq
<1>3. r = IF enc = Err THEN b ELSE Copy(b, start, end, enc)
  BY <1>2 DEF EncodeItem, Encoded
<1>4. end = IF start + size <= n THEN start + size ELSE n  BY <1>2 DEF Least
<1>5. r # Panic  OBVIOUS
<1>. HIDE DEF r, start, size, enc, end
<1>6. SUFFICES r[j + 1] = IF enc # Err /\ j \in start..(start + size - 1)
                          THEN enc[j - start + 1] ELSE b[j + 1]
  BY DEF r, start, size, enc
<1>7. CASE enc = Err
  BY <1>3, <1>7
<1>8. CASE enc # Err
  <2>1. r = [i \in 1..n |-> IF i \in (start + 1)..end THEN enc[i - start] ELSE b[i]]
    BY <1>2, <1>3, <1>5, <1>8 DEF Copy
  <2>2. j + 1 \in 1..n  OBVIOUS
  <2>3. j + 1 \in (start + 1)..end <=> j \in start..(start + size - 1)
    BY <1>1, <1>4, <2>2
  <2>4. j + 1 - start = j - start + 1  BY <1>1
  <2>5. r[j + 1] = IF j + 1 \in (start + 1)..end THEN enc[j + 1 - start] ELSE b[j + 1]
    <3>1. \A i \in 1..n : r[i] = IF i \in (start + 1)..end THEN enc[i - start] ELSE b[i]
      BY <2>1
    <3>2. start \in Nat /\ end \in Nat  BY <1>1, <1>4
    <3>. QED  BY <2>2, <3>1, <3>2
  <2>. QED  BY <1>8, <2>3, <2>4, <2>5
<1>. QED  BY <1>7, <1>8

\* The k-th value of a field has its place in the field's.
LEMMA ItemPlace ==
    ASSUME NEW f \in Field, NEW k \in Nat, k < f.count,
           NEW j \in (f.offset + k * SizeOf(f))..(f.offset + k * SizeOf(f) + SizeOf(f) - 1)
    PROVE  j \in Place(f)
<1>. DEFINE size == SizeOf(f)
<1>1. size \in Nat /\ f.offset \in Nat /\ f.count \in Nat  BY SizeType
<1>2. Place(f) = f.offset..(f.offset + f.count * size - 1)  BY DEF Place
<1>. HIDE DEF size
<1>3. k * size + size <= f.count * size /\ k * size \in Nat /\ f.count * size \in Nat
  BY <1>1, Products
<1>4. j \in (f.offset + k * size)..(f.offset + k * size + size - 1)  BY DEF size
<1>. DEFINE before == k * size
            all == f.count * size
<1>. HIDE DEF before, all
<1>5. before + size <= all /\ before \in Nat /\ all \in Nat  BY <1>3 DEF before, all
<1>6. j \in (f.offset + before)..(f.offset + before + size - 1)  BY <1>4 DEF before
<1>7. j \in f.offset..(f.offset + all - 1)  BY <1>1, <1>5, <1>6
<1>. QED  BY <1>2, <1>7 DEF all

\* A property leaves the bytes that are not in its place alone.
LEMMA PropertyLeaves ==
    ASSUME NEW n \in Nat, NEW b \in Blocks(n), NEW f \in Field, NEW content,
           HasType(f, content), NEW j \in 0..(n - 1), j \notin Place(f),
           EncodeProperty(b, f, content) # Panic
    PROVE  EncodeProperty(b, f, content)[j + 1] = b[j + 1]
<1>1. CASE f.name \notin DOMAIN content
  BY <1>1 DEF EncodeProperty
<1>2. CASE f.name \in DOMAIN content
  <2>. DEFINE v == content[f.name]
              m == ItemCount(f, v)
  <2>1. /\ m \in Nat /\ m <= f.count
        /\ \A i \in 1..m : Encoded(f, Item(f, v, i)) \in {Err} \cup Seq(Byte)
    BY <1>2, ItemTypes
  <2>. HIDE DEF v
  <2>2. PICK run : /\ run[0] = b
                   /\ \A i \in 1..m : run[i] = EncodeItem(run[i - 1], f, i - 1, Item(f, v, i))
                   /\ EncodeField(b, f, v) = run[m]
    BY <2>1, FieldIsRun
  <2>3. EncodeProperty(b, f, content) = run[m]  BY <1>2, <2>2 DEF EncodeProperty, v
  <2>. DEFINE Good == {i \in 0..m : \/ run[i] = Panic
                                    \/ run[i] \in Blocks(n) /\ run[i][j + 1] = b[j + 1]}
  <2>4. ASSUME NEW i \in 1..m, i - 1 \in Good  PROVE i \in Good
    <3>1. CASE run[i - 1] = Panic
      <4>1. run[i] = Panic  BY <2>2, <3>1 DEF EncodeItem
      <4>. QED  BY <4>1
    <3>2. CASE run[i - 1] # Panic /\ run[i] # Panic
      <4>1. run[i - 1] \in Blocks(n) /\ run[i - 1][j + 1] = b[j + 1]  BY <2>4, <3>2
      <4>2. i - 1 \in Nat /\ i - 1 < f.count
        <5>1. m \in Nat /\ m <= f.count /\ f.count \in Nat  BY <2>1, SizeType
        <5>. HIDE DEF m
        <5>. QED  BY <5>1
      <4>3. Encoded(f, Item(f, v, i)) \in {Err} \cup Seq(Byte)  BY <2>1
      <4>. DEFINE start == f.offset + (i - 1) * SizeOf(f)
                  r == EncodeItem(run[i - 1], f, i - 1, Item(f, v, i))
      <4>4. r # Panic /\ run[i] = r  BY <2>2, <3>2
      <4>5. j \notin start..(start + SizeOf(f) - 1)  BY <4>2, ItemPlace
      <4>6. r \in Blocks(n)  BY <4>1, <4>2, <4>3, <4>4, ItemStep
      <4>7. r[j + 1] = run[i - 1][j + 1]
        <5>. HIDE DEF v
        <5>. QED  BY <4>1, <4>2, <4>3, <4>4, <4>5, ItemByte
      <4>. QED  BY <4>1, <4>4, <4>6, <4>7
    <3>. QED  BY <3>1, <3>2
  <2>5. 0 \in Good  BY <2>1, <2>2
  <2>. HIDE DEF m, v
  <2>6. Good \in SUBSET (0..m)  OBVIOUS
  <2>. HIDE DEF Good
  <2>7. m \in Good  BY <2>1, <2>4, <2>5, <2>6, Rounds
  <2>. QED  BY <2>3, <2>7 DEF Good
<1>. QED  BY <1>1, <1>2

\* The byte at j that a single value writes over a block of zeros.
ByteOf(f, content, j) ==
    IF f.name \in DOMAIN content /\ Encoded(f, content[f.name]) # Err
    THEN Encoded(f, content[f.name])[j - f.offset + 1] ELSE 0

\* A single value is written to the bytes of its place.
LEMMA PropertyByte ==
    ASSUME NEW n \in Nat, NEW b \in Blocks(n), NEW f \in Field, NEW content,
           HasType(f, content), f.count = 1, NEW j \in 0..(n - 1), j \in Place(f),
           EncodeProperty(b, f, content) # Panic
    PROVE  EncodeProperty(b, f, content)[j + 1] =
               IF f.name \in DOMAIN content /\ Encoded(f, content[f.name]) # Err
               THEN ByteOf(f, content, j) ELSE b[j + 1]
<1>1. CASE f.name \notin DOMAIN content
  BY <1>1 DEF EncodeProperty
<1>2. CASE f.name \in DOMAIN content
  <2>. DEFINE v == content[f.name]
              r == EncodeItem(b, f, 0, v)
  <2>1. ItemCount(f, v) = 1 /\ Item(f, v, 1) = v  BY DEF ItemCount, Item
  <2>2. Encoded(f, v) \in {Err} \cup Seq(Byte)  BY <1>2, <2>1, ItemTypes
  <2>3. EncodeProperty(b, f, content) = r
    <3>1. PICK run : /\ run[0] = b
                     /\ run[1] = EncodeItem(run[0], f, 0, Item(f, v, 1))
                     /\ EncodeField(b, f, v) = run[1]
      BY <2>1, FieldIsRun
    <3>. QED  BY <1>2, <2>1, <3>1 DEF EncodeProperty
  <2>4. /\ f.offset + 0 * SizeOf(f) = f.offset
        /\ j \in f.offset..(f.offset + SizeOf(f) - 1)
    BY SizeType DEF Place
  <2>. HIDE DEF v
  <2>5. r[j + 1] = IF Encoded(f, v) # Err THEN Encoded(f, v)[j - f.offset + 1] ELSE b[j + 1]
    BY <2>2, <2>3, <2>4, ItemByte
  <2>. QED  BY <1>2, <2>3, <2>5 DEF v, ByteOf
<1>. QED  BY <1>1, <1>2

\* After a panic nothing is written.
LEMMA PanicStays ==
    ASSUME NEW f \in Field, NEW content, HasType(f, content)
    PROVE  EncodeProperty(Panic, f, content) = Panic
<1>1. CASE f.name \notin DOMAIN content
  BY <1>1 DEF EncodeProperty
<1>2. CASE f.name \in DOMAIN content
  <2>. DEFINE v == content[f.name]
              m == ItemCount(f, v)
  <2>1. m \in Nat  BY <1>2, ItemTypes
  <2>. HIDE DEF v
  <2>2. PICK run : /\ run[0] = Panic
                   /\ \A i \in 1..m : run[i] = EncodeItem(run[i - 1], f, i - 1, Item(f, v, i))
                   /\ EncodeField(Panic, f, v) = run[m]
    BY <2>1, FieldIsRun
  <2>3. EncodeProperty(Panic, f, content) = run[m]  BY <1>2, <2>2 DEF EncodeProperty, v
  <2>. DEFINE Good == {i \in 0..m : run[i] = Panic}
  <2>4. \A i \in 1..m : i - 1 \in Good => i \in Good  BY <2>2 DEF EncodeItem
  <2>5. 0 \in Good  BY <2>1, <2>2
  <2>. HIDE DEF m
  <2>6. Good \in SUBSET (0..m)  OBVIOUS
  <2>. HIDE DEF Good
  <2>7. m \in Good  BY <2>1, <2>4, <2>5, <2>6, Rounds
  <2>. QED  BY <2>3, <2>7 DEF Good
<1>. QED  BY <1>1, <1>2

\* encode leaves in the place of a single value that no other field overlaps
\* its bytes, or the zeros.
LEMMA EncodeByte ==
    ASSUME NEW def, NEW content, def.size \in Nat, def.fields \in Seq(Field),
           \A i \in DOMAIN def.fields : HasType(def.fields[i], content),
           NEW f \in FieldSet(def), f.count = 1, Apart(f, def),
           NEW j \in Place(f), j < def.size, Encode(content, def) # Panic
    PROVE  Encode(content, def)[j + 1] = ByteOf(f, content, j)
<1>. DEFINE m == Len(def.fields)
            n == def.size
            field(i) == def.fields[i]
<1>1. m \in Nat /\ DOMAIN def.fields = 1..m /\ \A i \in 1..m : field(i) \in Field
  BY LenProperties
<1>2. PICK run : /\ run[0] = Zeros(n)
                 /\ \A i \in 1..m : run[i] = EncodeProperty(run[i - 1], field(i), content)
                 /\ Encode(content, def) = run[m]
  BY <1>1, EncodeIsRun
<1>3. Zeros(n) \in Blocks(n) /\ \A i \in 1..n : Zeros(n)[i] = 0
  BY ByteType DEF Zeros, Blocks
<1>4. f \in Field /\ \E i \in 1..m : f = field(i)  BY <1>1 DEF FieldSet
<1>5. j \in 0..(n - 1) /\ j + 1 \in 1..n
  <2>1. f.offset \in Nat /\ f.count * SizeOf(f) \in Nat  BY <1>4, SizeType
  <2>. QED  BY <2>1 DEF Place
<1>. DEFINE seen(i) == \E k \in 1..i : f = field(k)
            Good == {i \in 0..m :
                        \/ run[i] = Panic
                        \/ /\ run[i] \in Blocks(n)
                           /\ run[i][j + 1] = IF seen(i) THEN ByteOf(f, content, j) ELSE 0}
<1>6. 0 \in Good
  <2>1. ~seen(0)  OBVIOUS
  <2>. HIDE DEF seen
  <2>. QED  BY <1>1, <1>2, <1>3, <1>5, <2>1
<1>7. ASSUME NEW i \in 1..m, i - 1 \in Good  PROVE i \in Good
  <2>. DEFINE r == EncodeProperty(run[i - 1], field(i), content)
  <2>1. run[i] = r  BY <1>2
  <2>2. field(i) \in Field /\ HasType(field(i), content)  BY <1>1
  <2>3. seen(i) <=> seen(i - 1) \/ f = field(i)  BY <1>1
  <2>. HIDE DEF seen
  <2>4. CASE r = Panic
    BY <2>1, <2>4
  <2>5. CASE r # Panic
    <3>1. run[i - 1] # Panic  BY <2>2, <2>5, PanicStays
    <3>2. /\ run[i - 1] \in Blocks(n)
          /\ run[i - 1][j + 1] = IF seen(i - 1) THEN ByteOf(f, content, j) ELSE 0
      BY <1>7, <3>1
    <3>3. r \in Blocks(n)  BY <2>2, <2>5, <3>2, PropertyStep
    <3>4. CASE field(i) # f
      <4>1. j \notin Place(field(i))
        <5>1. field(i) \in FieldSet(def) \ {f}  BY <1>1, <3>4 DEF FieldSet
        <5>. QED  BY <5>1 DEF Apart
      <4>2. r[j + 1] = run[i - 1][j + 1]
        BY <1>5, <2>2, <2>5, <3>2, <4>1, PropertyLeaves
      <4>. QED  BY <2>1, <2>3, <3>2, <3>3, <3>4, <4>2
    <3>5. CASE field(i) = f
      <4>1. r[j + 1] = IF f.name \in DOMAIN content /\ Encoded(f, content[f.name]) # Err
                       THEN ByteOf(f, content, j) ELSE run[i - 1][j + 1]
        BY <1>5, <2>2, <2>5, <3>2, <3>5, PropertyByte
      <4>2. r[j + 1] = ByteOf(f, content, j)  BY <3>2, <4>1 DEF ByteOf
      <4>. QED  BY <2>1, <2>3, <3>3, <3>5, <4>2
    <3>. QED  BY <3>4, <3>5
  <2>. QED  BY <2>4, <2>5
<1>. HIDE DEF m, Good
<1>8. Good \in SUBSET (0..m)  BY DEF Good
<1>9. m \in Good  BY <1>1, <1>6, <1>7, <1>8, Rounds
<1>. QED  BY <1>2, <1>4, <1>9 DEF Good

-----------------------------------------------------------------------------
(* DataBlock's loops and tables.                                            *)

LEMMA SchemaSizeType ==
    ASSUME NEW f \in Field
    PROVE  /\ SchemaSizeOf(SchemaField(f)) \in Nat
           /\ SchemaField(f).offset = f.offset /\ SchemaField(f).count = f.count
           /\ SchemaField(f).name = f.name
<1>1. f.type \in Types /\ f.byteSize \in Nat \cup {Absent}  BY DEF Field
<1>2. SchemaTypeSize(FromStr(f.type)) \in Nat
  <2>1. FromStr(f.type) \in {"boolean", "integer", "ip", "longasint", "longasdatetime",
                             "integerasbigdecimal", "datetime", "word", "dint", "dword",
                             "lint", "long", "string", "wstring", "byte"}
    BY DEF FromStr
  <2>2. 2 * Base \in Nat  BY BaseAssumption
  <2>. QED  BY <2>1, <2>2, BaseAssumption DEF SchemaTypeSize
<1>. QED  BY <1>1, <1>2 DEF SchemaSizeOf, SchemaField

\* The two tables agree on the types that both decoders know by one name.
LEMMA TablesAgree ==
    ASSUME NEW f \in Field, f.type \in Shared
    PROVE  /\ SchemaSizeOf(SchemaField(f)) = SizeOf(f)
           /\ SchemaField(f).type = f.type /\ f.type \in Codecs
           /\ ~SchemaField(f).text
<1>1. f.type \in Codecs /\ f.type # "wstring" /\ FromStr(f.type) = f.type
  BY DEF Shared, Faithful
<1>2. f.type \in {"boolean", "byte", "integer", "word", "dint", "dword", "lint", "ip",
                  "string", "datetime"}
  BY <1>1 DEF FromStr, Codecs, Numbers
<1>3. SchemaTypeSize(f.type) = TypeSize(f.type)
  BY <1>2 DEF SchemaTypeSize, TypeSize
<1>. QED  BY <1>1, <1>2, <1>3 DEF SchemaSizeOf, SizeOf, SchemaField

\* calculate_size ends with a number.
LEMMA SizeSumType ==
    ASSUME NEW fields, Len(fields) \in Nat,
           \A i \in 1..Len(fields) : fields[i].count * SchemaSizeOf(fields[i]) \in Nat
    PROVE  SizeSum(fields) \in Nat
<1>. DEFINE n == Len(fields)
            size(i) == fields[i].count * SchemaSizeOf(fields[i])
            Sum(f) == f = [i \in 0..n |-> IF i = 0 THEN 0 ELSE f[i - 1] + size(i)]
            c == CHOOSE f : Sum(f)
<1>1. \E f : Sum(f)
  <2>. DEFINE S == Nat
              G == [p \in S \X (1..n) |-> p[1] + size(p[2])]
  <2>. HIDE DEF size, n
  <2>1. \A i \in 1..n : size(i) \in Nat  BY DEF size, n
  <2>2. G \in [S \X (1..n) -> S]  BY <2>1
  <2>3. PICK run : IsRun(run, n, S, 0, G)
    <3>1. n \in Nat /\ 0 \in S  BY DEF n
    <3>. HIDE DEF G, S
    <3>. QED  BY <2>2, <3>1, RunExists
  <2>4. ASSUME NEW i \in 0..n
        PROVE  run[i] = IF i = 0 THEN 0 ELSE run[i - 1] + size(i)
    <3>1. CASE i = 0  BY <2>3, <3>1 DEF IsRun
    <3>2. CASE i # 0
      <4>1. i - 1 \in 0..n /\ i \in 1..n  BY <3>2 DEF n
      <4>2. <<run[i - 1], i>> \in S \X (1..n)  BY <2>3, <4>1 DEF IsRun
      <4>3. G[<<run[i - 1], i>>] = run[i - 1] + size(i)  BY <4>2
      <4>. QED  BY <2>3, <3>2, <4>3 DEF IsRun
    <3>. QED  BY <3>1, <3>2
  <2>5. run = [i \in 0..n |-> run[i]]  BY <2>3 DEF IsRun
  <2>6. Sum(run)  BY <2>4, <2>5
  <2>. QED  BY <2>6 DEF size, n
<1>2. Sum(c)  BY <1>1
<1>3. SizeSum(fields) = c[n]  BY DEF SizeSum
<1>. HIDE DEF c, size
<1>4. c[0] = 0 /\ \A i \in 1..n : c[i] = c[i - 1] + size(i)  BY <1>2
<1>. DEFINE Good == {i \in 0..n : c[i] \in Nat}
<1>5. ASSUME NEW i \in 1..n, i - 1 \in Good  PROVE i \in Good
  <2>1. size(i) \in Nat  BY DEF size
  <2>. QED  BY <1>4, <1>5, <2>1
<1>6. 0 \in Good  BY <1>4
<1>. HIDE DEF n
<1>7. Good \in SUBSET (0..n) /\ n \in Nat  BY DEF n
<1>. HIDE DEF Good
<1>8. n \in Good  BY <1>5, <1>6, <1>7, Rounds
<1>. QED  BY <1>3, <1>8 DEF Good, n

SchemaEncoded(f, v) == SchemaEncodeValue(SchemaField(f), v)

\* DataBlock copies a value to its place when that is in the block, and
\* nowhere else.
LEMMA SchemaItemByte ==
    ASSUME NEW n \in Nat, NEW b \in Blocks(n), NEW f \in Field, NEW k \in Nat, NEW v,
           SchemaEncoded(f, v) \in {Err} \cup Seq(Byte)
    PROVE  LET start == f.offset + k * SchemaSizeOf(SchemaField(f))
               size  == SchemaSizeOf(SchemaField(f))
               enc   == SchemaEncoded(f, v)
               r     == SchemaEncodeItem(b, SchemaField(f), k, v)
           IN  /\ r \in Blocks(n) \cup {Panic}
               /\ r # Panic => \A j \in 0..(n - 1) :
                     r[j + 1] = IF enc # Err /\ start + size <= n /\ j \in start..(start + size - 1)
                                THEN enc[j - start + 1] ELSE b[j + 1]
<1>. DEFINE size == SchemaSizeOf(SchemaField(f))
            start == f.offset + k * size
            enc == SchemaEncoded(f, v)
            end == start + size
            r == SchemaEncodeItem(b, SchemaField(f), k, v)
<1>1. start \in Nat /\ size \in Nat /\ end \in Nat
  <2>1. size \in Nat /\ f.offset \in Nat  BY SchemaSizeType, SizeType
  <2>. HIDE DEF size
  <2>2. k * size \in Nat  BY <2>1
  <2>. QED  BY <2>1, <2>2 DEF size
<1>2. Len(b) = n /\ DOMAIN b = 1..n /\ b # Panic  BY BlockIsSeq
<1>3. r = IF enc = Err \/ end > n THEN b
          ELSE IF Len(enc) # end - start THEN Panic ELSE Copy(b, start, end, enc)
  BY <1>2, SchemaSizeType DEF SchemaEncodeItem, SchemaEncoded
<1>4. enc \in {Err} \cup Seq(Byte)  OBVIOUS
<1>5. end - start = size /\ end >= start  BY <1>1
<1>6. end = start + size  OBVIOUS
<1>. HIDE DEF r, start, size, enc, end
<1>7. CASE enc = Err \/ end > n
  <2>1. r = b /\ ~(enc # Err /\ start + size <= n)  BY <1>1, <1>3, <1>6, <1>7
  <2>. QED  BY <2>1 DEF r, start, size, enc
<1>8. CASE ~(enc = Err \/ end > n) /\ Len(enc) # end - start
  BY <1>3, <1>8 DEF r
<1>9. CASE ~(enc = Err \/ end > n) /\ Len(enc) = end - start
  <2>1. r = [i \in 1..n |-> IF i \in (start + 1)..end THEN enc[i - start] ELSE b[i]]
    <3>1. ~(end < start \/ Len(enc) < end - start)  BY <1>1, <1>5, <1>9
    <3>. QED  BY <1>2, <1>3, <1>9, <3>1 DEF Copy
  <2>2. \A i \in 1..Len(enc) : enc[i] \in Byte  BY <1>4, <1>9
  <2>3. ASSUME NEW i \in 1..n
        PROVE  (IF i \in (start + 1)..end THEN enc[i - start] ELSE b[i]) \in Byte
    <3>1. CASE i \in (start + 1)..end
      <4>1. i - start \in 1..Len(enc)  BY <1>1, <1>5, <1>9, <3>1
      <4>. QED  BY <2>2, <3>1, <4>1
    <3>2. CASE i \notin (start + 1)..end
      BY <3>2 DEF Blocks
    <3>. QED  BY <3>1, <3>2
  <2>4. r \in Blocks(n)  BY <2>1, <2>3 DEF Blocks
  <2>5. ASSUME NEW j \in 0..(n - 1)
        PROVE  r[j + 1] = IF j \in start..(start + size - 1) THEN enc[j - start + 1] ELSE b[j + 1]
    <3>1. j + 1 \in 1..n /\ j + 1 - start = j - start + 1  BY <1>1
    <3>2. j + 1 \in (start + 1)..end <=> j \in start..(start + size - 1)  BY <1>1, <1>6
    <3>3. r[j + 1] = IF j + 1 \in (start + 1)..end THEN enc[j + 1 - start] ELSE b[j + 1]
      <4>1. \A i \in 1..n : r[i] = IF i \in (start + 1)..end THEN enc[i - start] ELSE b[i]
        BY <2>1
      <4>. QED  BY <1>1, <3>1, <4>1
    <3>. QED  BY <3>1, <3>2, <3>3
  <2>6. enc # Err /\ start + size <= n  BY <1>1, <1>6, <1>9
  <2>. QED  BY <2>4, <2>5, <2>6 DEF r, start, size, enc
<1>. QED  BY <1>7, <1>8, <1>9

\* How many values are encoded by DataBlock, each with a type.
LEMMA SchemaItemTypes ==
    ASSUME NEW f \in Field, NEW content, HasType(f, content), f.name \in DOMAIN content
    PROVE  LET v == content[f.name] IN
           /\ ItemCount(SchemaField(f), v) = ItemCount(f, v)
           /\ ItemCount(f, v) \in Nat /\ ItemCount(f, v) <= f.count
           /\ \A i \in 1..ItemCount(f, v) :
                 /\ Item(SchemaField(f), v, i) = Item(f, v, i)
                 /\ SchemaEncoded(f, Item(f, v, i)) \in {Err} \cup Seq(Byte)
<1>1. \A v : ItemCount(SchemaField(f), v) = ItemCount(f, v)
  BY SchemaSizeType DEF ItemCount
<1>2. \A v, i : Item(SchemaField(f), v, i) = Item(f, v, i)
  BY SchemaSizeType DEF Item
<1>3. ItemCount(f, content[f.name]) \in Nat /\ ItemCount(f, content[f.name]) <= f.count
  BY ItemTypes
<1>. QED  BY <1>1, <1>2, <1>3 DEF HasType, SchemaEncoded

\* The run of DataBlock over the values of a property.
LEMMA SchemaFieldIsRun ==
    ASSUME NEW n \in Nat, NEW b \in Blocks(n) \cup {Panic}, NEW f \in Field, NEW content,
           HasType(f, content), f.name \in DOMAIN content
    PROVE  LET v == content[f.name]
               m == ItemCount(f, v)
           IN  \E run : /\ run \in [0..m -> Blocks(n) \cup {Panic}]
                        /\ run[0] = b
                        /\ \A i \in 1..m : run[i] = SchemaEncodeItem(run[i - 1], SchemaField(f),
                                                                     i - 1, Item(f, v, i))
                        /\ SchemaEncodeProperty(b, SchemaField(f), content) = run[m]
<1>. DEFINE v == content[f.name]
            m == ItemCount(f, v)
            g == SchemaField(f)
            S == Blocks(n) \cup {Panic}
            next(x, i) == SchemaEncodeItem(x, g, i - 1, Item(g, v, i))
            Run(r) == r = [i \in 0..ItemCount(g, v) |-> IF i = 0 THEN b ELSE next(r[i - 1], i)]
            c == CHOOSE r : Run(r)
<1>1. /\ ItemCount(g, v) = m /\ m \in Nat
      /\ \A i \in 1..m : /\ Item(g, v, i) = Item(f, v, i)
                         /\ SchemaEncoded(f, Item(f, v, i)) \in {Err} \cup Seq(Byte)
  BY SchemaItemTypes
<1>2. SchemaEncodeProperty(b, g, content) = c[ItemCount(g, v)]
  BY SchemaSizeType DEF SchemaEncodeProperty, SchemaEncodeField
<1>3. ASSUME NEW i \in 1..m, NEW x \in S  PROVE next(x, i) \in S
  <2>1. CASE x = Panic
    BY <2>1 DEF SchemaEncodeItem
  <2>2. CASE x \in Blocks(n)
    <3>1. i - 1 \in Nat /\ Item(g, v, i) = Item(f, v, i)
          /\ SchemaEncoded(f, Item(f, v, i)) \in {Err} \cup Seq(Byte)
      BY <1>1
    <3>. HIDE DEF v
    <3>. QED  BY <2>2, <3>1, SchemaItemByte
  <2>. QED  BY <2>1, <2>2
<1>. HIDE DEF next, m, S
<1>4. \E r : Run(r) /\ r \in [0..m -> S]
  <2>. DEFINE G == [p \in S \X (1..m) |-> next(p[1], p[2])]
  <2>1. G \in [S \X (1..m) -> S]  BY <1>3
  <2>2. PICK r : IsRun(r, m, S, b, G)
    <3>1. b \in S /\ m \in Nat  BY <1>1 DEF S
    <3>. HIDE DEF G
    <3>. QED  BY <2>1, <3>1, RunExists
  <2>3. ASSUME NEW i \in 0..m
        PROVE  r[i] = IF i = 0 THEN b ELSE next(r[i - 1], i)
    <3>1. CASE i = 0  BY <2>2, <3>1 DEF IsRun
    <3>2. CASE i # 0
      <4>1. i - 1 \in 0..m /\ i \in 1..m  BY <1>1, <3>2
      <4>2. <<r[i - 1], i>> \in S \X (1..m)  BY <2>2, <4>1 DEF IsRun
      <4>3. G[<<r[i - 1], i>>] = next(r[i - 1], i)  BY <4>2
      <4>. QED  BY <2>2, <3>2, <4>3 DEF IsRun
    <3>. QED  BY <3>1, <3>2
  <2>4. r = [i \in 0..m |-> r[i]] /\ r \in [0..m -> S]  BY <2>2 DEF IsRun
  <2>5. Run(r)  BY <1>1, <2>3, <2>4
  <2>. QED  BY <2>4, <2>5
<1>5. Run(c)  BY <1>4
<1>. HIDE DEF c
<1>6. c[0] = b /\ \A i \in 1..m : c[i] = next(c[i - 1], i)  BY <1>1, <1>5
<1>7. c \in [0..m -> S]
  <2>. DEFINE Good == {i \in 0..m : c[i] \in S}
  <2>1. 0 \in Good  BY <1>1, <1>6 DEF S
  <2>2. \A i \in 1..m : i - 1 \in Good => i \in Good  BY <1>3, <1>6
  <2>3. Good \in SUBSET (0..m)  OBVIOUS
  <2>. HIDE DEF Good
  <2>4. Good = 0..m  BY <1>1, <2>1, <2>2, <2>3, Rounds
  <2>5. c = [i \in 0..m |-> c[i]]  BY <1>1, <1>5
  <2>6. \A i \in 0..m : c[i] \in S  BY <2>4 DEF Good
  <2>. QED  BY <2>5, <2>6
<1>8. \A i \in 1..m : c[i] = SchemaEncodeItem(c[i - 1], g, i - 1, Item(f, v, i))
  BY <1>1, <1>6 DEF next
<1>9. SchemaEncodeProperty(b, g, content) = c[m]  BY <1>1, <1>2
<1>. HIDE DEF g, v
<1>. QED  BY <1>6, <1>7, <1>8, <1>9 DEF g, v, m, S

\* A property of DataBlock keeps the block's size, and after a panic nothing is
\* written.
LEMMA SchemaPropertyStep ==
    ASSUME NEW n \in Nat, NEW b \in Blocks(n) \cup {Panic}, NEW f \in Field, NEW content,
           HasType(f, content)
    PROVE  /\ SchemaEncodeProperty(b, SchemaField(f), content) \in Blocks(n) \cup {Panic}
           /\ b = Panic => SchemaEncodeProperty(b, SchemaField(f), content) = Panic
<1>1. CASE f.name \notin DOMAIN content
  BY <1>1, SchemaSizeType DEF SchemaEncodeProperty
<1>2. CASE f.name \in DOMAIN content
  <2>. DEFINE v == content[f.name]
              m == ItemCount(f, v)
  <2>1. m \in Nat  BY <1>2, ItemTypes
  <2>2. PICK run : /\ run \in [0..m -> Blocks(n) \cup {Panic}]
                   /\ run[0] = b
                   /\ \A i \in 1..m : run[i] = SchemaEncodeItem(run[i - 1], SchemaField(f),
                                                                i - 1, Item(f, v, i))
                   /\ SchemaEncodeProperty(b, SchemaField(f), content) = run[m]
    BY <1>2, <2>1, SchemaFieldIsRun
  <2>. DEFINE Good == {i \in 0..m : b = Panic => run[i] = Panic}
  <2>3. \A i \in 1..m : i - 1 \in Good => i \in Good  BY <2>2 DEF SchemaEncodeItem
  <2>4. 0 \in Good  BY <2>1, <2>2
  <2>. HIDE DEF m
  <2>5. Good \in SUBSET (0..m)  OBVIOUS
  <2>. HIDE DEF Good
  <2>6. m \in Good  BY <2>1, <2>3, <2>4, <2>5, Rounds
  <2>7. run[m] \in Blocks(n) \cup {Panic}  BY <2>1, <2>2
  <2>. QED  BY <2>2, <2>6, <2>7 DEF Good
<1>. QED  BY <1>1, <1>2

\* The k-th value of a field has its place in the field's.
LEMMA SchemaItemPlace ==
    ASSUME NEW f \in Field, NEW k \in Nat, k < f.count, NEW j,
           j \in (f.offset + k * SchemaSizeOf(SchemaField(f)))
                 ..(f.offset + k * SchemaSizeOf(SchemaField(f)) + SchemaSizeOf(SchemaField(f)) - 1)
    PROVE  j \in SchemaPlace(f)
<1>. DEFINE size == SchemaSizeOf(SchemaField(f))
<1>1. size \in Nat /\ f.offset \in Nat /\ f.count \in Nat  BY SizeType, SchemaSizeType
<1>2. SchemaPlace(f) = f.offset..(f.offset + f.count * size - 1)  BY DEF SchemaPlace
<1>3. j \in (f.offset + k * size)..(f.offset + k * size + size - 1)  OBVIOUS
<1>. DEFINE before == k * size
            all == f.count * size
<1>. HIDE DEF size
<1>4. before + size <= all /\ before \in Nat /\ all \in Nat  BY <1>1, Products
<1>5. j \in (f.offset + before)..(f.offset + before + size - 1)  BY <1>3
<1>. HIDE DEF before, all
<1>6. j \in f.offset..(f.offset + all - 1)  BY <1>1, <1>4, <1>5
<1>. QED  BY <1>2, <1>6 DEF all

LEMMA SchemaPropertyLeaves ==
    ASSUME NEW n \in Nat, NEW b \in Blocks(n), NEW f \in Field, NEW content,
           HasType(f, content), NEW j \in 0..(n - 1), j \notin SchemaPlace(f),
           SchemaEncodeProperty(b, SchemaField(f), content) # Panic
    PROVE  SchemaEncodeProperty(b, SchemaField(f), content)[j + 1] = b[j + 1]
<1>1. CASE f.name \notin DOMAIN content
  BY <1>1, SchemaSizeType DEF SchemaEncodeProperty
<1>2. CASE f.name \in DOMAIN content
  <2>. DEFINE v == content[f.name]
              m == ItemCount(f, v)
  <2>1. /\ m \in Nat /\ m <= f.count
        /\ \A i \in 1..m : SchemaEncoded(f, Item(f, v, i)) \in {Err} \cup Seq(Byte)
    BY <1>2, SchemaItemTypes
  <2>2. PICK run : /\ run \in [0..m -> Blocks(n) \cup {Panic}]
                   /\ run[0] = b
                   /\ \A i \in 1..m : run[i] = SchemaEncodeItem(run[i - 1], SchemaField(f),
                                                                i - 1, Item(f, v, i))
                   /\ SchemaEncodeProperty(b, SchemaField(f), content) = run[m]
    <3>1. m \in Nat /\ b \in Blocks(n) \cup {Panic}  BY <2>1
    <3>. QED  BY <1>2, <3>1, SchemaFieldIsRun
  <2>. HIDE DEF v
  <2>. DEFINE Good == {i \in 0..m : run[i] = Panic \/ run[i][j + 1] = b[j + 1]}
  <2>3. ASSUME NEW i \in 1..m, i - 1 \in Good  PROVE i \in Good
    <3>1. CASE run[i - 1] = Panic
      <4>1. run[i] = Panic  BY <2>2, <3>1 DEF SchemaEncodeItem
      <4>. QED  BY <4>1
    <3>2. CASE run[i - 1] # Panic /\ run[i] # Panic
      <4>1. run[i - 1][j + 1] = b[j + 1]  BY <2>3, <3>2
      <4>2. i - 1 \in Nat /\ i - 1 < f.count
        <5>1. m \in Nat /\ m <= f.count /\ f.count \in Nat  BY <2>1, SizeType
        <5>. HIDE DEF m
        <5>. QED  BY <5>1
      <4>3. SchemaEncoded(f, Item(f, v, i)) \in {Err} \cup Seq(Byte)  BY <2>1
      <4>4. run[i - 1] \in Blocks(n)
        <5>1. i - 1 \in 0..m  BY <2>1
        <5>. QED  BY <2>2, <3>2, <5>1
      <4>. DEFINE size == SchemaSizeOf(SchemaField(f))
                  start == f.offset + (i - 1) * size
                  r == SchemaEncodeItem(run[i - 1], SchemaField(f), i - 1, Item(f, v, i))
      <4>5. r # Panic /\ run[i] = r  BY <2>2, <3>2
      <4>6. j \notin start..(start + size - 1)  BY <4>2, SchemaItemPlace
      <4>7. r[j + 1] = run[i - 1][j + 1]
        BY <4>2, <4>3, <4>4, <4>5, <4>6, SchemaItemByte
      <4>. QED  BY <4>1, <4>5, <4>7
    <3>. QED  BY <3>1, <3>2
  <2>4. 0 \in Good  BY <2>1, <2>2
  <2>. HIDE DEF m
  <2>5. Good \in SUBSET (0..m)  OBVIOUS
  <2>. HIDE DEF Good
  <2>6. m \in Good  BY <2>1, <2>3, <2>4, <2>5, Rounds
  <2>. QED  BY <2>2, <2>6 DEF Good
<1>. QED  BY <1>1, <1>2

\* A single value that both decoders know by one name is written by DataBlock
\* to the same bytes as by encode.
LEMMA SchemaPropertyByte ==
    ASSUME NEW n \in Nat, NEW b \in Blocks(n), NEW f \in Field, NEW content,
           HasType(f, content), f.count = 1, f.type \in Shared,
           f.offset + SizeOf(f) <= n, NEW j \in 0..(n - 1), j \in Place(f),
           SchemaEncodeProperty(b, SchemaField(f), content) # Panic
    PROVE  SchemaEncodeProperty(b, SchemaField(f), content)[j + 1] =
               IF f.name \in DOMAIN content /\ Encoded(f, content[f.name]) # Err
               THEN ByteOf(f, content, j) ELSE b[j + 1]
<1>1. CASE f.name \notin DOMAIN content
  BY <1>1, SchemaSizeType DEF SchemaEncodeProperty
<1>2. CASE f.name \in DOMAIN content
  <2>. DEFINE v == content[f.name]
              r == SchemaEncodeItem(b, SchemaField(f), 0, v)
  <2>1. ItemCount(f, v) = 1 /\ Item(f, v, 1) = v  BY DEF ItemCount, Item
  <2>2. SchemaEncoded(f, v) \in {Err} \cup Seq(Byte)  BY <1>2, <2>1, SchemaItemTypes
  <2>3. SchemaEncodeProperty(b, SchemaField(f), content) = r
    <3>1. PICK run : /\ run[0] = b
                     /\ \A i \in 1..1 : run[i] = SchemaEncodeItem(run[i - 1], SchemaField(f),
                                                                  i - 1, Item(f, v, i))
                     /\ SchemaEncodeProperty(b, SchemaField(f), content) = run[1]
      BY <1>2, <2>1, SchemaFieldIsRun
    <3>2. 1 \in 1..1 /\ 1 - 1 = 0  OBVIOUS
    <3>. QED  BY <2>1, <3>1, <3>2
  <2>4. /\ f.offset + 0 * SizeOf(f) = f.offset
        /\ j \in f.offset..(f.offset + SizeOf(f) - 1)
    BY SizeType DEF Place
  <2>5. SchemaEncoded(f, v) = Encoded(f, v) /\ SchemaSizeOf(SchemaField(f)) = SizeOf(f)
    BY TablesAgree DEF SchemaEncoded, SchemaEncodeValue, Encoded
  <2>. HIDE DEF v
  <2>6. r[j + 1] = IF Encoded(f, v) # Err THEN Encoded(f, v)[j - f.offset + 1] ELSE b[j + 1]
    BY <2>2, <2>3, <2>4, <2>5, SchemaItemByte
  <2>. QED  BY <1>2, <2>3, <2>6 DEF v, ByteOf
<1>. QED  BY <1>1, <1>2

\* DataBlock's encode leaves in the place of a single value that no other field
\* overlaps, by the sizes of its own table, the bytes that encode leaves there.
LEMMA SchemaEncodeByte ==
    ASSUME NEW def, NEW content, def.fields \in Seq(Field),
           \A i \in DOMAIN def.fields : HasType(def.fields[i], content),
           NEW f \in FieldSet(def), f.count = 1, f.type \in Shared,
           \A g \in FieldSet(def) \ {f} : Place(f) \cap SchemaPlace(g) = {},
           SchemaEncode(content, Schema(def)) # Panic, NEW j \in Place(f),
           f.offset + SizeOf(f) <= Len(SchemaEncode(content, Schema(def)))
    PROVE  SchemaEncode(content, Schema(def))[j + 1] = ByteOf(f, content, j)
<1>. DEFINE m == Len(def.fields)
            n == Schema(def).size
            field(i) == def.fields[i]
            fields == Schema(def).fields
            next(x, i) == SchemaEncodeProperty(x, fields[i], content)
            S == Blocks(n) \cup {Panic}
            Run(r) == r = [i \in 0..Len(fields) |-> IF i = 0 THEN Zeros(n) ELSE next(r[i - 1], i)]
            c == CHOOSE r : Run(r)
<1>1. m \in Nat /\ DOMAIN def.fields = 1..m /\ \A i \in 1..m : field(i) \in Field
  BY LenProperties
<1>2. fields = [i \in 1..m |-> SchemaField(field(i))]  BY <1>1 DEF Schema
<1>3. Len(fields) = m /\ \A i \in 1..m : fields[i] = SchemaField(field(i))
  <2>. DEFINE T == {SchemaField(g) : g \in Field}
  <2>. HIDE DEF fields, m
  <2>1. fields \in [1..m -> T]  BY <1>1, <1>2
  <2>2. fields \in Seq(T) /\ DOMAIN fields = 1..m  BY <1>1, <2>1
  <2>3. Len(fields) \in Nat /\ DOMAIN fields = 1..Len(fields)  BY <2>2, LenProperties
  <2>4. Len(fields) = m  BY <1>1, <2>2, <2>3
  <2>. QED  BY <1>2, <2>4
<1>4. n \in Nat
  <2>1. n = SizeSum(fields)  BY DEF Schema
  <2>. HIDE DEF fields
  <2>2. ASSUME NEW i \in 1..Len(fields)
        PROVE  fields[i].count * SchemaSizeOf(fields[i]) \in Nat
    <3>1. fields[i] = SchemaField(field(i)) /\ field(i) \in Field  BY <1>1, <1>3
    <3>. HIDE DEF field
    <3>2. SchemaSizeOf(fields[i]) \in Nat /\ fields[i].count \in Nat
      BY <3>1, SchemaSizeType, SizeType
    <3>. QED  BY <3>2
  <2>. QED  BY <1>1, <1>3, <2>1, <2>2, SizeSumType
<1>5. Zeros(n) \in Blocks(n) /\ \A i \in 1..n : Zeros(n)[i] = 0
  BY <1>4, ByteType DEF Zeros, Blocks
<1>6. SchemaEncode(content, Schema(def)) = c[Len(fields)]  BY DEF SchemaEncode
<1>7. \A i \in 1..m : HasType(field(i), content)  BY <1>1
<1>. HIDE DEF n, m, fields, field, S, c
<1>8. ASSUME NEW i \in 1..m, NEW x \in S
      PROVE  /\ next(x, i) = SchemaEncodeProperty(x, SchemaField(field(i)), content)
             /\ next(x, i) \in S /\ (x = Panic => next(x, i) = Panic)
  BY <1>1, <1>3, <1>4, <1>7, SchemaPropertyStep DEF S
<1>. HIDE DEF next
<1>9. \E r : Run(r)
  <2>. DEFINE G == [p \in S \X (1..m) |-> next(p[1], p[2])]
  <2>1. G \in [S \X (1..m) -> S]  BY <1>8
  <2>2. PICK r : IsRun(r, m, S, Zeros(n), G)
    <3>1. Zeros(n) \in S  BY <1>5 DEF S
    <3>. HIDE DEF G
    <3>. QED  BY <1>1, <2>1, <3>1, RunExists
  <2>3. ASSUME NEW i \in 0..m
        PROVE  r[i] = IF i = 0 THEN Zeros(n) ELSE next(r[i - 1], i)
    <3>1. CASE i = 0  BY <2>2, <3>1 DEF IsRun
    <3>2. CASE i # 0
      <4>1. i - 1 \in 0..m /\ i \in 1..m  BY <1>1, <3>2
      <4>2. <<r[i - 1], i>> \in S \X (1..m)  BY <2>2, <4>1 DEF IsRun
      <4>3. G[<<r[i - 1], i>>] = next(r[i - 1], i)  BY <4>2
      <4>. QED  BY <2>2, <3>2, <4>3 DEF IsRun
    <3>. QED  BY <3>1, <3>2
  <2>4. r = [i \in 0..m |-> r[i]]  BY <2>2 DEF IsRun
  <2>5. Run(r)  BY <1>1, <1>3, <2>3, <2>4
  <2>. QED  BY <2>5
<1>10. c[0] = Zeros(n) /\ \A i \in 1..m : c[i] = next(c[i - 1], i)
  <2>1. Run(c)  BY <1>9 DEF c
  <2>. QED  BY <1>1, <1>3, <2>1
<1>11. f \in Field /\ \E i \in 1..m : f = field(i)  BY <1>1 DEF FieldSet, field
<1>12. /\ SizeOf(f) \in Nat /\ f.offset \in Nat
       /\ j \in Nat /\ j < f.offset + SizeOf(f) /\ j >= f.offset
  <2>1. SizeOf(f) \in Nat /\ f.offset \in Nat  BY <1>11, SizeType
  <2>. QED  BY <2>1 DEF Place
<1>. DEFINE seen(i) == \E k \in 1..i : f = field(k)
            fits == f.offset + SizeOf(f) <= n
            Good == {i \in 0..m :
                        \/ c[i] = Panic
                        \/ /\ c[i] \in Blocks(n)
                           /\ fits => c[i][j + 1] = IF seen(i) THEN ByteOf(f, content, j) ELSE 0}
<1>13. fits => j \in 0..(n - 1) /\ j + 1 \in 1..n  BY <1>4, <1>12
<1>14. 0 \in Good
  <2>1. ~seen(0)  OBVIOUS
  <2>. HIDE DEF seen
  <2>. QED  BY <1>1, <1>5, <1>10, <1>13, <2>1
<1>15. ASSUME NEW i \in 1..m, i - 1 \in Good  PROVE i \in Good
  <2>. DEFINE r == SchemaEncodeProperty(c[i - 1], SchemaField(field(i)), content)
  <2>1. c[i - 1] \in S  BY <1>15 DEF S
  <2>2. c[i] = r /\ r \in S /\ (c[i - 1] = Panic => r = Panic)  BY <1>8, <1>10, <2>1
  <2>3. field(i) \in Field /\ HasType(field(i), content)  BY <1>1, <1>7
  <2>4. seen(i) <=> seen(i - 1) \/ f = field(i)  BY <1>1
  <2>. HIDE DEF seen
  <2>5. CASE r = Panic
    BY <2>2, <2>5
  <2>6. CASE r # Panic
    <3>1. /\ c[i - 1] \in Blocks(n) /\ r \in Blocks(n)
          /\ fits => c[i - 1][j + 1] = IF seen(i - 1) THEN ByteOf(f, content, j) ELSE 0
      BY <1>15, <2>2, <2>6 DEF S
    <3>2. CASE ~fits
      BY <2>2, <3>1, <3>2
    <3>3. CASE fits /\ field(i) # f
      <4>1. j \notin SchemaPlace(field(i))
        <5>1. field(i) \in FieldSet(def) \ {f}  BY <1>1, <3>3 DEF FieldSet, field
        <5>. QED  BY <5>1
      <4>2. r[j + 1] = c[i - 1][j + 1]
        BY <1>4, <1>13, <2>3, <2>6, <3>1, <3>3, <4>1, SchemaPropertyLeaves
      <4>. QED  BY <2>2, <2>4, <3>1, <3>3, <4>2
    <3>4. CASE fits /\ field(i) = f
      <4>1. r[j + 1] = IF f.name \in DOMAIN content /\ Encoded(f, content[f.name]) # Err
                       THEN ByteOf(f, content, j) ELSE c[i - 1][j + 1]
        BY <1>4, <1>13, <2>3, <2>6, <3>1, <3>4, SchemaPropertyByte
      <4>2. r[j + 1] = ByteOf(f, content, j)  BY <3>1, <3>4, <4>1 DEF ByteOf
      <4>. QED  BY <2>2, <2>4, <3>1, <3>4, <4>2
    <3>. QED  BY <3>2, <3>3, <3>4
  <2>. QED  BY <2>5, <2>6
<1>. HIDE DEF Good
<1>16. Good \in SUBSET (0..m)  BY DEF Good
<1>17. m \in Good  BY <1>1, <1>14, <1>15, <1>16, Rounds
<1>18. c[m] # Panic /\ SchemaEncode(content, Schema(def)) = c[m]  BY <1>3, <1>6
<1>19. c[m] \in Blocks(n)  BY <1>17, <1>18 DEF Good
<1>20. fits  BY <1>4, <1>18, <1>19, BlockIsSeq
<1>. QED  BY <1>11, <1>17, <1>18, <1>20 DEF Good

-----------------------------------------------------------------------------
(* The two decoders and encoders agree.                                     *)

\* A single value in a block is decoded alike.
LEMMA SchemaDecodesField ==
    ASSUME NEW n \in Nat, NEW b \in Blocks(n), NEW f \in Field, f.type \in Shared,
           f.count = 1, Place(f) \subseteq 0..(n - 1)
    PROVE  SchemaDecodeField(b, SchemaField(f)) = DecodeField(b, f)
<1>. DEFINE size == SizeOf(f)
            from == f.offset
            end == from + size
            part == SubSeq(b, from + 1, end)
<1>1. size \in Nat /\ from \in Nat /\ end \in Nat  BY SizeType
<1>2. Len(b) = n /\ b \in Seq(Byte)  BY BlockIsSeq
<1>3. f.type \in Codecs  BY TablesAgree
<1>4. SchemaDecodeField(b, SchemaField(f)) = IF end > n THEN Err ELSE DecodeValue(f.type, part)
  BY <1>2, <1>3, TablesAgree, SchemaSizeType DEF SchemaDecodeField
<1>5. DecodeField(b, f) = IF from >= n THEN Err
                          ELSE DecodeValue(f.type, SubSeq(b, from + 1, Least(end, n)))
  BY <1>2, <1>3 DEF DecodeField, DecodeSlice
<1>6. Place(f) = from..(end - 1)  BY <1>1 DEF Place
<1>. HIDE DEF size, from, end, part
<1>7. CASE size = 0
  <2>1. end = from  BY <1>1, <1>7 DEF end
  <2>2. SubSeq(b, from + 1, end) = <<>> /\ SubSeq(b, from + 1, Least(end, n)) = <<>>
    <3>1. end < from + 1 /\ Least(end, n) < from + 1 /\ Least(end, n) \in Int
      BY <1>1, <2>1 DEF Least
    <3>. QED  BY <1>1, <3>1, SubSeqEmpty
  <2>3. DecodeValue(f.type, <<>>) = Err  BY <1>3, DecodeNothing
  <2>4. part = <<>>  BY <2>2 DEF part
  <2>5. DecodeValue(f.type, part) = Err  BY <2>3, <2>4
  <2>6. DecodeValue(f.type, SubSeq(b, from + 1, Least(end, n))) = Err  BY <2>2, <2>3
  <2>. QED  BY <1>4, <1>5, <2>5, <2>6
<1>8. CASE size # 0
  <2>1. end <= n /\ from < n
    <3>1. end = from + size  BY DEF end
    <3>2. end - 1 \in Place(f)  BY <1>1, <1>6, <1>8, <3>1
    <3>. QED  BY <1>1, <1>8, <3>1, <3>2
  <2>2. Least(end, n) = end  BY <2>1 DEF Least
  <2>3. ~(end > n) /\ ~(from >= n)  BY <1>1, <2>1
  <2>. QED  BY <1>4, <1>5, <2>2, <2>3 DEF part
<1>. QED  BY <1>7, <1>8

\* In DataBlock's map a field that shares its name with none is what it is
\* decoded to.
LEMMA SchemaMapOf ==
    ASSUME NEW d, NEW def, def.fields \in Seq(Field), NEW f \in FieldSet(def), Named(f, def)
    PROVE  LET map == SchemaDecode(d, Schema(def))
               v   == SchemaDecodeField(d, SchemaField(f))
           IN  /\ f.name \in DOMAIN map <=> v # Err
               /\ f.name \in DOMAIN map => map[f.name] = v
<1>. DEFINE fields == Schema(def).fields
            map == SchemaDecode(d, Schema(def))
            v == SchemaDecodeField(d, SchemaField(f))
            decoded == {i \in DOMAIN fields : SchemaDecodeField(d, fields[i]) # Err}
            named == {i \in decoded : fields[i].name = f.name}
<1>1. DOMAIN def.fields = 1..Len(def.fields) /\ Len(def.fields) \in Nat  BY LenProperties
<1>2. /\ DOMAIN fields = DOMAIN def.fields
      /\ \A i \in DOMAIN fields : fields[i] = SchemaField(def.fields[i])
  BY DEF Schema
<1>3. \A i \in DOMAIN fields : def.fields[i] \in Field /\ fields[i].name = def.fields[i].name
  <2>1. TAKE i \in DOMAIN fields
  <2>2. def.fields[i] \in Field  BY <1>1, <1>2, ElementOfSeq
  <2>. QED  BY <1>2, <2>2, SchemaSizeType
<1>4. PICK k \in DOMAIN fields : def.fields[k] = f  BY <1>2 DEF FieldSet
<1>5. \A i \in DOMAIN fields : fields[i].name = f.name => fields[i] = SchemaField(f)
  BY <1>2, <1>3 DEF FieldSet, Named
<1>6. fields[k] = SchemaField(f) /\ fields[k].name = f.name  BY <1>2, <1>3, <1>4
<1>7. DOMAIN map = {fields[i].name : i \in decoded}  BY DEF SchemaDecode
<1>8. CASE v = Err
  <2>1. f.name \notin DOMAIN map
    <3>. HIDE DEF fields, map
    <3>. QED  BY <1>5, <1>7, <1>8
  <2>. QED  BY <1>8, <2>1
<1>9. CASE v # Err
  <2>1. k \in named  BY <1>4, <1>6, <1>9
  <2>2. f.name \in {fields[i].name : i \in decoded}  BY <2>1
  <2>3. map[f.name] = SchemaDecodeField(d, fields[Max(named)])
    BY <2>2 DEF SchemaDecode
  <2>4. named \in SUBSET (1..Len(def.fields))  BY <1>1, <1>2
  <2>. HIDE DEF fields, map
  <2>5. Max(named) \in named
    <3>. HIDE DEF named
    <3>. QED  BY <1>1, <2>1, <2>4, LastIndex
  <2>6. fields[Max(named)] = SchemaField(f)  BY <1>5, <2>5
  <2>. QED  BY <1>7, <1>9, <2>2, <2>3, <2>6 DEF map
<1>. QED  BY <1>8, <1>9

\* Of the types in Shared, and of them alone, the two encoders write a field of one
\* value to the same bytes and the two decoders read it alike, for every base,
\* definition and content in which no other field has its name or, by the sizes of
\* either table, one of its bytes (deploy.rs 326-377, 267-306; data_block.rs
\* 134-259).  Nothing is said of arrays and of the types on which the tables
\* differ: date, char, intAsBigDecimal, longAsInt, longAsDateTime, the aliases.
THEOREM SchemasAlwaysAgree == Spec => []SchemasAgree
<1>1. ConvInv => SchemasAgree
  <2>. DEFINE def == object.def
              bytes == SchemaEncode(object.content, Schema(def))
              map == SchemaDecode(data, Schema(def))
  <2>. SUFFICES ASSUME ConvInv, schema # Nothing, NEW f \in FieldSet(def),
                       f.type \in Shared, f.count = 1, Apart(f, def), Named(f, def),
                       \A g \in FieldSet(def) \ {f} : Place(f) \cap SchemaPlace(g) = {}
                PROVE  /\ Place(f) \subseteq 0..(def.size - 1) =>
                            /\ f.name \in DOMAIN schema.values <=> DecodeField(data, f) # Err
                            /\ f.name \in DOMAIN schema.values =>
                                  schema.values[f.name] = DecodeField(data, f)
                       /\ schema.bytes # Panic =>
                            \A i \in Place(f) :
                               i < def.size /\ f.offset + SizeOf(f) <= Len(schema.bytes) =>
                                  schema.bytes[i + 1] = data[i + 1]
    BY DEF SchemasAgree
  <2>1. /\ object # Nothing /\ data \notin {Nothing, Panic}
        /\ schema.bytes = bytes /\ schema.values = map
    BY DEF ConvInv
  <2>2. data = Encode(object.content, def)  BY <2>1 DEF ConvInv
  <2>3. /\ def.size \in Nat /\ def.fields \in Seq(Field) /\ f \in Field
        /\ \A i \in DOMAIN def.fields : HasType(def.fields[i], object.content)
    BY <2>1, ObjectTypes
  <2>4. data \in Blocks(def.size)  BY <2>1, <2>2, <2>3, EncodeTypes
  <2>5. ASSUME Place(f) \subseteq 0..(def.size - 1)
        PROVE  /\ f.name \in DOMAIN map <=> DecodeField(data, f) # Err
               /\ f.name \in DOMAIN map => map[f.name] = DecodeField(data, f)
    <3>1. SchemaDecodeField(data, SchemaField(f)) = DecodeField(data, f)
      BY <2>3, <2>4, <2>5, SchemaDecodesField
    <3>. QED  BY <2>3, <3>1, SchemaMapOf
  <2>6. ASSUME bytes # Panic, NEW i \in Place(f), i < def.size,
               f.offset + SizeOf(f) <= Len(bytes)
        PROVE  bytes[i + 1] = data[i + 1]
    <3>1. bytes[i + 1] = ByteOf(f, object.content, i)  BY <2>3, <2>6, SchemaEncodeByte
    <3>2. data[i + 1] = ByteOf(f, object.content, i)
      BY <2>1, <2>2, <2>3, <2>6, EncodeByte
    <3>. QED  BY <3>1, <3>2
  <2>. QED  BY <2>1, <2>5, <2>6
<1>. QED  BY <1>1, ConvInvHolds, PTL

-----------------------------------------------------------------------------
(* Numbers and their bytes.                                                 *)

\* The powers of Base.
LEMMA PowIs ==
    /\ Pow[0] = 1
    /\ \A k \in 1..8 : Pow[k] = Base * Pow[k - 1]
    /\ \A k \in 0..8 : Pow[k] \in Nat \ {0}
<1>. DEFINE Is(p) == p = [k \in 0..8 |-> IF k = 0 THEN 1 ELSE Base * p[k - 1]]
            G == [p \in Nat \X (1..8) |-> Base * p[1]]
<1>1. Base \in Nat /\ Base > 0  BY ByteType
<1>2. PICK run : IsRun(run, 8, Nat, 1, G)
  <2>1. G \in [Nat \X (1..8) -> Nat]  BY <1>1
  <2>. HIDE DEF G
  <2>. QED  BY <2>1, RunExists
<1>3. Is(run)
  <2>1. \A k \in 1..8 : <<run[k - 1], k>> \in Nat \X (1..8)  BY <1>2 DEF IsRun
  <2>2. \A k \in 1..8 : G[<<run[k - 1], k>>] = Base * run[k - 1]  BY <2>1
  <2>. HIDE DEF G
  <2>3. \A k \in 0..8 : run[k] = IF k = 0 THEN 1 ELSE Base * run[k - 1]
    BY <1>2, <2>2 DEF IsRun
  <2>4. run = [k \in 0..8 |-> run[k]]  BY <1>2 DEF IsRun
  <2>. QED  BY <2>3, <2>4
<1>4. Is(Pow)  BY <1>3 DEF Pow
<1>5. Pow[0] = 1 /\ \A k \in 1..8 : Pow[k] = Base * Pow[k - 1]  BY <1>4
<1>. DEFINE Good == {k \in 0..8 : Pow[k] \in Nat \ {0}}
<1>6. ASSUME NEW k \in 1..8, k - 1 \in Good  PROVE k \in Good
  <2>1. Pow[k - 1] \in Nat \ {0}  BY <1>6
  <2>. DEFINE p == Pow[k - 1]
  <2>. HIDE DEF p
  <2>2. p \in Nat \ {0} => Base * p \in Nat \ {0}  BY <1>1
  <2>. QED  BY <1>5, <2>1, <2>2 DEF p
<1>7. 0 \in Good  BY <1>5
<1>8. Good = 0..8
  <2>1. Good \in SUBSET (0..8)  OBVIOUS
  <2>. HIDE DEF Good
  <2>. QED  BY <1>6, <1>7, <2>1, Rounds
<1>. QED  BY <1>5, <1>8

\* Quotient and remainder.
LEMMA DivMod ==
    ASSUME NEW x \in Int, NEW d \in Nat \ {0}
    PROVE  /\ x \div d \in Int /\ x % d \in 0..(d - 1)
           /\ x = d * (x \div d) + (x % d)
OBVIOUS

LEMMA DivModIs ==
    ASSUME NEW x \in Int, NEW d \in Nat \ {0}, NEW q \in Int, NEW r \in 0..(d - 1),
           x = d * q + r
    PROVE  x \div d = q /\ x % d = r
<1>. DEFINE p == x \div d
            s == x % d
<1>1. p \in Int /\ s \in 0..(d - 1) /\ x = d * p + s  BY DivMod
<1>. HIDE DEF p, s
<1>2. d * (p - q) = r - s  BY <1>1
<1>3. CASE p > q
  <2>1. d * (p - q) >= d  BY <1>1, <1>3
  <2>. QED  BY <1>1, <1>2, <2>1
<1>4. CASE p < q
  <2>1. d * (q - p) >= d  BY <1>1, <1>4
  <2>2. d * (q - p) = s - r  BY <1>1
  <2>. QED  BY <1>1, <2>1, <2>2
<1>5. CASE p = q
  BY <1>1, <1>5 DEF p, s
<1>. QED  BY <1>1, <1>3, <1>4, <1>5

\* A number's quotients and remainders by b and by b * p.
LEMMA DivDiv ==
    ASSUME NEW x \in Int, NEW b \in Nat \ {0}, NEW p \in Nat \ {0}
    PROVE  /\ b * p \in Nat \ {0}
           /\ x \div (b * p) = (x \div b) \div p
           /\ x % (b * p) = b * ((x \div b) % p) + (x % b)
<1>. DEFINE y == x \div b
            r == x % b
            z == y \div p
            s == y % p
<1>1. y \in Int /\ r \in 0..(b - 1) /\ x = b * y + r  BY DivMod
<1>2. z \in Int /\ s \in 0..(p - 1) /\ y = p * z + s
  <2>. HIDE DEF y
  <2>. QED  BY <1>1, DivMod DEF y
<1>. HIDE DEF y, r, z, s
<1>3. b * p \in Nat \ {0}  OBVIOUS
<1>4. b * s + r \in 0..(b * p - 1)
  <2>1. b * s <= b * (p - 1)  BY <1>2
  <2>2. b * (p - 1) = b * p - b  OBVIOUS
  <2>3. b * s \in Nat /\ b * p \in Nat  BY <1>2
  <2>. QED  BY <1>1, <2>1, <2>2, <2>3
<1>5. x = (b * p) * z + (b * s + r)
  <2>1. b * y = b * (p * z) + b * s  BY <1>2
  <2>2. b * (p * z) = (b * p) * z  BY <1>2
  <2>. QED  BY <1>1, <1>2, <2>1, <2>2
<1>. DEFINE d == b * p
            t == b * s + r
<1>6. d \in Nat \ {0} /\ t \in 0..(d - 1) /\ x = d * z + t  BY <1>3, <1>4, <1>5
<1>. HIDE DEF d, t
<1>7. x \div d = z /\ x % d = t  BY <1>2, <1>6, DivModIs
<1>. QED  BY <1>3, <1>7 DEF d, t, z, s, y, r

\* The remainder nearest to 0.
LEMMA SignedMod ==
    ASSUME NEW x \in Int, NEW h \in Nat \ {0}
    PROVE  ((x + h) % (2 * h)) - h
             = IF x % (2 * h) >= h THEN (x % (2 * h)) - 2 * h ELSE x % (2 * h)
<1>. DEFINE m == 2 * h
            q == x \div m
            y == x % m
<1>1. m \in Nat \ {0} /\ m = h + h  OBVIOUS
<1>2. q \in Int /\ y \in 0..(m - 1) /\ x = m * q + y
  <2>. HIDE DEF m
  <2>. QED  BY <1>1, DivMod
<1>. HIDE DEF q, y, m
<1>3. x + h \in Int  OBVIOUS
<1>4. CASE y < h
  <2>1. y + h \in 0..(m - 1) /\ x + h = m * q + (y + h)  BY <1>1, <1>2, <1>4
  <2>. DEFINE t == y + h
              z == x + h
  <2>. HIDE DEF t, z
  <2>2. z % m = t
    <3>1. t \in 0..(m - 1) /\ z = m * q + t /\ z \in Int  BY <1>3, <2>1 DEF t, z
    <3>. QED  BY <1>1, <1>2, <3>1, DivModIs
  <2>3. (x + h) % m = y + h  BY <2>2 DEF t, z
  <2>. QED  BY <1>1, <1>2, <1>4, <2>3 DEF y, m
<1>5. CASE y >= h
  <2>1. m * (q + 1) = m * q + m  BY <1>1, <1>2
  <2>2. y - h \in 0..(m - 1) /\ x + h = m * (q + 1) + (y - h) /\ q + 1 \in Int
    BY <1>1, <1>2, <1>5, <2>1
  <2>3. (x + h) % m = y - h  BY <1>1, <1>3, <2>2, DivModIs
  <2>. QED  BY <1>1, <1>2, <1>5, <2>3 DEF y, m
<1>. QED  BY <1>1, <1>2, <1>4, <1>5

\* The bytes of a number.
LEMMA BigEndianIs ==
    ASSUME NEW n \in Int, NEW w \in 0..8
    PROVE  /\ BigEndian(n, w) \in Seq(Byte) /\ Len(BigEndian(n, w)) = w
           /\ \A i \in 1..w : BigEndian(n, w)[i] = (n \div Pow[w - i]) % Base
<1>1. ASSUME NEW i \in 1..w  PROVE (n \div Pow[w - i]) % Base \in Byte
  <2>1. Pow[w - i] \in Nat \ {0}  BY PowIs
  <2>. DEFINE p == Pow[w - i]
              y == n \div p
  <2>. HIDE DEF p
  <2>2. y \in Int  BY <2>1, DivMod DEF p
  <2>. HIDE DEF y
  <2>3. Base \in Nat \ {0}  BY ByteType
  <2>4. y % Base \in Byte  BY <2>2, <2>3, DivMod DEF Byte
  <2>. QED  BY <2>4 DEF y, p
<1>2. BigEndian(n, w) = [i \in 1..w |-> (n \div Pow[w - i]) % Base]  BY DEF BigEndian
<1>3. BigEndian(n, w) \in [1..w -> Byte]  BY <1>1, <1>2
<1>4. BigEndian(n, w) \in Blocks(w) /\ w \in Nat  BY <1>3 DEF Blocks
<1>. QED  BY <1>2, <1>4, BlockIsSeq

\* The number that bytes stand for, byte by byte.
LEMMA FromBigEndianIs ==
    ASSUME NEW w \in Nat, NEW b \in Blocks(w)
    PROVE  \E run : /\ run[0] = 0
                    /\ \A i \in 1..w : run[i] = run[i - 1] * Base + b[i]
                    /\ \A signed \in BOOLEAN :
                          FromBigEndian(b, signed) = IF signed /\ b[1] >= Base \div 2
                                                     THEN run[w] - Pow[w] ELSE run[w]
<1>. DEFINE Is(p) == p = [i \in 0..Len(b) |-> IF i = 0 THEN 0 ELSE p[i - 1] * Base + b[i]]
            c == CHOOSE p : Is(p)
            G == [p \in Int \X (1..w) |-> p[1] * Base + b[p[2]]]
<1>1. Base \in Nat /\ Len(b) = w /\ \A i \in 1..w : b[i] \in Nat
  BY ByteType, BlockIsSeq DEF Blocks
<1>2. PICK run : IsRun(run, w, Int, 0, G)
  <2>1. G \in [Int \X (1..w) -> Int] /\ 0 \in Int  BY <1>1
  <2>. HIDE DEF G
  <2>. QED  BY <2>1, RunExists
<1>3. Is(run)
  <2>1. \A k \in 1..w : <<run[k - 1], k>> \in Int \X (1..w)  BY <1>2 DEF IsRun
  <2>2. \A k \in 1..w : G[<<run[k - 1], k>>] = run[k - 1] * Base + b[k]  BY <2>1
  <2>. HIDE DEF G
  <2>3. ASSUME NEW k \in 0..w
        PROVE  run[k] = IF k = 0 THEN 0 ELSE run[k - 1] * Base + b[k]
    <3>1. CASE k = 0  BY <1>2, <3>1 DEF IsRun
    <3>2. CASE k # 0
      <4>1. k \in 1..w  BY <3>2
      <4>. QED  BY <1>2, <2>2, <3>2, <4>1 DEF IsRun
    <3>. QED  BY <3>1, <3>2
  <2>4. run = [k \in 0..w |-> run[k]]  BY <1>2 DEF IsRun
  <2>. QED  BY <1>1, <2>3, <2>4
<1>4. Is(c)  BY <1>3
<1>5. \A signed : FromBigEndian(b, signed) = IF signed /\ b[1] >= Base \div 2
                                             THEN c[Len(b)] - Pow[Len(b)] ELSE c[Len(b)]
  BY DEF FromBigEndian
<1>. HIDE DEF c
<1>6. c[0] = 0 /\ \A i \in 1..w : c[i] = c[i - 1] * Base + b[i]  BY <1>1, <1>4
<1>. QED  BY <1>1, <1>5, <1>6

\* A number of w bytes is read back modulo how many such numbers there are.
LEMMA ReadsNumber ==
    ASSUME NEW n \in Int, NEW w \in 1..8
    PROVE  /\ FromBigEndian(BigEndian(n, w), FALSE) = n % Pow[w]
           /\ FromBigEndian(BigEndian(n, w), TRUE)
                = ((n + Pow[w] \div 2) % Pow[w]) - Pow[w] \div 2
<1>. DEFINE b == BigEndian(n, w)
<1>1. b \in Blocks(w) /\ \A i \in 1..w : b[i] = (n \div Pow[w - i]) % Base
  <2>1. w \in 0..8  OBVIOUS
  <2>. HIDE DEF b
  <2>2. b \in Seq(Byte) /\ Len(b) = w  BY <2>1, BigEndianIs DEF b
  <2>. QED  BY <2>1, <2>2, BigEndianIs, SeqIsBlock DEF b
<1>. HIDE DEF b
<1>2. PICK run : /\ run[0] = 0
                 /\ \A i \in 1..w : run[i] = run[i - 1] * Base + b[i]
                 /\ \A signed \in BOOLEAN :
                       FromBigEndian(b, signed) = IF signed /\ b[1] >= Base \div 2
                                                  THEN run[w] - Pow[w] ELSE run[w]
  BY <1>1, FromBigEndianIs
<1>3. Base \in Nat \ {0} /\ Base % 2 = 0  BY BaseAssumption
<1>4. run[w] = n % Pow[w]
  <2>. DEFINE Good == {i \in 0..w : run[i] = (n \div Pow[w - i]) % Pow[i]}
  <2>1. 0 \in Good
    <3>1. Pow[w - 0] \in Nat \ {0}  BY PowIs
    <3>2. n \div Pow[w - 0] \in Int  BY <3>1, DivMod
    <3>3. \A y \in Int : y % 1 = 0  OBVIOUS
    <3>. QED  BY <1>2, <3>2, <3>3, PowIs
  <2>2. ASSUME NEW i \in 1..w, i - 1 \in Good  PROVE i \in Good
    <3>. DEFINE p == Pow[w - i]
                q == Pow[i - 1]
                x == n \div p
    <3>1. p \in Nat \ {0} /\ q \in Nat \ {0}  BY PowIs
    <3>2. Pow[w - (i - 1)] = Base * p /\ Pow[i] = Base * q
      <4>1. w - (i - 1) \in 1..8 /\ (w - (i - 1)) - 1 = w - i /\ i \in 1..8  OBVIOUS
      <4>. QED  BY <4>1, PowIs
    <3>. HIDE DEF p, q
    <3>3. x \in Int  BY <3>1, DivMod
    <3>4. n \div (p * Base) = x \div Base  BY <1>3, <3>1, DivDiv
    <3>. HIDE DEF x
    <3>5. p * Base = Base * p  BY <1>3, <3>1
    <3>6. run[i - 1] = (x \div Base) % q  BY <2>2, <3>2, <3>4, <3>5 DEF q
    <3>7. x % (Base * q) = Base * ((x \div Base) % q) + (x % Base)
      BY <1>3, <3>1, <3>3, DivDiv
    <3>8. b[i] = x % Base  BY <1>1 DEF x, p
    <3>9. (x \div Base) % q \in Int
      <4>1. x \div Base \in Int  BY <1>3, <3>3, DivMod
      <4>. QED  BY <3>1, <4>1, DivMod
    <3>. DEFINE u == (x \div Base) % q
    <3>. HIDE DEF u
    <3>10. u * Base = Base * u  BY <1>3, <3>9 DEF u
    <3>11. run[i] = x % Pow[i]  BY <1>2, <3>2, <3>6, <3>7, <3>8, <3>10 DEF u
    <3>. QED  BY <3>11 DEF x, p
  <2>3. w \in Nat /\ Good \in SUBSET (0..w)  OBVIOUS
  <2>. HIDE DEF Good
  <2>4. w \in Good  BY <2>1, <2>2, <2>3, Rounds
  <2>5. w - w = 0 /\ n \div 1 = n  OBVIOUS
  <2>. QED  BY <2>4, <2>5, PowIs DEF Good
<1>5. b[1] >= Base \div 2 <=> n % Pow[w] >= Pow[w] \div 2
  <2>. DEFINE p == Pow[w - 1]
              x == n \div p
              g == Base \div 2
              r == n % p
              d == x % Base
  <2>1. p \in Nat \ {0} /\ Pow[w] = Base * p  BY PowIs
  <2>. HIDE DEF p
  <2>2. x \in Int /\ r \in 0..(p - 1)  BY <2>1, DivMod
  <2>3. g \in Nat /\ Base = 2 * g  BY <1>3
  <2>4. b[1] = d  BY <1>1 DEF p
  <2>5. n % (p * Base) = p * d + r  BY <1>3, <2>1, DivDiv
  <2>6. d \in Int
    <3>. HIDE DEF x
    <3>. QED  BY <1>3, <2>2, DivMod
  <2>. HIDE DEF x, g, r, d
  <2>7. Base * p = p * Base /\ Base * p = 2 * (p * g)  BY <1>3, <2>1, <2>3
  <2>. DEFINE h == p * g
  <2>8. h \in Nat  BY <2>1, <2>3
  <2>. HIDE DEF h
  <2>9. (2 * h) \div 2 = h  BY <2>8
  <2>10. Pow[w] \div 2 = h /\ n % Pow[w] = p * d + r  BY <2>1, <2>5, <2>7, <2>9 DEF h
  <2>11. d >= g <=> p * d + r >= h
    <3>1. CASE d >= g
      <4>1. p * d >= p * g  BY <2>1, <2>3, <2>6, <3>1
      <4>2. p * d \in Int  BY <2>1, <2>6
      <4>. QED  BY <2>1, <2>2, <2>8, <3>1, <4>1, <4>2 DEF h
    <3>2. CASE ~(d >= g)
      <4>1. p * d <= p * (g - 1)  BY <2>1, <2>3, <2>6, <3>2
      <4>2. p * (g - 1) = p * g - p /\ p * d \in Int  BY <2>1, <2>3, <2>6
      <4>. QED  BY <2>1, <2>2, <2>8, <3>2, <4>1, <4>2 DEF h
    <3>. QED  BY <3>1, <3>2
  <2>. QED  BY <2>4, <2>10, <2>11 DEF g
<1>6. ((n + Pow[w] \div 2) % Pow[w]) - Pow[w] \div 2
        = IF n % Pow[w] >= Pow[w] \div 2 THEN (n % Pow[w]) - Pow[w] ELSE n % Pow[w]
  <2>. DEFINE p == Pow[w - 1]
              g == Base \div 2
              h == g * p
  <2>1. p \in Nat \ {0} /\ Pow[w] = Base * p  BY PowIs
  <2>2. g \in Nat \ {0} /\ Base = 2 * g  BY BaseAssumption
  <2>. HIDE DEF p, g
  <2>3. h \in Nat \ {0} /\ Base * p = 2 * h  BY <2>1, <2>2
  <2>. HIDE DEF h
  <2>4. (2 * h) \div 2 = h  BY <2>3
  <2>5. Pow[w] = 2 * h /\ Pow[w] \div 2 = h  BY <2>1, <2>3, <2>4
  <2>. QED  BY <2>3, <2>5, SignedMod
<1>. QED  BY <1>2, <1>4, <1>5, <1>6 DEF b

-----------------------------------------------------------------------------
(* Slices of blocks.                                                        *)

LEMMA SliceIs ==
    ASSUME NEW n \in Nat, NEW b \in Blocks(n), NEW a \in Nat, NEW e \in 0..n, a <= e
    PROVE  /\ SubSeq(b, a + 1, e) \in Blocks(e - a)
           /\ \A i \in 1..(e - a) : SubSeq(b, a + 1, e)[i] = b[a + i]
<1>1. \A i \in (a + 1)..e : b[i] \in Byte
  <2>1. \A i \in (a + 1)..e : i \in 1..n  OBVIOUS
  <2>. QED  BY <2>1 DEF Blocks
<1>. DEFINE r == SubSeq(b, a + 1, e)
<1>2. /\ r \in Seq(Byte)
      /\ Len(r) = IF a + 1 <= e THEN e - (a + 1) + 1 ELSE 0
      /\ \A i \in 1..(e - (a + 1) + 1) : r[i] = b[a + 1 + i - 1]
  BY <1>1, SubSeqProperties
<1>. HIDE DEF r
<1>3. Len(r) = e - a  BY <1>2
<1>4. r \in Blocks(e - a)  BY <1>2, <1>3, SeqIsBlock
<1>5. ASSUME NEW i \in 1..(e - a)  PROVE r[i] = b[a + i]
  <2>1. i \in 1..(e - (a + 1) + 1) /\ a + 1 + i - 1 = a + i  OBVIOUS
  <2>. QED  BY <1>2, <2>1
<1>. QED  BY <1>4, <1>5 DEF r

LEMMA SameBlock ==
    ASSUME NEW n \in Nat, NEW b \in Blocks(n), NEW c \in Blocks(n),
           \A i \in 1..n : b[i] = c[i]
    PROVE  b = c
BY DEF Blocks

LEMMA ZerosIs ==
    ASSUME NEW n \in Nat
    PROVE  Zeros(n) \in Blocks(n) /\ \A i \in 1..n : Zeros(n)[i] = 0
BY ByteType DEF Zeros, Blocks

\* A slice of zeros.
LEMMA ZerosOf ==
    ASSUME NEW n \in Nat, NEW a \in Nat, NEW e \in 0..n, a <= e
    PROVE  SubSeq(Zeros(n), a + 1, e) = Zeros(e - a)
<1>. DEFINE z == Zeros(n)
            r == SubSeq(z, a + 1, e)
<1>1. z \in Blocks(n) /\ \A i \in 1..n : z[i] = 0  BY ZerosIs
<1>. HIDE DEF z
<1>2. r \in Blocks(e - a) /\ \A i \in 1..(e - a) : r[i] = z[a + i]  BY <1>1, SliceIs
<1>. HIDE DEF r
<1>3. ASSUME NEW i \in 1..(e - a)  PROVE r[i] = 0
  <2>1. a + i \in 1..n  OBVIOUS
  <2>. QED  BY <1>1, <1>2, <2>1
<1>4. e - a \in Nat  OBVIOUS
<1>5. r = Zeros(e - a)
  <2>. DEFINE k == e - a
  <2>. HIDE DEF k
  <2>1. k \in Nat /\ r \in Blocks(k) /\ \A i \in 1..k : r[i] = 0  BY <1>2, <1>3, <1>4 DEF k
  <2>2. Zeros(k) \in Blocks(k) /\ \A i \in 1..k : Zeros(k)[i] = 0  BY <2>1, ZerosIs
  <2>. QED  BY <2>1, <2>2, SameBlock DEF k
<1>. QED  BY <1>5 DEF r, z

\* The whole block.
LEMMA WholeSlice ==
    ASSUME NEW n \in Nat, NEW b \in Blocks(n)
    PROVE  SubSeq(b, 1, n) = b
<1>1. b \in Seq(Byte) /\ Len(b) = n  BY BlockIsSeq
<1>. QED  BY <1>1, SubSeqFull

-----------------------------------------------------------------------------
(* What a codec makes of the bytes it has made, of the first of them, and   *)
(* of zeros.                                                                *)

LEMMA NumberTypes ==
    ASSUME NEW t \in DOMAIN Numbers
    PROVE  /\ Numbers[t].width \in 1..8 /\ Numbers[t].signed \in BOOLEAN
           /\ t = "longAsInt" => Numbers[t].width = 8 /\ Numbers[t].signed
           /\ t \notin {"boolean", "ip", "string", "wstring", "char", "datetime", "longAsDateTime"}
<1>1. t \in {"byte", "integer", "word", "dint", "dword", "lint", "intAsBigDecimal", "longAsInt"}
  BY DEF Numbers
<1>2. t \notin {"boolean", "ip", "string", "wstring", "char", "datetime", "longAsDateTime"}
  BY <1>1
<1>3. Numbers[t].width \in 1..8
  BY DEF Numbers
<1>5. Numbers[t].signed \in BOOLEAN
  <2>1. Numbers["byte"].signed \in BOOLEAN  BY Zenon DEF Numbers
  <2>2. Numbers["integer"].signed \in BOOLEAN  BY Zenon DEF Numbers
  <2>3. Numbers["word"].signed \in BOOLEAN  BY Zenon DEF Numbers
  <2>4. Numbers["dint"].signed \in BOOLEAN  BY Zenon DEF Numbers
  <2>5. Numbers["dword"].signed \in BOOLEAN  BY Zenon DEF Numbers
  <2>6. Numbers["lint"].signed \in BOOLEAN  BY Zenon DEF Numbers
  <2>7. Numbers["intAsBigDecimal"].signed \in BOOLEAN  BY Zenon DEF Numbers
  <2>8. Numbers["longAsInt"].signed \in BOOLEAN  BY Zenon DEF Numbers
  <2>. QED  BY <1>1, <2>1, <2>2, <2>3, <2>4, <2>5, <2>6, <2>7, <2>8
<1>4. t = "longAsInt" => Numbers[t].width = 8 /\ Numbers[t].signed
  BY DEF Numbers
<1>. QED  BY <1>2, <1>3, <1>4, <1>5

\* The bytes of n read as a number of the type.
Narrowed(t, n) ==
    LET m == Pow[IF t = "longAsInt" THEN 2 ELSE Numbers[t].width]
    IN  IF Numbers[t].signed THEN ((n + m \div 2) % m) - m \div 2 ELSE n % m

LEMMA LastBytes ==
    ASSUME NEW n \in Int
    PROVE  SubSeq(BigEndian(n, 8), 7, 8) = BigEndian(n, 2)
<1>. DEFINE b == BigEndian(n, 8)
            c == BigEndian(n, 2)
            r == SubSeq(b, 6 + 1, 8)
<1>1. /\ b \in Seq(Byte) /\ Len(b) = 8 /\ \A i \in 1..8 : b[i] = (n \div Pow[8 - i]) % Base
      /\ c \in Seq(Byte) /\ Len(c) = 2 /\ \A i \in 1..2 : c[i] = (n \div Pow[2 - i]) % Base
  BY BigEndianIs
<1>. HIDE DEF b, c
<1>2. b \in Blocks(8) /\ c \in Blocks(2)  BY <1>1, SeqIsBlock
<1>3. r \in Blocks(8 - 6) /\ \A i \in 1..(8 - 6) : r[i] = b[6 + i]
  <2>1. 8 \in Nat /\ 6 \in Nat /\ 8 \in 0..8 /\ 6 <= 8  OBVIOUS
  <2>. QED  BY <1>2, <2>1, SliceIs
<1>. HIDE DEF r
<1>4. 8 - 6 = 2  OBVIOUS
<1>5. ASSUME NEW i \in 1..2  PROVE r[i] = c[i]
  <2>1. 6 + i \in 1..8 /\ 8 - (6 + i) = 2 - i  OBVIOUS
  <2>2. r[i] = b[6 + i]  BY <1>3, <1>4
  <2>3. b[6 + i] = (n \div Pow[8 - (6 + i)]) % Base  BY <1>1, <2>1
  <2>. QED  BY <1>1, <2>1, <2>2, <2>3
<1>6. r = c  BY <1>2, <1>3, <1>4, <1>5, SameBlock
<1>7. 6 + 1 = 7  OBVIOUS
<1>. QED  BY <1>6, <1>7 DEF r, b, c

LEMMA DecodesNumber ==
    ASSUME NEW t \in DOMAIN Numbers, NEW n \in Int
    PROVE  DecodeNumber(t, BigEndian(n, Numbers[t].width)) = Narrowed(t, n)
<1>. DEFINE w == Numbers[t].width
            b == BigEndian(n, w)
<1>1. w \in 1..8 /\ Numbers[t].signed \in BOOLEAN
      /\ (t = "longAsInt" => w = 8 /\ Numbers[t].signed)
  BY NumberTypes
<1>. HIDE DEF w
<1>2. b \in Seq(Byte) /\ Len(b) = w /\ w \in Nat /\ ~(Len(b) < w)
  <2>1. w \in 0..8  BY <1>1
  <2>2. b \in Seq(Byte) /\ Len(b) = w  BY <2>1, BigEndianIs
  <2>. QED  BY <2>1, <2>2
<1>. HIDE DEF b
<1>3. CASE t = "longAsInt"
  <2>1. DecodeNumber(t, b) = FromBigEndian(SubSeq(b, 7, 8), TRUE)
    <3>1. w = 8 /\ 8 - 1 = 7  BY <1>1, <1>3
    <3>2. DecodeNumber(t, b) = FromBigEndian(SubSeq(b, w - 1, w), TRUE)
      BY <1>2, <1>3 DEF DecodeNumber, w
    <3>. QED  BY <3>1, <3>2
  <2>2. SubSeq(b, 7, 8) = BigEndian(n, 2)  BY <1>1, <1>3, LastBytes DEF b
  <2>3. FromBigEndian(BigEndian(n, 2), TRUE) = ((n + Pow[2] \div 2) % Pow[2]) - Pow[2] \div 2
    <3>1. 2 \in 1..8  OBVIOUS
    <3>. QED  BY <3>1, ReadsNumber
  <2>. QED  BY <1>1, <1>3, <2>1, <2>2, <2>3 DEF Narrowed, b, w
<1>4. CASE t # "longAsInt"
  <2>1. SubSeq(b, 1, w) = b  BY <1>2, SubSeqFull
  <2>2. DecodeNumber(t, b) = FromBigEndian(b, Numbers[t].signed)
    BY <1>2, <1>4, <2>1 DEF DecodeNumber, w
  <2>3. /\ FromBigEndian(b, FALSE) = n % Pow[w]
        /\ FromBigEndian(b, TRUE) = ((n + Pow[w] \div 2) % Pow[w]) - Pow[w] \div 2
    BY <1>1, ReadsNumber DEF b
  <2>. QED  BY <1>1, <1>4, <2>2, <2>3 DEF Narrowed, w, b
<1>. QED  BY <1>3, <1>4 DEF w, b

LEMMA NarrowedType ==
    ASSUME NEW t \in DOMAIN Numbers, NEW n \in Int
    PROVE  Narrowed(t, n) \in Int /\ Narrowed(t, 0) = 0
<1>. DEFINE k == IF t = "longAsInt" THEN 2 ELSE Numbers[t].width
            m == Pow[k]
            h == m \div 2
<1>1. k \in 1..8 /\ Numbers[t].signed \in BOOLEAN  BY NumberTypes
<1>. HIDE DEF k
<1>2. m \in Nat \ {0} /\ m = Base * Pow[k - 1] /\ Pow[k - 1] \in Nat \ {0}  BY <1>1, PowIs
<1>. DEFINE p == Pow[k - 1]
<1>. HIDE DEF p
<1>3. m >= 2
  <2>1. Base * p >= Base  BY <1>2, ByteType DEF p
  <2>. QED  BY <1>2, <2>1, ByteType DEF p
<1>. HIDE DEF m
<1>4. h \in 0..(m - 1) /\ h \in Int  BY <1>2, <1>3
<1>. HIDE DEF h
<1>5. n + h \in Int /\ 0 + h = h  BY <1>4
<1>6. (n + h) % m \in Int /\ n % m \in Int  BY <1>2, <1>5, DivMod
<1>7. h % m = h /\ 0 % m = 0
  <2>1. h = m * 0 + h /\ 0 = m * 0 + 0  BY <1>2, <1>4
  <2>. QED  BY <1>2, <1>4, <2>1, DivModIs
<1>. QED  BY <1>1, <1>4, <1>5, <1>6, <1>7 DEF Narrowed, h, m, k

\* The types one by one.
LEMMA FaithfulTypes ==
    ASSUME NEW t \in Faithful
    PROVE  \/ t \in DOMAIN Numbers
           \/ t \in {"boolean", "ip", "string", "char", "datetime", "longAsDateTime"}
BY DEF Faithful, Codecs

\* The zeros of the types.
LEMMA ZeroIs ==
    /\ \A t \in DOMAIN Numbers : Zero(t) = 0
    /\ Zero("longAsDateTime") = 0 /\ Zero("boolean") = FALSE
    /\ Zero("ip") = <<0, 0, 0, 0>> /\ Zero("string") = <<>> /\ Zero("char") = <<0>>
    /\ Zero("datetime") = <<2000, 0, 0, 0, 0, 0>>
<1>. DEFINE no == FALSE
<1>1. \A t : Zero(t) = CASE t \in DOMAIN Numbers \cup {"longAsDateTime"} -> 0
                         [] t = "boolean"  -> no
                         [] t = "ip"       -> <<0, 0, 0, 0>>
                         [] t = "string"   -> <<>>
                         [] t = "char"     -> <<0>>
                         [] t = "datetime" -> <<2000, 0, 0, 0, 0, 0>>
  BY DEF Zero
<1>. HIDE DEF no
<1>2. \A t \in {"boolean", "ip", "string", "char", "datetime"} :
         t \notin DOMAIN Numbers \cup {"longAsDateTime"}
  BY DEF Numbers
<1>3. ASSUME NEW t \in DOMAIN Numbers  PROVE Zero(t) = 0
  <2>1. t \notin {"boolean", "ip", "string", "char", "datetime"}  BY NumberTypes
  <2>. QED  BY <1>1, <2>1
<1>4. Zero("longAsDateTime") = 0  BY <1>1
<1>5. Zero("boolean") = no  BY <1>1, <1>2
<1>6. Zero("ip") = <<0, 0, 0, 0>> /\ Zero("string") = <<>> /\ Zero("char") = <<0>>
  BY <1>1, <1>2
<1>7. Zero("datetime") = <<2000, 0, 0, 0, 0, 0>>  BY <1>1, <1>2
<1>. QED  BY <1>3, <1>4, <1>5, <1>6, <1>7 DEF no

LEMMA NumberCases ==
    ASSUME NEW t \in DOMAIN Numbers
    PROVE  /\ \A v : EncodeValue(t, v) = EncodeNumber(t, v) /\ ReadAs(t, v) = InRange(t, v)
           /\ \A v : Dated(t, v)
           /\ \A b : DecodeValue(t, b) = DecodeNumber(t, b)
           /\ ByteSize(t) = Numbers[t].width /\ Zero(t) = 0
           /\ ValueOf(t) = -(Pow[8] \div 2)..(Pow[8] - 1)
<1>1. t \notin {"boolean", "ip", "string", "wstring", "char", "datetime", "longAsDateTime"}
  BY NumberTypes
<1>2. ByteSize(t) = Numbers[t].width  BY <1>1 DEF ByteSize
<1>3. Zero(t) = 0  BY ZeroIs
<1>4. ValueOf(t) = -(Pow[8] \div 2)..(Pow[8] - 1)  BY <1>1 DEF ValueOf
<1>5. \A v : EncodeValue(t, v) = EncodeNumber(t, v)  BY <1>1 DEF EncodeValue
<1>6. \A b : DecodeValue(t, b) = DecodeNumber(t, b)  BY <1>1 DEF DecodeValue
<1>7. \A v : Dated(t, v)  BY <1>1 DEF Dated
<1>8. \A v : ReadAs(t, v) = InRange(t, v)  BY <1>1 DEF ReadAs
<1>. QED  BY <1>2, <1>3, <1>4, <1>5, <1>6, <1>7, <1>8

\* Half of the values of eight bytes.
LEMMA HalfPow ==
    /\ Pow[8] \in Nat \ {0} /\ Pow[8] \div 2 \in Nat \ {0}
    /\ Pow[8] = (Pow[8] \div 2) + (Pow[8] \div 2)
<1>1. Pow[8] = Base * Pow[7] /\ Pow[7] \in Nat \ {0} /\ Base \div 2 \in Nat \ {0}
      /\ Base = 2 * (Base \div 2)
  <2>1. 8 \in 1..8 /\ 8 - 1 = 7 /\ 7 \in 0..8  OBVIOUS
  <2>. QED  BY <2>1, PowIs, BaseAssumption
<1>. DEFINE p == Pow[7]
            g == Base \div 2
            h == g * p
<1>. HIDE DEF p, g
<1>2. h \in Nat \ {0} /\ Base * p = 2 * h  BY <1>1 DEF p, g
<1>. HIDE DEF h
<1>. QED  BY <1>1, <1>2 DEF p

\* A number is read back as the number of its type that is meant.
LEMMA ReadsBackNumber ==
    ASSUME NEW t \in DOMAIN Numbers, NEW v \in ValueOf(t)
    PROVE  /\ EncodeNumber(t, v) \in Seq(Byte) /\ Len(EncodeNumber(t, v)) = Numbers[t].width
           /\ DecodeNumber(t, EncodeNumber(t, v)) = InRange(t, v)
           /\ InRange(t, v) \in Int
<1>. DEFINE n == IF Numbers[t].signed THEN AsI64(v) ELSE AsU64(v)
<1>1. v \in Int /\ v >= -(Pow[8] \div 2) /\ v <= Pow[8] - 1
  <2>1. v \in -(Pow[8] \div 2)..(Pow[8] - 1)  BY NumberCases
  <2>. QED  BY <2>1, HalfPow
<1>2. n \in Int  BY <1>1 DEF AsI64, AsU64
<1>3. EncodeNumber(t, v) = BigEndian(n, Numbers[t].width)  BY DEF EncodeNumber
<1>4. Numbers[t].width \in 0..8 /\ Numbers[t].signed \in BOOLEAN  BY NumberTypes
<1>5. Narrowed(t, n) \in Int /\ Narrowed(t, 0) = 0
      /\ DecodeNumber(t, BigEndian(n, Numbers[t].width)) = Narrowed(t, n)
  <2>. HIDE DEF n
  <2>. QED  BY <1>2, NarrowedType, DecodesNumber
<1>6. InRange(t, v) = Narrowed(t, n)
  <2>1. CASE Numbers[t].signed
    <3>1. CASE v >= Pow[8] \div 2
      <4>1. n = 0  BY <1>1, <2>1, <3>1, HalfPow DEF AsI64
      <4>2. InRange(t, v) = 0  BY <2>1, <3>1 DEF InRange
      <4>. QED  BY <1>5, <4>1, <4>2
    <3>2. CASE ~(v >= Pow[8] \div 2)
      <4>1. n = v  BY <1>1, <2>1, <3>2, HalfPow DEF AsI64
      <4>. QED  BY <2>1, <3>2, <4>1 DEF InRange, Narrowed
    <3>. QED  BY <3>1, <3>2
  <2>2. CASE ~Numbers[t].signed
    <3>1. CASE v < 0
      <4>1. n = 0  BY <1>1, <2>2, <3>1, HalfPow DEF AsU64
      <4>2. InRange(t, v) = 0  BY <2>2, <3>1 DEF InRange
      <4>. QED  BY <1>5, <4>1, <4>2
    <3>2. CASE ~(v < 0)
      <4>1. n = v  BY <1>1, <2>2, <3>2, HalfPow DEF AsU64
      <4>. QED  BY <2>2, <3>2, <4>1 DEF InRange, Narrowed
    <3>. QED  BY <3>1, <3>2
  <2>. QED  BY <1>4, <2>1, <2>2
<1>. HIDE DEF n
<1>7. EncodeNumber(t, v) \in Seq(Byte) /\ Len(EncodeNumber(t, v)) = Numbers[t].width
  BY <1>2, <1>3, <1>4, BigEndianIs
<1>. QED  BY <1>3, <1>5, <1>6, <1>7

\* From fewer bytes than a value takes nothing is decoded.
LEMMA ShortIsErr ==
    ASSUME NEW t \in Faithful, NEW b \in Seq(Byte), Len(b) < ByteSize(t)
    PROVE  DecodeValue(t, b) = Err
<1>1. CASE t \in DOMAIN Numbers
  BY <1>1, NumberCases DEF DecodeNumber
<1>2. CASE t \in {"boolean", "ip", "string", "char", "datetime", "longAsDateTime"}
  <2>1. t \notin DOMAIN Numbers  BY <1>2 DEF Numbers
  <2>2. Len(b) \in Nat /\ (Len(b) < 1 => b = <<>>)
    <3>1. Len(b) \in Nat /\ (b # <<>> => Len(b) \in Nat \ {0})  BY LenProperties, EmptySeq
    <3>. QED  BY <3>1
  <2>3. CASE t = "boolean"  BY <2>1, <2>2, <2>3 DEF DecodeValue, ByteSize
  <2>4. CASE t = "ip"  BY <2>1, <2>4 DEF DecodeValue, ByteSize
  <2>5. CASE t = "string"  BY <2>1, <2>5 DEF DecodeValue, ByteSize, DecodeString
  <2>6. CASE t = "char"  BY <2>1, <2>2, <2>6 DEF DecodeValue, ByteSize
  <2>7. CASE t = "datetime"  BY <2>1, <2>7 DEF DecodeValue, ByteSize, DecodeDateTime
  <2>8. CASE t = "longAsDateTime"
    BY <2>1, <2>8 DEF DecodeValue, ByteSize, DecodeLongAsDateTime
  <2>. QED  BY <1>2, <2>3, <2>4, <2>5, <2>6, <2>7, <2>8
<1>. QED  BY <1>1, <1>2, FaithfulTypes

\* Zeros are the bytes of 0.
LEMMA ZeroBytes ==
    ASSUME NEW w \in 1..8
    PROVE  /\ Zeros(w) = BigEndian(0, w)
           /\ FromBigEndian(Zeros(w), FALSE) = 0 /\ FromBigEndian(Zeros(w), TRUE) = 0
<1>. DEFINE z == Zeros(w)
            b == BigEndian(0, w)
<1>1. z \in Blocks(w) /\ \A i \in 1..w : z[i] = 0  BY ZerosIs
<1>2. b \in Seq(Byte) /\ Len(b) = w /\ \A i \in 1..w : b[i] = (0 \div Pow[w - i]) % Base
  <2>1. w \in 0..8 /\ 0 \in Int  OBVIOUS
  <2>. QED  BY <2>1, BigEndianIs
<1>3. ASSUME NEW i \in 1..w  PROVE b[i] = 0
  <2>. DEFINE p == Pow[w - i]
  <2>1. p \in Nat \ {0}  BY PowIs
  <2>. HIDE DEF p, b
  <2>2. 0 = p * 0 + 0 /\ 0 \in 0..(p - 1)  BY <2>1
  <2>3. 0 \div p = 0  BY <2>1, <2>2, DivModIs
  <2>4. 0 % Base = 0  BY ByteType
  <2>. QED  BY <1>2, <2>3, <2>4 DEF p
<1>. HIDE DEF z, b
<1>4. b \in Blocks(w)  BY <1>2, SeqIsBlock
<1>5. z = b  BY <1>1, <1>3, <1>4, SameBlock
<1>. DEFINE m == Pow[w]
            h == m \div 2
<1>6. FromBigEndian(b, FALSE) = 0 % m /\ FromBigEndian(b, TRUE) = ((0 + h) % m) - h
  <2>1. 0 \in Int  OBVIOUS
  <2>. QED  BY <2>1, ReadsNumber DEF b
<1>7. m \in Nat \ {0}  BY PowIs
<1>8. m >= 2
  <2>. DEFINE p == Pow[w - 1]
  <2>1. m = Base * p /\ p \in Nat \ {0}  BY PowIs
  <2>. HIDE DEF p, m
  <2>2. Base * p >= Base  BY <2>1, ByteType
  <2>. QED  BY <2>1, <2>2, ByteType
<1>. HIDE DEF m
<1>9. h \in 0..(m - 1) /\ h \in Int  BY <1>7, <1>8
<1>. HIDE DEF h
<1>10. h % m = h /\ 0 % m = 0
  <2>1. h = m * 0 + h /\ 0 = m * 0 + 0  BY <1>7, <1>9
  <2>. QED  BY <1>7, <1>9, <2>1, DivModIs
<1>11. 0 + h = h /\ h - h = 0  BY <1>9
<1>. QED  BY <1>5, <1>6, <1>10, <1>11 DEF z, b

\* The parts of a date.
LEMMA DateIs ==
    ASSUME NEW n \in Nat, NEW b \in Blocks(n), n >= 8
    PROVE  LET d == DecodeDateTime(b) IN
           /\ d \in Seq(Int) /\ Len(d) = 6 /\ d[1] = 2000 + b[1]
           /\ \A i \in 2..6 : d[i] = b[i]
<1>. DEFINE d == DecodeDateTime(b)
            year == <<2000 + b[1]>>
            rest == SubSeq(b, 1 + 1, 6)
<1>1. Len(b) = n /\ b[1] \in Int
  <2>1. 1 \in 1..n  OBVIOUS
  <2>2. b[1] \in Byte  BY <2>1 DEF Blocks
  <2>3. Byte \subseteq Int  BY ByteType
  <2>4. Len(b) = n  BY BlockIsSeq
  <2>. QED  BY <2>2, <2>3, <2>4
<1>2. d = year \o rest  BY <1>1 DEF DecodeDateTime
<1>3. rest \in Blocks(6 - 1) /\ \A i \in 1..(6 - 1) : rest[i] = b[1 + i]
  <2>1. 1 \in Nat /\ 6 \in 0..n /\ 1 <= 6  OBVIOUS
  <2>. QED  BY <2>1, SliceIs
<1>. HIDE DEF rest, d
<1>4. rest \in Seq(Int) /\ Len(rest) = 5
  <2>1. 6 - 1 = 5 /\ 5 \in Nat  OBVIOUS
  <2>2. rest \in Seq(Byte) /\ Len(rest) = 5  BY <1>3, <2>1, BlockIsSeq
  <2>3. Byte \subseteq Int  BY ByteType
  <2>. QED  BY <2>2, <2>3, SeqMonotonic
<1>5. year \in Seq(Int) /\ Len(year) = 1 /\ year[1] = 2000 + b[1]  BY <1>1
<1>. HIDE DEF year
<1>6. /\ year \o rest \in Seq(Int) /\ Len(year \o rest) = Len(year) + Len(rest)
      /\ \A i \in 1..(Len(year) + Len(rest)) :
            (year \o rest)[i] = IF i <= Len(year) THEN year[i] ELSE rest[i - Len(year)]
  <2>1. year \in Seq(Int) /\ rest \in Seq(Int)  BY <1>4, <1>5
  <2>. QED  BY <2>1, ConcatProperties
<1>7. d \in Seq(Int) /\ Len(d) = 6
      /\ \A i \in 1..6 : d[i] = IF i <= 1 THEN year[i] ELSE rest[i - 1]
  <2>1. Len(year) + Len(rest) = 6 /\ Len(year) = 1  BY <1>4, <1>5
  <2>. QED  BY <1>2, <1>6, <2>1
<1>8. d[1] = 2000 + b[1]  BY <1>5, <1>7
<1>9. ASSUME NEW i \in 2..6  PROVE d[i] = b[i]
  <2>1. i \in 1..6 /\ ~(i <= 1) /\ i - 1 \in 1..(6 - 1) /\ 1 + (i - 1) = i  OBVIOUS
  <2>2. d[i] = rest[i - 1]  BY <1>7, <2>1
  <2>. QED  BY <1>3, <2>1, <2>2
<1>. QED  BY <1>7, <1>8, <1>9 DEF d

\* From zeros the zero of the type is decoded.
LEMMA ReadsZeros ==
    ASSUME NEW t \in Faithful, NEW k \in Nat
    PROVE  DecodeValue(t, Zeros(k)) = IF k < ByteSize(t) THEN Err ELSE Zero(t)
<1>. DEFINE z == Zeros(k)
<1>1. z \in Blocks(k) /\ z \in Seq(Byte) /\ Len(z) = k /\ \A i \in 1..k : z[i] = 0
  BY ZerosIs, BlockIsSeq
<1>2. ASSUME NEW a \in Nat, NEW e \in 0..k, a <= e
      PROVE  SubSeq(z, a + 1, e) = Zeros(e - a)
  BY <1>2, ZerosOf
<1>. SUFFICES DecodeValue(t, z) = IF k < ByteSize(t) THEN Err ELSE Zero(t)
  BY DEF z
<1>. HIDE DEF z
<1>3. CASE k < ByteSize(t)
  BY <1>1, <1>3, ShortIsErr
<1>4. CASE ~(k < ByteSize(t)) /\ t \in DOMAIN Numbers
  <2>. DEFINE w == Numbers[t].width
  <2>1. /\ w \in 1..8 /\ (t = "longAsInt" => w = 8) /\ Numbers[t].signed \in BOOLEAN
        /\ w = ByteSize(t) /\ ~(k < w)
    BY <1>4, NumberTypes, NumberCases
  <2>. HIDE DEF w
  <2>2. CASE t = "longAsInt"
    <3>1. SubSeq(z, 6 + 1, 8) = Zeros(8 - 6)
      <4>1. 6 \in Nat /\ 8 \in 0..k /\ 6 <= 8  BY <2>1, <2>2
      <4>. QED  BY <1>2, <4>1
    <3>2. 6 + 1 = 7 /\ 8 - 6 = 2 /\ 8 - 1 = 7 /\ 2 \in 1..8  OBVIOUS
    <3>3. DecodeNumber(t, z) = FromBigEndian(SubSeq(z, w - 1, w), TRUE)
      BY <1>1, <2>1, <2>2 DEF DecodeNumber, w
    <3>4. DecodeNumber(t, z) = 0  BY <2>1, <2>2, <3>1, <3>2, <3>3, ZeroBytes
    <3>. QED  BY <1>4, <3>4, NumberCases
  <2>3. CASE t # "longAsInt"
    <3>1. SubSeq(z, 0 + 1, w) = Zeros(w - 0)
      <4>1. 0 \in Nat /\ w \in 0..k /\ 0 <= w  BY <2>1
      <4>. QED  BY <1>2, <4>1
    <3>2. 0 + 1 = 1 /\ w - 0 = w  BY <2>1
    <3>3. DecodeNumber(t, z) = FromBigEndian(SubSeq(z, 1, w), Numbers[t].signed)
      BY <1>1, <2>1, <2>3 DEF DecodeNumber, w
    <3>4. FromBigEndian(Zeros(w), Numbers[t].signed) = 0  BY <2>1, ZeroBytes
    <3>5. DecodeNumber(t, z) = 0  BY <3>1, <3>2, <3>3, <3>4
    <3>. QED  BY <1>4, <3>5, NumberCases
  <2>. QED  BY <2>2, <2>3
<1>5. CASE ~(k < ByteSize(t)) /\ t \in {"boolean", "ip", "string", "char", "datetime", "longAsDateTime"}
  <2>1. t \notin DOMAIN Numbers  BY <1>5 DEF Numbers
  <2>2. z # <<>> \/ k < 1  BY <1>1
  <2>3. CASE t = "boolean"
    <3>1. z # <<>> /\ 1 \in 1..k  BY <1>1, <1>5, <2>3 DEF ByteSize
    <3>2. z[1] = 0  BY <1>1, <3>1
    <3>3. DecodeValue(t, z) = (z[1] # 0)  BY <2>1, <2>3, <3>1 DEF DecodeValue
    <3>4. Zero(t) = FALSE  BY <2>3, ZeroIs
    <3>5. DecodeValue(t, z) = FALSE  BY <3>2, <3>3
    <3>. QED  BY <1>5, <3>4, <3>5
  <2>4. CASE t = "ip"
    <3>1. ~(k < 4)  BY <1>5, <2>1, <2>4 DEF ByteSize
    <3>2. SubSeq(z, 0 + 1, 4) = Zeros(4 - 0)
      <4>1. 0 \in Nat /\ 4 \in 0..k /\ 0 <= 4  BY <3>1
      <4>. QED  BY <1>2, <4>1
    <3>3. Zeros(4 - 0) = <<0, 0, 0, 0>>  BY DEF Zeros
    <3>. QED  BY <1>1, <1>5, <2>1, <2>4, <3>1, <3>2, <3>3, ZeroIs DEF DecodeValue
  <2>5. CASE t = "string"
    <3>1. ~(k < 2)  BY <1>5, <2>1, <2>5 DEF ByteSize
    <3>2. z[2] = 0  BY <1>1, <3>1
    <3>3. SubSeq(z, 3, 2 + z[2]) = <<>>  BY <3>2, SubSeqEmpty
    <3>4. DecodeString(z) = <<>>  BY <1>1, <3>1, <3>2, <3>3 DEF DecodeString
    <3>. QED  BY <1>5, <2>1, <2>5, <3>4, ZeroIs DEF DecodeValue
  <2>6. CASE t = "char"
    <3>1. ~(k < 1) /\ z # <<>>  BY <1>1, <1>5, <2>1, <2>6 DEF ByteSize
    <3>2. SubSeq(z, 0 + 1, 1) = Zeros(1 - 0)
      <4>1. 0 \in Nat /\ 1 \in 0..k /\ 0 <= 1  BY <3>1
      <4>. QED  BY <1>2, <4>1
    <3>3. Zeros(1 - 0) = <<0>>  BY DEF Zeros
    <3>. QED  BY <1>5, <2>1, <2>6, <3>1, <3>2, <3>3, ZeroIs DEF DecodeValue
  <2>7. CASE t = "datetime"
    <3>1. ~(k < 8)  BY <1>5, <2>1, <2>7 DEF ByteSize
    <3>. DEFINE d == DecodeDateTime(z)
                c == <<2000, 0, 0, 0, 0, 0>>
    <3>2. d \in Seq(Int) /\ Len(d) = 6 /\ d[1] = 2000 + z[1] /\ \A i \in 2..6 : d[i] = z[i]
      BY <1>1, <3>1, DateIs
    <3>3. c \in Seq(Int) /\ Len(c) = 6 /\ c[1] = 2000 /\ \A i \in 2..6 : c[i] = 0
      OBVIOUS
    <3>4. DecodeValue(t, z) = d /\ Zero(t) = c  BY <2>1, <2>7, ZeroIs DEF DecodeValue
    <3>. HIDE DEF d, c
    <3>5. ASSUME NEW i \in 1..6  PROVE d[i] = c[i]
      <4>1. z[i] = 0 /\ (i = 1 \/ i \in 2..6)  BY <1>1, <3>1
      <4>2. CASE i = 1  BY <3>2, <3>3, <4>1, <4>2
      <4>3. CASE i \in 2..6  BY <3>2, <3>3, <4>1, <4>3
      <4>. QED  BY <4>1, <4>2, <4>3
    <3>6. d = c
      <4>1. Len(d) = Len(c) /\ \A i \in 1..Len(d) : d[i] = c[i]  BY <3>2, <3>3, <3>5
      <4>2. d \in Seq(Int) /\ c \in Seq(Int)  BY <3>2, <3>3
      <4>. QED  BY <4>1, <4>2, SeqEqual
    <3>. QED  BY <1>5, <3>4, <3>6
  <2>8. CASE t = "longAsDateTime"
    <3>1. ~(k < 8)  BY <1>5, <2>1, <2>8 DEF ByteSize
    <3>2. SubSeq(z, 0 + 1, 8) = Zeros(8 - 0)
      <4>1. 0 \in Nat /\ 8 \in 0..k /\ 0 <= 8  BY <3>1
      <4>. QED  BY <1>2, <4>1
    <3>3. 0 + 1 = 1 /\ 8 - 0 = 8 /\ 8 \in 1..8  OBVIOUS
    <3>4. FromBigEndian(SubSeq(z, 1, 8), TRUE) = 0  BY <3>2, <3>3, ZeroBytes
    <3>. DEFINE x == FromBigEndian(SubSeq(z, 1, 8), TRUE)
    <3>5. DecodeLongAsDateTime(z) = IF x < 0 /\ x % 1000 # 0 THEN Err ELSE x - (x % 1000)
      BY <1>1, <3>1 DEF DecodeLongAsDateTime
    <3>6. x = 0  BY <3>4
    <3>. HIDE DEF x
    <3>7. DecodeLongAsDateTime(z) = 0  BY <3>5, <3>6
    <3>. QED  BY <1>5, <2>1, <2>8, <3>7, ZeroIs DEF DecodeValue
  <2>. QED  BY <1>5, <2>3, <2>4, <2>5, <2>6, <2>7, <2>8
<1>. QED  BY <1>3, <1>4, <1>5, FaithfulTypes

\* A text is read back; from fewer bytes nothing is.
LEMMA ReadsBackText ==
    ASSUME NEW s \in Seq(Byte), Len(s) <= Base - 2
    PROVE  /\ EncodeString(s) \in Seq(Byte) /\ Len(EncodeString(s)) = 2 + Len(s)
           /\ DecodeString(EncodeString(s)) = s
           /\ \A k \in 0..(1 + Len(s)) : DecodeString(SubSeq(EncodeString(s), 1, k)) = Err
<1>. DEFINE head == <<Base - 2, Len(s)>>
            l == Len(s)
            n == 2 + l
            enc == EncodeString(s)
<1>1. l \in Nat /\ n \in Nat /\ Base \in Nat /\ Base >= 4 /\ l <= Base - 2
  BY LenProperties, ByteType
<1>2. enc = head \o s  BY <1>1 DEF EncodeString
<1>3. head \in Seq(Byte) /\ Len(head) = 2 /\ head[2] = l
  <2>1. Base - 2 \in Byte /\ l \in Byte  BY <1>1 DEF Byte
  <2>. QED  BY <2>1
<1>. HIDE DEF enc, head
<1>4. /\ head \o s \in Seq(Byte) /\ Len(head \o s) = Len(head) + Len(s)
      /\ \A i \in 1..(Len(head) + Len(s)) :
            (head \o s)[i] = IF i <= Len(head) THEN head[i] ELSE s[i - Len(head)]
  BY <1>3, ConcatProperties
<1>5. /\ enc \in Seq(Byte) /\ Len(enc) = n /\ enc \in Blocks(n)
      /\ \A i \in 1..n : enc[i] = IF i <= 2 THEN head[i] ELSE s[i - 2]
  <2>1. Len(head) + Len(s) = n  BY <1>1, <1>3
  <2>2. /\ enc \in Seq(Byte) /\ Len(enc) = n
        /\ \A i \in 1..n : enc[i] = IF i <= 2 THEN head[i] ELSE s[i - 2]
    BY <1>2, <1>3, <1>4, <2>1
  <2>. HIDE DEF n
  <2>. QED  BY <2>2, SeqIsBlock
<1>. HIDE DEF l
<1>6. enc[2] = l
  <2>1. 2 \in 1..n  BY <1>1
  <2>. QED  BY <1>3, <1>5, <2>1
<1>7. DecodeString(enc) = s
  <2>. DEFINE r == SubSeq(enc, 2 + 1, n)
  <2>1. r \in Blocks(n - 2) /\ \A i \in 1..(n - 2) : r[i] = enc[2 + i]
    <3>1. 2 \in Nat /\ n \in 0..n /\ 2 <= n  BY <1>1
    <3>. HIDE DEF n
    <3>. QED  BY <1>1, <1>5, <3>1, SliceIs
  <2>. HIDE DEF r
  <2>2. n - 2 = l /\ s \in Blocks(l)
    <3>1. s \in Blocks(Len(s))  BY SeqIsBlock
    <3>. QED  BY <1>1, <3>1 DEF l
  <2>3. ASSUME NEW i \in 1..l  PROVE r[i] = s[i]
    <3>1. 2 + i \in 1..n /\ ~(2 + i <= 2) /\ (2 + i) - 2 = i  BY <1>1
    <3>2. r[i] = enc[2 + i]  BY <2>1, <2>2
    <3>. QED  BY <1>5, <3>1, <3>2
  <2>4. r = s  BY <1>1, <2>1, <2>2, <2>3, SameBlock
  <2>5. DecodeString(enc) = SubSeq(enc, 3, 2 + l)
    BY <1>1, <1>5, <1>6 DEF DecodeString
  <2>6. 2 + 1 = 3  OBVIOUS
  <2>. QED  BY <2>4, <2>5, <2>6 DEF r
<1>8. ASSUME NEW k \in 0..(1 + l)  PROVE DecodeString(SubSeq(enc, 1, k)) = Err
  <2>. DEFINE c == SubSeq(enc, 0 + 1, k)
  <2>1. c \in Blocks(k - 0) /\ \A i \in 1..(k - 0) : c[i] = enc[0 + i]
    <3>1. 0 \in Nat /\ k \in 0..n /\ 0 <= k  BY <1>1
    <3>. HIDE DEF n
    <3>. QED  BY <1>1, <1>5, <3>1, SliceIs
  <2>2. k - 0 = k /\ k \in Nat /\ 0 + 1 = 1 /\ 0 + 2 = 2 /\ k < 2 + l  BY <1>1
  <2>. HIDE DEF c
  <2>3. Len(c) = k  BY <2>1, <2>2, BlockIsSeq
  <2>4. DecodeString(c) = Err
    <3>1. CASE k < 2  BY <2>3, <3>1 DEF DecodeString
    <3>2. CASE ~(k < 2)
      <4>1. 2 \in 1..(k - 0)  BY <2>2, <3>2
      <4>2. c[2] = l  BY <1>6, <2>1, <2>2, <4>1
      <4>. QED  BY <2>2, <2>3, <4>2 DEF DecodeString
    <3>. QED  BY <3>1, <3>2
  <2>. QED  BY <2>2, <2>4 DEF c
<1>. QED  BY <1>5, <1>7, <1>8 DEF enc, l

\* A date is read back but for its zone and what is smaller than a second.
LEMMA ReadsBackDate ==
    ASSUME NEW d \in [1..8 -> Int], \A i \in 2..6 : d[i] \in Byte
    PROVE  /\ EncodeDateTime(d) \in Seq(Byte) /\ Len(EncodeDateTime(d)) = 8
           /\ d[1] - 2000 \in Byte \cap 0..99 => DecodeDateTime(EncodeDateTime(d)) = SubSeq(d, 1, 6)
           /\ SubSeq(d, 1, 6) \in Seq(Int)
<1>. DEFINE year == IF d[1] >= 2000 THEN (d[1] - 2000) % 100 ELSE -((2000 - d[1]) % 100)
            head == <<year % Base>>
            rest == [i \in 1..7 |-> d[i + 1] % Base]
            enc == EncodeDateTime(d)
<1>1. Base \in Nat \ {0} /\ \A x \in Int : x % Base \in Byte
  <2>1. Base \in Nat \ {0}  BY ByteType
  <2>2. \A x \in Int : x % Base \in 0..(Base - 1)  BY <2>1, DivMod
  <2>. QED  BY <2>1, <2>2 DEF Byte
<1>2. enc = head \o rest  BY DEF EncodeDateTime
<1>3. year \in Int /\ d[1] \in Int /\ \A i \in 1..7 : d[i + 1] \in Int
  <2>1. d[1] \in Int  OBVIOUS
  <2>2. \A i \in 1..7 : i + 1 \in 1..8  OBVIOUS
  <2>3. \A x \in Int : x % 100 \in Int  OBVIOUS
  <2>. QED  BY <2>1, <2>2, <2>3
<1>4. head \in Seq(Byte) /\ Len(head) = 1 /\ head[1] = year % Base
  <2>. HIDE DEF year
  <2>1. year % Base \in Byte  BY <1>1, <1>3
  <2>. QED  BY <2>1
<1>5. rest \in Seq(Byte) /\ Len(rest) = 7 /\ \A i \in 1..7 : rest[i] = d[i + 1] % Base
  <2>1. \A i \in 1..7 : d[i + 1] % Base \in Byte  BY <1>1, <1>3
  <2>2. rest \in [1..7 -> Byte] /\ \A i \in 1..7 : rest[i] = d[i + 1] % Base  BY <2>1
  <2>. HIDE DEF rest
  <2>3. rest \in Blocks(7) /\ 7 \in Nat  BY <2>2 DEF Blocks
  <2>. QED  BY <2>2, <2>3, BlockIsSeq
<1>. HIDE DEF enc, head, rest
<1>6. /\ head \o rest \in Seq(Byte) /\ Len(head \o rest) = Len(head) + Len(rest)
      /\ \A i \in 1..(Len(head) + Len(rest)) :
            (head \o rest)[i] = IF i <= Len(head) THEN head[i] ELSE rest[i - Len(head)]
  <2>1. head \in Seq(Byte) /\ rest \in Seq(Byte)  BY <1>4, <1>5
  <2>. QED  BY <2>1, ConcatProperties
<1>7. /\ enc \in Seq(Byte) /\ Len(enc) = 8
      /\ \A i \in 1..8 : enc[i] = IF i <= 1 THEN head[i] ELSE rest[i - 1]
  <2>1. Len(head) = 1 /\ Len(head) + Len(rest) = 8  BY <1>4, <1>5
  <2>. QED  BY <1>2, <1>6, <2>1
<1>8. /\ SubSeq(d, 1, 6) \in Seq(Int) /\ Len(SubSeq(d, 1, 6)) = 6
      /\ \A i \in 1..6 : SubSeq(d, 1, 6)[i] = d[i]
  <2>1. \A i \in 1..6 : d[i] \in Int  OBVIOUS
  <2>2. /\ SubSeq(d, 1, 6) \in Seq(Int) /\ Len(SubSeq(d, 1, 6)) = IF 1 <= 6 THEN 6 - 1 + 1 ELSE 0
        /\ \A i \in 1..(6 - 1 + 1) : SubSeq(d, 1, 6)[i] = d[1 + i - 1]
    BY <2>1, SubSeqProperties
  <2>3. 6 - 1 + 1 = 6 /\ \A i \in 1..6 : 1 + i - 1 = i  OBVIOUS
  <2>. QED  BY <2>2, <2>3
<1>9. ASSUME d[1] - 2000 \in Byte \cap 0..99  PROVE DecodeDateTime(enc) = SubSeq(d, 1, 6)
  <2>. DEFINE r == DecodeDateTime(enc)
              c == SubSeq(d, 1, 6)
  <2>1. r \in Seq(Int) /\ Len(r) = 6 /\ r[1] = 2000 + enc[1] /\ \A i \in 2..6 : r[i] = enc[i]
    <3>1. enc \in Seq(Byte) /\ Len(enc) = 8  BY <1>7
    <3>2. enc \in Blocks(Len(enc))  BY <3>1, SeqIsBlock
    <3>3. enc \in Blocks(8) /\ 8 \in Nat /\ 8 >= 8  BY <3>1, <3>2
    <3>. QED  BY <3>3, DateIs
  <2>. HIDE DEF r, c
  <2>2. r[1] = d[1]
    <3>. DEFINE y == d[1] - 2000
    <3>1. y \in 0..(Base - 1) /\ y \in 0..99 /\ d[1] = 2000 + y /\ d[1] >= 2000
      BY <1>3, <1>9 DEF Byte
    <3>. HIDE DEF y
    <3>2. y = 100 * 0 + y /\ y \in 0..(100 - 1) /\ 100 \in Nat \ {0}  BY <3>1
    <3>3. y % 100 = y  BY <3>2, DivModIs
    <3>4. d[1] - 2000 = y  BY <1>3, <3>1
    <3>5. year = y  BY <3>1, <3>3, <3>4
    <3>6. y % Base = y
      <4>1. Base \in Nat \ {0}  BY <1>1
      <4>2. y = Base * 0 + y /\ y \in 0..(Base - 1) /\ y \in Int /\ 0 \in Int  BY <3>1, <4>1
      <4>. QED  BY <4>1, <4>2, DivModIs
    <3>7. enc[1] = head[1]
      <4>1. 1 \in 1..8 /\ 1 <= 1  OBVIOUS
      <4>. QED  BY <1>7, <4>1
    <3>8. head[1] = y  BY <1>4, <3>5, <3>6
    <3>. QED  BY <2>1, <3>1, <3>7, <3>8
  <2>3. ASSUME NEW i \in 2..6  PROVE r[i] = d[i]
    <3>1. i \in 1..8 /\ ~(i <= 1) /\ i - 1 \in 1..7 /\ (i - 1) + 1 = i  OBVIOUS
    <3>2. enc[i] = d[i] % Base  BY <1>5, <1>7, <3>1
    <3>. DEFINE y == d[i]
    <3>3. y \in 0..(Base - 1)  BY DEF Byte
    <3>. HIDE DEF y
    <3>4. y % Base = y
      <4>1. Base \in Nat \ {0}  BY <1>1
      <4>2. y = Base * 0 + y /\ y \in 0..(Base - 1) /\ y \in Int /\ 0 \in Int  BY <3>3, <4>1
      <4>. QED  BY <4>1, <4>2, DivModIs
    <3>. QED  BY <2>1, <3>2, <3>4 DEF y
  <2>4. Len(r) = Len(c) /\ \A i \in 1..Len(r) : r[i] = c[i]
    <3>1. ASSUME NEW i \in 1..6  PROVE r[i] = c[i]
      <4>1. i = 1 \/ i \in 2..6  OBVIOUS
      <4>2. c[i] = d[i]  BY <1>8 DEF c
      <4>. QED  BY <2>2, <2>3, <4>1, <4>2
    <3>. QED  BY <1>8, <2>1, <3>1 DEF c
  <2>5. r \in Seq(Int) /\ c \in Seq(Int)  BY <1>8, <2>1 DEF c
  <2>6. r = c  BY <2>4, <2>5, SeqEqual
  <2>. QED  BY <2>6 DEF r, c
<1>. QED  BY <1>7, <1>8, <1>9 DEF enc

\* A moment is read back in seconds.
LEMMA ReadsBackMoment ==
    ASSUME NEW v \in -(Pow[8] \div 2)..(Pow[8] \div 2 - 1)
    PROVE  /\ BigEndian(v, 8) \in Seq(Byte) /\ Len(BigEndian(v, 8)) = 8
           /\ DecodeLongAsDateTime(BigEndian(v, 8))
                = IF v < 0 /\ v % 1000 # 0 THEN Err ELSE v - (v % 1000)
           /\ v \in Int
<1>. DEFINE p == Pow[8]
            h == p \div 2
            enc == BigEndian(v, 8)
<1>1. p \in Nat \ {0} /\ h \in Nat \ {0} /\ p = h + h  BY HalfPow
<1>2. FromBigEndian(enc, TRUE) = ((v + h) % p) - h
  <2>1. 8 \in 1..8 /\ v \in Int  BY <1>1
  <2>. QED  BY <2>1, ReadsNumber
<1>3. v \in Int /\ v \in -h..(h - 1)  BY <1>1
<1>4. enc \in Seq(Byte) /\ Len(enc) = 8
  <2>1. 8 \in 0..8 /\ v \in Int  BY <1>1
  <2>. QED  BY <2>1, BigEndianIs
<1>. HIDE DEF p, h, enc
<1>5. (v + h) % p = v + h
  <2>. DEFINE y == v + h
  <2>1. y \in 0..(p - 1) /\ y \in Int  BY <1>1, <1>3
  <2>. HIDE DEF y
  <2>2. y = p * 0 + y  BY <1>1, <2>1
  <2>3. y % p = y  BY <1>1, <2>1, <2>2, DivModIs
  <2>. QED  BY <2>3 DEF y
<1>6. FromBigEndian(enc, TRUE) = v
  <2>1. (v + h) - h = v  BY <1>1, <1>3
  <2>. QED  BY <1>2, <1>5, <2>1
<1>7. SubSeq(enc, 1, 8) = enc  BY <1>4, SubSeqFull
<1>8. DecodeLongAsDateTime(enc) = IF v < 0 /\ v % 1000 # 0 THEN Err ELSE v - (v % 1000)
  <2>1. ~(Len(enc) < 8)  BY <1>4
  <2>. DEFINE x == FromBigEndian(SubSeq(enc, 1, 8), TRUE)
  <2>2. DecodeLongAsDateTime(enc) = IF x < 0 /\ x % 1000 # 0 THEN Err ELSE x - (x % 1000)
    BY <2>1 DEF DecodeLongAsDateTime
  <2>3. x = v  BY <1>6, <1>7
  <2>. HIDE DEF x
  <2>. QED  BY <2>2, <2>3
<1>. QED  BY <1>3, <1>4, <1>8 DEF enc

\* A value's bytes are read back as what the value is to be read as, or not at
\* all; from fewer of them nothing is.
LEMMA ReadsBack ==
    ASSUME NEW t \in Faithful, NEW v \in ValueOf(t), EncodeValue(t, v) \in Seq(Byte)
    PROVE  LET enc == EncodeValue(t, v) IN
           /\ Dated(t, v) => DecodeValue(t, enc) = ReadAs(t, v)
           /\ t # "datetime" => DecodeValue(t, enc) \in {Err, ReadAs(t, v)}
           /\ \A k \in 0..(Len(enc) - 1) : DecodeValue(t, SubSeq(enc, 1, k)) = Err
           /\ t # "string" => Len(enc) = ByteSize(t)
           /\ ReadAs(t, v) \in Decoded
<1>. DEFINE enc == EncodeValue(t, v)
            want == ReadAs(t, v)
            Whole == /\ Dated(t, v) => DecodeValue(t, enc) = want
                     /\ t # "datetime" => DecodeValue(t, enc) \in {Err, want}
                     /\ want \in Decoded
            Cut == \A k \in 0..(Len(enc) - 1) : DecodeValue(t, SubSeq(enc, 1, k)) = Err
            Exact == t # "string" => Len(enc) = ByteSize(t)
<1>1. SUFFICES Whole /\ Cut /\ Exact
  OBVIOUS
<1>2. enc \in Seq(Byte) /\ Len(enc) \in Nat /\ enc \in Blocks(Len(enc))  BY SeqIsBlock
<1>3. \A k \in 0..(Len(enc) - 1) : /\ SubSeq(enc, 1, k) \in Seq(Byte)
                                   /\ Len(SubSeq(enc, 1, k)) = k
  <2>. HIDE DEF enc
  <2>1. TAKE k \in 0..(Len(enc) - 1)
  <2>2. k \in 0..Len(enc) /\ 0 \in Nat /\ 0 <= k /\ k - 0 = k /\ 0 + 1 = 1 /\ k \in Nat
    BY <1>2
  <2>3. SubSeq(enc, 0 + 1, k) \in Blocks(k - 0)  BY <1>2, <2>2, SliceIs
  <2>4. SubSeq(enc, 1, k) \in Blocks(k)  BY <2>2, <2>3
  <2>. QED  BY <2>2, <2>4, BlockIsSeq
<1>4. Exact => (t # "string" => Cut)
  <2>. HIDE DEF enc
  <2>1. ASSUME Len(enc) = ByteSize(t), NEW k \in 0..(Len(enc) - 1)
        PROVE  DecodeValue(t, SubSeq(enc, 1, k)) = Err
    <3>1. k < ByteSize(t)  BY <1>2, <2>1
    <3>. QED  BY <1>3, <2>1, <3>1, ShortIsErr
  <2>. QED  BY <2>1
<1>5. CASE t \in DOMAIN Numbers
  <2>1. /\ enc = EncodeNumber(t, v) /\ want = InRange(t, v) /\ ByteSize(t) = Numbers[t].width
        /\ DecodeValue(t, enc) = DecodeNumber(t, enc)
    BY <1>5, NumberCases
  <2>2. Len(enc) = ByteSize(t) /\ DecodeValue(t, enc) = want /\ want \in Int
    BY <1>5, <2>1, ReadsBackNumber
  <2>3. t # "string"  BY <1>5, NumberTypes
  <2>. HIDE DEF enc, want
  <2>4. want \in Decoded  BY <2>2, ErrIsNone
  <2>. QED  BY <1>4, <2>2, <2>3, <2>4
<1>6. CASE t = "boolean"
  <2>1. "boolean" \notin DOMAIN Numbers  BY DEF Numbers
  <2>2. enc = <<IF v THEN 1 ELSE 0>>  BY <1>6, <2>1 DEF EncodeValue
  <2>3. Len(enc) = 1 /\ enc # <<>> /\ enc[1] = IF v THEN 1 ELSE 0  BY <2>2
  <2>4. ByteSize(t) = 1  BY <1>6, <2>1 DEF ByteSize
  <2>5. want = v  BY <1>6, <2>1 DEF ReadAs
  <2>6. v \in BOOLEAN  BY <1>6, <2>1 DEF ValueOf
  <2>. HIDE DEF enc, want
  <2>7. DecodeValue(t, enc) = (enc[1] # 0)  BY <1>6, <2>1, <2>3 DEF DecodeValue
  <2>8. (enc[1] # 0) = v
    <3>1. ASSUME v  PROVE enc[1] # 0
      <4>1. enc[1] = 1  BY <2>3, <3>1, Zenon
      <4>. QED  BY <4>1
    <3>2. ASSUME ~v  PROVE ~(enc[1] # 0)
      <4>1. enc[1] = 0  BY <2>3, <3>2, Zenon
      <4>. QED  BY <4>1
    <3>3. enc[1] # 0 <=> v  BY <3>1, <3>2
    <3>. QED  BY <2>6, <3>3
  <2>9. DecodeValue(t, enc) = want  BY <2>5, <2>7, <2>8, Zenon
  <2>10. want \in Decoded  BY <2>5, <2>6, Zenon DEF Decoded
  <2>. QED  BY <1>4, <1>6, <2>3, <2>4, <2>9, <2>10
<1>7. CASE t = "ip"
  <2>1. "ip" \notin DOMAIN Numbers  BY DEF Numbers
  <2>2. enc = v /\ want = v  BY <1>7, <2>1 DEF EncodeValue, ReadAs
  <2>3. v \in [1..4 -> Byte]  BY <1>7, <2>1 DEF ValueOf
  <2>4. Len(enc) = 4
    <3>1. v \in Blocks(4) /\ 4 \in Nat  BY <2>3 DEF Blocks
    <3>. QED  BY <2>2, <3>1, BlockIsSeq
  <2>5. ByteSize(t) = 4  BY <1>7, <2>1 DEF ByteSize
  <2>. HIDE DEF enc, want
  <2>6. SubSeq(enc, 1, 4) = enc  BY <1>2, <2>4, SubSeqFull
  <2>7. DecodeValue(t, enc) = want  BY <1>7, <2>1, <2>2, <2>4, <2>6 DEF DecodeValue
  <2>8. want \in Decoded  BY <1>2, <2>2, ErrIsNone
  <2>. QED  BY <1>4, <1>7, <2>4, <2>5, <2>7, <2>8
<1>8. CASE t = "string"
  <2>1. "string" \notin DOMAIN Numbers  BY DEF Numbers
  <2>2. enc = EncodeString(v)  BY <1>8, <2>1 DEF EncodeValue
  <2>3. v \in Seq(Byte)  BY <1>8, <2>1 DEF ValueOf
  <2>4. enc # Err  BY <1>2, BlockIsSeq
  <2>5. Len(v) \in Nat /\ Len(v) <= Base - 2
    <3>1. Len(v) \in Nat /\ ~(Len(v) > Base - 2)  BY <2>2, <2>3, <2>4, LenProperties DEF EncodeString
    <3>. QED  BY <3>1, ByteType
  <2>6. want = v
    <3>1. ~(Len(v) > Base - 2)  BY <2>5, ByteType
    <3>. QED  BY <1>8, <2>1, <3>1 DEF ReadAs
  <2>. HIDE DEF enc, want
  <2>7. /\ Len(enc) = 2 + Len(v) /\ DecodeString(enc) = v
        /\ \A k \in 0..(1 + Len(v)) : DecodeString(SubSeq(enc, 1, k)) = Err
    BY <2>2, <2>3, <2>5, ReadsBackText
  <2>8. \A b : DecodeValue(t, b) = DecodeString(b)  BY <1>8, <2>1 DEF DecodeValue
  <2>9. want \in Decoded  BY <2>3, <2>6, ErrIsNone
  <2>10. DecodeValue(t, enc) = want  BY <2>6, <2>7, <2>8
  <2>11. Len(enc) - 1 = 1 + Len(v)  BY <2>5, <2>7
  <2>12. Cut  BY <2>7, <2>8, <2>11
  <2>. QED  BY <1>8, <2>9, <2>10, <2>12
<1>9. CASE t = "char"
  <2>1. "char" \notin DOMAIN Numbers  BY DEF Numbers
  <2>. DEFINE x == (IF v = <<>> THEN 32 ELSE v[1]) % Base
  <2>2. enc = <<x>> /\ want = <<x>>  BY <1>9, <2>1 DEF EncodeValue, EncodeChar, ReadAs
  <2>. HIDE DEF x
  <2>3. Len(enc) = 1 /\ enc # <<>>  BY <2>2
  <2>4. ByteSize(t) = 1  BY <1>9, <2>1 DEF ByteSize
  <2>. HIDE DEF enc, want
  <2>5. SubSeq(enc, 1, 1) = enc  BY <1>2, <2>3, SubSeqFull
  <2>6. DecodeValue(t, enc) = want  BY <1>9, <2>1, <2>2, <2>3, <2>5 DEF DecodeValue
  <2>7. want \in Decoded
    <3>1. enc \in Decoded  BY <1>2, ErrIsNone
    <3>. QED  BY <2>2, <3>1
  <2>. QED  BY <1>4, <1>9, <2>3, <2>4, <2>6, <2>7
<1>10. CASE t = "datetime"
  <2>1. "datetime" \notin DOMAIN Numbers  BY DEF Numbers
  <2>2. enc = EncodeDateTime(v) /\ want = SubSeq(v, 1, 6)
    BY <1>10, <2>1 DEF EncodeValue, ReadAs
  <2>3. v \in [1..8 -> Int] /\ \A i \in 2..6 : v[i] \in Byte
    BY <1>10, <2>1 DEF ValueOf
  <2>4. Dated(t, v) <=> v[1] - 2000 \in Byte \cap 0..99  BY <1>10 DEF Dated
  <2>5. ByteSize(t) = 8  BY <1>10, <2>1 DEF ByteSize
  <2>. HIDE DEF enc, want
  <2>6. /\ Len(enc) = 8 /\ want \in Seq(Int)
        /\ v[1] - 2000 \in Byte \cap 0..99 => DecodeDateTime(enc) = want
    <3>1. /\ EncodeDateTime(v) \in Seq(Byte) /\ Len(EncodeDateTime(v)) = 8
          /\ v[1] - 2000 \in Byte \cap 0..99
             => DecodeDateTime(EncodeDateTime(v)) = SubSeq(v, 1, 6)
          /\ SubSeq(v, 1, 6) \in Seq(Int)
      BY <2>3, ReadsBackDate
    <3>. QED  BY <2>2, <3>1
  <2>7. DecodeValue(t, enc) = DecodeDateTime(enc)  BY <1>10, <2>1 DEF DecodeValue
  <2>8. want \in Decoded  BY <2>6, ErrIsNone
  <2>. QED  BY <1>4, <1>10, <2>4, <2>5, <2>6, <2>7, <2>8
<1>11. CASE t = "longAsDateTime"
  <2>1. "longAsDateTime" \notin DOMAIN Numbers  BY DEF Numbers
  <2>2. enc = BigEndian(v, 8) /\ want = v - (v % 1000)
    BY <1>11, <2>1 DEF EncodeValue, ReadAs
  <2>3. v \in -(Pow[8] \div 2)..(Pow[8] \div 2 - 1)  BY <1>11, <2>1 DEF ValueOf
  <2>4. Dated(t, v) <=> v >= 0 \/ v % 1000 = 0  BY <1>11 DEF Dated
  <2>5. ByteSize(t) = 8  BY <1>11, <2>1 DEF ByteSize
  <2>6. DecodeValue(t, enc) = DecodeLongAsDateTime(enc)  BY <1>11, <2>1 DEF DecodeValue
  <2>. HIDE DEF enc, want
  <2>7. /\ Len(enc) = 8 /\ v \in Int
        /\ DecodeLongAsDateTime(enc) = IF v < 0 /\ v % 1000 # 0 THEN Err ELSE v - (v % 1000)
    BY <2>2, <2>3, ReadsBackMoment
  <2>8. want \in Int  BY <2>2, <2>7
  <2>9. want \in Decoded  BY <2>8, ErrIsNone
  <2>10. DecodeValue(t, enc) = IF v < 0 /\ v % 1000 # 0 THEN Err ELSE want
    BY <2>2, <2>6, <2>7
  <2>11. Dated(t, v) => DecodeValue(t, enc) = want  BY <2>4, <2>7, <2>10
  <2>12. DecodeValue(t, enc) \in {Err, want}  BY <2>10
  <2>. QED  BY <1>4, <1>11, <2>5, <2>7, <2>9, <2>11, <2>12
<1>. QED  BY <1>5, <1>6, <1>7, <1>8, <1>9, <1>10, <1>11, FaithfulTypes

\* Where the k-th value of a field begins, whether the object has one with
\* bytes, and the bytes.
ItemStart(f, k) == f.offset + (k - 1) * SizeOf(f)

Given(f, content, k) ==
    /\ f.name \in DOMAIN content
    /\ k \in 1..ItemCount(f, content[f.name])
    /\ Encoded(f, Item(f, content[f.name], k)) # Err

BytesOf(f, content, k) == Encoded(f, Item(f, content[f.name], k))

\* The value has bytes for all of its place in a block of n bytes.
Covers(f, content, k, n) ==
    /\ BytesOf(f, content, k) \in Seq(Byte)
    /\ ItemStart(f, k) <= n
    /\ Least(ItemStart(f, k) + SizeOf(f), n) - ItemStart(f, k) <= Len(BytesOf(f, content, k))

LEMMA ItemStartType ==
    ASSUME NEW f \in Field, NEW k \in Nat \ {0}
    PROVE  ItemStart(f, k) \in Nat /\ SizeOf(f) \in Nat /\ ItemStart(f, k) >= f.offset
<1>. DEFINE i == k - 1
            size == SizeOf(f)
<1>1. i \in Nat /\ size \in Nat /\ f.offset \in Nat  BY SizeType
<1>. HIDE DEF i, size
<1>2. i * size \in Nat  BY <1>1
<1>. QED  BY <1>1, <1>2 DEF ItemStart, i, size

\* Two values of a field have no byte in common.
LEMMA ItemsApart ==
    ASSUME NEW f \in Field, NEW k \in Nat \ {0}, NEW i \in Nat \ {0}, i # k,
           NEW j \in ItemStart(f, k)..(ItemStart(f, k) + SizeOf(f) - 1)
    PROVE  j \notin ItemStart(f, i)..(ItemStart(f, i) + SizeOf(f) - 1)
<1>. DEFINE size == SizeOf(f)
            a == (k - 1) * size
            c == (i - 1) * size
<1>1. size \in Nat /\ f.offset \in Nat  BY SizeType
<1>2. a \in Nat /\ c \in Nat /\ (k < i => a + size <= c) /\ (i < k => c + size <= a)
  <2>. HIDE DEF size
  <2>1. k - 1 \in Nat /\ i - 1 \in Nat  OBVIOUS
  <2>2. ASSUME k < i  PROVE (k - 1) * size + size <= (i - 1) * size
    <3>1. k - 1 < i - 1  BY <2>2
    <3>. QED  BY <1>1, <2>1, <3>1, Products
  <2>3. ASSUME i < k  PROVE (i - 1) * size + size <= (k - 1) * size
    <3>1. i - 1 < k - 1  BY <2>3
    <3>. QED  BY <1>1, <2>1, <3>1, Products
  <2>4. (k - 1) * size \in Nat /\ (i - 1) * size \in Nat  BY <1>1, <2>1
  <2>. QED  BY <2>2, <2>3, <2>4
<1>3. ItemStart(f, k) = f.offset + a /\ ItemStart(f, i) = f.offset + c  BY DEF ItemStart
<1>4. j \in (f.offset + a)..(f.offset + a + size - 1)  BY <1>3
<1>. HIDE DEF a, c, size
<1>5. k < i \/ i < k  OBVIOUS
<1>6. j \notin (f.offset + c)..(f.offset + c + size - 1)  BY <1>1, <1>2, <1>4, <1>5
<1>. QED  BY <1>3, <1>6 DEF size

\* A value that is copied without a panic covers its place.
LEMMA ItemCovers ==
    ASSUME NEW n \in Nat, NEW b \in Blocks(n), NEW f \in Field, NEW content, NEW k \in Nat \ {0},
           Given(f, content, k), BytesOf(f, content, k) \in Seq(Byte),
           EncodeItem(b, f, k - 1, Item(f, content[f.name], k)) # Panic
    PROVE  Covers(f, content, k, n)
<1>. DEFINE size == SizeOf(f)
            start == ItemStart(f, k)
            enc == BytesOf(f, content, k)
            end == Least(start + size, Len(b))
<1>1. start \in Nat /\ size \in Nat  BY ItemStartType
<1>2. Len(b) = n /\ b # Panic  BY BlockIsSeq
<1>3. enc # Err /\ Len(enc) \in Nat  BY LenProperties DEF Given, BytesOf
<1>4. EncodeItem(b, f, k - 1, Item(f, content[f.name], k)) = Copy(b, start, end, enc)
  BY <1>2, <1>3 DEF EncodeItem, Encoded, BytesOf, ItemStart
<1>5. ~(end < start) /\ ~(Len(enc) < end - start)  BY <1>4 DEF Copy
<1>6. end = Least(start + size, n) /\ end \in Nat /\ end <= n  BY <1>1, <1>2 DEF Least
<1>. HIDE DEF end, start, enc, size
<1>7. start <= n /\ end - start <= Len(enc)  BY <1>1, <1>3, <1>5, <1>6
<1>. QED  BY <1>6, <1>7 DEF Covers, start, enc, size

\* What a property makes of a block without a panic: all values cover their
\* places, and are copied there.
LEMMA PropertyItems ==
    ASSUME NEW n \in Nat, NEW b \in Blocks(n), NEW f \in Field, NEW content,
           HasType(f, content), EncodeProperty(b, f, content) # Panic
    PROVE  /\ \A k \in 1..f.count : Given(f, content, k) => Covers(f, content, k, n)
           /\ \A k \in 1..f.count :
                 \A j \in ItemStart(f, k)..(ItemStart(f, k) + SizeOf(f) - 1) : j < n =>
                    EncodeProperty(b, f, content)[j + 1] =
                        IF Given(f, content, k)
                        THEN BytesOf(f, content, k)[j - ItemStart(f, k) + 1] ELSE b[j + 1]
<1>. DEFINE place(k) == ItemStart(f, k)..(ItemStart(f, k) + SizeOf(f) - 1)
            byte(k, j) == BytesOf(f, content, k)[j - ItemStart(f, k) + 1]
            whole == EncodeProperty(b, f, content)
<1>1. CASE f.name \notin DOMAIN content
  <2>1. \A k : ~Given(f, content, k)  BY <1>1 DEF Given
  <2>2. whole = b  BY <1>1 DEF EncodeProperty
  <2>. QED  BY <2>1, <2>2
<1>2. CASE f.name \in DOMAIN content
  <2>. DEFINE v == content[f.name]
              m == ItemCount(f, v)
  <2>1. /\ m \in Nat /\ m <= f.count
        /\ \A i \in 1..m : Encoded(f, Item(f, v, i)) \in {Err} \cup Seq(Byte)
    BY <1>2, ItemTypes
  <2>. HIDE DEF v
  <2>2. PICK run : /\ run[0] = b
                   /\ \A i \in 1..m : run[i] = EncodeItem(run[i - 1], f, i - 1, Item(f, v, i))
                   /\ EncodeField(b, f, v) = run[m]
    BY <2>1, FieldIsRun
  <2>3. whole = run[m]  BY <1>2, <2>2 DEF EncodeProperty, v
  <2>4. \A k : Given(f, content, k) <=> k \in 1..m /\ Encoded(f, Item(f, v, k)) # Err
    BY <1>2 DEF Given, v
  <2>5. \A k : BytesOf(f, content, k) = Encoded(f, Item(f, v, k))  BY DEF BytesOf, v
  <2>. DEFINE Done(i) ==
                 /\ run[i] \in Blocks(n)
                 /\ \A k \in 1..i : Given(f, content, k) => Covers(f, content, k, n)
                 /\ \A k \in 1..f.count : \A j \in place(k) : j < n =>
                       run[i][j + 1] = IF k <= i /\ Given(f, content, k) THEN byte(k, j)
                                       ELSE b[j + 1]
              Good == {i \in 0..m : run[i] = Panic \/ Done(i)}
  <2>. HIDE DEF v, m, place, byte, whole
  <2>6. f.count \in Nat  BY SizeType
  <2>7. 0 \in Good
    <3>1. \A k \in 1..f.count : ~(k <= 0)  BY <2>6
    <3>2. \A k \in 1..0 : FALSE  OBVIOUS
    <3>3. Done(0)  BY <2>2, <3>1, <3>2
    <3>. QED  BY <2>1, <3>3
  <2>8. ASSUME NEW i \in 1..m, i - 1 \in Good  PROVE i \in Good
    <3>. DEFINE r == EncodeItem(run[i - 1], f, i - 1, Item(f, v, i))
    <3>1. run[i] = r  BY <2>2
    <3>2. CASE run[i - 1] = Panic
      <4>1. run[i] = Panic  BY <3>1, <3>2 DEF EncodeItem
      <4>. QED  BY <4>1
    <3>3. CASE r = Panic
      BY <3>1, <3>3
    <3>4. CASE run[i - 1] # Panic /\ r # Panic
      <4>1. Done(i - 1)  BY <2>8, <3>4
      <4>2. i - 1 \in Nat /\ i \in Nat \ {0} /\ i <= f.count  BY <2>1, <2>6
      <4>3. Encoded(f, Item(f, v, i)) \in {Err} \cup Seq(Byte)  BY <2>1
      <4>. HIDE DEF r
      <4>4. run[i - 1] \in Blocks(n)  BY <4>1
      <4>5. r \in Blocks(n)  BY <3>4, <4>2, <4>3, <4>4, ItemStep DEF r
      <4>6. Given(f, content, i) => Covers(f, content, i, n)
        <5>1. ASSUME Given(f, content, i)  PROVE Covers(f, content, i, n)
          <6>1. BytesOf(f, content, i) \in Seq(Byte)  BY <2>4, <2>5, <4>3, <5>1
          <6>. QED  BY <3>4, <4>2, <4>4, <5>1, <6>1, ItemCovers DEF r, v
        <5>. QED  BY <5>1
      <4>7. \A k \in 1..i : Given(f, content, k) => Covers(f, content, k, n)
        <5>1. \A k \in 1..i : k = i \/ k \in 1..(i - 1)  OBVIOUS
        <5>. QED  BY <4>1, <4>6, <5>1
      <4>8. \A j \in 0..(n - 1) :
               r[j + 1] = IF Given(f, content, i) /\ j \in place(i) THEN byte(i, j)
                          ELSE run[i - 1][j + 1]
        <5>1. TAKE j \in 0..(n - 1)
        <5>. DEFINE k == i - 1
                    w == Item(f, v, i)
                    prev == run[i - 1]
        <5>4. prev \in Blocks(n) /\ k \in Nat /\ Encoded(f, w) \in {Err} \cup Seq(Byte)
          BY <4>2, <4>3, <4>4
        <5>5. EncodeItem(prev, f, k, w) # Panic  BY <3>4 DEF r
        <5>. HIDE DEF k, w, prev
        <5>6. LET start == f.offset + k * SizeOf(f) IN
              EncodeItem(prev, f, k, w)[j + 1] =
                  IF Encoded(f, w) # Err /\ j \in start..(start + SizeOf(f) - 1)
                  THEN Encoded(f, w)[j - start + 1] ELSE prev[j + 1]
          BY <5>4, <5>5, ItemByte
        <5>2. r[j + 1] = IF Encoded(f, Item(f, v, i)) # Err
                            /\ j \in (f.offset + (i - 1) * SizeOf(f))
                                     ..(f.offset + (i - 1) * SizeOf(f) + SizeOf(f) - 1)
                         THEN Encoded(f, Item(f, v, i))[j - (f.offset + (i - 1) * SizeOf(f)) + 1]
                         ELSE run[i - 1][j + 1]
          BY <5>6 DEF r, k, w, prev
        <5>3. Given(f, content, i) <=> Encoded(f, Item(f, v, i)) # Err  BY <2>4
        <5>. QED  BY <2>5, <5>2, <5>3 DEF ItemStart, place, byte
      <4>9. ASSUME NEW k \in 1..f.count, NEW j \in place(k), j < n
            PROVE  r[j + 1] = IF k <= i /\ Given(f, content, k) THEN byte(k, j) ELSE b[j + 1]
        <5>1. k \in Nat \ {0}  BY <2>6
        <5>2. j \in 0..(n - 1)
          <6>1. ItemStart(f, k) \in Nat /\ SizeOf(f) \in Nat  BY <5>1, ItemStartType
          <6>. QED  BY <4>9, <6>1 DEF place
        <5>3. run[i - 1][j + 1] = IF k <= i - 1 /\ Given(f, content, k) THEN byte(k, j)
                                  ELSE b[j + 1]
          BY <4>1, <4>9
        <5>4. CASE k = i
          <6>1. ~(k <= i - 1) /\ k <= i  BY <5>4
          <6>. QED  BY <4>8, <4>9, <5>2, <5>3, <5>4, <6>1
        <5>5. CASE k # i
          <6>1. j \notin place(i)  BY <4>2, <4>9, <5>1, <5>5, ItemsApart DEF place
          <6>2. k <= i <=> k <= i - 1  BY <4>2, <5>1, <5>5
          <6>. QED  BY <4>8, <5>2, <5>3, <6>1, <6>2
        <5>. QED  BY <5>4, <5>5
      <4>10. Done(i)  BY <3>1, <4>5, <4>7, <4>9
      <4>. QED  BY <4>10
    <3>. QED  BY <3>2, <3>3, <3>4
  <2>. HIDE DEF Good
  <2>9. Good \in SUBSET (0..m)  BY DEF Good
  <2>10. m \in Good  BY <2>1, <2>7, <2>8, <2>9, Rounds
  <2>11. Done(m)  BY <2>3, <2>10 DEF Good, whole
  <2>12. \A k \in 1..f.count : Given(f, content, k) => k \in 1..m /\ k <= m
    <3>1. \A k \in 1..m : k <= m  OBVIOUS
    <3>. QED  BY <2>4, <3>1
  <2>13. \A k \in 1..f.count : Given(f, content, k) => Covers(f, content, k, n)
    BY <2>11, <2>12
  <2>14. \A k \in 1..f.count : \A j \in place(k) : j < n =>
            whole[j + 1] = IF Given(f, content, k) THEN byte(k, j) ELSE b[j + 1]
    BY <2>3, <2>11, <2>12
  <2>. QED  BY <2>13, <2>14 DEF place, byte, whole
<1>. QED  BY <1>1, <1>2

\* encode leaves in the place of a value of a field that no other overlaps its
\* bytes, or the zeros; all values of all fields cover their places.
LEMMA EncodeItems ==
    ASSUME NEW def, NEW content, def.size \in Nat, def.fields \in Seq(Field),
           \A i \in DOMAIN def.fields : HasType(def.fields[i], content),
           NEW f \in FieldSet(def), Apart(f, def), NEW k \in Nat \ {0}, k <= f.count,
           Encode(content, def) # Panic
    PROVE  /\ Given(f, content, k) => Covers(f, content, k, def.size)
           /\ \A j \in ItemStart(f, k)..(ItemStart(f, k) + SizeOf(f) - 1) : j < def.size =>
                 Encode(content, def)[j + 1] =
                     IF Given(f, content, k)
                     THEN BytesOf(f, content, k)[j - ItemStart(f, k) + 1] ELSE 0
<1>. DEFINE m == Len(def.fields)
            n == def.size
            field(i) == def.fields[i]
            place == ItemStart(f, k)..(ItemStart(f, k) + SizeOf(f) - 1)
            byte(j) == BytesOf(f, content, k)[j - ItemStart(f, k) + 1]
            given == Given(f, content, k)
<1>1. m \in Nat /\ DOMAIN def.fields = 1..m /\ \A i \in 1..m : field(i) \in Field
  BY LenProperties
<1>2. PICK run : /\ run[0] = Zeros(n)
                 /\ \A i \in 1..m : run[i] = EncodeProperty(run[i - 1], field(i), content)
                 /\ Encode(content, def) = run[m]
  BY <1>1, EncodeIsRun
<1>3. Zeros(n) \in Blocks(n) /\ \A i \in 1..n : Zeros(n)[i] = 0  BY ZerosIs
<1>4. f \in Field /\ \E i \in 1..m : f = field(i)  BY <1>1 DEF FieldSet
<1>5. \A j \in place : j \in Place(f) /\ j \in Nat /\ (j < n => j \in 0..(n - 1) /\ j + 1 \in 1..n)
  <2>0. f \in Field  BY <1>4
  <2>1. f.count \in Nat /\ SizeOf(f) \in Nat /\ k \in Nat \ {0}  BY <2>0, SizeType
  <2>. DEFINE i == k - 1
  <2>2. i \in Nat /\ i < f.count  BY <2>1
  <2>3. ItemStart(f, k) = f.offset + i * SizeOf(f)  BY DEF ItemStart
  <2>4. ItemStart(f, k) \in Nat  BY <1>4, <2>1, ItemStartType
  <2>. HIDE DEF i
  <2>5. \A j \in place : j \in Place(f)  BY <1>4, <2>2, <2>3, ItemPlace
  <2>6. \A j \in place : j \in Nat  BY <2>1, <2>4
  <2>. QED  BY <2>5, <2>6
<1>. DEFINE seen(i) == \E h \in 1..i : f = field(h)
            Good == {i \in 0..m :
                        \/ run[i] = Panic
                        \/ /\ run[i] \in Blocks(n)
                           /\ seen(i) /\ given => Covers(f, content, k, n)
                           /\ \A j \in place : j < n =>
                                 run[i][j + 1] = IF seen(i) /\ given THEN byte(j) ELSE 0}
<1>. HIDE DEF place, byte, given
<1>6. 0 \in Good
  <2>1. ~seen(0)  OBVIOUS
  <2>. HIDE DEF seen
  <2>. QED  BY <1>1, <1>2, <1>3, <1>5, <2>1
<1>7. ASSUME NEW i \in 1..m, i - 1 \in Good  PROVE i \in Good
  <2>. DEFINE r == EncodeProperty(run[i - 1], field(i), content)
  <2>1. run[i] = r  BY <1>2
  <2>2. field(i) \in Field /\ HasType(field(i), content)  BY <1>1
  <2>3. seen(i) <=> seen(i - 1) \/ f = field(i)  BY <1>1
  <2>. HIDE DEF seen
  <2>4. CASE r = Panic
    BY <2>1, <2>4
  <2>5. CASE r # Panic
    <3>1. run[i - 1] # Panic  BY <2>2, <2>5, PanicStays
    <3>2. /\ run[i - 1] \in Blocks(n)
          /\ seen(i - 1) /\ given => Covers(f, content, k, n)
          /\ \A j \in place : j < n =>
                run[i - 1][j + 1] = IF seen(i - 1) /\ given THEN byte(j) ELSE 0
      BY <1>7, <3>1
    <3>3. r \in Blocks(n)  BY <2>2, <2>5, <3>2, PropertyStep
    <3>4. CASE field(i) # f
      <4>1. \A j \in place : j < n => r[j + 1] = run[i - 1][j + 1]
        <5>1. SUFFICES ASSUME NEW j \in place, j < n  PROVE r[j + 1] = run[i - 1][j + 1]
          OBVIOUS
        <5>2. j \notin Place(field(i))
          <6>1. field(i) \in FieldSet(def) \ {f}  BY <1>1, <3>4 DEF FieldSet
          <6>. QED  BY <1>5, <6>1 DEF Apart
        <5>3. j \in 0..(n - 1)  BY <1>5, <5>1
        <5>. QED  BY <2>2, <2>5, <3>2, <5>2, <5>3, PropertyLeaves
      <4>2. seen(i) <=> seen(i - 1)  BY <2>3, <3>4
      <4>. HIDE DEF r
      <4>. QED  BY <2>1, <3>2, <3>3, <4>1, <4>2
    <3>5. CASE field(i) = f
      <4>1. /\ given => Covers(f, content, k, n)
            /\ \A j \in place : j < n =>
                  r[j + 1] = IF given THEN byte(j) ELSE run[i - 1][j + 1]
        BY <2>2, <2>5, <3>2, <3>5, PropertyItems DEF place, byte, given
      <4>2. seen(i)  BY <2>3, <3>5
      <4>. HIDE DEF r
      <4>. QED  BY <2>1, <3>2, <3>3, <4>1, <4>2
    <3>. QED  BY <3>4, <3>5
  <2>. QED  BY <2>4, <2>5
<1>8. seen(m)  BY <1>4
<1>. HIDE DEF m, Good, seen
<1>9. Good \in SUBSET (0..m)  BY DEF Good
<1>10. m \in Good
  <2>1. m \in Nat  BY <1>1
  <2>. QED  BY <1>6, <1>7, <1>9, <2>1, Rounds
<1>11. /\ given => Covers(f, content, k, n)
       /\ \A j \in place : j < n => Encode(content, def)[j + 1] = IF given THEN byte(j) ELSE 0
  BY <1>2, <1>8, <1>10 DEF Good
<1>. QED  BY <1>11 DEF place, byte, given

-----------------------------------------------------------------------------
(* What one value is read as.                                               *)

\* How many bytes of a value a block of n bytes has.
Width(f, k, n) == Least(ItemStart(f, k) + SizeOf(f), n) - ItemStart(f, k)

\* Those bytes.
Slice(full, f, k) ==
    SubSeq(full, ItemStart(f, k) + 1, Least(ItemStart(f, k) + SizeOf(f), Len(full)))

\* A block has the bytes of a value, or zeros, at its place in a block of n
\* bytes; it has no others there.
Lies(full, f, content, k, n) ==
    /\ Given(f, content, k) => Covers(f, content, k, n)
    /\ \A j \in ItemStart(f, k)..(ItemStart(f, k) + SizeOf(f) - 1) : j < n =>
          full[j + 1] = IF Given(f, content, k)
                        THEN BytesOf(f, content, k)[j - ItemStart(f, k) + 1] ELSE 0
    /\ Place(f) \subseteq 0..(n - 1) \/ Len(full) <= n

\* The slice of a value in such a block.
LEMMA ItemSlice ==
    ASSUME NEW n \in Nat, NEW to \in Nat, NEW full \in Blocks(to), NEW f \in Field,
           NEW content, NEW k \in Nat \ {0}, k <= f.count,
           Lies(full, f, content, k, n), ItemStart(f, k) < to
    PROVE  /\ Width(f, k, to) \in Nat /\ Width(f, k, to) <= SizeOf(f)
           /\ Given(f, content, k) =>
                 /\ Width(f, k, to) <= Len(BytesOf(f, content, k))
                 /\ Slice(full, f, k) = SubSeq(BytesOf(f, content, k), 1, Width(f, k, to))
           /\ ~Given(f, content, k) => Slice(full, f, k) = Zeros(Width(f, k, to))
<1>. DEFINE start == ItemStart(f, k)
            size == SizeOf(f)
            enc == BytesOf(f, content, k)
            given == Given(f, content, k)
            e == Least(start + size, to)
            w == e - start
            place == start..(start + size - 1)
            r == SubSeq(full, start + 1, e)
<1>1. start \in Nat /\ size \in Nat /\ f.count \in Nat /\ k \in Nat \ {0}
  <2>1. f.count \in Nat  BY SizeType
  <2>2. k \in Nat \ {0}  BY <2>1
  <2>. QED  BY <2>1, <2>2, ItemStartType
<1>2. \A j \in place : j \in Place(f)
  <2>. DEFINE i == k - 1
  <2>1. i \in Nat /\ i < f.count /\ start = f.offset + i * SizeOf(f)  BY <1>1 DEF ItemStart
  <2>. HIDE DEF i
  <2>2. \A j \in (f.offset + i * SizeOf(f))..(f.offset + i * SizeOf(f) + SizeOf(f) - 1) : j \in Place(f)
    BY <2>1, ItemPlace
  <2>. QED  BY <2>1, <2>2
<1>3. given => start <= n /\ Least(start + size, n) - start <= Len(enc) /\ enc \in Seq(Byte)
  BY DEF Lies, Covers
<1>4. \A j \in place : j < n => full[j + 1] = IF given THEN enc[j - start + 1] ELSE 0
  BY DEF Lies
<1>16. Place(f) \subseteq 0..(n - 1) \/ to <= n
  <2>1. Len(full) = to  BY BlockIsSeq
  <2>. QED  BY <2>1 DEF Lies
<1>5. start < to  OBVIOUS
<1>6. Width(f, k, to) = w /\ Slice(full, f, k) = r
  <2>1. Len(full) = to  BY BlockIsSeq
  <2>. QED  BY <2>1 DEF Width, Slice
<1>7. SUFFICES /\ w \in Nat /\ w <= size
               /\ given => w <= Len(enc) /\ r = SubSeq(enc, 1, w)
               /\ ~given => r = Zeros(w)
  BY <1>6
<1>. HIDE DEF start, size, enc, given
<1>8. e \in 0..to /\ start <= e /\ e <= start + size /\ e \in Nat  BY <1>1, <1>5 DEF Least
<1>. HIDE DEF e
<1>9. w \in Nat /\ w <= size /\ start + w = e  BY <1>1, <1>8
<1>. HIDE DEF w
<1>10. \A j \in start..(e - 1) : j \in place /\ j < n
  <2>1. TAKE j \in start..(e - 1)
  <2>2. j \in place /\ j < to /\ j \in Nat  BY <1>1, <1>8
  <2>3. j < n
    <3>1. CASE to <= n
      BY <2>2, <3>1
    <3>2. CASE Place(f) \subseteq 0..(n - 1)
      <4>1. j \in 0..(n - 1)  BY <1>2, <2>2, <3>2
      <4>. QED  BY <4>1
    <3>. QED  BY <1>16, <3>1, <3>2
  <2>. QED  BY <2>2, <2>3
<1>11. given => w <= Len(enc)
  <2>1. SUFFICES ASSUME given  PROVE w <= Len(enc)
    OBVIOUS
  <2>2. Len(enc) \in Nat /\ start <= n  BY <1>3, <2>1, LenProperties
  <2>3. w = 0 \/ e - 1 < n
    <3>1. CASE w # 0
      <4>1. e - 1 \in start..(e - 1)  BY <1>1, <1>8, <1>9, <3>1
      <4>. QED  BY <1>10, <4>1
    <3>. QED  BY <3>1
  <2>4. w # 0 => e <= Least(start + size, n)  BY <1>1, <1>8, <2>3 DEF Least
  <2>5. Least(start + size, n) \in Nat  BY <1>1 DEF Least
  <2>. QED  BY <1>1, <1>3, <1>8, <1>9, <2>1, <2>2, <2>4, <2>5
<1>12. r \in Blocks(w) /\ \A i \in 1..w : r[i] = full[start + i]
  <2>1. r \in Blocks(e - start) /\ \A i \in 1..(e - start) : r[i] = full[start + i]
    <3>1. start \in Nat /\ e \in 0..to /\ start <= e  BY <1>1, <1>8
    <3>. QED  BY <3>1, SliceIs
  <2>. QED  BY <2>1 DEF w
<1>. HIDE DEF r
<1>13. ASSUME NEW i \in 1..w  PROVE r[i] = IF given THEN enc[i] ELSE 0
  <2>. DEFINE j == start + i - 1
  <2>1. j \in start..(e - 1) /\ j + 1 = start + i /\ j - start + 1 = i  BY <1>1, <1>9
  <2>. HIDE DEF j
  <2>2. full[j + 1] = IF given THEN enc[j - start + 1] ELSE 0  BY <1>4, <1>10, <2>1
  <2>. QED  BY <1>12, <2>1, <2>2
<1>14. CASE given
  <2>. DEFINE c == SubSeq(enc, 0 + 1, w)
  <2>1. enc \in Blocks(Len(enc)) /\ Len(enc) \in Nat /\ w \in 0..Len(enc)
    <3>1. enc \in Blocks(Len(enc)) /\ Len(enc) \in Nat  BY <1>3, <1>14, SeqIsBlock, LenProperties
    <3>. QED  BY <1>9, <1>11, <1>14, <3>1
  <2>2. c \in Blocks(w - 0) /\ \A i \in 1..(w - 0) : c[i] = enc[0 + i]
    <3>. DEFINE z == 0
                l == Len(enc)
    <3>1. z \in Nat /\ z <= w /\ l \in Nat /\ enc \in Blocks(l) /\ w \in 0..l  BY <1>9, <2>1
    <3>. HIDE DEF z, l
    <3>2. SubSeq(enc, z + 1, w) \in Blocks(w - z)
          /\ \A i \in 1..(w - z) : SubSeq(enc, z + 1, w)[i] = enc[z + i]
      BY <3>1, SliceIs
    <3>. QED  BY <3>2 DEF z
  <2>3. c \in Blocks(w) /\ \A i \in 1..w : c[i] = enc[i]
    <3>1. w - 0 = w /\ \A i \in 1..w : 0 + i = i  BY <1>9
    <3>. HIDE DEF c
    <3>. QED  BY <2>2, <3>1
  <2>4. c = SubSeq(enc, 1, w)  OBVIOUS
  <2>. HIDE DEF c
  <2>5. \A i \in 1..w : r[i] = c[i]  BY <1>13, <1>14, <2>3
  <2>6. r = c  BY <1>9, <1>12, <2>3, <2>5, SameBlock
  <2>. QED  BY <1>9, <1>11, <1>14, <2>4, <2>6
<1>15. CASE ~given
  <2>1. Zeros(w) \in Blocks(w) /\ \A i \in 1..w : Zeros(w)[i] = 0  BY <1>9, ZerosIs
  <2>2. \A i \in 1..w : r[i] = Zeros(w)[i]  BY <1>13, <1>15, <2>1
  <2>3. r = Zeros(w)  BY <1>9, <1>12, <2>1, <2>2, SameBlock
  <2>. QED  BY <1>9, <1>15, <2>3
<1>. QED  BY <1>14, <1>15


LEMMA SeqNotErr ==
    ASSUME NEW s \in Seq(Byte)
    PROVE  s # Err
<1>1. s \in Blocks(Len(s)) /\ Len(s) \in Nat  BY SeqIsBlock, LenProperties
<1>. QED  BY <1>1, BlockIsSeq

\* Zeros are values.
LEMMA ZeroIsValue ==
    ASSUME NEW t \in Faithful
    PROVE  Zero(t) \in Decoded
<1>1. \A s \in Seq(Int) : s \in Decoded  BY ErrIsNone
<1>8. /\ Zero("ip") = <<0, 0, 0, 0>> /\ Zero("string") = <<>> /\ Zero("char") = <<0>>
      /\ Zero("datetime") = <<2000, 0, 0, 0, 0, 0>>
  BY ZeroIs
<1>2. CASE t \in DOMAIN Numbers \/ t = "longAsDateTime"
  <2>1. Zero(t) = 0 /\ 0 \in Int  BY <1>2, ZeroIs
  <2>. QED  BY <2>1, ErrIsNone
<1>3. CASE t = "boolean"
  <2>1. Zero("boolean") = FALSE  BY ZeroIs
  <2>2. Zero(t) = FALSE  BY <1>3, <2>1, Zenon
  <2>3. FALSE \in Decoded  BY Zenon DEF Decoded
  <2>. QED  BY <2>2, <2>3, Zenon
<1>4. CASE t = "ip"
  <2>. DEFINE z == <<0, 0, 0, 0>>
  <2>1. z \in Seq(Int)  OBVIOUS
  <2>2. Zero(t) = z  BY <1>4, <1>8
  <2>. HIDE DEF z
  <2>. QED  BY <1>1, <2>1, <2>2
<1>5. CASE t = "string"
  <2>. DEFINE z == <<>>
  <2>1. z \in Seq(Int)  OBVIOUS
  <2>2. Zero(t) = z  BY <1>5, <1>8
  <2>. HIDE DEF z
  <2>. QED  BY <1>1, <2>1, <2>2
<1>6. CASE t = "char"
  <2>. DEFINE z == <<0>>
  <2>1. z \in Seq(Int)  OBVIOUS
  <2>2. Zero(t) = z  BY <1>6, <1>8
  <2>. HIDE DEF z
  <2>. QED  BY <1>1, <2>1, <2>2
<1>7. CASE t = "datetime"
  <2>. DEFINE z == <<2000, 0, 0, 0, 0, 0>>
  <2>1. z \in Seq(Int)  OBVIOUS
  <2>2. Zero(t) = z  BY <1>7, <1>8
  <2>. HIDE DEF z
  <2>. QED  BY <1>1, <2>1, <2>2
<1>. QED  BY <1>2, <1>3, <1>4, <1>5, <1>6, <1>7, FaithfulTypes

\* Only a text that is too long has no bytes, and is to be read as none.
LEMMA NoBytesIsZero ==
    ASSUME NEW t \in Faithful, NEW v \in ValueOf(t), EncodeValue(t, v) = Err
    PROVE  t = "string" /\ ReadAs(t, v) = Zero(t)
<1>1. EncodeValue(t, v) \notin Seq(Byte)  BY SeqNotErr
<1>2. CASE t \in DOMAIN Numbers
  BY <1>1, <1>2, NumberCases, ReadsBackNumber
<1>3. CASE t = "boolean"
  <2>. DEFINE x == IF v THEN 1 ELSE 0
  <2>1. "boolean" \notin DOMAIN Numbers  BY DEF Numbers
  <2>2. EncodeValue(t, v) = <<x>>  BY <1>3, <2>1 DEF EncodeValue
  <2>3. x \in Byte
    <3>1. 0 \in Byte /\ 1 \in Byte  BY ByteType DEF Byte
    <3>. QED  BY <3>1
  <2>. HIDE DEF x
  <2>4. <<x>> \in Seq(Byte)  BY <2>3
  <2>. QED  BY <1>1, <2>2, <2>4
<1>4. CASE t = "ip"
  <2>1. "ip" \notin DOMAIN Numbers  BY DEF Numbers
  <2>2. EncodeValue(t, v) = v  BY <1>4, <2>1 DEF EncodeValue
  <2>3. v \in [1..4 -> Byte]  BY <1>4, <2>1 DEF ValueOf
  <2>4. v \in Blocks(4) /\ 4 \in Nat  BY <2>3 DEF Blocks
  <2>. QED  BY <1>1, <2>2, <2>4, BlockIsSeq
<1>5. CASE t = "string"
  <2>1. "string" \notin DOMAIN Numbers  BY DEF Numbers
  <2>2. EncodeValue(t, v) = EncodeString(v)  BY <1>5, <2>1 DEF EncodeValue
  <2>3. v \in Seq(Byte)  BY <1>5, <2>1 DEF ValueOf
  <2>4. Len(v) > Base - 2
    <3>1. CASE Len(v) <= Base - 2
      BY <1>1, <2>2, <2>3, <3>1, ReadsBackText
    <3>2. Len(v) \in Nat  BY <2>3, LenProperties
    <3>. QED  BY <3>1, <3>2, ByteType
  <2>5. ReadAs(t, v) = <<>>  BY <1>5, <2>1, <2>4 DEF ReadAs
  <2>. QED  BY <1>5, <2>5, ZeroIs
<1>6. CASE t = "char"
  <2>1. "char" \notin DOMAIN Numbers  BY DEF Numbers
  <2>. DEFINE y == IF v = <<>> THEN 32 ELSE v[1]
              x == y % Base
  <2>2. EncodeValue(t, v) = <<x>>  BY <1>6, <2>1 DEF EncodeValue, EncodeChar
  <2>3. v \in Seq(Nat)  BY <1>6, <2>1 DEF ValueOf
  <2>4. y \in Int
    <3>1. CASE v # <<>>
      <4>1. 1 \in DOMAIN v  BY <2>3, <3>1, LenProperties, EmptySeq
      <4>. QED  BY <2>3, <3>1, <4>1
    <3>. QED  BY <3>1
  <2>. HIDE DEF y
  <2>5. Base \in Nat \ {0}  BY ByteType
  <2>6. x \in Byte  BY <2>4, <2>5, DivMod DEF Byte
  <2>. HIDE DEF x
  <2>7. <<x>> \in Seq(Byte)  BY <2>6
  <2>. QED  BY <1>1, <2>2, <2>7
<1>7. CASE t = "datetime"
  <2>1. "datetime" \notin DOMAIN Numbers  BY DEF Numbers
  <2>2. EncodeValue(t, v) = EncodeDateTime(v)  BY <1>7, <2>1 DEF EncodeValue
  <2>3. v \in [1..8 -> Int] /\ \A i \in 2..6 : v[i] \in Byte  BY <1>7, <2>1 DEF ValueOf
  <2>. QED  BY <1>1, <2>2, <2>3, ReadsBackDate
<1>8. CASE t = "longAsDateTime"
  <2>1. "longAsDateTime" \notin DOMAIN Numbers  BY DEF Numbers
  <2>2. EncodeValue(t, v) = BigEndian(v, 8)  BY <1>8, <2>1 DEF EncodeValue
  <2>3. v \in -(Pow[8] \div 2)..(Pow[8] \div 2 - 1)  BY <1>8, <2>1 DEF ValueOf
  <2>. QED  BY <1>1, <2>2, <2>3, ReadsBackMoment
<1>. QED  BY <1>2, <1>3, <1>4, <1>5, <1>6, <1>7, <1>8, FaithfulTypes

\* What a value is read as from the first w of its bytes.
LEMMA ReadsValue ==
    ASSUME NEW t \in Faithful, NEW v \in ValueOf(t), EncodeValue(t, v) \in Seq(Byte),
           NEW w \in 0..Len(EncodeValue(t, v))
    PROVE  LET r == DecodeValue(t, SubSeq(EncodeValue(t, v), 1, w)) IN
           /\ t # "datetime" \/ Dated(t, v) => r \in {Err, ReadAs(t, v)}
           /\ t \in DOMAIN Numbers => r = IF w < ByteSize(t) THEN Err ELSE ReadAs(t, v)
           /\ Dated(t, v) /\ w = Len(EncodeValue(t, v)) => r = ReadAs(t, v)
<1>. DEFINE enc == EncodeValue(t, v)
            want == ReadAs(t, v)
            r == DecodeValue(t, SubSeq(enc, 1, w))
            dated == Dated(t, v)
<1>1. /\ dated => DecodeValue(t, enc) = want
      /\ t # "datetime" => DecodeValue(t, enc) \in {Err, want}
      /\ \A k \in 0..(Len(enc) - 1) : DecodeValue(t, SubSeq(enc, 1, k)) = Err
      /\ t # "string" => Len(enc) = ByteSize(t)
  BY ReadsBack
<1>2. Len(enc) \in Nat /\ SubSeq(enc, 1, Len(enc)) = enc  BY LenProperties, SubSeqFull
<1>3. t \in DOMAIN Numbers => t # "string" /\ dated
  <2>1. t \in DOMAIN Numbers => t # "string"  BY NumberTypes
  <2>2. t \in DOMAIN Numbers => dated  BY NumberCases
  <2>. QED  BY <2>1, <2>2
<1>4. w \in 0..Len(enc)  OBVIOUS
<1>5. SUFFICES /\ t # "datetime" \/ dated => r \in {Err, want}
               /\ t \in DOMAIN Numbers => r = IF w < ByteSize(t) THEN Err ELSE want
               /\ dated /\ w = Len(enc) => r = want
  OBVIOUS
<1>. HIDE DEF enc, want, dated
<1>6. CASE w = Len(enc)
  <2>1. r = DecodeValue(t, enc)  BY <1>2, <1>6
  <2>. HIDE DEF r
  <2>2. t \in DOMAIN Numbers => ~(w < ByteSize(t))
    <3>1. t \in DOMAIN Numbers => ByteSize(t) = w  BY <1>1, <1>3, <1>6
    <3>. QED  BY <1>2, <1>6, <3>1
  <2>. QED  BY <1>1, <1>3, <2>1, <2>2
<1>7. CASE w # Len(enc)
  <2>. DEFINE l == Len(enc)
  <2>4. l \in Nat /\ w \in 0..l /\ w # l  BY <1>2, <1>4, <1>7
  <2>. HIDE DEF l
  <2>5. w \in 0..(l - 1)  BY <2>4
  <2>1. w \in 0..(Len(enc) - 1)  BY <2>5 DEF l
  <2>2. r = Err  BY <1>1, <2>1
  <2>3. t \in DOMAIN Numbers => w < ByteSize(t)
    <3>1. t \in DOMAIN Numbers => ByteSize(t) = Len(enc)  BY <1>1, <1>3
    <3>. QED  BY <1>2, <2>1, <3>1
  <2>. HIDE DEF r
  <2>. QED  BY <1>7, <2>2, <2>3
<1>. QED  BY <1>6, <1>7

-----------------------------------------------------------------------------
(* What a field is read as.                                                 *)

\* AllDated of a field for any object.
DatedIn(f, content) ==
    f.name \in DOMAIN content =>
        LET v == content[f.name] IN
        \A i \in 1..ItemCount(f, v) : Dated(f.type, Item(f, v, i))

\* The value an object has of a field at k, if any, and what is read there.
Has(f, content, k) == f.name \in DOMAIN content /\ k \in 1..ItemCount(f, content[f.name])

Wanted(f, content, k) ==
    IF Has(f, content, k) THEN ReadAs(f.type, Item(f, content[f.name], k)) ELSE Zero(f.type)

ItemRead(full, f, k) ==
    IF ItemStart(f, k) >= Len(full) THEN Err
    ELSE DecodeSlice(full, f.type, ItemStart(f, k), ItemStart(f, k) + SizeOf(f))

\* Whatever the place of a value in the block, it is read as it is to be or not
\* at all; a number in all of its bytes always, in fewer never; any value that
\* fits.
LEMMA ItemOutcome ==
    ASSUME NEW n \in Nat, NEW to \in Nat, NEW full \in Blocks(to), NEW f \in Field,
           f.type \in Faithful, NEW content, HasType(f, content), NEW k \in Nat \ {0}, k <= f.count,
           Lies(full, f, content, k, n)
    PROVE  /\ (f.type = "datetime" => DatedIn(f, content)) =>
                 ItemRead(full, f, k) \in {Err, Wanted(f, content, k)}
           /\ f.type \in DOMAIN Numbers =>
                 ItemRead(full, f, k) =
                     IF ItemStart(f, k) >= to \/ Width(f, k, to) < ByteSize(f.type) THEN Err
                     ELSE Wanted(f, content, k)
           /\ /\ FitsIn(f, content, n) /\ DatedIn(f, content)
              /\ SizeOf(f) >= ByteSize(f.type)
              /\ ItemStart(f, k) < to /\ ItemStart(f, k) + SizeOf(f) <= to
              => ItemRead(full, f, k) = Wanted(f, content, k)
           /\ Wanted(f, content, k) \in Decoded
<1>. DEFINE t == f.type
            given == Given(f, content, k)
            start == ItemStart(f, k)
            size == SizeOf(f)
            v == Item(f, content[f.name], k)
            enc == EncodeValue(t, v)
            w == Width(f, k, to)
            want == Wanted(f, content, k)
            r == ItemRead(full, f, k)
            dated == DatedIn(f, content)
            least == ByteSize(t)
            fits == FitsIn(f, content, n)
            has == Has(f, content, k)
<1>1. t \in Faithful /\ t \in Codecs  BY DEF Faithful
<1>2. Len(full) = to  BY BlockIsSeq
<1>3. has => v \in ValueOf(t) /\ enc \in {Err} \cup Seq(Byte) /\ (dated => Dated(t, v))
             /\ (fits => (enc # Err => Len(enc) = size))
  BY <1>1 DEF HasType, DatedIn, FitsIn, Has
<1>4. (given <=> has /\ enc # Err) /\ BytesOf(f, content, k) = enc
  BY <1>1 DEF Given, BytesOf, Encoded, Has
<1>5. given => enc \in Seq(Byte)  BY <1>3, <1>4
<1>6. want = IF has THEN ReadAs(t, v) ELSE Zero(t)  BY DEF Wanted
<1>7. has /\ enc = Err => ReadAs(t, v) = Zero(t)  BY <1>1, <1>3, NoBytesIsZero
<1>8. given => want = ReadAs(t, v)  BY <1>4, <1>6
<1>9. ~given => want = Zero(t)  BY <1>4, <1>6, <1>7
<1>10. want \in Decoded
  <2>1. given => ReadAs(t, v) \in Decoded  BY <1>1, <1>3, <1>4, <1>5, ReadsBack
  <2>. HIDE DEF want
  <2>. QED  BY <1>1, <1>8, <1>9, <2>1, ZeroIsValue
<1>11. start \in Nat /\ size \in Nat /\ least \in Nat /\ least >= 1
  <2>1. k \in Nat \ {0}
    <3>1. f.count \in Nat  BY SizeType
    <3>. QED  BY <3>1
  <2>2. least \in Nat /\ least >= 1
    <3>1. CASE t \in DOMAIN Numbers
      <4>1. Numbers[t].width \in 1..8  BY <3>1, NumberTypes
      <4>. QED  BY <3>1, <4>1, NumberCases
    <3>2. CASE t \in {"boolean", "ip", "string", "char", "datetime", "longAsDateTime"}
      <4>1. t \notin DOMAIN Numbers  BY <3>2 DEF Numbers
      <4>. QED  BY <3>2, <4>1 DEF ByteSize
    <3>. QED  BY <1>1, <3>1, <3>2, FaithfulTypes
  <2>. QED  BY <2>1, <2>2, ItemStartType
<1>12. SUFFICES /\ (t = "datetime" => dated) => r \in {Err, want}
                /\ t \in DOMAIN Numbers => r = IF start >= to \/ w < least THEN Err ELSE want
                /\ fits /\ dated /\ size >= least /\ start < to /\ start + size <= to => r = want
                /\ want \in Decoded
  OBVIOUS
<1>13. CASE start >= to
  <2>1. r = Err  BY <1>2, <1>13 DEF ItemRead
  <2>2. ~(start < to)  BY <1>11, <1>13
  <2>. HIDE DEF r, want, start
  <2>. QED  BY <1>10, <1>13, <2>1, <2>2
<1>14. CASE ~(start >= to)
  <2>1. start < to  BY <1>11, <1>14
  <2>. DEFINE slice == Slice(full, f, k)
  <2>2. /\ w \in Nat /\ w <= size
        /\ given => w <= Len(enc) /\ slice = SubSeq(enc, 1, w)
        /\ ~given => slice = Zeros(w)
    <3>. DEFINE b == BytesOf(f, content, k)
    <3>1. /\ w \in Nat /\ w <= size
          /\ given => w <= Len(b) /\ slice = SubSeq(b, 1, w)
          /\ ~given => slice = Zeros(w)
      BY <2>1, ItemSlice
    <3>2. b = enc  BY <1>4
    <3>. HIDE DEF b, enc, slice, w, size, given
    <3>. QED  BY <3>1, <3>2
  <2>3. r = DecodeValue(t, slice)  BY <1>1, <1>2, <1>14 DEF ItemRead, DecodeSlice, Slice
  <2>4. start + size <= to => w = size
    <3>1. w = Least(start + size, to) - start  BY DEF Width
    <3>. HIDE DEF w, start, size
    <3>. QED  BY <1>11, <3>1 DEF Least
  <2>. HIDE DEF w, start, size, slice, r, want, dated, fits, least
  <2>5. CASE given
    <3>1. w \in 0..Len(enc)
      <4>1. Len(enc) \in Nat  BY <1>5, <2>5, LenProperties
      <4>. QED  BY <2>2, <2>5, <4>1
    <3>2. r = DecodeValue(t, SubSeq(enc, 1, w))  BY <2>2, <2>3, <2>5
    <3>. HIDE DEF t, v
    <3>3. /\ t # "datetime" \/ Dated(t, v) => r \in {Err, ReadAs(t, v)}
          /\ t \in DOMAIN Numbers => r = IF w < ByteSize(t) THEN Err ELSE ReadAs(t, v)
          /\ Dated(t, v) /\ w = Len(enc) => r = ReadAs(t, v)
      BY <1>1, <1>3, <1>4, <1>5, <2>5, <3>1, <3>2, ReadsValue
    <3>4. dated => Dated(t, v)  BY <1>3, <1>4, <2>5
    <3>5. fits => Len(enc) = size  BY <1>3, <1>4, <2>5
    <3>6. want = ReadAs(t, v)  BY <1>8, <2>5
    <3>. HIDE DEF given, enc
    <3>7. (t = "datetime" => dated) => r \in {Err, want}  BY <3>3, <3>4, <3>6
    <3>8. t \in DOMAIN Numbers => r = IF start >= to \/ w < least THEN Err ELSE want
      BY <1>14, <3>3, <3>6 DEF least
    <3>9. fits /\ dated /\ start + size <= to => r = want
      BY <2>4, <3>3, <3>4, <3>5, <3>6
    <3>. QED  BY <1>10, <3>7, <3>8, <3>9
  <2>6. CASE ~given
    <3>1. r = DecodeValue(t, Zeros(w))  BY <2>2, <2>3, <2>6
    <3>2. want = Zero(t)  BY <1>9, <2>6
    <3>. HIDE DEF t, given
    <3>3. r = IF w < ByteSize(t) THEN Err ELSE Zero(t)  BY <1>1, <2>2, <3>1, ReadsZeros
    <3>4. r = IF w < least THEN Err ELSE want  BY <3>2, <3>3 DEF least
    <3>5. size >= least /\ start + size <= to => ~(w < least)  BY <1>11, <2>2, <2>4
    <3>. QED  BY <1>10, <1>14, <3>4, <3>5
  <2>. QED  BY <2>5, <2>6
<1>. QED  BY <1>13, <1>14

\* A field is read item by item.
LEMMA DecodesField ==
    ASSUME NEW to \in Nat, NEW full \in Blocks(to), NEW f \in Field
    PROVE  /\ f.count = 1 => DecodeField(full, f) = ItemRead(full, f, 1)
           /\ f.count # 1 => DecodeField(full, f) =
                 IF f.offset >= to THEN Err
                 ELSE Readable([k \in 1..f.count |-> ItemRead(full, f, k)])
<1>1. Len(full) = to  BY BlockIsSeq
<1>2. f.offset \in Nat /\ SizeOf(f) \in Nat /\ f.count \in Nat  BY SizeType
<1>3. ASSUME f.count = 1  PROVE DecodeField(full, f) = ItemRead(full, f, 1)
  <2>1. ItemStart(f, 1) = f.offset  BY <1>2 DEF ItemStart
  <2>. QED  BY <1>1, <1>3, <2>1 DEF DecodeField, ItemRead
<1>4. ASSUME f.count # 1
      PROVE  DecodeField(full, f) = IF f.offset >= to THEN Err
                                    ELSE Readable([k \in 1..f.count |-> ItemRead(full, f, k)])
  <2>. DEFINE items == [k \in 1..f.count |-> ItemRead(full, f, k)]
              item(k) == IF f.offset + (k - 1) * SizeOf(f) >= Len(full) THEN Err
                         ELSE DecodeSlice(full, f.type, f.offset + (k - 1) * SizeOf(f),
                                          f.offset + (k - 1) * SizeOf(f) + SizeOf(f))
  <2>1. DecodeArray(full, f) = Readable([k \in 1..f.count |-> item(k)])  BY DEF DecodeArray
  <2>2. \A k : item(k) = ItemRead(full, f, k)  BY DEF ItemRead, ItemStart
  <2>. HIDE DEF item
  <2>3. DecodeArray(full, f) = Readable(items)  BY <2>1, <2>2
  <2>. QED  BY <1>1, <1>4, <2>3 DEF DecodeField
<1>. QED  BY <1>3, <1>4

\* What a field is to be read as, item by item.
LEMMA StoredIs ==
    ASSUME NEW f \in Field, HasType(f, object.content)
    PROVE  /\ f.count = 1 => Stored(f) = Wanted(f, object.content, 1)
           /\ f.count # 1 => Stored(f) = [k \in 1..f.count |-> Wanted(f, object.content, k)]
<1>. DEFINE content == object.content
            v == content[f.name]
            given == f.name \in DOMAIN content
<1>1. f.count \in Nat  BY SizeType
<1>2. ASSUME f.count = 1  PROVE Stored(f) = Wanted(f, content, 1)
  <2>1. ItemCount(f, v) = 1 /\ Item(f, v, 1) = v  BY <1>2 DEF ItemCount, Item
  <2>. QED  BY <1>2, <2>1 DEF Stored, Wanted, Has
<1>3. ASSUME f.count # 1  PROVE Stored(f) = [k \in 1..f.count |-> Wanted(f, content, k)]
  <2>1. given => Len(v) \in Nat  BY <1>3 DEF HasType
  <2>2. ASSUME NEW k \in 1..f.count
        PROVE  Wanted(f, content, k) = IF given /\ k <= Len(v) THEN ReadAs(f.type, v[k])
                                       ELSE Zero(f.type)
    <3>1. Item(f, v, k) = v[k]  BY <1>3 DEF Item
    <3>2. Has(f, content, k) <=> given /\ k <= Len(v)
      <4>1. CASE given
        <5>1. ItemCount(f, v) = Least(f.count, Len(v))  BY <1>3 DEF ItemCount
        <5>. DEFINE l == Len(v)
        <5>2. l \in Nat  BY <2>1, <4>1
        <5>. HIDE DEF l
        <5>3. k \in 1..Least(f.count, l) <=> k <= l  BY <1>1, <5>2 DEF Least
        <5>. QED  BY <4>1, <5>1, <5>3 DEF Has, l
      <4>2. CASE ~given
        BY <4>2 DEF Has
      <4>. QED  BY <4>1, <4>2
    <3>. QED  BY <3>1, <3>2 DEF Wanted
  <2>3. Stored(f) = [k \in 1..f.count |-> IF given /\ k <= Len(v) THEN ReadAs(f.type, v[k])
                                          ELSE Zero(f.type)]
    BY <1>3 DEF Stored
  <2>. HIDE DEF content, v, given
  <2>. QED  BY <2>2, <2>3
<1>. QED  BY <1>2, <1>3

\* The monitor's block has the object's values of a field in their places.
LEMMA ItemsLie ==
    ASSUME ConvInv, Seen, Addressable, Accepted,
           NEW f \in FieldSet(object.def), Apart(f, object.def),
           Place(f) \cap 0..(object.def.size - 1) \subseteq Deploying \cap Watching,
           \/ Place(f) \subseteq 0..(object.def.size - 1)
           \/ object.watch.blockSize <= object.def.size
    PROVE  \E full \in Blocks(object.watch.blockSize) :
              /\ values = DecodeAsMap(full, object.def)
              /\ \A k \in Nat \ {0} :
                    k <= f.count => Lies(full, f, object.content, k, object.def.size)
<1>. DEFINE full == Watched(block, object.watch)
            n == Len(PlcBlock)
            to == object.watch.blockSize
            size == object.def.size
            content == object.content
<1>1. /\ block \notin {Nothing, Panic} /\ full \notin {Err, Panic}
      /\ values = DecodeAsMap(full, object.def)
  BY DEF Seen, ConvInv
<1>2. data \notin {Nothing, Panic} /\ block = Deployed(PlcBlock, data, object.deploy)
  BY <1>1 DEF ConvInv
<1>3. object # Nothing /\ data = Encode(content, object.def)
  BY <1>1, <1>2 DEF ConvInv
<1>4. size \in Nat /\ size < Base * Base /\ to \in Nat /\ to < Base * Base
  BY <1>3, ObjectTypes DEF Addressable
<1>5. data \in Blocks(size)  BY <1>2, <1>3, ObjectTypes, EncodeTypes
<1>6. n \in Nat /\ PlcBlock \in Blocks(n)  BY PlcBlockAssumption, SeqIsBlock
<1>7. \A j \in Deploying : j < size => j < n
  <2>1. TAKE j \in Deploying
  <2>2. SUFFICES ASSUME j < size  PROVE j < n
    OBVIOUS
  <2>3. j \in 0..(size - 1)
    <3>1. object.deploy.offset \in Nat  BY <1>3, ObjectTypes
    <3>2. j \in Int /\ j >= object.deploy.offset  BY <3>1 DEF Deploying
    <3>. QED  BY <1>4, <2>2, <3>1, <3>2
  <2>4. j \in 0..(n - 1)  BY <2>3 DEF Accepted
  <2>. QED  BY <1>6, <2>4
<1>8. /\ block \in Blocks(n)
      /\ \A j \in Deploying : j < size => block[j + 1] = data[j + 1]
  <2>1. object.deploy.offset \in Nat /\ object.deploy.length \in Nat
        /\ Deployed(PlcBlock, data, object.deploy) # Panic
    BY <1>1, <1>2, <1>3, ObjectTypes
  <2>2. Deploying = Chosen(object.deploy, size)  BY DEF Deploying, Chosen
  <2>3. Takes(object.deploy, size)  BY <1>7, <2>2 DEF Takes
  <2>. QED  BY <1>2, <1>4, <1>5, <2>1, <2>2, <2>3, DeployedBytes
<1>9. /\ full \in Blocks(to)
      /\ \A j \in Watching : j < to /\ j < n /\ full[j + 1] = block[j + 1]
  BY <1>1, <1>3, <1>4, <1>6, <1>8, ObjectTypes, WatchedBytes DEF Watching
<1>. HIDE DEF full, n, to, size, content
<1>10. \A j \in Place(f) : j < size => full[j + 1] = data[j + 1]
  <2>1. TAKE j \in Place(f)
  <2>2. SUFFICES ASSUME j < size  PROVE full[j + 1] = data[j + 1]
    OBVIOUS
  <2>3. j \in 0..(size - 1)
    <3>1. f \in Field  BY <1>3, ObjectTypes
    <3>2. f.offset \in Nat /\ f.count * SizeOf(f) \in Nat  BY <3>1, SizeType
    <3>3. j \in Nat  BY <3>2 DEF Place
    <3>. QED  BY <1>4, <2>2, <3>3
  <2>4. j \in Deploying /\ j \in Watching  BY <2>1, <2>3 DEF size
  <2>. QED  BY <1>8, <1>9, <2>2, <2>4
<1>11. ASSUME NEW k \in Nat \ {0}, k <= f.count
       PROVE  Lies(full, f, content, k, size)
  <2>1. /\ Given(f, content, k) => Covers(f, content, k, size)
        /\ \A j \in ItemStart(f, k)..(ItemStart(f, k) + SizeOf(f) - 1) : j < size =>
              data[j + 1] = IF Given(f, content, k)
                            THEN BytesOf(f, content, k)[j - ItemStart(f, k) + 1] ELSE 0
    BY <1>2, <1>3, <1>11, ObjectTypes, EncodeItems DEF content, size
  <2>2. \A j \in ItemStart(f, k)..(ItemStart(f, k) + SizeOf(f) - 1) : j \in Place(f)
    <3>. DEFINE i == k - 1
    <3>1. i \in Nat /\ f \in Field /\ f.count \in Nat
      <4>1. f \in Field  BY <1>3, ObjectTypes
      <4>. QED  BY <4>1, SizeType
    <3>2. i < f.count /\ ItemStart(f, k) = f.offset + i * SizeOf(f)  BY <1>11, <3>1 DEF ItemStart
    <3>. HIDE DEF i
    <3>. QED  BY <3>1, <3>2, ItemPlace
  <2>3. Place(f) \subseteq 0..(size - 1) \/ Len(full) <= size
    <3>1. Len(full) = to  BY <1>4, <1>9, BlockIsSeq
    <3>. QED  BY <3>1 DEF size, to
  <2>. QED  BY <1>10, <2>1, <2>2, <2>3 DEF Lies
<1>. QED  BY <1>1, <1>9, <1>11 DEF full, to, size, content

\* Numbers that contain all above them begin after one.
LEMMA BeginsAfter ==
    ASSUME NEW c \in Nat, NEW Bad \in SUBSET (1..c),
           \A i \in Bad : \A k \in 1..c : i <= k => k \in Bad
    PROVE  \E m \in 0..c : \A k \in 1..c : k \notin Bad <=> k <= m
<1>1. CASE Bad = {}
  <2>1. c \in 0..c /\ \A k \in 1..c : k \notin Bad <=> k <= c  BY <1>1
  <2>. QED  BY <2>1
<1>2. CASE Bad # {}
  <2>1. PICK i \in Bad : TRUE  BY <1>2
  <2>2. Bad \in SUBSET Nat  OBVIOUS
  <2>3. PICK l \in Bad : \A k \in Bad : l <= k  BY <2>1, <2>2, LeastNumber
  <2>4. l \in 1..c /\ l - 1 \in 0..c  OBVIOUS
  <2>5. \A k \in 1..c : k \notin Bad <=> k <= l - 1
    <3>1. TAKE k \in 1..c
    <3>2. l <= k => k \in Bad  BY <2>3
    <3>3. k \in Bad => l <= k  BY <2>3
    <3>. QED  BY <2>4, <3>2, <3>3
  <2>. QED  BY <2>4, <2>5
<1>. QED  BY <1>1, <1>2

\* The end of a block cuts a value and all after it, or none.
LEMMA CutsTheRest ==
    ASSUME NEW to \in Nat, NEW least \in Nat, NEW f \in Field, NEW i \in Nat \ {0},
           NEW k \in Nat \ {0}, i <= k,
           ItemStart(f, i) >= to \/ Width(f, i, to) < least
    PROVE  ItemStart(f, k) >= to \/ Width(f, k, to) < least
<1>. DEFINE a == ItemStart(f, i)
            e == ItemStart(f, k)
            size == SizeOf(f)
<1>1. a \in Nat /\ e \in Nat /\ size \in Nat  BY ItemStartType
<1>2. a <= e
  <2>. DEFINE x == i - 1
              y == k - 1
  <2>1. x \in Nat /\ y \in Nat /\ (x = y \/ x < y)  OBVIOUS
  <2>2. f.offset \in Nat /\ a = f.offset + x * size /\ e = f.offset + y * size
    BY SizeType DEF ItemStart
  <2>. HIDE DEF x, y, a, e, size
  <2>3. x * size \in Nat /\ y * size \in Nat  BY <1>1, <2>1
  <2>4. x < y => x * size + size <= y * size  BY <1>1, <2>1, Products
  <2>5. x = y => x * size = y * size  OBVIOUS
  <2>. DEFINE p == x * size
              q == y * size
  <2>. HIDE DEF p, q
  <2>6. p \in Nat /\ q \in Nat /\ (p + size <= q \/ p = q)  BY <2>1, <2>3, <2>4, <2>5 DEF p, q
  <2>7. p <= q  BY <1>1, <2>6
  <2>. QED  BY <2>2, <2>6, <2>7 DEF p, q
<1>3. Width(f, i, to) = Least(a + size, to) - a /\ Width(f, k, to) = Least(e + size, to) - e
  BY DEF Width
<1>4. a >= to \/ Least(a + size, to) - a < least  BY <1>3
<1>. HIDE DEF a, e, size
<1>5. e >= to \/ Least(e + size, to) - e < least  BY <1>1, <1>2, <1>4 DEF Least
<1>. QED  BY <1>3, <1>5 DEF e

\* The items of an array are as wanted up to the end of a block of `to` bytes.
ReadOrCut(items, want, f, c, to) ==
    /\ items = [k \in 1..c |-> items[k]]
    /\ \A k \in 1..c :
          items[k] = IF ItemStart(f, k) >= to \/ Width(f, k, to) < ByteSize(f.type) THEN Err
                     ELSE want[k]

\* Of an array of numbers the block has the first ones or none.
LEMMA NumberPrefix ==
    ASSUME NEW to \in Nat, NEW f \in Field,
           f.type \in DOMAIN Numbers, NEW c \in Nat, NEW want \in [1..c -> Int], NEW items,
           ReadOrCut(items, want, f, c, to), Readable(items) # Err
    PROVE  IsPrefix(Readable(items), want)
<1>. DEFINE cut(k) == ItemStart(f, k) >= to \/ Width(f, k, to) < ByteSize(f.type)
            Bad == {k \in 1..c : cut(k)}
<1>1. ByteSize(f.type) \in Nat
  <2>1. Numbers[f.type].width \in 1..8  BY NumberTypes
  <2>. QED  BY <2>1, NumberCases
<1>2. \A i \in Bad : \A k \in 1..c : i <= k => k \in Bad
  <2>1. TAKE i \in Bad
  <2>2. TAKE k \in 1..c
  <2>3. SUFFICES ASSUME i <= k  PROVE k \in Bad
    OBVIOUS
  <2>4. i \in Nat \ {0} /\ k \in Nat \ {0} /\ cut(i)  OBVIOUS
  <2>5. cut(k)  BY <1>1, <2>3, <2>4, CutsTheRest
  <2>. QED  BY <2>5
<1>3. Bad \in SUBSET (1..c)  OBVIOUS
<1>4. \A k \in 1..c : items[k] = IF k \in Bad THEN Err ELSE want[k]
  BY DEF ReadOrCut
<1>5. DOMAIN items = 1..c /\ items = [k \in 1..c |-> items[k]]  BY DEF ReadOrCut
<1>. HIDE DEF Bad
<1>6. PICK m \in 0..c : \A k \in 1..c : k \notin Bad <=> k <= m  BY <1>2, <1>3, BeginsAfter
<1>8. \A k \in 1..c : want[k] # Err
  <2>1. \A x \in Int : x # Err  BY ErrIsNone
  <2>. QED  BY <2>1
<1>9. \A k \in 1..c : items[k] # Err <=> k <= m  BY <1>4, <1>6, <1>8
<1>10. m # 0 /\ Readable(items) = [k \in 1..m |-> items[k]]
  BY <1>5, <1>9, ReadableIs
<1>11. m \in Nat /\ m <= c /\ \A k \in 1..m : k \in 1..c /\ k <= m  OBVIOUS
<1>12. \A k \in 1..m : items[k] = want[k]  BY <1>4, <1>6, <1>11
<1>. DEFINE r == Readable(items)
<1>13. r \in [1..m -> Int] /\ \A k \in 1..m : r[k] = want[k]
  <2>1. \A k \in 1..m : items[k] \in Int  BY <1>11, <1>12
  <2>. QED  BY <1>10, <1>12, <2>1
<1>. HIDE DEF r
<1>14. r \in Seq(Int) /\ Len(r) = m
  <2>1. r \in Seq(Int)  BY <1>11, <1>13
  <2>2. Len(r) \in Nat /\ DOMAIN r = 1..Len(r) /\ DOMAIN r = 1..m  BY <1>13, <2>1, LenProperties
  <2>. DEFINE l == Len(r)
  <2>3. m \in Nat /\ l \in Nat /\ 1..l = 1..m  BY <1>11, <2>2
  <2>. HIDE DEF l
  <2>4. l = m  BY <2>3
  <2>. QED  BY <2>1, <2>4 DEF l
<1>15. want \in Seq(Int) /\ Len(want) = c
  <2>1. want \in Seq(Int)  OBVIOUS
  <2>2. Len(want) \in Nat /\ DOMAIN want = 1..Len(want) /\ DOMAIN want = 1..c
    BY <2>1, LenProperties
  <2>. QED  BY <2>1, <2>2
<1>16. SubSeq(r, 1, m) = r  BY <1>14, SubSeqFull
<1>17. SubSeq(want, 1, m) = r
  <2>. DEFINE p == SubSeq(want, 1, m)
  <2>1. /\ p \in Seq(Int) /\ Len(p) = IF 1 <= m THEN m - 1 + 1 ELSE 0
        /\ \A k \in 1..(m - 1 + 1) : p[k] = want[1 + k - 1]
    <3>1. \A k \in 1..m : want[k] \in Int  BY <1>11
    <3>. QED  BY <1>11, <3>1, SubSeqProperties
  <2>. HIDE DEF p
  <2>2. Len(p) = m  BY <1>11, <2>1
  <2>3. \A k \in 1..m : p[k] = want[k]
    <3>1. \A k \in 1..m : k \in 1..(m - 1 + 1) /\ 1 + k - 1 = k  BY <1>11
    <3>. QED  BY <2>1, <3>1
  <2>4. \A k \in 1..Len(p) : p[k] = r[k]  BY <1>13, <2>2, <2>3
  <2>5. p = r  BY <1>14, <2>1, <2>2, <2>4, SeqEqual
  <2>. QED  BY <2>5 DEF p
<1>. QED  BY <1>11, <1>14, <1>15, <1>16, <1>17 DEF IsPrefix, r

-----------------------------------------------------------------------------
(* What is written is read.                                                 *)

\* In every run a field that fits and that the deployment and the monitor cover
\* is read as the value given (encode, deploy, Watched, decode_as_map), for
\* every definition, content, slice and block that can be addressed.
THEOREM RoundTripHolds == Spec => []RoundTrip
<1>1. ConvInv => RoundTrip
  <2>. SUFFICES ASSUME ConvInv, Seen, Addressable, Accepted,
                       \A g \in FieldSet(object.def) : Fits(g),
                       NEW f \in FieldSet(object.def), f.type \in Faithful, AllDated(f),
                       f.count > 0, Apart(f, object.def), Named(f, object.def),
                       Place(f) \subseteq Deploying \cap Watching,
                       SizeOf(f) >= ByteSize(f.type)
                PROVE  f.name \in DOMAIN values /\ values[f.name] = Stored(f)
    BY DEF RoundTrip
  <2>. DEFINE n == object.def.size
              to == object.watch.blockSize
              content == object.content
              c == f.count
              size == SizeOf(f)
  <2>1. object # Nothing  BY DEF Seen, ConvInv
  <2>2. /\ f \in Field /\ HasType(f, content) /\ n \in Nat /\ to \in Nat
        /\ object.watch.offset \in Nat /\ object.def.fields \in Seq(Field)
    <3>1. PICK i \in DOMAIN object.def.fields : f = object.def.fields[i]  BY DEF FieldSet
    <3>. QED  BY <2>1, <3>1, ObjectTypes
  <2>3. f.offset \in Nat /\ size \in Nat /\ c \in Nat /\ c >= 1
    <3>1. f.offset \in Nat /\ size \in Nat /\ c \in Nat  BY <2>2, SizeType
    <3>2. c > 0  OBVIOUS
    <3>. HIDE DEF c
    <3>. QED  BY <3>1, <3>2
  <2>4. FitsIn(f, content, n) /\ DatedIn(f, content)
    BY DEF Fits, FitsIn, AllDated, DatedIn
  <2>5. Place(f) \subseteq 0..(n - 1)
    <3>. DEFINE all == c * size
    <3>1. all \in Nat /\ f.offset + all <= n /\ Place(f) = f.offset..(f.offset + all - 1)
      <4>1. all \in Nat  BY <2>2, <2>3, SizeType
      <4>. QED  BY <2>4, <4>1 DEF FitsIn, Place
    <3>. HIDE DEF all, n
    <3>. QED  BY <2>2, <2>3, <3>1
  <2>6. PICK full \in Blocks(to) :
           /\ values = DecodeAsMap(full, object.def)
           /\ \A k \in Nat \ {0} : k <= c => Lies(full, f, content, k, n)
    BY <2>5, ItemsLie
  <2>7. size >= 1
    <3>1. CASE f.type \in DOMAIN Numbers
      <4>1. Numbers[f.type].width \in 1..8 /\ ByteSize(f.type) = Numbers[f.type].width
        BY <3>1, NumberTypes, NumberCases
      <4>. QED  BY <2>3, <4>1
    <3>2. CASE f.type \in {"boolean", "ip", "string", "char", "datetime", "longAsDateTime"}
      <4>1. f.type \notin DOMAIN Numbers  BY <3>2 DEF Numbers
      <4>2. ByteSize(f.type) \in {1, 2, 4, 8}  BY <3>2, <4>1 DEF ByteSize
      <4>. QED  BY <2>3, <4>2
    <3>. QED  BY <3>1, <3>2, FaithfulTypes
  <2>8. ASSUME NEW k \in Nat \ {0}, k <= c
        PROVE  /\ ItemStart(f, k) < to /\ ItemStart(f, k) + size <= to
               /\ ItemRead(full, f, k) = Wanted(f, content, k) /\ Wanted(f, content, k) \in Decoded
    <3>. DEFINE start == ItemStart(f, k)
                last == start + size - 1
    <3>1. start \in Nat /\ last \in start..(start + size - 1)
      <4>1. start \in Nat  BY <2>2, <2>8, ItemStartType
      <4>. HIDE DEF start, size
      <4>. QED  BY <2>3, <2>7, <4>1
    <3>2. \A j \in start..(start + size - 1) : j \in Place(f)
      <4>. DEFINE i == k - 1
      <4>1. i \in Nat /\ i < f.count /\ start = f.offset + i * SizeOf(f)
        BY <2>3, <2>8 DEF ItemStart
      <4>. HIDE DEF i
      <4>2. \A j \in (f.offset + i * SizeOf(f))..(f.offset + i * SizeOf(f) + SizeOf(f) - 1) :
               j \in Place(f)
        BY <2>2, <4>1, ItemPlace
      <4>. QED  BY <4>1, <4>2
    <3>3. last \in Watching  BY <3>1, <3>2
    <3>4. start < to /\ start + size <= to
      <4>. HIDE DEF start, size
      <4>1. last \in object.watch.offset..(to - 1)  BY <3>3 DEF Watching
      <4>. HIDE DEF to
      <4>. QED  BY <2>2, <2>3, <2>7, <3>1, <4>1
    <3>5. Lies(full, f, content, k, n)  BY <2>6, <2>8
    <3>. HIDE DEF n, to, content, c
    <3>6. ItemRead(full, f, k) = Wanted(f, content, k) /\ Wanted(f, content, k) \in Decoded
      BY <2>2, <2>4, <2>6, <2>8, <3>4, <3>5, ItemOutcome DEF c
    <3>. QED  BY <3>4, <3>6
  <2>9. DecodeField(full, f) = Stored(f) /\ Stored(f) # Err
    <3>1. CASE c = 1
      <4>1. DecodeField(full, f) = ItemRead(full, f, 1)  BY <2>2, <2>6, <3>1, DecodesField
      <4>2. Stored(f) = Wanted(f, content, 1)  BY <2>2, <3>1, StoredIs
      <4>3. 1 \in Nat \ {0} /\ 1 <= c  BY <3>1
      <4>4. ItemRead(full, f, 1) = Wanted(f, content, 1) /\ Wanted(f, content, 1) \in Decoded
        BY <2>8, <4>3
      <4>. QED  BY <4>1, <4>2, <4>4, ErrIsNone
    <3>2. CASE c # 1
      <4>. DEFINE items == [k \in 1..c |-> ItemRead(full, f, k)]
                  want == [k \in 1..c |-> Wanted(f, content, k)]
      <4>1. ~(f.offset >= to)
        <5>1. 1 \in Nat \ {0} /\ 1 <= c  BY <2>3
        <5>2. ItemStart(f, 1) = f.offset + (1 - 1) * size  BY DEF ItemStart
        <5>. HIDE DEF size
        <5>3. ItemStart(f, 1) = f.offset  BY <2>3, <5>2
        <5>4. ItemStart(f, 1) < to  BY <2>8, <5>1
        <5>. QED  BY <2>2, <2>3, <5>3, <5>4
      <4>2. DecodeField(full, f) = Readable(items)  BY <2>2, <2>6, <3>2, <4>1, DecodesField
      <4>3. Stored(f) = want  BY <2>2, <3>2, StoredIs
      <4>4. \A k \in 1..c : k \in Nat \ {0} /\ k <= c  BY <2>3
      <4>. HIDE DEF c, content
      <4>5. \A k \in 1..c : items[k] = Wanted(f, content, k) /\ items[k] \in Decoded
        BY <2>8, <4>4
      <4>6. items = want  BY <4>5
      <4>7. DOMAIN items = 1..c /\ items = [k \in 1..c |-> items[k]]  OBVIOUS
      <4>. HIDE DEF items, want
      <4>8. c \in 0..c /\ c # 0 /\ \A k \in 1..c : items[k] # Err <=> k <= c
        BY <2>3, <4>4, <4>5, ErrIsNone
      <4>9. Readable(items) = [k \in 1..c |-> items[k]]  BY <2>3, <4>7, <4>8, ReadableIs
      <4>10. Stored(f) # Err
        <5>1. \A k \in 1..c : want[k] \in Decoded  BY <4>5, <4>6
        <5>2. want = [k \in 1..c |-> want[k]]  BY <4>6, <4>7
        <5>3. want \in [1..c -> Decoded]  BY <5>1, <5>2
        <5>4. want \in Seq(Decoded)  BY <2>3, <5>3
        <5>. QED  BY <4>3, <5>4, ErrIsNone
      <4>. QED  BY <4>2, <4>3, <4>6, <4>7, <4>9, <4>10
    <3>. QED  BY <3>1, <3>2
  <2>10. IF DecodeField(full, f) = Err THEN f.name \notin DOMAIN DecodeAsMap(full, object.def)
         ELSE /\ f.name \in DOMAIN DecodeAsMap(full, object.def)
              /\ DecodeAsMap(full, object.def)[f.name] = DecodeField(full, f)
    BY <2>2, MapOf
  <2>. QED  BY <2>6, <2>9, <2>10
<1>. QED  BY <1>1, ConvInvHolds, PTL

\* What is wanted of a number is a number.
LEMMA NumberWanted ==
    ASSUME NEW f \in Field, f.type \in DOMAIN Numbers, NEW content, HasType(f, content),
           NEW k \in Nat
    PROVE  Wanted(f, content, k) \in Int
<1>. DEFINE v == Item(f, content[f.name], k)
<1>1. f.type \in Faithful  BY NumberTypes DEF Faithful, Codecs
<1>2. CASE Has(f, content, k)
  <2>1. v \in ValueOf(f.type)  BY <1>1, <1>2 DEF Has, HasType
  <2>2. InRange(f.type, v) \in Int  BY <2>1, ReadsBackNumber
  <2>3. ReadAs(f.type, v) = InRange(f.type, v)  BY NumberCases
  <2>4. Wanted(f, content, k) = ReadAs(f.type, v)  BY <1>2 DEF Wanted
  <2>. QED  BY <2>2, <2>3, <2>4
<1>3. CASE ~Has(f, content, k)
  <2>1. Wanted(f, content, k) = Zero(f.type)  BY <1>3 DEF Wanted
  <2>. QED  BY <2>1, NumberCases
<1>. QED  BY <1>2, <1>3

\* In every run, whatever the sizes and places of the fields, a field that no
\* other overlaps is read as what was written to it or is missing, an array of
\* numbers as a prefix of it (encode's cuts, deploy, Watched, decode_as_map).
THEOREM NothingWrongHolds == Spec => []NothingWrong
<1>1. ConvInv => NothingWrong
  <2>. SUFFICES ASSUME ConvInv, Seen, Addressable, Accepted,
                       NEW f \in FieldSet(object.def), f.name \in DOMAIN values,
                       f.type \in Faithful, f.type = "datetime" => AllDated(f),
                       Apart(f, object.def), Named(f, object.def),
                       Place(f) \cap 0..(object.def.size - 1) \subseteq Deploying \cap Watching,
                       \/ Place(f) \subseteq 0..(object.def.size - 1)
                       \/ object.watch.blockSize <= object.def.size
                PROVE  IF f.count = 1 THEN values[f.name] = Stored(f)
                       ELSE f.type \in DOMAIN Numbers => IsPrefix(values[f.name], Stored(f))
    BY DEF NothingWrong
  <2>. DEFINE n == object.def.size
              to == object.watch.blockSize
              content == object.content
              c == f.count
  <2>1. object # Nothing  BY DEF Seen, ConvInv
  <2>2. /\ f \in Field /\ HasType(f, content) /\ n \in Nat /\ to \in Nat /\ c \in Nat
        /\ object.def.fields \in Seq(Field)
    <3>1. PICK i \in DOMAIN object.def.fields : f = object.def.fields[i]  BY DEF FieldSet
    <3>2. f \in Field  BY <2>1, <3>1, ObjectTypes
    <3>. QED  BY <2>1, <3>1, <3>2, ObjectTypes, SizeType
  <2>3. f.type = "datetime" => DatedIn(f, content)  BY DEF AllDated, DatedIn
  <2>4. PICK full \in Blocks(to) :
           /\ values = DecodeAsMap(full, object.def)
           /\ \A k \in Nat \ {0} : k <= c => Lies(full, f, content, k, n)
    BY ItemsLie
  <2>5. DecodeField(full, f) # Err /\ values[f.name] = DecodeField(full, f)
    <3>1. IF DecodeField(full, f) = Err THEN f.name \notin DOMAIN DecodeAsMap(full, object.def)
          ELSE /\ f.name \in DOMAIN DecodeAsMap(full, object.def)
               /\ DecodeAsMap(full, object.def)[f.name] = DecodeField(full, f)
      BY <2>2, MapOf
    <3>. QED  BY <2>4, <3>1
  <2>6. ASSUME NEW k \in Nat \ {0}, k <= c
        PROVE  /\ ItemRead(full, f, k) \in {Err, Wanted(f, content, k)}
               /\ f.type \in DOMAIN Numbers =>
                     ItemRead(full, f, k) =
                         IF ItemStart(f, k) >= to \/ Width(f, k, to) < ByteSize(f.type) THEN Err
                         ELSE Wanted(f, content, k)
    <3>1. Lies(full, f, content, k, n)  BY <2>4, <2>6
    <3>. HIDE DEF n, to, content, c
    <3>. QED  BY <2>2, <2>3, <2>4, <2>6, <3>1, ItemOutcome DEF c
  <2>7. ASSUME c = 1  PROVE values[f.name] = Stored(f)
    <3>1. DecodeField(full, f) = ItemRead(full, f, 1)  BY <2>2, <2>4, <2>7, DecodesField
    <3>2. Stored(f) = Wanted(f, content, 1)  BY <2>2, <2>7, StoredIs
    <3>3. 1 \in Nat \ {0} /\ 1 <= c  BY <2>7
    <3>4. ItemRead(full, f, 1) \in {Err, Wanted(f, content, 1)}  BY <2>6, <3>3
    <3>. QED  BY <2>5, <3>1, <3>2, <3>4
  <2>8. ASSUME c # 1, f.type \in DOMAIN Numbers  PROVE IsPrefix(values[f.name], Stored(f))
    <3>. DEFINE items == [k \in 1..c |-> ItemRead(full, f, k)]
                want == [k \in 1..c |-> Wanted(f, content, k)]
    <3>1. DecodeField(full, f) = Readable(items)
      <4>1. DecodeField(full, f) = IF f.offset >= to THEN Err ELSE Readable(items)
        BY <2>2, <2>4, <2>8, DecodesField
      <4>. QED  BY <2>5, <4>1
    <3>2. Stored(f) = want  BY <2>2, <2>8, StoredIs
    <3>3. \A k \in 1..c : k \in Nat \ {0} /\ k <= c  BY <2>2
    <3>. HIDE DEF c, content, to
    <3>4. \A k \in 1..c : Wanted(f, content, k) \in Int  BY <2>2, <2>8, <3>3, NumberWanted
    <3>5. want \in [1..c -> Int] /\ \A k \in 1..c : want[k] = Wanted(f, content, k)  BY <3>4
    <3>6. ReadOrCut(items, want, f, c, to)
      <4>1. items = [k \in 1..c |-> items[k]]  OBVIOUS
      <4>2. ASSUME NEW k \in 1..c
            PROVE  items[k] = IF ItemStart(f, k) >= to \/ Width(f, k, to) < ByteSize(f.type)
                              THEN Err ELSE want[k]
        <5>1. want[k] = Wanted(f, content, k)  BY <3>5
        <5>2. k \in Nat \ {0} /\ k <= c  BY <3>3
        <5>3. items[k] = ItemRead(full, f, k)  OBVIOUS
        <5>. HIDE DEF want, items
        <5>. QED  BY <2>6, <2>8, <5>1, <5>2, <5>3
      <4>. HIDE DEF want, items
      <4>. QED  BY <4>1, <4>2 DEF ReadOrCut
    <3>7. Readable(items) # Err  BY <2>5, <3>1
    <3>. HIDE DEF want, items
    <3>8. IsPrefix(Readable(items), want)
      BY <2>2, <2>8, <3>5, <3>6, <3>7, NumberPrefix
    <3>. QED  BY <2>5, <3>1, <3>2, <3>8
  <2>. QED  BY <2>7, <2>8
<1>. QED  BY <1>1, ConvInvHolds, PTL
=============================================================================
