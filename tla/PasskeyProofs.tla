--------------------------- MODULE PasskeyProofs ---------------------------
(***************************************************************************)
(* What Passkey encodes is read back, for any coordinates, credential ids  *)
(* and lengths.                                                            *)
(***************************************************************************)
EXTENDS Passkey, SequenceTheorems, TLAPS

(***************************************************************************)
(* Sequences of bytes                                                      *)
(***************************************************************************)

LEMMA Concatenated ==
  ASSUME NEW a \in Bytes, NEW b \in Bytes
  PROVE  /\ a \o b \in Bytes
         /\ Len(a \o b) = Len(a) + Len(b)
         /\ \A k \in 1..Len(a) : (a \o b)[k] = a[k]
         /\ \A k \in 1..Len(b) : (a \o b)[Len(a) + k] = b[k]
  <1>1. /\ a \o b \in Seq(Byte) /\ Len(a \o b) = Len(a) + Len(b)
        /\ \A k \in 1..Len(a) + Len(b) : (a \o b)[k] = IF k <= Len(a) THEN a[k] ELSE b[k - Len(a)]
    BY ConcatProperties DEF Bytes
  <1>2. Len(a) \in Nat /\ Len(b) \in Nat
    BY DEF Bytes
  <1> QED
    BY <1>1, <1>2 DEF Bytes

LEMMA Split ==
  ASSUME NEW a \in Bytes, NEW b \in Bytes
  PROVE  From(a \o b, Len(a)) = b /\ SubSeq(a \o b, 1, Len(a)) = a
  <1> DEFINE s == a \o b
  <1>1. /\ s \in Seq(Byte) /\ Len(s) = Len(a) + Len(b)
        /\ \A k \in 1..Len(a) : s[k] = a[k]
        /\ \A k \in 1..Len(b) : s[Len(a) + k] = b[k]
    BY Concatenated DEF Bytes
  <1>2. Len(a) \in Nat /\ Len(b) \in Nat /\ a \in Seq(Byte) /\ b \in Seq(Byte)
    BY DEF Bytes
  <1> HIDE DEF s
  <1>3. From(s, Len(a)) = b
    <2>1. \A k \in Len(a) + 1 .. Len(s) : s[k] \in Byte
      BY <1>1, <1>2
    <2>2. /\ SubSeq(s, Len(a) + 1, Len(s)) \in Seq(Byte)
          /\ Len(SubSeq(s, Len(a) + 1, Len(s))) = Len(b)
          /\ \A k \in 1..Len(b) : SubSeq(s, Len(a) + 1, Len(s))[k] = s[Len(a) + k]
      BY <1>1, <1>2, <2>1, SubSeqProperties
    <2> QED
      BY <1>1, <1>2, <2>2, SeqEqual DEF From
  <1>4. SubSeq(s, 1, Len(a)) = a
    <2>1. \A k \in 1..Len(a) : s[k] \in Byte
      BY <1>1, <1>2
    <2>2. /\ SubSeq(s, 1, Len(a)) \in Seq(Byte)
          /\ Len(SubSeq(s, 1, Len(a))) = Len(a)
          /\ \A k \in 1..Len(a) : SubSeq(s, 1, Len(a))[k] = s[k]
      BY <1>1, <1>2, <2>1, SubSeqProperties
    <2> QED
      BY <1>1, <1>2, <2>2, SeqEqual
  <1> QED
    BY <1>3, <1>4 DEF s

LEMMA Associates ==
  ASSUME NEW a \in Bytes, NEW b \in Bytes, NEW c \in Bytes
  PROVE  (a \o b) \o c = a \o (b \o c)
  BY ConcatAssociative DEF Bytes

LEMMA EndsThere == ASSUME NEW a \in Bytes PROVE a \o <<>> = a /\ <<>> \in Bytes
  BY DEF Bytes

(***************************************************************************)
(* Heads                                                                   *)
(***************************************************************************)

\* The numbers that fit the widest head.
Number == {n \in Nat : n < 4294967296}

\* What the readers find in the first bytes of a sequence.
LEMMA OneByte ==
  ASSUME NEW b1 \in Byte, NEW t \in Bytes
  PROVE  LET s == <<b1>> \o t IN
         <<b1>> \in Bytes /\ s[1] = b1 /\ From(s, 1) = t
  <1> DEFINE c == <<b1>>
  <1>1. c \in Bytes /\ Len(c) = 1 /\ c[1] = b1
    BY DEF Bytes
  <1> HIDE DEF c
  <1>2. c \in Bytes /\ (c \o t)[1] = b1 /\ From(c \o t, 1) = t
    <2>1. From(c \o t, Len(c)) = t
      BY <1>1, Split
    <2>2. \A k \in 1..Len(c) : (c \o t)[k] = c[k]
      BY <1>1, Concatenated
    <2> QED
      BY <1>1, <2>1, <2>2
  <1> QED
    BY <1>2 DEF c

LEMMA TwoBytes ==
  ASSUME NEW b1 \in Byte, NEW b2 \in Byte, NEW t \in Bytes
  PROVE  LET s == <<b1, b2>> \o t IN
         <<b1, b2>> \in Bytes /\ s[1] = b1 /\ s[2] = b2 /\ From(s, 2) = t
  <1> DEFINE c == <<b1, b2>>
  <1>1. c \in Bytes /\ Len(c) = 2 /\ c[1] = b1 /\ c[2] = b2
    BY DEF Bytes
  <1> HIDE DEF c
  <1>2. c \in Bytes /\ (c \o t)[1] = b1 /\ (c \o t)[2] = b2 /\ From(c \o t, 2) = t
    <2>1. From(c \o t, Len(c)) = t
      BY <1>1, Split
    <2>2. \A k \in 1..Len(c) : (c \o t)[k] = c[k]
      BY <1>1, Concatenated
    <2>3. 1 \in 1..Len(c) /\ 2 \in 1..Len(c)
      BY <1>1
    <2> QED
      BY <1>1, <2>1, <2>2, <2>3
  <1> QED
    BY <1>2 DEF c

LEMMA ThreeBytes ==
  ASSUME NEW b1 \in Byte, NEW b2 \in Byte, NEW b3 \in Byte, NEW t \in Bytes
  PROVE  LET s == <<b1, b2, b3>> \o t IN
         <<b1, b2, b3>> \in Bytes /\ s[1] = b1 /\ s[2] = b2 /\ s[3] = b3 /\ From(s, 3) = t
  <1> DEFINE c == <<b1, b2, b3>>
  <1>1. c \in Bytes /\ Len(c) = 3 /\ c[1] = b1 /\ c[2] = b2 /\ c[3] = b3
    BY DEF Bytes
  <1> HIDE DEF c
  <1>2. c \in Bytes /\ (c \o t)[1] = b1 /\ (c \o t)[2] = b2 /\ (c \o t)[3] = b3 /\ From(c \o t, 3) = t
    <2>1. From(c \o t, Len(c)) = t
      BY <1>1, Split
    <2>2. \A k \in 1..Len(c) : (c \o t)[k] = c[k]
      BY <1>1, Concatenated
    <2>3. 1 \in 1..Len(c) /\ 2 \in 1..Len(c) /\ 3 \in 1..Len(c)
      BY <1>1
    <2> QED
      BY <1>1, <2>1, <2>2, <2>3
  <1> QED
    BY <1>2 DEF c

LEMMA FiveBytes ==
  ASSUME NEW b1 \in Byte, NEW b2 \in Byte, NEW b3 \in Byte, NEW b4 \in Byte, NEW b5 \in Byte,
         NEW t \in Bytes
  PROVE  LET s == <<b1, b2, b3, b4, b5>> \o t IN
         /\ <<b1, b2, b3, b4, b5>> \in Bytes /\ From(s, 5) = t
         /\ s[1] = b1 /\ s[2] = b2 /\ s[3] = b3 /\ s[4] = b4 /\ s[5] = b5
  <1> DEFINE c == <<b1, b2, b3, b4, b5>>
  <1>1. /\ c \in Bytes /\ Len(c) = 5
        /\ c[1] = b1 /\ c[2] = b2 /\ c[3] = b3 /\ c[4] = b4 /\ c[5] = b5
    BY DEF Bytes
  <1> HIDE DEF c
  <1>2. /\ c \in Bytes /\ From(c \o t, 5) = t
        /\ (c \o t)[1] = b1 /\ (c \o t)[2] = b2 /\ (c \o t)[3] = b3
        /\ (c \o t)[4] = b4 /\ (c \o t)[5] = b5
    <2>1. From(c \o t, Len(c)) = t
      BY <1>1, Split
    <2>2. \A k \in 1..Len(c) : (c \o t)[k] = c[k]
      BY <1>1, Concatenated
    <2>3. 1 \in 1..Len(c) /\ 2 \in 1..Len(c) /\ 3 \in 1..Len(c) /\ 4 \in 1..Len(c) /\ 5 \in 1..Len(c)
      BY <1>1
    <2> QED
      BY <1>1, <2>1, <2>2, <2>3
  <1> QED
    BY <1>2 DEF c

LEMMA FirstByte ==
  ASSUME NEW major \in 0..7, NEW info \in Nat, info < 32
  PROVE  /\ 32 * major + info \in Byte
         /\ (32 * major + info) \div 32 = major
         /\ (32 * major + info) % 32 = info
  <1>1. 32 * major + info \in Byte
    BY DEF Byte
  <1>2. (32 * major + info) \div 32 = major
    OBVIOUS
  <1>3. (32 * major + info) % 32 = info
    OBVIOUS
  <1> QED
    BY <1>1, <1>2, <1>3

\* A number in base 256.
LEMMA LastByte ==
  ASSUME NEW n \in Nat
  PROVE  /\ n % 256 \in Byte
         /\ n \div 256 \in Nat
         /\ n = 256 * (n \div 256) + (n % 256)
  <1>1. n % 256 \in Byte
    BY DEF Byte
  <1>2. n \div 256 \in Nat
    OBVIOUS
  <1>3. n = 256 * (n \div 256) + (n % 256)
    OBVIOUS
  <1> QED
    BY <1>1, <1>2, <1>3

LEMMA FourBytes ==
  ASSUME NEW n \in Number
  PROVE  /\ (n \div 16777216) % 256 \in Byte /\ (n \div 65536) % 256 \in Byte
         /\ (n \div 256) % 256 \in Byte /\ n % 256 \in Byte
         /\ 16777216 * ((n \div 16777216) % 256) + 65536 * ((n \div 65536) % 256)
              + 256 * ((n \div 256) % 256) + (n % 256) = n
  <1> DEFINE a == n \div 256
             b == a \div 256
             c == b \div 256
  <1>1. n \in Nat
    BY DEF Number
  <1>2. a \in Nat /\ n % 256 \in Byte /\ n = 256 * a + (n % 256)
    BY <1>1, LastByte
  <1>3. b \in Nat /\ a % 256 \in Byte /\ a = 256 * b + (a % 256)
    <2> HIDE DEF a
    <2> QED
      BY <1>2, LastByte
  <1>4. c \in Nat /\ b % 256 \in Byte /\ b = 256 * c + (b % 256)
    <2> HIDE DEF b
    <2> QED
      BY <1>3, LastByte
  <1>5. n \div 65536 = b
    BY <1>1, SMT
  <1>6. n \div 16777216 = c
    BY <1>1, SMT
  <1>7. c < 256
    BY <1>6, SMT DEF Number
  <1>8. c % 256 = c
    <2> HIDE DEF c
    <2> QED
      BY <1>4, <1>7, SMT
  <1> DEFINE x == n % 256
             y == a % 256
             z == b % 256
  <1>9. x \in Nat /\ y \in Nat /\ z \in Nat
    <2> HIDE DEF a, b
    <2> QED
      BY <1>2, <1>3, <1>4, SMT DEF Byte
  <1>10. 16777216 * c + 65536 * z + 256 * y + x = n
    <2> HIDE DEF a, b, c, x, y, z
    <2>1. n = 256 * a + x /\ a = 256 * b + y /\ b = 256 * c + z
      BY <1>2, <1>3, <1>4 DEF x, y, z
    <2> QED
      BY <1>1, <1>2, <1>3, <1>4, <1>9, <2>1, SMT
  <1>11. c \in Byte
    <2> HIDE DEF c
    <2> QED
      BY <1>4, <1>7, SMT DEF Byte
  <1> HIDE DEF b, c
  <1> QED
    BY <1>2, <1>3, <1>4, <1>5, <1>6, <1>8, <1>10, <1>11, SMT

\* A head gives back its type and its number, at every width.
LEMMA HeadReadsBack ==
  ASSUME NEW major \in 0..7, NEW n \in Number, NEW t \in Bytes
  PROVE  /\ cborUint(major, n) \in Bytes
         /\ ReadHead(cborUint(major, n) \o t) = [major |-> major, value |-> n, rest |-> t]
  <1>0. n \in Nat
    BY DEF Number
  <1>1. CASE n < 24
    <2>1. cborUint(major, n) = <<32 * major + n>>
      BY <1>1, SMT DEF cborUint
    <2>2. n < 32
      BY <1>0, <1>1
    <2> DEFINE s == <<32 * major + n>> \o t
    <2>3. /\ s[1] \div 32 = major /\ s[1] % 32 = n /\ From(s, 1) = t
          /\ <<32 * major + n>> \in Bytes
      <3>1. /\ 32 * major + n \in Byte
            /\ (32 * major + n) \div 32 = major /\ (32 * major + n) % 32 = n
        BY <1>0, <2>2, FirstByte
      <3>2. <<32 * major + n>> \in Bytes /\ s[1] = 32 * major + n /\ From(s, 1) = t
        BY <3>1, OneByte
      <3> QED
        BY <3>1, <3>2
    <2> HIDE DEF s
    <2>4. ReadHead(s) = [major |-> major, value |-> n, rest |-> t]
      BY <1>1, <2>3, SMT DEF ReadHead
    <2> QED
      BY <2>1, <2>3, <2>4 DEF s
  <1>2. CASE 24 <= n /\ n < 256
    <2>1. cborUint(major, n) = <<32 * major + 24, n>>
      BY <1>0, <1>2, SMT DEF cborUint
    <2>2. n \in Byte
      BY <1>0, <1>2 DEF Byte
    <2>3. 24 \in Nat /\ 24 < 32
      OBVIOUS
    <2> DEFINE s == <<32 * major + 24, n>> \o t
    <2>4. /\ s[1] \div 32 = major /\ s[1] % 32 = 24 /\ From(s, 2) = t /\ s[2] = n
          /\ <<32 * major + 24, n>> \in Bytes
      <3>1. /\ 32 * major + 24 \in Byte
            /\ (32 * major + 24) \div 32 = major /\ (32 * major + 24) % 32 = 24
        BY <2>3, FirstByte
      <3>2. /\ <<32 * major + 24, n>> \in Bytes
            /\ s[1] = 32 * major + 24 /\ s[2] = n /\ From(s, 2) = t
        BY <2>2, <3>1, TwoBytes
      <3> QED
        BY <3>1, <3>2
    <2> HIDE DEF s
    <2>5. ReadHead(s) = [major |-> major, value |-> n, rest |-> t]
      BY <2>4, SMT DEF ReadHead
    <2> QED
      BY <2>1, <2>4, <2>5 DEF s
  <1>3. CASE 256 <= n /\ n < 65536
    <2>1. cborUint(major, n) = <<32 * major + 25, n \div 256, n % 256>>
      BY <1>0, <1>3, SMT DEF cborUint
    <2>2. n \div 256 \in Byte
      BY <1>0, <1>3, SMT DEF Byte
    <2>3. n % 256 \in Byte /\ 256 * (n \div 256) + (n % 256) = n
      BY <1>0, LastByte
    <2> DEFINE q == n \div 256
               r == n % 256
    <2> HIDE DEF q, r
    <2>4. cborUint(major, n) = <<32 * major + 25, q, r>> /\ q \in Byte /\ r \in Byte /\ 256 * q + r = n
      BY <2>1, <2>2, <2>3 DEF q, r
    <2>5. 25 \in Nat /\ 25 < 32
      OBVIOUS
    <2> DEFINE s == <<32 * major + 25, q, r>> \o t
    <2>6. /\ s[1] \div 32 = major /\ s[1] % 32 = 25 /\ From(s, 3) = t /\ s[2] = q /\ s[3] = r
          /\ <<32 * major + 25, q, r>> \in Bytes
      <3>1. /\ 32 * major + 25 \in Byte
            /\ (32 * major + 25) \div 32 = major /\ (32 * major + 25) % 32 = 25
        BY <2>5, FirstByte
      <3>2. /\ <<32 * major + 25, q, r>> \in Bytes
            /\ s[1] = 32 * major + 25 /\ s[2] = q /\ s[3] = r /\ From(s, 3) = t
        BY <2>4, <3>1, ThreeBytes
      <3> QED
        BY <3>1, <3>2
    <2> HIDE DEF s
    <2>7. ReadHead(s) = [major |-> major, value |-> n, rest |-> t]
      BY <2>4, <2>6, SMT DEF ReadHead
    <2> QED
      BY <2>4, <2>6, <2>7 DEF s
  <1>4. CASE 65536 <= n
    <2> DEFINE b3 == (n \div 16777216) % 256
               b2 == (n \div 65536) % 256
               b1 == (n \div 256) % 256
               b0 == n % 256
    <2>1. cborUint(major, n) = <<32 * major + 26, b3, b2, b1, b0>>
      BY <1>0, <1>4, SMT DEF cborUint
    <2>2. /\ b3 \in Byte /\ b2 \in Byte /\ b1 \in Byte /\ b0 \in Byte
          /\ 16777216 * b3 + 65536 * b2 + 256 * b1 + b0 = n
      BY FourBytes, SMT
    <2> HIDE DEF b3, b2, b1, b0
    <2>3. 26 \in Nat /\ 26 < 32
      BY SMT
    <2> DEFINE s == <<32 * major + 26, b3, b2, b1, b0>> \o t
    <2>4. /\ s[1] \div 32 = major /\ s[1] % 32 = 26 /\ From(s, 5) = t
          /\ s[2] = b3 /\ s[3] = b2 /\ s[4] = b1 /\ s[5] = b0
          /\ <<32 * major + 26, b3, b2, b1, b0>> \in Bytes
      <3>1. /\ 32 * major + 26 \in Byte
            /\ (32 * major + 26) \div 32 = major /\ (32 * major + 26) % 32 = 26
        BY <2>3, FirstByte
      <3>2. /\ <<32 * major + 26, b3, b2, b1, b0>> \in Bytes /\ From(s, 5) = t
            /\ s[1] = 32 * major + 26 /\ s[2] = b3 /\ s[3] = b2 /\ s[4] = b1 /\ s[5] = b0
        BY <2>2, <3>1, FiveBytes
      <3> QED
        BY <3>1, <3>2
    <2>5. cborUint(major, n) \o t = s
      BY <2>1, SMT
    <2> HIDE DEF s
    <2>6. ReadHead(s) = [major |-> major, value |-> n, rest |-> t]
      BY <2>2, <2>4, SMT DEF ReadHead
    <2>7. cborUint(major, n) \in Bytes
      BY <2>1, <2>4, Zenon
    <2>8. ReadHead(cborUint(major, n) \o t) = [major |-> major, value |-> n, rest |-> t]
      BY <2>5, <2>6, Zenon
    <2> QED
      BY <2>7, <2>8
  <1> QED
    BY <1>0, <1>1, <1>2, <1>3, <1>4, SMT

LEMMA HeadIsShort ==
  ASSUME NEW major \in 0..7, NEW n \in Number
  PROVE  cborUint(major, n) \in Bytes /\ Len(cborUint(major, n)) \in 1..5
  <1>1. Len(cborUint(major, n)) \in 1..5
    BY SMT DEF cborUint
  <1>2. cborUint(major, n) \in Bytes
    <2>1. <<>> \in Bytes
      BY DEF Bytes
    <2> QED
      BY <2>1, HeadReadsBack
  <1> QED
    BY <1>1, <1>2

LEMMA SmallNumbers ==
  /\ \A n \in Nat : n <= 2147483647 => n \in Number
  /\ \A i \in 0..7 : i \in Number
  BY SMT DEF Number

(***************************************************************************)
(* Items and entries                                                       *)
(***************************************************************************)

\* Before anything else, the bytes a are read as the item v.
ReadsItem(a, v) ==
  a \in Bytes /\ \A t \in Bytes : ReadItem(a \o t) = [item |-> v, rest |-> t]

ReadsEntry(a, name, value) ==
  a \in Bytes /\ \A t \in Bytes : ReadEntry(a \o t) = [name |-> name, value |-> value, rest |-> t]

LEMMA PosIntReadsBack ==
  ASSUME NEW v \in Number
  PROVE  ReadsItem(cborPosInt(v), v)
  <1>1. 0 \in 0..7
    OBVIOUS
  <1>2. cborUint(0, v) \in Bytes
    BY <1>1, HeadIsShort
  <1>3. ASSUME NEW t \in Bytes
        PROVE  ReadItem(cborUint(0, v) \o t) = [item |-> v, rest |-> t]
    <2>1. ReadHead(cborUint(0, v) \o t) = [major |-> 0, value |-> v, rest |-> t]
      BY <1>1, HeadReadsBack
    <2> QED
      BY <2>1 DEF ReadItem
  <1> QED
    BY <1>2, <1>3 DEF ReadsItem, cborPosInt

LEMMA NegIntReadsBack ==
  ASSUME NEW n \in Number
  PROVE  ReadsItem(cborNegInt(-1 - n), -1 - n)
  <1> DEFINE v == -1 - n
  <1>1. 1 \in 0..7
    OBVIOUS
  <1>2. n \in Nat /\ -v - 1 = n
    BY SMT DEF Number
  <1> HIDE DEF v
  <1>3. cborNegInt(v) = cborUint(1, n)
    BY <1>2 DEF cborNegInt
  <1>4. cborUint(1, n) \in Bytes
    BY <1>1, HeadIsShort
  <1>5. ASSUME NEW t \in Bytes
        PROVE  ReadItem(cborUint(1, n) \o t) = [item |-> v, rest |-> t]
    <2>1. ReadHead(cborUint(1, n) \o t) = [major |-> 1, value |-> n, rest |-> t]
      BY <1>1, HeadReadsBack
    <2> QED
      BY <2>1 DEF ReadItem, v
  <1>6. ReadsItem(cborNegInt(v), v)
    BY <1>3, <1>4, <1>5 DEF ReadsItem
  <1> QED
    BY <1>6 DEF v

LEMMA StringReadsBack ==
  ASSUME NEW b \in Bytes, Len(b) \in Number
  PROVE  ReadsItem(cborBytes(b), b) /\ ReadsItem(cborText(b), b)
  <1>1. ASSUME NEW major \in {2, 3}
        PROVE  ReadsItem(cborUint(major, Len(b)) \o b, b)
    <2> DEFINE h == cborUint(major, Len(b))
    <2>1. /\ h \in Bytes
          /\ \A t \in Bytes : ReadHead(h \o t) = [major |-> major, value |-> Len(b), rest |-> t]
      <3>1. major \in 0..7
        OBVIOUS
      <3> QED
        BY <3>1, HeadReadsBack
    <2> HIDE DEF h
    <2>2. ASSUME NEW t \in Bytes
          PROVE  ReadItem((h \o b) \o t) = [item |-> b, rest |-> t]
      <3>1. b \o t \in Bytes /\ (h \o b) \o t = h \o (b \o t)
        BY <2>1, Concatenated, Associates
      <3>2. ReadHead((h \o b) \o t) = [major |-> major, value |-> Len(b), rest |-> b \o t]
        BY <2>1, <3>1
      <3>3. SubSeq(b \o t, 1, Len(b)) = b /\ From(b \o t, Len(b)) = t
        BY Split
      <3>4. major # 0 /\ major # 1
        OBVIOUS
      <3> QED
        BY <3>2, <3>3, <3>4 DEF ReadItem
    <2>3. h \o b \in Bytes
      BY <2>1, Concatenated
    <2> QED
      BY <2>2, <2>3 DEF ReadsItem, h
  <1> QED
    BY <1>1 DEF cborBytes, cborText

LEMMA EntryReadsBack ==
  ASSUME NEW a, NEW b, NEW name, NEW value, ReadsItem(a, name), ReadsItem(b, value)
  PROVE  ReadsEntry(a \o b, name, value)
  <1>1. a \in Bytes /\ b \in Bytes /\ a \o b \in Bytes
    BY Concatenated DEF ReadsItem
  <1>2. ASSUME NEW t \in Bytes
        PROVE  ReadEntry((a \o b) \o t) = [name |-> name, value |-> value, rest |-> t]
    <2>1. b \o t \in Bytes /\ (a \o b) \o t = a \o (b \o t)
      <3>1. b \o t \in Bytes
        BY <1>1, Concatenated
      <3>2. (a \o b) \o t = a \o (b \o t)
        BY <1>1, Associates
      <3> QED
        BY <3>1, <3>2
    <2>2. ReadItem(a \o (b \o t)) = [item |-> name, rest |-> b \o t]
      BY <2>1 DEF ReadsItem
    <2>3. ReadItem(b \o t) = [item |-> value, rest |-> t]
      BY DEF ReadsItem
    <2> QED
      BY <2>1, <2>2, <2>3 DEF ReadEntry
  <1> QED
    BY <1>1, <1>2 DEF ReadsEntry

(***************************************************************************)
(* The COSE key                                                            *)
(***************************************************************************)

\* A key is a header and five entries.
LEMMA KeyEntries ==
  ASSUME NEW x \in Bytes, NEW y \in Bytes, Len(x) = 32, Len(y) = 32
  PROVE  /\ ReadsEntry(cborPosInt(1) \o cborPosInt(2), 1, 2)
         /\ ReadsEntry(cborPosInt(3) \o cborNegInt(-7), 3, -7)
         /\ ReadsEntry(cborNegInt(-1) \o cborPosInt(1), -1, 1)
         /\ ReadsEntry(cborNegInt(-2) \o cborBytes(x), -2, x)
         /\ ReadsEntry(cborNegInt(-3) \o cborBytes(y), -3, y)
  <1>1. \A i \in 0..7 : i \in Number
    BY SmallNumbers
  <1>2. 32 \in Number
    BY SMT DEF Number
  <1>3. ReadsItem(cborPosInt(1), 1) /\ ReadsItem(cborPosInt(2), 2) /\ ReadsItem(cborPosInt(3), 3)
    BY <1>1, PosIntReadsBack
  <1>4. -1 = -1 - 0 /\ -2 = -1 - 1 /\ -3 = -1 - 2 /\ -7 = -1 - 6
    OBVIOUS
  <1>5. ReadsItem(cborNegInt(-1 - 0), -1 - 0) /\ ReadsItem(cborNegInt(-1 - 1), -1 - 1)
    BY <1>1, NegIntReadsBack
  <1>6. ReadsItem(cborNegInt(-1 - 2), -1 - 2) /\ ReadsItem(cborNegInt(-1 - 6), -1 - 6)
    BY <1>1, NegIntReadsBack
  <1>7. /\ ReadsItem(cborNegInt(-1), -1) /\ ReadsItem(cborNegInt(-2), -2)
        /\ ReadsItem(cborNegInt(-3), -3) /\ ReadsItem(cborNegInt(-7), -7)
    BY <1>4, <1>5, <1>6
  <1>8. ReadsItem(cborBytes(x), x) /\ ReadsItem(cborBytes(y), y)
    BY <1>2, StringReadsBack
  <1> QED
    BY <1>3, <1>7, <1>8, EntryReadsBack

\* Five pieces after a header, taken one at a time.
LEMMA FivePieces ==
  ASSUME NEW h \in Bytes, NEW a \in Bytes, NEW b \in Bytes, NEW c \in Bytes,
         NEW d \in Bytes, NEW e \in Bytes
  PROVE  /\ h \o a \o b \o c \o d \o e = h \o (a \o (b \o (c \o (d \o e))))
         /\ h \o a \o b \o c \o d \o e \in Bytes
  <1> DEFINE p1 == h \o a
             p2 == p1 \o b
             p3 == p2 \o c
             p4 == p3 \o d
             q3 == d \o e
             q2 == c \o q3
             q1 == b \o q2
             q0 == a \o q1
  <1>1. h \o a \o b \o c \o d \o e = p4 \o e /\ h \o (a \o (b \o (c \o (d \o e)))) = h \o q0
    BY Zenon
  <1> HIDE DEF p1, p2, p3, p4, q0, q1, q2, q3
  <1>2. p1 \in Bytes
    BY Concatenated DEF p1
  <1>3. p2 \in Bytes
    BY <1>2, Concatenated DEF p2
  <1>4. p3 \in Bytes
    BY <1>3, Concatenated DEF p3
  <1>5. p4 \in Bytes /\ p4 \o e \in Bytes
    <2>1. p4 \in Bytes
      BY <1>4, Concatenated DEF p4
    <2> QED
      BY <2>1, Concatenated
  <1>6. q3 \in Bytes
    BY Concatenated DEF q3
  <1>7. q2 \in Bytes
    BY <1>6, Concatenated DEF q2
  <1>8. q1 \in Bytes
    BY <1>7, Concatenated DEF q1
  <1>9. p4 \o e = p3 \o q3
    BY <1>4, Associates DEF p4, q3
  <1>10. p3 \o q3 = p2 \o q2
    BY <1>3, <1>6, Associates DEF p3, q2
  <1>11. p2 \o q2 = p1 \o q1
    BY <1>2, <1>7, Associates DEF p2, q1
  <1>12. p1 \o q1 = h \o q0
    BY <1>8, Associates DEF p1, q0
  <1> QED
    BY <1>1, <1>5, <1>9, <1>10, <1>11, <1>12, Zenon

\* The key is read back, and is short.
LEMMA KeyReadsBack ==
  ASSUME NEW x \in Bytes, NEW y \in Bytes, Len(x) = 32, Len(y) = 32
  PROVE  coseKey(x, y) \in Bytes /\ ReadKey(coseKey(x, y)) = KeyRead(x, y)
  <1> DEFINE h == cborMapHeader(5)
             a == cborPosInt(1) \o cborPosInt(2)
             b == cborPosInt(3) \o cborNegInt(-7)
             c == cborNegInt(-1) \o cborPosInt(1)
             d == cborNegInt(-2) \o cborBytes(x)
             e == cborNegInt(-3) \o cborBytes(y)
  <1>1. /\ ReadsEntry(a, 1, 2) /\ ReadsEntry(b, 3, -7) /\ ReadsEntry(c, -1, 1)
        /\ ReadsEntry(d, -2, x) /\ ReadsEntry(e, -3, y)
    BY KeyEntries
  <1>2. /\ h \in Bytes
        /\ \A t \in Bytes : ReadHead(h \o t) = [major |-> 5, value |-> 5, rest |-> t]
    <2>1. 5 \in 0..7 /\ 5 \in Number
      BY SmallNumbers
    <2> QED
      BY <2>1, HeadReadsBack DEF cborMapHeader
  <1>3. coseKey(x, y) = h \o a \o b \o c \o d \o e
    BY DEF coseKey
  <1> HIDE DEF h, a, b, c, d, e
  <1>4. a \in Bytes /\ b \in Bytes /\ c \in Bytes /\ d \in Bytes /\ e \in Bytes
    BY <1>1 DEF ReadsEntry
  <1> DEFINE t4 == d \o e
             t3 == c \o t4
             t2 == b \o t3
             t1 == a \o t2
  <1>5. coseKey(x, y) = h \o t1 /\ coseKey(x, y) \in Bytes
    <2>1. /\ h \o a \o b \o c \o d \o e = h \o (a \o (b \o (c \o (d \o e))))
          /\ h \o a \o b \o c \o d \o e \in Bytes
      BY <1>2, <1>4, FivePieces
    <2> QED
      BY <1>3, <2>1, Zenon
  <1> HIDE DEF t1, t2, t3, t4
  <1>6. t4 \in Bytes
    BY <1>4, Concatenated DEF t4
  <1>7. t3 \in Bytes
    BY <1>4, <1>6, Concatenated DEF t3
  <1>8. t2 \in Bytes
    BY <1>4, <1>7, Concatenated DEF t2
  <1>9. t1 \in Bytes
    BY <1>4, <1>8, Concatenated DEF t1
  <1>10. ReadHead(h \o t1) = [major |-> 5, value |-> 5, rest |-> t1]
    BY <1>2, <1>9
  <1>11. ReadEntry(t1) = [name |-> 1, value |-> 2, rest |-> t2]
    BY <1>1, <1>8 DEF ReadsEntry, t1
  <1>12. ReadEntry(t2) = [name |-> 3, value |-> -7, rest |-> t3]
    BY <1>1, <1>7 DEF ReadsEntry, t2
  <1>13. ReadEntry(t3) = [name |-> -1, value |-> 1, rest |-> t4]
    BY <1>1, <1>6 DEF ReadsEntry, t3
  <1>14. ReadEntry(t4) = [name |-> -2, value |-> x, rest |-> e]
    BY <1>1, <1>4 DEF ReadsEntry, t4
  <1>15. ReadEntry(e) = [name |-> -3, value |-> y, rest |-> <<>>]
    <2>1. <<>> \in Bytes /\ e \o <<>> = e
      BY <1>4, EndsThere
    <2>2. ReadEntry(e \o <<>>) = [name |-> -3, value |-> y, rest |-> <<>>]
      BY <1>1, <2>1 DEF ReadsEntry
    <2> QED
      BY <2>1, <2>2
  <1> DEFINE k == h \o t1
  <1>16. ReadHead(k) = [major |-> 5, value |-> 5, rest |-> t1]
    BY <1>10
  <1> HIDE DEF k
  <1>17. ReadKey(k) = KeyRead(x, y)
    <2>1. /\ ReadHead(k).rest = t1 /\ ReadEntry(t1).rest = t2 /\ ReadEntry(t2).rest = t3
          /\ ReadEntry(t3).rest = t4 /\ ReadEntry(t4).rest = e
      BY <1>11, <1>12, <1>13, <1>14, <1>16
    <2>2. ReadKey(k) =
            [entries |-> ReadHead(k).value,
             names |-> <<ReadEntry(t1).name, ReadEntry(t2).name, ReadEntry(t3).name,
                         ReadEntry(t4).name, ReadEntry(e).name>>,
             params |-> <<ReadEntry(t1).value, ReadEntry(t2).value, ReadEntry(t3).value>>,
             x |-> ReadEntry(t4).value, y |-> ReadEntry(e).value, rest |-> ReadEntry(e).rest]
      BY <2>1, Zenon DEF ReadKey
    <2>3. /\ ReadHead(k).value = 5
          /\ ReadEntry(t1).name = 1 /\ ReadEntry(t2).name = 3 /\ ReadEntry(t3).name = -1
          /\ ReadEntry(t4).name = -2 /\ ReadEntry(e).name = -3
          /\ ReadEntry(t1).value = 2 /\ ReadEntry(t2).value = -7 /\ ReadEntry(t3).value = 1
          /\ ReadEntry(t4).value = x /\ ReadEntry(e).value = y /\ ReadEntry(e).rest = <<>>
      BY <1>11, <1>12, <1>13, <1>14, <1>15, <1>16
    <2> QED
      BY <2>2, <2>3, Zenon DEF KeyRead
  <1> QED
    BY <1>5, <1>17 DEF k

\* At most n bytes.
Short(a, n) == a \in Bytes /\ Len(a) <= n

LEMMA ShortTogether ==
  ASSUME NEW a, NEW b, NEW m \in Nat, NEW n \in Nat, Short(a, m), Short(b, n)
  PROVE  Short(a \o b, m + n)
  <1>1. a \in Bytes /\ b \in Bytes /\ Len(a) <= m /\ Len(b) <= n
    BY DEF Short
  <1>2. Len(a) \in Nat /\ Len(b) \in Nat
    BY <1>1 DEF Bytes
  <1>3. a \o b \in Bytes /\ Len(a \o b) = Len(a) + Len(b)
    BY <1>1, Concatenated
  <1> QED
    BY <1>1, <1>2, <1>3 DEF Short

LEMMA KeyIsShort ==
  ASSUME NEW x \in Bytes, NEW y \in Bytes, Len(x) = 32, Len(y) = 32
  PROVE  Short(coseKey(x, y), 200)
  <1> DEFINE h == cborMapHeader(5)
             p == cborPosInt(1) \o cborPosInt(2)
             q == cborPosInt(3) \o cborNegInt(-7)
             r == cborNegInt(-1) \o cborPosInt(1)
             u == cborNegInt(-2) \o cborBytes(x)
             v == cborNegInt(-3) \o cborBytes(y)
  <1>1. \A m \in 0..7, n \in Number : Short(cborUint(m, n), 5)
    <2> SUFFICES ASSUME NEW m \in 0..7, NEW n \in Number PROVE Short(cborUint(m, n), 5)
      OBVIOUS
    <2>1. cborUint(m, n) \in Bytes /\ Len(cborUint(m, n)) \in 1..5
      BY HeadIsShort
    <2>2. Len(cborUint(m, n)) <= 5
      <3> DEFINE l == Len(cborUint(m, n))
      <3> HIDE DEF l
      <3>1. l \in 1..5
        BY <2>1 DEF l
      <3>2. l <= 5
        BY <3>1
      <3> QED
        BY <3>2 DEF l
    <2> QED
      BY <2>1, <2>2, Zenon DEF Short
  <1>2. /\ \A i \in 0..7 : i \in Number
        /\ 32 \in Number
    BY SMT DEF Number
  <1>3. /\ Short(h, 5) /\ Short(cborPosInt(1), 5) /\ Short(cborPosInt(2), 5) /\ Short(cborPosInt(3), 5)
        /\ Short(cborNegInt(-7), 5) /\ Short(cborNegInt(-1), 5) /\ Short(cborNegInt(-2), 5)
        /\ Short(cborNegInt(-3), 5) /\ Short(cborUint(2, 32), 5)
    BY <1>1, <1>2 DEF cborMapHeader, cborPosInt, cborNegInt
  <1>4. Short(cborBytes(x), 37) /\ Short(cborBytes(y), 37)
    <2>1. Short(x, 32) /\ Short(y, 32)
      BY DEF Short
    <2>2. Short(cborUint(2, 32) \o x, 5 + 32) /\ Short(cborUint(2, 32) \o y, 5 + 32)
      BY <1>3, <2>1, ShortTogether
    <2> QED
      BY <2>2 DEF cborBytes
  <1>5. Short(p, 5 + 5) /\ Short(q, 5 + 5) /\ Short(r, 5 + 5)
    BY <1>3, ShortTogether
  <1>6. Short(u, 5 + 37) /\ Short(v, 5 + 37)
    BY <1>3, <1>4, ShortTogether
  <1>7. coseKey(x, y) = h \o p \o q \o r \o u \o v
    BY DEF coseKey
  <1> HIDE DEF h, p, q, r, u, v
  <1>8. Short(p, 10) /\ Short(q, 10) /\ Short(r, 10) /\ Short(u, 42) /\ Short(v, 42)
    BY <1>5, <1>6
  <1>9. Short(h \o p, 5 + 10)
    BY <1>3, <1>8, ShortTogether
  <1>10. Short(h \o p \o q, 15 + 10)
    BY <1>8, <1>9, ShortTogether
  <1>11. Short(h \o p \o q \o r, 25 + 10)
    BY <1>8, <1>10, ShortTogether
  <1>12. Short(h \o p \o q \o r \o u, 35 + 42)
    BY <1>8, <1>11, ShortTogether
  <1>13. Short(h \o p \o q \o r \o u \o v, 77 + 42)
    BY <1>8, <1>12, ShortTogether
  <1>14. Short(coseKey(x, y), 119)
    BY <1>7, <1>13
  <1> QED
    <2>1. coseKey(x, y) \in Bytes /\ Len(coseKey(x, y)) <= 119 /\ Len(coseKey(x, y)) \in Nat
      BY <1>14 DEF Short, Bytes
    <2> QED
      BY <2>1 DEF Short

(***************************************************************************)
(* The attestation object                                                  *)
(***************************************************************************)

LEMMA MemberNames ==
  /\ ReadsItem(cborText(Text.fmt), Text.fmt) /\ ReadsItem(cborText(Text.none), Text.none)
  /\ ReadsItem(cborText(Text.attStmt), Text.attStmt)
  /\ ReadsItem(cborText(Text.authData), Text.authData)
  <1>1. 3 \in Number /\ 4 \in Number /\ 7 \in Number /\ 8 \in Number
    BY SMT DEF Number
  <1>2. Text.fmt \in Bytes /\ Len(Text.fmt) = 3
    BY DEF Text, Bytes, Byte
  <1>3. Text.none \in Bytes /\ Len(Text.none) = 4
    BY DEF Text, Bytes, Byte
  <1>4. Text.attStmt \in Bytes /\ Len(Text.attStmt) = 7
    BY DEF Text, Bytes, Byte
  <1>5. Text.authData \in Bytes /\ Len(Text.authData) = 8
    BY DEF Text, Bytes, Byte
  <1> QED
    BY <1>1, <1>2, <1>3, <1>4, <1>5, StringReadsBack

LEMMA AttestationReadsBack ==
  ASSUME NEW data \in Bytes, Len(data) \in Number
  PROVE  ReadAttestation(attestationObject(data)) = data
  <1> DEFINE h == cborMapHeader(3)
             a == cborText(Text.fmt) \o cborText(Text.none)
             b == cborText(Text.attStmt)
             c == cborMapHeader(0)
             d == cborText(Text.authData) \o cborBytes(data)
  <1>1. attestationObject(data) = h \o a \o (b \o c) \o d
    BY Zenon DEF attestationObject
  <1>2. 3 \in Number /\ 0 \in Number /\ 5 \in 0..7
    BY SmallNumbers
  <1>3. /\ h \in Bytes
        /\ \A t \in Bytes : ReadHead(h \o t) = [major |-> 5, value |-> 3, rest |-> t]
    BY <1>2, HeadIsShort, HeadReadsBack DEF cborMapHeader
  <1>4. /\ c \in Bytes
        /\ \A t \in Bytes : ReadHead(c \o t) = [major |-> 5, value |-> 0, rest |-> t]
    BY <1>2, HeadIsShort, HeadReadsBack DEF cborMapHeader
  <1>5. ReadsEntry(a, Text.fmt, Text.none)
    BY MemberNames, EntryReadsBack
  <1>6. ReadsItem(b, Text.attStmt)
    BY MemberNames
  <1>7. ReadsEntry(d, Text.authData, data)
    <2>1. ReadsItem(cborBytes(data), data)
      BY StringReadsBack
    <2> QED
      BY <2>1, MemberNames, EntryReadsBack
  <1> HIDE DEF h, a, b, c, d
  <1>8. a \in Bytes /\ b \in Bytes /\ d \in Bytes /\ <<>> \in Bytes
    BY <1>5, <1>6, <1>7, EndsThere DEF ReadsEntry, ReadsItem
  <1> DEFINE t3 == c \o d
             t2 == b \o t3
             t1 == a \o t2
             s == h \o t1
  <1>9. h \o a \o (b \o c) \o d = s
    <2> DEFINE g == h \o a
    <2>1. g \in Bytes
      BY <1>3, <1>8, Concatenated
    <2>2. h \o a \o (b \o c) = h \o a \o b \o c
      <3> HIDE DEF g
      <3>1. (g \o b) \o c = g \o (b \o c)
        BY <1>4, <1>8, <2>1, Associates
      <3> QED
        BY <3>1, Zenon DEF g
    <2>3. /\ h \o a \o b \o c \o d \o <<>> = h \o (a \o (b \o (c \o (d \o <<>>))))
          /\ h \o a \o b \o c \o d \o <<>> \in Bytes
      BY <1>3, <1>4, <1>8, FivePieces
    <2>4. d \o <<>> = d
      BY <1>8, EndsThere
    <2> DEFINE k == h \o a \o b \o c \o d
    <2>5. k \in Bytes /\ k \o <<>> = k
      <3> DEFINE l == g \o b
                 m == l \o c
      <3>1. l \in Bytes
        <4> HIDE DEF g
        <4> QED
          BY <1>8, <2>1, Concatenated
      <3>2. m \in Bytes
        <4> HIDE DEF l
        <4> QED
          BY <1>4, <3>1, Concatenated
      <3>3. m \o d \in Bytes /\ (m \o d) \o <<>> = m \o d
        <4> HIDE DEF m
        <4>1. m \o d \in Bytes
          BY <1>8, <3>2, Concatenated
        <4> QED
          BY <4>1, EndsThere
      <3> QED
        BY <3>3, Zenon
    <2> QED
      BY <2>2, <2>3, <2>4, <2>5, Zenon
  <1> HIDE DEF t1, t2, t3, s
  <1>10. t3 \in Bytes
    BY <1>4, <1>8, Concatenated DEF t3
  <1>11. t2 \in Bytes
    BY <1>8, <1>10, Concatenated DEF t2
  <1>12. t1 \in Bytes
    BY <1>8, <1>11, Concatenated DEF t1
  <1>13. ReadHead(s).rest = t1
    BY <1>3, <1>12 DEF s
  <1>14. ReadEntry(t1).rest = t2
    BY <1>5, <1>11 DEF t1, ReadsEntry
  <1>15. ReadItem(t2).rest = t3
    BY <1>6, <1>10 DEF t2, ReadsItem
  <1>16. ReadHead(t3).rest = d
    BY <1>4, <1>8 DEF t3
  <1>17. ReadEntry(d).value = data
    <2>1. ReadEntry(d \o <<>>).value = data
      <3>1. ReadEntry(d \o <<>>) = [name |-> Text.authData, value |-> data, rest |-> <<>>]
        BY <1>7, <1>8, Zenon DEF ReadsEntry
      <3> QED
        BY <3>1
    <2>2. d \o <<>> = d
      BY <1>8, EndsThere
    <2> QED
      BY <2>1, <2>2
  <1>18. ReadAttestation(s) = data
    BY <1>13, <1>14, <1>15, <1>16, <1>17, Zenon DEF ReadAttestation
  <1> QED
    BY <1>1, <1>9, <1>18

(***************************************************************************)
(* The authenticator data                                                  *)
(***************************************************************************)

LEMMA Between ==
  ASSUME NEW a \in Bytes, NEW b \in Bytes, NEW c \in Bytes
  PROVE  SubSeq((a \o b) \o c, Len(a) + 1, Len(a) + Len(b)) = b
  <1> DEFINE s == (a \o b) \o c
             m == Len(a) + 1
             n == Len(a) + Len(b)
  <1>1. /\ a \o b \in Bytes /\ Len(a \o b) = Len(a) + Len(b)
        /\ \A k \in 1..Len(b) : (a \o b)[Len(a) + k] = b[k]
    BY Concatenated
  <1>2. /\ s \in Bytes
        /\ \A k \in 1..Len(a \o b) : s[k] = (a \o b)[k]
    BY <1>1, Concatenated
  <1>3. Len(a) \in Nat /\ Len(b) \in Nat /\ b \in Seq(Byte)
    BY DEF Bytes
  <1>4. \A k \in 1..Len(b) : s[Len(a) + k] = b[k]
    <2> SUFFICES ASSUME NEW k \in 1..Len(b) PROVE s[Len(a) + k] = b[k]
      OBVIOUS
    <2>1. Len(a) + k \in 1..Len(a \o b)
      BY <1>1, <1>3
    <2> QED
      BY <1>1, <1>2, <2>1
  <1> HIDE DEF s
  <1>5. \A k \in m..n : s[k] \in Byte
    <2> SUFFICES ASSUME NEW k \in m..n PROVE s[k] \in Byte
      OBVIOUS
    <2>1. k - Len(a) \in 1..Len(b) /\ Len(a) + (k - Len(a)) = k
      BY <1>3
    <2>2. s[k] = b[k - Len(a)]
      BY <1>4, <2>1
    <2>3. b[k - Len(a)] \in Byte
      BY <1>3, <2>1
    <2> QED
      BY <2>2, <2>3
  <1>6. m \in Int /\ n \in Int /\ n - m + 1 = Len(b) /\ (m <= n \/ Len(b) = 0)
    BY <1>3
  <1>7. /\ SubSeq(s, m, n) \in Seq(Byte) /\ Len(SubSeq(s, m, n)) = Len(b)
        /\ \A k \in 1..Len(b) : SubSeq(s, m, n)[k] = s[Len(a) + k]
    BY <1>3, <1>5, <1>6, SubSeqProperties
  <1>8. SubSeq(s, m, n) = b
    BY <1>3, <1>4, <1>7, SeqEqual
  <1> QED
    BY <1>8 DEF s

\* The lengths that fit the two bytes before a credential id.
Short16 == {n \in Nat : n < 65536}

LEMMA TwoByteLength ==
  ASSUME NEW n \in Short16
  PROVE  /\ (n \div 256) % 256 \in Byte /\ n % 256 \in Byte
         /\ 256 * ((n \div 256) % 256) + (n % 256) = n
  <1>1. n \in Nat
    BY DEF Short16
  <1>2. (n \div 256) % 256 = n \div 256 /\ n \div 256 \in Byte
    BY SMT DEF Byte, Short16
  <1>3. n % 256 \in Byte /\ n = 256 * (n \div 256) + (n % 256)
    BY <1>1, LastByte
  <1> DEFINE q == n \div 256
             r == n % 256
  <1> HIDE DEF q, r
  <1>4. q % 256 = q /\ q \in Byte /\ r \in Byte /\ n = 256 * q + r
    BY <1>2, <1>3 DEF q, r
  <1>5. q % 256 \in Byte /\ r \in Byte /\ 256 * (q % 256) + r = n
    BY <1>4
  <1> QED
    BY <1>5 DEF q, r

LEMMA PlusShort ==
  ASSUME NEW m \in Short16, NEW n \in Nat, n <= 200
  PROVE  55 + m + n \in Number
  BY SMT DEF Short16, Number

\* The credential id and the key are where the IdP looks for them.
LEMMA AuthDataReadsBack ==
  ASSUME NEW cred \in Bytes, Len(cred) \in Short16,
         NEW x \in Bytes, NEW y \in Bytes, Len(x) = 32, Len(y) = 32
  PROVE  LET data == authData(cred, x, y) IN
         /\ data \in Bytes /\ Len(data) \in Number
         /\ ReadCredential(data) = cred
         /\ ReadCredentialKey(data) = KeyRead(x, y)
  <1> DEFINE f == <<69, 0, 0, 0, 0>>
             hi == (Len(cred) \div 256) % 256
             lo == Len(cred) % 256
             c == <<hi, lo>>
             key == coseKey(x, y)
             p == rpHash \o f \o qaAAGUID
             pc == p \o c
             pcc == pc \o cred
             data == authData(cred, x, y)
  <1>1. Len(cred) \in Nat /\ cred \in Bytes
    BY DEF Bytes
  <1>2. hi \in Byte /\ lo \in Byte /\ 256 * hi + lo = Len(cred)
    BY TwoByteLength
  <1> HIDE DEF hi, lo
  <1>3. c \in Bytes /\ Len(c) = 2 /\ c[1] = hi /\ c[2] = lo
    BY <1>2 DEF Bytes
  <1>4. f \in Bytes /\ Len(f) = 5
    BY DEF Bytes, Byte
  <1>5. /\ key \in Bytes /\ ReadKey(key) = KeyRead(x, y)
        /\ Len(key) <= 200
    BY KeyReadsBack, KeyIsShort DEF Short
  <1>6. data = pc \o (cred \o key)
    BY Zenon DEF authData, hi, lo
  <1> HIDE DEF f, c, key, data
  <1>7. p \in Bytes /\ Len(p) = 53
    <2> DEFINE q == rpHash \o f
    <2>1. /\ rpHash \in Bytes /\ Len(rpHash) = 32
          /\ qaAAGUID \in Bytes /\ Len(qaAAGUID) = 16
      BY PasskeyAssumption, SMT DEF PasskeyAssumption
    <2>2. q \in Bytes /\ Len(q) = 37
      <3>1. q \in Bytes /\ Len(q) = Len(rpHash) + Len(f)
        BY <1>4, <2>1, Concatenated, Zenon
      <3> QED
        BY <1>4, <2>1, <3>1
    <2> HIDE DEF q
    <2>3. q \o qaAAGUID \in Bytes /\ Len(q \o qaAAGUID) = 53
      <3>1. q \o qaAAGUID \in Bytes /\ Len(q \o qaAAGUID) = Len(q) + Len(qaAAGUID)
        BY <2>1, <2>2, Concatenated, Zenon
      <3> QED
        BY <2>1, <2>2, <3>1
    <2> QED
      BY <2>3 DEF q
  <1> HIDE DEF p
  <1>8. pc \in Bytes /\ Len(pc) = 55 /\ pc[54] = hi /\ pc[55] = lo
    <2>1. pc \in Bytes /\ Len(pc) = Len(p) + Len(c) /\ \A k \in 1..Len(c) : pc[Len(p) + k] = c[k]
      <3>1. p \in Bytes /\ c \in Bytes
        BY <1>3, <1>7
      <3> QED
        BY <3>1, Concatenated, Zenon
    <2>2. 1 \in 1..Len(c) /\ 2 \in 1..Len(c) /\ Len(p) + 1 = 54 /\ Len(p) + 2 = 55
      BY <1>3, <1>7
    <2> HIDE DEF pc
    <2>3. pc[Len(p) + 1] = c[1] /\ pc[Len(p) + 2] = c[2]
      BY <2>1, <2>2
    <2> QED
      BY <1>3, <1>7, <2>1, <2>2, <2>3
  <1> HIDE DEF pc
  <1>9. pcc \in Bytes /\ Len(pcc) = 55 + Len(cred)
    <2>1. pcc \in Bytes /\ Len(pcc) = Len(pc) + Len(cred)
      <3>1. pc \in Bytes
        BY <1>8
      <3> QED
        BY <3>1, Concatenated, Zenon
    <2> QED
      BY <1>8, <2>1
  <1>10. data = pcc \o key
    BY <1>1, <1>5, <1>6, <1>8, Associates
  <1>11. data \in Bytes /\ Len(data) = 55 + Len(cred) + Len(key)
    <2> HIDE DEF pcc
    <2>1. pcc \o key \in Bytes /\ Len(pcc \o key) = Len(pcc) + Len(key)
      BY <1>5, <1>9, Concatenated
    <2> QED
      BY <1>9, <1>10, <2>1
  <1>12. data[54] = hi /\ data[55] = lo
    <2> DEFINE r == cred \o key
    <2>1. r \in Bytes
      BY <1>1, <1>5, Concatenated
    <2> HIDE DEF r
    <2>2. \A k \in 1..Len(pc) : (pc \o r)[k] = pc[k]
      BY <1>8, <2>1, Concatenated
    <2>3. 54 \in 1..Len(pc) /\ 55 \in 1..Len(pc)
      BY <1>8
    <2>4. (pc \o r)[54] = pc[54] /\ (pc \o r)[55] = pc[55]
      BY <2>2, <2>3
    <2> QED
      BY <1>6, <1>8, <2>4 DEF r
  <1>13. CredentialLength(data) = Len(cred)
    BY <1>2, <1>12 DEF CredentialLength
  <1>14. SubSeq(data, 56, 55 + Len(cred)) = cred
    <2>1. SubSeq((pc \o cred) \o key, Len(pc) + 1, Len(pc) + Len(cred)) = cred
      BY <1>1, <1>5, <1>8, Between
    <2>2. Len(pc) + 1 = 56 /\ Len(pc) + Len(cred) = 55 + Len(cred)
      BY <1>1, <1>8
    <2> QED
      BY <1>10, <2>1, <2>2, Zenon
  <1>15. From(data, 55 + Len(cred)) = key
    <2> HIDE DEF pcc
    <2>1. From(pcc \o key, Len(pcc)) = key
      BY <1>5, <1>9, Split
    <2> QED
      BY <1>9, <1>10, <2>1, Zenon
  <1>16. Len(data) \in Number
    <2>1. Len(key) \in Nat
      BY <1>5 DEF Bytes
    <2>2. 55 + Len(cred) + Len(key) \in Number
      BY <1>5, <2>1, PlusShort
    <2> QED
      BY <1>11, <2>2, Zenon
  <1>17. ReadCredential(data) = cred /\ ReadCredentialKey(data) = KeyRead(x, y)
    BY <1>5, <1>13, <1>14, <1>15, Zenon DEF ReadCredential, ReadCredentialKey
  <1> QED
    BY <1>11, <1>16, <1>17, Zenon DEF data

(***************************************************************************)
(* The theorem                                                             *)
(***************************************************************************)

\* Whatever registration Register sends, the IdP gets out of it the credential id and
\* the key of the identity, and every number comes back at the width it was given.
THEOREM RegistrationIsReadable == ReadsBack
  <1>1. ASSUME NEW n \in Lengths, NEW major \in 0..7
        PROVE  ReadHead(cborUint(major, n)) = [major |-> major, value |-> n, rest |-> <<>>]
    <2>1. n \in Number
      BY PasskeyAssumption, SmallNumbers DEF PasskeyAssumption
    <2>2. cborUint(major, n) \in Bytes
      BY <2>1, HeadIsShort
    <2>3. <<>> \in Bytes /\ cborUint(major, n) \o <<>> = cborUint(major, n)
      BY <2>2, EndsThere
    <2>4. ReadHead(cborUint(major, n) \o <<>>) = [major |-> major, value |-> n, rest |-> <<>>]
      BY <2>1, <2>3, HeadReadsBack
    <2> QED
      BY <2>3, <2>4, Zenon
  <1>2. ASSUME NEW cred \in Credentials, NEW x \in Coordinates, NEW y \in Coordinates
        PROVE  LET data == ReadAttestation(attestationObject(authData(cred, x, y))) IN
               ReadCredential(data) = cred /\ ReadCredentialKey(data) = KeyRead(x, y)
    <2>1. cred \in Bytes /\ Len(cred) \in Short16
      <3>1. cred \in Bytes /\ Len(cred) \in Nat
        BY PasskeyAssumption, SMT DEF PasskeyAssumption, Bytes
      <3>2. Len(cred) < 65536
        BY PasskeyAssumption, SMT DEF PasskeyAssumption
      <3> QED
        BY <3>1, <3>2, SMT DEF Short16
    <2>2. x \in Bytes /\ y \in Bytes /\ Len(x) = 32 /\ Len(y) = 32
      BY PasskeyAssumption, SMT DEF PasskeyAssumption
    <2> DEFINE data == authData(cred, x, y)
    <2>3. /\ data \in Bytes /\ Len(data) \in Number
          /\ ReadCredential(data) = cred /\ ReadCredentialKey(data) = KeyRead(x, y)
      BY <2>1, <2>2, AuthDataReadsBack
    <2> HIDE DEF data
    <2>4. ReadAttestation(attestationObject(data)) = data
      BY <2>3, AttestationReadsBack
    <2> QED
      BY <2>3, <2>4, Zenon DEF data
  <1> QED
    BY <1>1, <1>2, Zenon DEF ReadsBack
=============================================================================
