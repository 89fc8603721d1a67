------------------------- MODULE DataPrograms_proofs -------------------------
(***************************************************************************)
(* What is proved of the programs that compute on data: of the beacon's    *)
(* way there and back, of the packets that are cut out of a text, and of   *)
(* the words in a tree.  Where a function is defined by recursion, the     *)
(* module Recursion says that there is one and what it is.                 *)
(***************************************************************************)
EXTENDS BeaconCodec, PacketDecoder, PrefixTree, Recursion, SequenceTheorems, FiniteSetTheorems, TLAPS

-----------------------------------------------------------------------------
(* The beacon. *)
SevenBytes == [1..7 -> 0..255]
Radices == {2, 4, 32, 36, 64}

(* The number that the bytes stand for. *)
Value(p) == p[1] + 256 * p[2] + 256 * 256 * p[3] + 256 * 256 * 256 * p[4]
              + 256 * 256 * 256 * 256 * p[5] + 256 * 256 * 256 * 256 * 256 * p[6]
              + 256 * 256 * 256 * 256 * 256 * 256 * p[7]
Capacity == 256 * 256 * 256 * 256 * 256 * 256 * 256

(* A quotient and its remainder. *)
LEMMA Division ==
    ASSUME NEW a \in Nat, NEW b \in Nat \ {0}
    PROVE  /\ a \div b \in Nat /\ a % b \in 0..(b - 1)
           /\ a % b = a - (a \div b) * b
    OBVIOUS

(* What stays in a byte, and what is carried. *)
LEMMA ByteOf ==
    ASSUME NEW x, x \in Nat
    PROVE  x \div 256 \in Nat /\ x % 256 \in 0..255 /\ x % 256 = x - 256 * (x \div 256)
    OBVIOUS

(* A digit and what is above it are determined by their number. *)
LEMMA OneDivision ==
    ASSUME NEW d \in Radices, NEW a \in Nat, NEW r \in 0..(d - 1), NEW b \in Nat, NEW s \in 0..(d - 1),
           a * d + r = b * d + s
    PROVE  a = b /\ r = s
    BY DEF Radices

(* A number's value is natural. *)
LEMMA ValueIsNat == ASSUME NEW p \in [1..7 -> Nat] PROVE Value(p) \in Nat
<1>1. p[1] \in Nat /\ p[2] \in Nat /\ p[3] \in Nat /\ p[4] \in Nat /\ p[5] \in Nat /\ p[6] \in Nat /\ p[7] \in Nat
    OBVIOUS
<1>. QED
    BY <1>1 DEF Value

(* So is that of bytes. *)
LEMMA BytesHaveValue == ASSUME NEW p \in SevenBytes PROVE p \in [1..7 -> Nat] /\ Value(p) \in Nat
    BY ValueIsNat DEF SevenBytes

(* A cleared number is zero. *)
LEMMA ClearedIsZero == Cleared \in SevenBytes /\ Value(Cleared) = 0
    BY DEF Cleared, SevenBytes, Value, Packed_Length

(* What is carried from byte to byte cancels out. *)
LEMMA Carried ==
    ASSUME NEW c \in [1..7 -> Int], NEW m \in [1..7 -> Int], NEW a \in [0..7 -> Int],
           \A i \in 1..7 : c[i] + 256 * a[i] = a[i - 1] + m[i]
    PROVE  Value(c) + Capacity * a[7] = Value(m) + a[0]
<1>1. /\ c[1] + 256 * a[1] = a[0] + m[1] /\ c[2] + 256 * a[2] = a[1] + m[2]
      /\ c[3] + 256 * a[3] = a[2] + m[3] /\ c[4] + 256 * a[4] = a[3] + m[4]
      /\ c[5] + 256 * a[5] = a[4] + m[5] /\ c[6] + 256 * a[6] = a[5] + m[6]
      /\ c[7] + 256 * a[7] = a[6] + m[7]
    OBVIOUS
<1>2. /\ c[1] \in Int /\ c[2] \in Int /\ c[3] \in Int /\ c[4] \in Int /\ c[5] \in Int /\ c[6] \in Int /\ c[7] \in Int
      /\ m[1] \in Int /\ m[2] \in Int /\ m[3] \in Int /\ m[4] \in Int /\ m[5] \in Int /\ m[6] \in Int /\ m[7] \in Int
      /\ a[0] \in Int /\ a[1] \in Int /\ a[2] \in Int /\ a[3] \in Int /\ a[4] \in Int /\ a[5] \in Int /\ a[6] \in Int
      /\ a[7] \in Int
    OBVIOUS
<1>. QED
    BY <1>1, <1>2, SMT DEF Value, Capacity

(* A multiple, byte by byte. *)
LEMMA Scaled ==
    ASSUME NEW p \in [1..7 -> Int], NEW m \in [1..7 -> Int], NEW k \in Radices,
           \A i \in 1..7 : m[i] = p[i] * k
    PROVE  Value(m) = Value(p) * k
<1>1. /\ p[1] \in Int /\ p[2] \in Int /\ p[3] \in Int /\ p[4] \in Int /\ p[5] \in Int /\ p[6] \in Int
      /\ p[7] \in Int
    OBVIOUS
<1>2. /\ m[1] = p[1] * k /\ m[2] = p[2] * k /\ m[3] = p[3] * k /\ m[4] = p[4] * k
      /\ m[5] = p[5] * k /\ m[6] = p[6] * k /\ m[7] = p[7] * k
    OBVIOUS
<1>. QED
    BY <1>1, <1>2, SMT DEF Value, Radices

(* What is carried as p * mul + term is computed, from byte to byte. *)
Accumulates(accum, p, mul, term) ==
    /\ accum \in [0..7 -> Nat] /\ accum[0] = term
    /\ \A i \in 1..7 : accum[i] = (accum[i - 1] + p[i] * mul) \div 256
    /\ P_MAC(p, mul, term) = [i \in 1..7 |-> (accum[i - 1] + p[i] * mul) % 256]

(* There is such a sequence of carries. *)
LEMMA Accumulation ==
    ASSUME NEW p \in SevenBytes, NEW mul \in Radices, NEW term \in Nat
    PROVE  \E accum : Accumulates(accum, p, mul, term)
<1>. DEFINE New(i, x) == (x + p[i] * mul) \div 256
            Rec(f) == f = [i \in 0..7 |-> IF i = 0 THEN term ELSE New(i, f[i - 1])]
            accum == CHOOSE f : Rec(f)
<1>1. ASSUME NEW i \in 1..7, NEW x \in Nat PROVE New(i, x) \in Nat
  <2>1. p[i] \in Nat /\ mul \in Nat
      BY DEF SevenBytes, Radices
  <2>2. x + p[i] * mul \in Nat
      BY <2>1
  <2>. QED
      BY <2>2, Division
<1>5. P_MAC(p, mul, term) = [i \in 1..7 |-> (accum[i - 1] + p[i] * mul) % 256]
    BY Zenon DEF P_MAC, Packed_Length
<1>7. \A i \in 1..7, x \in Nat : New(i, x) = (x + p[i] * mul) \div 256
    OBVIOUS
<1>. HIDE DEF New
<1>2. PICK step : step \in [1..7 -> [Nat -> Nat]] /\ \A i \in 1..7, x \in Nat : step[i][x] = New(i, x)
  <2>. DEFINE s == [i \in 1..7 |-> [x \in Nat |-> New(i, x)]]
  <2>1. s \in [1..7 -> [Nat -> Nat]]
      BY <1>1
  <2>2. \A i \in 1..7, x \in Nat : s[i][x] = New(i, x)
      OBVIOUS
  <2>. HIDE DEF s
  <2>. QED
      BY <2>1, <2>2
<1>3. PICK f : Climbs(f, Nat, term, 7, step)
    BY <1>2, Climbing
<1>4. Rec(f)
  <2>1. ASSUME NEW i \in 1..7 PROVE f[i] = New(i, f[i - 1])
    <3>1. f[i - 1] \in Nat /\ f[i] = step[i][f[i - 1]]
        BY <1>3 DEF Climbs
    <3>. QED
        BY <1>2, <3>1
  <2>. QED
      BY <1>3, <2>1 DEF Climbs
<1>. HIDE DEF Rec
<1>6. Rec(accum)
    BY <1>4
<1>. HIDE DEF accum
<1>8. /\ accum[0] = term /\ accum = [i \in 0..7 |-> accum[i]]
      /\ \A i \in 1..7 : accum[i] = New(i, accum[i - 1])
    BY <1>6 DEF Rec
<1>9. ClimbsIfTyped(accum, Nat, 7, step)
    BY <1>2, <1>8 DEF ClimbsIfTyped
<1>10. \A i \in 0..7 : accum[i] \in Nat
    BY <1>2, <1>9, ClimbingTyped
<1>. QED
    BY <1>5, <1>7, <1>8, <1>10 DEF Accumulates

(* P_MAC multiplies and adds, as long as the bytes can hold the result. *)
LEMMA Multiplied ==
    ASSUME NEW p \in SevenBytes, NEW mul \in Radices, NEW term \in Nat,
           Value(p) * mul + term < Capacity
    PROVE  P_MAC(p, mul, term) \in SevenBytes /\ Value(P_MAC(p, mul, term)) = Value(p) * mul + term
<1>0. PICK accum : Accumulates(accum, p, mul, term)
    BY Accumulation
<1>1. /\ accum \in [0..7 -> Nat] /\ accum[0] = term
      /\ \A i \in 1..7 : accum[i] = (accum[i - 1] + p[i] * mul) \div 256
      /\ P_MAC(p, mul, term) = [i \in 1..7 |-> (accum[i - 1] + p[i] * mul) % 256]
    BY <1>0 DEF Accumulates
<1>2. PICK m : m = [i \in 1..7 |-> p[i] * mul]
    OBVIOUS
<1>3. PICK c : c = P_MAC(p, mul, term)
    OBVIOUS
<1>4. m \in [1..7 -> Nat] /\ \A i \in 1..7 : m[i] = p[i] * mul
  <2>1. ASSUME NEW i \in 1..7 PROVE p[i] * mul \in Nat
    <3>1. p[i] \in Nat /\ mul \in Nat
        BY DEF SevenBytes, Radices
    <3>. QED
        BY <3>1
  <2>. QED
      BY <1>2, <2>1
<1>5. ASSUME NEW i \in 1..7
      PROVE  c[i] \in 0..255 /\ c[i] + 256 * accum[i] = accum[i - 1] + m[i]
  <2>1. PICK x \in Nat : x = accum[i - 1] + m[i]
      BY <1>1, <1>4
  <2>2. m[i] = p[i] * mul
      BY <1>4
  <2>4. c[i] = x % 256 /\ accum[i] = x \div 256
      BY <1>1, <1>3, <2>1, <2>2
  <2>3. x % 256 \in 0..255 /\ x % 256 = x - 256 * (x \div 256)
      BY ByteOf
  <2>. QED
      BY <1>1, <1>4, <2>1, <2>3, <2>4
<1>6. c = [i \in 1..7 |-> c[i]]
    BY <1>1, <1>3
<1>7. c \in SevenBytes
    BY <1>5, <1>6 DEF SevenBytes
<1>8. Value(m) = Value(p) * mul
    BY <1>4, Scaled DEF SevenBytes
<1>9. Value(c) + Capacity * accum[7] = Value(m) + accum[0]
  <2>1. c \in [1..7 -> Int]
      BY <1>7, SMTT(30) DEF SevenBytes
  <2>3. m \in [1..7 -> Int]
      BY <1>4
  <2>4. accum \in [0..7 -> Int]
      BY <1>1
  <2>2. \A i \in 1..7 : c[i] + 256 * accum[i] = accum[i - 1] + m[i]
      BY <1>5
  <2>. QED
      BY <2>1, <2>2, <2>3, <2>4, Carried
<1>10. Value(c) \in Nat /\ accum[7] \in Nat
    BY <1>1, <1>7, BytesHaveValue
<1>11. Value(p) * mul + term \in Nat
    BY BytesHaveValue DEF Radices
<1>12. accum[7] = 0
    BY <1>1, <1>8, <1>9, <1>10, <1>11 DEF Capacity
<1>. QED
    BY <1>1, <1>3, <1>7, <1>8, <1>9, <1>10, <1>12 DEF Capacity

(* A quotient and its remainder, by name. *)
LEMMA DivisionOf ==
    ASSUME NEW d \in Radices, NEW x \in Nat
    PROVE  \E q \in Nat : \E r \in 0..(d - 1) : x \div d = q /\ x % d = r /\ x = q * d + r
    BY DEF Radices

(* A digit of the quotient is a byte if the remainder before it was one. *)
LEMMA ByteDigit ==
    ASSUME NEW d \in Radices, NEW r \in 0..(d - 1), NEW byte \in 0..255
    PROVE  (256 * r + byte) \div d \in 0..255
    BY DEF Radices

(* The remainders of a division exist. *)
LEMMA Remaindering ==
    ASSUME NEW p \in SevenBytes, NEW divisor \in Radices
    PROVE  \E remainder \in [0..7 -> 0..(divisor - 1)] :
              /\ remainder[7] = 0
              /\ \A i \in 0..6 : remainder[i] = (256 * remainder[i + 1] + p[i + 1]) % divisor
              /\ P_DIV(p, divisor) = [remainder |-> remainder[0],
                                      c |-> [i \in 1..7 |-> (256 * remainder[i] + p[i]) \div divisor]]
<1>. DEFINE S == 0..(divisor - 1)
            New(i, x) == (256 * x + p[i + 1]) % divisor
            Rec(f) == f = [i \in 0..7 |-> IF i = 7 THEN 0 ELSE New(i, f[i + 1])]
            remainder == CHOOSE f : Rec(f)
<1>1. ASSUME NEW i \in 0..6, NEW x \in S PROVE New(i, x) \in S
  <2>1. i + 1 \in 1..7
      OBVIOUS
  <2>2. p[i + 1] \in 0..255 /\ x \in Nat
      BY <2>1 DEF SevenBytes, Radices
  <2>3. 256 * x + p[i + 1] \in Nat
      BY <2>2
  <2>. QED
      BY <2>3, DivisionOf
<1>2. P_DIV(p, divisor) = [remainder |-> remainder[0],
                           c |-> [i \in 1..7 |-> (256 * remainder[i] + p[i]) \div divisor]]
    BY Zenon DEF P_DIV, Packed_Length
<1>3. \A i \in 0..6, x \in S : New(i, x) = (256 * x + p[i + 1]) % divisor
    OBVIOUS
<1>4. 0 \in S
    BY DEF Radices
<1>. HIDE DEF New, S
<1>5. PICK step : step \in [0..(7 - 1) -> [S -> S]] /\ \A i \in 0..6, x \in S : step[i][x] = New(i, x)
  <2>. DEFINE s == [i \in 0..6 |-> [x \in S |-> New(i, x)]]
  <2>1. s \in [0..(7 - 1) -> [S -> S]]
      BY <1>1
  <2>2. \A i \in 0..6, x \in S : s[i][x] = New(i, x)
      OBVIOUS
  <2>. HIDE DEF s
  <2>. QED
      BY <2>1, <2>2
<1>6. PICK f : Descends(f, S, 0, 7, step)
    BY <1>4, <1>5, Descending
<1>7. Rec(f)
  <2>1. ASSUME NEW i \in 0..6 PROVE f[i] = New(i, f[i + 1])
    <3>1. f[i + 1] \in S /\ f[i] = step[i][f[i + 1]]
        BY <1>6 DEF Descends
    <3>. QED
        BY <1>5, <3>1
  <2>. QED
      BY <1>6, <2>1 DEF Descends
<1>. HIDE DEF Rec
<1>8. Rec(remainder)
    BY <1>7
<1>. HIDE DEF remainder
<1>9. /\ remainder[7] = 0 /\ remainder = [i \in 0..7 |-> remainder[i]]
      /\ \A i \in 0..6 : remainder[i] = New(i, remainder[i + 1])
    BY <1>8 DEF Rec
<1>10. DescendsIfTyped(remainder, S, 7, step)
    BY <1>4, <1>5, <1>9 DEF DescendsIfTyped
<1>11. \A i \in 0..7 : remainder[i] \in S
    BY <1>5, <1>10, DescendingTyped
<1>12. remainder \in [0..7 -> S]
    BY <1>9, <1>11
<1>13. \A i \in 0..6 : remainder[i] = (256 * remainder[i + 1] + p[i + 1]) % divisor
  <2>. TAKE i \in 0..6
  <2>1. remainder[i + 1] \in S
      BY <1>11
  <2>. QED
      BY <1>3, <1>9, <2>1
<1>. QED
    BY <1>2, <1>9, <1>12, <1>13 DEF S

(* P_DIV divides: the quotient, times the divisor, and the remainder make  *)
(* the number.                                                             *)
LEMMA Divided ==
    ASSUME NEW p \in SevenBytes, NEW divisor \in Radices
    PROVE  LET d == P_DIV(p, divisor) IN
           /\ d.c \in SevenBytes /\ d.remainder \in 0..(divisor - 1)
           /\ Value(p) = Value(d.c) * divisor + d.remainder
<1>1. PICK r \in [0..7 -> 0..(divisor - 1)] :
         /\ r[7] = 0
         /\ \A i \in 0..6 : r[i] = (256 * r[i + 1] + p[i + 1]) % divisor
         /\ P_DIV(p, divisor) = [remainder |-> r[0], c |-> [i \in 1..7 |-> (256 * r[i] + p[i]) \div divisor]]
    BY Remaindering
<1>2. PICK c : c = P_DIV(p, divisor).c
    OBVIOUS
<1>3. c = [i \in 1..7 |-> c[i]]
    BY <1>1, <1>2
<1>4. ASSUME NEW i \in 1..7
      PROVE  c[i] \in 0..255 /\ r[i] \in Nat /\ r[i - 1] \in Nat /\ p[i] \in Nat
             /\ c[i] * divisor + r[i - 1] = 256 * r[i] + p[i]
  <2>1. i - 1 \in 0..6 /\ (i - 1) + 1 = i /\ i \in 0..7 /\ i - 1 \in 0..7
      OBVIOUS
  <2>2. p[i] \in 0..255 /\ r[i] \in 0..(divisor - 1) /\ divisor \in Nat /\ r[i - 1] \in 0..(divisor - 1)
      BY <2>1 DEF SevenBytes, Radices
  <2>3. PICK x \in Nat : x = 256 * r[i] + p[i]
      BY <2>2
  <2>4. c[i] = x \div divisor /\ r[i - 1] = x % divisor
    <3>1. c[i] = (256 * r[i] + p[i]) \div divisor
        BY <1>1, <1>2
    <3>2. r[i - 1] = (256 * r[i] + p[i]) % divisor
        BY <1>1, <2>1
    <3>. QED
        BY <2>3, <3>1, <3>2
  <2>5. x \div divisor \in 0..255
      BY <2>2, <2>3, ByteDigit
  <2>6. PICK q \in Nat : \E rem \in 0..(divisor - 1) : x \div divisor = q /\ x % divisor = rem /\ x = q * divisor + rem
      BY DivisionOf
  <2>7. c[i] = q /\ q \in 0..255 /\ q * divisor + r[i - 1] = x
      BY <2>4, <2>5, <2>6
  <2>. QED
      BY <2>2, <2>3, <2>7
<1>5. c \in SevenBytes
    BY <1>3, <1>4 DEF SevenBytes
<1>6. PICK m : m \in [1..7 -> Nat] /\ \A i \in 1..7 : m[i] = c[i] * divisor
  <2>. DEFINE n == [i \in 1..7 |-> c[i] * divisor]
  <2>1. ASSUME NEW i \in 1..7 PROVE n[i] \in Nat
    <3>1. PICK y \in Nat : y = c[i]
        BY <1>4
    <3>2. y * divisor \in Nat
        BY DEF Radices
    <3>. QED
        BY <3>1, <3>2
  <2>2. n \in [1..7 -> Nat] /\ \A i \in 1..7 : n[i] = c[i] * divisor
      BY <2>1
  <2>. HIDE DEF n
  <2>. QED
      BY <2>2
<1>7. Value(m) = Value(c) * divisor
  <2>1. c \in [1..7 -> Int] /\ m \in [1..7 -> Int]
      BY <1>5, <1>6, SMTT(30) DEF SevenBytes
  <2>. QED
      BY <1>6, <2>1, Scaled
<1>8. Value(p) + Capacity * r[7] = Value(m) + r[0]
  <2>1. p \in [1..7 -> Int] /\ m \in [1..7 -> Int] /\ r \in [0..7 -> Int]
      BY <1>6 DEF SevenBytes, Radices
  <2>2. ASSUME NEW i \in 1..7 PROVE p[i] + 256 * r[i] = r[i - 1] + m[i]
    <3>1. m[i] \in Nat /\ c[i] * divisor + r[i - 1] = 256 * r[i] + p[i] /\ m[i] = c[i] * divisor
        BY <1>4, <1>6
    <3>. QED
        BY <1>4, <3>1
  <2>. QED
      BY <2>1, <2>2, Carried
<1>9. r[0] \in 0..(divisor - 1) /\ P_DIV(p, divisor).remainder = r[0]
    BY <1>1
<1>10. Value(p) = Value(c) * divisor + r[0]
  <2>1. Value(p) \in Nat /\ Value(m) \in Nat /\ r[7] = 0 /\ r[0] \in Int
      BY <1>1, <1>6, BytesHaveValue, ValueIsNat DEF Radices
  <2>2. Value(p) = Value(m) + r[0]
      BY <1>8, <2>1 DEF Capacity
  <2>. QED
      BY <1>7, <2>2
<1>. QED
    BY <1>2, <1>5, <1>9, <1>10

(* The twelve fields, as far as the proofs use them. *)
LEMMA Fields ==
    /\ Num_Fields = 12
    /\ \A i \in 1..12 : My_Beacon_Fields[i].num_values \in {2, 4, 32, 64} /\ My_Beacon_Fields[i].range \in Nat
<1>1. Num_Fields = 12
    BY DEF Num_Fields, My_Beacon_Fields
<1>2. \A i \in 1..12 : My_Beacon_Fields[i].num_values \in {2, 4, 32, 64} /\ My_Beacon_Fields[i].range \in Nat
    BY DEF My_Beacon_Fields, Field
<1>. QED
    BY <1>1, <1>2

(* How many numbers the first i fields, or the last i letters, can spell. *)
Room == [i \in 0..12 |->
    CASE i = 0 -> 1
      [] i = 1 -> 64
      [] i = 2 -> 64 * 64
      [] i = 3 -> 64 * 64 * 32
      [] i = 4 -> 64 * 64 * 32 * 32
      [] i = 5 -> 64 * 64 * 32 * 32 * 64
      [] i = 6 -> 64 * 64 * 32 * 32 * 64 * 64
      [] i = 7 -> 64 * 64 * 32 * 32 * 64 * 64 * 64
      [] i = 8 -> 64 * 64 * 32 * 32 * 64 * 64 * 64 * 32
      [] i = 9 -> 64 * 64 * 32 * 32 * 64 * 64 * 64 * 32 * 4
      [] i = 10 -> 64 * 64 * 32 * 32 * 64 * 64 * 64 * 32 * 4 * 2
      [] i = 11 -> 64 * 64 * 32 * 32 * 64 * 64 * 64 * 32 * 4 * 2 * 2
      [] i = 12 -> 64 * 64 * 32 * 32 * 64 * 64 * 64 * 32 * 4 * 2 * 2 * 2]

(* Each field multiplies the room by its number of values, and seven bytes *)
(* are room enough for all.                                                *)
LEMMA RoomGrows ==
    /\ Room[0] = 1
    /\ \A i \in 1..12 : Room[i] \in Nat /\ Room[i] = Room[i - 1] * My_Beacon_Fields[i].num_values /\ Room[i] < Capacity
<1>1. Room[0] = 1
    BY DEF Room
<1>2. ASSUME NEW i \in 1..12
      PROVE  Room[i] \in Nat /\ Room[i] = Room[i - 1] * My_Beacon_Fields[i].num_values /\ Room[i] < Capacity
  <2>1. CASE i = 1
    <3>1. i - 1 = 0 /\ My_Beacon_Fields[i].num_values = 64
        BY <2>1 DEF My_Beacon_Fields, Field
    <3>2. Room[0] = 1 /\ Room[1] = 64
        BY DEF Room
    <3>. QED
        BY <2>1, <3>1, <3>2, SMT DEF Capacity
  <2>2. CASE i = 2
    <3>1. i - 1 = 1 /\ My_Beacon_Fields[i].num_values = 64
        BY <2>2 DEF My_Beacon_Fields, Field
    <3>2. Room[1] = 64 /\ Room[2] = 64 * 64
        BY DEF Room
    <3>. QED
        BY <2>2, <3>1, <3>2, SMT DEF Capacity
  <2>3. CASE i = 3
    <3>1. i - 1 = 2 /\ My_Beacon_Fields[i].num_values = 32
        BY <2>3 DEF My_Beacon_Fields, Field
    <3>2. Room[2] = 64 * 64 /\ Room[3] = 64 * 64 * 32
        BY DEF Room
    <3>. QED
        BY <2>3, <3>1, <3>2, SMT DEF Capacity
  <2>4. CASE i = 4
    <3>1. i - 1 = 3 /\ My_Beacon_Fields[i].num_values = 32
        BY <2>4 DEF My_Beacon_Fields, Field
    <3>2. Room[3] = 64 * 64 * 32 /\ Room[4] = 64 * 64 * 32 * 32
        BY DEF Room
    <3>. QED
        BY <2>4, <3>1, <3>2, SMT DEF Capacity
  <2>5. CASE i = 5
    <3>1. i - 1 = 4 /\ My_Beacon_Fields[i].num_values = 64
        BY <2>5 DEF My_Beacon_Fields, Field
    <3>2. Room[4] = 64 * 64 * 32 * 32 /\ Room[5] = 64 * 64 * 32 * 32 * 64
        BY DEF Room
    <3>. QED
        BY <2>5, <3>1, <3>2, SMT DEF Capacity
  <2>6. CASE i = 6
    <3>1. i - 1 = 5 /\ My_Beacon_Fields[i].num_values = 64
        BY <2>6 DEF My_Beacon_Fields, Field
    <3>2. Room[5] = 64 * 64 * 32 * 32 * 64 /\ Room[6] = 64 * 64 * 32 * 32 * 64 * 64
        BY DEF Room
    <3>. QED
        BY <2>6, <3>1, <3>2, SMT DEF Capacity
  <2>7. CASE i = 7
    <3>1. i - 1 = 6 /\ My_Beacon_Fields[i].num_values = 64
        BY <2>7 DEF My_Beacon_Fields, Field
    <3>2. Room[6] = 64 * 64 * 32 * 32 * 64 * 64 /\ Room[7] = 64 * 64 * 32 * 32 * 64 * 64 * 64
        BY DEF Room
    <3>. QED
        BY <2>7, <3>1, <3>2, SMT DEF Capacity
  <2>8. CASE i = 8
    <3>1. i - 1 = 7 /\ My_Beacon_Fields[i].num_values = 32
        BY <2>8 DEF My_Beacon_Fields, Field
    <3>2. Room[7] = 64 * 64 * 32 * 32 * 64 * 64 * 64 /\ Room[8] = 64 * 64 * 32 * 32 * 64 * 64 * 64 * 32
        BY DEF Room
    <3>. QED
        BY <2>8, <3>1, <3>2, SMT DEF Capacity
  <2>9. CASE i = 9
    <3>1. i - 1 = 8 /\ My_Beacon_Fields[i].num_values = 4
        BY <2>9 DEF My_Beacon_Fields, Field
    <3>2. Room[8] = 64 * 64 * 32 * 32 * 64 * 64 * 64 * 32 /\ Room[9] = 64 * 64 * 32 * 32 * 64 * 64 * 64 * 32 * 4
        BY DEF Room
    <3>. QED
        BY <2>9, <3>1, <3>2, SMT DEF Capacity
  <2>10. CASE i = 10
    <3>1. i - 1 = 9 /\ My_Beacon_Fields[i].num_values = 2
        BY <2>10 DEF My_Beacon_Fields, Field
    <3>2. Room[9] = 64 * 64 * 32 * 32 * 64 * 64 * 64 * 32 * 4 /\ Room[10] = 64 * 64 * 32 * 32 * 64 * 64 * 64 * 32 * 4 * 2
        BY DEF Room
    <3>. QED
        BY <2>10, <3>1, <3>2, SMT DEF Capacity
  <2>11. CASE i = 11
    <3>1. i - 1 = 10 /\ My_Beacon_Fields[i].num_values = 2
        BY <2>11 DEF My_Beacon_Fields, Field
    <3>2. Room[10] = 64 * 64 * 32 * 32 * 64 * 64 * 64 * 32 * 4 * 2 /\ Room[11] = 64 * 64 * 32 * 32 * 64 * 64 * 64 * 32 * 4 * 2 * 2
        BY DEF Room
    <3>. QED
        BY <2>11, <3>1, <3>2, SMT DEF Capacity
  <2>12. CASE i = 12
    <3>1. i - 1 = 11 /\ My_Beacon_Fields[i].num_values = 2
        BY <2>12 DEF My_Beacon_Fields, Field
    <3>2. Room[11] = 64 * 64 * 32 * 32 * 64 * 64 * 64 * 32 * 4 * 2 * 2 /\ Room[12] = 64 * 64 * 32 * 32 * 64 * 64 * 64 * 32 * 4 * 2 * 2 * 2
        BY DEF Room
    <3>. QED
        BY <2>12, <3>1, <3>2, SMT DEF Capacity
  <2>. QED
      BY <2>1, <2>2, <2>3, <2>4, <2>5, <2>6, <2>7, <2>8, <2>9, <2>10, <2>11, <2>12
<1>. QED
    BY <1>1, <1>2

(* P_MAC returns bytes, even when they overflow. *)
LEMMA MultipliedIsBytes ==
    ASSUME NEW p \in SevenBytes, NEW mul \in Radices, NEW term \in Nat
    PROVE  P_MAC(p, mul, term) \in SevenBytes
<1>0. PICK accum : Accumulates(accum, p, mul, term)
    BY Accumulation
<1>1. accum \in [0..7 -> Nat] /\ P_MAC(p, mul, term) = [i \in 1..7 |-> (accum[i - 1] + p[i] * mul) % 256]
    BY <1>0 DEF Accumulates
<1>. DEFINE sum(i) == accum[i - 1] + p[i] * mul
<1>2. ASSUME NEW i \in 1..7 PROVE sum(i) % 256 \in 0..255
  <2>1. accum[i - 1] \in Nat
      BY <1>1
  <2>3. p[i] \in Nat /\ mul \in Nat
      BY DEF SevenBytes, Radices
  <2>2. sum(i) \in Nat
      BY <2>1, <2>3
  <2>. HIDE DEF sum
  <2>. QED
      BY <2>2, ByteOf
<1>3. P_MAC(p, mul, term) = [i \in 1..7 |-> sum(i) % 256]
    BY <1>1
<1>. HIDE DEF sum
<1>. QED
    BY <1>2, <1>3 DEF SevenBytes

(* The fields' radices are among those that the lemmas are about. *)
LEMMA Radix == \A i \in 1..12 : My_Beacon_Fields[i].num_values \in Radices
    BY Fields DEF Radices

(* The numbers that pack goes through. *)
LEMMA Packing ==
    ASSUME NEW b, \A i \in 1..12 : Digit(My_Beacon_Fields[i], b[i]) \in Nat
    PROVE  \E packed \in [0..12 -> SevenBytes] :
              /\ packed[0] = Cleared /\ pack(b) = packed[12]
              /\ \A i \in 1..12 : packed[i] = P_MAC(packed[i - 1], My_Beacon_Fields[i].num_values,
                                                    Digit(My_Beacon_Fields[i], b[i]))
<1>. DEFINE New(i, x) == P_MAC(x, My_Beacon_Fields[i].num_values, Digit(My_Beacon_Fields[i], b[i]))
            Rec(f) == f = [i \in 0..12 |-> IF i = 0 THEN Cleared ELSE New(i, f[i - 1])]
            packed == CHOOSE f : Rec(f)
<1>1. pack(b) = packed[12]
    BY Fields, Zenon DEF pack
<1>2. ASSUME NEW i \in 1..12, NEW x \in SevenBytes PROVE New(i, x) \in SevenBytes
    BY Radix, MultipliedIsBytes
<1>3. \A i \in 1..12, x \in SevenBytes :
          New(i, x) = P_MAC(x, My_Beacon_Fields[i].num_values, Digit(My_Beacon_Fields[i], b[i]))
    OBVIOUS
<1>. HIDE DEF New
<1>4. PICK step : step \in [1..12 -> [SevenBytes -> SevenBytes]] /\ \A i \in 1..12, x \in SevenBytes : step[i][x] = New(i, x)
  <2>. DEFINE s == [i \in 1..12 |-> [x \in SevenBytes |-> New(i, x)]]
  <2>1. s \in [1..12 -> [SevenBytes -> SevenBytes]] /\ \A i \in 1..12, x \in SevenBytes : s[i][x] = New(i, x)
      BY <1>2
  <2>. HIDE DEF s
  <2>. QED
      BY <2>1
<1>5. PICK f : Climbs(f, SevenBytes, Cleared, 12, step)
    BY <1>4, ClearedIsZero, Climbing
<1>6. Rec(f)
  <2>1. ASSUME NEW i \in 1..12 PROVE f[i] = New(i, f[i - 1])
    <3>1. f[i - 1] \in SevenBytes /\ f[i] = step[i][f[i - 1]]
        BY <1>5 DEF Climbs
    <3>. QED
        BY <1>4, <3>1
  <2>. QED
      BY <1>5, <2>1 DEF Climbs
<1>. HIDE DEF Rec
<1>7. Rec(packed)
    BY <1>6
<1>. HIDE DEF packed
<1>8. /\ packed[0] = Cleared /\ packed = [i \in 0..12 |-> packed[i]]
      /\ \A i \in 1..12 : packed[i] = New(i, packed[i - 1])
    BY <1>7 DEF Rec
<1>9. ClimbsIfTyped(packed, SevenBytes, 12, step)
    BY <1>4, <1>8, ClearedIsZero DEF ClimbsIfTyped
<1>10. \A i \in 0..12 : packed[i] \in SevenBytes
    BY <1>4, <1>9, ClimbingTyped
<1>11. packed \in [0..12 -> SevenBytes]
    BY <1>8, <1>10
<1>. QED
    BY <1>1, <1>3, <1>8, <1>10, <1>11

NumValues(i) == My_Beacon_Fields[i].num_values
DigitOf(b, i) == Digit(My_Beacon_Fields[i], b[i])

(* v is the numbers that the fields of b amount to, one more field each. *)
AmountTo(v, b) ==
    /\ v \in [0..12 -> Nat] /\ v[0] = 0
    /\ \A i \in 1..12 : DigitOf(b, i) \in 0..(NumValues(i) - 1) /\ v[i] = v[i - 1] * NumValues(i) + DigitOf(b, i)

(* One more digit stays within one more field's room. *)
LEMMA OneMore ==
    ASSUME NEW d \in Radices, NEW room \in Nat, NEW v \in Nat, NEW digit \in 0..(d - 1), v < room
    PROVE  v * d + digit \in Nat /\ v * d + digit < room * d
    BY DEF Radices

(* pack returns the number that the fields amount to, if each fits its     *)
(* digits.                                                                 *)
LEMMA Packed ==
    ASSUME NEW b, \A i \in 1..12 : DigitOf(b, i) \in 0..(NumValues(i) - 1)
    PROVE  pack(b) \in SevenBytes /\ \E v : AmountTo(v, b) /\ v[12] = Value(pack(b)) /\ v[12] < Room[12]
<1>1. \A i \in 1..12 : NumValues(i) \in Radices /\ DigitOf(b, i) \in Nat
  <2>1. \A i \in 1..12 : NumValues(i) \in Radices
      BY Radix DEF NumValues
  <2>2. \A d \in Radices : d \in Nat
      BY DEF Radices
  <2>. QED
      BY <2>1, <2>2
<1>2. PICK packed : /\ packed \in [0..12 -> SevenBytes] /\ packed[0] = Cleared /\ pack(b) = packed[12]
                    /\ \A i \in 1..12 : packed[i] = P_MAC(packed[i - 1], NumValues(i), DigitOf(b, i))
    BY <1>1, Packing DEF NumValues, DigitOf
<1>. DEFINE v == [i \in 0..12 |-> Value(packed[i])]
            Small == {i \in 0..12 : v[i] < Room[i]}
<1>3. v \in [0..12 -> Nat]
    BY <1>2, BytesHaveValue
<1>4. 0 \in Small /\ v[0] = 0
    BY <1>2, ClearedIsZero, RoomGrows
<1>5. ASSUME NEW i \in 1..12, i - 1 \in Small
      PROVE  i \in Small /\ v[i] = v[i - 1] * NumValues(i) + DigitOf(b, i)
  <2>1. PICK p \in SevenBytes : p = packed[i - 1]
      BY <1>2
  <2>2. PICK d \in Radices : d = NumValues(i)
      BY <1>1
  <2>3. PICK digit \in 0..(d - 1) : digit = DigitOf(b, i)
      BY <2>2
  <2>4. PICK room \in Nat : room = Room[i - 1]
      BY <1>5, RoomGrows
  <2>5. Value(p) \in Nat /\ Value(p) < room
      BY <1>5, <2>1, <2>4, BytesHaveValue
  <2>6. Value(p) * d + digit \in Nat /\ Value(p) * d + digit < room * d
      BY <2>5, OneMore
  <2>7. room * d = Room[i] /\ Room[i] < Capacity /\ Room[i] \in Nat
      BY <2>2, <2>4, RoomGrows DEF NumValues
  <2>8. Value(p) * d + digit < Capacity
      BY <2>6, <2>7 DEF Capacity
  <2>9. digit \in Nat
      BY DEF Radices
  <2>10. Value(P_MAC(p, d, digit)) = Value(p) * d + digit
      BY <2>8, <2>9, Multiplied
  <2>11. packed[i] = P_MAC(p, d, digit)
      BY <1>2, <2>1, <2>2, <2>3
  <2>12. v[i] = Value(p) * d + digit /\ v[i - 1] = Value(p)
      BY <2>1, <2>10, <2>11
  <2>. HIDE DEF v
  <2>. QED
      BY <2>2, <2>3, <2>6, <2>7, <2>12
<1>6. PassesUp(Small, 0, 12)
  <2>. SUFFICES ASSUME NEW i \in 0..(12 - 1), i \in Small PROVE i + 1 \in Small
      BY DEF PassesUp
  <2>1. i + 1 \in 1..12 /\ (i + 1) - 1 = i
      OBVIOUS
  <2>. HIDE DEF Small, v
  <2>. QED
      BY <1>5, <2>1
<1>7. 0..12 \subseteq Small
  <2>. HIDE DEF Small
  <2>. QED
      BY <1>4, <1>6, UpThrough
<1>8. \A i \in 1..12 : v[i] = v[i - 1] * NumValues(i) + DigitOf(b, i)
  <2>. TAKE i \in 1..12
  <2>1. i - 1 \in Small
      BY <1>7
  <2>. HIDE DEF v, Small
  <2>. QED
      BY <1>5, <2>1
<1>9. pack(b) \in SevenBytes /\ v[12] = Value(pack(b))
    BY <1>2
<1>11. v[12] < Room[12]
    BY <1>7
<1>. HIDE DEF v
<1>10. AmountTo(v, b)
    BY <1>3, <1>4, <1>8 DEF AmountTo
<1>. QED
    BY <1>9, <1>10, <1>11

(* What is left as the fields are taken out, last first. *)
LeftOf(left, p) ==
    /\ left \in [0..12 -> SevenBytes] /\ left[12] = p
    /\ \A i \in 0..11 : left[i] = P_DIV(left[i + 1], NumValues(i + 1)).c
    /\ unpack(p) = [i \in 1..12 |-> P_DIV(left[i], NumValues(i)).remainder]

(* What P_DIV leaves are bytes. *)
LEMMA QuotientIsBytes == ASSUME NEW p \in SevenBytes, NEW d \in Radices PROVE P_DIV(p, d).c \in SevenBytes
    BY Divided

(* There is such a sequence of quotients. *)
LEMMA Unpacking ==
    ASSUME NEW p \in SevenBytes
    PROVE  \E left : LeftOf(left, p)
<1>. DEFINE New(i, x) == P_DIV(x, My_Beacon_Fields[i + 1].num_values).c
            Rec(f) == f = [i \in 0..Num_Fields |-> IF i = Num_Fields THEN p ELSE New(i, f[i + 1])]
            left == CHOOSE f : Rec(f)
<1>0. Num_Fields = 12
    BY Fields
<1>1. unpack(p) = [i \in 1..Num_Fields |-> P_DIV(left[i], My_Beacon_Fields[i].num_values).remainder]
    BY Zenon DEF unpack
<1>2. ASSUME NEW i \in 0..11, NEW x \in SevenBytes PROVE New(i, x) \in SevenBytes
  <2>1. i + 1 \in 1..12
      OBVIOUS
  <2>2. My_Beacon_Fields[i + 1].num_values \in Radices
      BY <2>1, Radix
  <2>. QED
      BY <2>2, QuotientIsBytes
<1>3. \A i \in 0..11, x \in SevenBytes : New(i, x) = P_DIV(x, NumValues(i + 1)).c
    BY DEF NumValues
<1>. HIDE DEF New
<1>4. PICK step : step \in [0..(12 - 1) -> [SevenBytes -> SevenBytes]] /\ \A i \in 0..11, x \in SevenBytes : step[i][x] = New(i, x)
  <2>. DEFINE s == [i \in 0..11 |-> [x \in SevenBytes |-> New(i, x)]]
  <2>1. s \in [0..(12 - 1) -> [SevenBytes -> SevenBytes]]
      BY <1>2
  <2>2. \A i \in 0..11, x \in SevenBytes : s[i][x] = New(i, x)
      OBVIOUS
  <2>. HIDE DEF s
  <2>. QED
      BY <2>1, <2>2
<1>5. PICK f : Descends(f, SevenBytes, p, 12, step)
    BY <1>4, Descending
<1>6. Rec(f)
  <2>1. ASSUME NEW i \in 0..11 PROVE f[i] = New(i, f[i + 1])
    <3>1. f[i + 1] \in SevenBytes /\ f[i] = step[i][f[i + 1]]
        BY <1>5 DEF Descends
    <3>. QED
        BY <1>4, <3>1
  <2>. QED
      BY <1>0, <1>5, <2>1 DEF Descends
<1>. HIDE DEF Rec
<1>7. Rec(left)
    BY <1>6
<1>. HIDE DEF left
<1>8. /\ left[12] = p /\ left = [i \in 0..12 |-> left[i]]
      /\ \A i \in 0..11 : left[i] = New(i, left[i + 1])
    BY <1>0, <1>7 DEF Rec
<1>9. DescendsIfTyped(left, SevenBytes, 12, step)
  <2>1. ASSUME NEW i \in 0..(12 - 1), left[i + 1] \in SevenBytes PROVE left[i] = step[i][left[i + 1]]
    <3>1. i \in 0..11
        OBVIOUS
    <3>. QED
        BY <1>4, <1>8, <2>1, <3>1
  <2>. QED
      BY <1>8, <2>1 DEF DescendsIfTyped
<1>10. \A i \in 0..12 : left[i] \in SevenBytes
    BY <1>4, <1>9, DescendingTyped
<1>11. left \in [0..12 -> SevenBytes]
    BY <1>8, <1>10
<1>12. \A i \in 0..11 : left[i] = P_DIV(left[i + 1], NumValues(i + 1)).c
  <2>. TAKE i \in 0..11
  <2>1. left[i + 1] \in SevenBytes
      BY <1>10
  <2>. QED
      BY <1>3, <1>8, <2>1
<1>13. unpack(p) = [i \in 1..12 |-> P_DIV(left[i], NumValues(i)).remainder]
    BY <1>0, <1>1 DEF NumValues
<1>. QED
    BY <1>8, <1>11, <1>12, <1>13 DEF LeftOf

(* Whoever has a beacon's number has its digits. *)
LEMMA Unpacked ==
    ASSUME NEW p \in SevenBytes, NEW b, NEW v, AmountTo(v, b), v[12] = Value(p)
    PROVE  \A i \in 1..12 : unpack(p)[i] = DigitOf(b, i)
<1>1. PICK left : LeftOf(left, p)
    BY Unpacking
<1>2. /\ left \in [0..12 -> SevenBytes] /\ left[12] = p
      /\ \A i \in 0..11 : left[i] = P_DIV(left[i + 1], NumValues(i + 1)).c
      /\ unpack(p) = [i \in 1..12 |-> P_DIV(left[i], NumValues(i)).remainder]
    BY <1>1 DEF LeftOf
<1>3. /\ v \in [0..12 -> Nat]
      /\ \A i \in 1..12 : DigitOf(b, i) \in 0..(NumValues(i) - 1) /\ v[i] = v[i - 1] * NumValues(i) + DigitOf(b, i)
    BY DEF AmountTo
<1>. DEFINE Same == {i \in 0..12 : Value(left[i]) = v[i]}
<1>4. ASSUME NEW i \in 1..12, i \in Same
      PROVE  i - 1 \in Same /\ P_DIV(left[i], NumValues(i)).remainder = DigitOf(b, i)
  <2>1. PICK l \in SevenBytes : l = left[i] /\ Value(l) = v[i]
      BY <1>2, <1>4
  <2>2. PICK d \in Radices : d = NumValues(i)
      BY Radix DEF NumValues
  <2>3. PICK r \in 0..(d - 1) : r = P_DIV(l, d).remainder
      BY Divided
  <2>4. PICK c \in SevenBytes : c = P_DIV(l, d).c
      BY Divided
  <2>5. Value(l) = Value(c) * d + r
      BY <2>3, <2>4, Divided
  <2>6. PICK w \in Nat : w = v[i - 1]
      BY <1>3
  <2>7. PICK digit \in 0..(d - 1) : digit = DigitOf(b, i)
      BY <1>3, <2>2
  <2>8. v[i] = w * d + digit
      BY <1>3, <2>2, <2>6, <2>7
  <2>9. Value(c) * d + r = w * d + digit
      BY <2>1, <2>5, <2>8
  <2>10. Value(c) \in Nat
      BY BytesHaveValue
  <2>11. Value(c) = w /\ r = digit
      BY <2>9, <2>10, OneDivision
  <2>12. left[i - 1] = c
    <3>1. i - 1 \in 0..11 /\ (i - 1) + 1 = i
        OBVIOUS
    <3>. QED
        BY <1>2, <2>1, <2>2, <2>4, <3>1
  <2>. QED
      BY <2>1, <2>2, <2>3, <2>6, <2>7, <2>11, <2>12
<1>5. PassesDown(Same, 0, 12)
  <2>. SUFFICES ASSUME NEW i \in (0 + 1)..12, i \in Same PROVE i - 1 \in Same
      BY DEF PassesDown
  <2>1. i \in 1..12
      OBVIOUS
  <2>. HIDE DEF Same
  <2>. QED
      BY <1>4, <2>1
<1>6. 12 \in Same
    BY <1>2
<1>7. 0..12 \subseteq Same
  <2>. HIDE DEF Same
  <2>. QED
      BY <1>5, <1>6, DownThrough
<1>. HIDE DEF Same
<1>8. ASSUME NEW i \in 1..12 PROVE unpack(p)[i] = DigitOf(b, i)
  <2>1. i \in Same
      BY <1>7
  <2>. QED
      BY <1>2, <1>4, <2>1
<1>. QED
    BY <1>8

(* What is left as a number is spelled, and what it is as it is read back. *)
SpelledBy(left, p) ==
    /\ left \in [0..10 -> SevenBytes] /\ left[0] = p
    /\ \A i \in 1..10 : left[i] = P_DIV(left[i - 1], 36).c
    /\ Spelled(p) = [i \in 1..10 |-> P_DIV(left[i - 1], 36).remainder]
Reads(packed, c) ==
    /\ packed \in [0..10 -> SevenBytes] /\ packed[10] = Cleared
    /\ \A i \in 0..9 : packed[i] = P_MAC(packed[i + 1], 36, c[i + 1])
    /\ decode(c) = packed[0]

(* There is such a sequence of quotients. *)
LEMMA Spelling ==
    ASSUME NEW p \in SevenBytes
    PROVE  \E left : SpelledBy(left, p)
<1>. DEFINE New(i, x) == P_DIV(x, Num_Alphabet_Chars).c
            Rec(f) == f = [i \in 0..Encoded_Length |-> IF i = 0 THEN p ELSE New(i, f[i - 1])]
            left == CHOOSE f : Rec(f)
<1>0. Num_Alphabet_Chars = 36 /\ Encoded_Length = 10 /\ 36 \in Radices
    BY DEF Num_Alphabet_Chars, Encoded_Length, Radices
<1>1. Spelled(p) = [i \in 1..Encoded_Length |-> P_DIV(left[i - 1], Num_Alphabet_Chars).remainder]
    BY Zenon DEF Spelled
<1>2. ASSUME NEW i \in 1..10, NEW x \in SevenBytes PROVE New(i, x) \in SevenBytes
    BY <1>0, QuotientIsBytes
<1>3. \A i \in 1..10, x \in SevenBytes : New(i, x) = P_DIV(x, 36).c
    BY <1>0
<1>. HIDE DEF New
<1>4. PICK step : step \in [1..10 -> [SevenBytes -> SevenBytes]] /\ \A i \in 1..10, x \in SevenBytes : step[i][x] = New(i, x)
  <2>. DEFINE s == [i \in 1..10 |-> [x \in SevenBytes |-> New(i, x)]]
  <2>1. s \in [1..10 -> [SevenBytes -> SevenBytes]]
      BY <1>2
  <2>2. \A i \in 1..10, x \in SevenBytes : s[i][x] = New(i, x)
      OBVIOUS
  <2>. HIDE DEF s
  <2>. QED
      BY <2>1, <2>2
<1>5. PICK f : Climbs(f, SevenBytes, p, 10, step)
    BY <1>4, Climbing
<1>6. Rec(f)
  <2>1. ASSUME NEW i \in 1..10 PROVE f[i] = New(i, f[i - 1])
    <3>1. f[i - 1] \in SevenBytes /\ f[i] = step[i][f[i - 1]]
        BY <1>5 DEF Climbs
    <3>. QED
        BY <1>4, <3>1
  <2>. QED
      BY <1>0, <1>5, <2>1 DEF Climbs
<1>. HIDE DEF Rec
<1>7. Rec(left)
    BY <1>6
<1>. HIDE DEF left
<1>8. /\ left[0] = p /\ left = [i \in 0..10 |-> left[i]]
      /\ \A i \in 1..10 : left[i] = New(i, left[i - 1])
    BY <1>0, <1>7 DEF Rec
<1>9. ClimbsIfTyped(left, SevenBytes, 10, step)
    BY <1>4, <1>8 DEF ClimbsIfTyped
<1>10. \A i \in 0..10 : left[i] \in SevenBytes
    BY <1>4, <1>9, ClimbingTyped
<1>11. left \in [0..10 -> SevenBytes]
    BY <1>8, <1>10
<1>12. \A i \in 1..10 : left[i] = P_DIV(left[i - 1], 36).c
  <2>. TAKE i \in 1..10
  <2>1. left[i - 1] \in SevenBytes
      BY <1>10
  <2>. QED
      BY <1>3, <1>8, <2>1
<1>13. Spelled(p) = [i \in 1..10 |-> P_DIV(left[i - 1], 36).remainder]
    BY <1>0, <1>1
<1>. QED
    BY <1>8, <1>11, <1>12, <1>13 DEF SpelledBy

(* There is such a sequence of numbers. *)
LEMMA Reading ==
    ASSUME NEW c \in [1..10 -> Nat]
    PROVE  \E packed : Reads(packed, c)
<1>. DEFINE New(i, x) == P_MAC(x, Num_Alphabet_Chars, c[i + 1])
            Rec(f) == f = [i \in 0..Encoded_Length |-> IF i = Encoded_Length THEN Cleared ELSE New(i, f[i + 1])]
            packed == CHOOSE f : Rec(f)
<1>0. Num_Alphabet_Chars = 36 /\ Encoded_Length = 10 /\ 36 \in Radices
    BY DEF Num_Alphabet_Chars, Encoded_Length, Radices
<1>1. decode(c) = packed[0]
    BY Zenon DEF decode
<1>2. ASSUME NEW i \in 0..9, NEW x \in SevenBytes PROVE New(i, x) \in SevenBytes
  <2>1. c[i + 1] \in Nat
      OBVIOUS
  <2>. QED
      BY <1>0, <2>1, MultipliedIsBytes
<1>3. \A i \in 0..9, x \in SevenBytes : New(i, x) = P_MAC(x, 36, c[i + 1])
    BY <1>0
<1>. HIDE DEF New
<1>4. PICK step : step \in [0..(10 - 1) -> [SevenBytes -> SevenBytes]] /\ \A i \in 0..9, x \in SevenBytes : step[i][x] = New(i, x)
  <2>. DEFINE s == [i \in 0..9 |-> [x \in SevenBytes |-> New(i, x)]]
  <2>1. s \in [0..(10 - 1) -> [SevenBytes -> SevenBytes]]
      BY <1>2
  <2>2. \A i \in 0..9, x \in SevenBytes : s[i][x] = New(i, x)
      OBVIOUS
  <2>. HIDE DEF s
  <2>. QED
      BY <2>1, <2>2
<1>5. PICK f : Descends(f, SevenBytes, Cleared, 10, step)
    BY <1>4, ClearedIsZero, Descending
<1>6. Rec(f)
  <2>1. ASSUME NEW i \in 0..9 PROVE f[i] = New(i, f[i + 1])
    <3>1. f[i + 1] \in SevenBytes /\ f[i] = step[i][f[i + 1]]
        BY <1>5 DEF Descends
    <3>. QED
        BY <1>4, <3>1
  <2>. QED
      BY <1>0, <1>5, <2>1 DEF Descends
<1>. HIDE DEF Rec
<1>7. Rec(packed)
    BY <1>6
<1>. HIDE DEF packed
<1>8. /\ packed[10] = Cleared /\ packed = [i \in 0..10 |-> packed[i]]
      /\ \A i \in 0..9 : packed[i] = New(i, packed[i + 1])
    BY <1>0, <1>7 DEF Rec
<1>9. DescendsIfTyped(packed, SevenBytes, 10, step)
  <2>1. ASSUME NEW i \in 0..(10 - 1), packed[i + 1] \in SevenBytes PROVE packed[i] = step[i][packed[i + 1]]
    <3>1. i \in 0..9
        OBVIOUS
    <3>. QED
        BY <1>4, <1>8, <2>1, <3>1
  <2>. QED
      BY <1>8, <2>1, ClearedIsZero DEF DescendsIfTyped
<1>10. \A i \in 0..10 : packed[i] \in SevenBytes
    BY <1>4, <1>9, DescendingTyped
<1>11. packed \in [0..10 -> SevenBytes]
    BY <1>8, <1>10
<1>12. \A i \in 0..9 : packed[i] = P_MAC(packed[i + 1], 36, c[i + 1])
  <2>. TAKE i \in 0..9
  <2>1. packed[i + 1] \in SevenBytes
      BY <1>10
  <2>. QED
      BY <1>3, <1>8, <2>1
<1>. QED
    BY <1>1, <1>8, <1>11, <1>12 DEF Reads

(* Seven bytes are below their capacity. *)
LEMMA BytesFit == ASSUME NEW p \in SevenBytes PROVE Value(p) < Capacity
<1>1. /\ p[1] \in 0..255 /\ p[2] \in 0..255 /\ p[3] \in 0..255 /\ p[4] \in 0..255
      /\ p[5] \in 0..255 /\ p[6] \in 0..255 /\ p[7] \in 0..255
    BY DEF SevenBytes
<1>2. /\ p[1] \in Int /\ p[2] \in Int /\ p[3] \in Int /\ p[4] \in Int /\ p[5] \in Int /\ p[6] \in Int /\ p[7] \in Int
      /\ p[1] <= 255 /\ p[2] <= 255 /\ p[3] <= 255 /\ p[4] <= 255 /\ p[5] <= 255 /\ p[6] <= 255 /\ p[7] <= 255
    BY <1>1, SMTT(30)
<1>. QED
    BY <1>2, SMT DEF Value, Capacity

(* Ten letters are enough for every beacon. *)
LEMMA NothingLeftOver ==
    ASSUME NEW l \in [0..10 -> Nat], NEW c \in [1..10 -> 0..35], l[0] < Room[12],
           \A i \in 1..10 : l[i - 1] = l[i] * 36 + c[i]
    PROVE  l[10] = 0
<1>1. /\ l[0] \in Nat /\ l[1] \in Nat /\ l[2] \in Nat /\ l[3] \in Nat /\ l[4] \in Nat /\ l[5] \in Nat
      /\ l[6] \in Nat /\ l[7] \in Nat /\ l[8] \in Nat /\ l[9] \in Nat /\ l[10] \in Nat
    OBVIOUS
<1>2. /\ c[1] \in Nat /\ c[2] \in Nat /\ c[3] \in Nat /\ c[4] \in Nat /\ c[5] \in Nat
      /\ c[6] \in Nat /\ c[7] \in Nat /\ c[8] \in Nat /\ c[9] \in Nat /\ c[10] \in Nat
    OBVIOUS
<1>3. /\ l[0] = l[1] * 36 + c[1] /\ l[1] = l[2] * 36 + c[2] /\ l[2] = l[3] * 36 + c[3]
      /\ l[3] = l[4] * 36 + c[4] /\ l[4] = l[5] * 36 + c[5] /\ l[5] = l[6] * 36 + c[6]
      /\ l[6] = l[7] * 36 + c[7] /\ l[7] = l[8] * 36 + c[8] /\ l[8] = l[9] * 36 + c[9]
      /\ l[9] = l[10] * 36 + c[10]
    OBVIOUS
<1>4. Room[12] = 64 * 64 * 32 * 32 * 64 * 64 * 64 * 32 * 4 * 2 * 2 * 2
    BY DEF Room
<1>. QED
  <2>. SUFFICES ASSUME l[10] >= 1 PROVE FALSE
      BY <1>1
  <2>1. l[9] >= 36 /\ l[8] >= 36 * 36 /\ l[7] >= 36 * 36 * 36 /\ l[6] >= 36 * 36 * 36 * 36
      BY <1>1, <1>2, <1>3, SMT
  <2>2. l[5] >= 36 * 36 * 36 * 36 * 36 /\ l[4] >= 36 * 36 * 36 * 36 * 36 * 36
      BY <1>1, <1>2, <1>3, <2>1, SMT
  <2>3. l[3] >= 36 * 36 * 36 * 36 * 36 * 36 * 36 /\ l[2] >= 36 * 36 * 36 * 36 * 36 * 36 * 36 * 36
      BY <1>1, <1>2, <1>3, <2>2, SMT
  <2>4. l[0] >= 36 * 36 * 36 * 36 * 36 * 36 * 36 * 36 * 36 * 36
      BY <1>1, <1>2, <1>3, <2>3, SMT
  <2>. QED
      BY <1>1, <1>4, <2>4, SMT

(* The letters of a number are its digits; none of it is left over.        *)
Digits(l, c) == /\ l \in [0..10 -> Nat] /\ l[10] = 0
                /\ \A i \in 1..10 : c[i] \in 0..35 /\ l[i - 1] = l[i] * 36 + c[i]
                /\ \A i \in 0..10 : l[i] < Capacity
LEMMA SpelledDigits ==
    ASSUME NEW p \in SevenBytes, Value(p) < Room[12]
    PROVE  /\ Spelled(p) \in [1..10 -> 0..35]
           /\ \E l : Digits(l, Spelled(p)) /\ l[0] = Value(p)
<1>1. PICK left : SpelledBy(left, p)
    BY Spelling
<1>2. PICK c : c = Spelled(p)
    OBVIOUS
<1>3. /\ left \in [0..10 -> SevenBytes] /\ left[0] = p
      /\ \A i \in 1..10 : left[i] = P_DIV(left[i - 1], 36).c
      /\ c = [i \in 1..10 |-> P_DIV(left[i - 1], 36).remainder]
    BY <1>1, <1>2 DEF SpelledBy
<1>4. 36 \in Radices
    BY DEF Radices
<1>5. PICK l : l = [i \in 0..10 |-> Value(left[i])]
    OBVIOUS
<1>6. l \in [0..10 -> Nat] /\ \A i \in 0..10 : l[i] < Capacity
  <2>1. \A i \in 0..10 : Value(left[i]) \in Nat /\ Value(left[i]) < Capacity
      BY <1>3, BytesHaveValue, BytesFit
  <2>. QED
      BY <1>5, <2>1
<1>7. ASSUME NEW i \in 1..10 PROVE c[i] \in 0..35 /\ l[i - 1] = l[i] * 36 + c[i]
  <2>1. PICK x \in SevenBytes : x = left[i - 1]
      BY <1>3
  <2>2. P_DIV(x, 36).remainder \in 0..(36 - 1) /\ Value(x) = Value(P_DIV(x, 36).c) * 36 + P_DIV(x, 36).remainder
      BY <1>4, Divided
  <2>3. c[i] = P_DIV(x, 36).remainder /\ left[i] = P_DIV(x, 36).c
      BY <1>3, <2>1
  <2>4. l[i - 1] = Value(x) /\ l[i] = Value(P_DIV(x, 36).c)
      BY <1>5, <2>1, <2>3
  <2>. QED
      BY <2>2, <2>3, <2>4
<1>8. c \in [1..10 -> 0..35]
    BY <1>3, <1>7
<1>9. l[0] = Value(p) /\ l[10] = 0
  <2>1. l[0] = Value(p)
      BY <1>3, <1>5
  <2>2. l[0] < Room[12]
      BY <2>1
  <2>. QED
      BY <1>6, <1>7, <1>8, <2>1, <2>2, NothingLeftOver
<1>10. Digits(l, c)
    BY <1>6, <1>7, <1>9 DEF Digits
<1>. QED
    BY <1>2, <1>8, <1>9, <1>10

(* Those of one letter. *)
LEMMA DigitAt ==
    ASSUME NEW l, NEW c, Digits(l, c), NEW i \in 1..10
    PROVE  /\ l[i] \in Nat /\ c[i] \in 0..35 /\ c[i] \in Nat
           /\ l[i - 1] = l[i] * 36 + c[i] /\ l[i - 1] < Capacity
<1>1. i - 1 \in 0..10 /\ i \in 0..10 /\ l[i] \in Nat /\ c[i] \in 0..35
  <2>1. l \in [0..10 -> Nat] /\ c[i] \in 0..35
      BY DEF Digits
  <2>2. i - 1 \in 0..10 /\ i \in 0..10
      OBVIOUS
  <2>. QED
      BY <2>1, <2>2
<1>2. l[i - 1] = l[i] * 36 + c[i]
    BY DEF Digits
<1>3. l[i - 1] < Capacity
    BY <1>1 DEF Digits
<1>. QED
    BY <1>1, <1>2, <1>3

(* One letter is read, in the sense of the code. *)
LEMMA LetterRead ==
    ASSUME NEW x \in SevenBytes, NEW digit \in Nat, NEW y, y = P_MAC(x, 36, digit), Value(x) * 36 + digit < Capacity
    PROVE  Value(y) = Value(x) * 36 + digit
<1>1. 36 \in Radices
    BY DEF Radices
<1>. QED
    BY <1>1, Multiplied

(* What was spelled with all its letters is read back. *)
LEMMA ReadBack ==
    ASSUME NEW p \in SevenBytes, Value(p) < Room[12]
    PROVE  /\ Spelled(p) \in [1..10 -> 0..35]
           /\ decode(Spelled(p)) \in SevenBytes /\ Value(decode(Spelled(p))) = Value(p)
<1>1. PICK c \in [1..10 -> 0..35] : c = Spelled(p)
    BY SpelledDigits
<1>2. PICK l : Digits(l, c) /\ l[0] = Value(p)
    BY <1>1, SpelledDigits
<1>3. /\ l \in [0..10 -> Nat] /\ l[10] = 0
      /\ \A i \in 1..10 : c[i] \in 0..35 /\ l[i - 1] = l[i] * 36 + c[i]
      /\ \A i \in 0..10 : l[i] < Capacity
    BY <1>2 DEF Digits
<1>4. PICK packed : Reads(packed, c)
    BY <1>1, Reading
<1>5. /\ packed \in [0..10 -> SevenBytes] /\ packed[10] = Cleared
      /\ \A i \in 0..9 : packed[i] = P_MAC(packed[i + 1], 36, c[i + 1])
      /\ decode(c) = packed[0]
    BY <1>4 DEF Reads
<1>. DEFINE Same == {i \in 0..10 : Value(packed[i]) = l[i]}
<1>6. 10 \in Same
    BY <1>3, <1>5, ClearedIsZero
<1>7. ASSUME NEW i \in (0 + 1)..10, i \in Same PROVE i - 1 \in Same
  <2>1. i \in 1..10 /\ i - 1 \in 0..9 /\ (i - 1) + 1 = i
      OBVIOUS
  <2>2. PICK x \in SevenBytes : x = packed[i] /\ Value(x) = l[i]
      BY <1>5, <1>7
  <2>3. PICK digit \in Nat : digit = c[i] /\ l[i - 1] = l[i] * 36 + digit /\ l[i - 1] < Capacity
      BY <1>2, <2>1, DigitAt
  <2>4. Value(x) * 36 + digit = l[i - 1] /\ l[i - 1] < Capacity
      BY <2>2, <2>3
  <2>5. packed[i - 1] = P_MAC(x, 36, digit)
      BY <1>5, <2>1, <2>2, <2>3
  <2>. QED
      BY <2>1, <2>4, <2>5, LetterRead
<1>8. 0..10 \subseteq Same
  <2>. HIDE DEF Same
  <2>1. PassesDown(Same, 0, 10)
      BY <1>7 DEF PassesDown
  <2>. QED
      BY <1>6, <2>1, DownThrough
<1>9. Value(packed[0]) = Value(p)
    BY <1>2, <1>8
<1>. QED
    BY <1>1, <1>5, <1>9

(* How many numbers the letters from one to the last can spell, with the   *)
(* terminator for one more letter; seven bytes are room enough for them.   *)
Wide == [i \in 0..10 |->
    CASE i = 10 -> 1
      [] i = 9 -> 37
      [] i = 8 -> 37 * 37
      [] i = 7 -> 37 * 37 * 37
      [] i = 6 -> 37 * 37 * 37 * 37
      [] i = 5 -> 37 * 37 * 37 * 37 * 37
      [] i = 4 -> 37 * 37 * 37 * 37 * 37 * 37
      [] i = 3 -> 37 * 37 * 37 * 37 * 37 * 37 * 37
      [] i = 2 -> 37 * 37 * 37 * 37 * 37 * 37 * 37 * 37
      [] i = 1 -> 37 * 37 * 37 * 37 * 37 * 37 * 37 * 37 * 37
      [] i = 0 -> 37 * 37 * 37 * 37 * 37 * 37 * 37 * 37 * 37 * 37]
LEMMA WideGrows ==
    /\ Wide[10] = 1
    /\ \A i \in 1..10 : /\ Wide[i] \in Nat /\ Wide[i - 1] \in Nat
                       /\ Wide[i - 1] = 37 * Wide[i] /\ Wide[i - 1] < Capacity
<1>1. Wide[10] = 1
    BY DEF Wide
<1>2. ASSUME NEW i \in 1..10
      PROVE  /\ Wide[i] \in Nat /\ Wide[i - 1] \in Nat
             /\ Wide[i - 1] = 37 * Wide[i] /\ Wide[i - 1] < Capacity
  <2>1. CASE i = 10
    <3>1. Wide[10] = 1 /\ Wide[9] = 37
        BY DEF Wide
    <3>2. i - 1 = 9
        BY <2>1
    <3>. QED
        BY <2>1, <3>1, <3>2, SMT DEF Capacity
  <2>2. CASE i = 9
    <3>1. Wide[9] = 37 /\ Wide[8] = 37 * 37
        BY DEF Wide
    <3>2. i - 1 = 8
        BY <2>2
    <3>. QED
        BY <2>2, <3>1, <3>2, SMT DEF Capacity
  <2>3. CASE i = 8
    <3>1. Wide[8] = 37 * 37 /\ Wide[7] = 37 * 37 * 37
        BY DEF Wide
    <3>2. i - 1 = 7
        BY <2>3
    <3>. QED
        BY <2>3, <3>1, <3>2, SMT DEF Capacity
  <2>4. CASE i = 7
    <3>1. Wide[7] = 37 * 37 * 37 /\ Wide[6] = 37 * 37 * 37 * 37
        BY DEF Wide
    <3>2. i - 1 = 6
        BY <2>4
    <3>. QED
        BY <2>4, <3>1, <3>2, SMT DEF Capacity
  <2>5. CASE i = 6
    <3>1. Wide[6] = 37 * 37 * 37 * 37 /\ Wide[5] = 37 * 37 * 37 * 37 * 37
        BY DEF Wide
    <3>2. i - 1 = 5
        BY <2>5
    <3>. QED
        BY <2>5, <3>1, <3>2, SMT DEF Capacity
  <2>6. CASE i = 5
    <3>1. Wide[5] = 37 * 37 * 37 * 37 * 37 /\ Wide[4] = 37 * 37 * 37 * 37 * 37 * 37
        BY DEF Wide
    <3>2. i - 1 = 4
        BY <2>6
    <3>. QED
        BY <2>6, <3>1, <3>2, SMT DEF Capacity
  <2>7. CASE i = 4
    <3>1. Wide[4] = 37 * 37 * 37 * 37 * 37 * 37 /\ Wide[3] = 37 * 37 * 37 * 37 * 37 * 37 * 37
        BY DEF Wide
    <3>2. i - 1 = 3
        BY <2>7
    <3>. QED
        BY <2>7, <3>1, <3>2, SMT DEF Capacity
  <2>8. CASE i = 3
    <3>1. Wide[3] = 37 * 37 * 37 * 37 * 37 * 37 * 37 /\ Wide[2] = 37 * 37 * 37 * 37 * 37 * 37 * 37 * 37
        BY DEF Wide
    <3>2. i - 1 = 2
        BY <2>8
    <3>. QED
        BY <2>8, <3>1, <3>2, SMT DEF Capacity
  <2>9. CASE i = 2
    <3>1. Wide[2] = 37 * 37 * 37 * 37 * 37 * 37 * 37 * 37 /\ Wide[1] = 37 * 37 * 37 * 37 * 37 * 37 * 37 * 37 * 37
        BY DEF Wide
    <3>2. i - 1 = 1
        BY <2>9
    <3>. QED
        BY <2>9, <3>1, <3>2, SMT DEF Capacity
  <2>10. CASE i = 1
    <3>1. Wide[1] = 37 * 37 * 37 * 37 * 37 * 37 * 37 * 37 * 37 /\ Wide[0] = 37 * 37 * 37 * 37 * 37 * 37 * 37 * 37 * 37 * 37
        BY DEF Wide
    <3>2. i - 1 = 0
        BY <2>10
    <3>. QED
        BY <2>10, <3>1, <3>2, SMT DEF Capacity
  <2>. QED
      BY <2>1, <2>2, <2>3, <2>4, <2>5, <2>6, <2>7, <2>8, <2>9, <2>10
<1>. QED
    BY <1>1, <1>2

(* The removal of zeroes leaves the letters or the terminator for them.    *)
LEMMA TrimmedIs ==
    ASSUME NEW c \in [1..10 -> 0..35]
    PROVE  /\ Trimmed(c) \in [1..10 -> 0..36]
           /\ \A i \in 1..10 : Trimmed(c)[i] \in {c[i], 36}
<1>1. NUL = 36 /\ DOMAIN c = 1..10
    BY DEF NUL, Num_Alphabet_Chars
<1>2. Trimmed(c) = [i \in 1..10 |-> Trimmed(c)[i]] /\ \A i \in 1..10 : Trimmed(c)[i] \in {c[i], 36}
    BY <1>1 DEF Trimmed
<1>3. \A i \in 1..10 : Trimmed(c)[i] \in 0..36
    BY <1>2
<1>. QED
    BY <1>2, <1>3

(* A number with a zero removed is read as a larger one: the first letter  *)
(* removed counts for 36, and those after it for no less than they did.    *)
LEMMA MoreIsRead ==
    ASSUME NEW p \in SevenBytes, Value(p) < Room[12],
           NEW k \in 1..10, Trimmed(Spelled(p))[k] = 36
    PROVE  Value(decode(Trimmed(Spelled(p)))) > Value(p)
<1>1. PICK c \in [1..10 -> 0..35] : c = Spelled(p)
    BY SpelledDigits
<1>2. PICK l : Digits(l, c) /\ l[0] = Value(p)
    BY <1>1, SpelledDigits
<1>3. /\ l \in [0..10 -> Nat] /\ l[10] = 0
      /\ \A i \in 1..10 : c[i] \in 0..35 /\ l[i - 1] = l[i] * 36 + c[i]
    BY <1>2 DEF Digits
<1>4. PICK t \in [1..10 -> 0..36] : t = Trimmed(c) /\ \A i \in 1..10 : t[i] \in {c[i], 36}
    BY TrimmedIs
<1>5. PICK packed : Reads(packed, t)
  <2>1. t \in [1..10 -> Nat]
      BY <1>4
  <2>. QED
      BY <2>1, Reading
<1>6. /\ packed \in [0..10 -> SevenBytes] /\ packed[10] = Cleared
      /\ \A i \in 0..9 : packed[i] = P_MAC(packed[i + 1], 36, t[i + 1])
      /\ decode(t) = packed[0]
    BY <1>5 DEF Reads
<1>. DEFINE More == {i \in 0..10 : /\ Value(packed[i]) < Wide[i] /\ Value(packed[i]) >= l[i]
                                   /\ (i < k => Value(packed[i]) > l[i])}
<1>7. 10 \in More
  <2>1. Value(packed[10]) = 0 /\ Wide[10] = 1 /\ l[10] = 0 /\ ~(10 < k)
      BY <1>3, <1>6, ClearedIsZero, WideGrows
  <2>. QED
      BY <2>1
<1>8. ASSUME NEW i \in (0 + 1)..10, i \in More PROVE i - 1 \in More
  <2>1. i \in 1..10 /\ i - 1 \in 0..9 /\ (i - 1) + 1 = i
      OBVIOUS
  <2>2. PICK x \in SevenBytes : x = packed[i]
      BY <1>6
  <2>3. PICK v \in Nat : v = Value(x)
      BY BytesHaveValue
  <2>4. PICK digit \in 0..36 : digit = t[i]
      BY <1>4, <2>1
  <2>5. PICK w \in Nat : w = Wide[i] /\ Wide[i - 1] = 37 * w /\ 37 * w < Capacity
      BY <2>1, WideGrows
  <2>6. v < w /\ v >= l[i] /\ (i < k => v > l[i])
    <3>1. Value(packed[i]) < Wide[i] /\ Value(packed[i]) >= l[i] /\ (i < k => Value(packed[i]) > l[i])
        BY <1>8, Zenon
    <3>. QED
        BY <2>2, <2>3, <2>5, <3>1
  <2>7. v * 36 + digit < 37 * w
      BY <2>6
  <2>8. packed[i - 1] = P_MAC(x, 36, digit)
      BY <1>6, <2>1, <2>2, <2>4
  <2>9. Value(packed[i - 1]) = v * 36 + digit
    <3>1. v * 36 + digit < Capacity
        BY <2>5, <2>7 DEF Capacity
    <3>. QED
        BY <2>3, <2>8, <3>1, LetterRead
  <2>10. PICK b \in Nat, d \in 0..35 : b = l[i] /\ d = c[i] /\ l[i - 1] = b * 36 + d
    <3>1. l[i] \in Nat /\ c[i] \in 0..35 /\ l[i - 1] = l[i] * 36 + c[i]
        BY <1>2, <2>1, DigitAt
    <3>. QED
        BY <3>1
  <2>11. digit \in {d, 36} /\ (i = k => digit = 36)
      BY <1>1, <1>4, <2>1, <2>4, <2>10
  <2>12. v * 36 + digit >= b * 36 + d
      BY <2>6, <2>10, <2>11
  <2>13. i - 1 < k => v * 36 + digit > b * 36 + d
    <3>1. CASE i < k
        BY <2>6, <2>10, <2>11, <3>1
    <3>2. CASE i = k
        BY <2>6, <2>10, <2>11, <3>2
    <3>. QED
        BY <2>1, <3>1, <3>2
  <2>. QED
      BY <2>1, <2>5, <2>7, <2>9, <2>10, <2>12, <2>13
<1>9. 0..10 \subseteq More
  <2>. HIDE DEF More
  <2>1. PassesDown(More, 0, 10)
      BY <1>8 DEF PassesDown
  <2>. QED
      BY <1>7, <2>1, DownThrough
<1>10. Value(packed[0]) > l[0]
  <2>1. 0 \in More /\ 0 < k
      BY <1>9
  <2>. QED
      BY <2>1, Zenon
<1>. QED
    BY <1>1, <1>2, <1>4, <1>6, <1>10

(* The value of bytes from each byte on.                                   *)
LEMMA FromEachByte ==
    ASSUME NEW r \in SevenBytes
    PROVE  \E from \in [1..7 -> Int] : /\ from[1] = Value(r) /\ from[7] = r[7]
                                       /\ \A i \in 1..6 : from[i] = r[i] + 256 * from[i + 1]
<1>1. r[1] \in Int /\ r[2] \in Int /\ r[3] \in Int /\ r[4] \in Int /\ r[5] \in Int /\ r[6] \in Int /\ r[7] \in Int
    BY DEF SevenBytes
<1>2. PICK f6 \in Int : f6 = r[6] + 256 * r[7]
    BY <1>1
<1>3. PICK f5 \in Int : f5 = r[5] + 256 * f6
    BY <1>1
<1>4. PICK f4 \in Int : f4 = r[4] + 256 * f5
    BY <1>1
<1>5. PICK f3 \in Int : f3 = r[3] + 256 * f4
    BY <1>1
<1>6. PICK f2 \in Int : f2 = r[2] + 256 * f3
    BY <1>1
<1>7. PICK f1 \in Int : f1 = r[1] + 256 * f2
    BY <1>1
<1>8. f1 = Value(r)
    BY <1>1, <1>2, <1>3, <1>4, <1>5, <1>6, <1>7, SMT DEF Value
<1>. DEFINE from == [i \in 1..7 |-> CASE i = 1 -> f1 [] i = 2 -> f2 [] i = 3 -> f3 [] i = 4 -> f4
                                      [] i = 5 -> f5 [] i = 6 -> f6 [] i = 7 -> r[7]]
<1>9. /\ from \in [1..7 -> Int] /\ from[1] = f1 /\ from[2] = f2 /\ from[3] = f3 /\ from[4] = f4
      /\ from[5] = f5 /\ from[6] = f6 /\ from[7] = r[7]
    BY <1>1
<1>. HIDE DEF from
<1>10. \A i \in 1..6 : from[i] = r[i] + 256 * from[i + 1]
    BY <1>2, <1>3, <1>4, <1>5, <1>6, <1>7, <1>9
<1>. QED
    BY <1>8, <1>9, <1>10

(* Bytes with the same value are the same. *)
LEMMA SameBytes ==
    ASSUME NEW p \in SevenBytes, NEW q \in SevenBytes, Value(p) = Value(q)
    PROVE  p = q
<1>1. \A i \in 1..7 : p[i] \in 0..255 /\ q[i] \in 0..255
    BY DEF SevenBytes
<1>2. PICK f \in [1..7 -> Int] : f[1] = Value(p) /\ f[7] = p[7] /\ \A i \in 1..6 : f[i] = p[i] + 256 * f[i + 1]
    BY FromEachByte
<1>3. PICK g \in [1..7 -> Int] : g[1] = Value(q) /\ g[7] = q[7] /\ \A i \in 1..6 : g[i] = q[i] + 256 * g[i + 1]
    BY FromEachByte
<1>4. ASSUME NEW i \in 1..6, f[i] = g[i] PROVE p[i] = q[i] /\ f[i + 1] = g[i + 1]
  <2>1. i \in 1..7 /\ i + 1 \in 1..7
      OBVIOUS
  <2>2. PICK a \in 0..255, b \in 0..255 : a = p[i] /\ b = q[i]
    <3>1. p[i] \in 0..255 /\ q[i] \in 0..255
        BY <1>1, <2>1
    <3>. QED
        BY <3>1, Zenon
  <2>3. PICK x \in Int, y \in Int : x = f[i + 1] /\ y = g[i + 1]
      BY <2>1
  <2>4. a + 256 * x = b + 256 * y
    <3>1. f[i] = p[i] + 256 * f[i + 1]
        BY <1>2
    <3>2. g[i] = q[i] + 256 * g[i + 1]
        BY <1>3
    <3>. QED
        BY <1>4, <2>2, <2>3, <3>1, <3>2
  <2>5. a = b /\ x = y
      BY <2>4
  <2>. QED
      BY <2>2, <2>3, <2>5
<1>. DEFINE Same == {i \in 1..7 : f[i] = g[i]}
<1>5. 1 \in Same
    BY <1>2, <1>3
<1>6. ASSUME NEW i \in 1..(7 - 1), i \in Same PROVE i + 1 \in Same
  <2>1. i \in 1..6 /\ i + 1 \in 1..7 /\ f[i] = g[i]
      BY <1>6
  <2>. QED
      BY <1>4, <2>1
<1>7. 1..7 \subseteq Same
  <2>. HIDE DEF Same
  <2>1. PassesUp(Same, 1, 7)
      BY <1>6 DEF PassesUp
  <2>. QED
      BY <1>5, <2>1, UpThrough
<1>8. ASSUME NEW i \in 1..7 PROVE p[i] = q[i]
  <2>1. CASE i = 7
    <3>1. f[7] = g[7]
        BY <1>7
    <3>. QED
        BY <1>2, <1>3, <2>1, <3>1
  <2>2. CASE i \in 1..6
    <3>1. f[i] = g[i]
        BY <1>7
    <3>. QED
        BY <1>4, <2>2, <3>1
  <2>. QED
      BY <2>1, <2>2
<1>. QED
    BY <1>8 DEF SevenBytes

(* The digit of a float is the step it is in. *)
LEMMA WithinAStep ==
    ASSUME NEW v \in Nat, NEW span \in Nat, NEW unit \in Nat \ {0}
    PROVE  (v * span) \div unit \in Nat /\ v * span - ((v * span) \div unit) * unit \in 0..(unit - 1)
<1>1. PICK a \in Nat : a = v * span
    OBVIOUS
<1>2. a \div unit \in Nat /\ a % unit \in 0..(unit - 1) /\ a % unit = a - (a \div unit) * unit
    BY Division
<1>. QED
    BY <1>1, <1>2

(* As encode leaves it if it ends in no zero. *)
LEMMA Untrimmed ==
    ASSUME NEW c \in [1..10 -> 0..35], \A i \in DOMAIN Trimmed(c) : Trimmed(c)[i] # NUL
    PROVE  Trimmed(c) = c
<1>1. DOMAIN Trimmed(c) = 1..10 /\ \A i \in 1..10 : Trimmed(c)[i] # NUL => Trimmed(c)[i] = c[i]
    BY DEF Trimmed
<1>2. Trimmed(c) = [i \in 1..10 |-> Trimmed(c)[i]]
    BY DEF Trimmed
<1>. QED
    BY <1>1, <1>2

Progress ==
    /\ input \in Beacons
    /\ p1 # <<>> => p1 = pack(input)
    /\ e # <<>> => p1 # <<>> /\ e = encode(p1)
    /\ p2 # <<>> => e # <<>> /\ p2 = decode(e)
    /\ output # <<>> => p2 # <<>> /\ output = unpack(p2)

(* The digits of what may be sent are natural numbers. *)
LEMMA DigitIsNat == ASSUME NEW b \in Beacons PROVE \A i \in 1..12 : b[i] \in Nat /\ DigitOf(b, i) \in Nat
<1>. TAKE i \in 1..12
<1>1. b[i] \in Nat
    BY BeaconsAssumption, Fields
<1>2. PICK f : f = My_Beacon_Fields[i]
    OBVIOUS
<1>3. f.num_values \in {2, 4, 32, 64} /\ f.range \in Nat
    BY <1>2, Fields
<1>4. Span(f) \in Nat /\ 2 * Parts \in Nat \ {0}
    BY <1>3, BeaconsAssumption DEF Span
<1>5. Digit(f, b[i]) \in Nat
    BY <1>1, <1>4, WithinAStep DEF Digit
<1>. QED
    BY <1>1, <1>2, <1>5 DEF DigitOf

(* What the whole way does to a beacon whose fields fit. *)
LEMMA AllTheWay ==
    ASSUME NEW b \in Beacons, \A i \in 1..12 : DigitOf(b, i) \in 0..(NumValues(i) - 1),
           \A i \in DOMAIN encode(pack(b)) : encode(pack(b))[i] # NUL
    PROVE  \A i \in 1..12 : unpack(decode(encode(pack(b))))[i] = DigitOf(b, i)
<1>1. PICK p \in SevenBytes : p = pack(b)
    BY Packed
<1>2. PICK v : AmountTo(v, b) /\ v[12] = Value(p) /\ v[12] < Room[12]
    BY <1>1, Packed
<1>3. Value(p) < Room[12]
    BY <1>2
<1>4. PICK c \in [1..10 -> 0..35] : c = Spelled(p)
    BY <1>3, ReadBack
<1>5. encode(pack(b)) = c
  <2>1. encode(pack(b)) = Trimmed(c)
      BY <1>1, <1>4 DEF encode
  <2>. QED
      BY <2>1, Untrimmed
<1>6. PICK q \in SevenBytes : q = decode(c) /\ Value(q) = Value(p)
    BY <1>3, <1>4, ReadBack
<1>7. \A i \in 1..12 : unpack(q)[i] = DigitOf(b, i)
    BY <1>2, <1>6, Unpacked
<1>. QED
    BY <1>5, <1>6, <1>7

(* The digits of a beacon that fits. *)
LEMMA FittingDigits ==
    ASSUME Fits, input \in Beacons
    PROVE  \A i \in 1..12 : DigitOf(input, i) \in 0..(NumValues(i) - 1)
<1>. TAKE i \in 1..12
<1>1. DigitOf(input, i) \in Nat
    BY DigitIsNat
<1>2. DigitOf(input, i) < NumValues(i)
    BY Fields DEF Fits, DigitOf, NumValues
<1>3. NumValues(i) \in {2, 4, 32, 64}
    BY Fields DEF NumValues
<1>. QED
    BY <1>1, <1>2, <1>3

(* So it is for the beacon that main() sends. *)
LEMMA ReceivedDigits ==
    ASSUME Progress, output # <<>>, Fits, \A i \in DOMAIN e : e[i] # NUL
    PROVE  \A i \in 1..12 : output[i] = DigitOf(input, i)
<1>1. input \in Beacons /\ e = encode(pack(input)) /\ output = unpack(decode(encode(pack(input))))
    BY DEF Progress
<1>. QED
    BY <1>1, FittingDigits, AllTheWay

(* From the digits to the values that they stand for. *)
LEMMA ProgressIsEnough == ASSUME Progress PROVE ReceivedWithinAStep
<1>. SUFFICES ASSUME output # <<>>, Fits, \A i \in DOMAIN e : e[i] # NUL, NEW i \in 1..12
     PROVE  LET f == My_Beacon_Fields[i] IN
            IF f.range = 0 THEN output[i] = input[i]
            ELSE input[i] * Span(f) - output[i] * 2 * Parts \in 0..(2 * Parts - 1)
    BY Fields DEF ReceivedWithinAStep
<1>1. output[i] = DigitOf(input, i)
    BY ReceivedDigits
<1>2. input \in Beacons
    BY DEF Progress
<1>3. PICK f : f = My_Beacon_Fields[i]
    OBVIOUS
<1>4. PICK v \in Nat : v = input[i]
    BY <1>2, DigitIsNat
<1>5. CASE f.range = 0
    BY <1>1, <1>3, <1>5 DEF DigitOf, Digit
<1>6. CASE f.range # 0
  <2>1. f.num_values \in {2, 4, 32, 64} /\ f.range \in Nat
      BY <1>3, Fields
  <2>2. PICK span \in Nat : span = Span(f)
      BY <2>1 DEF Span
  <2>3. PICK unit \in Nat \ {0} : unit = 2 * Parts
      BY BeaconsAssumption
  <2>4. PICK out \in Nat : out = (v * span) \div unit
      BY WithinAStep
  <2>5. output[i] = out
      BY <1>1, <1>3, <1>4, <1>6, <2>2, <2>3, <2>4 DEF DigitOf, Digit
  <2>6. v * span - out * unit \in 0..(unit - 1)
      BY <2>4, WithinAStep
  <2>7. out * 2 * Parts = out * unit
      BY <2>3, BeaconsAssumption
  <2>. QED
      BY <1>3, <1>4, <1>6, <2>2, <2>3, <2>5, <2>6, <2>7
<1>. QED
    BY <1>3, <1>5, <1>6

(* It is so in every state. *)
LEMMA ProgressAlways == BeaconSpec => []Progress
<1>1. BeaconInit => Progress
    BY DEF BeaconInit, Progress
<1>2. Progress /\ [BeaconNext]_beaconVars => Progress'
  <2>. SUFFICES ASSUME Progress, [BeaconNext]_beaconVars PROVE Progress'
      OBVIOUS
  <2>. USE DEF Progress
  <2>1. CASE Pack
      BY <2>1 DEF Pack
  <2>2. CASE Encode
      BY <2>2 DEF Encode
  <2>3. CASE Receive
      BY <2>3 DEF Receive
  <2>4. CASE Unpack
      BY <2>4 DEF Unpack
  <2>5. CASE UNCHANGED beaconVars
      BY <2>5 DEF beaconVars
  <2>. QED
      BY <2>1, <2>2, <2>3, <2>4, <2>5 DEF BeaconNext
<1>. QED
    BY <1>1, <1>2, PTL DEF BeaconSpec

(* Whatever the number of parts and the beacons that may be sent: if the   *)
(* fields fit their digits and encode cuts off no letter, unpack returns   *)
(* each float less than a step below what was packed, and each char as it  *)
(* was.                                                                    *)
THEOREM BeaconIsReceived == BeaconSpec => []ReceivedWithinAStep
    BY ProgressAlways, ProgressIsEnough, PTL

(* The zeroes that encode removes are the one reason for which main()'s    *)
(* assertion that the packed beacon comes back can fail: of a beacon whose *)
(* fields fit, it comes back exactly when no letter was removed.           *)
NoneRemoved == \A i \in DOMAIN e : e[i] # NUL
THEOREM OnlyTrimmingBreaksRoundTrip == BeaconSpec => [](p2 # <<>> /\ Fits => (RoundTrip <=> NoneRemoved))
<1>1. Progress => (p2 # <<>> /\ Fits => (RoundTrip <=> NoneRemoved))
  <2>. SUFFICES ASSUME Progress, p2 # <<>>, Fits PROVE p2 = p1 <=> NoneRemoved
      BY DEF RoundTrip
  <2>1. input \in Beacons /\ p1 = pack(input) /\ e = encode(p1) /\ p2 = decode(e)
      BY DEF Progress
  <2>2. p1 \in SevenBytes /\ Value(p1) < Room[12]
      BY <2>1, FittingDigits, Packed
  <2>3. PICK c \in [1..10 -> 0..35] : c = Spelled(p1)
      BY <2>2, SpelledDigits
  <2>4. e = Trimmed(c) /\ DOMAIN e = 1..10 /\ NUL = 36
      BY <2>1, <2>3, TrimmedIs DEF encode, NUL, Num_Alphabet_Chars
  <2>5. CASE NoneRemoved
    <3>1. e = c
        BY <2>4, <2>5, Untrimmed DEF NoneRemoved
    <3>2. p2 \in SevenBytes /\ Value(p2) = Value(p1)
        BY <2>1, <2>2, <2>3, <3>1, ReadBack
    <3>. QED
        BY <2>2, <2>5, <3>2, SameBytes
  <2>6. CASE ~NoneRemoved
    <3>1. PICK k \in 1..10 : Trimmed(Spelled(p1))[k] = 36
        BY <2>3, <2>4, <2>6 DEF NoneRemoved
    <3>2. Value(p2) > Value(p1) /\ Value(p1) \in Nat
        BY <2>1, <2>2, <2>3, <2>4, <3>1, MoreIsRead, BytesHaveValue
    <3>. QED
        BY <2>6, <3>2
  <2>. QED
      BY <2>5, <2>6
<1>. QED
    BY <1>1, ProgressAlways, PTL

-----------------------------------------------------------------------------
(* The decoder. *)
Many == Len(Packets)

(* The packets that are sent, as far as the proofs use them. *)
LEMMA PacketsAre ==
    /\ Many \in Nat /\ DOMAIN Packets = 1..Many
    /\ \A k \in 1..Many : /\ Packets[k] \in Seq(0..255) /\ Len(Packets[k]) \in Nat /\ Len(Packets[k]) >= 4
                          /\ Packets[k][4] < 128 /\ Len(Packets[k]) = 4 + Packets[k][4]
<1>1. Packets \in Seq(Seq(0..255))
    BY PacketsAssumption
<1>2. Many \in Nat /\ DOMAIN Packets = 1..Many
    BY <1>1 DEF Many
<1>3. ASSUME NEW k \in 1..Many
      PROVE  /\ Packets[k] \in Seq(0..255) /\ Len(Packets[k]) \in Nat /\ Len(Packets[k]) >= 4
             /\ Packets[k][4] < 128 /\ Len(Packets[k]) = 4 + Packets[k][4]
  <2>1. PICK p \in Seq(0..255) : p = Packets[k]
      BY <1>1, <1>2, ElementOfSeq DEF Many
  <2>2. Len(p) >= 4 /\ p[4] < 128 /\ Len(p) = PacketLength(p)
      BY <1>2, <2>1, PacketsAssumption
  <2>3. Len(p) \in Nat
      BY <2>1
  <2>. QED
      BY <2>1, <2>2, <2>3 DEF PacketLength, Signed
<1>. QED
    BY <1>2, <1>3

(* Each packet ends its length after the one before it. *)
LEMMA Ends ==
    /\ EndOf[0] = 0 /\ \A k \in 0..Many : EndOf[k] \in Nat
    /\ \A k \in 1..Many : EndOf[k] = EndOf[k - 1] + Len(Packets[k])
<1>. DEFINE New(k, x) == x + Len(Packets[k])
            Rec(f) == f = [k \in 0..Len(Packets) |-> IF k = 0 THEN 0 ELSE New(k, f[k - 1])]
<1>1. Many \in Nat /\ Len(Packets) = Many
    BY PacketsAre DEF Many
<1>2. ASSUME NEW k \in 1..Many, NEW x \in Nat PROVE New(k, x) \in Nat
    BY PacketsAre
<1>3. EndOf = CHOOSE f : Rec(f)
    BY Zenon DEF EndOf
<1>4. \A k \in 1..Many, x \in Nat : New(k, x) = x + Len(Packets[k])
    OBVIOUS
<1>. HIDE DEF New
<1>5. PICK step : step \in [1..Many -> [Nat -> Nat]] /\ \A k \in 1..Many, x \in Nat : step[k][x] = New(k, x)
  <2>. DEFINE s == [k \in 1..Many |-> [x \in Nat |-> New(k, x)]]
  <2>1. s \in [1..Many -> [Nat -> Nat]]
      BY <1>2
  <2>2. \A k \in 1..Many, x \in Nat : s[k][x] = New(k, x)
      OBVIOUS
  <2>. HIDE DEF s
  <2>. QED
      BY <2>1, <2>2
<1>6. PICK f : Climbs(f, Nat, 0, Many, step)
    BY <1>1, <1>5, Climbing
<1>7. Rec(f)
  <2>1. ASSUME NEW k \in 1..Many PROVE f[k] = New(k, f[k - 1])
    <3>1. k - 1 \in 0..Many
        BY <1>1
    <3>2. f[k - 1] \in Nat /\ f[k] = step[k][f[k - 1]]
        BY <1>6, <3>1 DEF Climbs
    <3>. QED
        BY <1>5, <3>2
  <2>2. f = [k \in 0..Many |-> f[k]] /\ f[0] = 0
      BY <1>6 DEF Climbs
  <2>3. \A k \in 0..Many : k = 0 \/ k \in 1..Many
      BY <1>1
  <2>4. f = [k \in 0..Many |-> IF k = 0 THEN 0 ELSE New(k, f[k - 1])]
      BY <2>1, <2>2, <2>3
  <2>. QED
      BY <1>1, <2>4
<1>. HIDE DEF Rec
<1>8. Rec(EndOf)
    BY <1>3, <1>7
<1>9. EndOf[0] = 0 /\ \A k \in 1..Many : EndOf[k] = New(k, EndOf[k - 1])
    BY <1>1, <1>8 DEF Rec
<1>10. ClimbsIfTyped(EndOf, Nat, Many, step)
  <2>1. ASSUME NEW k \in 1..Many, EndOf[k - 1] \in Nat PROVE EndOf[k] = step[k][EndOf[k - 1]]
      BY <1>5, <1>9, <2>1
  <2>. QED
      BY <1>9, <2>1 DEF ClimbsIfTyped
<1>11. \A k \in 0..Many : EndOf[k] \in Nat
    BY <1>1, <1>5, <1>10, ClimbingTyped
<1>12. ASSUME NEW k \in 1..Many PROVE EndOf[k] = EndOf[k - 1] + Len(Packets[k])
  <2>1. k - 1 \in 0..Many
      BY <1>1
  <2>. QED
      BY <1>4, <1>9, <1>11, <2>1
<1>. QED
    BY <1>9, <1>11, <1>12

(* A later packet ends later. *)
LEMMA EndsGrow == \A k \in 0..Many : \A l \in k..Many : EndOf[k] <= EndOf[l]
<1>. TAKE k \in 0..Many
<1>. DEFINE S == {l \in k..Many : EndOf[k] <= EndOf[l]}
<1>1. Many \in Nat /\ k \in Int
    BY PacketsAre
<1>2. k \in S
    BY <1>1, Ends
<1>3. ASSUME NEW l \in k..(Many - 1), l \in S PROVE l + 1 \in S
  <2>1. l + 1 \in 1..Many /\ (l + 1) - 1 = l /\ l \in 0..Many /\ l + 1 \in 0..Many
      BY <1>1
  <2>2. EndOf[l + 1] = EndOf[l] + Len(Packets[l + 1]) /\ EndOf[l] \in Nat /\ EndOf[k] \in Nat
      BY <2>1, Ends
  <2>3. Len(Packets[l + 1]) \in Nat
      BY <2>1, PacketsAre
  <2>. QED
      BY <1>1, <1>3, <2>2, <2>3
<1>4. k..Many \subseteq S
  <2>. HIDE DEF S
  <2>1. PassesUp(S, k, Many)
      BY <1>3 DEF PassesUp
  <2>. QED
      BY <1>1, <1>2, <2>1, UpThrough
<1>. QED
    BY <1>4

(* The characters of the text. *)
LEMMA TextIs == Len(Text) \in Nat /\ DOMAIN Text = 1..Len(Text) /\ \A i \in 1..Len(Text) : Text[i] \in -1..15
<1>1. Text \in Seq(-1..15)
    BY TextAssumption DEF junk
<1>. QED
    BY <1>1, ElementOfSeq

(* A character is one more digit or none. *)
LEMMA DigitsAre ==
    /\ DigitsIn(0) = 0
    /\ \A i \in 1..Len(Text) : /\ DigitsIn(i) = IF Text[i] = junk THEN DigitsIn(i - 1) ELSE DigitsIn(i - 1) + 1
                               /\ DigitsIn(i - 1) \in Nat
    /\ \A i \in 0..Len(Text) : DigitsIn(i) \in Nat
<1>. DEFINE D(i) == {j \in 1..i : Text[j] # junk}
<1>1. \A i \in Nat : IsFiniteSet(D(i)) /\ Cardinality(D(i)) \in Nat
  <2>. TAKE i \in Nat
  <2>1. IsFiniteSet(1..i)
      BY FS_Interval
  <2>2. D(i) \in SUBSET (1..i)
      OBVIOUS
  <2>. QED
      BY <2>1, <2>2, FS_Subset, FS_CardinalityType
<1>2. D(0) = {}
    OBVIOUS
<1>3. ASSUME NEW i \in 1..Len(Text)
      PROVE Cardinality(D(i)) = IF Text[i] = junk THEN Cardinality(D(i - 1)) ELSE Cardinality(D(i - 1)) + 1
  <2>1. i - 1 \in Nat /\ i \in Int
      BY TextIs
  <2>2. CASE Text[i] = junk
    <3>1. D(i) = D(i - 1)
        BY <2>1, <2>2
    <3>. QED
        BY <2>2, <3>1
  <2>3. CASE Text[i] # junk
    <3>1. D(i) = D(i - 1) \cup {i} /\ i \notin D(i - 1)
        BY <2>1, <2>3
    <3>. QED
        BY <1>1, <2>1, <2>3, <3>1, FS_AddElement
  <2>. QED
      BY <2>2, <2>3
<1>4. \A i : DigitsIn(i) = Cardinality(D(i))
    BY DEF DigitsIn
<1>. HIDE DEF D
<1>5. \A i \in 1..Len(Text) : i - 1 \in Nat
    BY TextIs
<1>6. \A i \in 0..Len(Text) : i \in Nat
    BY TextIs
<1>. QED
    BY <1>1, <1>2, <1>3, <1>4, <1>5, <1>6, FS_EmptySet

DecoderStates == [data : Seq(Int), first : Int, isFirst : BOOLEAN]

(* A character leaves the decoder in a state of the same kind. *)
LEMMA CharTyped ==
    ASSUME NEW d \in DecoderStates, NEW val \in Int
    PROVE  DecodeChar(d, val) \in DecoderStates
<1>1. d.data \in Seq(Int) /\ d.first \in Int /\ d.isFirst \in BOOLEAN
    BY DEF DecoderStates
<1>2. Append(d.data, d.first + val) \in Seq(Int) /\ 16 * val \in Int
    BY <1>1
<1>. QED
    BY <1>1, <1>2 DEF DecodeChar, DecoderStates

(* d is what the decoder goes through, from start, over src. *)
GoesThrough(d, start, src) ==
    /\ d \in [0..Len(src) -> DecoderStates] /\ d[0] = start
    /\ \A i \in 1..Len(src) : d[i] = DecodeChar(d[i - 1], src[i])
    /\ DecodeFrom(start, src) = d[Len(src)]

(* There is such a sequence of states. *)
LEMMA Decoding ==
    ASSUME NEW start \in DecoderStates, NEW src \in Seq(Int)
    PROVE  \E d : GoesThrough(d, start, src)
<1>. DEFINE New(i, x) == DecodeChar(x, src[i])
            Rec(f) == f = [i \in 0..Len(src) |-> IF i = 0 THEN start ELSE New(i, f[i - 1])]
            d == CHOOSE f : Rec(f)
            S == DecoderStates
<1>0. PICK n \in Nat : n = Len(src)
    OBVIOUS
<1>1. DecodeFrom(start, src) = d[Len(src)]
    BY Zenon DEF DecodeFrom
<1>2. ASSUME NEW i \in 1..n, NEW x \in S PROVE New(i, x) \in S
    BY <1>0, CharTyped, ElementOfSeq
<1>3. \A i \in 1..n, x \in S : New(i, x) = DecodeChar(x, src[i])
    OBVIOUS
<1>. HIDE DEF New, S
<1>4. PICK step : step \in [1..n -> [S -> S]] /\ \A i \in 1..n, x \in S : step[i][x] = New(i, x)
  <2>. DEFINE s == [i \in 1..n |-> [x \in S |-> New(i, x)]]
  <2>1. s \in [1..n -> [S -> S]]
      BY <1>2
  <2>2. \A i \in 1..n, x \in S : s[i][x] = New(i, x)
      OBVIOUS
  <2>. HIDE DEF s
  <2>. QED
      BY <2>1, <2>2
<1>14. start \in S
    BY DEF S
<1>5. PICK f : Climbs(f, S, start, n, step)
    BY <1>4, <1>14, Climbing
<1>6. Rec(f)
  <2>1. ASSUME NEW i \in 1..n PROVE f[i] = New(i, f[i - 1])
    <3>1. f[i - 1] \in S /\ f[i] = step[i][f[i - 1]]
        BY <1>5 DEF Climbs
    <3>. QED
        BY <1>4, <3>1
  <2>2. f = [i \in 0..n |-> f[i]] /\ f[0] = start
      BY <1>5 DEF Climbs
  <2>3. \A i \in 0..n : i = 0 \/ i \in 1..n
      OBVIOUS
  <2>4. f = [i \in 0..n |-> IF i = 0 THEN start ELSE New(i, f[i - 1])]
      BY <2>1, <2>2, <2>3
  <2>. QED
      BY <1>0, <2>4
<1>. HIDE DEF Rec
<1>7. Rec(d)
    BY <1>6
<1>. HIDE DEF d
<1>8. /\ d[0] = start /\ d = [i \in 0..n |-> d[i]]
      /\ \A i \in 1..n : d[i] = New(i, d[i - 1])
    BY <1>0, <1>7, SMTT(30) DEF Rec
<1>9. ClimbsIfTyped(d, S, n, step)
  <2>1. ASSUME NEW i \in 1..n, d[i - 1] \in S PROVE d[i] = step[i][d[i - 1]]
      BY <1>4, <1>8, <2>1
  <2>. QED
      BY <1>8, <1>14, <2>1 DEF ClimbsIfTyped
<1>10. \A i \in 0..n : d[i] \in S
    BY <1>4, <1>9, ClimbingTyped
<1>11. d \in [0..n -> S]
    BY <1>8, <1>10
<1>12. \A i \in 1..n : d[i] = DecodeChar(d[i - 1], src[i])
  <2>. TAKE i \in 1..n
  <2>1. d[i - 1] \in S
      BY <1>10
  <2>. QED
      BY <1>3, <1>8, <2>1
<1>. QED
    BY <1>0, <1>1, <1>8, <1>11, <1>12 DEF GoesThrough, S

(* d is a decoder that has had k digits and let m packets go. *)
Holds(d, k, m) ==
    /\ d \in DecoderStates
    /\ 2 * (EndOf[m] + Len(d.data)) + (IF d.isFirst THEN 0 ELSE 1) = k
    /\ \A p \in DOMAIN Packets : \A j \in DOMAIN Packets[p] :
          /\ EndOf[p - 1] + j - EndOf[m] \in 1..Len(d.data) => d.data[EndOf[p - 1] + j - EndOf[m]] = Packets[p][j]
          /\ ~d.isFirst /\ EndOf[p - 1] + j = EndOf[m] + Len(d.data) + 1 => d.first = 16 * (Packets[p][j] \div 16)

(* A byte is made of its two digits. *)
LEMMA Nibbles == ASSUME NEW b, b \in Nat PROVE 16 * (b \div 16) + (b % 16) = b
    OBVIOUS

(* One more character of the text. *)
LEMMA HoldsOneMore ==
    ASSUME NEW m \in 0..Many, NEW i \in 1..Len(Text), NEW d, Holds(d, DigitsIn(i - 1), m)
    PROVE  Holds(DecodeChar(d, Text[i]), DigitsIn(i), m)
<1>1. PICK val \in -1..15 : val = Text[i]
    BY TextIs
<1>2. PICK k \in Nat : k = DigitsIn(i - 1)
    BY DigitsAre
<1>3. d \in DecoderStates
    BY DEF Holds
<1>4. PICK data \in Seq(Int), first \in Int, isFirst \in BOOLEAN :
         data = d.data /\ first = d.first /\ isFirst = d.isFirst
    BY <1>3 DEF DecoderStates
<1>5. PICK base \in Nat : base = EndOf[m]
    BY Ends
<1>6. 2 * (base + Len(data)) + (IF isFirst THEN 0 ELSE 1) = k
    BY <1>2, <1>4, <1>5 DEF Holds
<1>7. ASSUME NEW p \in DOMAIN Packets, NEW j \in DOMAIN Packets[p]
      PROVE  /\ EndOf[p - 1] + j - base \in 1..Len(data) => data[EndOf[p - 1] + j - base] = Packets[p][j]
             /\ ~isFirst /\ EndOf[p - 1] + j = base + Len(data) + 1 => first = 16 * (Packets[p][j] \div 16)
    BY <1>4, <1>5 DEF Holds
<1>8. CASE val < 0
  <2>2. val = junk
      BY <1>8 DEF junk
  <2>1. DecodeChar(d, val) = d /\ DigitsIn(i) = k
      BY <1>1, <1>2, <1>8, <2>2, DigitsAre DEF DecodeChar
  <2>. QED
      BY <1>1, <1>2, <2>1
<1>9. CASE val >= 0
  <2>1. DigitsIn(i) = k + 1
      BY <1>1, <1>2, <1>9, DigitsAre DEF junk
  <2>2. Spells(val, k + 1)
    <3>1. i \in DOMAIN Text /\ Text[i] # junk
        BY <1>1, <1>9, TextIs DEF junk
    <3>. QED
        BY <1>1, <2>1, <3>1, TextAssumption
  <2>3. PICK n : n = DecodeChar(d, val)
      OBVIOUS
  <2>4. n \in DecoderStates
      BY <1>3, <2>3, CharTyped
  <2>5. CASE isFirst
    <3>0. n = [data |-> data, first |-> 16 * val, isFirst |-> FALSE]
      <4>1. ~(val < 0) /\ d.isFirst = TRUE
          BY <1>4, <1>9, <2>5
      <4>. QED
          BY <1>4, <2>3, <4>1, Zenon DEF DecodeChar
    <3>1. n.data = data /\ n.first = 16 * val /\ n.isFirst = FALSE
        BY <3>0
    <3>2. 2 * (base + Len(data)) + 1 = k + 1
        BY <1>6, <2>5
    <3>3. ASSUME NEW p \in DOMAIN Packets, NEW j \in DOMAIN Packets[p], EndOf[p - 1] + j = base + Len(data) + 1
          PROVE  16 * val = 16 * (Packets[p][j] \div 16)
      <4>1. k + 1 = 2 * (EndOf[p - 1] + j) - 1
          BY <3>2, <3>3
      <4>. QED
          BY <2>2, <4>1 DEF Spells
    <3>4. Holds(n, k + 1, m)
        BY <1>5, <1>7, <2>4, <3>1, <3>2, <3>3 DEF Holds
    <3>. QED
        BY <1>1, <2>1, <2>3, <3>4
  <2>6. CASE ~isFirst
    <3>0. n = [data |-> Append(data, first + val), first |-> first, isFirst |-> TRUE]
      <4>1. ~(val < 0) /\ d.isFirst = FALSE
          BY <1>4, <1>9, <2>6
      <4>. QED
          BY <1>4, <2>3, <4>1, Zenon DEF DecodeChar
    <3>1. n.data = Append(data, first + val) /\ n.isFirst = TRUE
        BY <3>0
    <3>2. Len(n.data) = Len(data) + 1 /\ Len(data) \in Nat
        BY <3>1
    <3>3. 2 * (base + Len(n.data)) = k + 1
        BY <1>6, <2>6, <3>2
    <3>4. ASSUME NEW p \in DOMAIN Packets, NEW j \in DOMAIN Packets[p], EndOf[p - 1] + j - base \in 1..Len(n.data)
          PROVE  n.data[EndOf[p - 1] + j - base] = Packets[p][j]
      <4>1. PICK at \in 1..Len(n.data) : at = EndOf[p - 1] + j - base
          BY <3>4
      <4>2. CASE at \in 1..Len(data)
          BY <1>7, <3>1, <4>1, <4>2
      <4>3. CASE at = Len(data) + 1
        <5>1. p \in 1..Many /\ j \in 1..Len(Packets[p]) /\ Packets[p][j] \in 0..255
            BY PacketsAre, ElementOfSeq
        <5>2. PICK b \in 0..255 : b = Packets[p][j]
            BY <5>1
        <5>3. PICK before \in Nat : before = EndOf[p - 1]
          <6>1. p - 1 \in 0..Many
              BY <5>1, PacketsAre, SMTT(30)
          <6>. QED
              BY <6>1, Ends
        <5>4. j \in Int
            BY <5>1, PacketsAre
        <5>5. before + j = base + Len(data) + 1
          <6>1. at = before + j - base
              BY <4>1, <5>3
          <6>. QED
              BY <3>2, <4>3, <5>4, <6>1
        <5>6. first = 16 * (b \div 16)
            BY <1>7, <2>6, <5>2, <5>3, <5>5
        <5>7. k + 1 = 2 * (before + j)
            BY <3>2, <3>3, <5>4, <5>5
        <5>8. val = b % 16
            BY <2>2, <5>2, <5>3, <5>7 DEF Spells
        <5>9. first + val = b
            BY <5>6, <5>8, Nibbles
        <5>10. n.data[at] = first + val
            BY <3>1, <4>3
        <5>. QED
            BY <4>1, <5>2, <5>9, <5>10
      <4>. QED
          BY <3>2, <4>2, <4>3
    <3>5. Holds(n, k + 1, m)
      <4>1. 2 * (EndOf[m] + Len(n.data)) + (IF n.isFirst THEN 0 ELSE 1) = k + 1
          BY <1>5, <3>1, <3>2, <3>3
      <4>2. \A p \in DOMAIN Packets : \A j \in DOMAIN Packets[p] :
              EndOf[p - 1] + j - EndOf[m] \in 1..Len(n.data) => n.data[EndOf[p - 1] + j - EndOf[m]] = Packets[p][j]
          BY <1>5, <3>4
      <4>. QED
          BY <2>4, <3>1, <4>1, <4>2 DEF Holds
    <3>. QED
        BY <1>1, <2>1, <2>3, <3>5
  <2>. QED
      BY <2>5, <2>6
<1>. QED
    BY <1>8, <1>9

(* A whole write. *)
LEMMA HoldsTheWrite ==
    ASSUME NEW m \in 0..Many, NEW w \in 0..Len(Text), NEW c \in 1..(Len(Text) - w), NEW start,
           Holds(start, DigitsIn(w), m)
    PROVE  Holds(DecodeFrom(start, SubSeq(Text, w + 1, w + c)), DigitsIn(w + c), m)
<1>1. PICK src : src = SubSeq(Text, w + 1, w + c)
    OBVIOUS
<1>2. Len(Text) \in Nat /\ w \in Nat /\ c \in Nat /\ w + 1 \in Int /\ w + c \in Int /\ w + c <= Len(Text)
    BY TextIs
<1>3. src \in Seq(Int) /\ Len(src) = c /\ \A i \in 1..c : src[i] = Text[w + i]
  <2>1. \A i \in (w + 1)..(w + c) : Text[i] \in Int
      BY <1>2, TextIs
  <2>2. /\ src \in Seq(Int) /\ Len(src) = (IF w + 1 <= w + c THEN (w + c) - (w + 1) + 1 ELSE 0)
        /\ \A i \in 1..((w + c) - (w + 1) + 1) : src[i] = Text[(w + 1) + i - 1]
      BY <1>1, <1>2, <2>1, SubSeqProperties
  <2>3. Len(src) = c
      BY <1>2, <2>2
  <2>4. ASSUME NEW i \in 1..c PROVE src[i] = Text[w + i]
    <3>1. i \in 1..((w + c) - (w + 1) + 1) /\ (w + 1) + i - 1 = w + i
        BY <1>2
    <3>. QED
        BY <2>2, <3>1
  <2>. QED
      BY <2>2, <2>3, <2>4
<1>4. start \in DecoderStates
    BY DEF Holds
<1>5. PICK d : GoesThrough(d, start, src)
    BY <1>3, <1>4, Decoding
<1>6. /\ d \in [0..c -> DecoderStates] /\ d[0] = start /\ DecodeFrom(start, src) = d[c]
      /\ \A i \in 1..c : d[i] = DecodeChar(d[i - 1], src[i])
    BY <1>3, <1>5 DEF GoesThrough
<1>. DEFINE S == {i \in 0..c : Holds(d[i], DigitsIn(w + i), m)}
<1>7. 0 \in S
    BY <1>2, <1>6
<1>8. ASSUME NEW i \in 0..(c - 1), i \in S PROVE i + 1 \in S
  <2>1. w + (i + 1) \in 1..Len(Text) /\ (w + (i + 1)) - 1 = w + i /\ i + 1 \in 1..c /\ (i + 1) - 1 = i
      BY <1>2
  <2>2. Holds(d[i], DigitsIn(w + i), m)
      BY <1>8
  <2>3. Holds(DecodeChar(d[i], Text[w + (i + 1)]), DigitsIn(w + (i + 1)), m)
      BY <2>1, <2>2, HoldsOneMore
  <2>4. d[i + 1] = DecodeChar(d[i], Text[w + (i + 1)])
      BY <1>3, <1>6, <2>1
  <2>. QED
      BY <2>1, <2>3, <2>4
<1>9. 0..c \subseteq S
  <2>. HIDE DEF S
  <2>1. PassesUp(S, 0, c)
      BY <1>8 DEF PassesUp
  <2>. QED
      BY <1>2, <1>7, <2>1, UpThrough
<1>10. Holds(d[c], DigitsIn(w + c), m)
    BY <1>2, <1>9
<1>. QED
    BY <1>1, <1>6, <1>10

(* The packets that have come are the first ones. *)
LEMMA CompleteIs ==
    ASSUME NEW i \in 0..Len(Text)
    PROVE  /\ Complete(i) \in 0..Many
           /\ \A k \in 1..Many : k <= Complete(i) <=> 2 * EndOf[k] <= DigitsIn(i)
<1>1. PICK digits \in Nat : digits = DigitsIn(i)
    BY DigitsAre
<1>2. PICK n \in Nat : n = Many
    BY PacketsAre
<1>3. PICK T : T = {k \in 1..n : 2 * EndOf[k] <= digits}
    OBVIOUS
<1>4. PICK c \in 0..n : T = 1..c
  <2>1. CASE T = 1..n
      BY <2>1
  <2>2. CASE T # 1..n
    <3>1. (1..n) \ T \subseteq Nat /\ (1..n) \ T # {}
        BY <1>3, <2>2
    <3>2. PICK x \in (1..n) \ T : \A y \in (1..n) \ T : x <= y
        BY <3>1, NatMin
    <3>3. \A y \in 1..n : y < x => y \in T
        BY <3>2
    <3>4. ASSUME NEW y \in x..n PROVE y \notin T
      <4>1. x \in 0..Many /\ y \in x..Many /\ y \in 0..Many
          BY <1>2, <3>2
      <4>2. EndOf[x] <= EndOf[y] /\ EndOf[x] \in Nat /\ EndOf[y] \in Nat
          BY <4>1, Ends, EndsGrow
      <4>3. ~(2 * EndOf[x] <= digits)
          BY <1>3, <3>2
      <4>. QED
          BY <1>3, <4>2, <4>3
    <3>5. T = 1..(x - 1)
        BY <1>3, <3>2, <3>3, <3>4
    <3>. QED
        BY <3>2, <3>5
  <2>. QED
      BY <2>1, <2>2
<1>5. Complete(i) = Cardinality(T)
    BY <1>1, <1>2, <1>3, PacketsAre DEF Complete
<1>6. Cardinality(T) = c
    BY <1>4, FS_Interval
<1>7. \A k \in 1..n : k <= c <=> 2 * EndOf[k] <= digits
    BY <1>3, <1>4
<1>. QED
    BY <1>1, <1>2, <1>5, <1>6, <1>7

(* What the decoder has at the beginning of its data is the next packet,   *)
(* as much of it as has come.                                              *)
LEMMA NextPacket ==
    ASSUME NEW m \in 0..Many, NEW i \in 1..Len(Text), NEW d, Holds(d, DigitsIn(i), m)
    PROVE  /\ m <= Complete(i)
           /\ HasPacket(d.data) <=> m < Complete(i)
           /\ HasPacket(d.data) => LET length == PacketLength(d.data) IN
                /\ length > 0 /\ length <= Len(d.data)
                /\ m < Many /\ length = Len(Packets[m + 1]) /\ SubSeq(d.data, 1, length) = Packets[m + 1]
                /\ Holds([d EXCEPT !.data = SubSeq(d.data, length + 1, Len(d.data))], DigitsIn(i), m + 1)
<1>1. PICK data \in Seq(Int), first \in Int, isFirst \in BOOLEAN :
         data = d.data /\ first = d.first /\ isFirst = d.isFirst /\ d = [data |-> data, first |-> first, isFirst |-> isFirst]
    BY DEF Holds, DecoderStates
<1>2. PICK k \in Nat : k = DigitsIn(i)
    BY DigitsAre, TextIs
<1>3. PICK base \in Nat : base = EndOf[m]
    BY Ends
<1>4. PICK n \in Nat : n = Len(data)
    OBVIOUS
<1>5. 2 * (base + n) + (IF isFirst THEN 0 ELSE 1) = k
    BY <1>1, <1>2, <1>3, <1>4 DEF Holds
<1>6. ASSUME NEW p \in DOMAIN Packets, NEW j \in DOMAIN Packets[p]
      PROVE  /\ EndOf[p - 1] + j - base \in 1..n => data[EndOf[p - 1] + j - base] = Packets[p][j]
             /\ ~isFirst /\ EndOf[p - 1] + j = base + n + 1 => first = 16 * (Packets[p][j] \div 16)
    BY <1>1, <1>3, <1>4 DEF Holds
<1>7. PICK c \in 0..Many : c = Complete(i) /\ \A l \in 1..Many : l <= c <=> 2 * EndOf[l] <= k
  <2>1. i \in 0..Len(Text)
      BY TextIs
  <2>. QED
      BY <1>2, <2>1, CompleteIs
<1>8. PICK many \in Nat : many = Many
    BY PacketsAre
<1>9. m <= c
  <2>1. CASE m = 0
      BY <1>8, <2>1
  <2>2. CASE m # 0
    <3>1. m \in 1..Many /\ 2 * EndOf[m] <= k
        BY <1>3, <1>5, <1>8, <2>2, SMTT(30)
    <3>. QED
        BY <1>7, <3>1
  <2>. QED
      BY <2>1, <2>2
<1>10. k <= 2 * EndOf[Many]
    BY <1>2, TextAssumption, TextIs DEF Many
<1>11. CASE m = Many
  <2>1. n = 0
      BY <1>3, <1>5, <1>10, <1>11, SMTT(30)
  <2>2. ~HasPacket(data)
      BY <1>4, <2>1 DEF HasPacket
  <2>3. c = m
      BY <1>8, <1>9, <1>11
  <2>. QED
      BY <1>1, <1>7, <2>2, <2>3, <1>8
<1>12. CASE m < Many
  <2>1. m + 1 \in 1..Many /\ m + 1 \in DOMAIN Packets /\ (m + 1) - 1 = m
      BY <1>8, <1>12, PacketsAre
  <2>2. PICK next \in Seq(0..255) : next = Packets[m + 1]
      BY <2>1, PacketsAre
  <2>3. PICK size \in Nat : size = Len(next)
      OBVIOUS
  <2>4. size >= 4 /\ next[4] \in 0..127 /\ size = 4 + next[4]
    <3>1. size >= 4 /\ next[4] < 128 /\ size = 4 + next[4]
        BY <2>1, <2>2, <2>3, PacketsAre
    <3>2. 4 \in 1..Len(next)
        BY <2>3, <3>1
    <3>3. PICK b \in 0..255 : b = next[4]
        BY <3>2, ElementOfSeq
    <3>5. b < 128
        BY <3>1, <3>3
    <3>4. b \in 0..127
        BY <3>5
    <3>. QED
        BY <3>1, <3>3, <3>4
  <2>5. EndOf[m + 1] = base + size
      BY <1>3, <2>1, <2>2, <2>3, Ends
  <2>6. ASSUME NEW j \in 1..size, j <= n PROVE data[j] = next[j]
    <3>1. j \in DOMAIN Packets[m + 1]
        BY <2>2, <2>3
    <3>2. EndOf[(m + 1) - 1] + j - base = j
        BY <1>3, <2>1
    <3>3. EndOf[(m + 1) - 1] + j - base \in 1..n
        BY <2>6, <3>2
    <3>4. data[EndOf[(m + 1) - 1] + j - base] = Packets[m + 1][j]
        BY <1>6, <2>1, <3>1, <3>3
    <3>. QED
        BY <2>2, <3>2, <3>4
  <2>7. n >= 4 => PacketLength(data) = size
    <3>. HAVE n >= 4
    <3>1. data[4] = next[4]
        BY <2>4, <2>6
    <3>2. PICK b \in 0..127 : b = next[4]
        BY <2>4
    <3>3. Signed(b) = b
        BY DEF Signed
    <3>. QED
        BY <2>4, <3>1, <3>2, <3>3 DEF PacketLength
  <2>8. HasPacket(data) <=> n >= size
      BY <1>4, <2>4, <2>7 DEF HasPacket
  <2>9. m < c <=> n >= size
    <3>1. m + 1 <= c <=> 2 * (base + size) <= k
        BY <1>7, <2>1, <2>5
    <3>2. 2 * (base + size) <= k <=> n >= size
        BY <1>5
    <3>. QED
        BY <1>8, <3>1, <3>2
  <2>10. ASSUME n >= size
         PROVE  /\ SubSeq(data, 1, size) = next
                /\ Holds([d EXCEPT !.data = SubSeq(data, size + 1, n)], k, m + 1)
    <3>1. PICK taken : taken = SubSeq(data, 1, size)
        OBVIOUS
    <3>2. PICK rest : rest = SubSeq(data, size + 1, n)
        OBVIOUS
    <3>3. \A j \in 1..n : data[j] \in Int
        BY <1>4, ElementOfSeq
    <3>4. taken \in Seq(Int) /\ Len(taken) = size /\ \A j \in 1..size : taken[j] = data[j]
      <4>1. \A j \in 1..size : data[j] \in Int
          BY <2>10, <3>3
      <4>2. /\ taken \in Seq(Int) /\ Len(taken) = (IF 1 <= size THEN size - 1 + 1 ELSE 0)
            /\ \A j \in 1..(size - 1 + 1) : taken[j] = data[1 + j - 1]
          BY <3>1, <4>1, SubSeqProperties
      <4>3. \A j \in 1..size : 1 + j - 1 = j
          OBVIOUS
      <4>4. size - 1 + 1 = size /\ 1 <= size
          BY <2>4
      <4>. QED
          BY <4>2, <4>3, <4>4
    <3>5. taken = next
      <4>1. next \in Seq(Int)
        <5>1. (0..255) \subseteq Int
            OBVIOUS
        <5>. QED
            BY <5>1, SeqMonotonic
      <4>2. \A j \in 1..size : taken[j] = next[j]
          BY <2>6, <2>10, <3>4, SMTT(30)
      <4>. QED
          BY <2>3, <3>4, <4>1, <4>2, SeqEqual
    <3>6. rest \in Seq(Int) /\ Len(rest) = n - size /\ \A j \in 1..(n - size) : rest[j] = data[size + j]
      <4>1. \A j \in (size + 1)..n : data[j] \in Int
          BY <3>3
      <4>2. /\ rest \in Seq(Int) /\ Len(rest) = (IF size + 1 <= n THEN n - (size + 1) + 1 ELSE 0)
            /\ \A j \in 1..(n - (size + 1) + 1) : rest[j] = data[(size + 1) + j - 1]
          BY <3>2, <4>1, SubSeqProperties
      <4>3. n - (size + 1) + 1 = n - size /\ \A j \in Int : (size + 1) + j - 1 = size + j
          OBVIOUS
      <4>4. Len(rest) = n - size
          BY <2>10, <4>2, <4>3
      <4>5. \A j \in 1..(n - size) : rest[j] = data[size + j]
          BY <4>2, <4>3
      <4>. QED
          BY <4>2, <4>4, <4>5
    <3>7. PICK kept : kept = [d EXCEPT !.data = rest]
        OBVIOUS
    <3>8. kept = [data |-> rest, first |-> first, isFirst |-> isFirst]
        BY <1>1, <3>7
    <3>9. kept \in DecoderStates /\ kept.data = rest /\ kept.first = first /\ kept.isFirst = isFirst
        BY <3>6, <3>8 DEF DecoderStates
    <3>10. 2 * (EndOf[m + 1] + Len(rest)) + (IF isFirst THEN 0 ELSE 1) = k
        BY <1>5, <2>5, <3>6, SMTT(30)
    <3>11. ASSUME NEW p \in DOMAIN Packets, NEW j \in DOMAIN Packets[p]
           PROVE  /\ EndOf[p - 1] + j - EndOf[m + 1] \in 1..Len(rest)
                        => rest[EndOf[p - 1] + j - EndOf[m + 1]] = Packets[p][j]
                  /\ ~isFirst /\ EndOf[p - 1] + j = EndOf[m + 1] + Len(rest) + 1
                        => first = 16 * (Packets[p][j] \div 16)
      <4>1. PICK before \in Nat : before = EndOf[p - 1]
        <5>1. p - 1 \in 0..Many
            BY PacketsAre
        <5>. QED
            BY <5>1, Ends
      <4>2. j \in Int
          BY PacketsAre
      <4>3. ASSUME before + j - (base + size) \in 1..(n - size)
            PROVE  rest[before + j - (base + size)] = Packets[p][j]
        <5>1. before + j - base \in 1..n /\ size + (before + j - (base + size)) = before + j - base
            BY <4>2, <4>3
        <5>2. data[before + j - base] = Packets[p][j]
            BY <1>6, <4>1, <5>1
        <5>3. rest[before + j - (base + size)] = data[size + (before + j - (base + size))]
            BY <3>6, <4>3
        <5>. QED
            BY <5>1, <5>2, <5>3
      <4>4. ASSUME ~isFirst, before + j = base + size + (n - size) + 1
            PROVE  first = 16 * (Packets[p][j] \div 16)
        <5>1. before + j = base + n + 1
            BY <4>2, <4>4
        <5>. QED
            BY <1>6, <4>1, <4>4, <5>1
      <4>. QED
          BY <2>5, <3>6, <4>1, <4>3, <4>4
    <3>12. Holds(kept, k, m + 1)
        BY <3>9, <3>10, <3>11 DEF Holds
    <3>. QED
        BY <3>1, <3>2, <3>5, <3>7, <3>12
  <2>11. ASSUME n >= size
         PROVE  LET length == PacketLength(d.data) IN
                /\ length > 0 /\ length <= Len(d.data)
                /\ m < Many /\ length = Len(Packets[m + 1]) /\ SubSeq(d.data, 1, length) = Packets[m + 1]
                /\ Holds([d EXCEPT !.data = SubSeq(d.data, length + 1, Len(d.data))], DigitsIn(i), m + 1)
    <3>1. PacketLength(d.data) = size /\ size > 0 /\ n = Len(d.data)
        BY <1>1, <1>4, <2>4, <2>7, <2>11, SMTT(30)
    <3>. QED
        BY <1>1, <1>2, <1>12, <2>2, <2>3, <2>10, <2>11, <3>1
  <2>. QED
      BY <1>1, <1>7, <1>9, <2>8, <2>9, <2>11
<1>. QED
    BY <1>8, <1>11, <1>12

Before == [data |-> m_data, first |-> m_first, isFirst |-> m_isFirst]

(* The decoder has taken the first packets out, and keeps what is after    *)
(* them of what was written.                                               *)
InStep ==
    /\ written \in 0..Len(Text)
    /\ messages \in Seq(Seq(0..255)) /\ MessagesAreThePackets
    /\ Holds(Before, DigitsIn(written), Len(messages))
    /\ surplus \in Nat /\ Complete(written) <= Len(messages) + surplus

(* A new decoder is in step. *)
LEMMA InStepAtFirst == DecoderInit => InStep
<1>. SUFFICES ASSUME DecoderInit PROVE InStep
    OBVIOUS
<1>1. written = 0 /\ m_data = <<>> /\ m_first = 0 /\ m_isFirst = TRUE /\ messages = <<>> /\ surplus = 0
    BY DEF DecoderInit
<1>2. written \in 0..Len(Text) /\ DigitsIn(written) = 0
    BY <1>1, TextIs, DigitsAre
<1>3. messages \in Seq(Seq(0..255)) /\ Len(messages) = 0 /\ DOMAIN messages = {}
    BY <1>1
<1>4. MessagesAreThePackets
    BY <1>3, PacketsAre DEF MessagesAreThePackets, Many
<1>5. Before = [data |-> <<>>, first |-> 0, isFirst |-> TRUE]
    BY <1>1, Zenon DEF Before
<1>6. Before \in DecoderStates /\ Len(Before.data) = 0 /\ Before.isFirst = TRUE
    BY <1>5 DEF DecoderStates
<1>7. Holds(Before, 0, 0)
    BY <1>6, Ends DEF Holds
<1>8. Complete(written) = 0
  <2>1. Complete(written) \in 0..Many /\ \A k \in 1..Many : k <= Complete(written) <=> 2 * EndOf[k] <= DigitsIn(written)
      BY <1>2, CompleteIs
  <2>2. ASSUME Complete(written) # 0 PROVE FALSE
    <3>1. 1 \in 1..Many /\ 1 <= Complete(written)
        BY <2>1, <2>2, PacketsAre
    <3>2. 2 * EndOf[1] <= 0
        BY <1>2, <2>1, <3>1
    <3>3. EndOf[1] = EndOf[0] + Len(Packets[1]) /\ EndOf[0] = 0
        BY <3>1, Ends
    <3>4. Len(Packets[1]) >= 4 /\ Len(Packets[1]) \in Nat
        BY <3>1, PacketsAre
    <3>. QED
        BY <3>2, <3>3, <3>4
  <2>. QED
      BY <2>2
<1>. QED
    BY <1>1, <1>2, <1>3, <1>4, <1>7, <1>8 DEF InStep

(* It is in step after every write, whether it takes a packet out or not. *)
LEMMA InStepAfterWrite ==
    ASSUME InStep, NEW n \in 1..(Len(Text) - written), Write(n)
    PROVE  InStep'
<1>1. PICK m \in 0..Many : m = Len(messages)
    BY PacketsAre DEF InStep, MessagesAreThePackets, Many
<1>2. PICK w \in 0..Len(Text) : w = written
    BY DEF InStep
<1>3. w + n \in 1..Len(Text) /\ w + n \in 0..Len(Text)
    BY <1>2, TextIs
<1>4. PICK d : d = Decoder_decode(SubSeq(Text, written + 1, written + n))
    OBVIOUS
<1>5. Holds(d, DigitsIn(w + n), m)
  <2>1. d = DecodeFrom(Before, SubSeq(Text, w + 1, w + n))
      BY <1>2, <1>4 DEF Decoder_decode, Before
  <2>2. Holds(Before, DigitsIn(w), m)
      BY <1>1, <1>2 DEF InStep
  <2>. QED
      BY <1>2, <2>1, <2>2, HoldsTheWrite
<1>6. PICK length : length = PacketLength(d.data)
    OBVIOUS
<1>7. PICK c \in 0..Many : c = Complete(w)
    BY <1>2, CompleteIs
<1>8. PICK new \in 0..Many : new = Complete(w + n)
    BY <1>3, CompleteIs
<1>9. /\ m <= new /\ (HasPacket(d.data) <=> m < new)
      /\ HasPacket(d.data) =>
            /\ length > 0 /\ length <= Len(d.data)
            /\ m < Many /\ length = Len(Packets[m + 1]) /\ SubSeq(d.data, 1, length) = Packets[m + 1]
            /\ Holds([d EXCEPT !.data = SubSeq(d.data, length + 1, Len(d.data))], DigitsIn(w + n), m + 1)
    BY <1>3, <1>5, <1>6, <1>8, NextPacket
<1>10. /\ written' = w + n /\ m_first' = d.first /\ m_isFirst' = d.isFirst
       /\ IF HasPacket(d.data)
          THEN /\ messages' = Append(messages, SubSeq(d.data, 1, length))
               /\ m_data' = IF length <= 0 THEN d.data ELSE SubSeq(d.data, length + 1, Len(d.data))
          ELSE messages' = messages /\ m_data' = d.data
       /\ surplus' = IF new - c > 1 THEN surplus + (new - c) - 1 ELSE surplus
  <2>. HIDE DEF HasPacket, Complete, PacketLength, Decoder_decode
  <2>. QED
      BY <1>2, <1>4, <1>6, <1>7, <1>8, Zenon DEF Write
<1>11. PICK many \in Nat : many = Many
    BY PacketsAre
<1>12. d = [data |-> d.data, first |-> d.first, isFirst |-> d.isFirst]
    BY <1>5 DEF Holds, DecoderStates
<1>13. surplus \in Nat /\ c <= m + surplus
    BY <1>1, <1>2, <1>7 DEF InStep
<1>14. CASE HasPacket(d.data)
  <2>1. messages' = Append(messages, Packets[m + 1]) /\ m_data' = SubSeq(d.data, length + 1, Len(d.data)) /\ m + 1 \in 1..Many
    <3>1. m + 1 \in 1..Many /\ length = Len(Packets[m + 1]) /\ length > 0 /\ SubSeq(d.data, 1, length) = Packets[m + 1]
        BY <1>9, <1>11, <1>14, SMTT(30)
    <3>2. length \in Nat /\ ~(length <= 0)
        BY <3>1, PacketsAre
    <3>. QED
        BY <1>10, <1>14, <3>1, <3>2
  <2>2. Packets[m + 1] \in Seq(0..255) /\ messages \in Seq(Seq(0..255))
      BY <2>1, PacketsAre DEF InStep
  <2>3. /\ messages' \in Seq(Seq(0..255)) /\ Len(messages') = m + 1 /\ DOMAIN messages' = 1..(m + 1)
        /\ \A k \in 1..(m + 1) : messages'[k] = IF k = m + 1 THEN Packets[m + 1] ELSE messages[k]
      BY <1>1, <2>1, <2>2
  <2>4. MessagesAreThePackets'
    <3>0. DOMAIN messages = 1..m
        BY <1>1, <2>2
    <3>1. \A k \in 1..m : messages[k] = Packets[k]
        BY <3>0 DEF InStep, MessagesAreThePackets
    <3>2. \A k \in 1..(m + 1) : messages'[k] = Packets[k]
        BY <2>3, <3>1
    <3>3. m + 1 <= Len(Packets)
        BY <2>1, <1>11 DEF Many
    <3>. QED
        BY <2>3, <3>2, <3>3 DEF MessagesAreThePackets
  <2>5. Before' = [d EXCEPT !.data = SubSeq(d.data, length + 1, Len(d.data))]
    <3>0. PICK rest : rest = SubSeq(d.data, length + 1, Len(d.data))
        OBVIOUS
    <3>2. PICK x, y, z : x = d.data /\ y = d.first /\ z = d.isFirst /\ d = [data |-> x, first |-> y, isFirst |-> z]
        BY <1>12
    <3>3. [d EXCEPT !.data = rest] = [data |-> rest, first |-> y, isFirst |-> z]
        BY <3>2
    <3>1. [d EXCEPT !.data = SubSeq(d.data, length + 1, Len(d.data))]
            = [data |-> SubSeq(d.data, length + 1, Len(d.data)), first |-> d.first, isFirst |-> d.isFirst]
        BY <3>0, <3>2, <3>3, Zenon
    <3>. QED
        BY <1>10, <2>1, <3>1, Zenon DEF Before
  <2>6. Holds(Before', DigitsIn(written'), Len(messages'))
      BY <1>9, <1>10, <1>14, <2>3, <2>5
  <2>7. surplus' \in Nat /\ new <= m + 1 + surplus'
    <3>1. CASE new - c > 1
        BY <1>10, <1>11, <1>13, <3>1
    <3>2. CASE ~(new - c > 1)
        BY <1>10, <1>11, <1>13, <3>2
    <3>. QED
        BY <3>1, <3>2
  <2>8. Complete(written') = new
      BY <1>8, <1>10
  <2>. QED
      BY <1>3, <1>10, <2>3, <2>4, <2>6, <2>7, <2>8 DEF InStep, Before, Holds, Complete, DigitsIn
<1>15. CASE ~HasPacket(d.data)
  <2>1. messages' = messages /\ m_data' = d.data
      BY <1>10, <1>15
  <2>2. messages' \in Seq(Seq(0..255)) /\ MessagesAreThePackets' /\ Len(messages') = m
      BY <1>1, <2>1 DEF InStep, MessagesAreThePackets
  <2>3. Before' = d
      BY <1>10, <1>12, <2>1, Zenon DEF Before
  <2>4. Holds(Before', DigitsIn(written'), Len(messages'))
      BY <1>5, <1>10, <2>2, <2>3
  <2>5. surplus' \in Nat /\ new <= m + surplus'
      BY <1>7, <1>8, <1>9, <1>10, <1>11, <1>13, <1>15
  <2>6. Complete(written') = new
      BY <1>8, <1>10
  <2>. QED
      BY <1>3, <1>10, <2>2, <2>4, <2>5, <2>6 DEF InStep, Before, Holds, Complete, DigitsIn
<1>. QED
    BY <1>14, <1>15

(* So it always is. *)
LEMMA InStepAlways == DecoderSpec => []InStep
<1>1. InStep /\ [DecoderNext]_decoderVars => InStep'
  <2>. SUFFICES ASSUME InStep, [DecoderNext]_decoderVars PROVE InStep'
      OBVIOUS
  <2>1. CASE DecoderNext
      BY <2>1, InStepAfterWrite DEF DecoderNext
  <2>2. CASE UNCHANGED decoderVars
      BY <2>2 DEF decoderVars, InStep, Before, Holds, Complete, DigitsIn, MessagesAreThePackets
  <2>. QED
      BY <2>1, <2>2
<1>. QED
    BY <1>1, InStepAtFirst, PTL DEF DecoderSpec

(* Whatever packets are sent, with whatever junk among their digits, and   *)
(* wherever the writes cut the text, the messages are the first packets.   *)
THEOREM PacketsComeInOrder == DecoderSpec => []MessagesAreThePackets
<1>1. InStep => MessagesAreThePackets
    BY DEF InStep
<1>. QED
    BY <1>1, InStepAlways, PTL

(* As many packets wait in the decoder at most as were completed together  *)
(* with another by one write.                                              *)
THEOREM PacketsAreNotLate == DecoderSpec => []LateOnlyAfterBursts
<1>1. InStep => LateOnlyAfterBursts
  <2>. SUFFICES ASSUME InStep PROVE LateOnlyAfterBursts
      OBVIOUS
  <2>1. PICK m \in 0..Many : m = Len(messages)
      BY PacketsAre DEF InStep, MessagesAreThePackets, Many
  <2>2. PICK w \in 0..Len(Text) : w = written
      BY DEF InStep
  <2>3. PICK c \in 0..Many : c = Complete(w)
      BY CompleteIs
  <2>4. surplus \in Nat /\ c <= m + surplus
      BY <2>1, <2>2, <2>3 DEF InStep
  <2>5. m <= c
    <3>1. CASE m = 0
        BY <3>1, PacketsAre
    <3>2. CASE m # 0
      <4>1. m \in 1..Many
          BY <3>2, PacketsAre
      <4>2. PICK n \in Nat : n = Len(m_data)
        <5>1. Before.data \in Seq(Int)
            BY DEF InStep, Holds, DecoderStates
        <5>2. m_data \in Seq(Int)
            BY <5>1 DEF Before
        <5>. QED
            BY <5>2
      <4>3. 2 * (EndOf[m] + n) + (IF m_isFirst THEN 0 ELSE 1) = DigitsIn(w)
          BY <2>1, <2>2, <4>2 DEF InStep, Holds, Before
      <4>4. 2 * EndOf[m] <= DigitsIn(w)
          BY <4>3, Ends, DigitsAre
      <4>. QED
          BY <2>2, <2>3, <4>1, <4>4, CompleteIs
    <3>. QED
        BY <3>1, <3>2
  <2>. QED
      BY <2>1, <2>2, <2>3, <2>4, <2>5, PacketsAre DEF LateOnlyAfterBursts
<1>. QED
    BY <1>1, InStepAlways, PTL

-----------------------------------------------------------------------------
(* The tree.  A path is the letters on the way to a node or a slot. *)
Paths == Seq(Letters)

(* The addresses without a place are no paths, and differ. *)
LEMMA NoPlace ==
    /\ Root \in Paths
    /\ NULL \notin Paths /\ stockNode \notin Paths /\ stockLeafNode \notin Paths
    /\ NULL # stockNode /\ NULL # stockLeafNode /\ stockNode # stockLeafNode
<1>1. ASSUME NEW i \in {-1, -2, -3} PROVE <<i>> \notin Paths
  <2>. SUFFICES ASSUME <<i>> \in Seq(Letters) PROVE FALSE
      BY DEF Paths
  <2>1. Len(<<i>>) = 1 /\ <<i>>[1] = i
      OBVIOUS
  <2>2. <<i>>[1] \in Letters
      BY <2>1, ElementOfSeq
  <2>. QED
      BY <2>1, <2>2 DEF Letters
<1>2. Root \in Paths
    BY EmptySeq DEF Root, Paths
<1>3. NULL # stockNode /\ NULL # stockLeafNode /\ stockNode # stockLeafNode
  <2>1. NULL[1] = -1 /\ stockNode[1] = -2 /\ stockLeafNode[1] = -3
      BY DEF NULL, stockNode, stockLeafNode
  <2>. QED
      BY <2>1
<1>. QED
    BY <1>1, <1>2, <1>3 DEF NULL, stockNode, stockLeafNode

(* One letter further, and back. *)
LEMMA Further ==
    ASSUME NEW a \in Paths, NEW ch \in Letters
    PROVE  /\ Append(a, ch) \in Paths /\ Append(a, ch) # Root /\ Append(a, ch) # a
           /\ Front(Append(a, ch)) = a /\ Last(Append(a, ch)) = ch
           /\ Len(Append(a, ch)) = Len(a) + 1
<1>. DEFINE p == Append(a, ch)
<1>1. /\ p \in Seq(Letters) /\ p # <<>> /\ Len(p) = Len(a) + 1 /\ Len(a) \in Nat
      /\ \A i \in 1..Len(a) : p[i] = a[i]
      /\ p[Len(a) + 1] = ch
    BY AppendProperties, LenProperties DEF Paths
<1>. HIDE DEF p
<1>2. Front(p) = SubSeq(p, 1, Len(a))
    BY <1>1 DEF Front
<1>3. /\ Len(SubSeq(p, 1, Len(a))) = Len(a) /\ SubSeq(p, 1, Len(a)) \in Seq(Letters)
      /\ \A i \in 1..Len(a) : SubSeq(p, 1, Len(a))[i] = p[i]
  <2>1. \A i \in 1..Len(a) : p[i] \in Letters
      BY <1>1, ElementOfSeq
  <2>. QED
      BY <1>1, <2>1, SubSeqProperties
<1>4. Front(p) = a
    BY <1>1, <1>2, <1>3, SeqEqual DEF Paths
<1>5. p # a
    BY <1>1
<1>. QED
    BY <1>1, <1>4, <1>5 DEF Last, Paths, Root, p

(* And one letter back. *)
LEMMA Back ==
    ASSUME NEW p \in Paths, p # Root
    PROVE  Front(p) \in Paths /\ Last(p) \in Letters /\ p = Append(Front(p), Last(p))
<1>1. PICK a \in Paths, ch \in Letters : p = Append(a, ch)
    BY SequenceEmptyOrAppend DEF Paths, Root
<1>. QED
    BY <1>1, Further

(* Different ways lead to different places. *)
LEMMA OneWay ==
    ASSUME NEW a \in Paths, NEW ch \in Letters, NEW b \in Paths, NEW c \in Letters,
           Append(a, ch) = Append(b, c)
    PROVE  a = b /\ ch = c
<1>1. Front(Append(a, ch)) = a /\ Last(Append(a, ch)) = ch
    BY Further
<1>2. Front(Append(b, c)) = b /\ Last(Append(b, c)) = c
    BY Further
<1>. QED
    BY <1>1, <1>2

(* There are 26 letters, and they are numbers. *)
LEMMA LettersFinite == IsFiniteSet(Letters) /\ Cardinality(Letters) = 26 /\ Letters \subseteq Int
<1>1. IsFiniteSet(0..25) /\ Cardinality(0..25) = IF 0 > 25 THEN 0 ELSE 25 - 0 + 1
  <2>1. 0 \in Int /\ 25 \in Int
      OBVIOUS
  <2>. QED
      BY <2>1, FS_Interval
<1>. QED
    BY <1>1 DEF Letters

(* So a node has 26 bits at most. *)
LEMMA ActiveFinite ==
    ASSUME NEW active \in SUBSET Letters
    PROVE  IsFiniteSet(active) /\ Cardinality(active) \in 0..26
<1>1. IsFiniteSet(active) /\ Cardinality(active) <= 26
    BY LettersFinite, FS_Subset
<1>2. Cardinality(active) \in Nat
    BY <1>1, FS_CardinalityType
<1>. QED
    BY <1>1, <1>2

(* The bits below a letter are not more than all of them, and fewer if the *)
(* letter's bit is among them.                                             *)
LEMMA BelowIs ==
    ASSUME NEW active \in SUBSET Letters, NEW ch \in Letters
    PROVE  /\ Below(active, ch) \in Nat /\ Below(active, ch) \in 0..Cardinality(active)
           /\ ch \in active => Below(active, ch) < Cardinality(active)
<1>. DEFINE L == {c \in active : c < ch}
<1>1. IsFiniteSet(active) /\ IsFiniteSet(L) /\ L \subseteq active
    BY ActiveFinite, FS_Subset
<1>2. Cardinality(L) \in Nat /\ Cardinality(active) \in Nat /\ Cardinality(L) <= Cardinality(active)
    BY <1>1, FS_Subset, FS_CardinalityType
<1>3. ASSUME ch \in active PROVE Cardinality(L) < Cardinality(active)
  <2>1. ch \notin L
      BY DEF Letters
  <2>2. Cardinality(L) # Cardinality(active)
      BY <1>1, <1>3, <2>1, FS_Subset
  <2>. QED
      BY <1>2, <2>2
<1>. QED
    BY <1>2, <1>3 DEF Below

(* Of two letters with a bit, more bits are below the higher one. *)
LEMMA BelowGrows ==
    ASSUME NEW active \in SUBSET Letters, NEW c \in active, NEW d \in Letters, c < d
    PROVE  Below(active, c) < Below(active, d)
<1>. DEFINE L == {x \in active : x < c}
            M == {x \in active : x < d}
<1>0. c \in Int /\ d \in Int /\ \A x \in active : x \in Int
    BY LettersFinite
<1>1. L \subseteq M /\ c \in M /\ c \notin L
  <2>1. ASSUME NEW x \in active, x < c PROVE x < d
      BY <1>0, <2>1
  <2>2. ~(c < c)
      BY <1>0
  <2>. QED
      BY <2>1, <2>2
<1>3. IsFiniteSet(M)
  <2>1. IsFiniteSet(active) /\ M \in SUBSET active
      BY ActiveFinite
  <2>. QED
      BY <2>1, FS_Subset
<1>2. IsFiniteSet(L) /\ Cardinality(L) \in Nat /\ Cardinality(M) \in Nat
        /\ Cardinality(L) <= Cardinality(M) /\ Cardinality(L) # Cardinality(M)
    BY <1>1, <1>3, FS_Subset, FS_CardinalityType
<1>. QED
    BY <1>2 DEF Below

(* So letters with a bit differ in the bits below them. *)
LEMMA BelowTells ==
    ASSUME NEW active \in SUBSET Letters, NEW c \in active, NEW d \in active,
           Below(active, c) = Below(active, d)
    PROVE  c = d
<1>1. c \in Int /\ d \in Int /\ c \in Letters /\ d \in Letters
    BY LettersFinite
<1>2. Below(active, c) \in Int
    BY BelowIs, <1>1
<1>3. CASE c < d
    BY <1>1, <1>2, <1>3, BelowGrows
<1>4. CASE d < c
    BY <1>1, <1>2, <1>4, BelowGrows
<1>. QED
    BY <1>1, <1>3, <1>4

(* One more bit counts for the letters above it. *)
LEMMA BelowWithOneMore ==
    ASSUME NEW active \in SUBSET Letters, NEW ch \in Letters \ active, NEW c \in Letters
    PROVE  Below(active \cup {ch}, c) = IF ch < c THEN Below(active, c) + 1 ELSE Below(active, c)
<1>. DEFINE L == {x \in active : x < c}
            M == {x \in active \cup {ch} : x < c}
<1>1. IsFiniteSet(L)
    BY ActiveFinite, FS_Subset
<1>2. CASE ch < c
  <2>1. M = L \cup {ch} /\ ch \notin L
      BY <1>2
  <2>2. Cardinality(M) = Cardinality(L) + 1
      BY <1>1, <2>1, FS_AddElement
  <2>. QED
      BY <1>2, <2>2 DEF Below
<1>3. CASE ~(ch < c)
  <2>1. M = L
      BY <1>3
  <2>. QED
      BY <1>3, <2>1 DEF Below
<1>. QED
    BY <1>2, <1>3

(* A sequence with one more element, and those from there on shifted. *)
Shifted(t, seq, i, v) ==
    /\ Len(t) = Len(seq) + 1 /\ t[i] = v
    /\ \A j \in 1..Len(seq) : t[IF j < i THEN j ELSE j + 1] = seq[j]

(* InsertAt does that. *)
LEMMA InsertedAt ==
    ASSUME NEW S, NEW seq \in Seq(S), NEW v \in S, NEW i \in 1..(Len(seq) + 1)
    PROVE  InsertAt(seq, i, v) \in Seq(S) /\ Shifted(InsertAt(seq, i, v), seq, i, v)
<1>. DEFINE n == Len(seq)
            s1 == SubSeq(seq, 1, i - 1)
            s2 == SubSeq(seq, i, n)
            t == s1 \o <<v>>
<1>0. n \in Nat /\ i \in Nat /\ \A j \in 1..n : seq[j] \in S
    BY LenProperties, ElementOfSeq
<1>1. s1 \in Seq(S) /\ Len(s1) = i - 1 /\ \A j \in 1..(i - 1) : s1[j] = seq[j]
  <2>1. /\ SubSeq(seq, 1, i - 1) \in Seq(S)
        /\ Len(SubSeq(seq, 1, i - 1)) = IF 1 <= i - 1 THEN (i - 1) - 1 + 1 ELSE 0
        /\ \A j \in 1..((i - 1) - 1 + 1) : SubSeq(seq, 1, i - 1)[j] = seq[1 + j - 1]
    <3>1. \A j \in 1..(i - 1) : seq[j] \in S
        BY <1>0
    <3>. QED
        BY <1>0, <3>1, SubSeqProperties
  <2>. QED
      BY <1>0, <2>1
<1>2. s2 \in Seq(S) /\ Len(s2) = n + 1 - i /\ \A j \in 1..(n + 1 - i) : s2[j] = seq[i + j - 1]
  <2>1. /\ SubSeq(seq, i, n) \in Seq(S)
        /\ Len(SubSeq(seq, i, n)) = IF i <= n THEN n - i + 1 ELSE 0
        /\ \A j \in 1..(n - i + 1) : SubSeq(seq, i, n)[j] = seq[i + j - 1]
    <3>1. \A j \in i..n : seq[j] \in S
        BY <1>0
    <3>. QED
        BY <1>0, <3>1, SubSeqProperties
  <2>. QED
      BY <1>0, <2>1
<1>3. <<v>> \in Seq(S) /\ Len(<<v>>) = 1 /\ <<v>>[1] = v
    OBVIOUS
<1>. HIDE DEF s1, s2, n
<1>4. t \in Seq(S) /\ Len(t) = i /\ \A j \in 1..i : t[j] = IF j <= i - 1 THEN s1[j] ELSE <<v>>[j - (i - 1)]
    BY <1>0, <1>1, <1>3, ConcatProperties
<1>. HIDE DEF t
<1>5. /\ t \o s2 \in Seq(S) /\ Len(t \o s2) = n + 1
      /\ \A j \in 1..(n + 1) : (t \o s2)[j] = IF j <= i THEN t[j] ELSE s2[j - i]
    BY <1>0, <1>2, <1>4, ConcatProperties DEF n
<1>6. InsertAt(seq, i, v) = t \o s2
    BY DEF InsertAt, t, s1, s2, n
<1>7. (t \o s2)[i] = v
  <2>1. i \in 1..(n + 1) /\ i \in 1..i /\ ~(i <= i - 1) /\ i - (i - 1) = 1
      BY <1>0 DEF n
  <2>. QED
      BY <1>3, <1>4, <1>5, <2>1
<1>8. ASSUME NEW j \in 1..n PROVE (t \o s2)[IF j < i THEN j ELSE j + 1] = seq[j]
  <2>1. CASE j < i
    <3>1. j \in 1..(n + 1) /\ j \in 1..i /\ j <= i - 1 /\ j \in 1..(i - 1)
        BY <1>0, <2>1
    <3>. QED
        BY <1>1, <1>4, <1>5, <2>1, <3>1
  <2>2. CASE ~(j < i)
    <3>1. j + 1 \in 1..(n + 1) /\ ~(j + 1 <= i) /\ (j + 1) - i \in 1..(n + 1 - i) /\ i + ((j + 1) - i) - 1 = j
        BY <1>0, <2>2 DEF n
    <3>2. (t \o s2)[j + 1] = s2[(j + 1) - i] /\ s2[(j + 1) - i] = seq[j]
        BY <1>2, <1>5, <3>1
    <3>. QED
        BY <2>2, <3>2
  <2>. QED
      BY <2>1, <2>2
<1>. QED
    BY <1>5, <1>6, <1>7, <1>8 DEF n, Shifted

(* The capacity is the least that will do. *)
LEMMA CapacityIs ==
    ASSUME NEW size \in 0..26
    PROVE  /\ nodeCapacity(size) \in Capacities /\ nodeCapacity(size) >= size
           /\ \A d \in Capacities : d >= size => d >= nodeCapacity(size)
<1>. USE DEF Capacities
<1>1. \E c \in Capacities : c >= size /\ \A d \in Capacities : d >= size => d >= c
  <2>1. CASE size \in 0..1
      <3>. WITNESS 1 \in Capacities
      <3>. QED
          BY <2>1
  <2>2. CASE size = 2
      <3>. WITNESS 2 \in Capacities
      <3>. QED
          BY <2>2
  <2>3. CASE size \in 3..4
      <3>. WITNESS 4 \in Capacities
      <3>. QED
          BY <2>3
  <2>4. CASE size \in 5..8
      <3>. WITNESS 8 \in Capacities
      <3>. QED
          BY <2>4
  <2>5. CASE size \in 9..16
      <3>. WITNESS 16 \in Capacities
      <3>. QED
          BY <2>5
  <2>6. CASE size \in 17..26
      <3>. WITNESS 26 \in Capacities
      <3>. QED
          BY <2>6
  <2>. QED
      BY <2>1, <2>2, <2>3, <2>4, <2>5, <2>6
<1>. QED
    BY <1>1 DEF nodeCapacity

(* A node with room for one more needs no other capacity then. *)
LEMMA CapacityOfOneMore ==
    ASSUME NEW size \in 0..25
    PROVE  /\ nodeCapacity(size) \in 1..26 /\ nodeCapacity(size + 1) \in 1..26
           /\ nodeCapacity(size) <= nodeCapacity(size + 1)
           /\ size < nodeCapacity(size) => nodeCapacity(size + 1) = nodeCapacity(size)
           /\ nodeCapacity(0) = 1
<1>. DEFINE c == nodeCapacity(size)
            d == nodeCapacity(size + 1)
<1>1. c \in Capacities /\ c >= size /\ \A x \in Capacities : x >= size => x >= c
    BY CapacityIs
<1>2. d \in Capacities /\ d >= size + 1 /\ \A x \in Capacities : x >= size + 1 => x >= d
  <2>1. size + 1 \in 0..26
      OBVIOUS
  <2>. QED
      BY <2>1, CapacityIs
<1>3. nodeCapacity(0) \in Capacities /\ \A x \in Capacities : x >= 0 => x >= nodeCapacity(0)
  <2>1. 0 \in 0..26
      OBVIOUS
  <2>. QED
      BY <2>1, CapacityIs
<1>. HIDE DEF c, d
<1>4. c \in 1..26 /\ d \in 1..26
    BY <1>1, <1>2 DEF Capacities
<1>5. c <= d
    BY <1>1, <1>2, <1>4
<1>6. size < c => d = c
    BY <1>1, <1>2, <1>4, <1>5
<1>7. nodeCapacity(0) = 1
    BY <1>3 DEF Capacities
<1>. QED
    BY <1>4, <1>5, <1>6, <1>7 DEF c, d

-----------------------------------------------------------------------------
(* What is always true of the nodes.  Each has a place, and so many        *)
(* children as it has bits; a child is the node in its place, if there is  *)
(* one, or else a stock node; and no node is without the one before it.    *)
Nodes == [active : SUBSET Letters, ends : BOOLEAN, children : Seq(Seq(Int)), capacity : Nat]
Typed(h) == DOMAIN h \subseteq Paths /\ IsFiniteSet(DOMAIN h) /\ h \in [DOMAIN h -> Nodes]
Sized(h) == \A a \in DOMAIN h : /\ Len(h[a].children) = nodeSize(h[a])
                                /\ h[a].capacity = nodeCapacity(nodeSize(h[a]))
Linked(h) == \A a \in DOMAIN h : \A ch \in h[a].active :
                 IF Append(a, ch) \in DOMAIN h THEN Child(h, a, ch) = Append(a, ch) ELSE Child(h, a, ch) \in Stock
IsSlot(h, a, ch) == a \in DOMAIN h /\ ch \in h[a].active
Rooted(h) == \A a \in Paths : \A ch \in Letters : Append(a, ch) \in DOMAIN h => IsSlot(h, a, ch)
IsTree(h) == Typed(h) /\ Sized(h) /\ Linked(h) /\ Rooted(h)

(* The words that end in the tree. *)
Marked(h, a, ch) == /\ IsSlot(h, a, ch)
                    /\ \/ Child(h, a, ch) = stockLeafNode
                       \/ Append(a, ch) \in DOMAIN h /\ h[Append(a, ch)].ends
Held(h) == {p \in Paths \ {Root} : Marked(h, Front(p), Last(p))}

(* What a node of a typed tree consists of. *)
LEMMA NodeIs ==
    ASSUME NEW h, Typed(h), NEW a \in DOMAIN h
    PROVE  /\ a \in Paths /\ h[a] \in Nodes
           /\ h[a].active \in SUBSET Letters /\ h[a].ends \in BOOLEAN
           /\ h[a].children \in Seq(Seq(Int)) /\ h[a].capacity \in Nat
           /\ nodeSize(h[a]) \in 0..26
<1>1. a \in Paths /\ h[a] \in Nodes
    BY DEF Typed
<1>2. /\ h[a].active \in SUBSET Letters /\ h[a].ends \in BOOLEAN
      /\ h[a].children \in Seq(Seq(Int)) /\ h[a].capacity \in Nat
    BY <1>1 DEF Nodes
<1>. QED
    BY <1>1, <1>2, ActiveFinite DEF nodeSize

(* The index of a letter with a bit is one of the children's. *)
LEMMA IndexIs ==
    ASSUME NEW node \in Nodes, Len(node.children) = nodeSize(node), NEW ch \in node.active
    PROVE  Index(node, ch) \in 1..Len(node.children)
<1>1. node.active \in SUBSET Letters /\ ch \in Letters
    BY DEF Nodes
<1>2. Below(node.active, ch) \in 0..Cardinality(node.active) /\ Below(node.active, ch) < Cardinality(node.active)
    BY <1>1, BelowIs
<1>3. Cardinality(node.active) \in 0..26
    BY <1>1, ActiveFinite
<1>. QED
    BY <1>2, <1>3 DEF Index, nodeSize

(* A pointer is put into a slot. *)
Put(h, a, ch, v) == [h EXCEPT ![a].children[Index(h[a], ch)] = v]

(* The node has the pointer in that slot then, and the rest of it stays. *)
LEMMA PutNode ==
    ASSUME NEW node \in Nodes, Len(node.children) = nodeSize(node), NEW ch \in node.active, NEW v \in Seq(Int)
    PROVE  LET new == [node EXCEPT !.children[Index(node, ch)] = v]
           IN  /\ new \in Nodes
               /\ new.active = node.active /\ new.ends = node.ends /\ new.capacity = node.capacity
               /\ Len(new.children) = Len(node.children)
               /\ new.children[Index(node, ch)] = v
               /\ \A c \in node.active : c # ch => new.children[Index(new, c)] = node.children[Index(node, c)]
<1>. DEFINE i == Index(node, ch)
            kids == [node.children EXCEPT ![i] = v]
            new == [node EXCEPT !.children[i] = v]
<1>1. i \in 1..Len(node.children)
    BY IndexIs
<1>2. node.children \in Seq(Seq(Int)) /\ node.active \in SUBSET Letters
    BY DEF Nodes
<1>3. /\ kids \in Seq(Seq(Int)) /\ Len(kids) = Len(node.children)
      /\ \A j \in 1..Len(node.children) : kids[j] = IF j = i THEN v ELSE node.children[j]
    BY <1>1, <1>2, ExceptSeq
<1>4. /\ new \in [active : SUBSET Letters, ends : BOOLEAN, children : Seq(Seq(Int)), capacity : Nat]
      /\ new.active = node.active /\ new.ends = node.ends /\ new.capacity = node.capacity /\ new.children = kids
  <2>. HIDE DEF i
  <2>. QED
      BY <1>3 DEF Nodes
<1>5. ASSUME NEW c \in node.active, c # ch PROVE kids[Index(new, c)] = node.children[Index(node, c)]
  <2>1. Index(new, c) = Index(node, c)
      BY <1>4 DEF Index
  <2>2. Index(node, c) \in 1..Len(node.children)
      BY IndexIs
  <2>3. Index(node, c) # i
    <3>1. Below(node.active, c) # Below(node.active, ch)
        BY <1>2, <1>5, BelowTells
    <3>2. Below(node.active, c) \in Nat /\ Below(node.active, ch) \in Nat
      <4>1. c \in Letters /\ ch \in Letters
          BY <1>2
      <4>. QED
          BY <1>2, <4>1, BelowIs
    <3>. QED
        BY <3>1, <3>2 DEF Index
  <2>. QED
      BY <1>3, <2>1, <2>2, <2>3
<1>. HIDE DEF kids, i, new
<1>. QED
    BY <1>1, <1>3, <1>4, <1>5 DEF Nodes, new, i

(* Paths and stock nodes are sequences of numbers, as children are. *)
LEMMA PathsAreSequences == Paths \subseteq Seq(Int) /\ Stock \subseteq Seq(Int)
<1>1. ASSUME NEW p \in Paths PROVE p \in Seq(Int)
    BY LettersFinite, SeqMonotonic DEF Paths
<1>2. stockNode \in Seq(Int) /\ stockLeafNode \in Seq(Int)
    BY DEF stockNode, stockLeafNode
<1>. QED
    BY <1>1, <1>2 DEF Stock

(* The nodes are the same but for what their slots point to. *)
SameNodes(g, h) ==
    /\ DOMAIN g = DOMAIN h
    /\ \A b \in DOMAIN h : /\ g[b].active = h[b].active /\ g[b].ends = h[b].ends /\ g[b].capacity = h[b].capacity
                           /\ Len(g[b].children) = Len(h[b].children)

(* So does the rest of the tree. *)
LEMMA PutIs ==
    ASSUME NEW h, Typed(h), Sized(h), NEW a, NEW ch, IsSlot(h, a, ch), NEW v \in Seq(Int)
    PROVE  LET g == Put(h, a, ch, v)
           IN  /\ Typed(g) /\ Sized(g) /\ SameNodes(g, h)
               /\ Child(g, a, ch) = v
               /\ \A b \in DOMAIN h : \A c \in h[b].active :
                      b # a \/ c # ch => Child(g, b, c) = Child(h, b, c)
<1>. DEFINE g == Put(h, a, ch, v)
            new == [h[a] EXCEPT !.children[Index(h[a], ch)] = v]
<1>1. a \in DOMAIN h /\ ch \in h[a].active /\ h[a] \in Nodes /\ Len(h[a].children) = nodeSize(h[a])
    BY NodeIs DEF IsSlot, Sized
<1>2. /\ new \in Nodes
      /\ new.active = h[a].active /\ new.ends = h[a].ends /\ new.capacity = h[a].capacity
      /\ Len(new.children) = Len(h[a].children)
      /\ new.children[Index(h[a], ch)] = v
      /\ \A c \in h[a].active : c # ch => new.children[Index(new, c)] = h[a].children[Index(h[a], c)]
    BY <1>1, PutNode
<1>3. g = [h EXCEPT ![a] = new]
    BY DEF Put
<1>. HIDE DEF g, new
<1>4. DOMAIN g = DOMAIN h /\ g[a] = new /\ \A b \in DOMAIN h : b # a => g[b] = h[b]
    BY <1>1, <1>3 DEF Typed
<1>5. g \in [DOMAIN g -> Nodes]
    BY <1>2, <1>3, <1>4 DEF Typed
<1>6. SameNodes(g, h)
    BY <1>2, <1>4 DEF SameNodes
<1>7. Sized(g)
    BY <1>6 DEF Sized, SameNodes, nodeSize
<1>8. Child(g, a, ch) = v
  <2>1. Index(new, ch) = Index(h[a], ch)
      BY <1>2 DEF Index
  <2>. QED
      BY <1>2, <1>4, <2>1 DEF Child
<1>9. ASSUME NEW b \in DOMAIN h, NEW c \in h[b].active, b # a \/ c # ch PROVE Child(g, b, c) = Child(h, b, c)
  <2>1. CASE b = a
      BY <1>2, <1>4, <1>9, <2>1 DEF Child
  <2>2. CASE b # a
      BY <1>4, <2>2 DEF Child
  <2>. QED
      BY <2>1, <2>2
<1>. QED
    BY <1>4, <1>5, <1>6, <1>7, <1>8, <1>9 DEF Typed, g

-----------------------------------------------------------------------------
(* A way is a word of the tree if its last slot is marked. *)
LEMMA HeldIs ==
    ASSUME NEW h, NEW a \in Paths, NEW ch \in Letters
    PROVE  Append(a, ch) \in Held(h) <=> Marked(h, a, ch)
    BY Further DEF Held

(* The same slots marked make the same words. *)
LEMMA SameHeld ==
    ASSUME NEW g, NEW h, \A a \in Paths : \A ch \in Letters : Marked(g, a, ch) <=> Marked(h, a, ch)
    PROVE  Held(g) = Held(h)
<1>1. ASSUME NEW p \in Paths \ {Root} PROVE Marked(g, Front(p), Last(p)) <=> Marked(h, Front(p), Last(p))
    BY Back
<1>. QED
    BY <1>1 DEF Held

(* One more slot marked makes one more word. *)
MarksOneMore(g, h, a, ch) ==
    \A b \in Paths : \A c \in Letters : Marked(g, b, c) <=> Marked(h, b, c) \/ (b = a /\ c = ch)

LEMMA OneMoreHeld ==
    ASSUME NEW g, NEW h, NEW a \in Paths, NEW ch \in Letters, NEW w, w = Append(a, ch), MarksOneMore(g, h, a, ch)
    PROVE  Held(g) = Held(h) \cup {w}
<1>1. ASSUME NEW p \in Paths \ {Root}
      PROVE  Marked(g, Front(p), Last(p)) <=> Marked(h, Front(p), Last(p)) \/ p = w
  <2>1. Front(p) \in Paths /\ Last(p) \in Letters /\ p = Append(Front(p), Last(p))
      BY Back
  <2>2. p = w <=> Front(p) = a /\ Last(p) = ch
      BY <2>1, Further
  <2>. QED
      BY <2>1, <2>2 DEF MarksOneMore
<1>2. w \in Paths \ {Root}
    BY Further
<1>. QED
    BY <1>1, <1>2 DEF Held

(* Pairs that are collected, the second part by the first. *)
Pairs(D, f) == UNION {{x} \X f[x] : x \in D}

(* A pair is there if its parts are. *)
LEMMA Collected ==
    ASSUME NEW D, NEW f, NEW a, NEW b
    PROVE  <<a, b>> \in Pairs(D, f) <=> a \in D /\ b \in f[a]
<1>1. ASSUME <<a, b>> \in UNION {{x} \X f[x] : x \in D} PROVE a \in D /\ b \in f[a]
  <2>1. PICK x \in D : <<a, b>> \in {x} \X f[x]
      BY <1>1
  <2>. QED
      BY <2>1
<1>2. ASSUME a \in D, b \in f[a] PROVE <<a, b>> \in UNION {{x} \X f[x] : x \in D}
  <2>1. <<a, b>> \in {a} \X f[a]
      BY <1>2
  <2>. QED
      BY <1>2, <2>1
<1>. QED
    BY <1>1, <1>2 DEF Pairs

(* The pairs are within those of all parts. *)
LEMMA CollectedIn ==
    ASSUME NEW D, NEW f, NEW T, \A x \in D : f[x] \subseteq T
    PROVE  Pairs(D, f) \subseteq D \X T
<1>1. ASSUME NEW q, NEW x \in D, q \in {x} \X f[x] PROVE q \in D \X T
  <2>1. PICK y \in f[x] : q = <<x, y>>
      BY <1>1
  <2>. QED
      BY <2>1
<1>. QED
    BY <1>1 DEF Pairs

(* Slots and bytes are counted in finite sets. *)
LEMMA SlotsAre ==
    ASSUME NEW h, Typed(h)
    PROVE  /\ IsFiniteSet(Slots(h)) /\ Slots(h) \subseteq (DOMAIN h) \X Letters
           /\ \A a, ch : <<a, ch>> \in Slots(h) <=> IsSlot(h, a, ch)
<1>. DEFINE f == [a \in DOMAIN h |-> h[a].active]
<1>0. Slots(h) = Pairs(DOMAIN h, f)
    BY DEF Slots, Pairs
<1>1. ASSUME NEW a, NEW ch PROVE <<a, ch>> \in Slots(h) <=> IsSlot(h, a, ch)
  <2>1. <<a, ch>> \in Slots(h) <=> a \in DOMAIN h /\ ch \in f[a]
    <3>. HIDE DEF f
    <3>. QED
        BY <1>0, Collected
  <2>. QED
      BY <2>1 DEF IsSlot
<1>2. Slots(h) \subseteq (DOMAIN h) \X Letters
  <2>1. ASSUME NEW a \in DOMAIN h PROVE f[a] \subseteq Letters
      BY NodeIs
  <2>. HIDE DEF f
  <2>2. Pairs(DOMAIN h, f) \subseteq (DOMAIN h) \X Letters
      BY <2>1, CollectedIn
  <2>. QED
      BY <1>0, <2>2
<1>3. IsFiniteSet((DOMAIN h) \X Letters)
    BY LettersFinite, FS_Product DEF Typed
<1>4. IsFiniteSet(Slots(h))
    BY <1>2, <1>3, FS_Subset
<1>. QED
    BY <1>1, <1>2, <1>4

BytesOf(node) == nodeBytes(nodeCapacity(nodeSize(node)))

(* The same of the bytes. *)
LEMMA BytesAre ==
    ASSUME NEW h, Typed(h)
    PROVE  /\ IsFiniteSet(Bytes(h))
           /\ \A a, b : <<a, b>> \in Bytes(h) <=> a \in DOMAIN h /\ b \in 1..BytesOf(h[a])
           /\ Bytes(h) \subseteq (DOMAIN h) \X (1..216)
           /\ \A a \in DOMAIN h : BytesOf(h[a]) \in 16..216
<1>1. ASSUME NEW a \in DOMAIN h PROVE BytesOf(h[a]) \in 16..216
  <2>1. nodeSize(h[a]) \in 0..26
      BY NodeIs
  <2>2. nodeCapacity(nodeSize(h[a])) \in Capacities
      BY <2>1, CapacityIs
  <2>3. nodeCapacity(nodeSize(h[a])) \in 1..26
      BY <2>2 DEF Capacities
  <2>. QED
      BY <2>3 DEF BytesOf, nodeBytes
<1>. DEFINE f == [a \in DOMAIN h |-> 1..BytesOf(h[a])]
<1>0. Bytes(h) = Pairs(DOMAIN h, f)
    BY DEF Bytes, BytesOf, Pairs
<1>2. ASSUME NEW a, NEW b PROVE <<a, b>> \in Bytes(h) <=> a \in DOMAIN h /\ b \in 1..BytesOf(h[a])
  <2>1. <<a, b>> \in Bytes(h) <=> a \in DOMAIN h /\ b \in f[a]
    <3>. HIDE DEF f
    <3>. QED
        BY <1>0, Collected
  <2>. QED
      BY <2>1
<1>3. Bytes(h) \subseteq (DOMAIN h) \X (1..216)
  <2>1. ASSUME NEW a \in DOMAIN h PROVE f[a] \subseteq 1..216
      BY <1>1
  <2>. HIDE DEF f
  <2>2. Pairs(DOMAIN h, f) \subseteq (DOMAIN h) \X (1..216)
      BY <2>1, CollectedIn
  <2>. QED
      BY <1>0, <2>2
<1>4. IsFiniteSet(1..216)
  <2>1. 1 \in Int /\ 216 \in Int
      OBVIOUS
  <2>. QED
      BY <2>1, FS_Interval
<1>5. IsFiniteSet((DOMAIN h) \X (1..216))
    BY <1>4, FS_Product DEF Typed
<1>6. IsFiniteSet(Bytes(h))
    BY <1>3, <1>5, FS_Subset
<1>. QED
    BY <1>1, <1>2, <1>3, <1>6

(* What the same nodes have in common. *)
LEMMA SameNodesCount ==
    ASSUME NEW g, NEW h, Typed(g), Typed(h), SameNodes(g, h)
    PROVE  Slots(g) = Slots(h) /\ Bytes(g) = Bytes(h)
<1>1. \A a \in DOMAIN h : g[a].active = h[a].active /\ nodeSize(g[a]) = nodeSize(h[a])
    BY DEF SameNodes, nodeSize
<1>2. DOMAIN g = DOMAIN h
    BY DEF SameNodes
<1>. QED
    BY <1>1, <1>2 DEF Slots, Bytes

(* A stock node becomes one that ends a word. *)
LEMMA StockNodeMarked ==
    ASSUME NEW h, IsTree(h), NEW a, NEW ch, IsSlot(h, a, ch), Append(a, ch) \notin DOMAIN h
    PROVE  LET g == Put(h, a, ch, stockLeafNode)
           IN  /\ IsTree(g) /\ SameNodes(g, h)
               /\ Held(g) = Held(h) \cup {Append(a, ch)}
<1>. DEFINE g == Put(h, a, ch, stockLeafNode)
<1>1. Typed(h) /\ Sized(h) /\ Linked(h) /\ Rooted(h)
    BY DEF IsTree
<1>2. a \in Paths /\ ch \in Letters
    BY <1>1, NodeIs DEF IsSlot
<1>3. stockLeafNode \in Seq(Int) /\ stockLeafNode \in Stock
    BY PathsAreSequences DEF Stock
<1>4. /\ Typed(g) /\ Sized(g) /\ SameNodes(g, h)
      /\ Child(g, a, ch) = stockLeafNode
      /\ \A b \in DOMAIN h : \A c \in h[b].active : b # a \/ c # ch => Child(g, b, c) = Child(h, b, c)
    BY <1>1, <1>3, PutIs
<1>. HIDE DEF g
<1>5. \A b, c : IsSlot(g, b, c) <=> IsSlot(h, b, c)
    BY <1>4 DEF SameNodes, IsSlot
<1>6. Linked(g)
  <2>. SUFFICES ASSUME NEW b \in DOMAIN h, NEW c \in h[b].active
                PROVE  IF Append(b, c) \in DOMAIN h THEN Child(g, b, c) = Append(b, c) ELSE Child(g, b, c) \in Stock
      BY <1>4 DEF Linked, SameNodes
  <2>1. CASE b = a /\ c = ch
      BY <1>3, <1>4, <2>1
  <2>2. CASE b # a \/ c # ch
      BY <1>1, <1>4, <2>2 DEF Linked
  <2>. QED
      BY <2>1, <2>2
<1>7. Rooted(g)
    BY <1>1, <1>4, <1>5 DEF Rooted, SameNodes
<1>8. ASSUME NEW b \in Paths, NEW c \in Letters
      PROVE  Marked(g, b, c) <=> Marked(h, b, c) \/ (b = a /\ c = ch)
  <2>1. CASE b = a /\ c = ch
      BY <1>4, <1>5, <2>1 DEF Marked
  <2>2. CASE ~(b = a /\ c = ch)
    <3>1. IsSlot(h, b, c) => Child(g, b, c) = Child(h, b, c)
        BY <1>4, <2>2 DEF IsSlot
    <3>2. /\ Append(b, c) \in DOMAIN g <=> Append(b, c) \in DOMAIN h
          /\ Append(b, c) \in DOMAIN h => g[Append(b, c)].ends = h[Append(b, c)].ends
        BY <1>4 DEF SameNodes
    <3>. QED
        BY <1>5, <2>2, <3>1, <3>2 DEF Marked
  <2>. QED
      BY <2>1, <2>2
<1>9. Held(g) = Held(h) \cup {Append(a, ch)}
  <2>1. MarksOneMore(g, h, a, ch)
      BY <1>8 DEF MarksOneMore
  <2>2. a \in Paths /\ ch \in Letters
      BY <1>2
  <2>3. PICK w : w = Append(a, ch)
      OBVIOUS
  <2>4. Held(g) = Held(h) \cup {w}
      BY <2>1, <2>2, <2>3, OneMoreHeld
  <2>. QED
      BY <2>3, <2>4
<1>. QED
    BY <1>4, <1>6, <1>7, <1>9 DEF IsTree, g

(* An allocated node is made to end a word. *)
LEMMA NodeMarked ==
    ASSUME NEW h, IsTree(h), NEW p \in DOMAIN h, p # Root
    PROVE  LET g == [h EXCEPT ![p].ends = TRUE]
           IN  /\ IsTree(g) /\ Slots(g) = Slots(h) /\ Bytes(g) = Bytes(h) /\ DOMAIN g = DOMAIN h
               /\ Held(g) = Held(h) \cup {p} /\ \A b, c : IsSlot(g, b, c) <=> IsSlot(h, b, c)
<1>. DEFINE g == [h EXCEPT ![p].ends = TRUE]
            new == [h[p] EXCEPT !.ends = TRUE]
<1>1. Typed(h) /\ Sized(h) /\ Linked(h) /\ Rooted(h)
    BY DEF IsTree
<1>2. /\ new \in Nodes /\ new.ends = TRUE
      /\ new.active = h[p].active /\ new.children = h[p].children /\ new.capacity = h[p].capacity
  <2>1. h[p] \in Nodes
      BY <1>1, NodeIs
  <2>. QED
      BY <2>1 DEF Nodes
<1>3. g = [h EXCEPT ![p] = new]
    OBVIOUS
<1>. HIDE DEF g, new
<1>4. DOMAIN g = DOMAIN h /\ g[p] = new /\ \A b \in DOMAIN h : b # p => g[b] = h[b]
    BY <1>1, <1>3 DEF Typed
<1>5. \A b \in DOMAIN h : /\ g[b].active = h[b].active /\ g[b].children = h[b].children /\ g[b].capacity = h[b].capacity
                          /\ g[b].ends <=> (h[b].ends \/ b = p)
    BY <1>2, <1>4
<1>6. Typed(g)
    BY <1>1, <1>2, <1>3, <1>4 DEF Typed
<1>7. \A b \in DOMAIN h : nodeSize(g[b]) = nodeSize(h[b]) /\ \A c : Child(g, b, c) = Child(h, b, c)
    BY <1>5 DEF nodeSize, Child, Index
<1>8. Sized(g)
    BY <1>1, <1>4, <1>5, <1>7 DEF Sized
<1>9. Linked(g)
    BY <1>1, <1>4, <1>5, <1>7 DEF Linked
<1>10. \A b, c : IsSlot(g, b, c) <=> IsSlot(h, b, c)
    BY <1>4, <1>5 DEF IsSlot
<1>11. Rooted(g)
    BY <1>1, <1>4, <1>10 DEF Rooted
<1>12. Slots(g) = Slots(h) /\ Bytes(g) = Bytes(h)
  <2>2. \A b \in DOMAIN h : g[b].active = h[b].active /\ nodeSize(g[b]) = nodeSize(h[b])
      BY <1>5, <1>7
  <2>. QED
      BY <1>4, <2>2 DEF Slots, Bytes
<1>13. PICK a \in Paths, ch \in Letters : p = Append(a, ch) /\ IsSlot(h, a, ch)
  <2>1. p \in Paths
      BY <1>1, NodeIs
  <2>2. Front(p) \in Paths /\ Last(p) \in Letters /\ p = Append(Front(p), Last(p))
      BY <2>1, Back
  <2>. QED
      BY <1>1, <2>2 DEF Rooted
<1>14. ASSUME NEW b \in Paths, NEW c \in Letters
       PROVE  Marked(g, b, c) <=> Marked(h, b, c) \/ (b = a /\ c = ch)
  <2>1. Append(b, c) = p <=> b = a /\ c = ch
      BY <1>13, OneWay
  <2>2. IsSlot(h, b, c) => Child(g, b, c) = Child(h, b, c)
      BY <1>7 DEF IsSlot
  <2>3. Append(b, c) \in DOMAIN g /\ g[Append(b, c)].ends <=>
            Append(b, c) \in DOMAIN h /\ (h[Append(b, c)].ends \/ (b = a /\ c = ch))
      BY <1>4, <1>5, <2>1
  <2>. QED
      BY <1>10, <1>13, <2>1, <2>2, <2>3 DEF Marked
<1>15. Held(g) = Held(h) \cup {p}
  <2>1. MarksOneMore(g, h, a, ch)
      BY <1>14 DEF MarksOneMore
  <2>. QED
      BY <1>13, <2>1, OneMoreHeld, Zenon
<1>. QED
    BY <1>4, <1>6, <1>8, <1>9, <1>10, <1>11, <1>12, <1>15 DEF IsTree, g

(* A new node is allocated. *)
NewNode(ends) == [active |-> {}, ends |-> ends, children |-> <<>>, capacity |-> 1]
Extended(h, p, ends) == [a \in DOMAIN h \cup {p} |-> IF a = p THEN NewNode(ends) ELSE h[a]]

(* What a new node consists of. *)
LEMMA NewNodeIs ==
    ASSUME NEW ends \in BOOLEAN
    PROVE  /\ NewNode(ends) \in Nodes /\ NewNode(ends).active = {} /\ NewNode(ends).ends = ends
           /\ nodeSize(NewNode(ends)) = 0 /\ nodeBytes(1) = 16 /\ BytesOf(NewNode(ends)) = 16
           /\ Len(NewNode(ends).children) = 0 /\ NewNode(ends).capacity = nodeCapacity(0)
<1>1. nodeCapacity(0) = 1
  <2>1. 0 \in 0..25
      OBVIOUS
  <2>. QED
      BY <2>1, CapacityOfOneMore
<1>2. Cardinality({}) = 0
    BY FS_EmptySet
<1>3. nodeBytes(1) = 16
    BY DEF nodeBytes
<1>4. NewNode(ends) \in Nodes
    BY DEF NewNode, Nodes
<1>5. nodeSize(NewNode(ends)) = 0
    BY <1>2 DEF NewNode, nodeSize
<1>. QED
    BY <1>1, <1>3, <1>4, <1>5 DEF NewNode, BytesOf

(* The new node leaves the others as they are. *)
LEMMA ExtendedIs ==
    ASSUME NEW h, Typed(h), Sized(h), NEW p \in Paths, p \notin DOMAIN h, NEW ends \in BOOLEAN
    PROVE  LET g == Extended(h, p, ends)
           IN  /\ Typed(g) /\ Sized(g) /\ DOMAIN g = DOMAIN h \cup {p} /\ g[p] = NewNode(ends)
               /\ \A a \in DOMAIN h : g[a] = h[a]
               /\ \A b, c : IsSlot(g, b, c) <=> IsSlot(h, b, c)
               /\ \A b \in DOMAIN h : \A c : Child(g, b, c) = Child(h, b, c)
<1>. DEFINE g == Extended(h, p, ends)
<1>1. DOMAIN g = DOMAIN h \cup {p} /\ g[p] = NewNode(ends) /\ \A a \in DOMAIN h : g[a] = h[a]
    BY DEF Extended
<1>2. NewNode(ends) \in Nodes
    BY NewNodeIs
<1>3. g \in [DOMAIN h \cup {p} -> Nodes]
    BY <1>2 DEF Extended, Typed
<1>. HIDE DEF g
<1>4. IsFiniteSet(DOMAIN h \cup {p})
    BY FS_AddElement DEF Typed
<1>5. Typed(g)
    BY <1>1, <1>3, <1>4 DEF Typed
<1>6. Sized(g)
    BY <1>1, NewNodeIs DEF Sized
<1>7. ASSUME NEW b, NEW c PROVE IsSlot(g, b, c) <=> IsSlot(h, b, c)
    BY <1>1, NewNodeIs DEF IsSlot
<1>8. \A b \in DOMAIN h : \A c : Child(g, b, c) = Child(h, b, c)
    BY <1>1 DEF Child
<1>. QED
    BY <1>1, <1>5, <1>6, <1>7, <1>8 DEF g

(* So many bytes more of a node. *)
NoneOf(p, m, n, S) == \A b \in m..n : <<p, b>> \notin S

(* Their number is added. *)
LEMMA MoreBytes ==
    ASSUME NEW S, IsFiniteSet(S), NEW p, NEW m \in Nat, NEW n \in Nat, m <= n + 1, NoneOf(p, m, n, S)
    PROVE  Cardinality(S \cup ({p} \X (m..n))) = Cardinality(S) + (n - m + 1)
<1>. DEFINE T == {p} \X (m..n)
<1>1. IsFiniteSet(m..n) /\ Cardinality(m..n) = n - m + 1
  <2>1. m \in Int /\ n \in Int
      OBVIOUS
  <2>2. IsFiniteSet(m..n) /\ Cardinality(m..n) = IF m > n THEN 0 ELSE n - m + 1
      BY <2>1, FS_Interval
  <2>. QED
      BY <2>2
<1>2. IsFiniteSet({p}) /\ Cardinality({p}) = 1
    BY FS_Singleton
<1>3. IsFiniteSet(T) /\ Cardinality(T) = 1 * (n - m + 1)
    BY <1>1, <1>2, FS_Product
<1>4. S \cap T = {}
    BY DEF NoneOf
<1>5. Cardinality(S \cap T) = 0
    BY <1>4, FS_EmptySet
<1>. HIDE DEF T
<1>6. Cardinality(S \cup T) = Cardinality(S) + Cardinality(T) - Cardinality(S \cap T)
    BY <1>3, FS_Union
<1>7. Cardinality(S) \in Nat
    BY FS_CardinalityType
<1>. QED
    BY <1>3, <1>5, <1>6, <1>7 DEF T

(* The slots and bytes of a tree with a new node. *)
LEMMA NewNodeCounts ==
    ASSUME NEW h, Typed(h), NEW g, Typed(g), NEW p, p \notin DOMAIN h, DOMAIN g = DOMAIN h \cup {p},
           \A b, c : IsSlot(g, b, c) <=> IsSlot(h, b, c),
           \A a \in DOMAIN h : BytesOf(g[a]) = BytesOf(h[a]), BytesOf(g[p]) = 16
    PROVE  /\ Slots(g) = Slots(h)
           /\ Cardinality(Bytes(g)) = Cardinality(Bytes(h)) + 16
           /\ Cardinality(DOMAIN g) = Cardinality(DOMAIN h) + 1
<1>1. Slots(g) = Slots(h)
  <2>1. \A a, ch : <<a, ch>> \in Slots(g) <=> <<a, ch>> \in Slots(h)
      BY SlotsAre
  <2>2. Slots(h) \subseteq (DOMAIN h) \X Letters /\ Slots(g) \subseteq (DOMAIN g) \X Letters
      BY SlotsAre
  <2>. QED
      BY <2>1, <2>2
<1>2. Bytes(g) = Bytes(h) \cup ({p} \X (1..16))
  <2>1. \A a, b : <<a, b>> \in Bytes(g) <=> a \in DOMAIN g /\ b \in 1..BytesOf(g[a])
      BY BytesAre
  <2>2. \A a, b : <<a, b>> \in Bytes(h) <=> a \in DOMAIN h /\ b \in 1..BytesOf(h[a])
      BY BytesAre
  <2>3. Bytes(h) \subseteq (DOMAIN h) \X (1..216) /\ Bytes(g) \subseteq (DOMAIN g) \X (1..216)
      BY BytesAre
  <2>4. ASSUME NEW a, NEW b
        PROVE  <<a, b>> \in Bytes(g) <=> <<a, b>> \in Bytes(h) \/ (a = p /\ b \in 1..16)
      BY <2>1, <2>2
  <2>5. ASSUME NEW q \in Bytes(g) PROVE q \in Bytes(h) \cup ({p} \X (1..16))
    <3>1. PICK a, b : q = <<a, b>>
        BY <2>3
    <3>. QED
        BY <2>4, <3>1
  <2>6. ASSUME NEW q \in Bytes(h) \cup ({p} \X (1..16)) PROVE q \in Bytes(g)
    <3>1. PICK a, b : q = <<a, b>>
        BY <2>3
    <3>. QED
        BY <2>4, <3>1
  <2>7. \A q : q \in Bytes(g) <=> q \in Bytes(h) \cup ({p} \X (1..16))
      BY <2>5, <2>6, Zenon
  <2>. QED
      BY <2>7, Zenon
<1>5. Cardinality(Bytes(h)) \in Nat
    BY BytesAre, FS_CardinalityType
<1>3. Cardinality(Bytes(g)) = Cardinality(Bytes(h)) + 16
  <2>1. PICK m \in Nat, n \in Nat : m = 1 /\ n = 16
      OBVIOUS
  <2>2. IsFiniteSet(Bytes(h)) /\ m <= n + 1 /\ n - m + 1 = 16
      BY <2>1, BytesAre
  <2>3. NoneOf(p, m, n, Bytes(h))
      BY BytesAre DEF NoneOf
  <2>4. Cardinality(Bytes(h) \cup ({p} \X (m..n))) = Cardinality(Bytes(h)) + (n - m + 1)
      BY <2>2, <2>3, MoreBytes
  <2>. QED
      BY <1>2, <2>1, <2>2, <2>4
<1>4. Cardinality(DOMAIN g) = Cardinality(DOMAIN h) + 1
    BY FS_AddElement DEF Typed
<1>. QED
    BY <1>1, <1>3, <1>4, <1>5

(* A tree that differs from h by a node at p. *)
OneMoreNode(g, h, p) ==
    /\ IsTree(g) /\ Held(g) = Held(h) /\ DOMAIN g = DOMAIN h \cup {p} /\ g[p].active = {}
    /\ \A b, c : IsSlot(g, b, c) <=> IsSlot(h, b, c)
    /\ Slots(g) = Slots(h)
    /\ Cardinality(Bytes(g)) = Cardinality(Bytes(h)) + 16
    /\ Cardinality(DOMAIN g) = Cardinality(DOMAIN h) + 1

(* A node is allocated for a stock node. *)
LEMMA Allocated ==
    ASSUME NEW h, IsTree(h), NEW a \in Paths, NEW ch \in Letters, IsSlot(h, a, ch), Append(a, ch) \notin DOMAIN h
    PROVE  OneMoreNode(Put(Extended(h, Append(a, ch), Child(h, a, ch) = stockLeafNode), a, ch, Append(a, ch)),
                       h, Append(a, ch))
<1>. DEFINE p == Append(a, ch)
            ends == (Child(h, a, ch) = stockLeafNode)
            x == Extended(h, p, ends)
            g == Put(x, a, ch, p)
<1>1. Typed(h) /\ Sized(h) /\ Linked(h) /\ Rooted(h)
    BY DEF IsTree
<1>2. p \in Paths /\ p # a /\ p \in Seq(Int) /\ a \in DOMAIN h /\ ch \in h[a].active
    BY Further, PathsAreSequences DEF IsSlot
<1>3. ends \in BOOLEAN
    OBVIOUS
<1>. HIDE DEF p, ends
<1>4. /\ Typed(x) /\ Sized(x) /\ DOMAIN x = DOMAIN h \cup {p} /\ x[p] = NewNode(ends)
      /\ \A b \in DOMAIN h : x[b] = h[b]
      /\ \A b, c : IsSlot(x, b, c) <=> IsSlot(h, b, c)
      /\ \A b \in DOMAIN h : \A c : Child(x, b, c) = Child(h, b, c)
  <2>1. p \notin DOMAIN h
      BY DEF p
  <2>. QED
      BY <1>1, <1>2, <1>3, <2>1, ExtendedIs
<1>. HIDE DEF x
<1>5. /\ Typed(g) /\ Sized(g) /\ SameNodes(g, x)
      /\ Child(g, a, ch) = p
      /\ \A b \in DOMAIN x : \A c \in x[b].active : b # a \/ c # ch => Child(g, b, c) = Child(x, b, c)
  <2>1. IsSlot(x, a, ch)
      BY <1>4
  <2>. QED
      BY <1>2, <1>4, <2>1, PutIs
<1>. HIDE DEF g
<1>6. DOMAIN g = DOMAIN h \cup {p} /\ g[p].active = {} /\ g[p].ends = ends
    BY <1>3, <1>4, <1>5, NewNodeIs DEF SameNodes
<1>7. \A b, c : IsSlot(g, b, c) <=> IsSlot(h, b, c)
  <2>1. \A b, c : IsSlot(g, b, c) <=> IsSlot(x, b, c)
      BY <1>5 DEF SameNodes, IsSlot
  <2>. QED
      BY <1>4, <2>1
<1>8. ASSUME NEW b, NEW c, IsSlot(h, b, c), b # a \/ c # ch PROVE Child(g, b, c) = Child(h, b, c)
  <2>1. b \in DOMAIN x /\ b \in DOMAIN h /\ c \in x[b].active
      BY <1>4, <1>8 DEF IsSlot
  <2>. QED
      BY <1>4, <1>5, <1>8, <2>1
<1>9. \A b \in Paths : \A c \in Letters : Append(b, c) = p <=> b = a /\ c = ch
    BY OneWay DEF p
<1>10. Linked(g)
  <2>. SUFFICES ASSUME NEW b \in DOMAIN g, NEW c \in g[b].active
                PROVE  IF Append(b, c) \in DOMAIN g THEN Child(g, b, c) = Append(b, c) ELSE Child(g, b, c) \in Stock
      BY DEF Linked
  <2>1. IsSlot(h, b, c) /\ b \in DOMAIN h /\ c \in h[b].active
      BY <1>7 DEF IsSlot
  <2>2. b \in Paths /\ c \in Letters
      BY <1>1, <2>1, NodeIs
  <2>3. CASE b = a /\ c = ch
      BY <1>5, <1>6, <2>3 DEF p
  <2>4. CASE ~(b = a /\ c = ch)
    <3>1. Child(g, b, c) = Child(h, b, c)
        BY <1>8, <2>1, <2>4
    <3>2. Append(b, c) \in DOMAIN g <=> Append(b, c) \in DOMAIN h
        BY <1>6, <1>9, <2>2, <2>4
    <3>. QED
        BY <1>1, <2>1, <3>1, <3>2 DEF Linked
  <2>. QED
      BY <2>3, <2>4
<1>11. Rooted(g)
  <2>. SUFFICES ASSUME NEW b \in Paths, NEW c \in Letters, Append(b, c) \in DOMAIN g PROVE IsSlot(h, b, c)
      BY <1>7 DEF Rooted
  <2>1. CASE b = a /\ c = ch
      BY <2>1
  <2>2. CASE ~(b = a /\ c = ch)
      BY <1>1, <1>6, <1>9, <2>2 DEF Rooted
  <2>. QED
      BY <2>1, <2>2
<1>12. ASSUME NEW b \in Paths, NEW c \in Letters PROVE Marked(g, b, c) <=> Marked(h, b, c)
  <2>1. CASE b = a /\ c = ch
    <3>1. Marked(g, b, c) <=> ends
      <4>1. p # stockLeafNode
          BY <1>2, NoPlace
      <4>2. Append(b, c) = p
          BY <2>1 DEF p
      <4>. QED
          BY <1>5, <1>6, <1>7, <2>1, <4>1, <4>2 DEF Marked
    <3>2. Marked(h, b, c) <=> ends
        BY <2>1 DEF Marked, ends
    <3>. QED
        BY <3>1, <3>2
  <2>2. CASE ~(b = a /\ c = ch)
    <3>1. IsSlot(h, b, c) => Child(g, b, c) = Child(h, b, c)
        BY <1>8, <2>2
    <3>2. Append(b, c) \in DOMAIN g <=> Append(b, c) \in DOMAIN h
        BY <1>6, <1>9, <2>2
    <3>3. Append(b, c) \in DOMAIN h => g[Append(b, c)].ends = h[Append(b, c)].ends
        BY <1>4, <1>5 DEF SameNodes
    <3>. QED
        BY <1>7, <3>1, <3>2, <3>3 DEF Marked
  <2>. QED
      BY <2>1, <2>2
<1>13. Held(g) = Held(h)
    BY <1>12, SameHeld
<1>14. /\ \A b \in DOMAIN h : BytesOf(g[b]) = BytesOf(h[b])
       /\ BytesOf(g[p]) = 16
  <2>1. ASSUME NEW b \in DOMAIN x PROVE BytesOf(g[b]) = BytesOf(x[b])
      BY <1>5 DEF SameNodes, BytesOf, nodeSize
  <2>. QED
      BY <1>3, <1>4, <2>1, NewNodeIs
<1>15. /\ Slots(g) = Slots(h)
       /\ Cardinality(Bytes(g)) = Cardinality(Bytes(h)) + 16
       /\ Cardinality(DOMAIN g) = Cardinality(DOMAIN h) + 1
  <2>1. p \notin DOMAIN h
      BY DEF p
  <2>. QED
      BY <1>1, <1>5, <1>6, <1>7, <1>14, <2>1, NewNodeCounts
<1>16. IsTree(g)
    BY <1>5, <1>10, <1>11 DEF IsTree
<1>17. OneMoreNode(g, h, p)
    BY <1>6, <1>7, <1>13, <1>15, <1>16 DEF OneMoreNode
<1>. QED
    BY <1>17 DEF g, x, p, ends

(* Nothing is in a tree without nodes. *)
LEMMA EmptyTree ==
    /\ IsTree(NoNodes) /\ Held(NoNodes) = {} /\ DOMAIN NoNodes = {}
    /\ \A b, c : ~IsSlot(NoNodes, b, c)
    /\ Cardinality(Slots(NoNodes)) = 0 /\ Cardinality(Bytes(NoNodes)) = 0 /\ Cardinality(DOMAIN NoNodes) = 0
<1>1. DOMAIN NoNodes = {} /\ NoNodes \in [{} -> Nodes]
    BY DEF NoNodes
<1>2. \A b, c : ~IsSlot(NoNodes, b, c)
    BY <1>1 DEF IsSlot
<1>3. IsFiniteSet({}) /\ Cardinality({}) = 0
    BY FS_EmptySet
<1>4. IsTree(NoNodes)
    BY <1>1, <1>3 DEF IsTree, Typed, Sized, Linked, Rooted
<1>5. Held(NoNodes) = {}
    BY <1>2 DEF Held, Marked
<1>6. Slots(NoNodes) = {} /\ Bytes(NoNodes) = {}
    BY <1>1 DEF Slots, Bytes
<1>. QED
    BY <1>1, <1>2, <1>3, <1>4, <1>5, <1>6

(* The root is allocated. *)
LEMMA RootAllocated ==
    ASSUME NEW h, IsTree(h), DOMAIN h = {}
    PROVE  OneMoreNode(Extended(h, Root, FALSE), h, Root)
<1>. DEFINE g == Extended(h, Root, FALSE)
<1>1. Typed(h) /\ Sized(h)
    BY DEF IsTree
<1>2. /\ Typed(g) /\ Sized(g) /\ DOMAIN g = DOMAIN h \cup {Root} /\ g[Root] = NewNode(FALSE)
      /\ \A b, c : IsSlot(g, b, c) <=> IsSlot(h, b, c)
  <2>1. Root \in Paths /\ Root \notin DOMAIN h /\ FALSE \in BOOLEAN
      BY NoPlace
  <2>. QED
      BY <1>1, <2>1, ExtendedIs
<1>. HIDE DEF g
<1>3. g[Root].active = {} /\ BytesOf(g[Root]) = 16
    BY <1>2, NewNodeIs
<1>4. \A b, c : ~IsSlot(g, b, c) /\ ~IsSlot(h, b, c)
    BY <1>2 DEF IsSlot
<1>5. Linked(g)
    BY <1>2, <1>3 DEF Linked
<1>6. Rooted(g)
    BY <1>2, Further DEF Rooted
<1>7. Held(g) = Held(h)
    BY <1>4 DEF Held, Marked
<1>8. /\ Slots(g) = Slots(h)
      /\ Cardinality(Bytes(g)) = Cardinality(Bytes(h)) + 16
      /\ Cardinality(DOMAIN g) = Cardinality(DOMAIN h) + 1
    BY <1>1, <1>2, <1>3, NewNodeCounts
<1>. QED
    BY <1>2, <1>3, <1>5, <1>6, <1>7, <1>8 DEF OneMoreNode, IsTree, g

(* Not fewer bits are below a higher letter, whether or not it has one. *)
LEMMA BelowNotLess ==
    ASSUME NEW active \in SUBSET Letters, NEW c \in Letters, NEW d \in Letters, c < d
    PROVE  Below(active, c) <= Below(active, d)
<1>. DEFINE L == {x \in active : x < c}
            M == {x \in active : x < d}
<1>1. L \subseteq M
  <2>1. c \in Int /\ d \in Int /\ \A x \in active : x \in Int
      BY LettersFinite
  <2>2. ASSUME NEW x \in active, x < c PROVE x < d
      BY <2>1, <2>2
  <2>. QED
      BY <2>2
<1>2. IsFiniteSet(M)
  <2>1. IsFiniteSet(active) /\ M \in SUBSET active
      BY ActiveFinite
  <2>. QED
      BY <2>1, FS_Subset
<1>3. Cardinality(L) <= Cardinality(M)
    BY <1>1, <1>2, FS_Subset
<1>. QED
    BY <1>3 DEF Below

(* A stock node is added for a letter. *)
Widened(node, ch) ==
    [active   |-> node.active \cup {ch},
     ends     |-> node.ends,
     children |-> InsertAt(node.children, Index(node, ch), stockNode),
     capacity |-> nodeCapacity(nodeSize(node) + 1)]

(* The new child is where the letter's index says, and so are the others   *)
(* still.                                                                  *)
LEMMA WidenedNode ==
    ASSUME NEW node \in Nodes, Len(node.children) = nodeSize(node), NEW ch \in Letters \ node.active
    PROVE  LET new == Widened(node, ch)
           IN  /\ new \in Nodes
               /\ nodeSize(node) \in 0..25 /\ nodeSize(new) = nodeSize(node) + 1
               /\ Len(new.children) = nodeSize(node) + 1
               /\ new.children[Index(new, ch)] = stockNode
               /\ \A c \in node.active : new.children[Index(new, c)] = node.children[Index(node, c)]
<1>. DEFINE new == Widened(node, ch)
            i == Index(node, ch)
            kids == InsertAt(node.children, i, stockNode)
            size == nodeSize(node)
<1>1. node.active \in SUBSET Letters /\ node.children \in Seq(Seq(Int)) /\ node.ends \in BOOLEAN
    BY DEF Nodes
<1>2. size \in Nat /\ Cardinality(node.active \cup {ch}) = size + 1
  <2>1. IsFiniteSet(node.active) /\ Cardinality(node.active) \in 0..26
      BY <1>1, ActiveFinite
  <2>2. Cardinality(node.active \cup {ch}) = Cardinality(node.active) + 1
      BY <2>1, FS_AddElement
  <2>. QED
      BY <2>1, <2>2 DEF nodeSize
<1>3. Cardinality(node.active \cup {ch}) \in 0..26
  <2>1. node.active \cup {ch} \in SUBSET Letters
      BY <1>1
  <2>. QED
      BY <2>1, ActiveFinite
<1>4. size \in 0..25
  <2>. HIDE DEF size
  <2>. QED
      BY <1>2, <1>3
<1>5. i \in 1..(Len(node.children) + 1) /\ Below(node.active, ch) \in Nat
    BY <1>1, <1>2, BelowIs DEF Index, nodeSize
<1>6. stockNode \in Seq(Int)
    BY PathsAreSequences DEF Stock
<1>7. /\ kids \in Seq(Seq(Int)) /\ Len(kids) = Len(node.children) + 1
      /\ kids[i] = stockNode
      /\ \A j \in 1..Len(node.children) : kids[IF j < i THEN j ELSE j + 1] = node.children[j]
  <2>1. kids \in Seq(Seq(Int)) /\ Shifted(kids, node.children, i, stockNode)
      BY <1>1, <1>5, <1>6, InsertedAt
  <2>. HIDE DEF kids, i
  <2>. QED
      BY <2>1 DEF Shifted
<1>8. nodeCapacity(size + 1) \in 1..26
    BY <1>4, CapacityOfOneMore
<1>. HIDE DEF kids, size, i
<1>9. new = [active |-> node.active \cup {ch}, ends |-> node.ends, children |-> kids, capacity |-> nodeCapacity(size + 1)]
    BY DEF Widened, kids, size, i
<1>. HIDE DEF new
<1>10. new.active = node.active \cup {ch} /\ new.children = kids
    BY <1>9
<1>11. new \in Nodes
    BY <1>1, <1>7, <1>8, <1>9, SMTT(30) DEF Nodes
<1>12. nodeSize(new) = size + 1
    BY <1>2, <1>10 DEF nodeSize
<1>13. Index(new, ch) = i
  <2>1. Below(node.active \cup {ch}, ch) = Below(node.active, ch)
    <3>1. ch \in Letters /\ ~(ch < ch) /\ ch \notin node.active
        BY LettersFinite
    <3>2. Below(node.active \cup {ch}, ch) =
              IF ch < ch THEN Below(node.active, ch) + 1 ELSE Below(node.active, ch)
        BY <1>1, <3>1, BelowWithOneMore
    <3>. QED
        BY <3>1, <3>2
  <2>. QED
      BY <1>10, <2>1 DEF Index, i
<1>14. ASSUME NEW c \in node.active PROVE kids[Index(new, c)] = node.children[Index(node, c)]
  <2>1. Index(node, c) \in 1..Len(node.children)
      BY IndexIs
  <2>2. c \in Letters /\ c \in Int /\ ch \in Int /\ c # ch
      BY <1>1, LettersFinite
  <2>3. Below(node.active, c) \in Nat
      BY <1>1, <2>2, BelowIs
  <2>4. Below(node.active \cup {ch}, c) = IF ch < c THEN Below(node.active, c) + 1 ELSE Below(node.active, c)
      BY <1>1, <2>2, BelowWithOneMore
  <2>5. CASE c < ch
    <3>1. Below(node.active, c) < Below(node.active, ch)
        BY <1>1, <2>2, <2>5, BelowGrows
    <3>2. Index(node, c) < i
        BY <1>5, <2>3, <3>1 DEF Index, i
    <3>3. Index(new, c) = Index(node, c)
        BY <1>10, <2>2, <2>4, <2>5 DEF Index
    <3>. QED
        BY <1>7, <2>1, <3>2, <3>3
  <2>6. CASE ch < c
    <3>1. Below(node.active, ch) <= Below(node.active, c)
        BY <1>1, <2>2, <2>6, BelowNotLess
    <3>2. ~(Index(node, c) < i)
        BY <1>5, <2>3, <3>1 DEF Index, i
    <3>3. Index(new, c) = Index(node, c) + 1
        BY <1>10, <2>3, <2>4, <2>6 DEF Index
    <3>. QED
        BY <1>7, <2>1, <3>2, <3>3
  <2>. QED
      BY <2>2, <2>5, <2>6
<1>. QED
    BY <1>4, <1>7, <1>10, <1>11, <1>12, <1>13, <1>14 DEF new, size

(* A node gets a child, and the room for it. *)
LEMMA TreeWidened ==
    ASSUME NEW h, IsTree(h), NEW p \in DOMAIN h, NEW ch \in Letters \ h[p].active
    PROVE  LET g    == [h EXCEPT ![p] = Widened(h[p], ch)]
               size == nodeSize(h[p])
           IN  /\ IsTree(g) /\ Held(g) = Held(h) /\ DOMAIN g = DOMAIN h
               /\ \A b, c : IsSlot(g, b, c) <=> IsSlot(h, b, c) \/ (b = p /\ c = ch)
               /\ Cardinality(Slots(g)) = Cardinality(Slots(h)) + 1
               /\ Cardinality(Bytes(g)) =
                      Cardinality(Bytes(h)) + (nodeBytes(nodeCapacity(size + 1)) - nodeBytes(nodeCapacity(size)))
<1>. DEFINE g == [h EXCEPT ![p] = Widened(h[p], ch)]
            new == Widened(h[p], ch)
            size == nodeSize(h[p])
<1>1. Typed(h) /\ Sized(h) /\ Linked(h) /\ Rooted(h)
    BY DEF IsTree
<1>2. p \in Paths /\ h[p] \in Nodes /\ Len(h[p].children) = size
    BY <1>1, NodeIs DEF Sized
<1>3. /\ new \in Nodes
      /\ size \in 0..25 /\ nodeSize(new) = size + 1
      /\ Len(new.children) = size + 1
      /\ new.children[Index(new, ch)] = stockNode
      /\ \A c \in h[p].active : new.children[Index(new, c)] = h[p].children[Index(h[p], c)]
    BY <1>2, WidenedNode
<1>4. new.active = h[p].active \cup {ch} /\ new.ends = h[p].ends /\ new.capacity = nodeCapacity(size + 1)
    BY DEF Widened
<1>5. g = [h EXCEPT ![p] = new]
    OBVIOUS
<1>. HIDE DEF g, new, size
<1>6. DOMAIN g = DOMAIN h /\ g[p] = new /\ \A b \in DOMAIN h : b # p => g[b] = h[b]
    BY <1>1, <1>5 DEF Typed
<1>7. Typed(g)
    BY <1>1, <1>3, <1>5, <1>6 DEF Typed
<1>8. Sized(g)
    BY <1>1, <1>3, <1>4, <1>6 DEF Sized
<1>9. \A b, c : IsSlot(g, b, c) <=> IsSlot(h, b, c) \/ (b = p /\ c = ch)
    BY <1>4, <1>6 DEF IsSlot
<1>10. Child(g, p, ch) = stockNode
    BY <1>3, <1>6 DEF Child
<1>11. ASSUME NEW b, NEW c, IsSlot(h, b, c) PROVE Child(g, b, c) = Child(h, b, c)
  <2>1. b \in DOMAIN h /\ c \in h[b].active
      BY <1>11 DEF IsSlot
  <2>2. CASE b = p
      BY <1>3, <1>6, <2>1, <2>2 DEF Child
  <2>3. CASE b # p
      BY <1>6, <2>1, <2>3 DEF Child
  <2>. QED
      BY <2>2, <2>3
<1>12. ~IsSlot(h, p, ch) /\ Append(p, ch) \notin DOMAIN h
  <2>1. ~IsSlot(h, p, ch)
      BY DEF IsSlot
  <2>. QED
      BY <1>1, <1>2, <2>1 DEF Rooted
<1>13. Linked(g)
  <2>. SUFFICES ASSUME NEW b \in DOMAIN g, NEW c \in g[b].active
                PROVE  IF Append(b, c) \in DOMAIN g THEN Child(g, b, c) = Append(b, c) ELSE Child(g, b, c) \in Stock
      BY DEF Linked
  <2>1. IsSlot(h, b, c) \/ (b = p /\ c = ch)
      BY <1>9 DEF IsSlot
  <2>2. CASE IsSlot(h, b, c)
      BY <1>1, <1>6, <1>11, <2>2 DEF Linked, IsSlot
  <2>3. CASE b = p /\ c = ch
      BY <1>6, <1>10, <1>12, <2>3 DEF Stock
  <2>. QED
      BY <2>1, <2>2, <2>3
<1>14. Rooted(g)
    BY <1>1, <1>6, <1>9 DEF Rooted
<1>15. ASSUME NEW b \in Paths, NEW c \in Letters PROVE Marked(g, b, c) <=> Marked(h, b, c)
  <2>1. CASE b = p /\ c = ch
    <3>1. stockNode # stockLeafNode
        BY NoPlace
    <3>. QED
        BY <1>6, <1>10, <1>12, <2>1, <3>1 DEF Marked
  <2>2. CASE ~(b = p /\ c = ch)
    <3>1. IsSlot(h, b, c) => Child(g, b, c) = Child(h, b, c)
        BY <1>11
    <3>2. \A a \in DOMAIN h : g[a].ends = h[a].ends
        BY <1>4, <1>6
    <3>. QED
        BY <1>6, <1>9, <2>2, <3>1, <3>2 DEF Marked
  <2>. QED
      BY <2>1, <2>2
<1>16. Held(g) = Held(h)
    BY <1>15, SameHeld
<1>17. Cardinality(Slots(g)) = Cardinality(Slots(h)) + 1
  <2>1. \A a, c : <<a, c>> \in Slots(g) <=> <<a, c>> \in Slots(h) \/ (a = p /\ c = ch)
      BY <1>1, <1>7, <1>9, SlotsAre
  <2>2. Slots(h) \subseteq (DOMAIN h) \X Letters /\ Slots(g) \subseteq (DOMAIN g) \X Letters
      BY <1>1, <1>7, SlotsAre
  <2>3. ASSUME NEW q \in Slots(g) PROVE q \in Slots(h) \cup {<<p, ch>>}
    <3>1. PICK a, c : q = <<a, c>>
        BY <2>2
    <3>. QED
        BY <2>1, <3>1
  <2>4. ASSUME NEW q \in Slots(h) \cup {<<p, ch>>} PROVE q \in Slots(g)
    <3>1. PICK a, c : q = <<a, c>>
        BY <2>2
    <3>. QED
        BY <2>1, <3>1
  <2>5. Slots(g) = Slots(h) \cup {<<p, ch>>}
      BY <2>3, <2>4
  <2>6. <<p, ch>> \notin Slots(h) /\ IsFiniteSet(Slots(h))
      BY <1>1, <1>12, SlotsAre
  <2>. QED
      BY <2>5, <2>6, FS_AddElement
<1>18. Cardinality(Bytes(g)) =
           Cardinality(Bytes(h)) + (nodeBytes(nodeCapacity(size + 1)) - nodeBytes(nodeCapacity(size)))
  <2>1. PICK m \in Nat, n \in Nat : /\ m = nodeBytes(nodeCapacity(size)) + 1 /\ n = nodeBytes(nodeCapacity(size + 1))
                                    /\ m <= n + 1
    <3>1. /\ nodeCapacity(size) \in 1..26 /\ nodeCapacity(size + 1) \in 1..26
          /\ nodeCapacity(size) <= nodeCapacity(size + 1)
        BY <1>3, CapacityOfOneMore
    <3>. QED
        BY <3>1 DEF nodeBytes
  <2>0. nodeBytes(nodeCapacity(size)) \in Nat
    <3>1. nodeCapacity(size) \in 1..26
        BY <1>3, CapacityOfOneMore
    <3>. QED
        BY <3>1 DEF nodeBytes
  <2>2. BytesOf(h[p]) = m - 1 /\ BytesOf(g[p]) = n
    <3>1. BytesOf(h[p]) = nodeBytes(nodeCapacity(size))
        BY DEF BytesOf, size
    <3>2. BytesOf(g[p]) = nodeBytes(nodeCapacity(size + 1))
        BY <1>3, <1>6 DEF BytesOf
    <3>. QED
        BY <2>0, <2>1, <3>1, <3>2
  <2>3. \A a, b : <<a, b>> \in Bytes(g) <=> a \in DOMAIN h /\ b \in 1..BytesOf(g[a])
      BY <1>6, <1>7, BytesAre
  <2>4. \A a, b : <<a, b>> \in Bytes(h) <=> a \in DOMAIN h /\ b \in 1..BytesOf(h[a])
      BY <1>1, BytesAre
  <2>5. Bytes(h) \subseteq (DOMAIN h) \X (1..216) /\ Bytes(g) \subseteq (DOMAIN g) \X (1..216) /\ IsFiniteSet(Bytes(h))
      BY <1>1, <1>7, BytesAre
  <2>6. ASSUME NEW a, NEW b PROVE <<a, b>> \in Bytes(g) <=> <<a, b>> \in Bytes(h) \/ (a = p /\ b \in m..n)
    <3>1. CASE a = p
      <4>1. b \in 1..n <=> b \in 1..(m - 1) \/ b \in m..n
        <5>1. m - 1 <= n /\ m - 1 >= 0
            BY <2>0, <2>1
        <5>. QED
            BY <5>1
      <4>. QED
          BY <2>2, <2>3, <2>4, <3>1, <4>1
    <3>2. CASE a # p
        BY <1>6, <2>3, <2>4, <3>2
    <3>. QED
        BY <3>1, <3>2
  <2>7. ASSUME NEW q \in Bytes(g) PROVE q \in Bytes(h) \cup ({p} \X (m..n))
    <3>1. PICK a, b : q = <<a, b>>
        BY <2>5
    <3>. QED
        BY <2>6, <3>1
  <2>8. ASSUME NEW q \in Bytes(h) \cup ({p} \X (m..n)) PROVE q \in Bytes(g)
    <3>1. PICK a, b : q = <<a, b>>
        BY <2>5
    <3>. QED
        BY <2>6, <3>1
  <2>9. Bytes(g) = Bytes(h) \cup ({p} \X (m..n))
    <3>1. \A q : q \in Bytes(g) <=> q \in Bytes(h) \cup ({p} \X (m..n))
        BY <2>7, <2>8, Zenon
    <3>. QED
        BY <3>1, Zenon
  <2>10. NoneOf(p, m, n, Bytes(h))
      BY <2>2, <2>4 DEF NoneOf
  <2>11. Cardinality(Bytes(h) \cup ({p} \X (m..n))) = Cardinality(Bytes(h)) + (n - m + 1)
      BY <2>1, <2>5, <2>10, MoreBytes
  <2>12. n - m + 1 = nodeBytes(nodeCapacity(size + 1)) - nodeBytes(nodeCapacity(size))
      BY <2>0, <2>1
  <2>. QED
      BY <2>9, <2>11, <2>12
<1>. QED
    BY <1>6, <1>7, <1>8, <1>9, <1>13, <1>14, <1>16, <1>17, <1>18 DEF IsTree, g, new, size

(* The states of an insertion. *)
Statuses == [nodes : Int, allocNodes : Int, allocMem : Int]
Heaps == UNION {[D -> Nodes] : D \in SUBSET Paths}
States == [heap : Heaps, root : {NULL, Root}, status : Statuses,
           memory : Nat, path : Paths, null : BOOLEAN, ok : BOOLEAN]

(* The tree hangs together, and the program's counts of it are right. *)
Kept(h, r, st) ==
    /\ IsTree(h)
    /\ r = NULL => DOMAIN h = {}
    /\ r = Root => Root \in DOMAIN h
    /\ r \in {NULL, Root}
    /\ st = Counts(IF r = NULL THEN 0 ELSE 1 + Cardinality(Slots(h)), Cardinality(DOMAIN h), Cardinality(Bytes(h)))

(* So it is in an insertion, whose path leads to a slot; W are the words   *)
(* of the tree.                                                            *)
Sound(s, W) ==
    /\ s \in States
    /\ Kept(s.heap, s.root, s.status)
    /\ Held(s.heap) = W
    /\ s.path # Root => IsSlot(s.heap, Front(s.path), Last(s.path))
    /\ s.ok \/ s.null

(* The numbers of slots, nodes and bytes are numbers. *)
LEMMA CountsAre ==
    ASSUME NEW h, IsTree(h)
    PROVE  Cardinality(Slots(h)) \in Nat /\ Cardinality(DOMAIN h) \in Nat /\ Cardinality(Bytes(h)) \in Nat
<1>1. Typed(h) /\ IsFiniteSet(DOMAIN h)
    BY DEF IsTree, Typed
<1>. QED
    BY <1>1, SlotsAre, BytesAre, FS_CardinalityType

(* What the program's counts consist of. *)
LEMMA StatusIs ==
    ASSUME NEW h, NEW r, NEW st, Kept(h, r, st)
    PROVE  /\ st \in Statuses /\ h \in Heaps
           /\ st.nodes = IF r = NULL THEN 0 ELSE 1 + Cardinality(Slots(h))
           /\ st.allocNodes = Cardinality(DOMAIN h) /\ st.allocMem = Cardinality(Bytes(h))
<1>1. Cardinality(Slots(h)) \in Nat /\ Cardinality(DOMAIN h) \in Nat /\ Cardinality(Bytes(h)) \in Nat
    BY CountsAre DEF Kept
<1>2. h \in [DOMAIN h -> Nodes] /\ DOMAIN h \in SUBSET Paths
    BY DEF Kept, IsTree, Typed
<1>. QED
    BY <1>1, <1>2 DEF Kept, Counts, Statuses, Heaps

(* What a state of an insertion consists of. *)
LEMMA StateIs ==
    ASSUME NEW s, s \in States
    PROVE  /\ s.root \in {NULL, Root} /\ s.status \in Statuses /\ s.memory \in Nat /\ s.path \in Paths
           /\ s.null \in BOOLEAN /\ s.ok \in BOOLEAN /\ s.heap \in Heaps
    BY DEF States

(* What a slot points to: to nothing, to a stock node, or to the node in   *)
(* its place.                                                              *)
LEMMA SlotIs ==
    ASSUME NEW W, NEW s, Sound(s, W)
    PROVE  \/ Slot(s) = NULL /\ s.path = Root /\ s.root = NULL /\ DOMAIN s.heap = {}
           \/ Slot(s) \in Stock /\ Slot(s) # NULL /\ s.path # Root /\ s.path \notin DOMAIN s.heap
           \/ Slot(s) = s.path /\ Slot(s) \notin Stock /\ Slot(s) # NULL /\ s.path \in DOMAIN s.heap /\ s.root = Root
<1>1. s \in States /\ Kept(s.heap, s.root, s.status) /\ (s.path # Root => IsSlot(s.heap, Front(s.path), Last(s.path)))
    BY DEF Sound
<1>2. s.path \in Paths /\ s.root \in {NULL, Root}
    BY <1>1, StateIs
<1>3. s.path \notin Stock /\ s.path # NULL /\ NULL \notin Stock
    BY <1>2, NoPlace DEF Stock
<1>4. CASE s.path = Root
  <2>1. Slot(s) = s.root
      BY <1>4 DEF Slot
  <2>. QED
      BY <1>1, <1>2, <1>3, <1>4, <2>1 DEF Kept
<1>5. CASE s.path # Root
  <2>1. Slot(s) = Child(s.heap, Front(s.path), Last(s.path))
      BY <1>5 DEF Slot
  <2>2. Front(s.path) \in DOMAIN s.heap /\ Last(s.path) \in s.heap[Front(s.path)].active
      BY <1>1, <1>5 DEF IsSlot
  <2>3. s.path = Append(Front(s.path), Last(s.path))
      BY <1>2, <1>5, Back
  <2>4. IF s.path \in DOMAIN s.heap THEN Slot(s) = s.path ELSE Slot(s) \in Stock
      BY <1>1, <2>1, <2>2, <2>3 DEF Kept, IsTree, Linked
  <2>5. s.root = Root
      BY <1>1, <1>2, <2>2 DEF Kept
  <2>. QED
      BY <1>3, <1>5, <2>4, <2>5
<1>. QED
    BY <1>4, <1>5

(* When no memory is left, nothing changes but that node is NULL. *)
LEMMA NoMemory ==
    ASSUME NEW W, NEW s, Sound(s, W)
    PROVE  /\ Sound([s EXCEPT !.null = TRUE], W) /\ [s EXCEPT !.null = TRUE].null
           /\ s.null => Sound([s EXCEPT !.ok = FALSE], W) /\ [s EXCEPT !.ok = FALSE].null
<1>. DEFINE x == [s EXCEPT !.null = TRUE]
            y == [s EXCEPT !.ok = FALSE]
<1>1. s \in States
    BY DEF Sound
<1>2. /\ x \in States /\ x.null
      /\ x.heap = s.heap /\ x.root = s.root /\ x.status = s.status /\ x.path = s.path
    BY <1>1 DEF States
<1>3. /\ y \in States /\ y.null = s.null
      /\ y.heap = s.heap /\ y.root = s.root /\ y.status = s.status /\ y.path = s.path
    BY <1>1 DEF States
<1>. HIDE DEF x, y
<1>4. Sound(x, W)
    BY <1>2 DEF Sound
<1>5. s.null => Sound(y, W)
    BY <1>3 DEF Sound
<1>. QED
    BY <1>2, <1>3, <1>4, <1>5 DEF x, y

(* Count adds to each of the counts. *)
LEMMA CountIs ==
    ASSUME NEW st \in Statuses, NEW n \in Int, NEW a \in Int, NEW b \in Int
    PROVE  /\ Count(st, n, a, b) \in Statuses
           /\ Count(st, n, a, b).nodes = st.nodes + n
           /\ Count(st, n, a, b).allocNodes = st.allocNodes + a
           /\ Count(st, n, a, b).allocMem = st.allocMem + b
    BY DEF Count, Counts, Statuses

(* The counts are what their parts are. *)
LEMMA SameCounts ==
    ASSUME NEW st \in Statuses, NEW n \in Int, NEW a \in Int, NEW b \in Int,
           st.nodes = n, st.allocNodes = a, st.allocMem = b
    PROVE  st = Counts(n, a, b)
    BY DEF Counts, Statuses

(* A tree that is typed is among the heaps. *)
LEMMA TreesAreHeaps == ASSUME NEW h, IsTree(h) PROVE h \in Heaps
    BY DEF IsTree, Typed, Heaps

(* The root is put where there are no nodes. *)
WithRoot(h) == Extended(h, Root, FALSE)

(* What createNode makes of a state when there is memory. *)
Created(x, s, h, r, more) ==
    /\ x \in States
    /\ x.heap = h /\ x.root = r /\ x.path = s.path /\ x.null = s.null /\ x.ok = s.ok
    /\ x.status = Count(s.status, more, 1, 16)

(* createNode puts the root where there is none. *)
LEMMA CreatedAtRoot ==
    ASSUME NEW s \in States, NEW more \in Int, s.memory # 0, s.path = Root,
           NEW h \in Heaps, h = WithRoot(s.heap)
    PROVE  Created(createNode(s, FALSE, more), s, h, Root, more)
<1>. DEFINE st == Count(s.status, more, 1, nodeBytes(1))
            w == [s EXCEPT !.memory = @ - 1, !.status = st, !.heap = h]
            x == [w EXCEPT !.root = Root]
<1>0. s.memory - 1 \in Nat /\ h \in Heaps
  <2>1. s.memory \in Nat
      BY StateIs
  <2>. QED
      BY <2>1
<1>1. st \in Statuses /\ nodeBytes(1) = 16
    BY StateIs, CountIs DEF nodeBytes
<1>2. createNode(s, FALSE, more) = x
  <2>1. h = [a \in DOMAIN s.heap \cup {s.path} |->
                 IF a = s.path THEN [active |-> {}, ends |-> FALSE, children |-> <<>>, capacity |-> 1] ELSE s.heap[a]]
      BY DEF WithRoot, Extended, NewNode
  <2>2. w.path = Root
      BY DEF States
  <2>. QED
      BY <2>1, <2>2 DEF createNode, Store
<1>. HIDE DEF st
<1>3. /\ w \in States /\ w.heap = h /\ w.path = s.path /\ w.null = s.null /\ w.ok = s.ok /\ w.status = st
    BY <1>0, <1>1 DEF States
<1>. HIDE DEF w
<1>4. x \in States /\ x.root = Root /\ x.heap = h /\ x.path = s.path /\ x.null = s.null /\ x.ok = s.ok /\ x.status = st
    BY <1>3 DEF States
<1>. QED
    BY <1>1, <1>2, <1>4 DEF Created, st

(* createNode puts a node in the place of a stock node. *)
LEMMA CreatedInSlot ==
    ASSUME NEW s \in States, NEW ends \in BOOLEAN, NEW more \in Int, s.memory # 0, s.path # Root,
           Extended(s.heap, s.path, ends) \in Heaps,
           Put(Extended(s.heap, s.path, ends), Front(s.path), Last(s.path), s.path) \in Heaps
    PROVE  Created(createNode(s, ends, more), s,
                   Put(Extended(s.heap, s.path, ends), Front(s.path), Last(s.path), s.path), s.root, more)
<1>. DEFINE st == Count(s.status, more, 1, nodeBytes(1))
            h == Extended(s.heap, s.path, ends)
            g == Put(h, Front(s.path), Last(s.path), s.path)
            w == [s EXCEPT !.memory = @ - 1, !.status = st, !.heap = h]
            x == [w EXCEPT !.heap = g]
<1>0. s.memory - 1 \in Nat /\ h \in Heaps
    BY StateIs
<1>1. st \in Statuses /\ nodeBytes(1) = 16
    BY StateIs, CountIs DEF nodeBytes
<1>2. w.path = s.path /\ w.heap = h
    BY DEF States
<1>3. createNode(s, ends, more) = Store(w, s.path)
  <2>1. h = [a \in DOMAIN s.heap \cup {s.path} |->
                 IF a = s.path THEN [active |-> {}, ends |-> ends, children |-> <<>>, capacity |-> 1] ELSE s.heap[a]]
      BY DEF Extended, NewNode
  <2>. HIDE DEF h
  <2>. QED
      BY <2>1 DEF createNode
<1>4. Store(w, s.path) = x
  <2>. HIDE DEF h
  <2>1. Store(w, s.path) = [w EXCEPT !.heap = Put(w.heap, Front(w.path), Last(w.path), s.path)]
    <3>. HIDE DEF w
    <3>. QED
        BY <1>2 DEF Store, Put
  <2>. QED
      BY <1>2, <2>1
<1>. HIDE DEF st, h, g
<1>5. /\ w \in States /\ w.root = s.root /\ w.null = s.null /\ w.ok = s.ok /\ w.status = st
    BY <1>0, <1>1 DEF States
<1>. HIDE DEF w
<1>6. x \in States /\ x.root = s.root /\ x.heap = g /\ x.path = s.path /\ x.null = s.null /\ x.ok = s.ok /\ x.status = st
    BY <1>2, <1>5 DEF States, g, h
<1>. QED
    BY <1>1, <1>3, <1>4, <1>6 DEF Created, st, g, h

(* A state whose tree has one more node, and what is counted for it.       *)
LEMMA CreatedIsSound ==
    ASSUME NEW W, NEW s, Sound(s, W), NEW x, NEW g, NEW more \in Int,
           OneMoreNode(g, s.heap, s.path), Created(x, s, g, Root, more), Root \in DOMAIN g,
           (more = 1 /\ s.root = NULL) \/ (more = 0 /\ s.root = Root)
    PROVE  Sound(x, W) /\ x.path = s.path /\ x.null = s.null /\ x.path \in DOMAIN x.heap /\ x.heap[x.path].active = {}
<1>1. s \in States /\ Kept(s.heap, s.root, s.status) /\ Held(s.heap) = W /\ (s.ok \/ s.null)
    BY DEF Sound
<1>2. /\ IsTree(g) /\ Held(g) = W /\ DOMAIN g = DOMAIN s.heap \cup {s.path} /\ g[s.path].active = {}
      /\ \A b, c : IsSlot(g, b, c) <=> IsSlot(s.heap, b, c)
      /\ Slots(g) = Slots(s.heap)
      /\ Cardinality(Bytes(g)) = Cardinality(Bytes(s.heap)) + 16
      /\ Cardinality(DOMAIN g) = Cardinality(DOMAIN s.heap) + 1
    BY <1>1 DEF OneMoreNode
<1>3. /\ x \in States /\ x.heap = g /\ x.root = Root /\ x.path = s.path /\ x.null = s.null /\ x.ok = s.ok
      /\ x.status = Count(s.status, more, 1, 16)
    BY DEF Created
<1>4. /\ s.status \in Statuses
      /\ s.status.nodes = IF s.root = NULL THEN 0 ELSE 1 + Cardinality(Slots(s.heap))
      /\ s.status.allocNodes = Cardinality(DOMAIN s.heap) /\ s.status.allocMem = Cardinality(Bytes(s.heap))
    BY <1>1, StatusIs
<1>5. Cardinality(Slots(s.heap)) \in Nat /\ Cardinality(DOMAIN s.heap) \in Nat /\ Cardinality(Bytes(s.heap)) \in Nat
    BY <1>1, CountsAre DEF Kept
<1>6. /\ x.status \in Statuses /\ x.status.nodes = s.status.nodes + more
      /\ x.status.allocNodes = s.status.allocNodes + 1 /\ x.status.allocMem = s.status.allocMem + 16
    BY <1>3, <1>4, CountIs
<1>7. s.root = NULL => Cardinality(Slots(s.heap)) = 0
  <2>0. s.root = NULL => DOMAIN s.heap = {}
      BY <1>1 DEF Kept
  <2>1. ASSUME DOMAIN s.heap = {} PROVE Slots(s.heap) = {}
      BY <2>1 DEF Slots
  <2>. QED
      BY <2>0, <2>1, FS_EmptySet
<1>8. x.status.nodes = 1 + Cardinality(Slots(g))
    BY <1>2, <1>4, <1>5, <1>6, <1>7, NoPlace
<1>9. x.status = Counts(1 + Cardinality(Slots(g)), Cardinality(DOMAIN g), Cardinality(Bytes(g)))
    BY <1>2, <1>4, <1>5, <1>6, <1>8, SameCounts
<1>10. Root # NULL
    BY NoPlace
<1>11. Kept(x.heap, x.root, x.status)
    BY <1>2, <1>3, <1>9, <1>10 DEF Kept
<1>12. Sound(x, W)
    BY <1>1, <1>2, <1>3, <1>11 DEF Sound
<1>. QED
    BY <1>2, <1>3, <1>12

(* The root is created, or there is no memory for it. *)
LEMMA RootCreated ==
    ASSUME NEW W, NEW s, Sound(s, W), ~s.null, Slot(s) = NULL
    PROVE  LET x == createNode(s, FALSE, 1)
           IN  Sound(x, W) /\ x.path = s.path /\ (x.null \/ x.path \in DOMAIN x.heap)
<1>. DEFINE x == createNode(s, FALSE, 1)
            g == Extended(s.heap, Root, FALSE)
<1>1. s \in States /\ IsTree(s.heap)
    BY DEF Sound, Kept
<1>2. s.path = Root /\ s.root = NULL /\ DOMAIN s.heap = {}
    BY SlotIs
<1>3. CASE s.memory = 0
  <2>1. x = [s EXCEPT !.null = TRUE]
      BY <1>3 DEF createNode
  <2>2. [s EXCEPT !.null = TRUE].path = s.path
      BY <1>1 DEF States
  <2>. QED
      BY <2>1, <2>2, NoMemory
<1>4. CASE s.memory # 0
  <2>1. OneMoreNode(g, s.heap, s.path)
      BY <1>1, <1>2, RootAllocated
  <2>2. g \in Heaps /\ Root \in DOMAIN g
      BY <1>2, <2>1, TreesAreHeaps DEF OneMoreNode
  <2>3. Created(x, s, g, Root, 1)
    <3>1. 1 \in Int
        OBVIOUS
    <3>2. g = WithRoot(s.heap)
        BY DEF WithRoot
    <3>. HIDE DEF g
    <3>. QED
        BY <1>1, <1>2, <1>4, <2>2, <3>1, <3>2, CreatedAtRoot
  <2>4. PICK more \in Int : more = 1
      OBVIOUS
  <2>5. x.path = s.path /\ x.path \in DOMAIN x.heap /\ Sound(x, W)
    <3>. HIDE DEF x, g
    <3>1. OneMoreNode(g, s.heap, s.path) /\ Created(x, s, g, Root, more) /\ Root \in DOMAIN g
              /\ ((more = 1 /\ s.root = NULL) \/ (more = 0 /\ s.root = Root))
        BY <1>2, <2>1, <2>2, <2>3, <2>4
    <3>. QED
        BY <3>1, CreatedIsSound
  <2>. QED
      BY <2>5
<1>. QED
    BY <1>3, <1>4, <1>1, StateIs

(* A stock node makes room for a node of its own, or there is no memory.   *)
LEMMA NodeCreated ==
    ASSUME NEW W, NEW s, Sound(s, W), ~s.null, Slot(s) \in Stock
    PROVE  LET x == createNode(s, Slot(s) = stockLeafNode, 0)
           IN  /\ Sound(x, W) /\ x.path = s.path
               /\ x.null \/ (x.path \in DOMAIN x.heap /\ x.heap[x.path].active = {})
<1>. DEFINE ends == (Slot(s) = stockLeafNode)
            x == createNode(s, ends, 0)
            a == Front(s.path)
            ch == Last(s.path)
            h == Extended(s.heap, s.path, ends)
            g == Put(h, a, ch, s.path)
<1>1. s \in States /\ IsTree(s.heap) /\ s.path \in Paths
    BY StateIs DEF Sound, Kept
<1>2. s.path # Root /\ s.path \notin DOMAIN s.heap
    BY SlotIs, NoPlace DEF Stock
<1>3. CASE s.memory = 0
  <2>1. x = [s EXCEPT !.null = TRUE]
      BY <1>3 DEF createNode
  <2>2. [s EXCEPT !.null = TRUE].path = s.path
      BY <1>1 DEF States
  <2>. QED
      BY <2>1, <2>2, NoMemory
<1>4. CASE s.memory # 0
  <2>1. a \in Paths /\ ch \in Letters /\ s.path = Append(a, ch)
      BY <1>1, <1>2, Back
  <2>2. IsSlot(s.heap, a, ch)
      BY <1>2 DEF Sound
  <2>3. Slot(s) = Child(s.heap, a, ch)
      BY <1>2 DEF Slot
  <2>4. OneMoreNode(g, s.heap, s.path)
    <3>. HIDE DEF a, ch
    <3>1. OneMoreNode(Put(Extended(s.heap, Append(a, ch), Child(s.heap, a, ch) = stockLeafNode), a, ch, Append(a, ch)),
                      s.heap, Append(a, ch))
        BY <1>1, <1>2, <2>1, <2>2, Allocated
    <3>. QED
        BY <2>1, <2>3, <3>1
  <2>5. h \in Heaps
    <3>1. Typed(s.heap) /\ Sized(s.heap)
        BY <1>1 DEF IsTree
    <3>2. ends \in BOOLEAN
        OBVIOUS
    <3>. HIDE DEF ends
    <3>3. Typed(h)
        BY <1>1, <1>2, <3>1, <3>2, ExtendedIs
    <3>. HIDE DEF h
    <3>. QED
        BY <3>3 DEF Typed, Heaps
  <2>6. g \in Heaps /\ DOMAIN g = DOMAIN s.heap \cup {s.path}
    <3>. HIDE DEF g
    <3>. QED
        BY <2>4, TreesAreHeaps DEF OneMoreNode
  <2>7. s.root = Root /\ Root # NULL /\ Root \in DOMAIN s.heap
    <3>1. s.root \in {NULL, Root} /\ DOMAIN s.heap # {}
        BY <1>1, <2>2, StateIs DEF IsSlot
    <3>. QED
        BY <3>1, NoPlace DEF Sound, Kept
  <2>8. Created(x, s, g, Root, 0)
    <3>1. ends \in BOOLEAN /\ 0 \in Int
        OBVIOUS
    <3>. HIDE DEF ends
    <3>. QED
        BY <1>1, <1>2, <1>4, <2>5, <2>6, <2>7, <3>1, CreatedInSlot
  <2>9. 0 \in Int /\ Root \in DOMAIN g
      BY <2>6, <2>7
  <2>. HIDE DEF x, g, ends
  <2>. QED
      BY <2>4, <2>6, <2>7, <2>8, <2>9, CreatedIsSound DEF x, ends
<1>. QED
    BY <1>3, <1>4

(* r is s with room for one more child in the node at its path. *)
More(s) == nodeBytes(nodeCapacity(nodeSize(s.heap[s.path]) + 1)) - nodeBytes(nodeCapacity(nodeSize(s.heap[s.path])))
WithRoom(r, s) ==
    /\ r \in States /\ r.root = s.root /\ r.path = s.path /\ r.null = s.null /\ r.ok = s.ok
    /\ r.heap \in [DOMAIN s.heap -> Nodes]
    /\ \A b \in DOMAIN s.heap : b # s.path => r.heap[b] = s.heap[b]
    /\ r.heap[s.path].active = s.heap[s.path].active
    /\ r.heap[s.path].ends = s.heap[s.path].ends
    /\ r.heap[s.path].children = s.heap[s.path].children
    /\ r.heap[s.path].capacity = nodeCapacity(nodeSize(s.heap[s.path]) + 1)
    /\ r.status = Count(s.status, 0, 0, More(s))

(* What is known of the node that is to get one more child. *)
LEMMA MoreIs ==
    ASSUME NEW W, NEW s, Sound(s, W), s.path \in DOMAIN s.heap, NEW ch \in Letters \ s.heap[s.path].active
    PROVE  /\ s.heap[s.path] \in Nodes /\ Len(s.heap[s.path].children) = nodeSize(s.heap[s.path])
           /\ s.heap[s.path].capacity = nodeCapacity(nodeSize(s.heap[s.path]))
           /\ nodeSize(s.heap[s.path]) \in 0..25
           /\ More(s) \in Int
           /\ HasRoom(s.heap[s.path]) =>
                 /\ nodeCapacity(nodeSize(s.heap[s.path]) + 1) = nodeCapacity(nodeSize(s.heap[s.path]))
                 /\ More(s) = 0
<1>. DEFINE node == s.heap[s.path]
            size == nodeSize(node)
<1>1. IsTree(s.heap) /\ Typed(s.heap) /\ Sized(s.heap)
    BY DEF Sound, Kept, IsTree
<1>2. node \in Nodes /\ Len(node.children) = nodeSize(node) /\ node.capacity = nodeCapacity(nodeSize(node))
    BY <1>1, NodeIs DEF Sized
<1>. HIDE DEF node
<1>3. size \in 0..25
    BY <1>2, WidenedNode DEF node
<1>. HIDE DEF size
<1>4. /\ nodeCapacity(size) \in 1..26 /\ nodeCapacity(size + 1) \in 1..26
      /\ size < nodeCapacity(size) => nodeCapacity(size + 1) = nodeCapacity(size)
    BY <1>3, CapacityOfOneMore
<1>5. nodeBytes(nodeCapacity(size)) \in Int /\ nodeBytes(nodeCapacity(size + 1)) \in Int
    BY <1>4 DEF nodeBytes
<1>6. nodeBytes(nodeCapacity(size + 1)) - nodeBytes(nodeCapacity(size)) \in Int
    BY <1>5
<1>7. ASSUME HasRoom(node)
      PROVE  nodeCapacity(size + 1) = nodeCapacity(size)
             /\ nodeBytes(nodeCapacity(size + 1)) - nodeBytes(nodeCapacity(size)) = 0
  <2>1. nodeCapacity(size + 1) = nodeCapacity(size)
      BY <1>4, <1>7 DEF HasRoom, size
  <2>. QED
      BY <1>5, <2>1
<1>. QED
    BY <1>2, <1>3, <1>6, <1>7 DEF node, size, More

(* A node is what its parts are. *)
LEMMA EqualNodes ==
    ASSUME NEW m \in Nodes, NEW n \in Nodes,
           m.active = n.active, m.ends = n.ends, m.children = n.children, m.capacity = n.capacity
    PROVE  m = n
    BY DEF Nodes

(* The stock node is added to the node with room for it. *)
LEMMA ChildAdded ==
    ASSUME NEW W, NEW s, Sound(s, W), s.path \in DOMAIN s.heap, NEW ch \in Letters \ s.heap[s.path].active,
           NEW r, WithRoom(r, s)
    PROVE  LET x == AddStockChild(r, ch)
           IN  Sound(x, W) /\ x.path = s.path /\ x.null = s.null /\ IsSlot(x.heap, x.path, ch)
<1>. DEFINE p == s.path
            node == s.heap[p]
            size == nodeSize(node)
            wide == Widened(node, ch)
            g == [s.heap EXCEPT ![p] = wide]
            old == r.heap[p]
            new == [old EXCEPT !.children = InsertAt(@, Index(old, ch), stockNode), !.active = @ \cup {ch}]
            h == [r.heap EXCEPT ![p] = new]
            st == Count(r.status, 1, 0, 0)
            x == [r EXCEPT !.status = st, !.heap[p] = new]
<1>1. /\ s \in States /\ Kept(s.heap, s.root, s.status) /\ Held(s.heap) = W /\ (s.ok \/ s.null)
      /\ p # Root => IsSlot(s.heap, Front(p), Last(p))
    BY DEF Sound
<1>2. IsTree(s.heap) /\ Typed(s.heap) /\ Sized(s.heap) /\ p \in DOMAIN s.heap
    BY <1>1 DEF Kept, IsTree
<1>3. node \in Nodes /\ Len(node.children) = nodeSize(node) /\ nodeSize(node) \in 0..25 /\ More(s) \in Int
    BY MoreIs
<1>4. /\ r \in States /\ r.root = s.root /\ r.path = p /\ r.null = s.null /\ r.ok = s.ok
      /\ r.heap \in [DOMAIN s.heap -> Nodes]
      /\ \A b \in DOMAIN s.heap : b # p => r.heap[b] = s.heap[b]
      /\ old.active = node.active /\ old.ends = node.ends /\ old.children = node.children
      /\ old.capacity = nodeCapacity(nodeSize(node) + 1)
      /\ r.status = Count(s.status, 0, 0, More(s))
    BY DEF WithRoom
<1>5. wide \in Nodes
    BY <1>3, WidenedNode
<1>6. new = wide
  <2>1. old \in Nodes
      BY <1>2, <1>4
  <2>2. Index(old, ch) = Index(node, ch)
      BY <1>4 DEF Index
  <2>. HIDE DEF old, node
  <2>3. /\ wide.active = node.active \cup {ch} /\ wide.ends = node.ends
        /\ wide.children = InsertAt(node.children, Index(node, ch), stockNode)
        /\ wide.capacity = nodeCapacity(nodeSize(node) + 1)
      BY DEF Widened
  <2>4. /\ new.active = node.active \cup {ch} /\ new.ends = node.ends
        /\ new.children = InsertAt(node.children, Index(node, ch), stockNode)
        /\ new.capacity = nodeCapacity(nodeSize(node) + 1)
      BY <1>4, <2>1, <2>2 DEF Nodes
  <2>5. new \in Nodes
    <3>1. new.active \in SUBSET Letters /\ new.ends \in BOOLEAN /\ new.children \in Seq(Seq(Int)) /\ new.capacity \in Nat
      <4>. HIDE DEF wide, new
      <4>. QED
          BY <1>5, <2>3, <2>4 DEF Nodes
    <3>. QED
        BY <2>1, <3>1 DEF Nodes
  <2>. HIDE DEF wide, new
  <2>6. /\ new.active = wide.active /\ new.ends = wide.ends /\ new.children = wide.children
        /\ new.capacity = wide.capacity
      BY <2>3, <2>4
  <2>. QED
      BY <1>5, <2>5, <2>6, EqualNodes
<1>7. h = g
  <2>. HIDE DEF wide, new
  <2>1. s.heap \in [DOMAIN s.heap -> Nodes]
      BY <1>2 DEF Typed
  <2>2. h = [b \in DOMAIN s.heap |-> IF b = p THEN new ELSE r.heap[b]]
      BY <1>4
  <2>3. g = [b \in DOMAIN s.heap |-> IF b = p THEN wide ELSE s.heap[b]]
      BY <2>1
  <2>. HIDE DEF h, g
  <2>. QED
      BY <1>4, <1>6, <2>2, <2>3
<1>8. /\ IsTree(g) /\ Held(g) = Held(s.heap)
      /\ \A b, c : IsSlot(g, b, c) <=> IsSlot(s.heap, b, c) \/ (b = p /\ c = ch)
      /\ DOMAIN g = DOMAIN s.heap
      /\ Cardinality(Slots(g)) = Cardinality(Slots(s.heap)) + 1
      /\ Cardinality(Bytes(g)) = Cardinality(Bytes(s.heap)) + More(s)
    BY <1>2, TreeWidened DEF More
<1>9. /\ s.status \in Statuses /\ s.root = Root /\ Root # NULL
      /\ s.status.nodes = 1 + Cardinality(Slots(s.heap))
      /\ s.status.allocNodes = Cardinality(DOMAIN s.heap) /\ s.status.allocMem = Cardinality(Bytes(s.heap))
  <2>1. s.root \in {NULL, Root} /\ (s.root = NULL => DOMAIN s.heap = {})
      BY <1>1 DEF Kept
  <2>2. s.root = Root /\ Root # NULL
      BY <1>2, <2>1, NoPlace
  <2>. QED
      BY <1>1, <2>2, StatusIs
<1>10. Cardinality(Slots(s.heap)) \in Nat /\ Cardinality(DOMAIN s.heap) \in Nat /\ Cardinality(Bytes(s.heap)) \in Nat
    BY <1>2, CountsAre
<1>. HIDE DEF wide, new, g, node
<1>11. /\ r.status \in Statuses /\ r.status.nodes = s.status.nodes + 0
       /\ r.status.allocNodes = s.status.allocNodes + 0 /\ r.status.allocMem = s.status.allocMem + More(s)
    BY <1>3, <1>4, <1>9, CountIs
<1>12. /\ st \in Statuses /\ st.nodes = r.status.nodes + 1
       /\ st.allocNodes = r.status.allocNodes + 0 /\ st.allocMem = r.status.allocMem + 0
    BY <1>11, CountIs
<1>13. st = Counts(1 + Cardinality(Slots(g)), Cardinality(DOMAIN g), Cardinality(Bytes(g)))
  <2>1. st.nodes = 1 + Cardinality(Slots(g)) /\ st.allocNodes = Cardinality(DOMAIN g)
        /\ st.allocMem = Cardinality(Bytes(g))
    <3>. HIDE DEF st
    <3>. QED
        BY <1>3, <1>8, <1>9, <1>10, <1>11, <1>12
  <2>2. 1 + Cardinality(Slots(g)) \in Int /\ Cardinality(DOMAIN g) \in Int /\ Cardinality(Bytes(g)) \in Int
      BY <1>8, <1>10, CountsAre
  <2>. HIDE DEF st
  <2>. QED
      BY <1>12, <2>1, <2>2, SameCounts
<1>. HIDE DEF st
<1>14. /\ x \in States /\ x.heap = g /\ x.root = s.root /\ x.path = p /\ x.null = s.null /\ x.ok = s.ok /\ x.status = st
  <2>1. g \in Heaps
      BY <1>8, TreesAreHeaps
  <2>2. x = [r EXCEPT !.status = st, !.heap = h]
      OBVIOUS
  <2>3. x = [r EXCEPT !.status = st, !.heap = g]
      BY <1>7, <2>2
  <2>. HIDE DEF x
  <2>. QED
      BY <1>4, <1>12, <2>1, <2>3 DEF States
<1>15. AddStockChild(r, ch) = x
    BY <1>4 DEF AddStockChild, new, st, x
<1>. HIDE DEF x
<1>16. Kept(x.heap, x.root, x.status)
  <2>1. Root \in DOMAIN g
      BY <1>1, <1>8, <1>9 DEF Kept
  <2>. QED
      BY <1>8, <1>9, <1>13, <1>14, <2>1 DEF Kept
<1>17. Sound(x, W)
  <2>1. x.path # Root => IsSlot(x.heap, Front(x.path), Last(x.path))
      BY <1>1, <1>8, <1>14
  <2>. QED
      BY <1>1, <1>8, <1>14, <1>16, <2>1 DEF Sound
<1>18. IsSlot(g, p, ch)
    BY <1>8
<1>19. x.path = s.path /\ x.null = s.null /\ IsSlot(x.heap, x.path, ch)
    BY <1>14, <1>18
<1>. QED
    BY <1>15, <1>17, <1>19, Zenon

(* makeRoomInNode makes room, or there is no memory for it. *)
LEMMA RoomMade ==
    ASSUME NEW W, NEW s, Sound(s, W), ~s.null, s.path \in DOMAIN s.heap,
           NEW ch \in Letters \ s.heap[s.path].active
    PROVE  LET r == makeRoomInNode(s)
           IN  (r.null /\ Sound(r, W) /\ r.path = s.path) \/ (~r.null /\ WithRoom(r, s))
<1>. DEFINE r == makeRoomInNode(s)
            p == s.path
            node == s.heap[p]
            size == nodeSize(node)
            more == nodeCapacity(size + 1)
<1>1. s \in States /\ IsTree(s.heap) /\ p \in Paths /\ p \in DOMAIN s.heap /\ s.heap \in [DOMAIN s.heap -> Nodes]
  <2>1. s \in States /\ IsTree(s.heap)
      BY DEF Sound, Kept
  <2>. QED
      BY <2>1, StateIs DEF IsTree, Typed
<1>2. /\ node \in Nodes /\ node.capacity = nodeCapacity(size) /\ size \in 0..25 /\ More(s) \in Int
      /\ HasRoom(node) => more = nodeCapacity(size) /\ More(s) = 0
    BY MoreIs
<1>3. CASE HasRoom(node)
  <2>1. r = s
      BY <1>3 DEF makeRoomInNode
  <2>2. s.status = Count(s.status, 0, 0, More(s))
    <3>1. s.status \in Statuses /\ 0 \in Int
        BY <1>1, StateIs
    <3>2. PICK z \in Int : z = 0
        OBVIOUS
    <3>3. /\ Count(s.status, z, z, z) \in Statuses
          /\ Count(s.status, z, z, z).nodes = s.status.nodes + z
          /\ Count(s.status, z, z, z).allocNodes = s.status.allocNodes + z
          /\ Count(s.status, z, z, z).allocMem = s.status.allocMem + z
        BY <3>1, CountIs
    <3>4. s.status.nodes \in Int /\ s.status.allocNodes \in Int /\ s.status.allocMem \in Int
        BY <3>1 DEF Statuses
    <3>5. Count(s.status, z, z, z) = Counts(s.status.nodes, s.status.allocNodes, s.status.allocMem)
        BY <3>2, <3>3, <3>4, SameCounts
    <3>6. s.status = Counts(s.status.nodes, s.status.allocNodes, s.status.allocMem)
        BY <3>1, <3>4, SameCounts
    <3>7. More(s) = z /\ 0 = z
        BY <1>2, <1>3, <3>2
    <3>. QED
        BY <3>5, <3>6, <3>7
  <2>3. WithRoom(s, s)
      BY <1>1, <1>2, <1>3, <2>2 DEF WithRoom
  <2>. QED
      BY <2>1, <2>3
<1>4. CASE ~HasRoom(node) /\ s.memory = 0
  <2>1. r = [s EXCEPT !.null = TRUE]
      BY <1>4 DEF makeRoomInNode
  <2>2. [s EXCEPT !.null = TRUE].path = s.path
      BY <1>1 DEF States
  <2>3. Sound([s EXCEPT !.null = TRUE], W) /\ [s EXCEPT !.null = TRUE].null
      BY NoMemory
  <2>. HIDE DEF r
  <2>4. r.null /\ Sound(r, W) /\ r.path = s.path
      BY <2>1, <2>2, <2>3, Zenon
  <2>. QED
      BY <2>4 DEF r
<1>5. CASE ~HasRoom(node) /\ s.memory # 0
  <2>. DEFINE new == [node EXCEPT !.capacity = more]
              h == [s.heap EXCEPT ![p] = new]
              st == Count(s.status, 0, 0, More(s))
              x == [s EXCEPT !.memory = @ - 1, !.heap = h, !.status = st]
  <2>1. r = Grown(s)
      BY <1>5 DEF makeRoomInNode
  <2>2. Grown(s) = [s EXCEPT !.memory = @ - 1, !.heap[p].capacity = more, !.status = st]
    <3>. HIDE DEF st
    <3>. QED
        BY DEF Grown, More, st
  <2>3. more \in Nat
    <3>1. size + 1 \in 0..26
        BY <1>2
    <3>2. more \in Capacities
        BY <3>1, CapacityIs
    <3>. QED
        BY <3>2 DEF Capacities
  <2>. HIDE DEF more
  <2>4. /\ new \in Nodes /\ new.active = node.active /\ new.ends = node.ends /\ new.children = node.children
        /\ new.capacity = more
      BY <1>2, <2>3 DEF Nodes
  <2>. HIDE DEF new
  <2>5. h \in [DOMAIN s.heap -> Nodes] /\ h[p] = new /\ \A b \in DOMAIN s.heap : b # p => h[b] = s.heap[b]
      BY <1>1, <2>4
  <2>6. h \in Heaps
      BY <1>1, <2>5 DEF Heaps, IsTree, Typed
  <2>7. st \in Statuses
    <3>1. s.status \in Statuses /\ 0 \in Int
        BY <1>1, StateIs
    <3>. QED
        BY <1>2, <3>1, CountIs
  <2>8. s.memory - 1 \in Nat
    <3>1. s.memory \in Nat
        BY <1>1, StateIs
    <3>. QED
        BY <1>5, <3>1
  <2>. HIDE DEF h, st
  <2>9. /\ x \in States /\ x.root = s.root /\ x.path = s.path /\ x.null = s.null /\ x.ok = s.ok
        /\ x.heap = h /\ x.status = st
      BY <1>1, <2>6, <2>7, <2>8 DEF States
  <2>. HIDE DEF x
  <2>10. WithRoom(x, s)
      BY <2>4, <2>5, <2>9 DEF WithRoom, st, more
  <2>11. Grown(s) = x
      BY <2>2 DEF x, h, new
  <2>. HIDE DEF r
  <2>12. ~r.null /\ WithRoom(r, s)
      BY <2>1, <2>9, <2>10, <2>11, Zenon
  <2>. QED
      BY <2>12 DEF r
<1>. QED
    BY <1>3, <1>4, <1>5

(* addChildNode adds a slot for the letter, or there is no memory for it. *)
LEMMA ChildNodeAdded ==
    ASSUME NEW W, NEW s, Sound(s, W), ~s.null, Slot(s) # NULL, NEW ch \in Letters, ~HasChild(s, ch)
    PROVE  LET x == addChildNode(s, ch)
           IN  Sound(x, W) /\ x.path = s.path /\ (x.null \/ IsSlot(x.heap, x.path, ch))
<1>. DEFINE w == makeNodeWritable(s)
            r == IF w.null THEN w ELSE makeRoomInNode(w)
            x == IF r.null THEN r ELSE AddStockChild(r, ch)
<1>1. /\ Sound(w, W) /\ w.path = s.path
      /\ w.null \/ (w.path \in DOMAIN w.heap /\ ch \in Letters \ w.heap[w.path].active)
  <2>1. CASE Slot(s) \in Stock
    <3>1. w = createNode(s, Slot(s) = stockLeafNode, 0)
        BY <2>1 DEF makeNodeWritable
    <3>. HIDE DEF w
    <3>2. Sound(w, W) /\ w.path = s.path /\ (w.null \/ (w.path \in DOMAIN w.heap /\ w.heap[w.path].active = {}))
        BY <2>1, <3>1, NodeCreated
    <3>. QED
        BY <3>2
  <2>2. CASE Slot(s) \notin Stock
    <3>1. w = s
        BY <2>2 DEF makeNodeWritable
    <3>2. s.path \in DOMAIN s.heap
        BY <2>2, SlotIs
    <3>3. ch \notin s.heap[s.path].active
        BY <2>2 DEF HasChild
    <3>. QED
        BY <3>1, <3>2, <3>3
  <2>. QED
      BY <2>1, <2>2
<1>. HIDE DEF w
<1>2. \/ r.null /\ Sound(r, W) /\ r.path = s.path
      \/ ~r.null /\ WithRoom(r, w) /\ ~w.null
  <2>1. CASE w.null
      BY <1>1, <2>1
  <2>2. CASE ~w.null
    <3>1. r = makeRoomInNode(w)
        BY <2>2
    <3>. HIDE DEF r
    <3>2. (r.null /\ Sound(r, W) /\ r.path = w.path) \/ (~r.null /\ WithRoom(r, w))
        BY <1>1, <2>2, <3>1, RoomMade
    <3>. QED
        BY <1>1, <2>2, <3>2
  <2>. QED
      BY <2>1, <2>2
<1>. HIDE DEF r
<1>3. Sound(x, W) /\ x.path = s.path /\ (x.null \/ IsSlot(x.heap, x.path, ch))
  <2>1. CASE r.null
      BY <1>2, <2>1
  <2>2. CASE ~r.null
    <3>1. x = AddStockChild(r, ch)
        BY <2>2
    <3>. HIDE DEF x
    <3>2. WithRoom(r, w) /\ Sound(w, W) /\ w.path \in DOMAIN w.heap /\ ch \in Letters \ w.heap[w.path].active
        BY <1>1, <1>2, <2>2
    <3>3. Sound(x, W) /\ x.path = w.path /\ IsSlot(x.heap, x.path, ch)
        BY <3>1, <3>2, ChildAdded
    <3>. QED
        BY <1>1, <3>3
  <2>. QED
      BY <2>1, <2>2
<1>4. addChildNode(s, ch) = x
    BY DEF addChildNode, x, r, w
<1>. HIDE DEF x
<1>. QED
    BY <1>3, <1>4, Zenon

(* Before a letter is looked for, there is a root. *)
LEMMA RootThere ==
    ASSUME NEW W, NEW s, Sound(s, W), ~s.null
    PROVE  LET r == IF Slot(s) = NULL THEN createNode(s, FALSE, 1) ELSE s
           IN  Sound(r, W) /\ r.path = s.path /\ (r.null \/ Slot(r) # NULL)
<1>. DEFINE r == IF Slot(s) = NULL THEN createNode(s, FALSE, 1) ELSE s
<1>1. CASE Slot(s) = NULL
  <2>1. r = createNode(s, FALSE, 1)
      BY <1>1
  <2>. HIDE DEF r
  <2>2. Sound(r, W) /\ r.path = s.path /\ (r.null \/ r.path \in DOMAIN r.heap)
      BY <1>1, <2>1, RootCreated
  <2>3. r.path \in DOMAIN r.heap => Slot(r) # NULL
      BY <2>2, SlotIs
  <2>. QED
      BY <2>2, <2>3 DEF r
<1>2. CASE Slot(s) # NULL
  <2>1. r = s
      BY <1>2
  <2>. HIDE DEF r
  <2>2. Sound(r, W) /\ r.path = s.path /\ Slot(r) # NULL
      BY <1>2, <2>1
  <2>. QED
      BY <2>2 DEF r
<1>. QED
    BY <1>1, <1>2

(* The letter's slot is there then, or no memory was left for it. *)
LEMMA SlotThere ==
    ASSUME NEW W, NEW r, Sound(r, W), ~r.null, Slot(r) # NULL, NEW ch \in Letters
    PROVE  LET c == IF HasChild(r, ch) THEN r ELSE addChildNode(r, ch)
           IN  Sound(c, W) /\ c.path = r.path /\ (c.null \/ IsSlot(c.heap, c.path, ch))
<1>. DEFINE c == IF HasChild(r, ch) THEN r ELSE addChildNode(r, ch)
<1>1. CASE HasChild(r, ch)
  <2>1. c = r
      BY <1>1
  <2>. HIDE DEF c
  <2>2. r.path \in DOMAIN r.heap /\ ch \in r.heap[r.path].active
      BY <1>1, SlotIs DEF HasChild
  <2>3. Sound(c, W) /\ c.path = r.path /\ IsSlot(c.heap, c.path, ch)
      BY <2>1, <2>2 DEF IsSlot
  <2>. QED
      BY <2>3 DEF c
<1>2. CASE ~HasChild(r, ch)
  <2>1. c = addChildNode(r, ch)
      BY <1>2
  <2>. HIDE DEF c
  <2>2. Sound(c, W) /\ c.path = r.path /\ (c.null \/ IsSlot(c.heap, c.path, ch))
      BY <1>2, <2>1, ChildNodeAdded
  <2>. QED
      BY <2>2 DEF c
<1>. QED
    BY <1>1, <1>2

(* A letter further: the words stay, and the way is as long as the letters *)
(* that found memory.                                                      *)
LEMMA NextLetterIs ==
    ASSUME NEW W, NEW s, Sound(s, W), NEW ch \in Letters
    PROVE  LET t == NextLetter(s, ch)
           IN  Sound(t, W) /\ (~t.null => ~s.null /\ t.path = Append(s.path, ch))
<1>. DEFINE r == IF Slot(s) = NULL THEN createNode(s, FALSE, 1) ELSE s
            c == IF HasChild(r, ch) THEN r ELSE addChildNode(r, ch)
            u == IF c.null THEN c ELSE [c EXCEPT !.path = Append(@, ch)]
            v == IF r.null THEN [r EXCEPT !.ok = FALSE] ELSE u
            t == IF s.null THEN [s EXCEPT !.ok = FALSE] ELSE v
            Goal(z) == Sound(z, W) /\ (~z.null => ~s.null /\ z.path = Append(s.path, ch))
<1>1. ASSUME s.null PROVE Goal(t)
  <2>1. t = [s EXCEPT !.ok = FALSE]
      BY <1>1
  <2>2. Sound([s EXCEPT !.ok = FALSE], W) /\ [s EXCEPT !.ok = FALSE].null
      BY <1>1, NoMemory
  <2>3. [s EXCEPT !.ok = FALSE].null = s.null
      BY StateIs DEF Sound, States
  <2>. HIDE DEF t
  <2>4. Sound(t, W) /\ t.null
      BY <2>1, <2>2, Zenon
  <2>. QED
      BY <2>4
<1>2. ASSUME ~s.null PROVE Goal(t)
  <2>1. t = v
      BY <1>2
  <2>2. Sound(r, W) /\ r.path = s.path /\ (r.null \/ Slot(r) # NULL)
      BY <1>2, RootThere
  <2>. HIDE DEF r
  <2>3. CASE r.null
    <3>1. v = [r EXCEPT !.ok = FALSE]
        BY <2>3
    <3>2. Sound([r EXCEPT !.ok = FALSE], W) /\ [r EXCEPT !.ok = FALSE].null
        BY <2>2, <2>3, NoMemory
    <3>. HIDE DEF v, t
    <3>3. Sound(t, W) /\ t.null
        BY <2>1, <3>1, <3>2, Zenon
    <3>. QED
        BY <3>3
  <2>4. CASE ~r.null
    <3>1. v = u
        BY <2>4
    <3>2. Sound(c, W) /\ c.path = r.path /\ (c.null \/ IsSlot(c.heap, c.path, ch))
        BY <2>2, <2>4, SlotThere
    <3>. HIDE DEF c
    <3>3. CASE c.null
      <4>1. t = c
          BY <2>1, <3>1, <3>3
      <4>. HIDE DEF t
      <4>. QED
          BY <3>2, <3>3, <4>1
    <3>4. CASE ~c.null
      <4>. DEFINE w == [c EXCEPT !.path = Append(@, ch)]
      <4>1. t = w
          BY <2>1, <3>1, <3>4
      <4>. HIDE DEF t
      <4>2. /\ c \in States /\ Kept(c.heap, c.root, c.status) /\ Held(c.heap) = W /\ (c.ok \/ c.null)
            /\ c.path \in Paths
          BY <3>2, StateIs DEF Sound
      <4>3. /\ Append(c.path, ch) \in Paths /\ Append(c.path, ch) # Root
            /\ Front(Append(c.path, ch)) = c.path /\ Last(Append(c.path, ch)) = ch
          BY <4>2, Further
      <4>4. /\ w \in States /\ w.heap = c.heap /\ w.root = c.root /\ w.status = c.status /\ w.null = c.null
            /\ w.ok = c.ok /\ w.path = Append(c.path, ch)
          BY <4>2, <4>3 DEF States
      <4>. HIDE DEF w
      <4>5. Sound(w, W)
          BY <3>2, <3>4, <4>2, <4>3, <4>4 DEF Sound
      <4>. QED
          BY <1>2, <2>2, <3>2, <4>1, <4>4, <4>5
    <3>. QED
        BY <3>3, <3>4
  <2>. QED
      BY <2>3, <2>4
<1>3. NextLetter(s, ch) = t
    BY DEF NextLetter
<1>. HIDE DEF t
<1>4. Goal(t)
    BY <1>1, <1>2
<1>. QED
    BY <1>3, <1>4, Zenon

(* The states in which the tree holds the words W. *)
SoundStates(W) == {s \in States : Sound(s, W)}

(* s is what an insertion goes through, from start, over the letters.      *)
GoesAlong(s, W, start, word) ==
    /\ s[0] = start /\ \A i \in 0..Len(word) : s[i] \in SoundStates(W)
    /\ \A i \in 1..Len(word) : s[i] = NextLetter(s[i - 1], word[i])
    /\ AllLetters(start, word) = s[Len(word)]

(* There is such a sequence of states. *)
LEMMA Insertion ==
    ASSUME NEW W, NEW start, Sound(start, W), NEW word \in Paths
    PROVE  \E s : GoesAlong(s, W, start, word)
<1>. DEFINE New(i, x) == NextLetter(x, word[i])
            Rec(f) == f = [i \in 0..Len(word) |-> IF i = 0 THEN start ELSE New(i, f[i - 1])]
            d == CHOOSE f : Rec(f)
            S == SoundStates(W)
<1>0. PICK n \in Nat : n = Len(word)
    BY DEF Paths
<1>1. AllLetters(start, word) = d[Len(word)]
    BY Zenon DEF AllLetters
<1>2. ASSUME NEW i \in 1..n, NEW x \in S PROVE New(i, x) \in S
  <2>1. word[i] \in Letters
      BY <1>0, ElementOfSeq DEF Paths
  <2>2. Sound(x, W)
      BY DEF SoundStates
  <2>3. Sound(NextLetter(x, word[i]), W)
      BY <2>1, <2>2, NextLetterIs
  <2>. QED
      BY <2>3 DEF SoundStates, Sound
<1>3. \A i \in 1..n, x \in S : New(i, x) = NextLetter(x, word[i])
    OBVIOUS
<1>14. start \in S
    BY DEF SoundStates, Sound
<1>. HIDE DEF New, S
<1>4. PICK step : step \in [1..n -> [S -> S]] /\ \A i \in 1..n, x \in S : step[i][x] = New(i, x)
  <2>. DEFINE s == [i \in 1..n |-> [x \in S |-> New(i, x)]]
  <2>1. s \in [1..n -> [S -> S]]
      BY <1>2
  <2>2. \A i \in 1..n, x \in S : s[i][x] = New(i, x)
      OBVIOUS
  <2>. HIDE DEF s
  <2>. QED
      BY <2>1, <2>2
<1>5. PICK f : Climbs(f, S, start, n, step)
    BY <1>4, <1>14, Climbing
<1>6. Rec(f)
  <2>1. ASSUME NEW i \in 1..n PROVE f[i] = New(i, f[i - 1])
    <3>1. f[i - 1] \in S /\ f[i] = step[i][f[i - 1]]
        BY <1>5 DEF Climbs
    <3>. QED
        BY <1>4, <3>1
  <2>2. f = [i \in 0..n |-> f[i]] /\ f[0] = start
      BY <1>5 DEF Climbs
  <2>3. \A i \in 0..n : i = 0 \/ i \in 1..n
      OBVIOUS
  <2>4. f = [i \in 0..n |-> IF i = 0 THEN start ELSE New(i, f[i - 1])]
      BY <2>1, <2>2, <2>3
  <2>. QED
      BY <1>0, <2>4
<1>. HIDE DEF Rec
<1>7. Rec(d)
    BY <1>6
<1>. HIDE DEF d
<1>8. /\ d[0] = start /\ d = [i \in 0..n |-> d[i]]
      /\ \A i \in 1..n : d[i] = New(i, d[i - 1])
    BY <1>0, <1>7 DEF Rec
<1>9. ClimbsIfTyped(d, S, n, step)
  <2>1. ASSUME NEW i \in 1..n, d[i - 1] \in S PROVE d[i] = step[i][d[i - 1]]
      BY <1>4, <1>8, <2>1
  <2>. QED
      BY <1>8, <1>14, <2>1 DEF ClimbsIfTyped
<1>10. \A i \in 0..n : d[i] \in S
    BY <1>4, <1>9, ClimbingTyped
<1>11. \A i \in 1..n : d[i] = NextLetter(d[i - 1], word[i])
  <2>. TAKE i \in 1..n
  <2>1. d[i - 1] \in S
      BY <1>10
  <2>. QED
      BY <1>3, <1>8, <2>1
<1>12. GoesAlong(d, W, start, word)
    BY <1>0, <1>1, <1>8, <1>10, <1>11 DEF GoesAlong, S
<1>. QED
    BY <1>12

(* The first letters of a word, and one more.                              *)
LEMMA FirstLetters ==
    ASSUME NEW word \in Paths, NEW i \in 1..Len(word)
    PROVE  /\ SubSeq(word, 1, 0) = Root /\ SubSeq(word, 1, Len(word)) = word
           /\ SubSeq(word, 1, i) = Append(SubSeq(word, 1, i - 1), word[i])
           /\ SubSeq(word, 1, i - 1) \in Paths /\ word[i] \in Letters
<1>0. word \in Seq(Letters) /\ Len(word) \in Nat /\ i \in Nat /\ \A j \in 1..Len(word) : word[j] \in Letters
    BY ElementOfSeq DEF Paths
<1>1. SubSeq(word, 1, 0) = Root
    BY <1>0, SubSeqEmpty DEF Root
<1>2. SubSeq(word, 1, Len(word)) = word
    BY <1>0, SubSeqFull
<1>3. SubSeq(word, 1, i - 1) \in Seq(Letters)
  <2>1. \A j \in 1..(i - 1) : word[j] \in Letters
      BY <1>0
  <2>. QED
      BY <1>0, <2>1, SubSeqProperties
<1>4. SubSeq(word, 1, i) = Append(SubSeq(word, 1, i - 1), word[i])
  <2>1. 1 <= i /\ i <= Len(word) /\ 1 \in Int /\ i \in Int
      BY <1>0
  <2>. QED
      BY <1>0, <2>1, SubSeqRecursiveSecond
<1>. QED
    BY <1>0, <1>1, <1>2, <1>3, <1>4 DEF Paths

(* When all letters have found memory, the way is the word.                *)
LEMMA AllLettersAre ==
    ASSUME NEW W, NEW start, Sound(start, W), start.path = Root, NEW word \in Paths
    PROVE  LET t == AllLetters(start, word)
           IN  Sound(t, W) /\ (~t.null => t.path = word)
<1>0. PICK n \in Nat : n = Len(word)
    BY DEF Paths
<1>1. PICK s : GoesAlong(s, W, start, word)
    BY Insertion
<1>2. /\ s[0] = start /\ \A i \in 0..n : s[i] \in SoundStates(W)
      /\ \A i \in 1..n : s[i] = NextLetter(s[i - 1], word[i])
      /\ AllLetters(start, word) = s[n]
    BY <1>0, <1>1 DEF GoesAlong
<1>. DEFINE T == {i \in 0..n : ~s[i].null => s[i].path = SubSeq(word, 1, i)}
<1>3. 0 \in T
  <2>1. SubSeq(word, 1, 0) = Root
      BY SubSeqEmpty DEF Root, Paths
  <2>2. s[0].path = SubSeq(word, 1, 0)
    <3>1. s[0] = start
        BY <1>2
    <3>. QED
        BY <2>1, <3>1
  <2>3. 0 \in 0..n
      BY <1>0
  <2>. QED
      BY <2>2, <2>3
<1>4. ASSUME NEW i \in 0..(n - 1), i \in T PROVE i + 1 \in T
  <2>1. i + 1 \in 1..Len(word) /\ (i + 1) - 1 = i /\ i + 1 \in 1..n /\ i \in 0..n /\ i + 1 \in 0..n
      BY <1>0
  <2>2. s[i + 1] = NextLetter(s[i], word[i + 1]) /\ s[i] \in SoundStates(W)
      BY <1>2, <2>1
  <2>3. Sound(s[i], W) /\ word[i + 1] \in Letters
      BY <2>1, <2>2, ElementOfSeq DEF SoundStates, Paths
  <2>4. ~s[i + 1].null => ~s[i].null /\ s[i + 1].path = Append(s[i].path, word[i + 1])
      BY <2>2, <2>3, NextLetterIs
  <2>5. SubSeq(word, 1, i + 1) = Append(SubSeq(word, 1, i), word[i + 1])
    <3>1. SubSeq(word, 1, i + 1) = Append(SubSeq(word, 1, (i + 1) - 1), word[i + 1])
        BY <2>1, FirstLetters
    <3>. QED
        BY <2>1, <3>1
  <2>6. ~s[i + 1].null => s[i + 1].path = SubSeq(word, 1, i + 1)
      BY <1>4, <2>4, <2>5
  <2>. QED
      BY <2>1, <2>6
<1>5. 0..n \subseteq T
  <2>1. PassesUp(T, 0, n)
      BY <1>4 DEF PassesUp
  <2>. HIDE DEF T
  <2>. QED
      BY <1>3, <2>1, UpThrough
<1>6. n \in T
    BY <1>5
<1>7. SubSeq(word, 1, n) = word
    BY <1>0, SubSeqFull DEF Paths
<1>8. s[n] \in SoundStates(W)
    BY <1>2
<1>9. Sound(s[n], W) /\ (~s[n].null => s[n].path = word)
    BY <1>6, <1>7, <1>8 DEF SoundStates
<1>. QED
    BY <1>2, <1>9, Zenon

(* What stays of a state when its tree alone changes. *)
LEMMA OtherTree ==
    ASSUME NEW s \in States, NEW g \in Heaps
    PROVE  LET x == [s EXCEPT !.heap = g]
           IN  /\ x \in States /\ x.heap = g /\ x.root = s.root /\ x.status = s.status /\ x.memory = s.memory
               /\ x.path = s.path /\ x.null = s.null /\ x.ok = s.ok
    BY DEF States

(* A tree that is counted the same is kept as well. *)
LEMMA KeptAsWell ==
    ASSUME NEW g, NEW h, NEW r, NEW st, Kept(h, r, st), IsTree(g), DOMAIN g = DOMAIN h,
           Slots(g) = Slots(h), Bytes(g) = Bytes(h)
    PROVE  Kept(g, r, st)
    BY DEF Kept

(* The word at whose end the way has come is in the tree then. *)
LEMMA WordEnds ==
    ASSUME NEW W, NEW s, Sound(s, W), ~s.null, s.path # Root
    PROVE  LET x == setAnyNodeEndsWord(s)
           IN  /\ x \in States /\ ~x.null /\ x.ok = s.ok
               /\ Kept(x.heap, x.root, x.status) /\ Held(x.heap) = W \cup {s.path}
<1>. DEFINE x == setAnyNodeEndsWord(s)
            a == Front(s.path)
            ch == Last(s.path)
            Goal(z) == /\ z \in States /\ ~z.null /\ z.ok = s.ok
                       /\ Kept(z.heap, z.root, z.status) /\ Held(z.heap) = W \cup {s.path}
<1>1. /\ s \in States /\ Kept(s.heap, s.root, s.status) /\ Held(s.heap) = W
      /\ IsTree(s.heap) /\ Typed(s.heap) /\ IsSlot(s.heap, a, ch) /\ s.path \in Paths
    BY StateIs DEF Sound, Kept, IsTree
<1>2. a \in Paths /\ ch \in Letters /\ s.path = Append(a, ch)
    BY <1>1, Back
<1>3. Slot(s) = Child(s.heap, a, ch)
    BY DEF Slot
<1>4. ASSUME Slot(s) = stockNode PROVE Goal(x)
  <2>. DEFINE g == Put(s.heap, a, ch, stockLeafNode)
              y == [s EXCEPT !.heap = g]
  <2>1. x = y
      BY <1>4 DEF setAnyNodeEndsWord, Store, Put
  <2>2. Append(a, ch) \notin DOMAIN s.heap
    <3>1. Slot(s) \in Stock
        BY <1>4 DEF Stock
    <3>. QED
        BY <1>2, <3>1, SlotIs
  <2>3. IsTree(g) /\ SameNodes(g, s.heap) /\ Held(g) = Held(s.heap) \cup {Append(a, ch)}
    <3>. HIDE DEF a, ch
    <3>. QED
        BY <1>1, <2>2, StockNodeMarked
  <2>. HIDE DEF g
  <2>4. Slots(g) = Slots(s.heap) /\ Bytes(g) = Bytes(s.heap) /\ DOMAIN g = DOMAIN s.heap
      BY <1>1, <2>3, SameNodesCount DEF IsTree, SameNodes
  <2>5. g \in Heaps
      BY <2>3, TreesAreHeaps
  <2>6. y \in States /\ y.heap = g /\ y.root = s.root /\ y.status = s.status /\ y.null = s.null /\ y.ok = s.ok
      BY <1>1, <2>5, OtherTree
  <2>7. Kept(g, s.root, s.status)
      BY <1>1, <2>3, <2>4, KeptAsWell
  <2>. HIDE DEF x, y, a, ch
  <2>. QED
      BY <1>1, <1>2, <2>1, <2>3, <2>6, <2>7
<1>5. ASSUME Slot(s) = stockLeafNode PROVE Goal(x)
  <2>1. x = s
      BY <1>5, NoPlace DEF setAnyNodeEndsWord
  <2>2. Marked(s.heap, a, ch)
      BY <1>1, <1>3, <1>5 DEF Marked
  <2>3. s.path \in W
    <3>. HIDE DEF a, ch
    <3>. QED
        BY <1>1, <1>2, <2>2, HeldIs
  <2>. HIDE DEF x
  <2>4. W = W \cup {s.path}
      BY <2>3
  <2>. QED
      BY <1>1, <2>1, <2>4 DEF Sound
<1>6. ASSUME Slot(s) \notin Stock PROVE Goal(x)
  <2>. DEFINE g == [s.heap EXCEPT ![s.path].ends = TRUE]
              y == [s EXCEPT !.heap = g]
  <2>1. x = y
      BY <1>6 DEF setAnyNodeEndsWord, Stock
  <2>2. s.path \in DOMAIN s.heap
      BY <1>6, SlotIs
  <2>3. /\ IsTree(g) /\ Slots(g) = Slots(s.heap) /\ Bytes(g) = Bytes(s.heap) /\ DOMAIN g = DOMAIN s.heap
        /\ Held(g) = Held(s.heap) \cup {s.path}
      BY <1>1, <2>2, NodeMarked
  <2>. HIDE DEF g
  <2>5. g \in Heaps
      BY <2>3, TreesAreHeaps
  <2>6. y \in States /\ y.heap = g /\ y.root = s.root /\ y.status = s.status /\ y.null = s.null /\ y.ok = s.ok
      BY <1>1, <2>5, OtherTree
  <2>7. Kept(g, s.root, s.status)
      BY <1>1, <2>3, KeptAsWell
  <2>. HIDE DEF x, y
  <2>. QED
      BY <1>1, <2>1, <2>3, <2>6, <2>7
<1>7. Goal(x)
  <2>. HIDE DEF Goal, x
  <2>. QED
      BY <1>4, <1>5, <1>6 DEF Stock
<1>. QED
    BY <1>7

(* What is in the place at the end of a way: nothing, a stock node, or the *)
(* node of that place.                                                     *)
Place(p) == IF p = Root THEN root
            ELSE IF IsSlot(heap, Front(p), Last(p)) THEN Child(heap, Front(p), Last(p)) ELSE NULL

(* There is nothing or a stock node where no node is allocated. *)
LEMMA PlaceIs ==
    ASSUME Kept(heap, root, nodeStatus), NEW p \in Paths
    PROVE  \/ Place(p) = p /\ p \in DOMAIN heap /\ p \notin Stock \cup {NULL}
           \/ Place(p) \in Stock \cup {NULL} /\ p \notin DOMAIN heap
<1>1. IsTree(heap) /\ Linked(heap) /\ Rooted(heap) /\ p \notin Stock \cup {NULL}
    BY NoPlace DEF Kept, IsTree, Stock
<1>2. CASE p = Root
    BY <1>1, <1>2 DEF Place, Kept
<1>3. CASE p # Root
  <2>1. Front(p) \in Paths /\ Last(p) \in Letters /\ p = Append(Front(p), Last(p))
      BY <1>3, Back
  <2>2. CASE IsSlot(heap, Front(p), Last(p))
    <3>1. Place(p) = Child(heap, Front(p), Last(p))
        BY <1>3, <2>2 DEF Place
    <3>2. IF p \in DOMAIN heap THEN Child(heap, Front(p), Last(p)) = p ELSE Child(heap, Front(p), Last(p)) \in Stock
        BY <1>1, <2>1, <2>2 DEF Linked, IsSlot
    <3>. QED
        BY <1>1, <3>1, <3>2
  <2>3. CASE ~IsSlot(heap, Front(p), Last(p))
    <3>1. Place(p) = NULL
        BY <1>3, <2>3 DEF Place
    <3>2. p \notin DOMAIN heap
        BY <1>1, <2>1, <2>3 DEF Rooted
    <3>. QED
        BY <3>1, <3>2
  <2>. QED
      BY <2>2, <2>3
<1>. QED
    BY <1>2, <1>3

(* NextNode leads from a place to the next. *)
LEMMA NextPlace ==
    ASSUME Kept(heap, root, nodeStatus), NEW p \in Paths, NEW ch \in Letters
    PROVE  Place(Append(p, ch)) = NextNode(Place(p), ch)
<1>1. Append(p, ch) # Root /\ Front(Append(p, ch)) = p /\ Last(Append(p, ch)) = ch
    BY Further
<1>2. Place(Append(p, ch)) = IF IsSlot(heap, p, ch) THEN Child(heap, p, ch) ELSE NULL
    BY <1>1 DEF Place
<1>3. \/ Place(p) = p /\ p \in DOMAIN heap /\ p \notin Stock \cup {NULL}
      \/ Place(p) \in Stock \cup {NULL} /\ p \notin DOMAIN heap
    BY PlaceIs
<1>. QED
    BY <1>2, <1>3 DEF NextNode, IsSlot

(* The nodes and what stands for one. *)
NodesThere == Stock \cup {NULL} \cup DOMAIN heap

(* It leads to nodes that are there, or to what stands for one. *)
LEMMA NextNodeThere ==
    ASSUME Kept(heap, root, nodeStatus), NEW node \in NodesThere, NEW ch \in Letters
    PROVE  NextNode(node, ch) \in NodesThere
<1>1. Linked(heap)
    BY DEF Kept, IsTree
<1>2. CASE node \in Stock \cup {NULL}
    BY <1>2 DEF NextNode, NodesThere
<1>3. CASE node \notin Stock \cup {NULL} /\ ch \in heap[node].active
  <2>1. node \in DOMAIN heap
      BY <1>3 DEF NodesThere
  <2>. QED
      BY <1>1, <1>3, <2>1 DEF NextNode, NodesThere, Linked
<1>4. CASE node \notin Stock \cup {NULL} /\ ch \notin heap[node].active
    BY <1>4 DEF NextNode, NodesThere
<1>. QED
    BY <1>2, <1>3, <1>4

(* node are the nodes that findNode goes through. *)
Finds(node, word) ==
    /\ node[0] = root /\ \A i \in 1..Len(word) : node[i] = NextNode(node[i - 1], word[i])
    /\ findNode(word) = node[Len(word)]

(* There is such a sequence of nodes. *)
LEMMA Finding ==
    ASSUME Kept(heap, root, nodeStatus), NEW word \in Paths
    PROVE  \E node : Finds(node, word)
<1>. DEFINE New(i, x) == NextNode(x, word[i])
            Rec(f) == f = [i \in 0..Len(word) |-> IF i = 0 THEN root ELSE New(i, f[i - 1])]
            d == CHOOSE f : Rec(f)
            S == NodesThere
<1>0. PICK n \in Nat : n = Len(word)
    BY DEF Paths
<1>1. findNode(word) = d[Len(word)]
    BY Zenon DEF findNode
<1>2. ASSUME NEW i \in 1..n, NEW x \in S PROVE New(i, x) \in S
  <2>1. word[i] \in Letters
      BY <1>0, ElementOfSeq DEF Paths
  <2>. QED
      BY <2>1, NextNodeThere
<1>3. \A i \in 1..n, x \in S : New(i, x) = NextNode(x, word[i])
    OBVIOUS
<1>14. root \in S
    BY DEF NodesThere, Kept
<1>. HIDE DEF New, S
<1>4. PICK step : step \in [1..n -> [S -> S]] /\ \A i \in 1..n, x \in S : step[i][x] = New(i, x)
  <2>. DEFINE s == [i \in 1..n |-> [x \in S |-> New(i, x)]]
  <2>1. s \in [1..n -> [S -> S]]
      BY <1>2
  <2>2. \A i \in 1..n, x \in S : s[i][x] = New(i, x)
      OBVIOUS
  <2>. HIDE DEF s
  <2>. QED
      BY <2>1, <2>2
<1>5. PICK f : Climbs(f, S, root, n, step)
    BY <1>4, <1>14, Climbing
<1>6. Rec(f)
  <2>1. ASSUME NEW i \in 1..n PROVE f[i] = New(i, f[i - 1])
    <3>1. f[i - 1] \in S /\ f[i] = step[i][f[i - 1]]
        BY <1>5 DEF Climbs
    <3>. QED
        BY <1>4, <3>1
  <2>2. f = [i \in 0..n |-> f[i]] /\ f[0] = root
      BY <1>5 DEF Climbs
  <2>3. \A i \in 0..n : i = 0 \/ i \in 1..n
      OBVIOUS
  <2>4. f = [i \in 0..n |-> IF i = 0 THEN root ELSE New(i, f[i - 1])]
      BY <2>1, <2>2, <2>3
  <2>. QED
      BY <1>0, <2>4
<1>. HIDE DEF Rec
<1>7. Rec(d)
    BY <1>6
<1>. HIDE DEF d
<1>8. /\ d[0] = root /\ d = [i \in 0..n |-> d[i]]
      /\ \A i \in 1..n : d[i] = New(i, d[i - 1])
    BY <1>0, <1>7 DEF Rec
<1>9. ClimbsIfTyped(d, S, n, step)
  <2>1. ASSUME NEW i \in 1..n, d[i - 1] \in S PROVE d[i] = step[i][d[i - 1]]
      BY <1>4, <1>8, <2>1
  <2>. QED
      BY <1>8, <1>14, <2>1 DEF ClimbsIfTyped
<1>10. \A i \in 0..n : d[i] \in S
    BY <1>4, <1>9, ClimbingTyped
<1>11. \A i \in 1..n : d[i] = NextNode(d[i - 1], word[i])
  <2>. TAKE i \in 1..n
  <2>1. d[i - 1] \in S
      BY <1>10
  <2>. QED
      BY <1>3, <1>8, <2>1
<1>12. Finds(d, word)
    BY <1>0, <1>1, <1>8, <1>11 DEF Finds
<1>. QED
    BY <1>12

(* findNode finds what is at the end of the way. *)
LEMMA FoundIs ==
    ASSUME Kept(heap, root, nodeStatus), NEW word \in Paths
    PROVE  findNode(word) = Place(word)
<1>0. PICK n \in Nat : n = Len(word)
    BY DEF Paths
<1>1. PICK node : Finds(node, word)
    BY Finding
<1>2. /\ node[0] = root /\ \A i \in 1..n : node[i] = NextNode(node[i - 1], word[i])
      /\ findNode(word) = node[n]
    BY <1>0, <1>1 DEF Finds
<1>. DEFINE T == {i \in 0..n : node[i] = Place(SubSeq(word, 1, i))}
<1>3. 0 \in T
  <2>1. SubSeq(word, 1, 0) = Root
      BY SubSeqEmpty DEF Root, Paths
  <2>2. Place(Root) = root
      BY DEF Place
  <2>3. 0 \in 0..n
      BY <1>0
  <2>. QED
      BY <1>2, <2>1, <2>2, <2>3
<1>4. ASSUME NEW i \in 0..(n - 1), i \in T PROVE i + 1 \in T
  <2>1. i + 1 \in 1..Len(word) /\ (i + 1) - 1 = i /\ i + 1 \in 1..n /\ i \in 0..n /\ i + 1 \in 0..n
      BY <1>0
  <2>2. node[i + 1] = NextNode(node[i], word[i + 1])
      BY <1>2, <2>1
  <2>3. /\ SubSeq(word, 1, i + 1) = Append(SubSeq(word, 1, i), word[i + 1])
        /\ SubSeq(word, 1, i) \in Paths /\ word[i + 1] \in Letters
    <3>1. /\ SubSeq(word, 1, i + 1) = Append(SubSeq(word, 1, (i + 1) - 1), word[i + 1])
          /\ SubSeq(word, 1, (i + 1) - 1) \in Paths /\ word[i + 1] \in Letters
        BY <2>1, FirstLetters
    <3>. QED
        BY <2>1, <3>1
  <2>4. Place(SubSeq(word, 1, i + 1)) = NextNode(Place(SubSeq(word, 1, i)), word[i + 1])
      BY <2>3, NextPlace
  <2>5. node[i] = Place(SubSeq(word, 1, i))
      BY <1>4
  <2>. QED
      BY <2>1, <2>2, <2>4, <2>5
<1>5. 0..n \subseteq T
  <2>1. PassesUp(T, 0, n)
      BY <1>4 DEF PassesUp
  <2>. HIDE DEF T
  <2>. QED
      BY <1>3, <2>1, UpThrough
<1>6. n \in T
    BY <1>5
<1>7. SubSeq(word, 1, n) = word
    BY <1>0, SubSeqFull DEF Paths
<1>. QED
    BY <1>2, <1>6, <1>7

(* findNode says that a word ends where one does. *)
LEMMA FoundEnds ==
    ASSUME Kept(heap, root, nodeStatus), NEW word \in Paths, word # Root
    PROVE  EndsWord(findNode(word)) <=> word \in Held(heap)
<1>1. findNode(word) = Place(word)
    BY FoundIs
<1>2. \/ Place(word) = word /\ word \in DOMAIN heap /\ word \notin Stock \cup {NULL}
      \/ Place(word) \in Stock \cup {NULL} /\ word \notin DOMAIN heap
    BY PlaceIs
<1>3. Front(word) \in Paths /\ Last(word) \in Letters /\ word = Append(Front(word), Last(word))
    BY Back
<1>4. word \in Held(heap) <=> Marked(heap, Front(word), Last(word))
    BY DEF Held
<1>5. Place(word) = IF IsSlot(heap, Front(word), Last(word)) THEN Child(heap, Front(word), Last(word)) ELSE NULL
    BY DEF Place
<1>6. NULL # stockLeafNode
    BY NoPlace
<1>7. word \in DOMAIN heap => IsSlot(heap, Front(word), Last(word))
    BY <1>3 DEF Kept, IsTree, Rooted
<1>8. stockLeafNode \in Stock
    BY DEF Stock
<1>9. Marked(heap, Front(word), Last(word)) <=>
          /\ IsSlot(heap, Front(word), Last(word))
          /\ Child(heap, Front(word), Last(word)) = stockLeafNode \/ (word \in DOMAIN heap /\ heap[word].ends)
    BY <1>3 DEF Marked
<1>. QED
    BY <1>1, <1>2, <1>4, <1>5, <1>6, <1>7, <1>8, <1>9 DEF EndsWord

(* The tree hangs together, its words are the inserted ones, and these are *)
(* among those that are ever inserted.                                     *)
TreeInv ==
    /\ Kept(heap, root, nodeStatus)
    /\ memory \in Nat
    /\ Held(heap) = inserted
    /\ inserted \subseteq Words

(* The prefixes of a word are paths, and it is one of them. *)
LEMMA PrefixesAre ==
    ASSUME NEW word \in Paths
    PROVE  Prefixes(word) \subseteq Paths /\ word \in Prefixes(word)
<1>0. word \in Seq(Letters) /\ Len(word) \in Nat /\ \A j \in 1..Len(word) : word[j] \in Letters
    BY ElementOfSeq DEF Paths
<1>1. ASSUME NEW l \in 0..Len(word) PROVE SubSeq(word, 1, l) \in Seq(Letters)
  <2>1. \A j \in 1..l : word[j] \in Letters
      BY <1>0
  <2>. QED
      BY <1>0, <2>1, SubSeqProperties
<1>2. Prefixes(word) = {SubSeq(word, 1, l) : l \in 0..Len(word)}
    BY DEF Prefixes
<1>3. word \in Prefixes(word)
  <2>1. SubSeq(word, 1, Len(word)) = word /\ Len(word) \in 0..Len(word)
      BY <1>0, SubSeqFull
  <2>. QED
      BY <1>2, <2>1
<1>. QED
    BY <1>1, <1>2, <1>3 DEF Paths

(* Words are paths other than the root's. *)
LEMMA WordsAre == Words \subseteq Paths \ {Root}
    BY WordsAssumption DEF Paths

(* It is so before the first insertion. *)
LEMMA TreeInvInit == TreeInit => TreeInv
<1>. SUFFICES ASSUME TreeInit PROVE TreeInv
    OBVIOUS
<1>1. heap = NoNodes /\ root = NULL /\ nodeStatus = Counts(0, 0, 0) /\ inserted = {} /\ memory \in Nat
    BY LimitsAssumption DEF TreeInit
<1>2. Kept(NoNodes, NULL, Counts(0, 0, 0)) /\ Held(NoNodes) = {}
    BY EmptyTree, NoPlace DEF Kept
<1>. QED
    BY <1>1, <1>2 DEF TreeInv

(* A word is inserted, or the memory does not suffice for it.              *)
LEMMA InsertionKeeps ==
    ASSUME TreeInv, NEW word \in Words, insertWord(word)
    PROVE  TreeInv'
<1>. DEFINE start == [heap |-> heap, root |-> root, status |-> nodeStatus, memory |-> memory,
                      path |-> Root, null |-> FALSE, ok |-> TRUE]
            end == AllLetters(start, word)
            s == IF end.null THEN end ELSE setAnyNodeEndsWord(end)
<1>0. word \in Paths /\ word # Root
    BY WordsAre
<1>1. /\ heap' = s.heap /\ root' = s.root /\ nodeStatus' = s.status /\ memory' = s.memory
      /\ inserted' = IF s.null THEN inserted ELSE inserted \cup {word}
    BY DEF insertWord
<1>2. Sound(start, inserted)
  <2>1. nodeStatus \in Statuses /\ heap \in Heaps /\ root \in {NULL, Root} /\ Root \in Paths
      BY StatusIs, NoPlace DEF TreeInv, Kept
  <2>2. start \in States
      BY <2>1 DEF TreeInv, States
  <2>3. /\ start.heap = heap /\ start.root = root /\ start.status = nodeStatus /\ start.path = Root /\ start.ok
      OBVIOUS
  <2>. HIDE DEF start
  <2>. QED
      BY <2>2, <2>3 DEF TreeInv, Sound
<1>3. start.path = Root
    OBVIOUS
<1>. HIDE DEF start
<1>4. Sound(end, inserted) /\ (~end.null => end.path = word)
    BY <1>0, <1>2, <1>3, AllLettersAre
<1>. HIDE DEF end
<1>5. CASE end.null
  <2>1. s = end
      BY <1>5
  <2>. HIDE DEF s
  <2>2. /\ Kept(s.heap, s.root, s.status) /\ Held(s.heap) = inserted /\ s.memory \in Nat /\ s.null
      BY <1>4, <1>5, <2>1, StateIs DEF Sound
  <2>. QED
      BY <1>1, <2>2 DEF TreeInv
<1>6. CASE ~end.null
  <2>1. s = setAnyNodeEndsWord(end)
      BY <1>6
  <2>. HIDE DEF s
  <2>2. /\ s \in States /\ ~s.null /\ Kept(s.heap, s.root, s.status) /\ Held(s.heap) = inserted \cup {word}
    <3>1. end.path = word /\ end.path # Root
        BY <1>0, <1>4, <1>6
    <3>. QED
        BY <1>4, <1>6, <2>1, <3>1, WordEnds
  <2>3. s.memory \in Nat
      BY <2>2, StateIs
  <2>. QED
      BY <1>1, <2>2, <2>3 DEF TreeInv
<1>. QED
    BY <1>5, <1>6

(* The nodes on the way to a node are there. *)
LEMMA WayIsThere ==
    ASSUME NEW h, IsTree(h), NEW a \in DOMAIN h
    PROVE  Prefixes(a) \subseteq DOMAIN h
<1>. DEFINE There == {l \in 0..Len(a) : SubSeq(a, 1, l) \in DOMAIN h}
<1>1. a \in Paths /\ a \in Seq(Letters) /\ Len(a) \in Nat /\ (\A j \in 1..Len(a) : a[j] \in Letters)
  <2>1. a \in Paths
      BY NodeIs DEF IsTree
  <2>. QED
      BY <2>1, ElementOfSeq DEF Paths
<1>2. Len(a) \in There
  <2>1. SubSeq(a, 1, Len(a)) = a
      BY <1>1, SubSeqFull
  <2>2. Len(a) \in 0..Len(a)
      BY <1>1
  <2>. QED
      BY <2>1, <2>2, Zenon
<1>3. ASSUME NEW l \in (0 + 1)..Len(a), l \in There PROVE l - 1 \in There
  <2>1. l \in 1..Len(a) /\ l - 1 \in 0..Len(a)
      BY <1>1
  <2>2. SubSeq(a, 1, l - 1) \in Paths /\ a[l] \in Letters
    <3>1. SubSeq(a, 1, l - 1) \in Prefixes(a)
        BY <2>1 DEF Prefixes
    <3>. QED
        BY <1>1, <2>1, <3>1, PrefixesAre
  <2>3. SubSeq(a, 1, l) = Append(SubSeq(a, 1, l - 1), a[l])
      BY <1>1, <2>1
  <2>4. IsSlot(h, SubSeq(a, 1, l - 1), a[l])
      BY <1>3, <2>2, <2>3 DEF IsTree, Rooted
  <2>. QED
      BY <2>1, <2>4 DEF IsSlot
<1>4. PassesDown(There, 0, Len(a))
  <2>. HIDE DEF There
  <2>. QED
      BY <1>3 DEF PassesDown
<1>5. 0..Len(a) \subseteq There
  <2>. HIDE DEF There
  <2>. QED
      BY <1>1, <1>2, <1>4, DownThrough
<1>. QED
    BY <1>5 DEF Prefixes

(* The slots on the way to a node lead to it, since none is without the    *)
(* one before: destroyNode reaches them all.                               *)
LEMMA AllReached ==
    ASSUME NEW h, IsTree(h)
    PROVE  Reached(h) = DOMAIN h /\ Restrict(h, Reached(h)) = h
<1>1. ASSUME NEW a \in DOMAIN h, NEW p \in Prefixes(a) \ {Root} PROVE LeadsTo(h, Front(p), Last(p))
  <2>1. a \in Paths /\ p \in Paths \ {Root}
      BY <1>1, NodeIs, PrefixesAre DEF IsTree
  <2>2. Front(p) \in Paths /\ Last(p) \in Letters /\ p = Append(Front(p), Last(p))
      BY <2>1, Back
  <2>3. p \in DOMAIN h
      BY <1>1, WayIsThere
  <2>4. IsSlot(h, Front(p), Last(p))
      BY <2>2, <2>3 DEF IsTree, Rooted
  <2>5. Child(h, Front(p), Last(p)) = Append(Front(p), Last(p))
      BY <2>2, <2>3, <2>4 DEF IsTree, Linked, IsSlot
  <2>. QED
      BY <2>4, <2>5 DEF LeadsTo, IsSlot
<1>2. Reached(h) = DOMAIN h
    BY <1>1 DEF Reached
<1>3. h = [a \in DOMAIN h |-> h[a]]
    BY DEF IsTree, Typed
<1>. QED
    BY <1>2, <1>3 DEF Restrict

(* When the tree is destroyed, the counts come back to nothing.            *)
LEMMA DestructionKeeps ==
    ASSUME TreeInv, destroyTree
    PROVE  TreeInv'
<1>1. Kept(heap, root, nodeStatus) /\ root # NULL /\ memory \in Nat
    BY DEF TreeInv, destroyTree
<1>. DEFINE a == Cardinality(Slots(heap))
            b == Cardinality(DOMAIN heap)
            c == Cardinality(Bytes(heap))
            st == Count(nodeStatus, -(1 + a), -b, -c)
<1>2. /\ nodeStatus \in Statuses
      /\ nodeStatus.nodes = 1 + a /\ nodeStatus.allocNodes = b /\ nodeStatus.allocMem = c
    BY <1>1, StatusIs
<1>3. a \in Nat /\ b \in Nat /\ c \in Nat
    BY <1>1, CountsAre DEF Kept
<1>. HIDE DEF a, b, c
<1>4. /\ st \in Statuses /\ st.nodes = nodeStatus.nodes + -(1 + a)
      /\ st.allocNodes = nodeStatus.allocNodes + -b /\ st.allocMem = nodeStatus.allocMem + -c
  <2>1. -(1 + a) \in Int /\ -b \in Int /\ -c \in Int
      BY <1>3
  <2>. QED
      BY <1>2, <2>1, CountIs
<1>5. st = Counts(0, 0, 0)
  <2>1. PICK z \in Int : z = 0
      OBVIOUS
  <2>2. st \in Statuses /\ st.nodes = z /\ st.allocNodes = z /\ st.allocMem = z
    <3>. HIDE DEF st
    <3>. QED
        BY <1>2, <1>3, <1>4, <2>1
  <2>. HIDE DEF st
  <2>3. st = Counts(z, z, z)
      BY <2>2, SameCounts
  <2>. QED
      BY <2>1, <2>3
<1>6. /\ nodeStatus' = st /\ heap' = NoNodes /\ root' = NULL /\ inserted' = {} /\ memory' = memory
  <2>1. Reached(heap) = DOMAIN heap /\ Restrict(heap, Reached(heap)) = heap
      BY <1>1, AllReached DEF Kept
  <2>2. heap' = [x \in {} |-> heap[x]]
      BY <2>1 DEF destroyTree, Restrict
  <2>3. heap' = NoNodes
      BY <2>2 DEF NoNodes
  <2>. QED
      BY <2>1, <2>3 DEF destroyTree, a, b, c
<1>7. Kept(NoNodes, NULL, Counts(0, 0, 0)) /\ Held(NoNodes) = {}
    BY EmptyTree, NoPlace DEF Kept
<1>. QED
    BY <1>1, <1>5, <1>6, <1>7 DEF TreeInv

(* The invariant holds, whatever words are inserted in whatever order, and *)
(* wherever the memory runs out: it is kept by every insertion, finished   *)
(* or not, and by destroyTree.                                             *)
THEOREM TreeInvariant == TreeSpec => []TreeInv
<1>1. TreeInv /\ [TreeNext]_treeVars => TreeInv'
  <2>. SUFFICES ASSUME TreeInv, [TreeNext]_treeVars PROVE TreeInv'
      OBVIOUS
  <2>1. CASE destroyTree
      BY <2>1, DestructionKeeps
  <2>2. ASSUME NEW word \in Words, insertWord(word) PROVE TreeInv'
      BY <2>2, InsertionKeeps
  <2>3. CASE UNCHANGED treeVars
      BY <2>3 DEF treeVars, TreeInv
  <2>. QED
      BY <2>1, <2>2, <2>3 DEF TreeNext
<1>. QED
    BY <1>1, TreeInvInit, PTL DEF TreeSpec

(* findNode, with the search going down the arrays by counting bits, finds *)
(* the end of a word at the words that were inserted and at no other       *)
(* prefix of a word.                                                       *)
THEOREM TreeHoldsTheWords == TreeSpec => []HoldsTheWords
<1>1. TreeInv => HoldsTheWords
  <2>. SUFFICES ASSUME TreeInv PROVE HoldsTheWords
      OBVIOUS
  <2>. DEFINE P == (UNION {Prefixes(w) : w \in Words}) \ {Root}
  <2>1. P \subseteq Paths \ {Root} /\ Words \subseteq P
      BY WordsAre, PrefixesAre
  <2>2. \A w \in P : EndsWord(findNode(w)) <=> w \in inserted
      BY <2>1, FoundEnds DEF TreeInv
  <2>3. inserted \subseteq P
      BY <2>1 DEF TreeInv
  <2>4. HoldsTheWords <=> {w \in P : EndsWord(findNode(w))} = inserted
      BY Zenon DEF HoldsTheWords
  <2>. HIDE DEF P
  <2>. QED
      BY <2>2, <2>3, <2>4
<1>. QED
    BY <1>1, TreeInvariant, PTL

(* makeRoomInNode and AddStockChild keep as many children as bits, and the *)
(* room that destroyNode will take the node to have.                       *)
THEOREM RoomStaysExact == TreeSpec => []RoomIsExact
<1>1. TreeInv => RoomIsExact
  <2>. SUFFICES ASSUME TreeInv, NEW a \in DOMAIN heap
                PROVE  /\ Len(heap[a].children) = nodeSize(heap[a])
                       /\ nodeSize(heap[a]) <= heap[a].capacity
                       /\ heap[a].capacity = nodeCapacity(nodeSize(heap[a]))
      BY DEF RoomIsExact
  <2>1. Typed(heap) /\ Sized(heap)
      BY DEF TreeInv, Kept, IsTree
  <2>2. nodeSize(heap[a]) \in 0..26
      BY <2>1, NodeIs
  <2>3. nodeCapacity(nodeSize(heap[a])) >= nodeSize(heap[a]) /\ nodeCapacity(nodeSize(heap[a])) \in Int
    <3>1. nodeCapacity(nodeSize(heap[a])) \in Capacities /\ nodeCapacity(nodeSize(heap[a])) >= nodeSize(heap[a])
        BY <2>2, CapacityIs
    <3>. QED
        BY <3>1 DEF Capacities
  <2>. QED
      BY <2>1, <2>2, <2>3 DEF Sized
<1>. QED
    BY <1>1, TreeInvariant, PTL

(* The assertions of simpleTest and fileTest: what the insertions count    *)
(* up, unfinished ones included, destroyNode counts down to nothing.       *)
THEOREM NothingIsLeft == TreeSpec => []NothingLeft
<1>1. TreeInv => NothingLeft
  <2>. SUFFICES ASSUME TreeInv, root = NULL PROVE nodeStatus = Counts(0, 0, 0) /\ DOMAIN heap = {}
      BY DEF NothingLeft
  <2>1. DOMAIN heap = {} /\ nodeStatus = Counts(0, Cardinality(DOMAIN heap), Cardinality(Bytes(heap)))
      BY DEF TreeInv, Kept
  <2>2. Bytes(heap) = {}
      BY <2>1 DEF Bytes
  <2>3. Cardinality({}) = 0
      BY FS_EmptySet
  <2>. QED
      BY <2>1, <2>2, <2>3
<1>. QED
    BY <1>1, TreeInvariant, PTL
=============================================================================
