----------------------------- MODULE BeaconCodec -----------------------------
(***************************************************************************)
(* The telemetry of morse-encoding-65095267/main.c: the fields of a beacon *)
(* become the digits, in a radix for each field, of one large number; the  *)
(* number is sent in an alphabet of 36 characters, least significant first *)
(* and without the zeroes at its end.  The receiver undoes all of it.      *)
(*                                                                         *)
(* A value is given by its place in the range of its field, in parts.      *)
(***************************************************************************)
EXTENDS Integers, Sequences

CONSTANTS
    Parts,      \* parts the range of a float is divided into
    Beacons     \* what may be sent: a place in 0..Parts, or a char's value, for each field

(* My_Beacon_Fields, least significant last; range = 0 stands for a char,  *)
(* whose values are packed as they are.                                    *)
Field(num_values, range) == [num_values |-> num_values, range |-> range]
My_Beacon_Fields == <<Field(64, 1), Field(64, 3), Field(32, 20), Field(32, 20), Field(64, 1),
                      Field(64, 25), Field(64, 25), Field(32, 10),
                      Field(4, 0), Field(2, 0), Field(2, 0), Field(2, 0)>>
Num_Fields == Len(My_Beacon_Fields)
Packed_Length == 7
Encoded_Length == 10
Num_Alphabet_Chars == 36
NUL == Num_Alphabet_Chars   \* strchr finds the terminator at the end of the alphabet

ASSUME BeaconsAssumption == Parts \in Nat \ {0} /\ Beacons \subseteq [1..Num_Fields -> Nat]

VARIABLES
    input,          \* the My_Beacon to send
    p1, e, p2,      \* what main() computes from it, <<>> before
    output          \* the digits of the received fields

beaconVars == <<input, p1, e, p2, output>>

BeaconInit == input \in Beacons /\ p1 = <<>> /\ e = <<>> /\ p2 = <<>> /\ output = <<>>

-----------------------------------------------------------------------------
(* A packed beacon is Packed_Length bytes, least significant first.  The   *)
(* two operations on it: p * mul + term, and p \div divisor with the       *)
(* remainder, a byte at a time.                                            *)
Cleared == [i \in 1..Packed_Length |-> 0]

P_MAC(p, mul, term) ==
    LET accum[i \in 0..Packed_Length] == IF i = 0 THEN term ELSE (accum[i - 1] + p[i] * mul) \div 256
    IN  [i \in 1..Packed_Length |-> (accum[i - 1] + p[i] * mul) % 256]

P_DIV(p, divisor) ==
    LET remainder[i \in 0..Packed_Length] ==
            IF i = Packed_Length THEN 0 ELSE (256 * remainder[i + 1] + p[i + 1]) % divisor
    IN  [remainder |-> remainder[0],
         c |-> [i \in 1..Packed_Length |-> (256 * remainder[i] + p[i]) \div divisor]]

(* Pack_float maps the range to one that may be longer than num_values - 1 *)
(* and, unlike Pack_char, lets the result be num_values or more.           *)
Span(f) == 2 * (f.num_values - 1) + f.range
Digit(f, v) == IF f.range = 0 THEN v ELSE (v * Span(f)) \div (2 * Parts)

pack(b) ==
    LET packed[i \in 0..Num_Fields] ==
            IF i = 0 THEN Cleared
            ELSE P_MAC(packed[i - 1], My_Beacon_Fields[i].num_values, Digit(My_Beacon_Fields[i], b[i]))
    IN  packed[Num_Fields]

(* The fields come out in the order they went in. *)
unpackForwards(p) ==
    LET left[i \in 0..Num_Fields] ==
            IF i = 0 THEN p ELSE P_DIV(left[i - 1], My_Beacon_Fields[i].num_values).c
    IN  [i \in 1..Num_Fields |-> P_DIV(left[i - 1], My_Beacon_Fields[i].num_values).remainder]

(* The last field comes out first; left[i] holds those up to the i-th. *)
unpack(p) ==
    LET left[i \in 0..Num_Fields] ==
            IF i = Num_Fields THEN p ELSE P_DIV(left[i + 1], My_Beacon_Fields[i + 1].num_values).c
    IN  [i \in 1..Num_Fields |-> P_DIV(left[i], My_Beacon_Fields[i].num_values).remainder]

Spelled(p) ==
    LET left[i \in 0..Encoded_Length] == IF i = 0 THEN p ELSE P_DIV(left[i - 1], Num_Alphabet_Chars).c
    IN  [i \in 1..Encoded_Length |-> P_DIV(left[i - 1], Num_Alphabet_Chars).remainder]

(* All of the alphabet's zeroes at the end go, but never the first one. *)
Trimmed(c) == [i \in DOMAIN c |-> IF i > 1 /\ \A j \in i..Encoded_Length : c[j] = 0 THEN NUL ELSE c[i]]
encode(p) == Trimmed(Spelled(p))

decode(c) ==
    LET packed[i \in 0..Encoded_Length] ==
            IF i = Encoded_Length THEN Cleared ELSE P_MAC(packed[i + 1], Num_Alphabet_Chars, c[i + 1])
    IN  packed[0]

-----------------------------------------------------------------------------
(* main() *)
Pack    == p1 = <<>> /\ p1' = pack(input) /\ UNCHANGED <<input, e, p2, output>>
Encode  == p1 # <<>> /\ e = <<>> /\ e' = encode(p1) /\ UNCHANGED <<input, p1, p2, output>>
Receive == e # <<>> /\ p2 = <<>> /\ p2' = decode(e) /\ UNCHANGED <<input, p1, e, output>>
Unpack  == p2 # <<>> /\ output = <<>> /\ output' = unpack(p2) /\ UNCHANGED <<input, p1, e, p2>>

BeaconNext == Pack \/ Encode \/ Receive \/ Unpack
BeaconSpec == BeaconInit /\ [][BeaconNext]_beaconVars

-----------------------------------------------------------------------------
(* A field's value past the last of its digits, which its declared range   *)
(* does not exclude, goes into the field before it.                        *)
Fits == \A i \in 1..Num_Fields : Digit(My_Beacon_Fields[i], input[i]) < My_Beacon_Fields[i].num_values

(* If every field fits its digits and no zero was removed, each float is   *)
(* received less than one step below what was sent, and each char as sent. *)
ReceivedWithinAStep ==
    output # <<>> /\ Fits /\ (\A i \in DOMAIN e : e[i] # NUL) =>
        \A i \in 1..Num_Fields :
            LET f == My_Beacon_Fields[i] IN
            IF f.range = 0 THEN output[i] = input[i]
            ELSE input[i] * Span(f) - output[i] * 2 * Parts \in 0..(2 * Parts - 1)

(* What main() asserts: the packed beacon that was sent is received.  It   *)
(* is not when a zero was removed, for the receiver reads 36 in its place. *)
RoundTrip == p2 # <<>> => p2 = p1
=============================================================================
