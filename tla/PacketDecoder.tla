---------------------------- MODULE PacketDecoder ----------------------------
(***************************************************************************)
(* The Decoder of packet-read-43228728/main.cpp at the end of an AppPipe.  *)
(* A sender writes packets as hexadecimal text, cut wherever it likes; the *)
(* pipe hands each write over at once, and the decoder keeps what does not *)
(* make a packet yet.  A packet is a header of four bytes, the last of     *)
(* them the number of bytes after the header.                              *)
(***************************************************************************)
EXTENDS Integers, Sequences, FiniteSets

CONSTANTS
    Packets,    \* the packets that are sent, sequences of bytes
    Text        \* their text: numbers below 16 are hexadecimal digits

junk == -1

(* A byte of a QByteArray is a char, which has a sign. *)
Signed(byte) == IF byte < 128 THEN byte ELSE byte - 256
PacketLength(data) == 4 + Signed(data[4])

ASSUME PacketsAssumption ==
    Packets \in Seq(Seq(0..255)) /\ \A k \in DOMAIN Packets :
        LET p == Packets[k] IN Len(p) >= 4 /\ p[4] < 128 /\ Len(p) = PacketLength(p)

(* How many bytes the first k packets have, and how many digits the first  *)
(* i characters are.                                                       *)
EndOf[k \in 0..Len(Packets)] == IF k = 0 THEN 0 ELSE EndOf[k - 1] + Len(Packets[k])
DigitsIn(i) == Cardinality({j \in 1..i : Text[j] # junk})

(* The digits are those of the packets' bytes, with junk anywhere. *)
Spells(digit, at) ==
    \A k \in DOMAIN Packets : \A j \in DOMAIN Packets[k] :
        /\ at = 2 * (EndOf[k - 1] + j) - 1 => digit = Packets[k][j] \div 16
        /\ at = 2 * (EndOf[k - 1] + j) => digit = Packets[k][j] % 16
ASSUME TextAssumption ==
    /\ Text \in Seq(junk..15)
    /\ \A i \in DOMAIN Text : DigitsIn(i) <= 2 * EndOf[Len(Packets)] /\ (Text[i] # junk => Spells(Text[i], DigitsIn(i)))

VARIABLES
    written,        \* how many characters of the text the sender has written
    m_data, m_first, m_isFirst,
    messages,       \* hasMessage signals
    surplus         \* history: packets completed by a write that completed one before

decoderVars == <<written, m_data, m_first, m_isFirst, messages, surplus>>

DecoderInit == /\ written = 0
               /\ m_data = <<>> /\ m_first = 0 /\ m_isFirst = TRUE
               /\ messages = <<>>
               /\ surplus = 0

-----------------------------------------------------------------------------
(* One character.  m_first holds the high digit, already shifted. *)
DecodeChar(d, val) ==
    IF val < 0 THEN d
    ELSE [data    |-> IF d.isFirst THEN d.data ELSE Append(d.data, d.first + val),
          first   |-> IF d.isFirst THEN 16 * val ELSE d.first,
          isFirst |-> ~d.isFirst]

DecodeFrom(start, src) ==
    LET d[i \in 0..Len(src)] == IF i = 0 THEN start ELSE DecodeChar(d[i - 1], src[i])
    IN  d[Len(src)]

(* A decoder that takes every write to start with a high digit. *)
DecodeAfresh(src) == DecodeFrom([data |-> m_data, first |-> m_first, isFirst |-> TRUE], src)

Decoder_decode(src) == DecodeFrom([data |-> m_data, first |-> m_first, isFirst |-> m_isFirst], src)

(* A packet is taken out only when more has come after it. *)
HasLongerPacket(data) == Len(data) >= 4 /\ Len(data) > PacketLength(data)

HasPacket(data) == Len(data) >= 4 /\ Len(data) >= PacketLength(data)

(* History: the packets all of whose digits are among the first i characters. *)
Complete(i) ==
    LET digits == DigitsIn(i) IN Cardinality({k \in DOMAIN Packets : 2 * EndOf[k] <= digits})

(* A write of n characters arrives in the pipe, which emits readyRead; the *)
(* decoder takes one packet at most out of what it has then.               *)
Write(n) ==
    LET d      == Decoder_decode(SubSeq(Text, written + 1, written + n))
        length == PacketLength(d.data)
        news   == Complete(written + n) - Complete(written)
    IN  /\ written' = written + n
        /\ m_first' = d.first /\ m_isFirst' = d.isFirst
        /\ IF HasPacket(d.data)
           THEN /\ messages' = Append(messages, SubSeq(d.data, 1, length))
                /\ m_data' = IF length <= 0 THEN d.data ELSE SubSeq(d.data, length + 1, Len(d.data))
           ELSE messages' = messages /\ m_data' = d.data
        /\ surplus' = IF news > 1 THEN surplus + news - 1 ELSE surplus

DecoderNext == \E n \in 1..(Len(Text) - written) : Write(n)
DecoderSpec == DecoderInit /\ [][DecoderNext]_decoderVars

-----------------------------------------------------------------------------
(* Wherever the writes cut the text, between two digits of a byte or in a  *)
(* header, the messages are the packets, in their order.                   *)
MessagesAreThePackets ==
    Len(messages) <= Len(Packets) /\ \A k \in DOMAIN messages : messages[k] = Packets[k]

(* A packet that has arrived waits only because some write brought more    *)
(* than one: as many wait at most as came that way.                        *)
LateOnlyAfterBursts == Complete(written) - Len(messages) \in 0..surplus
=============================================================================
