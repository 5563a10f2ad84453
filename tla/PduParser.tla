----------------------------- MODULE PduParser -----------------------------
(***************************************************************************)
(* sms2wechat-v7.c: the gateway's own way from the octets of an SMS-       *)
(* DELIVER to a text: parse_raw_pdu, gsm7bit_to_utf8 and ucs2be_to_utf8,   *)
(* as functions of octets.  The texts are those that PduCodec encodes, so  *)
(* that what one program of the repository sends meets the decoder of the  *)
(* other; the SMS center that wraps them is modelled from GSM 03.40.       *)
(***************************************************************************)
EXTENDS PduCodec

CONSTANT Numbers \* numbers of senders, as sequences of digits

\* Any other number is stored as UNKNOWN (line 951).
ASSUME NumbersAssumption == Numbers \subseteq {n \in Seq(0..9) : Len(n) \in 1..31}

-----------------------------------------------------------------------------
(* parse_raw_pdu                                                           *)

Nibble(s, i) ==
    IF i % 2 = 1 THEN s[(i + 1) \div 2] % 16 ELSE s[(i + 1) \div 2] \div 16

\* decode_semi_octet: the first n digits among the nibbles of s, those that
\* are no digits skipped.
Digits(s, n) ==
    LET from[i \in 1..(2 * Len(s) + 1)] ==
            IF i > 2 * Len(s) THEN <<>>
            ELSE IF Nibble(s, i) < 10 THEN <<Nibble(s, i)>> \o from[i + 1]
            ELSE from[i + 1]
    IN IF Len(from[1]) <= n THEN from[1] ELSE SubSeq(from[1], 1, n)

\* oa_bytes
Mut_AddressOctets(digits) == digits \div 2
AddressOctets(digits) == (digits + 1) \div 2

\* `has_udh ...`: what the information elements say of a concatenation.
NotConcat == [concat |-> FALSE, wide |-> FALSE, ref |-> 0, total |-> 0, part |-> 0]
Concatenation(ud) ==
    LET udhl == ud[1]
        from[ie \in 2..(udhl + 2)] ==
            IF ie > udhl \/ ie + ud[ie + 1] > udhl THEN NotConcat
            ELSE IF ud[ie] = 0 /\ ud[ie + 1] = 3
            THEN [concat |-> TRUE, wide |-> FALSE, ref |-> ud[ie + 2],
                  total |-> ud[ie + 3], part |-> ud[ie + 4]]
            ELSE IF ud[ie] = 8 /\ ud[ie + 1] = 4
            THEN [concat |-> TRUE, wide |-> TRUE, ref |-> ud[ie + 2] * 256 + ud[ie + 3],
                  total |-> ud[ie + 4], part |-> ud[ie + 5]]
            ELSE from[ie + 2 + ud[ie + 1]]
    IN from[2]

Is7Bit(dcs) == (dcs \div 4) % 4 = 0

\* An SMSFrame, or Rejected.  A UDL of a 7-bit message counts septets; the data
\* of a frame is counted in octets whatever its coding (line 1069).
Rejected == [id |-> NotConcat, sender |-> <<>>, dcs |-> -1, data |-> <<>>]
Frame(pdu) ==
    LET first == 2 + pdu[1]                  \* first octet of the TPDU
        digits == pdu[first + 1]
        pid == first + 3 + AddressOctets(digits)
        dcs == pdu[pid + 1]
        udl == pdu[pid + 9]
        udLen == IF Is7Bit(dcs) THEN Octets(udl) ELSE udl
        ud == SubSeq(pdu, pid + 10, pid + 9 + udLen)
        hasUdh == (pdu[first] \div 64) % 2 = 1 /\ udLen > 0
        header == IF hasUdh THEN 1 + ud[1] ELSE 0
        concatenation == IF hasUdh THEN Concatenation(ud) ELSE NotConcat
    IN  IF \/ Len(pdu) < 2 \/ first + 2 > Len(pdu) \/ pid + 9 > Len(pdu)
           \/ pid + 9 + udLen > Len(pdu)
           \/ hasUdh /\ (ud[1] = 0 \/ header > udLen)
           \/ concatenation.concat /\ ~(concatenation.total > 0 /\ concatenation.part <= concatenation.total)
        THEN Rejected
        ELSE [id |-> concatenation,
              sender |-> IF digits \in 1..31 THEN Digits(SubSeq(pdu, first + 3, Len(pdu)), digits)
                         ELSE <<"UNKNOWN">>,
              dcs |-> dcs,
              data |-> SubSeq(ud, header + 1, udLen)]

-----------------------------------------------------------------------------
(* gsm7bit_to_utf8 and ucs2be_to_utf8; handle_sms_frame passes data_len as *)
(* the number of septets and 0 as shift_bits.                              *)

\* Shifting by n places multiplies or divides by Power[n + 1].
Power == <<1, 2, 4, 8, 16, 32, 64, 128>>
SeptetAt(s, i) ==
    LET octet == (i * 7) \div 8
        offset == (i * 7) % 8
        low == s[octet + 1] \div Power[offset + 1]
    IN  (IF offset <= 1 THEN low ELSE low + s[octet + 2] * Power[9 - offset]) % 128

\* dispatch_decoded_sms takes the octets for a C string.
CString(s) ==
    IF \E i \in 1..Len(s) : s[i] = 0
    THEN SubSeq(s, 1, (CHOOSE i \in 1..Len(s) : s[i] = 0 /\ \A j \in 1..(i - 1) : s[j] # 0) - 1)
    ELSE s

\* WideCharToMultiByte of whole units; what is no character becomes U+FFFD.
Replacement == 65533
Wide(s) ==
    LET from[i \in 1..(Len(s) + 1)] ==
            IF i >= Len(s) THEN <<>>
            ELSE LET char == Utf16Next(s, i) IN
                 IF char.len = 0 THEN Utf8(Replacement) \o from[i + 2]
                 ELSE Utf8(char.cp) \o from[i + char.len]
    IN from[1]

\* The text of the data of a frame or of joined frames; <<>> also stands for
\* the refusal of empty and, in UCS2, odd data.
Mut_TextOf(s, dcs) ==
    IF Is7Bit(dcs) THEN CString([i \in 1..((Len(s) * 8) \div 7) |-> SeptetAt(s, i - 1)])
    ELSE IF Len(s) % 2 = 1 THEN <<>> ELSE CString(Wide(s))
TextOf(s, dcs) ==
    IF Is7Bit(dcs) THEN CString([i \in 1..Len(s) |-> SeptetAt(s, i - 1)])
    ELSE IF Len(s) % 2 = 1 THEN <<>> ELSE CString(Wide(s))

-----------------------------------------------------------------------------
(* The SMS center                                                          *)

\* Two digits an octet, the first in the low half, 15 to fill the last.
SemiOctets(number) ==
    [i \in 1..((Len(number) + 1) \div 2) |->
        number[2 * i - 1] + 16 * (IF 2 * i <= Len(number) THEN number[2 * i] ELSE 15)]

\* 145 and 0 are an international number and a plain message; the time stamp
\* is seven octets.
Deliver(center, number, udhi, dcs, udl, ud) ==
    (IF center = <<>> THEN <<0>> ELSE <<1 + Len(SemiOctets(center)), 145>> \o SemiOctets(center))
    \o <<IF udhi THEN 68 ELSE 4, Len(number), 145>> \o SemiOctets(number)
    \o <<0, dcs, 98, 112, 33, 65, 1, 0, 35, udl>> \o ud

\* Headers that name part i of two of a long message with reference 5, alone
\* or behind another element.
Headers(i) == {<<5, 0, 3, 5, 2, i>>, <<6, 8, 4, 0, 5, 2, i>>, <<10, 36, 3, 8, 4, 1, 0, 3, 5, 2, i>>}

\* What a UCS-2 text becomes on its way, whole and in two parts that are cut
\* between any two units.
Centers == {<<>>, <<8, 6, 1>>}
WholePdu(c, n) == Deliver(c, n, FALSE, 8, Len(data), data)
PartPdu(n, h, ud) == Deliver(<<>>, n, TRUE, 8, Len(h) + Len(ud), h \o ud)
Cuts == {cut \in 0..Len(data) : cut % 2 = 0}

\* The octets of user data a message can hold; its length, counted in octets or
\* septets, then fits the one octet it has.
UserData == 140

OctetsOf(stream) ==
    [i \in 1..(Len(stream) \div 8) |->
        Value7(SubSeq(stream, 8 * i - 7, 8 * i - 1)) + 128 * stream[8 * i]]

-----------------------------------------------------------------------------
Encoded(e) == pc = "encoded" /\ encoding = e

\* A UCS2 text that smset's encoder makes reaches the database as it was, with
\* the number of its sender; in two parts each of them is known for what it is,
\* and joined they are the text again, even when the cut separates surrogates
\* (lines 907-1081, 1233-1243, 1333-1350).
Ucs2Arrives ==
    Encoded("UCS2") /\ utf8 # <<>> =>
        /\ Len(data) <= UserData =>
              \A c \in Centers, n \in Numbers :
                  LET frame == Frame(WholePdu(c, n))
                  IN  /\ frame.dcs = 8 /\ ~frame.id.concat /\ frame.sender = n
                      /\ TextOf(frame.data, 8) = utf8
        /\ \A n \in Numbers, cut \in Cuts : \A h \in Headers(1), g \in Headers(2) :
              Len(h) + cut <= UserData /\ Len(g) + Len(data) - cut <= UserData =>
                  LET one == Frame(PartPdu(n, h, SubSeq(data, 1, cut)))
                      two == Frame(PartPdu(n, g, SubSeq(data, cut + 1, Len(data))))
                  IN  /\ one.id.concat /\ two.id.concat /\ one.sender = n /\ two.sender = n
                      /\ one.id.ref = 5 /\ one.id.total = 2 /\ one.id.part = 1
                      /\ two.id.ref = 5 /\ two.id.total = 2 /\ two.id.part = 2
                      /\ TextOf(one.data \o two.data, 8) = utf8

\* A GSM7 text whose characters have their ASCII code as septet arrives without
\* its last eighth and otherwise as it was: parse_raw_pdu replaces the number of
\* septets by that of octets (lines 1065-1069), and no text of seven characters
\* or less loses any.
Plain == \A i \in 1..Len(utf8) : SeptetsOf(utf8[i]) = <<utf8[i]>>
OnlyTheTailIsLost ==
    Encoded("GSM7") /\ Plain /\ Octets(Len(septets)) <= UserData =>
        LET frame == Frame(Deliver(<<>>, <<1>>, FALSE, 0, Len(septets), OctetsOf(data)))
        IN  /\ frame.dcs = 0
            /\ TextOf(frame.data, 0) = SubSeq(utf8, 1, Len(utf8) - (Len(utf8) \div 8))
=============================================================================
