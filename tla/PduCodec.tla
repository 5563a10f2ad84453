------------------------------ MODULE PduCodec ------------------------------
(***************************************************************************)
(* pdu.c: UTF-8 text to the user data of an SMS and back.  One behaviour   *)
(* is sms_pdu_encode_text (or sms_pdu_encode_auto) on some input, then     *)
(* sms_pdu_decode_text on what it produced.  Text is a sequence of octets. *)
(*                                                                         *)
(* User data is a sequence of octets, except for GSM7, where it is the     *)
(* sequence of their bits, the least significant first: `bits |= septet <<  *)
(* bit_count` then appends seven bits, and `bits >>= 8` drops eight.  Two  *)
(* hexadecimal digits an octet are left out.                               *)
(***************************************************************************)
EXTENDS Integers, Sequences

CONSTANTS
    Inputs, \* the strings that are encoded, without the final zero
    Sizes   \* hex_output_size, in characters

ASSUME InputsAssumption == Inputs \subseteq Seq(1..255)
ASSUME SizesAssumption == Sizes \subseteq Nat \ {0}

Encodings == {"GSM7", "8BIT", "UCS2"}

VARIABLES
    utf8,     \* the input
    auto,     \* sms_pdu_encode_auto chooses the encoding
    encoding,
    size,     \* hex_output_size
    pc,       \* "detect", "encode", "encoded", "decode", or the end of it
    pos,      \* next octet of the input, or of the user data in decode
    todo,     \* septets of the present character still to be packed
    bits,     \* bits and bit_count
    data,     \* the user data
    septets,  \* those packed so far; data_units is their number
    seen,     \* septets unpacked so far; septet_index is their number
    escaped,
    text,     \* utf8_output
    why       \* the result of a call that failed

vars == <<utf8, auto, encoding, size, pc, pos, todo, bits, data, septets, seen, escaped, text, why>>

-----------------------------------------------------------------------------
(* UTF-8                                                                   *)

Within(n, low, high) == low <= n /\ n <= high

\* s is terminated by a zero.
At(s, i) == IF i <= Len(s) THEN s[i] ELSE 0
Continues(b) == Within(b, 128, 191)

Invalid == [len |-> 0, cp |-> 0]

\* utf8_next at place i: the octets it takes and the code point.
Mut_Utf8Next(s, i) ==
    LET b(k) == At(s, i + k) IN
    CASE b(0) < 128 -> [len |-> 1, cp |-> b(0)]
      [] Within(b(0), 192, 223) /\ Continues(b(1)) ->
            [len |-> 2, cp |-> (b(0) % 32) * 64 + (b(1) % 64)]
      [] Within(b(0), 224, 239) /\ Continues(b(1)) /\ Continues(b(2)) ->
            [len |-> 3, cp |-> (b(0) % 16) * 4096 + (b(1) % 64) * 64 + (b(2) % 64)]
      [] OTHER -> Invalid
Utf8Next(s, i) ==
    LET b(k) == At(s, i + k) IN
    CASE b(0) < 128 -> [len |-> 1, cp |-> b(0)]
      [] Within(b(0), 194, 223) /\ Continues(b(1)) ->
            [len |-> 2, cp |-> (b(0) % 32) * 64 + (b(1) % 64)]
      [] /\ Within(b(0), 224, 239) /\ Continues(b(1)) /\ Continues(b(2))
         /\ ~(b(0) = 224 /\ b(1) < 160) /\ ~(b(0) = 237 /\ b(1) >= 160) ->
            [len |-> 3, cp |-> (b(0) % 16) * 4096 + (b(1) % 64) * 64 + (b(2) % 64)]
      [] /\ Within(b(0), 240, 244) /\ Continues(b(1)) /\ Continues(b(2)) /\ Continues(b(3))
         /\ ~(b(0) = 240 /\ b(1) < 144) /\ ~(b(0) = 244 /\ b(1) > 143) ->
            [len |-> 4, cp |-> (b(0) % 8) * 262144 + (b(1) % 64) * 4096
                                + (b(2) % 64) * 64 + (b(3) % 64)]
      [] OTHER -> Invalid

\* append_utf8
Utf8(cp) ==
    IF cp < 128 THEN <<cp>>
    ELSE IF cp < 2048 THEN <<192 + (cp \div 64), 128 + (cp % 64)>>
    ELSE IF cp < 65536
    THEN <<224 + (cp \div 4096), 128 + ((cp \div 64) % 64), 128 + (cp % 64)>>
    ELSE <<240 + (cp \div 262144), 128 + ((cp \div 4096) % 64),
           128 + ((cp \div 64) % 64), 128 + (cp % 64)>>

-----------------------------------------------------------------------------
(* GSM 03.38                                                               *)

Escape == 27

\* `basic`: the code points of the septets 0 to 31.
Basic == <<64, 163, 36, 165, 232, 233, 249, 236, 242, 199, 10, 216, 248, 13, 197, 229,
           916, 95, 934, 915, 923, 937, 928, 936, 931, 920, 926, 27, 198, 230, 223, 201>>

\* The extension table, and the characters the two functions treat one by one,
\* as pairs of code point and septet.
Extension == {<<12, 10>>, <<94, 20>>, <<123, 40>>, <<125, 41>>, <<92, 47>>,
              <<91, 60>>, <<126, 61>>, <<93, 62>>, <<124, 64>>, <<8364, 101>>}
Single == {<<164, 36>>, <<161, 64>>, <<191, 96>>, <<196, 91>>, <<214, 92>>, <<209, 93>>,
           <<220, 94>>, <<167, 95>>, <<228, 123>>, <<246, 124>>, <<241, 125>>,
           <<252, 126>>, <<224, 127>>}

\* gsm7_from_code_point: the septets of a character, none if it has none.
InTable(cp, table) == \E p \in table : p[1] = cp
SeptetIn(cp, table) == (CHOOSE p \in table : p[1] = cp)[2]
SeptetsOf(cp) ==
    IF InTable(cp, Extension) THEN <<Escape, SeptetIn(cp, Extension)>>
    ELSE IF \E i \in 1..32 : Basic[i] = cp THEN <<(CHOOSE i \in 1..32 : Basic[i] = cp) - 1>>
    ELSE IF Within(cp, 32, 122) THEN <<cp>>
    ELSE IF InTable(cp, Single) THEN <<SeptetIn(cp, Single)>>
    ELSE <<>>

\* gsm7_to_code_point: -1 if the septet means nothing.
CodePointOf(septet, extension) ==
    LET table == IF extension THEN Extension ELSE Single IN
    CASE ~extension /\ septet < 32 -> Basic[septet + 1]
      [] ~extension /\ Within(septet, 32, 122) -> septet
      [] OTHER -> IF \E p \in table : p[2] = septet
                  THEN (CHOOSE p \in table : p[2] = septet)[1] ELSE -1

\* The seven bits of a septet, and back.
Bits7(v) == <<v % 2, (v \div 2) % 2, (v \div 4) % 2, (v \div 8) % 2,
              (v \div 16) % 2, (v \div 32) % 2, (v \div 64) % 2>>
Value7(b) == b[1] + 2 * b[2] + 4 * b[3] + 8 * b[4] + 16 * b[5] + 32 * b[6] + 64 * b[7]

\* expected_bytes of sms_pdu_decode_text
Octets(units) == (units * 7 + 7) \div 8

-----------------------------------------------------------------------------
Init ==
    /\ utf8 \in Inputs
    /\ size \in Sizes
    /\ auto \in BOOLEAN
    /\ encoding \in IF auto THEN {"GSM7"} ELSE Encodings
    /\ pc = IF auto \/ encoding = "8BIT" THEN "detect" ELSE "encode"
    /\ pos = 1
    /\ todo = <<>>
    /\ bits = <<>>
    /\ data = <<>>
    /\ septets = <<>>
    /\ seen = <<>>
    /\ escaped = FALSE
    /\ text = <<>>
    /\ why = "ok"

\* The call under way returns an error.
Fail(result) ==
    /\ pc' = IF pc = "decode" THEN "refused" ELSE "failed"
    /\ why' = result
    /\ UNCHANGED <<utf8, auto, encoding, size, pos, todo, bits, data, septets, seen, escaped, text>>

\* append_hex_byte and append_hex_unit keep one character for the zero.
InData == IF encoding = "GSM7" THEN Len(data) \div 8 ELSE Len(data)
Room(octets) == 2 * (InData + octets) <= size - 1

-----------------------------------------------------------------------------
(* sms_pdu_detect_encoding, and the check of 8BIT that goes the same way   *)

DetectChar ==
    /\ pc = "detect"
    /\ pos <= Len(utf8)
    /\ LET char == Utf8Next(utf8, pos) IN
       \/ char.len = 0 /\ Fail("invalid utf8")
       \/ /\ char.len > 0
          /\ IF auto /\ SeptetsOf(char.cp) = <<>>
             THEN encoding' = "UCS2" /\ pc' = "encode" /\ pos' = 1
             ELSE pos' = pos + char.len /\ UNCHANGED <<encoding, pc>>
          /\ UNCHANGED <<utf8, auto, size, todo, bits, data, septets, seen, escaped, text, why>>

EndDetect ==
    /\ pc = "detect"
    /\ pos > Len(utf8)
    /\ pc' = "encode"
    /\ pos' = 1
    /\ UNCHANGED <<utf8, auto, encoding, size, todo, bits, data, septets, seen, escaped, text, why>>

-----------------------------------------------------------------------------
(* sms_pdu_encode_text                                                     *)

Encoding(e) == pc = "encode" /\ encoding = e

ReadChar ==
    /\ Encoding("GSM7")
    /\ todo = <<>>
    /\ pos <= Len(utf8)
    /\ LET char == Utf8Next(utf8, pos) IN
       \/ char.len = 0 /\ Fail("invalid utf8")
       \/ char.len > 0 /\ SeptetsOf(char.cp) = <<>> /\ Fail("unsupported")
       \/ /\ char.len > 0 /\ SeptetsOf(char.cp) # <<>>
          /\ todo' = SeptetsOf(char.cp)
          /\ pos' = pos + char.len
          /\ UNCHANGED <<utf8, auto, encoding, size, pc, bits, data, septets, seen, escaped, text, why>>

\* A septet goes behind the bits that wait; eight of them are an octet.
Mut_PutSeptet ==
    /\ Encoding("GSM7")
    /\ todo # <<>>
    /\ LET all == bits \o Bits7(Head(todo)) IN
       \/ Len(all) >= 8 /\ ~Room(1) /\ Fail("no space")
       \/ /\ Len(all) >= 8 => Room(1)
          /\ data' = IF Len(all) >= 8 THEN data \o SubSeq(all, 1, 8) ELSE data
          /\ bits' = IF Len(all) >= 8 THEN <<>> ELSE all
          /\ septets' = Append(septets, Head(todo))
          /\ todo' = Tail(todo)
          /\ UNCHANGED <<utf8, auto, encoding, size, pc, pos, seen, escaped, text, why>>
PutSeptet ==
    /\ Encoding("GSM7")
    /\ todo # <<>>
    /\ LET all == bits \o Bits7(Head(todo)) IN
       \/ Len(all) >= 8 /\ ~Room(1) /\ Fail("no space")
       \/ /\ Len(all) >= 8 => Room(1)
          /\ data' = IF Len(all) >= 8 THEN data \o SubSeq(all, 1, 8) ELSE data
          /\ bits' = IF Len(all) >= 8 THEN SubSeq(all, 9, Len(all)) ELSE all
          /\ septets' = Append(septets, Head(todo))
          /\ todo' = Tail(todo)
          /\ UNCHANGED <<utf8, auto, encoding, size, pc, pos, seen, escaped, text, why>>

\* The bits that are left make up a last octet with zeros above them.
Padding == [i \in 1..(8 - Len(bits)) |-> 0]
EndPack ==
    /\ Encoding("GSM7")
    /\ todo = <<>>
    /\ pos > Len(utf8)
    /\ \/ bits # <<>> /\ ~Room(1) /\ Fail("no space")
       \/ /\ bits # <<>> => Room(1)
          /\ data' = IF bits = <<>> THEN data ELSE data \o bits \o Padding
          /\ bits' = <<>>
          /\ pc' = "encoded"
          /\ UNCHANGED <<utf8, auto, encoding, size, pos, todo, septets, seen, escaped, text, why>>

\* A character in octets: itself in 8BIT, one or two UTF-16 units in UCS2.
Unit(u) == <<u \div 256, u % 256>>
Utf16(cp) ==
    IF cp < 65536 THEN Unit(cp)
    ELSE Unit(55296 + ((cp - 65536) \div 1024)) \o Unit(56320 + ((cp - 65536) % 1024))
Chunk(char) ==
    IF encoding = "UCS2" THEN Utf16(char.cp) ELSE SubSeq(utf8, pos, pos + char.len - 1)

PutChar ==
    /\ pc = "encode" /\ encoding # "GSM7"
    /\ pos <= Len(utf8)
    /\ LET char == Utf8Next(utf8, pos) IN
       \/ char.len = 0 /\ Fail("invalid utf8")
       \/ char.len > 0 /\ ~Room(Len(Chunk(char))) /\ Fail("no space")
       \/ /\ char.len > 0 /\ Room(Len(Chunk(char)))
          /\ data' = data \o Chunk(char)
          /\ pos' = pos + char.len
          /\ UNCHANGED <<utf8, auto, encoding, size, pc, todo, bits, septets, seen, escaped, text, why>>

EndEncode ==
    /\ pc = "encode" /\ encoding # "GSM7"
    /\ pos > Len(utf8)
    /\ pc' = "encoded"
    /\ UNCHANGED <<utf8, auto, encoding, size, pos, todo, bits, data, septets, seen, escaped, text, why>>

-----------------------------------------------------------------------------
(* sms_pdu_decode_text                                                     *)

\* data_units is what the encoder returned; only for GSM7 it says more than
\* the length of the data does.
StartDecode ==
    /\ pc = "encoded"
    /\ pc' = IF encoding = "GSM7" /\ 8 * Octets(Len(septets)) # Len(data)
             THEN "refused" ELSE "decode"
    /\ why' = IF pc' = "refused" THEN "invalid hex" ELSE why
    /\ pos' = 1
    /\ UNCHANGED <<utf8, auto, encoding, size, todo, bits, data, septets, seen, escaped, text>>

Decoding(e) == pc = "decode" /\ encoding = e

\* An octet is read when fewer than seven bits wait.
MustRead == Len(bits) < 7
CanRead == pos + 7 <= Len(data)
Waiting == IF MustRead THEN bits \o SubSeq(data, pos, pos + 7) ELSE bits

\* What septet v adds to the text: nothing if it is the escape.
Meaning(v) == IF ~escaped /\ v = Escape THEN 0 ELSE CodePointOf(v, escaped)

TakeSeptet ==
    /\ Decoding("GSM7")
    /\ Len(seen) < Len(septets)
    /\ \/ MustRead /\ ~CanRead /\ Fail("invalid hex")
       \/ /\ MustRead => CanRead
          /\ LET v == Value7(Waiting) IN
             /\ seen' = Append(seen, v)
             /\ bits' = SubSeq(Waiting, 8, Len(Waiting))
             /\ pos' = IF MustRead THEN pos + 8 ELSE pos
             /\ escaped' = (~escaped /\ v = Escape)
             /\ text' = IF escaped' \/ Meaning(v) = -1 THEN text ELSE text \o Utf8(Meaning(v))
             /\ pc' = IF Meaning(v) = -1 THEN "refused" ELSE pc
             /\ why' = IF Meaning(v) = -1 THEN "unsupported" ELSE why
          /\ UNCHANGED <<utf8, auto, encoding, size, todo, data, septets>>

EndUnpack ==
    /\ Decoding("GSM7")
    /\ Len(seen) = Len(septets)
    /\ \/ escaped /\ Fail("invalid utf16")
       \/ /\ ~escaped
          /\ pc' = "done"
          /\ UNCHANGED <<utf8, auto, encoding, size, pos, todo, bits, data, septets, seen, escaped, text, why>>

\* sms_pdu_decode_utf8: the UTF-16 character of s at place i.
UnitAt(s, i) == s[i] * 256 + s[i + 1]
IsHigh(u) == 55296 <= u /\ u < 56320
IsLow(u) == 56320 <= u /\ u < 57344
Utf16Next(s, i) ==
    CASE IsLow(UnitAt(s, i)) -> Invalid
      [] IsHigh(UnitAt(s, i)) ->
            IF i + 3 <= Len(s) /\ IsLow(UnitAt(s, i + 2))
            THEN [len |-> 4, cp |-> 65536 + (UnitAt(s, i) - 55296) * 1024 + UnitAt(s, i + 2) - 56320]
            ELSE Invalid
      [] OTHER -> [len |-> 2, cp |-> UnitAt(s, i)]

TakeChar ==
    /\ pc = "decode" /\ encoding # "GSM7"
    /\ pos <= Len(data)
    /\ LET char == IF encoding = "UCS2" THEN Utf16Next(data, pos) ELSE Utf8Next(data, pos) IN
       \/ char.len = 0 /\ Fail(IF encoding = "UCS2" THEN "invalid utf16" ELSE "invalid utf8")
       \/ /\ char.len > 0
          /\ text' = text \o Utf8(char.cp)
          /\ pos' = pos + char.len
          /\ UNCHANGED <<utf8, auto, encoding, size, pc, todo, bits, data, septets, seen, escaped, why>>

EndDecode ==
    /\ pc = "decode" /\ encoding # "GSM7"
    /\ pos > Len(data)
    /\ pc' = "done"
    /\ UNCHANGED <<utf8, auto, encoding, size, pos, todo, bits, data, septets, seen, escaped, text, why>>

-----------------------------------------------------------------------------
Detect == DetectChar \/ EndDetect
Encode == ReadChar \/ PutSeptet \/ EndPack \/ PutChar \/ EndEncode
Decode == StartDecode \/ TakeSeptet \/ EndUnpack \/ TakeChar \/ EndDecode

\* Both calls have returned, or one failed.
Returned == pc \in {"done", "failed", "refused"} /\ UNCHANGED vars

Next == Detect \/ Encode \/ Decode \/ Returned

Spec == Init /\ [][Next]_vars

-----------------------------------------------------------------------------
Septets == 0..127
Bit == {0, 1}

\* Every variable the packing uses has its type; `bits` never holds an octet.
TypeOK ==
    /\ utf8 \in Inputs /\ encoding \in Encodings /\ size \in Nat /\ pos \in Nat \ {0}
    /\ pc \in {"detect", "encode", "encoded", "decode", "done", "failed", "refused"}
    /\ todo \in Seq(Septets) /\ septets \in Seq(Septets) /\ seen \in Seq(Septets)
    /\ bits \in Seq(Bit) /\ Len(bits) < 8
    /\ encoding = "GSM7" => data \in Seq(Bit) /\ Len(data) % 8 = 0

\* stream begins with the bits of the septets packed so far.
Packed(stream) ==
    \A i \in 1..Len(septets) : \A j \in 1..7 :
        stream[7 * (i - 1) + j] = Bits7(septets[i])[j]

\* While it packs, the data and the bits that wait are the septets' bits and
\* no others (lines 344-362),
PackedSoFar ==
    Encoding("GSM7") =>
        Len(data) + Len(bits) = 7 * Len(septets) /\ Packed(data \o bits)

\* and the data is as long as the decoder expects once it is complete (363-366).
PackedWhole ==
    encoding = "GSM7" /\ pc \in {"encoded", "decode"} =>
        Len(data) = 8 * Octets(Len(septets)) /\ Packed(data)

\* The decoder holds the bits between the septets it has seen and the octet it
\* reads next, and has seen what was packed (433-448).
UnpackedSoFar ==
    Decoding("GSM7") =>
        /\ Len(seen) <= Len(septets)
        /\ \A i \in 1..Len(seen) : seen[i] = septets[i]
        /\ pos - 1 = 7 * Len(seen) + Len(bits) /\ pos - 1 <= Len(data)
        /\ (pos - 1) % 8 = 0
        /\ \A j \in 1..Len(bits) : bits[j] = data[7 * Len(seen) + j]

\* What a phase has not used yet is empty.
Resting ==
    /\ pc \in {"detect", "encode"} => seen = <<>>
    /\ pc = "detect" => todo = <<>> /\ bits = <<>> /\ data = <<>> /\ septets = <<>>
    /\ encoding # "GSM7" => bits = <<>> /\ septets = <<>>
    /\ pc = "encoded" => bits = <<>> /\ seen = <<>>

\* The inductive invariant of PduCodecProofs.
Packing == TypeOK /\ PackedSoFar /\ PackedWhole /\ UnpackedSoFar /\ Resting

\* The decoder sees the septets the encoder packed and never misses an octet:
\* data_units and the length of the data always agree (lines 429-442).
SeptetsSurvive ==
    /\ \A i \in 1..Len(seen) : seen[i] = septets[i]
    /\ encoding = "GSM7" => why # "invalid hex"

\* The characters whose code the decoder gives to another one, and the escape.
Ambiguous == {164, 161, 191, 196, 214, 209, 220, 167, Escape}
Reads(s, cp) == \E i \in 1..Len(s) : (i = 1 \/ ~Continues(s[i])) /\ Utf8Next(s, i).cp = cp

\* What was encoded without an error is decoded without an error to the same
\* octets, in every encoding, unless a GSM7 text has an ambiguous character:
\* overlong UTF-8, surrogates and wrong lengths never get that far.
RoundTrip ==
    encoding # "GSM7" \/ ~(\E cp \in Ambiguous : Reads(utf8, cp)) =>
        /\ pc = "done" => text = utf8
        /\ pc # "refused"
=============================================================================
