--------------------------- MODULE PduCodecProofs ---------------------------
(***************************************************************************)
(* Proofs about PduCodec and PduParser: the bits of the user data are      *)
(* those of the septets, the decoder sees the septets the encoder packed,  *)
(* and the text comes back as it was; in UCS2 it also reaches the gateway, *)
(* whole and in parts, and of a plain GSM7 text the gateway loses the last *)
(* eighth.  All of it for every input, sender and size of the output.      *)
(***************************************************************************)
EXTENDS PduParser, SequenceTheorems, WellFoundedInduction, TLAPS

-----------------------------------------------------------------------------
(* Characters in UTF-8                                                     *)

\* The code point cp in one to four octets.
One(a, cp) == a \in Nat /\ a < 128 /\ cp = a
Two(a, b, cp) ==
    /\ a \in Nat /\ Within(a, 194, 223) /\ b \in Nat /\ Continues(b)
    /\ cp = (a % 32) * 64 + (b % 64)
Three(a, b, c, cp) ==
    /\ a \in Nat /\ Within(a, 224, 239) /\ b \in Nat /\ Continues(b) /\ c \in Nat /\ Continues(c)
    /\ ~(a = 224 /\ b < 160) /\ ~(a = 237 /\ b >= 160)
    /\ cp = (a % 16) * 4096 + (b % 64) * 64 + (c % 64)
Four(a, b, c, d, cp) ==
    /\ a \in Nat /\ Within(a, 240, 244) /\ b \in Nat /\ Continues(b) /\ c \in Nat /\ Continues(c)
    /\ d \in Nat /\ Continues(d)
    /\ ~(a = 240 /\ b < 144) /\ ~(a = 244 /\ b > 143)
    /\ cp = (a % 8) * 262144 + (b % 64) * 4096 + (c % 64) * 64 + (d % 64)

\* The code points of characters.
Scalar(cp) == cp \in Nat /\ cp < 1114112 /\ (cp < 55296 \/ 57344 <= cp)

\* What utf8_next accepts, kind by kind.
LEMMA CharCases ==
    ASSUME NEW s, NEW p \in Nat, \A k \in 0..3 : At(s, p + k) \in Nat, Utf8Next(s, p).len # 0
    PROVE  LET b0 == At(s, p)
               b1 == At(s, p + 1)
               b2 == At(s, p + 2)
               b3 == At(s, p + 3)
               char == Utf8Next(s, p)
           IN  \/ char.len = 1 /\ One(b0, char.cp)
               \/ char.len = 2 /\ Two(b0, b1, char.cp)
               \/ char.len = 3 /\ Three(b0, b1, b2, char.cp)
               \/ char.len = 4 /\ Four(b0, b1, b2, b3, char.cp)
<1>1. p + 0 = p
  BY SMT
<1>2. At(s, p) \in Nat /\ At(s, p + 1) \in Nat /\ At(s, p + 2) \in Nat /\ At(s, p + 3) \in Nat
  BY SMT, <1>1
<1> QED
  BY <1>1, <1>2, SMT DEF Utf8Next, Invalid, One, Two, Three, Four

\* And back.
LEMMA CharOf ==
    ASSUME NEW s, NEW p \in Nat
    PROVE  LET b0 == At(s, p)
               b1 == At(s, p + 1)
               b2 == At(s, p + 2)
               b3 == At(s, p + 3)
               char == Utf8Next(s, p)
           IN  /\ \A cp : One(b0, cp) => char = [len |-> 1, cp |-> cp]
               /\ \A cp : Two(b0, b1, cp) => char = [len |-> 2, cp |-> cp]
               /\ \A cp : Three(b0, b1, b2, cp) => char = [len |-> 3, cp |-> cp]
               /\ \A cp : Four(b0, b1, b2, b3, cp) => char = [len |-> 4, cp |-> cp]
<1>1. p + 0 = p
  BY SMT
<1>2. ASSUME NEW cp, One(At(s, p), cp) PROVE Utf8Next(s, p) = [len |-> 1, cp |-> cp]
  BY <1>1, <1>2, SMT DEF Utf8Next, Within, One
<1>3. ASSUME NEW cp, Two(At(s, p), At(s, p + 1), cp) PROVE Utf8Next(s, p) = [len |-> 2, cp |-> cp]
  BY <1>1, <1>3, SMT DEF Utf8Next, Within, Two
<1>4. ASSUME NEW cp, Three(At(s, p), At(s, p + 1), At(s, p + 2), cp)
      PROVE  Utf8Next(s, p) = [len |-> 3, cp |-> cp]
  BY <1>1, <1>4, SMT DEF Utf8Next, Within, Three
<1>5. ASSUME NEW cp, Four(At(s, p), At(s, p + 1), At(s, p + 2), At(s, p + 3), cp)
      PROVE  Utf8Next(s, p) = [len |-> 4, cp |-> cp]
  BY <1>1, <1>5, SMT DEF Utf8Next, Within, Four
<1> QED
  BY <1>2, <1>3, <1>4, <1>5

\* append_utf8 puts the bits back where they were.
LEMMA Utf8One ==
    ASSUME NEW a, NEW cp, One(a, cp)
    PROVE  Utf8(cp) = <<a>> /\ cp \in Nat /\ cp < 128 /\ a < 128
  BY SMT DEF Utf8, One

LEMMA Utf8Two ==
    ASSUME NEW a, NEW b, NEW cp, Two(a, b, cp)
    PROVE  cp \in Nat /\ 128 <= cp /\ cp < 2048 /\ Utf8(cp) = <<a, b>> /\ 194 <= a
<1>1. a \in Nat /\ b \in Nat /\ 194 <= a /\ a <= 223 /\ 128 <= b /\ b <= 191
  BY SMT DEF Two, Continues, Within
<1>2. a % 32 = a - 192 /\ b % 64 = b - 128
  BY SMT, <1>1
<1>3. cp = (a - 192) * 64 + (b - 128)
  BY SMT, <1>2 DEF Two
<1>4. cp \in Nat /\ 128 <= cp /\ cp < 2048 /\ cp \div 64 = a - 192 /\ cp % 64 = b - 128
  BY SMT, <1>1, <1>3
<1>5. Utf8(cp) = <<192 + (cp \div 64), 128 + (cp % 64)>>
  BY SMT, <1>4 DEF Utf8
<1>6. 192 + (cp \div 64) = a /\ 128 + (cp % 64) = b
  BY SMT, <1>1, <1>4
<1> QED
  BY SMT, <1>1, <1>4, <1>5, <1>6

LEMMA Utf8Three ==
    ASSUME NEW a, NEW b, NEW c, NEW cp, Three(a, b, c, cp)
    PROVE  /\ cp \in Nat /\ 2048 <= cp /\ cp < 65536 /\ (cp < 55296 \/ 57344 <= cp)
           /\ Utf8(cp) = <<a, b, c>> /\ 224 <= a
<1>1. /\ a \in Nat /\ b \in Nat /\ c \in Nat /\ 224 <= a /\ a <= 239
      /\ 128 <= b /\ b <= 191 /\ 128 <= c /\ c <= 191
      /\ ~(a = 224 /\ b < 160) /\ ~(a = 237 /\ b >= 160)
  BY SMT DEF Three, Continues, Within
<1>2. a % 16 = a - 224 /\ b % 64 = b - 128 /\ c % 64 = c - 128
  BY SMT, <1>1
<1>3. cp = (a - 224) * 4096 + (b - 128) * 64 + (c - 128)
  BY SMT, <1>2 DEF Three
<1>4. /\ cp \in Nat /\ 2048 <= cp /\ cp < 65536 /\ (cp < 55296 \/ 57344 <= cp)
      /\ cp \div 4096 = a - 224 /\ cp \div 64 = (a - 224) * 64 + (b - 128) /\ cp % 64 = c - 128
  BY SMT, <1>1, <1>3
<1>5. (cp \div 64) % 64 = b - 128
  BY SMT, <1>1, <1>4
<1>6. Utf8(cp) = <<224 + (cp \div 4096), 128 + ((cp \div 64) % 64), 128 + (cp % 64)>>
  BY SMT, <1>4 DEF Utf8
<1>7. 224 + (cp \div 4096) = a /\ 128 + ((cp \div 64) % 64) = b /\ 128 + (cp % 64) = c
  BY SMT, <1>1, <1>4, <1>5
<1> QED
  BY SMT, <1>1, <1>4, <1>6, <1>7

LEMMA Utf8Four ==
    ASSUME NEW a, NEW b, NEW c, NEW d, NEW cp, Four(a, b, c, d, cp)
    PROVE  cp \in Nat /\ 65536 <= cp /\ cp < 1114112 /\ Utf8(cp) = <<a, b, c, d>> /\ 240 <= a
<1>1. /\ a \in Nat /\ b \in Nat /\ c \in Nat /\ d \in Nat /\ 240 <= a /\ a <= 244
      /\ 128 <= b /\ b <= 191 /\ 128 <= c /\ c <= 191 /\ 128 <= d /\ d <= 191
      /\ ~(a = 240 /\ b < 144) /\ ~(a = 244 /\ b > 143)
  BY SMT DEF Four, Continues, Within
<1>2. a % 8 = a - 240 /\ b % 64 = b - 128 /\ c % 64 = c - 128 /\ d % 64 = d - 128
  BY SMT, <1>1
<1>3. cp = (a - 240) * 262144 + (b - 128) * 4096 + (c - 128) * 64 + (d - 128)
  BY SMT, <1>2 DEF Four
<1>4. /\ cp \in Nat /\ 65536 <= cp /\ cp < 1114112 /\ cp \div 262144 = a - 240
      /\ cp \div 4096 = (a - 240) * 64 + (b - 128)
      /\ cp \div 64 = (a - 240) * 4096 + (b - 128) * 64 + (c - 128) /\ cp % 64 = d - 128
  BY SMT, <1>1, <1>3
<1>5. (cp \div 4096) % 64 = b - 128 /\ (cp \div 64) % 64 = c - 128
  BY SMT, <1>1, <1>4
<1>6. Utf8(cp) = <<240 + (cp \div 262144), 128 + ((cp \div 4096) % 64),
                   128 + ((cp \div 64) % 64), 128 + (cp % 64)>>
  BY SMT, <1>4 DEF Utf8
<1>7. /\ 240 + (cp \div 262144) = a /\ 128 + ((cp \div 4096) % 64) = b
      /\ 128 + ((cp \div 64) % 64) = c /\ 128 + (cp % 64) = d
  BY SMT, <1>1, <1>4, <1>5
<1> QED
  BY SMT, <1>1, <1>4, <1>6, <1>7

\* Parts of a sequence, written out.
LEMMA Part ==
    ASSUME NEW S, NEW s \in Seq(S), NEW p \in 1..Len(s), NEW n \in 1..4, p + n - 1 <= Len(s)
    PROVE  /\ SubSeq(s, p, p + n - 1) \in Seq(S) /\ Len(SubSeq(s, p, p + n - 1)) = n
           /\ \A i \in 1..n : SubSeq(s, p, p + n - 1)[i] = s[p + i - 1]
<1>1. Len(s) \in Nat /\ \A i \in 1..Len(s) : s[i] \in S
  OBVIOUS
<1>2. p \in Int /\ p + n - 1 \in Int /\ p <= p + n - 1 /\ p + n - 1 - p + 1 = n
  BY <1>1
<1>3. \A i \in p..(p + n - 1) : s[i] \in S
  BY <1>1
<1>4. /\ SubSeq(s, p, p + n - 1) \in Seq(S)
      /\ Len(SubSeq(s, p, p + n - 1)) = (IF p <= p + n - 1 THEN p + n - 1 - p + 1 ELSE 0)
      /\ \A i \in 1..(p + n - 1 - p + 1) : SubSeq(s, p, p + n - 1)[i] = s[p + i - 1]
  BY <1>2, <1>3, SubSeqProperties
<1> QED
  BY <1>2, <1>4

LEMMA Parts ==
    ASSUME NEW S, NEW s \in Seq(S), NEW p \in 1..Len(s), NEW n \in 1..4, p + n - 1 <= Len(s)
    PROVE  /\ n = 1 => SubSeq(s, p, p + n - 1) = <<s[p]>>
           /\ n = 2 => SubSeq(s, p, p + n - 1) = <<s[p], s[p + 1]>>
           /\ n = 3 => SubSeq(s, p, p + n - 1) = <<s[p], s[p + 1], s[p + 2]>>
           /\ n = 4 => SubSeq(s, p, p + n - 1) = <<s[p], s[p + 1], s[p + 2], s[p + 3]>>
<1> DEFINE x == SubSeq(s, p, p + n - 1)
<1>1. Len(s) \in Nat /\ \A i \in 1..Len(s) : s[i] \in S
  OBVIOUS
<1>2. x \in Seq(S) /\ Len(x) = n /\ \A i \in 1..n : x[i] = s[p + i - 1]
  BY Part
<1> HIDE DEF x
<1>3. \A i \in 1..n : p + i - 1 \in 1..Len(s)
  BY <1>1
<1>4. CASE n = 1
  <2>1. 1 \in 1..n /\ p + 1 - 1 = p
    BY <1>1, <1>4
  <2>2. x[1] = s[p]
    BY <1>2, <2>1
  <2>3. x = <<x[1]>>
    BY <1>2, <1>4
  <2> QED
    BY <1>4, <2>2, <2>3 DEF x
<1>5. CASE n = 2
  <2>1. 1 \in 1..n /\ 2 \in 1..n /\ p + 1 - 1 = p /\ p + 2 - 1 = p + 1
    BY <1>1, <1>5
  <2>2. x[1] = s[p] /\ x[2] = s[p + 1]
    BY <1>2, <2>1
  <2>3. x = <<x[1], x[2]>>
    BY <1>2, <1>5
  <2> QED
    BY <1>5, <2>2, <2>3 DEF x
<1>6. CASE n = 3
  <2>1. 1 \in 1..n /\ 2 \in 1..n /\ 3 \in 1..n /\ p + 1 - 1 = p /\ p + 2 - 1 = p + 1 /\ p + 3 - 1 = p + 2
    BY <1>1, <1>6
  <2>2. x[1] = s[p] /\ x[2] = s[p + 1] /\ x[3] = s[p + 2]
    BY <1>2, <2>1
  <2>3. x = <<x[1], x[2], x[3]>>
    BY <1>2, <1>6
  <2> QED
    BY <1>6, <2>2, <2>3 DEF x
<1>7. CASE n = 4
  <2>1. /\ 1 \in 1..n /\ 2 \in 1..n /\ 3 \in 1..n /\ 4 \in 1..n
        /\ p + 1 - 1 = p /\ p + 2 - 1 = p + 1 /\ p + 3 - 1 = p + 2 /\ p + 4 - 1 = p + 3
    BY <1>1, <1>7
  <2>2. x[1] = s[p] /\ x[2] = s[p + 1] /\ x[3] = s[p + 2] /\ x[4] = s[p + 3]
    BY <1>2, <2>1
  <2>3. x = <<x[1], x[2], x[3], x[4]>>
    BY <1>2, <1>7
  <2> QED
    BY <1>7, <2>2, <2>3 DEF x
<1> QED
  BY <1>4, <1>5, <1>6, <1>7 DEF x

\* A character that utf8_next accepts lies within the string, and append_utf8
\* writes it back as it was.
CharAt(s, p) ==
    LET char == Utf8Next(s, p) IN
    /\ char.len \in 1..4 /\ p + char.len - 1 <= Len(s)
    /\ Scalar(char.cp)
    /\ Utf8(char.cp) = SubSeq(s, p, p + char.len - 1)
    /\ ~Continues(s[p])
LEMMA CharBack ==
    ASSUME NEW s \in Seq(Nat), NEW p \in 1..Len(s), Utf8Next(s, p).len # 0
    PROVE  CharAt(s, p)
<1> DEFINE b0 == At(s, p)
           b1 == At(s, p + 1)
           b2 == At(s, p + 2)
           b3 == At(s, p + 3)
           char == Utf8Next(s, p)
<1>1. /\ Len(s) \in Nat /\ p \in Nat /\ \A i \in 1..Len(s) : s[i] \in Nat
      /\ b0 = s[p]
  BY SMT DEF At
<1>2. \A k \in 0..3 : At(s, p + k) \in Nat
  BY SMT, <1>1 DEF At
<1>3. ~Continues(0)
  BY SMT DEF Continues, Within
<1>4. /\ Continues(b1) => p + 1 <= Len(s) /\ b1 = s[p + 1]
      /\ Continues(b2) => p + 2 <= Len(s) /\ b2 = s[p + 2]
      /\ Continues(b3) => p + 3 <= Len(s) /\ b3 = s[p + 3]
  BY SMT, <1>1, <1>3 DEF At
<1>5. \/ char.len = 1 /\ One(b0, char.cp)
      \/ char.len = 2 /\ Two(b0, b1, char.cp)
      \/ char.len = 3 /\ Three(b0, b1, b2, char.cp)
      \/ char.len = 4 /\ Four(b0, b1, b2, b3, char.cp)
  BY <1>1, <1>2, CharCases
<1>6. ASSUME NEW a \in Nat, Continues(a) PROVE ~(a < 128) /\ ~(194 <= a)
  BY SMT, <1>6 DEF Continues, Within
<1> HIDE DEF b0, b1, b2, b3, char
<1> SUFFICES /\ char.len \in 1..4 /\ p + char.len - 1 <= Len(s)
             /\ Scalar(char.cp)
             /\ Utf8(char.cp) = SubSeq(s, p, p + char.len - 1)
             /\ ~Continues(s[p])
  BY SMT DEF CharAt, char
<1>7. CASE char.len = 1 /\ One(b0, char.cp)
  <2>1. Utf8(char.cp) = <<b0>> /\ char.cp \in Nat /\ char.cp < 128 /\ b0 < 128
    BY SMT, <1>7, Utf8One
  <2>2. SubSeq(s, p, p + 1 - 1) = <<s[p]>>
    BY SMT, <1>1, Parts
  <2>4. char.len \in 1..4 /\ p + char.len - 1 <= Len(s) /\ p + char.len - 1 = p + 1 - 1
    BY SMT, <1>1, <1>7, <2>1, <2>2
  <2>5. b0 \in Nat
    BY SMT, <1>7 DEF One
  <2>6. Scalar(char.cp)
    BY SMT, <2>1 DEF Scalar
  <2>7. ~Continues(s[p])
    BY SMT, <1>1, <1>6, <2>1, <2>5
  <2>8. Utf8(char.cp) = SubSeq(s, p, p + char.len - 1)
    BY <1>1, <2>1, <2>2, <2>4, Zenon
  <2> QED
    BY <2>4, <2>6, <2>7, <2>8, Zenon
<1>8. CASE char.len = 2 /\ Two(b0, b1, char.cp)
  <2>1. /\ char.cp \in Nat /\ 128 <= char.cp /\ char.cp < 2048
        /\ Utf8(char.cp) = <<b0, b1>> /\ 194 <= b0
    BY SMT, <1>8, Utf8Two
  <2>2. p + 1 <= Len(s) /\ b1 = s[p + 1]
    BY SMT, <1>4, <1>8 DEF Two
  <2>3. SubSeq(s, p, p + 2 - 1) = <<s[p], s[p + 1]>>
    BY SMT, <1>1, <2>2, Parts
  <2>4. char.len \in 1..4 /\ p + char.len - 1 <= Len(s) /\ p + char.len - 1 = p + 2 - 1
    BY SMT, <1>1, <1>8, <2>1, <2>2, <2>3
  <2>5. b0 \in Nat
    BY SMT, <1>8 DEF Two
  <2>6. Scalar(char.cp)
    BY SMT, <2>1 DEF Scalar
  <2>7. ~Continues(s[p])
    BY SMT, <1>1, <1>6, <2>1, <2>5
  <2>9. Utf8(char.cp) = <<b0, b1>>
    BY SMT, <2>1
  <2>10. p + char.len - 1 = p + 2 - 1
    BY SMT, <2>4
  <2>8. Utf8(char.cp) = SubSeq(s, p, p + char.len - 1)
    BY <1>1, <2>2, <2>3, <2>9, <2>10, Zenon
  <2> QED
    BY <2>4, <2>6, <2>7, <2>8, Zenon
<1>9. CASE char.len = 3 /\ Three(b0, b1, b2, char.cp)
  <2>1. /\ char.cp \in Nat /\ 2048 <= char.cp /\ char.cp < 65536
        /\ (char.cp < 55296 \/ 57344 <= char.cp)
        /\ Utf8(char.cp) = <<b0, b1, b2>> /\ 224 <= b0
    BY SMT, <1>9, Utf8Three
  <2>2. p + 2 <= Len(s) /\ b1 = s[p + 1] /\ b2 = s[p + 2]
    BY SMT, <1>4, <1>9 DEF Three
  <2>3. SubSeq(s, p, p + 3 - 1) = <<s[p], s[p + 1], s[p + 2]>>
    BY SMT, <1>1, <2>2, Parts
  <2>4. char.len \in 1..4 /\ p + char.len - 1 <= Len(s) /\ p + char.len - 1 = p + 3 - 1
    BY SMT, <1>1, <1>9, <2>1, <2>2, <2>3
  <2>5. b0 \in Nat
    BY SMT, <1>9 DEF Three
  <2>6. Scalar(char.cp)
    BY SMT, <2>1 DEF Scalar
  <2>7. ~Continues(s[p])
    BY SMT, <1>1, <1>6, <2>1, <2>5
  <2>9. Utf8(char.cp) = <<b0, b1, b2>>
    BY SMT, <2>1
  <2>10. p + char.len - 1 = p + 3 - 1
    BY SMT, <2>4
  <2>8. Utf8(char.cp) = SubSeq(s, p, p + char.len - 1)
    BY <1>1, <2>2, <2>3, <2>9, <2>10, Zenon
  <2> QED
    BY <2>4, <2>6, <2>7, <2>8, Zenon
<1>10. CASE char.len = 4 /\ Four(b0, b1, b2, b3, char.cp)
  <2>1. /\ char.cp \in Nat /\ 65536 <= char.cp /\ char.cp < 1114112
        /\ Utf8(char.cp) = <<b0, b1, b2, b3>> /\ 240 <= b0
    BY SMT, <1>10, Utf8Four
  <2>2. p + 3 <= Len(s) /\ b1 = s[p + 1] /\ b2 = s[p + 2] /\ b3 = s[p + 3]
    BY SMT, <1>4, <1>10 DEF Four
  <2>3. SubSeq(s, p, p + 4 - 1) = <<s[p], s[p + 1], s[p + 2], s[p + 3]>>
    BY SMT, <1>1, <2>2, Parts
  <2>4. char.len \in 1..4 /\ p + char.len - 1 <= Len(s) /\ p + char.len - 1 = p + 4 - 1
    BY SMT, <1>1, <1>10, <2>1, <2>2, <2>3
  <2>5. b0 \in Nat
    BY SMT, <1>10 DEF Four
  <2>6. Scalar(char.cp)
    BY SMT, <2>1 DEF Scalar
  <2>7. ~Continues(s[p])
    BY SMT, <1>1, <1>6, <2>1, <2>5
  <2>9. Utf8(char.cp) = <<b0, b1, b2, b3>>
    BY SMT, <2>1
  <2>10. p + char.len - 1 = p + 4 - 1
    BY SMT, <2>4
  <2>8. Utf8(char.cp) = SubSeq(s, p, p + char.len - 1)
    BY <1>1, <2>2, <2>3, <2>9, <2>10, Zenon
  <2> QED
    BY <2>4, <2>6, <2>7, <2>8, Zenon
<1> QED
  BY SMT, <1>5, <1>7, <1>8, <1>9, <1>10

\* The same octets are the same character.
LEMMA SameChar ==
    ASSUME NEW s \in Seq(Nat), NEW p \in 1..Len(s), Utf8Next(s, p).len # 0,
           NEW t \in Seq(Nat), NEW q \in 1..Len(t), q + Utf8Next(s, p).len - 1 <= Len(t),
           \A i \in 1..Utf8Next(s, p).len : t[q + i - 1] = s[p + i - 1]
    PROVE  Utf8Next(t, q).len = Utf8Next(s, p).len /\ Utf8Next(t, q).cp = Utf8Next(s, p).cp
<1> DEFINE char == Utf8Next(s, p)
<1>1. /\ char.len \in 1..4 /\ char.len \in Nat
      /\ p + char.len - 1 <= Len(s) /\ Len(s) \in Nat /\ Len(t) \in Nat
      /\ p \in Nat /\ q \in Nat /\ q + char.len - 1 <= Len(t)
  <2>1. CharAt(s, p)
    BY CharBack
  <2>2. char.len \in 1..4 /\ p + char.len - 1 <= Len(s)
    BY <2>1, SMT DEF CharAt
  <2> QED
    BY <2>2, SMT
<1>12. \A i \in 1..char.len : t[q + i - 1] = s[p + i - 1]
  OBVIOUS
<1>2. \A k \in 0..3 : At(s, p + k) \in Nat
  BY SMT DEF At
<1>3. ASSUME NEW k \in 0..3, k < char.len
      PROVE  At(t, q + k) = At(s, p + k)
  <2>1. k + 1 \in 1..char.len
    <3>1. \A l \in 1..4 : \A j \in 0..3 : j < l => j + 1 \in 1..l
      BY SMT
    <3>2. char.len \in 1..4
      BY <1>1, Zenon
    <3> QED
      BY <1>3, <3>1, <3>2, Zenon
  <2>9. q + (k + 1) - 1 = q + k /\ p + (k + 1) - 1 = p + k
    BY SMT, <1>1
  <2>2. t[q + k] = s[p + k]
    <3>1. t[q + (k + 1) - 1] = s[p + (k + 1) - 1]
      BY <1>12, <2>1, Zenon
    <3> QED
      BY <2>9, <3>1, Zenon
  <2>3. q + k <= Len(t) /\ p + k <= Len(s)
    <3>1. k \in Nat /\ k + 1 <= char.len
      <4>1. \A l \in 1..4 : \A j \in 0..3 : j < l => j \in Nat /\ j + 1 <= l
        BY SMT
      <4>2. char.len \in 1..4
        BY <1>1, Zenon
      <4> QED
        BY <1>3, <4>1, <4>2, Zenon
    <3>2. char.len \in Nat /\ q + char.len - 1 <= Len(t) /\ p + char.len - 1 <= Len(s)
      BY <1>1
    <3>3. \A l, m, r \in Nat : r + l - 1 <= m /\ k + 1 <= l => r + k <= m
      BY SMT, <3>1
    <3> HIDE DEF char
    <3> QED
      BY <1>1, <3>1, <3>2, <3>3
  <2> QED
    BY SMT, <2>2, <2>3 DEF At
<1>4. /\ At(t, q) = At(s, p)
      /\ char.len >= 2 => At(t, q + 1) = At(s, p + 1)
      /\ char.len >= 3 => At(t, q + 2) = At(s, p + 2)
      /\ char.len >= 4 => At(t, q + 3) = At(s, p + 3)
  <2>1. At(t, q + 0) = At(s, p + 0) /\ q + 0 = q /\ p + 0 = p
    BY SMT, <1>1, <1>3
  <2>2. char.len >= 2 => At(t, q + 1) = At(s, p + 1)
    BY SMTT(30), <1>1, <1>3
  <2>3. char.len >= 3 => At(t, q + 2) = At(s, p + 2)
    BY SMTT(30), <1>1, <1>3
  <2>4. char.len >= 4 => At(t, q + 3) = At(s, p + 3)
    BY SMTT(30), <1>1, <1>3
  <2> QED
    BY SMT, <2>1, <2>2, <2>3, <2>4
<1>5. p \in Nat /\ q \in Nat
  BY SMT, <1>1
<1>6. \/ char.len = 1 /\ One(At(s, p), char.cp)
      \/ char.len = 2 /\ Two(At(s, p), At(s, p + 1), char.cp)
      \/ char.len = 3 /\ Three(At(s, p), At(s, p + 1), At(s, p + 2), char.cp)
      \/ char.len = 4 /\ Four(At(s, p), At(s, p + 1), At(s, p + 2), At(s, p + 3), char.cp)
  BY <1>2, <1>5, CharCases
<1>7. /\ \A cp : One(At(t, q), cp) => Utf8Next(t, q) = [len |-> 1, cp |-> cp]
      /\ \A cp : Two(At(t, q), At(t, q + 1), cp) => Utf8Next(t, q) = [len |-> 2, cp |-> cp]
      /\ \A cp : Three(At(t, q), At(t, q + 1), At(t, q + 2), cp)
            => Utf8Next(t, q) = [len |-> 3, cp |-> cp]
      /\ \A cp : Four(At(t, q), At(t, q + 1), At(t, q + 2), At(t, q + 3), cp)
            => Utf8Next(t, q) = [len |-> 4, cp |-> cp]
  BY <1>5, CharOf
<1>8. CASE char.len = 1 /\ One(At(s, p), char.cp)
  BY SMT, <1>4, <1>7, <1>8
<1>9. CASE char.len = 2 /\ Two(At(s, p), At(s, p + 1), char.cp)
  <2>1. At(t, q + 1) = At(s, p + 1)
    BY SMT, <1>4, <1>9
  <2> QED
    BY SMTT(30), <1>4, <1>7, <1>9, <2>1
<1>10. CASE char.len = 3 /\ Three(At(s, p), At(s, p + 1), At(s, p + 2), char.cp)
  <2>1. At(t, q + 1) = At(s, p + 1) /\ At(t, q + 2) = At(s, p + 2)
    BY SMT, <1>4, <1>10
  <2> QED
    <3>1. Three(At(t, q), At(t, q + 1), At(t, q + 2), char.cp)
      BY SMT, <1>4, <1>10, <2>1
    <3>2. Utf8Next(t, q) = [len |-> 3, cp |-> char.cp]
      BY <1>7, <3>1
    <3> QED
      BY SMT, <1>10, <3>2
<1>11. CASE char.len = 4 /\ Four(At(s, p), At(s, p + 1), At(s, p + 2), At(s, p + 3), char.cp)
  <2>1. At(t, q + 1) = At(s, p + 1) /\ At(t, q + 2) = At(s, p + 2) /\ At(t, q + 3) = At(s, p + 3)
    BY SMT, <1>4, <1>11
  <2> QED
    <3>1. Four(At(t, q), At(t, q + 1), At(t, q + 2), At(t, q + 3), char.cp)
      BY SMT, <1>4, <1>11, <2>1
    <3>2. Utf8Next(t, q) = [len |-> 4, cp |-> char.cp]
      BY <1>7, <3>1
    <3> QED
      BY SMT, <1>11, <3>2
<1> QED
  BY <1>6, <1>8, <1>9, <1>10, <1>11

LEMMA InputIs == Packing => utf8 \in Seq(Nat)
<1>1. 1..255 \subseteq Nat
  BY SMT
<1>2. utf8 \in Inputs => utf8 \in Seq(1..255)
  BY InputsAssumption
<1>3. utf8 \in Seq(1..255) => utf8 \in Seq(Nat)
  BY <1>1, SeqMonotonic
<1> QED
  BY <1>2, <1>3 DEF Packing, TypeOK

-----------------------------------------------------------------------------
(* Septets and their bits                                                  *)

LEMMA BitsOfSeptet ==
    ASSUME NEW v \in Septets
    PROVE  /\ Bits7(v) \in Seq({0, 1}) /\ Len(Bits7(v)) = 7
           /\ Value7(Bits7(v)) = v
<1>1. /\ v % 2 \in {0, 1} /\ (v \div 2) % 2 \in {0, 1} /\ (v \div 4) % 2 \in {0, 1}
      /\ (v \div 8) % 2 \in {0, 1} /\ (v \div 16) % 2 \in {0, 1} /\ (v \div 32) % 2 \in {0, 1}
      /\ (v \div 64) % 2 \in {0, 1}
  BY DEF Septets
<1>2. v = (v % 2) + 2 * ((v \div 2) % 2) + 4 * ((v \div 4) % 2) + 8 * ((v \div 8) % 2)
          + 16 * ((v \div 16) % 2) + 32 * ((v \div 32) % 2) + 64 * ((v \div 64) % 2)
  BY DEF Septets
<1> QED
  BY <1>1, <1>2 DEF Bits7, Value7

LEMMA TableSeptets ==
    ASSUME NEW cp, NEW table \in {Extension, Single}, InTable(cp, table)
    PROVE  SeptetIn(cp, table) \in Septets
<1>1. \A p \in Extension \cup Single : p[2] \in Septets
  BY DEF Extension, Single, Septets
<1>2. (CHOOSE p \in table : p[1] = cp) \in Extension \cup Single
  BY DEF InTable
<1> QED
  BY <1>1, <1>2 DEF SeptetIn

LEMMA SeptetsAreSeptets ==
    ASSUME NEW cp \in Nat PROVE SeptetsOf(cp) \in Seq(Septets)
<1>1. Escape \in Septets
  BY DEF Escape, Septets
<1>2. (\E i \in 1..32 : Basic[i] = cp) => (CHOOSE i \in 1..32 : Basic[i] = cp) - 1 \in Septets
  BY DEF Septets
<1>3. Within(cp, 32, 122) => cp \in Septets
  BY DEF Septets, Within
<1>4. \A table \in {Extension, Single} : InTable(cp, table) => SeptetIn(cp, table) \in Septets
  BY TableSeptets
<1> QED
  BY <1>1, <1>2, <1>3, <1>4 DEF SeptetsOf

-----------------------------------------------------------------------------
(* Characters                                                              *)

LEMMA CharactersAreShort ==
    ASSUME NEW s, NEW i
    PROVE  Utf8Next(s, i).len \in 0..4
  BY SMT DEF Utf8Next, Invalid
LEMMA UnitsAreShort ==
    ASSUME NEW s, NEW i
    PROVE  Utf16Next(s, i).len \in 0..4
  BY SMT DEF Utf16Next, Invalid

-----------------------------------------------------------------------------
(* Streams of bits                                                         *)

\* A septet behind a stream of packed septets is packed as well.
LEMMA PackOne ==
    ASSUME NEW u \in Seq(Septets), NEW stream \in Seq(Bit), NEW v \in Septets,
           Len(stream) = 7 * Len(u),
           \A i \in 1..Len(u) : \A j \in 1..7 : stream[7 * (i - 1) + j] = Bits7(u[i])[j]
    PROVE  LET longer == stream \o Bits7(v)
               w == Append(u, v)
           IN  /\ longer \in Seq(Bit) /\ Len(longer) = 7 * Len(w)
               /\ \A i \in 1..Len(w) : \A j \in 1..7 : longer[7 * (i - 1) + j] = Bits7(w[i])[j]
<1> DEFINE d == Bits7(v)
           longer == stream \o d
           w == Append(u, v)
<1>1. d \in Seq(Bit) /\ Len(d) = 7
  BY BitsOfSeptet DEF Bit
<1> HIDE DEF d
<1>2. /\ longer \in Seq(Bit) /\ Len(longer) = Len(stream) + 7
      /\ \A k \in 1..(Len(stream) + 7) :
            longer[k] = IF k <= Len(stream) THEN stream[k] ELSE d[k - Len(stream)]
  <2>1. /\ longer \in Seq(Bit) /\ Len(longer) = Len(stream) + Len(d)
        /\ \A k \in 1..(Len(stream) + Len(d)) :
              longer[k] = IF k <= Len(stream) THEN stream[k] ELSE d[k - Len(stream)]
    BY <1>1, ConcatProperties
  <2> QED
    BY <1>1, <2>1
<1>3. /\ Len(w) = Len(u) + 1 /\ w[Len(u) + 1] = v
      /\ \A i \in 1..Len(u) : w[i] = u[i]
  BY AppendProperties
<1>4. Len(u) \in Nat
  OBVIOUS
<1> HIDE DEF longer, w
<1>5. ASSUME NEW i \in 1..Len(w), NEW j \in 1..7
      PROVE  longer[7 * (i - 1) + j] = Bits7(w[i])[j]
  <2>1. CASE i <= Len(u)
    <3>1. /\ i \in 1..Len(u) /\ 7 * (i - 1) + j \in 1..(Len(stream) + 7)
          /\ 7 * (i - 1) + j <= Len(stream)
      BY <1>3, <1>4, <2>1
    <3> QED
      BY ZenonT(60), <1>2, <1>3, <3>1
  <2>2. CASE i = Len(u) + 1
    <3>1. /\ 7 * (i - 1) + j = Len(stream) + j
          /\ Len(stream) + j \in 1..(Len(stream) + 7) /\ ~(Len(stream) + j <= Len(stream))
          /\ Len(stream) + j - Len(stream) = j
      BY <1>4, <2>2
    <3> QED
      BY <1>2, <1>3, <2>2, <3>1 DEF d
  <2> QED
    BY <1>3, <1>4, <2>1, <2>2
<1>6. Len(longer) = 7 * Len(w)
  BY <1>2, <1>3, <1>4
<1> QED
  BY <1>2, <1>5, <1>6 DEF longer, w, d

\* Whatever is put behind it, a stream still begins with its septets.
LEMMA PackedPrefix ==
    ASSUME NEW u \in Seq(Septets), NEW stream \in Seq(Bit), NEW tail \in Seq(Bit),
           Len(stream) = 7 * Len(u),
           \A i \in 1..Len(u) : \A j \in 1..7 : stream[7 * (i - 1) + j] = Bits7(u[i])[j]
    PROVE  \A i \in 1..Len(u) : \A j \in 1..7 : (stream \o tail)[7 * (i - 1) + j] = Bits7(u[i])[j]
<1> SUFFICES ASSUME NEW i \in 1..Len(u), NEW j \in 1..7
             PROVE  (stream \o tail)[7 * (i - 1) + j] = Bits7(u[i])[j]
  OBVIOUS
<1>1. Len(u) \in Nat /\ Len(tail) \in Nat
  OBVIOUS
<1>2. /\ 7 * (i - 1) + j \in 1..(Len(stream) + Len(tail)) /\ 7 * (i - 1) + j <= Len(stream)
  BY <1>1
<1>3. (stream \o tail)[7 * (i - 1) + j] = stream[7 * (i - 1) + j]
  BY <1>2, ConcatProperties
<1> QED
  BY <1>3

LEMMA Associate == \A S : \A s, t, u \in Seq(S) : (s \o t) \o u = s \o (t \o u)
  BY ConcatAssociative

LEMMA Concatenated ==
    \A S : \A s, t \in Seq(S) :
        /\ s \o t \in Seq(S) /\ Len(s \o t) = Len(s) + Len(t)
        /\ \A i \in 1..(Len(s) + Len(t)) : (s \o t)[i] = IF i <= Len(s) THEN s[i] ELSE t[i - Len(s)]
  BY ConcatProperties

LEMMA ConcatBits ==
    \A s, t \in Seq(Bit) :
        /\ s \o t \in Seq(Bit) /\ Len(s \o t) = Len(s) + Len(t)
        /\ \A i \in 1..(Len(s) + Len(t)) : (s \o t)[i] = IF i <= Len(s) THEN s[i] ELSE t[i - Len(s)]
  BY Concatenated, Zenon

LEMMA BitsAssociate == \A s, t, u \in Seq(Bit) : (s \o t) \o u = s \o (t \o u)
  BY Associate

\* Eight bits may be moved from the head of the second half of a stream to the
\* tail of the first.
LEMMA MoveOctet ==
    ASSUME NEW a \in Seq(Bit), NEW b \in Seq(Bit), Len(b) >= 8
    PROVE  /\ SubSeq(b, 1, 8) \in Seq(Bit) /\ Len(SubSeq(b, 1, 8)) = 8
           /\ SubSeq(b, 9, Len(b)) \in Seq(Bit) /\ Len(SubSeq(b, 9, Len(b))) = Len(b) - 8
           /\ (a \o SubSeq(b, 1, 8)) \o SubSeq(b, 9, Len(b)) = a \o b
<1> DEFINE x == SubSeq(b, 1, 8)
           y == SubSeq(b, 9, Len(b))
<1>1. Len(b) \in Nat /\ \A i \in 1..Len(b) : b[i] \in Bit
  OBVIOUS
<1>2. x \in Seq(Bit) /\ Len(x) = 8
  <2>1. \A i \in 1..8 : b[i] \in Bit
    BY <1>1
  <2> QED
    BY <2>1, SubSeqProperties
<1>3. y \in Seq(Bit) /\ Len(y) = Len(b) - 8
  <2>1. \A i \in 9..Len(b) : b[i] \in Bit
    BY <1>1
  <2>2. y \in Seq(Bit) /\ Len(y) = IF 9 <= Len(b) THEN Len(b) - 9 + 1 ELSE 0
    BY <1>1, <2>1, SubSeqProperties
  <2>3. \A n \in Nat : n >= 8 => (IF 9 <= n THEN n - 9 + 1 ELSE 0) = n - 8
    OBVIOUS
  <2>4. Len(y) = Len(b) - 8
    BY <1>1, <2>2, <2>3, Zenon
  <2> QED
    BY <2>2, <2>4
<1>4. x \o y = b
  <2>1. 1 \in 1..(Len(b) + 1) /\ 8 \in 0..Len(b) /\ Len(b) \in 8..Len(b)
    BY <1>1
  <2>2. SubSeq(b, 1, 8) \o SubSeq(b, 8 + 1, Len(b)) = SubSeq(b, 1, Len(b))
    BY <2>1, ConcatAdjacentSubSeq, 1 - 1 = 0
  <2> QED
    BY <2>2, SubSeqFull
<1> HIDE DEF x, y
<1>5. (a \o x) \o y = a \o (x \o y)
  <2>1. x \in Seq(Bit) /\ y \in Seq(Bit)
    BY <1>2, <1>3
  <2> QED
    BY <2>1, BitsAssociate
<1> QED
  BY <1>2, <1>3, <1>4, <1>5 DEF x, y

-----------------------------------------------------------------------------
(* The invariant                                                           *)

LEMMA InitHolds == Init => Packing /\ SeptetsSurvive
<1> SUFFICES ASSUME Init PROVE Packing /\ SeptetsSurvive
  OBVIOUS
<1>1. TypeOK
  BY SizesAssumption DEF Init, TypeOK, Encodings, Bit
<1>2. PackedSoFar
  BY DEF Init, PackedSoFar, Packed, Encoding
<1> QED
  BY <1>1, <1>2 DEF Init, Packing, PackedWhole, UnpackedSoFar, Resting, SeptetsSurvive, Decoding

LEMMA StutterHolds ==
    ASSUME Packing, SeptetsSurvive, UNCHANGED vars
    PROVE  Packing' /\ SeptetsSurvive'
  BY ZenonT(60) DEF vars, Packing, SeptetsSurvive, TypeOK, PackedSoFar, PackedWhole, UnpackedSoFar,
         Resting, Packed, Encoding, Decoding

LEMMA FailHolds ==
    ASSUME Packing, SeptetsSurvive, NEW result, Fail(result), result # "invalid hex"
    PROVE  Packing' /\ SeptetsSurvive'
<1>1. pc' \in {"refused", "failed"}
  BY DEF Fail
<1>2. TypeOK' /\ Resting'
  BY <1>1 DEF Fail, Packing, TypeOK, Resting
<1>3. PackedSoFar' /\ PackedWhole' /\ UnpackedSoFar'
  BY <1>1 DEF PackedSoFar, PackedWhole, UnpackedSoFar, Encoding, Decoding
<1>4. SeptetsSurvive'
  BY DEF Fail, SeptetsSurvive
<1> QED
  BY <1>2, <1>3, <1>4 DEF Packing

LEMMA DetectHolds ==
    ASSUME Packing, SeptetsSurvive, Detect
    PROVE  Packing' /\ SeptetsSurvive'
<1>1. CASE Fail("invalid utf8")
  BY <1>1, FailHolds
<1>2. CASE ~Fail("invalid utf8")
  <2>1. /\ pc = "detect" /\ pc' \in {"detect", "encode"}
        /\ pos' \in Nat \ {0} /\ encoding' \in {encoding, "UCS2"}
        /\ UNCHANGED <<utf8, auto, size, todo, bits, data, septets, seen, escaped, text, why>>
    <3>1. CASE DetectChar
      <4> DEFINE char == Utf8Next(utf8, pos)
      <4>1. char.len \in 0..4 /\ pos \in Nat \ {0}
        BY CharactersAreShort DEF Packing, TypeOK
      <4>2. /\ pc = "detect"
            /\ \/ encoding' = "UCS2" /\ pc' = "encode" /\ pos' = 1
               \/ pos' = pos + char.len /\ UNCHANGED <<encoding, pc>>
            /\ UNCHANGED <<utf8, auto, size, todo, bits, data, septets, seen, escaped, text, why>>
        BY <1>2, <3>1, Zenon DEF DetectChar
      <4> HIDE DEF char
      <4> QED
        BY <4>1, <4>2
    <3>2. CASE EndDetect
      BY <3>2 DEF EndDetect, Packing, TypeOK
    <3> QED
      BY <3>1, <3>2 DEF Detect
  <2>2. todo = <<>> /\ bits = <<>> /\ data = <<>> /\ septets = <<>> /\ seen = <<>>
    BY <2>1 DEF Packing, Resting
  <2>3. TypeOK'
    BY <2>1, <2>2 DEF Packing, TypeOK, Encodings
  <2>4. PackedSoFar'
    BY <2>1, <2>2 DEF PackedSoFar, Packed
  <2> QED
    BY <2>1, <2>2, <2>3, <2>4
    DEF Packing, PackedWhole, UnpackedSoFar, Resting, SeptetsSurvive, Decoding
<1> QED
  BY <1>1, <1>2

LEMMA ReadCharHolds ==
    ASSUME Packing, SeptetsSurvive, ReadChar
    PROVE  Packing' /\ SeptetsSurvive'
<1> DEFINE char == Utf8Next(utf8, pos)
<1>1. CASE Fail("invalid utf8") \/ Fail("unsupported")
  BY <1>1, FailHolds
<1>2. CASE ~(Fail("invalid utf8") \/ Fail("unsupported"))
  <2>1. /\ Encoding("GSM7") /\ todo' = SeptetsOf(char.cp) /\ pos' = pos + char.len
        /\ UNCHANGED <<utf8, auto, encoding, size, pc, bits, data, septets, seen, escaped, text, why>>
    BY <1>2, Zenon DEF ReadChar
  <2>2. char.len \in 0..4 /\ pos \in Nat \ {0} /\ todo' \in Seq(Septets)
    <3>1. char.len \in 0..4 /\ pos \in Nat \ {0}
      BY CharactersAreShort DEF Packing, TypeOK
    <3>2. utf8 \in Seq(Nat) /\ pos <= Len(utf8) /\ char.len > 0
      BY <1>2, InputIs, Zenon DEF ReadChar
    <3>3. pos \in 1..Len(utf8) /\ char.len # 0
      BY <3>1, <3>2, SMT
    <3>4. Scalar(char.cp)
      BY <3>2, <3>3, CharBack, Zenon DEF CharAt
    <3>5. char.cp \in Nat
      BY <3>4, SMT DEF Scalar
    <3> QED
      BY <2>1, <3>1, <3>5, SeptetsAreSeptets
  <2> HIDE DEF char
  <2>3. TypeOK'
    BY SMTT(30), <2>1, <2>2 DEF Packing, TypeOK
  <2> QED
    BY <2>1, <2>3 DEF Packing, PackedSoFar, Packed, PackedWhole, UnpackedSoFar, Resting,
       SeptetsSurvive, Encoding, Decoding
<1> QED
  BY <1>1, <1>2

LEMMA PutSeptetHolds ==
    ASSUME Packing, SeptetsSurvive, PutSeptet
    PROVE  Packing' /\ SeptetsSurvive'
<1> DEFINE v == Head(todo)
           d == Bits7(v)
           all == bits \o d
<1>1. CASE Fail("no space")
  BY <1>1, FailHolds
<1>2. CASE ~Fail("no space")
  <2>1. /\ pc = "encode" /\ encoding = "GSM7" /\ todo # <<>>
        /\ data' = IF Len(all) >= 8 THEN data \o SubSeq(all, 1, 8) ELSE data
        /\ bits' = IF Len(all) >= 8 THEN SubSeq(all, 9, Len(all)) ELSE all
        /\ septets' = Append(septets, v) /\ todo' = Tail(todo)
        /\ UNCHANGED <<utf8, auto, encoding, size, pc, pos, seen, escaped, text, why>>
    BY <1>2, Zenon DEF PutSeptet, Encoding
  <2>2. /\ todo \in Seq(Septets) /\ septets \in Seq(Septets)
        /\ data \in Seq(Bit) /\ bits \in Seq(Bit) /\ Len(bits) < 8
        /\ Len(data) % 8 = 0 /\ Len(data) \in Nat /\ Len(bits) \in Nat
    <3>1. /\ todo \in Seq(Septets) /\ septets \in Seq(Septets)
          /\ data \in Seq(Bit) /\ bits \in Seq(Bit) /\ Len(bits) < 8 /\ Len(data) % 8 = 0
      BY <2>1, Zenon DEF Packing, TypeOK
    <3> QED
      BY <3>1, LenProperties
  <2>3. v \in Septets /\ Tail(todo) \in Seq(Septets) /\ septets' \in Seq(Septets)
    BY <2>1, <2>2
  <2>4. d \in Seq(Bit) /\ Len(d) = 7
    BY <2>3, BitsOfSeptet DEF Bit
  <2> HIDE DEF v, d
  <2>5. all \in Seq(Bit) /\ Len(all) = Len(bits) + 7 /\ Len(all) \in Nat
    <3>1. all \in Seq(Bit) /\ Len(all) = Len(bits) + Len(d)
      BY <2>2, <2>4, ConcatProperties
    <3> QED
      BY <2>2, <2>4, <3>1
  <2>6. /\ data \o bits \in Seq(Bit) /\ Len(data \o bits) = 7 * Len(septets)
        /\ Packed(data \o bits)
    BY <2>1, <2>2, ConcatProperties DEF Packing, PackedSoFar, Encoding
  <2>7. (data \o bits) \o d = data \o all
    BY <2>2, <2>4, BitsAssociate
  <2> HIDE DEF all
  <2>8. /\ data' \in Seq(Bit) /\ bits' \in Seq(Bit) /\ data' \o bits' = data \o all
        /\ Len(data') % 8 = 0 /\ Len(bits') < 8
    <3>1. CASE Len(all) >= 8
      <4>1. /\ SubSeq(all, 1, 8) \in Seq(Bit) /\ Len(SubSeq(all, 1, 8)) = 8
            /\ bits' \in Seq(Bit) /\ Len(bits') = Len(all) - 8 /\ data' \o bits' = data \o all
        BY <2>1, <2>2, <2>5, <3>1, MoveOctet
      <4>2. data' \in Seq(Bit) /\ Len(data') = Len(data) + Len(SubSeq(all, 1, 8))
        BY <2>1, <2>2, <3>1, <4>1, ConcatProperties
      <4> QED
        BY <2>2, <2>5, <4>1, <4>2
    <3>2. CASE ~(Len(all) >= 8)
      <4>1. data' = data /\ bits' = all
        BY <2>1, <3>2
      <4>2. Len(all) < 8
        BY <2>5, <3>2
      <4> QED
        BY <2>2, <2>5, <4>1, <4>2
    <3> QED
      BY <3>1, <3>2
  <2>9. /\ (data \o bits) \o d \in Seq(Bit) /\ Len((data \o bits) \o d) = 7 * Len(septets')
        /\ \A i \in 1..Len(septets') : \A j \in 1..7 :
              ((data \o bits) \o d)[7 * (i - 1) + j] = Bits7(septets'[i])[j]
    <3>1. \A i \in 1..Len(septets) : \A j \in 1..7 :
            (data \o bits)[7 * (i - 1) + j] = Bits7(septets[i])[j]
      BY <2>6 DEF Packed
    <3>2. /\ (data \o bits) \o d \in Seq(Bit)
          /\ Len((data \o bits) \o d) = 7 * Len(Append(septets, v))
          /\ \A i \in 1..Len(Append(septets, v)) : \A j \in 1..7 :
                ((data \o bits) \o d)[7 * (i - 1) + j] = Bits7(Append(septets, v)[i])[j]
      BY <2>2, <2>3, <2>6, <3>1, PackOne DEF d
    <3> QED
      BY <2>1, <3>2
  <2>10. Len(data') + Len(bits') = Len(data' \o bits')
    BY <2>8, ConcatProperties
  <2>11. PackedSoFar'
    <3>1. Len(data') + Len(bits') = 7 * Len(septets')
      BY <2>7, <2>8, <2>9, <2>10, Zenon
    <3>2. data' \o bits' = (data \o bits) \o d
      BY <2>7, <2>8, Zenon
    <3>3. \A i \in 1..Len(septets') : \A j \in 1..7 :
            (data' \o bits')[7 * (i - 1) + j] = Bits7(septets'[i])[j]
      BY <2>9, <3>2, Zenon
    <3>4. Packed(data \o bits)'
      BY <3>3, Zenon DEF Packed
    <3> QED
      BY <3>1, <3>4, Zenon DEF PackedSoFar
  <2>12. TypeOK'
    BY <2>1, <2>3, <2>8 DEF Packing, TypeOK
  <2> QED
    <3>1. PackedWhole' /\ UnpackedSoFar'
      BY <2>1 DEF PackedWhole, UnpackedSoFar, Decoding
    <3>2. Resting' /\ SeptetsSurvive'
      <4>1. pc' = "encode" /\ encoding' = "GSM7" /\ seen' = <<>> /\ why' = why
        BY <2>1 DEF Packing, Resting
      <4>2. Resting'
        BY <4>1 DEF Resting
      <4>3. \A i \in 1..Len(<<>>) : seen'[i] = septets'[i]
        OBVIOUS
      <4>4. \A i \in 1..Len(seen') : seen'[i] = septets'[i]
        BY <4>1, <4>3, Zenon
      <4> QED
        BY <2>1, <4>1, <4>2, <4>4 DEF SeptetsSurvive
    <3> QED
      BY <2>11, <2>12, <3>1, <3>2, Zenon DEF Packing
<1> QED
  BY <1>1, <1>2

LEMMA EndPackHolds ==
    ASSUME Packing, SeptetsSurvive, EndPack
    PROVE  Packing' /\ SeptetsSurvive'
<1>1. CASE Fail("no space")
  BY <1>1, FailHolds
<1>2. CASE ~Fail("no space")
  <2>1. /\ pc = "encode" /\ encoding = "GSM7" /\ pc' = "encoded" /\ bits' = <<>>
        /\ data' = IF bits = <<>> THEN data ELSE data \o bits \o Padding
        /\ UNCHANGED <<utf8, auto, encoding, size, pos, todo, septets, seen, escaped, text, why>>
    BY <1>2, Zenon DEF EndPack, Encoding
  <2>2. /\ septets \in Seq(Septets) /\ data \in Seq(Bit) /\ bits \in Seq(Bit) /\ Len(bits) < 8
        /\ Len(data) % 8 = 0 /\ Len(data) \in Nat /\ Len(bits) \in Nat /\ Len(septets) \in Nat
        /\ Len(data) + Len(bits) = 7 * Len(septets) /\ Packed(data \o bits)
    BY <2>1 DEF Packing, TypeOK, PackedSoFar, Encoding
  <2>3. /\ data' \in Seq(Bit) /\ Len(data') % 8 = 0 /\ Len(data') = 8 * Octets(Len(septets))
        /\ Packed(data)'
    <3>1. CASE bits = <<>>
      <4>1. data \o bits = data /\ Len(bits) = 0
        BY <2>2, <3>1, ConcatEmptySeq
      <4>2. Len(data) = 8 * Octets(Len(septets))
        BY <2>2, <4>1 DEF Octets
      <4> QED
        BY <2>1, <2>2, <3>1, <4>1, <4>2 DEF Packed
    <3>2. CASE bits # <<>>
      <4>1. Len(bits) \in 1..7
        <5>1. Len(bits) # 0
          BY <2>2, <3>2, EmptySeq
        <5>2. \A n \in Nat : n < 8 /\ n # 0 => n \in 1..7
          OBVIOUS
        <5> QED
          BY <2>2, <5>1, <5>2, Zenon
      <4>2. Padding \in Seq(Bit) /\ Len(Padding) = 8 - Len(bits)
        <5>1. \A n \in 1..7 : /\ 8 - n \in Nat
                               /\ [i \in 1..(8 - n) |-> 0] \in [1..(8 - n) -> Bit]
          BY DEF Bit
        <5>2. \A n \in Nat : \A f \in [1..n -> Bit] : f \in Seq(Bit) /\ Len(f) = n
          OBVIOUS
        <5> QED
          BY <4>1, <5>1, <5>2, Zenon DEF Padding
      <4>3. data \o bits \in Seq(Bit) /\ Len(data \o bits) = 7 * Len(septets)
        BY <2>2, ConcatProperties
      <4>4. data' \in Seq(Bit) /\ Len(data') = Len(data \o bits) + Len(Padding)
        BY <2>1, <3>2, <4>2, <4>3, ConcatProperties
      <4>5. Len(data') = 8 * Octets(Len(septets)) /\ Len(data') % 8 = 0
        <5>1. \A a, c, n \in Nat, b \in 1..7 :
                a % 8 = 0 /\ a + b = 7 * n /\ c = 7 * n + (8 - b)
                => c = 8 * Octets(n) /\ c % 8 = 0
          BY DEF Octets
        <5>2. Len(data') \in Nat /\ Len(data') = 7 * Len(septets) + (8 - Len(bits))
          BY <4>2, <4>3, <4>4
        <5> QED
          BY <2>2, <4>1, <5>1, <5>2, Zenon
      <4>6. Packed((data \o bits) \o Padding)
        <5>1. \A i \in 1..Len(septets) : \A j \in 1..7 :
                (data \o bits)[7 * (i - 1) + j] = Bits7(septets[i])[j]
          BY <2>2 DEF Packed
        <5> QED
          BY <2>2, <4>2, <4>3, <5>1, PackedPrefix DEF Packed
      <4>7. Packed(data)'
        BY <2>1, <3>2, <4>6 DEF Packed
      <4> QED
        BY <4>4, <4>5, <4>7
    <3> QED
      BY <3>1, <3>2
  <2>4. TypeOK'
    <3>1. <<>> \in Seq(Bit) /\ Len(<<>>) = 0 /\ 0 < 8
      OBVIOUS
    <3>2. bits' \in Seq(Bit) /\ Len(bits') < 8
      BY <2>1, <3>1, Zenon
    <3> QED
      BY <2>1, <2>3, <3>2, Zenon DEF Packing, TypeOK
  <2> QED
    BY <2>1, <2>3, <2>4 DEF Packing, PackedSoFar, PackedWhole, UnpackedSoFar, Resting,
       SeptetsSurvive, Encoding, Decoding
<1> QED
  BY <1>1, <1>2

LEMMA OctetsHold ==
    ASSUME Packing, SeptetsSurvive, PutChar \/ EndEncode
    PROVE  Packing' /\ SeptetsSurvive'
<1>1. CASE Fail("invalid utf8") \/ Fail("no space")
  BY <1>1, FailHolds
<1>2. CASE ~(Fail("invalid utf8") \/ Fail("no space"))
  <2> DEFINE char == Utf8Next(utf8, pos)
  <2>1. /\ pc = "encode" /\ encoding # "GSM7" /\ pc' \in {"encode", "encoded"}
        /\ pos' \in {pos, pos + char.len}
        /\ UNCHANGED <<utf8, auto, encoding, size, todo, bits, septets, seen, escaped, text, why>>
    <3>1. CASE PutChar
      BY <1>2, <3>1, Zenon DEF PutChar
    <3>2. CASE EndEncode
      BY <3>2 DEF EndEncode
    <3> QED
      BY <3>1, <3>2
  <2>2. char.len \in 0..4 /\ pos \in Nat \ {0}
    BY CharactersAreShort DEF Packing, TypeOK
  <2> HIDE DEF char
  <2>3. TypeOK'
    BY <2>1, <2>2 DEF Packing, TypeOK
  <2> QED
    BY <2>1, <2>3 DEF Packing, PackedSoFar, PackedWhole, UnpackedSoFar, Resting,
       SeptetsSurvive, Encoding, Decoding
<1> QED
  BY <1>1, <1>2

LEMMA StartDecodeHolds ==
    ASSUME Packing, SeptetsSurvive, StartDecode
    PROVE  Packing' /\ SeptetsSurvive'
<1>1. /\ pc = "encoded" /\ pos' = 1 /\ bits = <<>> /\ seen = <<>>
      /\ UNCHANGED <<utf8, auto, encoding, size, todo, bits, data, septets, seen, escaped, text>>
  BY DEF StartDecode, Packing, Resting
<1>2. CASE encoding = "GSM7"
  <2>1. Len(data) = 8 * Octets(Len(septets)) /\ Packed(data)
    BY <1>1, <1>2 DEF Packing, PackedWhole
  <2>2. pc' = "decode" /\ why' = why
    BY <1>2, <2>1 DEF StartDecode
  <2>3. TypeOK' /\ PackedSoFar' /\ PackedWhole' /\ Resting' /\ SeptetsSurvive'
    <3>1. TypeOK' /\ Resting' /\ PackedSoFar'
      BY <1>1, <1>2, <2>2 DEF Packing, TypeOK, Resting, PackedSoFar, Encoding
    <3>2. Packed(data)'
      BY <1>1, <2>1, Zenon DEF Packed
    <3>3. PackedWhole'
      BY <1>1, <2>1, <3>2, Zenon DEF PackedWhole
    <3>4. SeptetsSurvive'
      BY <1>1, <2>2, Zenon DEF SeptetsSurvive
    <3> QED
      BY <3>1, <3>3, <3>4
  <2>4. septets \in Seq(Septets) /\ data \in Seq(Bit)
    BY <1>2 DEF Packing, TypeOK
  <2>5. Len(seen) = 0 /\ Len(bits) = 0 /\ Len(septets) \in Nat /\ Len(data) \in Nat
    BY <1>1, <2>4
  <2>6. UnpackedSoFar'
    BY <1>1, <2>5 DEF UnpackedSoFar
  <2> QED
    BY <2>3, <2>6 DEF Packing
<1>3. CASE encoding # "GSM7"
  <2>1. pc' = "decode" /\ why' = why
    BY <1>3 DEF StartDecode
  <2>2. TypeOK' /\ Resting'
    BY <1>1, <1>3, <2>1 DEF Packing, TypeOK, Resting
  <2>3. PackedSoFar' /\ PackedWhole' /\ UnpackedSoFar'
    BY <1>1, <1>3 DEF PackedSoFar, PackedWhole, UnpackedSoFar, Encoding, Decoding
  <2>4. SeptetsSurvive'
    BY <1>1, <2>1, Zenon DEF SeptetsSurvive
  <2> QED
    BY <2>2, <2>3, <2>4 DEF Packing
<1> QED
  BY <1>2, <1>3

LEMMA EndsHold ==
    ASSUME Packing, SeptetsSurvive, EndUnpack \/ TakeChar \/ EndDecode
    PROVE  Packing' /\ SeptetsSurvive'
<1>1. CASE Fail("invalid utf8") \/ Fail("invalid utf16")
  BY <1>1, FailHolds
<1>2. CASE ~(Fail("invalid utf8") \/ Fail("invalid utf16"))
  <2> DEFINE char == IF encoding = "UCS2" THEN Utf16Next(data, pos) ELSE Utf8Next(data, pos)
  <2>1. /\ pc = "decode" /\ (pc' = "done" \/ (pc' = "decode" /\ encoding # "GSM7"))
        /\ pos' = pos \/ pos' = pos + char.len
        /\ UNCHANGED <<utf8, auto, encoding, size, todo, bits, data, septets, seen, escaped, why>>
    <3>1. CASE EndUnpack
      <4>1. /\ pc = "decode" /\ pc' = "done"
            /\ UNCHANGED <<utf8, auto, encoding, size, pos, todo, bits, data, septets, seen, escaped, text, why>>
        BY <1>2, <3>1, Zenon DEF EndUnpack, Decoding
      <4>2. /\ pos' = pos
            /\ UNCHANGED <<utf8, auto, encoding, size, todo, bits, data, septets, seen, escaped, why>>
        BY <4>1
      <4> HIDE DEF char
      <4> QED
        BY <4>1, <4>2, Zenon
    <3>2. CASE TakeChar
      <4>1. \/ Fail(IF encoding = "UCS2" THEN "invalid utf16" ELSE "invalid utf8")
            \/ /\ pos' = pos + char.len
               /\ UNCHANGED <<utf8, auto, encoding, size, pc, todo, bits, data, septets, seen, escaped, why>>
        BY <3>2, Zenon DEF TakeChar
      <4> HIDE DEF char
      <4> QED
        BY <1>2, <3>2, <4>1 DEF TakeChar
    <3>3. CASE EndDecode
      BY <3>3 DEF EndDecode
    <3> QED
      BY <3>1, <3>2, <3>3
  <2>2. char.len \in 0..4 /\ pos \in Nat \ {0}
    BY CharactersAreShort, UnitsAreShort DEF Packing, TypeOK
  <2> HIDE DEF char
  <2>3. TypeOK'
    BY <2>1, <2>2 DEF Packing, TypeOK
  <2> QED
    BY <2>1, <2>3 DEF Packing, PackedSoFar, PackedWhole, UnpackedSoFar, Resting,
       SeptetsSurvive, Encoding, Decoding
<1> QED
  BY <1>1, <1>2

LEMMA TakeSeptetHolds ==
    ASSUME Packing, SeptetsSurvive, TakeSeptet
    PROVE  Packing' /\ SeptetsSurvive'
<1> DEFINE k == Len(seen)
           v == Value7(Waiting)
<1>1. /\ pc = "decode" /\ encoding = "GSM7" /\ k < Len(septets)
      /\ septets \in Seq(Septets) /\ seen \in Seq(Septets) /\ data \in Seq(Bit) /\ bits \in Seq(Bit)
      /\ Len(data) % 8 = 0 /\ Len(data) = 8 * Octets(Len(septets)) /\ Packed(data)
      /\ \A i \in 1..k : seen[i] = septets[i]
      /\ pos - 1 = 7 * k + Len(bits) /\ (pos - 1) % 8 = 0
      /\ \A j \in 1..Len(bits) : bits[j] = data[7 * k + j]
      /\ pos \in Nat \ {0} /\ Len(bits) < 8
  BY Zenon DEF TakeSeptet, Decoding, Packing, TypeOK, PackedWhole, UnpackedSoFar
<1>2. k \in Nat /\ Len(septets) \in Nat /\ Len(data) \in Nat /\ Len(bits) \in Nat
  BY <1>1
<1>3. 7 * Len(septets) <= Len(data)
  <2>1. \A a, n \in Nat : a = 8 * Octets(n) => 7 * n <= a
    BY DEF Octets
  <2> QED
    BY <1>1, <1>2, <2>1, Zenon
\* The decoder finds the octet it needs.
<1>4. MustRead => CanRead
  <2>1. \A a, b, n, m \in Nat, p \in Nat \ {0} :
          /\ b < 7 /\ m < n /\ 7 * n <= a /\ a % 8 = 0 /\ p - 1 = 7 * m + b /\ (p - 1) % 8 = 0
          => p + 7 <= a
    OBVIOUS
  <2> QED
    BY <1>1, <1>2, <1>3, <2>1 DEF MustRead, CanRead
\* What waits are the bits of the data from the next septet on.
<1>5. /\ Waiting \in Seq(Bit) /\ Len(Waiting) >= 7 /\ Len(Waiting) < 15
      /\ MustRead => 7 * k + Len(Waiting) = pos + 8 - 1
      /\ ~MustRead => 7 * k + Len(Waiting) = pos - 1
      /\ 7 * k + Len(Waiting) <= Len(data)
      /\ \A j \in 1..Len(Waiting) : Waiting[j] = data[7 * k + j]
  <2>1. CASE MustRead
    <3> DEFINE octet == SubSeq(data, pos, pos + 7)
    <3>1. pos + 7 <= Len(data)
      BY <1>4, <2>1 DEF CanRead
    <3>2. /\ octet \in Seq(Bit) /\ Len(octet) = 8
          /\ \A i \in 1..8 : octet[i] = data[pos + i - 1]
      <4>1. \A i \in pos..(pos + 7) : data[i] \in Bit
        BY <1>1, <1>2, <3>1
      <4>2. pos \in Int /\ pos + 7 \in Int /\ pos <= pos + 7 /\ pos + 7 - pos + 1 = 8
        BY <1>1
      <4> QED
        BY <4>1, <4>2, SubSeqProperties
    <3> HIDE DEF octet
    <3>3. Waiting = bits \o octet
      BY <2>1 DEF Waiting, octet
    <3>4. /\ Waiting \in Seq(Bit) /\ Len(Waiting) = Len(bits) + 8
          /\ \A i \in 1..(Len(bits) + 8) :
                Waiting[i] = IF i <= Len(bits) THEN bits[i] ELSE octet[i - Len(bits)]
      <4>1. /\ Waiting \in Seq(Bit) /\ Len(Waiting) = Len(bits) + Len(octet)
            /\ \A i \in 1..(Len(bits) + Len(octet)) :
                  Waiting[i] = IF i <= Len(bits) THEN bits[i] ELSE octet[i - Len(bits)]
        <5>1. /\ bits \o octet \in Seq(Bit) /\ Len(bits \o octet) = Len(bits) + Len(octet)
              /\ \A i \in 1..(Len(bits) + Len(octet)) :
                    (bits \o octet)[i] = IF i <= Len(bits) THEN bits[i] ELSE octet[i - Len(bits)]
          BY <1>1, <3>2, ConcatBits, Zenon
        <5> QED
          BY <3>3, <5>1, Zenon
      <4> QED
        BY <3>2, <4>1, Zenon
    <3>5. ASSUME NEW j \in 1..Len(Waiting)
          PROVE  Waiting[j] = data[7 * k + j]
      <4>1. CASE j <= Len(bits)
        <5>1. j \in 1..Len(bits) /\ j \in 1..(Len(bits) + 8)
          BY <1>2, <3>4, <4>1
        <5> QED
          BY <1>1, <3>4, <4>1, <5>1
      <4>2. CASE ~(j <= Len(bits))
        <5>1. /\ j \in 1..(Len(bits) + 8) /\ j - Len(bits) \in 1..8
              /\ pos + (j - Len(bits)) - 1 = 7 * k + j
          <6>1. \A b, m \in Nat : \A p \in Nat \ {0} : \A i \in 1..(b + 8) :
                  ~(i <= b) /\ p - 1 = 7 * m + b
                  => i - b \in 1..8 /\ p + (i - b) - 1 = 7 * m + i
            OBVIOUS
          <6>2. j \in 1..(Len(bits) + 8)
            BY <3>4, Zenon
          <6>3. pos - 1 = 7 * k + Len(bits) /\ pos \in Nat \ {0} /\ Len(bits) \in Nat /\ k \in Nat
            BY <1>1, <1>2, Zenon
          <6> QED
            BY <4>2, <6>1, <6>2, <6>3
        <5> QED
          BY <3>2, <3>4, <4>2, <5>1
      <4> QED
        BY <4>1, <4>2
    <3>6. /\ Len(Waiting) >= 7 /\ Len(Waiting) < 15 /\ 7 * k + Len(Waiting) = pos + 8 - 1
          /\ 7 * k + Len(Waiting) <= Len(data)
      BY <1>1, <1>2, <2>1, <3>1, <3>4 DEF MustRead
    <3> QED
      BY <2>1, <3>4, <3>5, <3>6, Zenon
  <2>2. CASE ~MustRead
    <3>1. Waiting = bits
      BY <2>2 DEF Waiting
    <3>2. Len(bits) >= 7
      BY <1>2, <2>2 DEF MustRead
    <3>3. pos - 1 <= Len(data)
      BY <1>1 DEF Packing, UnpackedSoFar, Decoding
    <3>4. /\ Len(Waiting) >= 7 /\ Len(Waiting) < 15 /\ 7 * k + Len(Waiting) = pos - 1
          /\ 7 * k + Len(Waiting) <= Len(data)
      BY <1>1, <1>2, <3>1, <3>2, <3>3
    <3> QED
      BY <1>1, <2>2, <3>1, <3>4, Zenon
  <2> QED
    BY <2>1, <2>2
<1>6. v = septets[k + 1] /\ v \in Septets
  <2>1. k + 1 \in 1..Len(septets) /\ septets[k + 1] \in Septets
    BY <1>1, <1>2
  <2>2. \A j \in 1..7 : Waiting[j] = Bits7(septets[k + 1])[j]
    <3> SUFFICES ASSUME NEW j \in 1..7 PROVE Waiting[j] = Bits7(septets[k + 1])[j]
      OBVIOUS
    <3>1. j \in 1..Len(Waiting) /\ 7 * (k + 1 - 1) + j = 7 * k + j
      BY <1>2, <1>5
    <3>2. data[7 * (k + 1 - 1) + j] = Bits7(septets[k + 1])[j]
      <4>1. \A i \in 1..Len(septets) : data[7 * (i - 1) + j] = Bits7(septets[i])[j]
        BY <1>1, Zenon DEF Packed
      <4> QED
        BY <2>1, <4>1
    <3> QED
      BY <1>5, <3>1, <3>2
  <2>3. 1 \in 1..7 /\ 2 \in 1..7 /\ 3 \in 1..7 /\ 4 \in 1..7 /\ 5 \in 1..7 /\ 6 \in 1..7 /\ 7 \in 1..7
    OBVIOUS
  <2>4. v = Value7(Bits7(septets[k + 1]))
    BY <2>2, <2>3, Zenon DEF Value7
  <2> QED
    BY <2>1, <2>4, BitsOfSeptet
<1> HIDE DEF v
<1>7. /\ seen' = Append(seen, v) /\ bits' = SubSeq(Waiting, 8, Len(Waiting))
      /\ pos' = (IF MustRead THEN pos + 8 ELSE pos)
      /\ pc' \in {"decode", "refused"} /\ (why' = why \/ why' = "unsupported")
      /\ UNCHANGED <<utf8, auto, encoding, size, todo, data, septets>>
  <2>1. /\ seen' = Append(seen, v) /\ bits' = SubSeq(Waiting, 8, Len(Waiting))
        /\ pos' = (IF MustRead THEN pos + 8 ELSE pos)
        /\ pc' = (IF Meaning(v) = -1 THEN "refused" ELSE pc)
        /\ why' = (IF Meaning(v) = -1 THEN "unsupported" ELSE why)
        /\ UNCHANGED <<utf8, auto, encoding, size, todo, data, septets>>
    BY <1>4, Zenon DEF TakeSeptet, v
  <2> QED
    BY <1>1, <2>1
<1>8. /\ bits' \in Seq(Bit) /\ Len(bits') = Len(Waiting) - 7
      /\ \A j \in 1..Len(bits') : bits'[j] = Waiting[j + 7]
  <2> DEFINE n == Len(Waiting)
  <2>1. n \in Nat /\ n >= 7 /\ \A i \in 1..n : Waiting[i] \in Bit
    BY <1>5
  <2>2. \A i \in 8..n : Waiting[i] \in Bit
    BY <2>1
  <2> HIDE DEF n
  <2>3. /\ SubSeq(Waiting, 8, n) \in Seq(Bit)
        /\ Len(SubSeq(Waiting, 8, n)) = IF 8 <= n THEN n - 8 + 1 ELSE 0
        /\ \A i \in 1..(n - 8 + 1) : SubSeq(Waiting, 8, n)[i] = Waiting[8 + i - 1]
    <3>1. 8 \in Int /\ n \in Int
      BY <2>1
    <3> QED
      BY <2>2, <3>1, SubSeqProperties
  <2>4. (IF 8 <= n THEN n - 8 + 1 ELSE 0) = n - 7 /\ n - 8 + 1 = n - 7
        /\ \A i \in 1..(n - 7) : 8 + i - 1 = i + 7
    BY <2>1
  <2>5. bits' = SubSeq(Waiting, 8, n)
    BY <1>7 DEF n
  <2>6. Len(bits') = n - 7
    BY <2>3, <2>4, <2>5, Zenon
  <2>7. \A j \in 1..Len(bits') : bits'[j] = Waiting[j + 7]
    BY <2>3, <2>4, <2>5, <2>6, Zenon
  <2> QED
    BY <2>3, <2>5, <2>6, <2>7, Zenon DEF n
<1>9. /\ seen' \in Seq(Septets) /\ Len(seen') = k + 1
      /\ \A i \in 1..(k + 1) : seen'[i] = septets'[i]
  <2>1. /\ seen' \in Seq(Septets) /\ Len(seen') = k + 1 /\ seen'[k + 1] = v
        /\ \A i \in 1..k : seen'[i] = seen[i]
    BY <1>1, <1>6, <1>7, AppendProperties
  <2>2. ASSUME NEW i \in 1..(k + 1) PROVE seen'[i] = septets'[i]
    <3>1. i \in 1..k \/ i = k + 1
      BY <1>2
    <3> QED
      BY <1>1, <1>6, <1>7, <2>1, <3>1, Zenon
  <2> QED
    BY <2>1, <2>2
<1>10. /\ pos' \in Nat \ {0} /\ pos' - 1 = 7 * (k + 1) + Len(bits') /\ pos' - 1 <= Len(data')
       /\ (pos' - 1) % 8 = 0 /\ k + 1 <= Len(septets') /\ Len(bits') < 8
  <2>1. Len(Waiting) \in Nat /\ Len(data') = Len(data) /\ Len(septets') = Len(septets)
    BY <1>5, <1>7
  <2>2. pos' \in Nat \ {0} /\ (pos' - 1) % 8 = 0
    <3>1. \A p \in Nat \ {0} : p + 8 \in Nat \ {0} /\ ((p - 1) % 8 = 0 => (p + 8 - 1) % 8 = 0)
      OBVIOUS
    <3>2. pos' = pos + 8 \/ pos' = pos
      BY <1>7, Zenon
    <3> QED
      BY <1>1, <3>1, <3>2
  <2>3. pos' - 1 = 7 * k + Len(Waiting)
    <3>1. CASE MustRead
      <4>1. pos' = pos + 8
        BY <1>7, <3>1, Zenon
      <4>2. 7 * k + Len(Waiting) = pos + 8 - 1
        BY <1>5, <3>1, Zenon
      <4>3. \A p \in Nat : p + 8 - 1 = (p + 8) - 1
        OBVIOUS
      <4>4. pos \in Nat
        BY <1>1
      <4> QED
        BY <4>1, <4>2, <4>3, <4>4, Zenon
    <3>2. CASE ~MustRead
      BY <1>5, <1>7, <3>2
    <3> QED
      BY <3>1, <3>2
  <2>4. \A m, n, w \in Nat : m < n /\ w >= 7 /\ w < 15
          => /\ 7 * m + w = 7 * (m + 1) + (w - 7)
             /\ m + 1 <= n /\ w - 7 < 8
    OBVIOUS
  <2>5. /\ 7 * k + Len(Waiting) = 7 * (k + 1) + Len(bits')
        /\ k + 1 <= Len(septets) /\ Len(bits') < 8
    BY SMTT(30), <1>1, <1>2, <1>5, <1>8, <2>1, <2>4
  <2> QED
    BY <1>5, <2>1, <2>2, <2>3, <2>5, Zenon
<1>11. \A j \in 1..Len(bits') : bits'[j] = data'[7 * (k + 1) + j]
  <2> SUFFICES ASSUME NEW j \in 1..Len(bits') PROVE bits'[j] = data'[7 * (k + 1) + j]
    OBVIOUS
  <2>1. Len(Waiting) \in Nat
    BY <1>5
  <2>2. j + 7 \in 1..Len(Waiting) /\ 7 * k + (j + 7) = 7 * (k + 1) + j
    BY <1>2, <1>8, <2>1
  <2> QED
    BY <1>5, <1>7, <1>8, <2>2
<1>12. TypeOK'
  BY <1>1, <1>7, <1>8, <1>9, <1>10 DEF Packing, TypeOK
<1>13. PackedSoFar' /\ PackedWhole' /\ Resting'
  <2>1. Packed(data)'
    BY <1>1, <1>7 DEF Packed
  <2> QED
    BY <1>1, <1>7, <2>1 DEF PackedSoFar, PackedWhole, Resting, Encoding
<1>14. UnpackedSoFar'
  BY <1>9, <1>10, <1>11, Zenon DEF UnpackedSoFar
<1>15. SeptetsSurvive'
  BY <1>7, <1>9 DEF SeptetsSurvive
<1> QED
  BY <1>12, <1>13, <1>14, <1>15 DEF Packing

-----------------------------------------------------------------------------
(* The theorems                                                            *)

LEMMA NextHolds ==
    ASSUME Packing, SeptetsSurvive, [Next]_vars
    PROVE  Packing' /\ SeptetsSurvive'
<1>1. CASE UNCHANGED vars
  BY <1>1, StutterHolds
<1>2. CASE Detect
  BY <1>2, DetectHolds
<1>3. CASE Encode
  BY <1>3, ReadCharHolds, PutSeptetHolds, EndPackHolds, OctetsHold DEF Encode
<1>4. CASE Decode
  BY <1>4, StartDecodeHolds, TakeSeptetHolds, EndsHold DEF Decode
<1> QED
  BY <1>1, <1>2, <1>3, <1>4 DEF Next, Returned

\* The user data of a GSM7 text is the bits of its septets, in order and
\* without a gap, with zeros up to the octet, and the decoder reads it without
\* ever leaving it (pdu.c:344-366 and 429-448).
THEOREM PackingHolds == Spec => []Packing
<1>1. Init => Packing /\ SeptetsSurvive
  BY InitHolds
<1>2. (Packing /\ SeptetsSurvive) /\ [Next]_vars => (Packing /\ SeptetsSurvive)'
  BY NextHolds
<1> QED
  BY <1>1, <1>2, PTL DEF Spec

\* The septets the decoder sees are those the encoder packed, as many as there
\* were, and it never finds the data too short or too long for their number.
THEOREM NoSeptetIsLost == Spec => []SeptetsSurvive
<1>1. Init => Packing /\ SeptetsSurvive
  BY InitHolds
<1>2. (Packing /\ SeptetsSurvive) /\ [Next]_vars => (Packing /\ SeptetsSurvive)'
  BY NextHolds
<1> QED
  BY <1>1, <1>2, PTL DEF Spec

-----------------------------------------------------------------------------
(* Characters in septets and units                                         *)

\* No two entries of a table have a code point or a septet in common.
LEMMA TablesAreOneToOne ==
    /\ \A p, r \in Extension : p[1] = r[1] \/ p[2] = r[2] => p = r
    /\ \A p, r \in Single : p[1] = r[1] \/ p[2] = r[2] => p = r
  BY SMT DEF Extension, Single

LEMMA TableBack ==
    ASSUME NEW cp, NEW table \in {Extension, Single}, InTable(cp, table)
    PROVE  \E p \in table :
              /\ p[1] = cp /\ p[2] = SeptetIn(cp, table)
              /\ (\E r \in table : r[2] = p[2])
              /\ (CHOOSE r \in table : r[2] = p[2])[1] = cp
<1> DEFINE p == CHOOSE r \in table : r[1] = cp
<1>1. p \in table /\ p[1] = cp
  BY DEF InTable
<1>2. (CHOOSE r \in table : r[2] = p[2]) \in table /\ (CHOOSE r \in table : r[2] = p[2])[2] = p[2]
  BY <1>1
<1>3. (CHOOSE r \in table : r[2] = p[2]) = p
  BY <1>1, <1>2, TablesAreOneToOne
<1> QED
  BY <1>1, <1>3 DEF SeptetIn

LEMMA BasicBack == \A i \in 1..32 : CodePointOf(i - 1, FALSE) = Basic[i]
<1> SUFFICES ASSUME NEW i \in 1..32 PROVE CodePointOf(i - 1, FALSE) = Basic[i]
  OBVIOUS
<1> DEFINE v == i - 1
<1>1. v \in Int /\ v < 32 /\ v + 1 = i
  BY SMT
<1> HIDE DEF v
<1>2. CodePointOf(v, FALSE) = Basic[v + 1]
  BY <1>1, SMT DEF CodePointOf, Within
<1>3. CodePointOf(v, FALSE) = Basic[i]
  BY <1>1, <1>2, Zenon
<1> QED
  BY <1>3, Zenon DEF v

\* gsm7_to_code_point gives a septet its character back, unless it is shared.
Means(code, cp) ==
    \/ Len(code) = 1 /\ code[1] # Escape /\ CodePointOf(code[1], FALSE) = cp
    \/ Len(code) = 2 /\ code[1] = Escape /\ CodePointOf(code[2], TRUE) = cp
LEMMA SeptetsBack ==
    ASSUME NEW cp \in Nat, cp \notin Ambiguous, SeptetsOf(cp) # <<>>
    PROVE  Means(SeptetsOf(cp), cp)
<1>1. CASE InTable(cp, Extension)
  <2>1. PICK p \in Extension :
          /\ p[1] = cp /\ p[2] = SeptetIn(cp, Extension)
          /\ (\E r \in Extension : r[2] = p[2])
          /\ (CHOOSE r \in Extension : r[2] = p[2])[1] = cp
    BY <1>1, TableBack
  <2>2. SeptetsOf(cp) = <<Escape, p[2]>>
    BY <1>1, <2>1 DEF SeptetsOf
  <2>3. CodePointOf(p[2], TRUE) = cp
    BY <2>1, SMT DEF CodePointOf, Within
  <2>8. Len(SeptetsOf(cp)) = 2 /\ SeptetsOf(cp)[1] = Escape /\ SeptetsOf(cp)[2] = p[2]
    BY SMT, <2>2
  <2> QED
    BY <2>8, <2>3, Zenon DEF Means
<1>2. CASE ~InTable(cp, Extension) /\ \E i \in 1..32 : Basic[i] = cp
  <2>1. PICK i \in 1..32 : i = CHOOSE j \in 1..32 : Basic[j] = cp
    BY <1>2
  <2>2. Basic[i] = cp
    BY <1>2, <2>1
  <2>3. SeptetsOf(cp) = <<i - 1>>
    BY <1>2, <2>1 DEF SeptetsOf
  <2>4. i - 1 # Escape
    <3>1. Basic[28] = Escape
      BY SMT DEF Basic, Escape
    <3>2. Escape \in Ambiguous
      BY SMT DEF Ambiguous
    <3> QED
      BY <2>2, <3>1, <3>2, SMT DEF Escape
  <2>5. CodePointOf(i - 1, FALSE) = Basic[i]
    BY BasicBack
  <2>8. Len(SeptetsOf(cp)) = 1 /\ SeptetsOf(cp)[1] = i - 1
    BY SMT, <2>3
  <2> QED
    BY <2>8, <2>2, <2>4, <2>5, Zenon DEF Means
<1>3. CASE ~InTable(cp, Extension) /\ ~(\E i \in 1..32 : Basic[i] = cp) /\ Within(cp, 32, 122)
  <2>1. SeptetsOf(cp) = <<cp>>
    BY <1>3 DEF SeptetsOf
  <2>2. CodePointOf(cp, FALSE) = cp /\ cp # Escape
    BY <1>3, SMT DEF CodePointOf, Escape, Within
  <2>8. Len(SeptetsOf(cp)) = 1 /\ SeptetsOf(cp)[1] = cp
    BY SMT, <2>1
  <2> QED
    BY <2>8, <2>2, Zenon DEF Means
<1>4. CASE /\ ~InTable(cp, Extension) /\ ~(\E i \in 1..32 : Basic[i] = cp) /\ ~Within(cp, 32, 122)
           /\ InTable(cp, Single)
  <2>1. PICK p \in Single :
          /\ p[1] = cp /\ p[2] = SeptetIn(cp, Single)
          /\ (\E r \in Single : r[2] = p[2])
          /\ (CHOOSE r \in Single : r[2] = p[2])[1] = cp
    BY <1>4, TableBack
  <2>2. SeptetsOf(cp) = <<p[2]>>
    BY <1>4, <2>1 DEF SeptetsOf
  <2>3. p[2] \in 123..127
    BY <2>1, SMTT(30) DEF Single, Ambiguous
  <2>4. CodePointOf(p[2], FALSE) = cp /\ p[2] # Escape
    BY <2>1, <2>3, SMT DEF CodePointOf, Escape, Within
  <2>8. Len(SeptetsOf(cp)) = 1 /\ SeptetsOf(cp)[1] = p[2]
    BY SMT, <2>2
  <2> QED
    BY <2>8, <2>4, Zenon DEF Means
<1> QED
  BY <1>1, <1>2, <1>3, <1>4 DEF SeptetsOf

\* The units of a character.
LEMMA UnitsAre ==
    ASSUME NEW cp, Scalar(cp)
    PROVE  /\ Utf16(cp) \in Seq(Nat)
           /\ \/ /\ cp < 65536 /\ Len(Utf16(cp)) = 2
                 /\ Utf16(cp)[1] * 256 + Utf16(cp)[2] = cp
              \/ /\ 65536 <= cp /\ Len(Utf16(cp)) = 4
                 /\ Utf16(cp)[1] * 256 + Utf16(cp)[2] = 55296 + ((cp - 65536) \div 1024)
                 /\ Utf16(cp)[3] * 256 + Utf16(cp)[4] = 56320 + ((cp - 65536) % 1024)
<1>1. \A u \in Nat : /\ Unit(u) \in Seq(Nat) /\ Len(Unit(u)) = 2
                     /\ Unit(u)[1] * 256 + Unit(u)[2] = u
  BY SMT DEF Unit
<1>2. CASE cp < 65536
  BY <1>1, <1>2, SMT DEF Scalar, Utf16
<1>3. CASE ~(cp < 65536)
  <2> DEFINE h == 55296 + ((cp - 65536) \div 1024)
             l == 56320 + ((cp - 65536) % 1024)
             a == Unit(h)
             b == Unit(l)
  <2>1. h \in Nat /\ l \in Nat
    BY <1>3, SMT DEF Scalar
  <2>2. Utf16(cp) = a \o b
    BY <1>3, SMT DEF Utf16
  <2> HIDE DEF h, l
  <2>3. a \in Seq(Nat) /\ Len(a) = 2 /\ b \in Seq(Nat) /\ Len(b) = 2
    BY <1>1, <2>1
  <2>4. a[1] * 256 + a[2] = h /\ b[1] * 256 + b[2] = l
    BY <1>1, <2>1
  <2> HIDE DEF a, b
  <2>5. /\ a \o b \in Seq(Nat) /\ Len(a \o b) = Len(a) + Len(b)
        /\ \A i \in 1..(Len(a) + Len(b)) : (a \o b)[i] = IF i <= Len(a) THEN a[i] ELSE b[i - Len(a)]
    BY <2>3, Concatenated
  <2>6. Len(a \o b) = 4 /\ (a \o b)[1] = a[1] /\ (a \o b)[2] = a[2]
    BY <2>3, <2>5, SMT
  <2>7. (a \o b)[3] = b[1]
    <3>1. 3 \in 1..(Len(a) + Len(b)) /\ ~(3 <= Len(a)) /\ 3 - Len(a) = 1
      BY <2>3, SMT
    <3> QED
      BY <2>5, <3>1, SMT
  <2>8. (a \o b)[4] = b[2]
    <3>1. 4 \in 1..(Len(a) + Len(b)) /\ ~(4 <= Len(a)) /\ 4 - Len(a) = 2
      BY <2>3, SMT
    <3> QED
      BY <2>5, <3>1, SMT
  <2>9. 65536 <= cp
    BY <1>3, SMT DEF Scalar
  <2> QED
    BY <2>2, <2>4, <2>5, <2>6, <2>7, <2>8, <2>9, SMT DEF h, l
<1> QED
  BY <1>2, <1>3

\* The decoder puts them together again.
LEMMA UnitsBack ==
    ASSUME NEW cp, Scalar(cp), NEW t \in Seq(Nat), NEW q \in 1..Len(t),
           q + Len(Utf16(cp)) - 1 <= Len(t),
           \A i \in 1..Len(Utf16(cp)) : t[q + i - 1] = Utf16(cp)[i]
    PROVE  Utf16Next(t, q).len = Len(Utf16(cp)) /\ Utf16Next(t, q).cp = cp
<1> DEFINE code == Utf16(cp)
<1>1. \/ cp < 65536 /\ Len(code) = 2 /\ code[1] * 256 + code[2] = cp
      \/ /\ 65536 <= cp /\ Len(code) = 4
         /\ code[1] * 256 + code[2] = 55296 + ((cp - 65536) \div 1024)
         /\ code[3] * 256 + code[4] = 56320 + ((cp - 65536) % 1024)
  BY UnitsAre
<1>2. \A i \in 1..Len(code) : t[q + i - 1] = code[i]
  OBVIOUS
<1>3. q \in Nat /\ Len(t) \in Nat /\ q + Len(code) - 1 <= Len(t)
  BY SMT
<1>4. cp \in Nat /\ cp < 1114112 /\ (cp < 55296 \/ 57344 <= cp)
  BY DEF Scalar
<1>5. q + 1 - 1 = q /\ q + 2 - 1 = q + 1 /\ q + 3 - 1 = q + 2 /\ q + 4 - 1 = q + 2 + 1
  BY <1>3, SMT
<1> SUFFICES Utf16Next(t, q).len = Len(code) /\ Utf16Next(t, q).cp = cp
  OBVIOUS
<1> HIDE DEF code
<1>6. CASE cp < 65536 /\ Len(code) = 2 /\ code[1] * 256 + code[2] = cp
  <2>1. 1 \in 1..Len(code) /\ 2 \in 1..Len(code)
    BY <1>6, SMT
  <2>2. t[q] = code[1] /\ t[q + 1] = code[2]
    <3>1. t[q + 1 - 1] = code[1] /\ t[q + 2 - 1] = code[2]
      BY <1>2, <2>1, Zenon
    <3> QED
      BY <1>5, <3>1, Zenon
  <2>3. UnitAt(t, q) = cp
    BY <1>6, <2>2, SMT DEF UnitAt
  <2>4. ~IsLow(cp) /\ ~IsHigh(cp)
    BY <1>4, SMT DEF IsLow, IsHigh
  <2>5. Utf16Next(t, q) = [len |-> 2, cp |-> cp]
    BY <2>3, <2>4, SMT DEF Utf16Next
  <2> QED
    BY <1>6, <2>5, SMT
<1>7. CASE /\ 65536 <= cp /\ Len(code) = 4
           /\ code[1] * 256 + code[2] = 55296 + ((cp - 65536) \div 1024)
           /\ code[3] * 256 + code[4] = 56320 + ((cp - 65536) % 1024)
  <2> DEFINE h == 55296 + ((cp - 65536) \div 1024)
             l == 56320 + ((cp - 65536) % 1024)
  <2>1. 1 \in 1..Len(code) /\ 2 \in 1..Len(code) /\ 3 \in 1..Len(code) /\ 4 \in 1..Len(code)
    BY <1>7, SMT
  <2>2. /\ t[q] = code[1] /\ t[q + 1] = code[2]
        /\ t[q + 2] = code[3] /\ t[q + 2 + 1] = code[4]
    <3>1. /\ t[q + 1 - 1] = code[1] /\ t[q + 2 - 1] = code[2]
          /\ t[q + 3 - 1] = code[3] /\ t[q + 4 - 1] = code[4]
      BY <1>2, <2>1, Zenon
    <3> QED
      BY <1>5, <3>1, Zenon
  <2>3. UnitAt(t, q) = h /\ UnitAt(t, q + 2) = l
    BY <1>7, <2>2, SMT DEF UnitAt
  <2>4. /\ h \in Nat /\ l \in Nat /\ IsHigh(h) /\ ~IsLow(h) /\ IsLow(l)
        /\ 65536 + (h - 55296) * 1024 + l - 56320 = cp
    BY <1>4, <1>7, SMTT(30) DEF IsLow, IsHigh
  <2>5. q + 3 <= Len(t)
    BY <1>3, <1>7, SMT
  <2> HIDE DEF h, l
  <2>6. Utf16Next(t, q) = [len |-> 4, cp |-> cp]
    BY <2>3, <2>4, <2>5, SMT DEF Utf16Next
  <2> QED
    BY <1>7, <2>6, SMT
<1> QED
  BY <1>1, <1>6, <1>7

-----------------------------------------------------------------------------
(* The text beside its code                                                *)

\* What the encoder makes of the character at place p of s.
Code(e, s, p) ==
    LET char == Utf8Next(s, p) IN
    IF e = "GSM7" THEN SeptetsOf(char.cp)
    ELSE IF e = "UCS2" THEN Utf16(char.cp)
    ELSE SubSeq(s, p, p + char.len - 1)

\* A set of marks lines s up with the stream of its codes.  A mark is a pair of
\* places, one in each.  The first is at both beginnings, the last at both
\* ends, and every other one has a character on the one side, its code on the
\* other, and the next mark behind them.
Stands(stream, q, code) ==
    /\ q + Len(code) - 1 <= Len(stream)
    /\ \A i \in 1..Len(code) : stream[q + i - 1] = code[i]
Passed(e, s, stream, M, p, q) ==
    /\ p \in 1..Len(s) /\ q \in 1..Len(stream)
    /\ Utf8Next(s, p).len # 0 /\ Len(Code(e, s, p)) \in Nat \ {0}
    /\ Stands(stream, q, Code(e, s, p))
    /\ <<p + Utf8Next(s, p).len, q + Len(Code(e, s, p))>> \in M
Linked(e, s, stream, at, M) ==
    /\ <<1, 1>> \in M
    /\ \A p, q \in Nat : <<p, q>> \in M =>
          (p = at /\ q = Len(stream) + 1) \/ Passed(e, s, stream, M, p, q)

LEMMA CodeIs ==
    ASSUME NEW e \in Encodings, NEW s \in Seq(Nat), NEW p \in 1..Len(s), Utf8Next(s, p).len # 0,
           e = "GSM7" => SeptetsOf(Utf8Next(s, p).cp) # <<>>
    PROVE  Code(e, s, p) \in Seq(Nat) /\ Len(Code(e, s, p)) \in Nat \ {0}
<1> DEFINE char == Utf8Next(s, p)
<1>1. CharAt(s, p)
  BY CharBack
<1>2. char.len \in 1..4 /\ p + char.len - 1 <= Len(s) /\ Scalar(char.cp) /\ char.cp \in Nat
  BY <1>1 DEF CharAt, Scalar
<1>3. CASE e = "GSM7"
  <2>1. SeptetsOf(char.cp) \in Seq(Septets)
    BY <1>2, SeptetsAreSeptets
  <2>2. \A c \in Seq(Septets) : c # <<>> => c \in Seq(Nat) /\ Len(c) \in Nat \ {0}
    <3>1. Septets \subseteq Nat
      BY SMT DEF Septets
    <3> QED
      BY <3>1, EmptySeq, SeqMonotonic
  <2>3. Code(e, s, p) = SeptetsOf(char.cp)
    BY <1>3 DEF Code
  <2> QED
    BY <1>3, <2>1, <2>2, <2>3
<1>4. CASE e = "UCS2"
  <2>1. Code(e, s, p) = Utf16(char.cp)
    BY <1>4, SMT DEF Code
  <2>2. Utf16(char.cp) \in Seq(Nat) /\ (Len(Utf16(char.cp)) = 2 \/ Len(Utf16(char.cp)) = 4)
    BY <1>2, UnitsAre, SMT
  <2> QED
    <3>1. Len(Utf16(char.cp)) \in Nat \ {0}
      <4>1. \A l : l = 2 \/ l = 4 => l \in Nat \ {0}
        BY SMT
      <4> QED
        BY <2>2, <4>1
    <3> QED
      BY <2>1, <2>2, <3>1, Zenon
<1>5. CASE e = "8BIT"
  <2>1. Code(e, s, p) = SubSeq(s, p, p + char.len - 1)
    BY <1>5, SMT DEF Code
  <2>2. \A l \in 1..4 : p + l - 1 <= Len(s) =>
            SubSeq(s, p, p + l - 1) \in Seq(Nat) /\ Len(SubSeq(s, p, p + l - 1)) \in Nat \ {0}
    BY SMT
  <2> QED
    BY <1>2, <2>1, <2>2
<1> QED
  BY <1>3, <1>4, <1>5, SMT DEF Encodings

\* The encoder writes the code of the next character.
LEMMA LinkGrows ==
    ASSUME NEW e \in Encodings, NEW s \in Seq(Nat), NEW at \in 1..Len(s), NEW stream \in Seq(Nat),
           Utf8Next(s, at).len # 0, e = "GSM7" => SeptetsOf(Utf8Next(s, at).cp) # <<>>,
           NEW M, Linked(e, s, stream, at, M)
    PROVE  \E N : Linked(e, s, stream \o Code(e, s, at), at + Utf8Next(s, at).len, N)
<1> DEFINE code == Code(e, s, at)
           longer == stream \o code
           next == <<at + Utf8Next(s, at).len, Len(stream) + 1 + Len(code)>>
           N == M \cup {next}
<1>1. code \in Seq(Nat) /\ Len(code) \in Nat \ {0}
  BY CodeIs
<1> HIDE DEF code
<1>2. /\ longer \in Seq(Nat) /\ Len(longer) = Len(stream) + Len(code)
      /\ \A i \in 1..(Len(stream) + Len(code)) :
            longer[i] = IF i <= Len(stream) THEN stream[i] ELSE code[i - Len(stream)]
  BY <1>1, Concatenated
<1>3. Len(stream) \in Nat /\ at \in Nat /\ Len(s) \in Nat
  BY SMT
<1>4. /\ Len(longer) + 1 = Len(stream) + 1 + Len(code)
      /\ Len(stream) + 1 \in 1..Len(longer)
  BY <1>1, <1>2, <1>3, SMT
<1>5. Stands(longer, Len(stream) + 1, code)
  <2>1. (Len(stream) + 1) + Len(code) - 1 <= Len(longer)
    BY <1>1, <1>2, <1>3, SMT
  <2>2. ASSUME NEW i \in 1..Len(code) PROVE longer[(Len(stream) + 1) + i - 1] = code[i]
    <3> DEFINE j == (Len(stream) + 1) + i - 1
    <3>1. j \in 1..(Len(stream) + Len(code)) /\ ~(j <= Len(stream)) /\ j - Len(stream) = i
      BY <1>1, <1>3, SMT
    <3> HIDE DEF j
    <3>2. longer[j] = code[i]
      BY <1>2, <3>1, SMT
    <3> QED
      BY <3>2 DEF j
  <2> QED
    BY <2>1, <2>2 DEF Stands
<1>6. ASSUME NEW q \in Nat, NEW c, Len(c) \in Nat, Stands(stream, q, c), q >= 1
      PROVE  Stands(longer, q, c)
  <2>1. q + Len(c) - 1 <= Len(longer)
    BY <1>1, <1>2, <1>3, <1>6, SMT DEF Stands
  <2>2. ASSUME NEW i \in 1..Len(c) PROVE longer[q + i - 1] = c[i]
    <3> DEFINE j == q + i - 1
    <3>1. stream[j] = c[i] /\ q + Len(c) - 1 <= Len(stream)
      BY <1>6 DEF Stands
    <3>2. j \in 1..(Len(stream) + Len(code)) /\ j <= Len(stream)
      <4>1. i \in Nat /\ 1 <= i /\ i <= Len(c)
        BY <1>6, <2>2, SMT
      <4>2. j \in Nat /\ 1 <= j /\ j <= Len(stream)
        BY <1>3, <1>6, <3>1, <4>1, SMT
      <4> HIDE DEF j
      <4> QED
        BY <1>1, <1>3, <4>2, SMT
    <3> HIDE DEF j
    <3>3. longer[j] = stream[j]
      BY <1>2, <3>2, SMT
    <3> QED
      BY <3>1, <3>3 DEF j
  <2> QED
    BY <2>1, <2>2 DEF Stands
<1> HIDE DEF longer
<1>7. ASSUME NEW p \in Nat, NEW q \in Nat, Passed(e, s, stream, M, p, q)
      PROVE  Passed(e, s, longer, N, p, q)
  <2>1. q \in 1..Len(longer) /\ q >= 1
    BY <1>1, <1>2, <1>3, <1>7, SMT DEF Passed
  <2>2. Stands(longer, q, Code(e, s, p))
    BY <1>6, <1>7, <2>1 DEF Passed
  <2> QED
    BY <1>7, <2>1, <2>2 DEF Passed
<1>8. Passed(e, s, longer, N, at, Len(stream) + 1)
  BY <1>1, <1>4, <1>5 DEF Passed, code
<1>9. ASSUME NEW p \in Nat, NEW q \in Nat, <<p, q>> \in N
      PROVE  \/ p = at + Utf8Next(s, at).len /\ q = Len(longer) + 1
             \/ Passed(e, s, longer, N, p, q)
  <2>1. CASE <<p, q>> = next
    BY <1>4, <2>1
  <2>2. CASE <<p, q>> \in M
    <3>1. (p = at /\ q = Len(stream) + 1) \/ Passed(e, s, stream, M, p, q)
      BY <2>2 DEF Linked
    <3> QED
      BY <1>7, <1>8, <3>1
  <2> QED
    BY <1>9, <2>1, <2>2
<1>10. Linked(e, s, longer, at + Utf8Next(s, at).len, N)
  <2>1. <<1, 1>> \in N
    BY DEF Linked
  <2> HIDE DEF N
  <2> QED
    BY <1>9, <2>1 DEF Linked
<1> QED
  BY <1>10 DEF longer, code

\* Where the decoder finds something left to read there is a character, and
\* where it does not it has come to the end of the text.
LEMMA MarkRead ==
    ASSUME NEW e, NEW s, NEW stream, Len(stream) \in Nat, NEW M,
           NEW at, Linked(e, s, stream, at, M),
           NEW p \in Nat, NEW q \in Nat, <<p, q>> \in M
    PROVE  /\ q <= Len(stream) => Passed(e, s, stream, M, p, q)
           /\ ~(q <= Len(stream)) => p = at
<1>1. (p = at /\ q = Len(stream) + 1) \/ Passed(e, s, stream, M, p, q)
  BY DEF Linked
<1>2. CASE p = at /\ q = Len(stream) + 1
  BY <1>2, SMT
<1>3. CASE Passed(e, s, stream, M, p, q)
  <2>1. q <= Len(stream)
    BY <1>3, SMT DEF Passed
  <2> QED
    BY <1>3, <2>1, SMT
<1> QED
  BY <1>1, <1>2, <1>3

\* The decoder writes that character behind the text before it.
LEMMA TextGrows ==
    ASSUME NEW s \in Seq(Nat), NEW p \in 1..Len(s), Utf8Next(s, p).len # 0
    PROVE  LET n == p + Utf8Next(s, p).len IN
           /\ n \in 1..(Len(s) + 1)
           /\ SubSeq(s, 1, p - 1) \o Utf8(Utf8Next(s, p).cp) = SubSeq(s, 1, n - 1)
<1> DEFINE l == Utf8Next(s, p).len
<1>1. /\ l \in 1..4 /\ p + l - 1 <= Len(s)
      /\ Utf8(Utf8Next(s, p).cp) = SubSeq(s, p, p + l - 1)
  BY CharBack DEF CharAt
<1>2. \A k \in 1..4 : p + k - 1 <= Len(s) =>
        /\ p + k \in 1..(Len(s) + 1)
        /\ SubSeq(s, 1, p - 1) \o SubSeq(s, p, p + k - 1) = SubSeq(s, 1, (p + k) - 1)
  <2> SUFFICES ASSUME NEW k \in 1..4, p + k - 1 <= Len(s)
               PROVE  /\ p + k \in 1..(Len(s) + 1)
                      /\ SubSeq(s, 1, p - 1) \o SubSeq(s, p, p + k - 1) = SubSeq(s, 1, (p + k) - 1)
    OBVIOUS
  <2> DEFINE a == SubSeq(s, 1, p - 1)
             b == SubSeq(s, p, p + k - 1)
             c == SubSeq(s, 1, (p + k) - 1)
  <2>1. p \in Nat /\ k \in Nat /\ Len(s) \in Nat /\ \A i \in 1..Len(s) : s[i] \in Nat
    BY SMT
  <2>2. a \in Seq(Nat) /\ Len(a) = p - 1 /\ \A i \in 1..(p - 1) : a[i] = s[i]
    BY <2>1, SMT
  <2>3. b \in Seq(Nat) /\ Len(b) = k /\ \A i \in 1..k : b[i] = s[p + i - 1]
    BY <2>1, SMT
  <2>4. c \in Seq(Nat) /\ Len(c) = (p + k) - 1 /\ \A i \in 1..((p + k) - 1) : c[i] = s[i]
    BY <2>1, SMT
  <2> HIDE DEF a, b, c
  <2>5. /\ a \o b \in Seq(Nat) /\ Len(a \o b) = Len(a) + Len(b)
        /\ \A i \in 1..(Len(a) + Len(b)) : (a \o b)[i] = IF i <= Len(a) THEN a[i] ELSE b[i - Len(a)]
    <3>1. a \in Seq(Nat) /\ b \in Seq(Nat)
      BY <2>2, <2>3
    <3> QED
      BY <3>1, Concatenated
  <2>6. Len(a \o b) = Len(c)
    BY <2>1, <2>2, <2>3, <2>4, <2>5, SMT
  <2>7. ASSUME NEW i \in 1..Len(c) PROVE (a \o b)[i] = c[i]
    <3>1. i \in 1..(Len(a) + Len(b)) /\ i \in 1..((p + k) - 1)
      BY <2>1, <2>2, <2>3, <2>4, <2>7, SMT
    <3>2. CASE i <= Len(a)
      <4>1. i \in 1..(p - 1)
        BY <2>1, <2>2, <3>1, <3>2, SMT
      <4> QED
        BY <2>2, <2>4, <2>5, <3>1, <3>2, <4>1, SMT
    <3>3. CASE ~(i <= Len(a))
      <4> DEFINE j == i - Len(a)
      <4>1. j \in 1..k /\ p + j - 1 = i
        BY <2>1, <2>2, <2>3, <3>1, <3>3, SMT
      <4>2. (a \o b)[i] = b[j]
        BY <2>5, <3>1, <3>3, SMT
      <4> HIDE DEF j
      <4>3. b[j] = s[p + j - 1]
        BY <2>3, <4>1
      <4> QED
        <5>1. c[i] = s[i]
          BY <2>4, <3>1
        <5> QED
          BY <4>1, <4>2, <4>3, <5>1, Zenon
    <3> QED
      BY <3>2, <3>3
  <2>8. a \o b = c
    BY <2>4, <2>5, <2>6, <2>7, SeqEqual
  <2>9. p + k \in 1..(Len(s) + 1)
    BY <2>1, SMT
  <2> QED
    BY <2>8, <2>9 DEF a, b, c
<1> QED
  BY <1>1, <1>2

-----------------------------------------------------------------------------
(* The invariant                                                           *)

Clear == encoding # "GSM7" \/ ~(\E cp \in Ambiguous : Reads(utf8, cp))
Stream == IF encoding = "GSM7" THEN septets \o todo ELSE data

\* Where the decoder is in the stream: behind an escape it is still at the
\* character the escape belongs to.
Reached ==
    IF encoding # "GSM7" THEN pos ELSE IF escaped THEN Len(seen) ELSE Len(seen) + 1
AtMark(M, p) ==
    p \in 1..(Len(utf8) + 1) /\ <<p, Reached>> \in M /\ text = SubSeq(utf8, 1, p - 1)

\* Text and stream are lined up as far as the encoder is; the decoder stands at
\* a mark and has written the text before it.
Aligned ==
    /\ encoding # "GSM7" => data \in Seq(Nat) /\ todo = <<>>
    /\ escaped \in BOOLEAN
    /\ pc \in {"detect", "encode", "encoded"} => text = <<>> /\ escaped = FALSE
    /\ pc \in {"detect", "encode"} => pos \in 1..(Len(utf8) + 1)
    /\ pc \in {"encoded", "decode"} => todo = <<>>
    /\ pc = "encode" => \E M : Linked(encoding, utf8, Stream, pos, M)
    /\ pc = "encoded" => \E M : Linked(encoding, utf8, Stream, Len(utf8) + 1, M)
    /\ pc = "decode" /\ Clear =>
          \E M : /\ Linked(encoding, utf8, Stream, Len(utf8) + 1, M)
                 /\ \E p \in Nat : AtMark(M, p)
    /\ pc = "decode" /\ encoding = "GSM7" /\ escaped =>
          Len(seen) > 0 /\ septets[Len(seen)] = Escape
    /\ RoundTrip

LEMMA StreamIs ==
    ASSUME Packing, Aligned
    PROVE  Stream \in Seq(Nat) /\ Len(Stream) \in Nat /\ Len(utf8) \in Nat
<1>1. Septets \subseteq Nat
  BY SMT DEF Septets
<1>2. septets \in Seq(Septets) /\ todo \in Seq(Septets)
  BY DEF Packing, TypeOK
<1>3. septets \in Seq(Nat) /\ todo \in Seq(Nat)
  BY <1>1, <1>2, SeqMonotonic
<1>4. septets \o todo \in Seq(Nat)
  BY <1>3, Concatenated
<1>5. Stream \in Seq(Nat)
  BY <1>4 DEF Stream, Aligned
<1>6. \A s \in Seq(Nat) : Len(s) \in Nat
  OBVIOUS
<1> QED
  BY <1>5, <1>6, InputIs

\* At the start there is one mark.
LEMMA LinkStart ==
    ASSUME NEW e, NEW s PROVE \E M : Linked(e, s, <<>>, 1, M)
<1> DEFINE M == {<<1, 1>>}
<1>1. Len(<<>>) + 1 = 1
  BY SMT
<1>2. \A p, q \in Nat : <<p, q>> \in M => p = 1 /\ q = 1
  BY SMT
<1>3. Linked(e, s, <<>>, 1, M)
  BY <1>1, <1>2, Zenon DEF Linked
<1> QED
  BY <1>3

LEMMA EmptyJoined == <<>> \o <<>> = <<>>
  BY EmptySeq, ConcatEmptySeq

LEMMA AlignedInit == Init => Aligned
<1> SUFFICES ASSUME Init PROVE Aligned
  OBVIOUS
<1>1. /\ data = <<>> /\ septets = <<>> /\ todo = <<>> /\ text = <<>> /\ escaped = FALSE
      /\ pos = 1 /\ pc \in {"detect", "encode"}
  BY SMT DEF Init
<1>2. Stream = <<>>
  BY <1>1, EmptyJoined, Zenon DEF Stream
<1>3. utf8 \in Seq(1..255)
  BY InputsAssumption DEF Init
<1>4. pos \in 1..(Len(utf8) + 1)
  BY <1>1, <1>3, SMT
<1>5. \E M : Linked(encoding, utf8, Stream, pos, M)
  BY <1>1, <1>2, LinkStart, Zenon
<1>6. data \in Seq(Nat)
  BY <1>1, EmptySeq, Zenon
<1>7. pc # "encoded" /\ pc # "decode" /\ pc # "done" /\ pc # "refused"
  BY <1>1, SMT
<1> QED
  BY <1>1, <1>4, <1>5, <1>6, <1>7, Zenon DEF Aligned, RoundTrip

LEMMA AlignedStutter == Aligned /\ UNCHANGED vars => Aligned'
<1> SUFFICES ASSUME Aligned, UNCHANGED vars PROVE Aligned'
  OBVIOUS
<1>1. /\ utf8' = utf8 /\ encoding' = encoding /\ pc' = pc /\ pos' = pos /\ todo' = todo
      /\ data' = data /\ septets' = septets /\ seen' = seen /\ escaped' = escaped /\ text' = text
  BY DEF vars
<1>2. Stream' = Stream /\ Reached' = Reached /\ Clear' = Clear /\ RoundTrip' = RoundTrip
  BY <1>1, Zenon DEF Stream, Reached, Clear, RoundTrip
<1>3. \A M, p : AtMark(M, p)' = AtMark(M, p)
  BY <1>1, <1>2, Zenon DEF AtMark
<1> QED
  BY <1>1, <1>2, <1>3, Zenon DEF Aligned

\* A call that fails leaves everything else as it is.  The decoder fails only
\* where the text is not clear.
LEMMA AlignedFail ==
    ASSUME Aligned, NEW result, Fail(result), pc = "decode" => ~Clear
    PROVE  Aligned'
<1>1. /\ utf8' = utf8 /\ encoding' = encoding /\ data' = data /\ todo' = todo /\ escaped' = escaped
      /\ pc' = IF pc = "decode" THEN "refused" ELSE "failed"
  BY DEF Fail
<1>2. /\ pc' # "detect" /\ pc' # "encode" /\ pc' # "encoded" /\ pc' # "decode" /\ pc' # "done"
      /\ pc' = "refused" => pc = "decode"
  BY <1>1, SMT
<1>3. Clear' = Clear
  BY <1>1, Zenon DEF Clear
<1>4. RoundTrip'
  BY <1>2, <1>3, Zenon DEF RoundTrip, Clear
<1>5. (encoding # "GSM7" => data \in Seq(Nat) /\ todo = <<>>)' /\ (escaped \in BOOLEAN)'
  BY <1>1, Zenon DEF Aligned
<1> QED
  BY <1>2, <1>4, <1>5, SMT DEF Aligned

\* A call that goes on encoding needs only its own marks.
LEMMA AlignedEncode ==
    ASSUME Packing, Packing', Aligned, pc' \in {"detect", "encode", "encoded"},
           utf8' = utf8, text' = text, escaped' = escaped, pc \in {"detect", "encode"},
           (encoding # "GSM7")' => (data \in Seq(Nat))' /\ todo' = <<>>,
           pc' \in {"detect", "encode"} => pos' \in 1..(Len(utf8) + 1),
           pc' = "encoded" => todo' = <<>>,
           pc' = "encode" => \E M : Linked(encoding', utf8, Stream', pos', M),
           pc' = "encoded" => \E M : Linked(encoding', utf8, Stream', Len(utf8) + 1, M)
    PROVE  Aligned'
<1>1. text = <<>> /\ escaped = FALSE
  BY SMT DEF Aligned
<1>2. pc' # "decode" /\ pc' # "done" /\ pc' # "refused"
  BY SMT
<1>3. RoundTrip'
  BY <1>2, Zenon DEF RoundTrip
<1> QED
  BY <1>1, <1>2, <1>3, SMT DEF Aligned

\* Before the first character the stream is empty.
LEMMA NothingYet ==
    ASSUME Packing, pc = "detect"
    PROVE  todo = <<>> /\ data = <<>> /\ septets = <<>>
  BY DEF Packing, Resting

LEMMA DetectCharAligned == Packing /\ Packing' /\ Aligned /\ DetectChar => Aligned'
<1> SUFFICES ASSUME Packing, Packing', Aligned, DetectChar PROVE Aligned'
  OBVIOUS
<1> DEFINE char == Utf8Next(utf8, pos)
<1>1. CASE Fail("invalid utf8")
  <2>1. pc # "decode"
    <3>1. pc = "detect"
      BY Zenon DEF DetectChar
    <3> QED
      BY <3>1
  <2> QED
    BY <1>1, <2>1, AlignedFail
<1>2. CASE ~Fail("invalid utf8")
  <2>1. /\ pc = "detect" /\ pos <= Len(utf8) /\ char.len > 0
        /\ UNCHANGED <<utf8, auto, size, todo, bits, data, septets, seen, escaped, text, why>>
        /\ IF auto /\ SeptetsOf(char.cp) = <<>>
           THEN encoding' = "UCS2" /\ pc' = "encode" /\ pos' = 1
           ELSE pos' = pos + char.len /\ UNCHANGED <<encoding, pc>>
    BY <1>2, Zenon DEF DetectChar
  <2>2. utf8 \in Seq(Nat) /\ Len(utf8) \in Nat /\ pos \in 1..(Len(utf8) + 1)
    BY <2>1, InputIs, StreamIs, Zenon DEF Aligned
  <2>3. pos \in 1..Len(utf8) /\ char.len # 0
    BY <2>1, <2>2, SMT
  <2>4. CharAt(utf8, pos)
    BY <2>2, <2>3, CharBack
  <2>5. char.len \in 1..4 /\ pos + char.len - 1 <= Len(utf8)
    BY <2>4, Zenon DEF CharAt
  <2>6. \A l \in 1..4 : pos + l - 1 <= Len(utf8) => pos + l \in 1..(Len(utf8) + 1)
    BY <2>2, SMT
  <2>7. pos + char.len \in 1..(Len(utf8) + 1) /\ 1 \in 1..(Len(utf8) + 1)
    <3>1. 1 \in 1..(Len(utf8) + 1)
      BY <2>2, SMT
    <3> QED
      BY <2>5, <2>6, <3>1, Zenon
  <2>8. todo' = <<>> /\ data' = <<>> /\ septets' = <<>> /\ <<>> \in Seq(Nat)
    BY <2>1, NothingYet, EmptySeq, Zenon
  <2>9. Stream' = <<>>
    BY <2>8, EmptyJoined, Zenon DEF Stream
  <2>10. CASE auto /\ SeptetsOf(char.cp) = <<>>
    <3>1. pc' = "encode" /\ pos' = 1
      BY <2>1, <2>10, Zenon
    <3>2. \E M : Linked(encoding', utf8, Stream', pos', M)
      BY <2>9, <3>1, LinkStart, Zenon
    <3>3. pos' \in 1..(Len(utf8) + 1) /\ pc' # "encoded" /\ utf8' = utf8 /\ text' = text /\ escaped' = escaped
      BY <2>1, <2>7, <3>1, SMT
    <3> QED
      BY <2>1, <2>8, <3>1, <3>2, <3>3, AlignedEncode
  <2>11. CASE ~(auto /\ SeptetsOf(char.cp) = <<>>)
    <3>1. pc' = "detect" /\ pos' = pos + char.len
      BY <2>1, <2>11, Zenon
    <3>2. pos' \in 1..(Len(utf8) + 1) /\ utf8' = utf8 /\ text' = text /\ escaped' = escaped
      BY <2>1, <2>7, <3>1, Zenon
    <3>3. pc' # "encoded" /\ pc' # "encode"
      BY <3>1
    <3> QED
      BY <2>1, <2>8, <3>1, <3>2, <3>3, AlignedEncode
  <2> QED
    BY <2>10, <2>11
<1> QED
  BY <1>1, <1>2

LEMMA EndDetectAligned == Packing /\ Packing' /\ Aligned /\ EndDetect => Aligned'
<1> SUFFICES ASSUME Packing, Packing', Aligned, EndDetect PROVE Aligned'
  OBVIOUS
<1>1. /\ pc = "detect" /\ pc' = "encode" /\ pos' = 1
      /\ utf8' = utf8 /\ text' = text /\ escaped' = escaped
      /\ todo' = <<>> /\ data' = <<>> /\ septets' = <<>>
  BY NothingYet DEF EndDetect
<1>2. Stream' = <<>> /\ <<>> \in Seq(Nat)
  BY <1>1, EmptyJoined, EmptySeq, Zenon DEF Stream
<1>3. pos' \in 1..(Len(utf8) + 1)
  BY <1>1, StreamIs, SMT
<1>4. \E M : Linked(encoding', utf8, Stream', pos', M)
  BY <1>1, <1>2, LinkStart, Zenon
<1>5. pc' # "encoded"
  BY <1>1
<1> QED
  BY <1>1, <1>2, <1>3, <1>4, <1>5, AlignedEncode

\* What the encoder does with a character lines it up with its code.
LEMMA CharLinked ==
    ASSUME Packing, Aligned, pc = "encode", pos <= Len(utf8), Utf8Next(utf8, pos).len > 0,
           encoding = "GSM7" => SeptetsOf(Utf8Next(utf8, pos).cp) # <<>>
    PROVE  /\ pos + Utf8Next(utf8, pos).len \in 1..(Len(utf8) + 1)
           /\ Code(encoding, utf8, pos) \in Seq(Nat)
           /\ \E M : Linked(encoding, utf8, Stream \o Code(encoding, utf8, pos),
                            pos + Utf8Next(utf8, pos).len, M)
<1>1. utf8 \in Seq(Nat) /\ Len(utf8) \in Nat /\ Stream \in Seq(Nat) /\ pos \in 1..(Len(utf8) + 1)
  BY InputIs, StreamIs, Zenon DEF Aligned
<1>2. pos \in 1..Len(utf8) /\ Utf8Next(utf8, pos).len # 0
  BY <1>1, SMT
<1>3. encoding \in Encodings
  BY DEF Packing, TypeOK
<1>4. PICK M : Linked(encoding, utf8, Stream, pos, M)
  BY Zenon DEF Aligned
<1>5. \E N : Linked(encoding, utf8, Stream \o Code(encoding, utf8, pos),
                    pos + Utf8Next(utf8, pos).len, N)
  BY <1>1, <1>2, <1>3, <1>4, LinkGrows
<1>6. Code(encoding, utf8, pos) \in Seq(Nat)
  BY <1>1, <1>2, <1>3, CodeIs
<1>7. pos + Utf8Next(utf8, pos).len \in 1..(Len(utf8) + 1)
  BY <1>1, <1>2, TextGrows
<1> QED
  BY <1>5, <1>6, <1>7

LEMMA ReadCharAligned == Packing /\ Packing' /\ Aligned /\ ReadChar => Aligned'
<1> SUFFICES ASSUME Packing, Packing', Aligned, ReadChar PROVE Aligned'
  OBVIOUS
<1> DEFINE char == Utf8Next(utf8, pos)
<1>1. pc = "encode" /\ encoding = "GSM7" /\ todo = <<>> /\ pos <= Len(utf8) /\ pc # "decode"
  BY DEF ReadChar, Encoding
<1>2. CASE Fail("invalid utf8") \/ Fail("unsupported")
  BY <1>1, <1>2, AlignedFail
<1>3. CASE ~(Fail("invalid utf8") \/ Fail("unsupported"))
  <2>1. /\ char.len > 0 /\ SeptetsOf(char.cp) # <<>>
        /\ todo' = SeptetsOf(char.cp) /\ pos' = pos + char.len
        /\ UNCHANGED <<utf8, auto, encoding, size, pc, bits, data, septets, seen, escaped, text, why>>
    BY <1>3, Zenon DEF ReadChar
  <2>2. /\ pos' \in 1..(Len(utf8) + 1)
        /\ \E M : Linked(encoding, utf8, Stream \o Code(encoding, utf8, pos), pos', M)
    BY <1>1, <2>1, CharLinked, Zenon
  <2>3. Code(encoding, utf8, pos) = SeptetsOf(char.cp)
    BY <1>1 DEF Code
  <2>4. septets \in Seq(Septets) /\ septets \o <<>> = septets
    BY ConcatEmptySeq DEF Packing, TypeOK
  <2>5. Stream' = Stream \o Code(encoding, utf8, pos)
    BY <1>1, <2>1, <2>3, <2>4, Zenon DEF Stream
  <2>6. \E M : Linked(encoding', utf8, Stream', pos', M)
    BY <2>1, <2>2, <2>5, Zenon
  <2>7. /\ pc' = "encode" /\ encoding' = "GSM7" /\ utf8' = utf8 /\ text' = text /\ escaped' = escaped
        /\ pc' # "encoded"
    BY <1>1, <2>1
  <2> QED
    BY <1>1, <2>2, <2>6, <2>7, AlignedEncode
<1> QED
  BY <1>2, <1>3

LEMMA MoveOne ==
    ASSUME NEW a \in Seq(Nat), NEW b \in Seq(Nat), b # <<>>
    PROVE  Append(a, Head(b)) \o Tail(b) = a \o b
<1> DEFINE x == Append(a, Head(b))
           y == Tail(b)
<1>1. Len(a) \in Nat /\ Len(b) \in Nat \ {0} /\ Head(b) = b[1] /\ Head(b) \in Nat
  BY EmptySeq, HeadTailProperties
<1>2. /\ y \in Seq(Nat) /\ Len(y) = Len(b) - 1 /\ \A i \in 1..Len(y) : y[i] = b[i + 1]
  BY HeadTailProperties
<1>3. /\ x \in Seq(Nat) /\ Len(x) = Len(a) + 1 /\ x[Len(a) + 1] = b[1]
      /\ \A i \in 1..Len(a) : x[i] = a[i]
  BY <1>1, AppendProperties
<1> HIDE DEF x, y
<1>4. /\ x \o y \in Seq(Nat) /\ Len(x \o y) = Len(x) + Len(y)
      /\ \A i \in 1..(Len(x) + Len(y)) : (x \o y)[i] = IF i <= Len(x) THEN x[i] ELSE y[i - Len(x)]
  BY <1>2, <1>3, Concatenated
<1>5. /\ a \o b \in Seq(Nat) /\ Len(a \o b) = Len(a) + Len(b)
      /\ \A i \in 1..(Len(a) + Len(b)) : (a \o b)[i] = IF i <= Len(a) THEN a[i] ELSE b[i - Len(a)]
  BY Concatenated
<1>6. Len(x) + Len(y) = Len(a) + Len(b)
  BY <1>1, <1>2, <1>3, SMT
<1>7. ASSUME NEW i \in 1..(Len(a) + Len(b)) PROVE (x \o y)[i] = (a \o b)[i]
  <2>1. (x \o y)[i] = IF i <= Len(x) THEN x[i] ELSE y[i - Len(x)]
    BY <1>4, <1>6
  <2>2. (a \o b)[i] = IF i <= Len(a) THEN a[i] ELSE b[i - Len(a)]
    BY <1>5
  <2>3. CASE i <= Len(a)
    <3>1. i \in 1..Len(a) /\ i <= Len(x)
      BY <1>1, <1>3, <2>3, SMT
    <3> QED
      BY <1>3, <2>1, <2>2, <2>3, <3>1, Zenon
  <2>4. CASE i = Len(a) + 1
    <3>1. i <= Len(x) /\ ~(i <= Len(a)) /\ i - Len(a) = 1
      BY <1>1, <1>3, <2>4, SMT
    <3> QED
      BY <1>3, <2>1, <2>2, <2>4, <3>1, Zenon
  <2>5. CASE i > Len(a) + 1
    <3>1. /\ ~(i <= Len(x)) /\ ~(i <= Len(a)) /\ i - Len(x) \in 1..Len(y)
          /\ i - Len(x) + 1 = i - Len(a)
      BY <1>1, <1>2, <1>3, <2>5, SMTT(30)
    <3>2. y[i - Len(x)] = b[i - Len(x) + 1]
      BY <1>2, <3>1, Zenon
    <3> QED
      BY <2>1, <2>2, <3>1, <3>2, Zenon
  <2>6. i <= Len(a) \/ i = Len(a) + 1 \/ i > Len(a) + 1
    BY <1>1, SMT
  <2> QED
    BY <2>3, <2>4, <2>5, <2>6
<1>8. x \o y = a \o b
  BY <1>4, <1>5, <1>6, <1>7, SeqEqual
<1> QED
  BY <1>8 DEF x, y

LEMMA PutSeptetAligned == Packing /\ Packing' /\ Aligned /\ PutSeptet => Aligned'
<1> SUFFICES ASSUME Packing, Packing', Aligned, PutSeptet PROVE Aligned'
  OBVIOUS
<1>1. pc = "encode" /\ encoding = "GSM7" /\ todo # <<>> /\ pc # "decode"
  BY DEF PutSeptet, Encoding
<1>2. CASE Fail("no space")
  BY <1>1, <1>2, AlignedFail
<1>3. CASE ~Fail("no space")
  <2>1. /\ septets' = Append(septets, Head(todo)) /\ todo' = Tail(todo)
        /\ UNCHANGED <<utf8, auto, encoding, size, pc, pos, seen, escaped, text, why>>
    BY <1>3, Zenon DEF PutSeptet
  <2>2. septets \in Seq(Nat) /\ todo \in Seq(Nat)
    <3>1. Septets \subseteq Nat
      BY SMT DEF Septets
    <3>2. septets \in Seq(Septets) /\ todo \in Seq(Septets)
      BY DEF Packing, TypeOK
    <3> QED
      BY <3>1, <3>2, SeqMonotonic
  <2>3. Append(septets, Head(todo)) \o Tail(todo) = septets \o todo
    BY <1>1, <2>2, MoveOne
  <2>4. Stream' = Stream
    BY <1>1, <2>1, <2>3, Zenon DEF Stream
  <2>5. \E M : Linked(encoding', utf8, Stream', pos', M)
    BY <1>1, <2>1, <2>4, Zenon DEF Aligned
  <2>6. pos' \in 1..(Len(utf8) + 1)
    BY <1>1, <2>1 DEF Aligned
  <2>7. /\ pc' = "encode" /\ encoding' = "GSM7" /\ utf8' = utf8 /\ text' = text /\ escaped' = escaped
        /\ pc' # "encoded"
    BY <1>1, <2>1
  <2> QED
    BY <1>1, <2>5, <2>6, <2>7, AlignedEncode
<1> QED
  BY <1>2, <1>3

LEMMA EndPackAligned == Packing /\ Packing' /\ Aligned /\ EndPack => Aligned'
<1> SUFFICES ASSUME Packing, Packing', Aligned, EndPack PROVE Aligned'
  OBVIOUS
<1>1. pc = "encode" /\ encoding = "GSM7" /\ todo = <<>> /\ pos > Len(utf8) /\ pc # "decode"
  BY DEF EndPack, Encoding
<1>2. CASE Fail("no space")
  BY <1>1, <1>2, AlignedFail
<1>3. CASE ~Fail("no space")
  <2>1. /\ pc' = "encoded"
        /\ UNCHANGED <<utf8, auto, encoding, size, pos, todo, septets, seen, escaped, text, why>>
    BY <1>3, Zenon DEF EndPack
  <2>2. pos = Len(utf8) + 1
    <3>1. pos \in 1..(Len(utf8) + 1) /\ Len(utf8) \in Nat
      BY <1>1, StreamIs DEF Aligned
    <3> QED
      BY <1>1, <3>1, SMT
  <2>3. Stream' = Stream
    BY <1>1, <2>1, Zenon DEF Stream
  <2>4. \E M : Linked(encoding', utf8, Stream', Len(utf8) + 1, M)
    BY <1>1, <2>1, <2>2, <2>3, Zenon DEF Aligned
  <2>5. /\ pc' # "encode" /\ pc' # "detect" /\ encoding' = "GSM7" /\ todo' = <<>>
        /\ utf8' = utf8 /\ text' = text /\ escaped' = escaped
    BY <1>1, <2>1
  <2> QED
    BY <1>1, <2>1, <2>4, <2>5, AlignedEncode
<1> QED
  BY <1>2, <1>3

LEMMA PutCharAligned == Packing /\ Packing' /\ Aligned /\ PutChar => Aligned'
<1> SUFFICES ASSUME Packing, Packing', Aligned, PutChar PROVE Aligned'
  OBVIOUS
<1> DEFINE char == Utf8Next(utf8, pos)
<1>1. pc = "encode" /\ encoding # "GSM7" /\ pos <= Len(utf8) /\ pc # "decode"
  BY DEF PutChar
<1>2. CASE Fail("invalid utf8") \/ Fail("no space")
  BY <1>1, <1>2, AlignedFail
<1>3. CASE ~(Fail("invalid utf8") \/ Fail("no space"))
  <2>1. /\ char.len > 0 /\ data' = data \o Chunk(char) /\ pos' = pos + char.len
        /\ UNCHANGED <<utf8, auto, encoding, size, pc, todo, bits, septets, seen, escaped, text, why>>
    BY <1>3, Zenon DEF PutChar
  <2>2. /\ pos' \in 1..(Len(utf8) + 1) /\ Code(encoding, utf8, pos) \in Seq(Nat)
        /\ \E M : Linked(encoding, utf8, Stream \o Code(encoding, utf8, pos), pos', M)
    BY <1>1, <2>1, CharLinked, Zenon
  <2>3. Chunk(char) = Code(encoding, utf8, pos)
    BY <1>1, SMT DEF Code, Chunk
  <2>4. Stream = data /\ Stream' = data'
    BY <1>1, <2>1, Zenon DEF Stream
  <2>5. data' = Stream \o Code(encoding, utf8, pos)
    BY <2>1, <2>3, <2>4, Zenon
  <2>6. data' \in Seq(Nat)
    BY <2>2, <2>5, StreamIs, Concatenated
  <2>7. \E M : Linked(encoding', utf8, Stream', pos', M)
    BY <2>1, <2>2, <2>4, <2>5, Zenon
  <2>8. /\ pc' = "encode" /\ utf8' = utf8 /\ text' = text /\ escaped' = escaped /\ pc' # "encoded"
        /\ todo' = <<>>
    BY <1>1, <2>1 DEF Aligned
  <2> QED
    BY <1>1, <2>2, <2>6, <2>7, <2>8, AlignedEncode
<1> QED
  BY <1>2, <1>3

LEMMA EndEncodeAligned == Packing /\ Packing' /\ Aligned /\ EndEncode => Aligned'
<1> SUFFICES ASSUME Packing, Packing', Aligned, EndEncode PROVE Aligned'
  OBVIOUS
<1>1. /\ pc = "encode" /\ encoding # "GSM7" /\ pos > Len(utf8) /\ pc' = "encoded"
      /\ UNCHANGED <<utf8, auto, encoding, size, pos, todo, bits, data, septets, seen, escaped, text, why>>
  BY DEF EndEncode
<1>2. pos = Len(utf8) + 1
  <2>1. pos \in 1..(Len(utf8) + 1) /\ Len(utf8) \in Nat
    BY <1>1, StreamIs DEF Aligned
  <2> QED
    BY <1>1, <2>1, SMT
<1>3. Stream' = Stream /\ data' \in Seq(Nat)
  BY <1>1, Zenon DEF Stream, Aligned
<1>4. \E M : Linked(encoding', utf8, Stream', Len(utf8) + 1, M)
  BY <1>1, <1>2, <1>3, Zenon DEF Aligned
<1>5. /\ pc' # "encode" /\ pc' # "detect" /\ utf8' = utf8 /\ text' = text /\ escaped' = escaped
  BY <1>1
<1>6. todo' = <<>>
  BY <1>1 DEF Aligned
<1> QED
  BY <1>1, <1>3, <1>4, <1>5, <1>6, AlignedEncode

\* What was not clear from the start need not be lined up.
LEMMA AlignedDecode ==
    ASSUME Packing, Packing', Aligned, pc \in {"encoded", "decode"}, pc' \in {"decode", "done"},
           utf8' = utf8, encoding' = encoding, data' = data, todo' = todo, septets' = septets,
           escaped' \in BOOLEAN,
           pc' = "done" /\ Clear => text' = utf8,
           pc' = "decode" /\ Clear =>
               \E M : /\ Linked(encoding, utf8, Stream, Len(utf8) + 1, M)
                      /\ \E p \in Nat : AtMark(M, p)',
           pc' = "decode" /\ encoding = "GSM7" /\ escaped' =>
               Len(seen') > 0 /\ septets[Len(seen')] = Escape
    PROVE  Aligned'
<1>1. pc' # "detect" /\ pc' # "encode" /\ pc' # "encoded" /\ pc' # "refused"
  BY SMT
<1>2. todo = <<>>
  BY DEF Aligned
<1>3. Clear' = Clear /\ Stream' = Stream
  BY Zenon DEF Clear, Stream
<1>4. RoundTrip'
  BY <1>1, <1>3, Zenon DEF RoundTrip, Clear
<1>5. (encoding # "GSM7" => data \in Seq(Nat) /\ todo = <<>>)'
  BY Zenon DEF Aligned
<1>6. (pc = "decode" /\ Clear =>
          \E M : /\ Linked(encoding, utf8, Stream, Len(utf8) + 1, M)
                 /\ \E p \in Nat : AtMark(M, p))'
  BY <1>3, Zenon
<1>7. (pc = "decode" /\ encoding = "GSM7" /\ escaped =>
          Len(seen) > 0 /\ septets[Len(seen)] = Escape)'
  BY Zenon
<1> QED
  BY <1>1, <1>2, <1>4, <1>5, <1>6, <1>7, Zenon DEF Aligned

\* A GSM7 stream that is complete has no septets left over.
LEMMA StreamSeptets ==
    ASSUME Packing, Aligned, pc \in {"encoded", "decode"}, encoding = "GSM7"
    PROVE  Stream = septets
<1>1. septets \in Seq(Septets) /\ todo = <<>>
  BY DEF Packing, TypeOK, Aligned
<1> QED
  BY <1>1, ConcatEmptySeq DEF Stream

LEMMA StartDecodeAligned ==
    Packing /\ Packing' /\ SeptetsSurvive' /\ Aligned /\ StartDecode => Aligned'
<1> SUFFICES ASSUME Packing, Packing', SeptetsSurvive', Aligned, StartDecode PROVE Aligned'
  OBVIOUS
<1>1. /\ pc = "encoded" /\ pos' = 1
      /\ UNCHANGED <<utf8, auto, encoding, size, todo, bits, data, septets, seen, escaped, text>>
      /\ pc' \in {"refused", "decode"} /\ (pc' = "refused" => encoding = "GSM7")
      /\ why' = IF pc' = "refused" THEN "invalid hex" ELSE why
  <2>1. /\ pc = "encoded" /\ pos' = 1
        /\ UNCHANGED <<utf8, auto, encoding, size, todo, bits, data, septets, seen, escaped, text>>
        /\ pc' = IF encoding = "GSM7" /\ 8 * Octets(Len(septets)) # Len(data)
                 THEN "refused" ELSE "decode"
        /\ why' = IF pc' = "refused" THEN "invalid hex" ELSE why
    BY Zenon DEF StartDecode
  <2>2. CASE encoding = "GSM7" /\ 8 * Octets(Len(septets)) # Len(data)
    <3>1. pc' = "refused"
      BY <2>1, <2>2, Zenon
    <3> QED
      BY <2>1, <2>2, <3>1, Zenon
  <2>3. CASE ~(encoding = "GSM7" /\ 8 * Octets(Len(septets)) # Len(data))
    <3>1. pc' = "decode"
      BY <2>1, <2>3, Zenon
    <3>2. pc' # "refused"
      BY <3>1
    <3> QED
      BY <2>1, <3>1, <3>2, Zenon
  <2> QED
    BY <2>2, <2>3
<1>2. pc' = "decode"
  <2>1. pc' = "refused" => encoding' = "GSM7" /\ why' = "invalid hex"
    BY <1>1
  <2> QED
    BY <1>1, <2>1 DEF SeptetsSurvive
<1>3. seen = <<>> /\ text = <<>> /\ escaped = FALSE
  BY <1>1 DEF Packing, Resting, Aligned
<1>4. PICK M : Linked(encoding, utf8, Stream, Len(utf8) + 1, M)
  BY <1>1, Zenon DEF Aligned
<1>5. Reached' = 1
  <2>1. Len(seen) + 1 = 1
    BY <1>3, SMT
  <2>2. seen' = seen /\ ~escaped' /\ pos' = 1
    BY <1>1, <1>3
  <2> QED
    BY <2>1, <2>2, Zenon DEF Reached
<1>6. AtMark(M, 1)'
  <2>1. utf8 \in Seq(Nat) /\ Len(utf8) \in Nat
    BY InputIs, StreamIs
  <2>2. 1 \in 1..(Len(utf8) + 1) /\ SubSeq(utf8, 1, 1 - 1) = <<>>
    BY <2>1, SMT
  <2>3. <<1, 1>> \in M
    BY <1>4 DEF Linked
  <2>4. utf8' = utf8 /\ text' = <<>>
    BY <1>1, <1>3
  <2> QED
    BY <1>5, <2>2, <2>3, <2>4, Zenon DEF AtMark
<1>7. /\ utf8' = utf8 /\ encoding' = encoding /\ data' = data /\ todo' = todo /\ septets' = septets
      /\ escaped' = FALSE /\ pc' # "done"
  BY <1>1, <1>2, <1>3
<1>8. 1 \in Nat
  BY SMT
<1> QED
  BY <1>1, <1>2, <1>4, <1>6, <1>7, <1>8, AlignedDecode

\* The characters of a clear text do not share their septets.
LEMMA Unshared ==
    ASSUME Packing, Aligned, Clear, encoding = "GSM7", NEW p \in 1..Len(utf8), 
           Utf8Next(utf8, p).len # 0, Len(Code(encoding, utf8, p)) \in Nat \ {0}
    PROVE  Means(Code(encoding, utf8, p), Utf8Next(utf8, p).cp)
<1>1. CharAt(utf8, p)
  BY InputIs, CharBack
<1>2. PICK c : c = Utf8Next(utf8, p).cp
  OBVIOUS
<1>3. c \in Nat
  <2>1. Scalar(c)
    BY <1>1, <1>2, Zenon DEF CharAt
  <2> QED
    BY <2>1, SMT DEF Scalar
<1>4. c \notin Ambiguous
  <2>1. ~Continues(utf8[p])
    BY <1>1, Zenon DEF CharAt
  <2>2. Reads(utf8, c)
    BY <1>2, <2>1, Zenon DEF Reads
  <2>3. ~(\E cp \in Ambiguous : Reads(utf8, cp))
    BY Zenon DEF Clear
  <2> QED
    BY <2>2, <2>3, Zenon
<1>5. Code(encoding, utf8, p) = SeptetsOf(c)
  BY <1>2, Zenon DEF Code
<1>6. SeptetsOf(c) # <<>>
  <2>1. Len(<<>>) = 0 /\ ~(0 \in Nat \ {0})
    BY SMT
  <2> QED
    BY <1>5, <2>1, Zenon
<1>7. Means(SeptetsOf(c), c)
  BY <1>3, <1>4, <1>6, SeptetsBack
<1> QED
  BY <1>2, <1>5, <1>7, Zenon

\* The next mark and the text before it.
LEMMA MarkNext ==
    ASSUME NEW s \in Seq(Nat), NEW e, NEW stream, NEW M, NEW p \in Nat, NEW q \in Nat,
           Passed(e, s, stream, M, p, q)
    PROVE  LET n == p + Utf8Next(s, p).len IN
           /\ n \in Nat /\ n \in 1..(Len(s) + 1)
           /\ SubSeq(s, 1, p - 1) \o Utf8(Utf8Next(s, p).cp) = SubSeq(s, 1, n - 1)
           /\ <<n, q + Len(Code(e, s, p))>> \in M
<1>1. p \in 1..Len(s) /\ Utf8Next(s, p).len # 0
  BY DEF Passed
<1>2. LET n == p + Utf8Next(s, p).len IN
      /\ n \in 1..(Len(s) + 1)
      /\ SubSeq(s, 1, p - 1) \o Utf8(Utf8Next(s, p).cp) = SubSeq(s, 1, n - 1)
  BY <1>1, TextGrows
<1>3. \A n \in 1..(Len(s) + 1) : n \in Nat
  BY SMT
<1> QED
  BY <1>2, <1>3 DEF Passed

LEMMA EndUnpackAligned == Packing /\ Packing' /\ Aligned /\ EndUnpack => Aligned'
<1> SUFFICES ASSUME Packing, Packing', Aligned, EndUnpack PROVE Aligned'
  OBVIOUS
<1>1. pc = "decode" /\ encoding = "GSM7" /\ Len(seen) = Len(septets)
  BY DEF EndUnpack, Decoding
<1>2. Stream = septets /\ Len(Stream) \in Nat /\ utf8 \in Seq(Nat) /\ Len(utf8) \in Nat
  BY <1>1, StreamSeptets, StreamIs, InputIs
<1>3. ASSUME Clear, escaped PROVE FALSE
  <2>1. PICK M : /\ Linked(encoding, utf8, Stream, Len(utf8) + 1, M)
                 /\ \E p \in Nat : AtMark(M, p)
    BY <1>1, <1>3, Zenon DEF Aligned
  <2>2. PICK p \in Nat : AtMark(M, p)
    BY <2>1
  <2> DEFINE q == Len(seen)
             code == Code(encoding, utf8, p)
  <2>3. <<p, q>> \in M /\ q \in Nat /\ q <= Len(Stream) /\ q >= 1 /\ septets[q] = Escape
    <3>1. <<p, q>> \in M
      BY <1>1, <1>3, <2>2, Zenon DEF AtMark, Reached
    <3>2. q > 0 /\ septets[q] = Escape
      BY <1>1, <1>3, Zenon DEF Aligned
    <3> HIDE DEF q
    <3>3. q = Len(Stream)
      BY <1>1, <1>2 DEF q
    <3> QED
      BY <1>2, <3>1, <3>2, <3>3, SMT
  <2> HIDE DEF q
  <2>4. Passed(encoding, utf8, Stream, M, p, q)
    BY <1>2, <2>1, <2>3, MarkRead
  <2>5. /\ p \in 1..Len(utf8) /\ Utf8Next(utf8, p).len # 0 /\ Len(code) \in Nat \ {0}
        /\ q + Len(code) - 1 <= Len(Stream)
        /\ \A i \in 1..Len(code) : Stream[q + i - 1] = code[i]
    BY <2>4, Zenon DEF Passed, Stands
  <2>6. Means(code, Utf8Next(utf8, p).cp)
    BY <1>1, <1>3, <2>5, Unshared
  <2> HIDE DEF code
  <2>7. code[1] = Escape
    <3>1. 1 \in 1..Len(code) /\ q + 1 - 1 = q
      BY <2>3, <2>5, SMT
    <3>2. Stream[q + 1 - 1] = code[1]
      BY <2>5, <3>1
    <3> QED
      BY <1>2, <2>3, <3>1, <3>2
  <2>8. Len(code) = 2
    BY <2>6, <2>7, Zenon DEF Means
  <2>9. q = Len(Stream)
    BY <1>1, <1>2 DEF q
  <2> QED
    BY <1>2, <2>5, <2>8, <2>9, SMT
<1>4. CASE Fail("invalid utf16")
  <2>1. escaped \/ ~Fail("invalid utf16") \/ pc' = "done"
    BY DEF EndUnpack
  <2>2. pc' # "done"
    <3>1. pc' = "refused"
      BY <1>1, <1>4, Zenon DEF Fail
    <3> QED
      BY <3>1
  <2>3. Clear => FALSE
    BY <1>3, <1>4, <2>1, <2>2
  <2> QED
    BY <1>4, <2>3, AlignedFail
<1>5. CASE ~Fail("invalid utf16")
  <2>1. /\ ~escaped /\ pc' = "done"
        /\ UNCHANGED <<utf8, auto, encoding, size, pos, todo, bits, data, septets, seen, escaped, text, why>>
    BY <1>5, Zenon DEF EndUnpack
  <2>2. ASSUME Clear PROVE text' = utf8
    <3>1. PICK M : /\ Linked(encoding, utf8, Stream, Len(utf8) + 1, M)
                   /\ \E p \in Nat : AtMark(M, p)
      BY <1>1, <2>2, Zenon DEF Aligned
    <3>2. PICK p \in Nat : AtMark(M, p)
      BY <3>1
    <3>3. <<p, Len(Stream) + 1>> \in M /\ text = SubSeq(utf8, 1, p - 1)
      BY <1>1, <1>2, <2>1, <3>2, Zenon DEF AtMark, Reached
    <3>4. PICK q \in Nat : q = Len(Stream) + 1 /\ ~(q <= Len(Stream))
      BY <1>2, SMT
    <3>5. p = Len(utf8) + 1
      <4>1. <<p, q>> \in M
        BY <3>3, <3>4
      <4>2. Linked(encoding, utf8, Stream, Len(utf8) + 1, M) /\ Len(Stream) \in Nat
        BY <1>2, <3>1
      <4> QED
        BY <3>4, <4>1, <4>2, MarkRead
    <3>6. SubSeq(utf8, 1, (Len(utf8) + 1) - 1) = utf8
      BY <1>2, SMT
    <3> QED
      BY <2>1, <3>3, <3>5, <3>6
  <2>3. escaped' \in BOOLEAN /\ pc' # "decode"
    BY <2>1 DEF Aligned
  <2> QED
    BY <1>1, <2>1, <2>2, <2>3, AlignedDecode
<1> QED
  BY <1>4, <1>5

\* The decoder reads the character the encoder wrote.
LEMMA CharRead ==
    ASSUME NEW e, e = "UCS2" \/ e = "8BIT", NEW s \in Seq(Nat), NEW t \in Seq(Nat), NEW M,
           NEW p \in Nat, NEW q \in Nat, Passed(e, s, t, M, p, q)
    PROVE  LET char == IF e = "UCS2" THEN Utf16Next(t, q) ELSE Utf8Next(t, q) IN
           char.len = Len(Code(e, s, p)) /\ char.cp = Utf8Next(s, p).cp
<1> DEFINE l == Utf8Next(s, p).len
<1>1. /\ p \in 1..Len(s) /\ q \in 1..Len(t) /\ l # 0 /\ q + Len(Code(e, s, p)) - 1 <= Len(t)
      /\ \A i \in 1..Len(Code(e, s, p)) : t[q + i - 1] = Code(e, s, p)[i]
  BY Zenon DEF Passed, Stands
<1>2. CharAt(s, p)
  BY <1>1, CharBack
<1>3. CASE e = "UCS2"
  <2>1. PICK c : c = Utf8Next(s, p).cp
    OBVIOUS
  <2>2. Code(e, s, p) = Utf16(c)
    BY <1>3, <2>1, SMT DEF Code
  <2>3. Scalar(c)
    BY <1>2, <2>1, Zenon DEF CharAt
  <2>4. /\ q \in 1..Len(t) /\ q + Len(Utf16(c)) - 1 <= Len(t)
        /\ \A i \in 1..Len(Utf16(c)) : t[q + i - 1] = Utf16(c)[i]
    BY <1>1, <2>2, Zenon
  <2>5. Utf16Next(t, q).len = Len(Utf16(c)) /\ Utf16Next(t, q).cp = c
    BY <2>3, <2>4, UnitsBack
  <2> QED
    BY <1>3, <2>1, <2>2, <2>5, Zenon
<1>4. CASE e = "8BIT"
  <2>1. Code(e, s, p) = SubSeq(s, p, p + l - 1) /\ e # "UCS2"
    BY <1>4, SMT DEF Code
  <2>2. l \in 1..4 /\ p + l - 1 <= Len(s)
    BY <1>2, Zenon DEF CharAt
  <2>3. PICK k \in 1..4 : k = l /\ p + k - 1 <= Len(s)
    BY <2>2
  <2>4. /\ Len(SubSeq(s, p, p + k - 1)) = k
        /\ \A i \in 1..k : SubSeq(s, p, p + k - 1)[i] = s[p + i - 1]
    <3>1. p \in 1..Len(s) /\ s \in Seq(Nat)
      BY <1>1
    <3>2. p + k - 1 <= Len(s)
      BY <2>3
    <3>3. \A n \in 1..4 : p + n - 1 <= Len(s) =>
              /\ Len(SubSeq(s, p, p + n - 1)) = n
              /\ \A i \in 1..n : SubSeq(s, p, p + n - 1)[i] = s[p + i - 1]
      BY <3>1, Part, ZenonT(60)
    <3> QED
      BY <3>2, <3>3, Zenon
  <2>5. Len(Code(e, s, p)) = l /\ \A i \in 1..l : Code(e, s, p)[i] = s[p + i - 1]
    BY <2>1, <2>3, <2>4, Zenon
  <2>6. q + l - 1 <= Len(t) /\ \A i \in 1..l : t[q + i - 1] = s[p + i - 1]
    BY <1>1, <2>5, Zenon
  <2>7. Utf8Next(t, q).len = l /\ Utf8Next(t, q).cp = Utf8Next(s, p).cp
    BY <1>1, <2>6, SameChar
  <2> QED
    BY <2>1, <2>5, <2>7, Zenon
<1> QED
  BY <1>3, <1>4

\* Where the decoder of octets stands.
LEMMA OctetMark ==
    ASSUME Packing, Aligned, pc = "decode", encoding # "GSM7"
    PROVE  /\ Clear /\ Stream = data /\ pos \in Nat /\ data \in Seq(Nat) /\ Len(data) \in Nat
           /\ utf8 \in Seq(Nat) /\ Len(utf8) \in Nat
           /\ \E M : /\ Linked(encoding, utf8, data, Len(utf8) + 1, M)
                     /\ \E p \in Nat : <<p, pos>> \in M /\ text = SubSeq(utf8, 1, p - 1)
<1>1. Clear /\ Stream = data
  BY Zenon DEF Clear, Stream
<1>2. pos \in Nat
  BY DEF Packing, TypeOK
<1>3. data \in Seq(Nat) /\ Len(data) \in Nat /\ utf8 \in Seq(Nat) /\ Len(utf8) \in Nat
  BY <1>1, InputIs, StreamIs
<1>4. \A M, p : AtMark(M, p) => <<p, pos>> \in M /\ text = SubSeq(utf8, 1, p - 1)
  BY Zenon DEF AtMark, Reached
<1>5. \E M : /\ Linked(encoding, utf8, data, Len(utf8) + 1, M)
             /\ \E p \in Nat : AtMark(M, p)
  BY <1>1, Zenon DEF Aligned
<1> QED
  BY <1>1, <1>2, <1>3, <1>4, <1>5, Zenon

LEMMA TakeCharAligned == Packing /\ Packing' /\ Aligned /\ TakeChar => Aligned'
<1> SUFFICES ASSUME Packing, Packing', Aligned, TakeChar PROVE Aligned'
  OBVIOUS
<1> DEFINE char == IF encoding = "UCS2" THEN Utf16Next(data, pos) ELSE Utf8Next(data, pos)
<1>1. pc = "decode" /\ encoding # "GSM7" /\ pos <= Len(data)
  BY DEF TakeChar
<1>2. /\ Clear /\ Stream = data /\ pos \in Nat /\ data \in Seq(Nat) /\ Len(data) \in Nat
      /\ utf8 \in Seq(Nat) /\ Len(utf8) \in Nat
  BY <1>1, OctetMark
<1>3. PICK M : /\ Linked(encoding, utf8, data, Len(utf8) + 1, M)
               /\ \E p \in Nat : <<p, pos>> \in M /\ text = SubSeq(utf8, 1, p - 1)
  BY <1>1, OctetMark, Zenon
<1>4. PICK p \in Nat : <<p, pos>> \in M /\ text = SubSeq(utf8, 1, p - 1)
  BY <1>3
<1>5. Passed(encoding, utf8, data, M, p, pos)
  BY <1>1, <1>2, <1>3, <1>4, MarkRead
<1>6. encoding = "UCS2" \/ encoding = "8BIT"
  BY <1>1, SMT DEF Packing, TypeOK, Encodings
<1>7. char.len = Len(Code(encoding, utf8, p)) /\ char.cp = Utf8Next(utf8, p).cp
  BY <1>2, <1>5, <1>6, CharRead
<1>8. char.len \in Nat \ {0}
  BY <1>5, <1>7, Zenon DEF Passed
<1>9. /\ text' = text \o Utf8(char.cp) /\ pos' = pos + char.len
      /\ UNCHANGED <<utf8, auto, encoding, size, pc, todo, bits, data, septets, seen, escaped, why>>
  <2>1. char.len # 0
    BY <1>8, SMT
  <2> HIDE DEF char
  <2> QED
    BY <2>1, Zenon DEF TakeChar, char
<1>10. PICK n \in Nat :
          /\ n \in 1..(Len(utf8) + 1)
          /\ SubSeq(utf8, 1, p - 1) \o Utf8(Utf8Next(utf8, p).cp) = SubSeq(utf8, 1, n - 1)
          /\ <<n, pos + Len(Code(encoding, utf8, p))>> \in M
  BY <1>2, <1>5, MarkNext, Zenon
<1> HIDE DEF char
<1>11. Reached' = pos + Len(Code(encoding, utf8, p))
  BY <1>1, <1>7, <1>9, Zenon DEF Reached
<1>12. text' = SubSeq(utf8', 1, n - 1) /\ utf8' = utf8
  BY <1>4, <1>7, <1>9, <1>10, Zenon
<1>13. AtMark(M, n)'
  BY <1>10, <1>11, <1>12, Zenon DEF AtMark
<1>14. escaped' \in BOOLEAN /\ pc' = "decode" /\ pc' # "done"
  BY <1>1, <1>9 DEF Aligned
<1> QED
  BY <1>1, <1>2, <1>3, <1>9, <1>13, <1>14, AlignedDecode

LEMMA EndDecodeAligned == Packing /\ Packing' /\ Aligned /\ EndDecode => Aligned'
<1> SUFFICES ASSUME Packing, Packing', Aligned, EndDecode PROVE Aligned'
  OBVIOUS
<1>1. /\ pc = "decode" /\ encoding # "GSM7" /\ pos > Len(data) /\ pc' = "done" /\ pc' # "decode"
      /\ UNCHANGED <<utf8, auto, encoding, size, pos, todo, bits, data, septets, seen, escaped, text, why>>
  BY DEF EndDecode
<1>2. pos \in Nat /\ Len(data) \in Nat /\ utf8 \in Seq(Nat) /\ Len(utf8) \in Nat
  BY <1>1, OctetMark
<1>3. PICK M : /\ Linked(encoding, utf8, data, Len(utf8) + 1, M)
               /\ \E p \in Nat : <<p, pos>> \in M /\ text = SubSeq(utf8, 1, p - 1)
  BY <1>1, OctetMark, Zenon
<1>4. PICK p \in Nat : <<p, pos>> \in M /\ text = SubSeq(utf8, 1, p - 1)
  BY <1>3
<1>5. ~(pos <= Len(data))
  BY <1>1, <1>2, SMT
<1>6. p = Len(utf8) + 1
  <2>1. Linked(encoding, utf8, data, Len(utf8) + 1, M)
    BY <1>3
  <2>2. <<p, pos>> \in M /\ pos \in Nat /\ Len(data) \in Nat
    BY <1>2, <1>4
  <2> QED
    BY <1>5, <2>1, <2>2, MarkRead
<1>7. SubSeq(utf8, 1, (Len(utf8) + 1) - 1) = utf8
  BY <1>2, SMT
<1>8. text' = utf8
  BY <1>1, <1>4, <1>6, <1>7
<1>9. escaped' \in BOOLEAN
  BY <1>1 DEF Aligned
<1> QED
  BY <1>1, <1>8, <1>9, AlignedDecode

\* One septet taken: it is the one that was packed, and there was one to take.
LEMMA SeptetTaken ==
    ASSUME Packing, SeptetsSurvive', TakeSeptet
    PROVE  /\ pc = "decode" /\ encoding = "GSM7" /\ Len(seen) < Len(septets)
           /\ Len(seen) \in Nat /\ Len(septets) \in Nat /\ Len(seen') = Len(seen) + 1
           /\ UNCHANGED <<utf8, auto, encoding, size, todo, data, septets>>
           /\ \E v : /\ v = septets[Len(seen) + 1]
                     /\ escaped' = (~escaped /\ v = Escape)
                     /\ text' = IF escaped' \/ Meaning(v) = -1 THEN text
                                ELSE text \o Utf8(Meaning(v))
                     /\ pc' = IF Meaning(v) = -1 THEN "refused" ELSE pc
<1>1. pc = "decode" /\ encoding = "GSM7" /\ Len(seen) < Len(septets)
  BY DEF TakeSeptet, Decoding
<1>2. seen \in Seq(Septets) /\ septets \in Seq(Septets)
  BY DEF Packing, TypeOK
<1>3. Len(seen) \in Nat /\ Len(septets) \in Nat
  BY <1>2
<1>4. ~Fail("invalid hex")
  <2>1. ASSUME Fail("invalid hex") PROVE FALSE
    <3>1. encoding' = "GSM7" /\ why' = "invalid hex"
      BY <1>1, <2>1, Zenon DEF Fail
    <3> QED
      BY <3>1, Zenon DEF SeptetsSurvive
  <2> QED
    BY <2>1
<1>5. PICK v : v = Value7(Waiting)
  OBVIOUS
<1>6. /\ seen' = Append(seen, v)
      /\ escaped' = (~escaped /\ v = Escape)
      /\ text' = IF escaped' \/ Meaning(v) = -1 THEN text ELSE text \o Utf8(Meaning(v))
      /\ pc' = IF Meaning(v) = -1 THEN "refused" ELSE pc
      /\ UNCHANGED <<utf8, auto, encoding, size, todo, data, septets>>
  BY <1>4, <1>5, Zenon DEF TakeSeptet
<1>7. Len(seen') = Len(seen) + 1 /\ seen'[Len(seen) + 1] = v
  BY <1>2, <1>6, SMT
<1>8. v = septets[Len(seen) + 1]
  <2>1. \A i \in 1..Len(seen') : seen'[i] = septets'[i]
    BY Zenon DEF SeptetsSurvive
  <2>2. Len(seen) + 1 \in 1..Len(seen')
    BY <1>3, <1>7, SMT
  <2>3. septets' = septets
    BY <1>6
  <2> QED
    BY <1>7, <2>1, <2>2, <2>3, Zenon
<1> QED
  BY <1>1, <1>3, <1>6, <1>7, <1>8, Zenon

\* A text that is not clear may be refused.
LEMMA AlignedRefused ==
    ASSUME Aligned, ~Clear, pc' = "refused", escaped' \in BOOLEAN,
           utf8' = utf8, encoding' = encoding, data' = data, todo' = todo
    PROVE  Aligned'
<1>1. pc' # "detect" /\ pc' # "encode" /\ pc' # "encoded" /\ pc' # "decode" /\ pc' # "done"
  BY SMT
<1>2. ~Clear'
  BY Zenon DEF Clear
<1>3. RoundTrip'
  BY <1>2, Zenon DEF RoundTrip, Clear
<1>4. (encoding # "GSM7" => data \in Seq(Nat) /\ todo = <<>>)'
  BY Zenon DEF Aligned
<1> QED
  BY <1>1, <1>3, <1>4, Zenon DEF Aligned

\* What stands at a mark of a clear text in septets means its character.
LEMMA SeptetMark ==
    ASSUME Packing, Aligned, Clear, encoding = "GSM7", pc = "decode",
           NEW M, Linked(encoding, utf8, septets, Len(utf8) + 1, M),
           NEW p \in Nat, NEW q \in Nat, <<p, q>> \in M, q <= Len(septets)
    PROVE  \E cp \in Nat : \E n \in Nat : \E l \in Nat :
             /\ n \in 1..(Len(utf8) + 1)
             /\ SubSeq(utf8, 1, p - 1) \o Utf8(cp) = SubSeq(utf8, 1, n - 1)
             /\ <<n, q + l>> \in M
             /\ \/ l = 1 /\ septets[q] # Escape /\ CodePointOf(septets[q], FALSE) = cp
                \/ l = 2 /\ septets[q] = Escape /\ CodePointOf(septets[q + 1], TRUE) = cp
<1>1. utf8 \in Seq(Nat) /\ Len(utf8) \in Nat /\ Stream = septets /\ Len(septets) \in Nat
  BY StreamSeptets, StreamIs, InputIs
<1>2. Passed(encoding, utf8, septets, M, p, q)
  BY <1>1, MarkRead
<1>3. PICK code : code = Code(encoding, utf8, p)
  OBVIOUS
<1>4. PICK cp : cp = Utf8Next(utf8, p).cp
  OBVIOUS
<1>5. /\ p \in 1..Len(utf8) /\ Utf8Next(utf8, p).len # 0 /\ Len(code) \in Nat \ {0}
      /\ \A i \in 1..Len(code) : septets[q + i - 1] = code[i]
  BY <1>2, <1>3, Zenon DEF Passed, Stands
<1>6. Means(code, cp)
  BY <1>3, <1>4, <1>5, Unshared
<1>7. cp \in Nat
  <2>1. Scalar(cp)
    BY <1>1, <1>4, <1>5, CharBack, Zenon DEF CharAt
  <2> QED
    BY <2>1, SMT DEF Scalar
<1>8. PICK n \in Nat :
          /\ n \in 1..(Len(utf8) + 1)
          /\ SubSeq(utf8, 1, p - 1) \o Utf8(cp) = SubSeq(utf8, 1, n - 1)
          /\ <<n, q + Len(code)>> \in M
  BY <1>1, <1>2, <1>3, <1>4, MarkNext, Zenon
<1>9. septets[q] = code[1]
  <2>1. 1 \in 1..Len(code) /\ q + 1 - 1 = q
    BY <1>5, SMT
  <2> QED
    BY <1>5, <2>1, Zenon
<1>10. CASE Len(code) = 1 /\ code[1] # Escape /\ CodePointOf(code[1], FALSE) = cp
  <2>1. 1 \in Nat
    BY SMT
  <2> QED
    BY <1>7, <1>8, <1>9, <1>10, <2>1, Zenon
<1>11. CASE Len(code) = 2 /\ code[1] = Escape /\ CodePointOf(code[2], TRUE) = cp
  <2>1. 2 \in Nat /\ 2 \in 1..Len(code) /\ q + 2 - 1 = q + 1
    BY <1>11, SMT
  <2>2. septets[q + 1] = code[2]
    BY <1>5, <2>1, Zenon
  <2> QED
    BY <1>7, <1>8, <1>9, <1>11, <2>1, <2>2, Zenon
<1> QED
  BY <1>6, <1>10, <1>11, Zenon DEF Means

LEMMA TakeSeptetAligned ==
    Packing /\ Packing' /\ SeptetsSurvive' /\ Aligned /\ TakeSeptet => Aligned'
<1> SUFFICES ASSUME Packing, Packing', SeptetsSurvive', Aligned, TakeSeptet PROVE Aligned'
  OBVIOUS
<1>1. /\ pc = "decode" /\ encoding = "GSM7" /\ Len(seen) < Len(septets)
      /\ Len(seen) \in Nat /\ Len(septets) \in Nat /\ Len(seen') = Len(seen) + 1
      /\ UNCHANGED <<utf8, auto, encoding, size, todo, data, septets>>
  BY SeptetTaken
<1>2. PICK v : /\ v = septets[Len(seen) + 1]
               /\ escaped' = (~escaped /\ v = Escape)
               /\ text' = IF escaped' \/ Meaning(v) = -1 THEN text ELSE text \o Utf8(Meaning(v))
               /\ pc' = IF Meaning(v) = -1 THEN "refused" ELSE pc
  BY SeptetTaken, Zenon
<1>3. escaped' \in BOOLEAN
  BY <1>2
<1>4. Stream = septets
  BY <1>1, StreamSeptets
<1>5. escaped' => Len(seen') > 0 /\ septets[Len(seen')] = Escape
  <2>1. Len(seen) + 1 > 0
    BY <1>1, SMT
  <2> QED
    BY <1>1, <1>2, <2>1, Zenon
<1>6. CASE ~Clear /\ Meaning(v) = -1
  <2>1. pc' = "refused"
    BY <1>2, <1>6
  <2> QED
    BY <1>1, <1>3, <1>6, <2>1, AlignedRefused
<1>7. CASE ~Clear /\ Meaning(v) # -1
  <2>1. pc' = "decode" /\ pc' # "done"
    BY <1>1, <1>2, <1>7
  <2> QED
    BY <1>1, <1>3, <1>5, <1>7, <2>1, AlignedDecode
<1>8. CASE Clear
  <2>1. PICK M : /\ Linked(encoding, utf8, septets, Len(utf8) + 1, M)
                 /\ \E p \in Nat : AtMark(M, p)
    BY <1>1, <1>4, <1>8, Zenon DEF Aligned
  <2>2. PICK p \in Nat : AtMark(M, p)
    BY <2>1
  <2>3. PICK q \in Nat :
          /\ q = (IF escaped THEN Len(seen) ELSE Len(seen) + 1)
          /\ q <= Len(septets) /\ Len(seen') + 1 = IF escaped THEN q + 2 ELSE q + 1
    <3>1. CASE escaped
      BY <1>1, <3>1, SMT
    <3>2. CASE ~escaped
      BY <1>1, <3>2, SMT
    <3> QED
      BY <3>1, <3>2
  <2>4. <<p, q>> \in M /\ text = SubSeq(utf8, 1, p - 1) /\ p \in 1..(Len(utf8) + 1)
    BY <1>1, <2>2, <2>3, Zenon DEF AtMark, Reached
  <2>5. Linked(encoding, utf8, septets, Len(utf8) + 1, M)
    BY <2>1
  <2>6. q <= Len(septets)
    BY <2>3
  <2>7. PICK cp \in Nat : \E n \in Nat : \E l \in Nat :
          /\ n \in 1..(Len(utf8) + 1)
          /\ SubSeq(utf8, 1, p - 1) \o Utf8(cp) = SubSeq(utf8, 1, n - 1)
          /\ <<n, q + l>> \in M
          /\ \/ l = 1 /\ septets[q] # Escape /\ CodePointOf(septets[q], FALSE) = cp
             \/ l = 2 /\ septets[q] = Escape /\ CodePointOf(septets[q + 1], TRUE) = cp
    BY <1>1, <1>8, <2>4, <2>5, <2>6, SeptetMark
  <2>8. PICK n \in Nat, l \in Nat :
          /\ n \in 1..(Len(utf8) + 1)
          /\ SubSeq(utf8, 1, p - 1) \o Utf8(cp) = SubSeq(utf8, 1, n - 1)
          /\ <<n, q + l>> \in M
          /\ \/ l = 1 /\ septets[q] # Escape /\ CodePointOf(septets[q], FALSE) = cp
             \/ l = 2 /\ septets[q] = Escape /\ CodePointOf(septets[q + 1], TRUE) = cp
    BY <2>7
  <2>9. cp # -1 /\ 0 # -1
    BY SMT
  <2>10. CASE ~escaped /\ v = Escape
    <3>1. Meaning(v) # -1 /\ escaped'
      BY <1>2, <2>9, <2>10, Zenon DEF Meaning
    <3>2. pc' = "decode" /\ pc' # "done" /\ text' = text
      BY <1>1, <1>2, <3>1
    <3>3. Reached' = q
      <4>1. Len(seen') = q
        BY <1>1, <2>3, <2>10
      <4> QED
        BY <1>1, <3>1, <4>1, Zenon DEF Reached
    <3>4. AtMark(M, p)'
      BY <1>1, <2>4, <3>2, <3>3, Zenon DEF AtMark
    <3> QED
      BY <1>1, <1>3, <1>4, <1>5, <2>1, <3>2, <3>4, AlignedDecode
  <2>11. CASE ~(~escaped /\ v = Escape)
    <3>1. ~escaped'
      BY <1>2, <2>11, Zenon
    <3>2. Meaning(v) = cp /\ Len(seen') + 1 = q + l
      <4>1. CASE escaped
        <5>1. septets[q] = Escape
          BY <1>1, <2>3, <4>1, Zenon DEF Aligned
        <5>2. l = 2 /\ CodePointOf(septets[q + 1], TRUE) = cp
          BY <2>8, <5>1
        <5>3. v = septets[q + 1]
          BY <1>2, <2>3, <4>1
        <5>4. Len(seen') + 1 = q + 2
          BY <2>3, <4>1
        <5>5. escaped = TRUE
          BY <4>1 DEF Aligned
        <5> QED
          BY <4>1, <5>2, <5>3, <5>4, <5>5, Zenon DEF Meaning
      <4>2. CASE ~escaped
        <5>1. v = septets[q] /\ Len(seen') + 1 = q + 1
          BY <1>2, <2>3, <4>2
        <5>2. v # Escape
          BY <2>11, <4>2
        <5>3. l = 1 /\ CodePointOf(v, FALSE) = cp
          BY <2>8, <5>1, <5>2
        <5>4. escaped = FALSE
          BY <4>2 DEF Aligned
        <5> QED
          BY <5>1, <5>2, <5>3, <5>4, Zenon DEF Meaning
      <4> QED
        BY <4>1, <4>2
    <3>3. pc' = pc /\ text' = text \o Utf8(cp)
      <4>1. Meaning(v) # -1
        BY <2>9, <3>2
      <4>2. ~(escaped' \/ Meaning(v) = -1)
        BY <3>1, <4>1
      <4> QED
        BY <1>2, <3>2, <4>1, <4>2, Zenon
    <3>4. pc' = "decode" /\ pc' # "done"
      BY <1>1, <3>3
    <3>5. Reached' = q + l
      BY <1>1, <3>1, <3>2, Zenon DEF Reached
    <3>6. AtMark(M, n)'
      <4>1. text' = SubSeq(utf8, 1, n - 1)
        BY <2>4, <2>8, <3>3
      <4> QED
        BY <1>1, <2>8, <3>5, <4>1, Zenon DEF AtMark
    <3> QED
      BY <1>1, <1>3, <1>4, <1>5, <2>1, <3>4, <3>6, AlignedDecode
  <2> QED
    BY <2>10, <2>11
<1> QED
  BY <1>6, <1>7, <1>8

LEMMA NextAligned ==
    ASSUME Packing, Packing', SeptetsSurvive', Aligned, [Next]_vars
    PROVE  Aligned'
<1>1. CASE UNCHANGED vars
  BY <1>1, AlignedStutter
<1>2. CASE Detect
  BY <1>2, DetectCharAligned, EndDetectAligned DEF Detect
<1>3. CASE Encode
  BY <1>3, ReadCharAligned, PutSeptetAligned, EndPackAligned, PutCharAligned, EndEncodeAligned
  DEF Encode
<1>4. CASE Decode
  BY <1>4, StartDecodeAligned, TakeSeptetAligned, EndUnpackAligned, TakeCharAligned, EndDecodeAligned
  DEF Decode
<1> QED
  BY <1>1, <1>2, <1>3, <1>4 DEF Next, Returned

\* The invariant of the packing and the one of the text hold together.
LEMMA BothHold == Spec => [](Packing /\ SeptetsSurvive /\ Aligned)
<1>1. Init => Packing /\ SeptetsSurvive /\ Aligned
  BY InitHolds, AlignedInit
<1>2. (Packing /\ SeptetsSurvive /\ Aligned) /\ [Next]_vars => (Packing /\ SeptetsSurvive /\ Aligned)'
  <2> SUFFICES ASSUME Packing, SeptetsSurvive, Aligned, [Next]_vars
               PROVE  Packing' /\ SeptetsSurvive' /\ Aligned'
    OBVIOUS
  <2>1. Packing' /\ SeptetsSurvive'
    BY NextHolds
  <2> QED
    BY <2>1, NextAligned
<1> QED
  BY <1>1, <1>2, PTL DEF Spec

\* What sms_pdu_encode_text made of a text, sms_pdu_decode_text takes, and
\* returns the same octets, for every input, encoding and size of the output;
\* only a GSM7 text with one of the characters that share a septet is left out
\* (pdu.c:15-166, 267-371 and 405-509).
THEOREM TextsSurvive == Spec => []RoundTrip
<1>1. Aligned => RoundTrip
  BY DEF Aligned
<1> QED
  BY <1>1, BothHold, PTL

-----------------------------------------------------------------------------
(* Numbers and functions                                                   *)

Below == {p \in Nat \X Nat : p[1] < p[2]}

\* A set of numbers has a least one.
LEMMA Least ==
    ASSUME NEW T \in SUBSET Nat, T # {}
    PROVE  \E n \in T : \A m \in T : n <= m
<1>1. IsWellFoundedOn(Below, Nat)
  BY NatLessThanWellFounded DEF OpToRel, Below
<1>2. PICK n \in T : \A m \in T : ~(<<m, n>> \in Below)
  BY <1>1, WFMin
<1>3. \A m \in T : ~(m < n)
  <2> SUFFICES ASSUME NEW m \in T, m < n PROVE FALSE
    OBVIOUS
  <2>1. <<m, n>> \in Nat \X Nat /\ <<m, n>>[1] = m /\ <<m, n>>[2] = n
    OBVIOUS
  <2>2. <<m, n>> \in Below
    BY <2>1 DEF Below
  <2> QED
    BY <1>2, <2>2
<1> QED
  BY <1>3

\* What holds of 0 and goes from each number to the next holds up to n.
LEMMA Induction ==
    ASSUME NEW n \in Nat, NEW good, 0 \in good, \A i \in 1..n : i - 1 \in good => i \in good
    PROVE  \A i \in 0..n : i \in good
<1> DEFINE bad == {i \in 0..n : i \notin good}
<1> SUFFICES ASSUME bad # {} PROVE FALSE
  OBVIOUS
<1>1. bad \in SUBSET Nat
  OBVIOUS
<1>2. PICK i \in bad : \A j \in bad : i <= j
  BY <1>1, Least
<1>3. i \in 1..n /\ i - 1 \in 0..n
  OBVIOUS
<1>4. i - 1 \notin bad
  BY <1>2, <1>3
<1> QED
  BY <1>3, <1>4

\* What holds where it holds of all that follow holds down to the least.
LEMMA Backwards ==
    ASSUME NEW n \in Nat, NEW good,
           \A i \in 1..n : (\A j \in 1..n : i < j => j \in good) => i \in good
    PROVE  \A i \in 1..n : i \in good
<1> DEFINE bad == {i \in 1..n : i \notin good}
           back == {k \in 0..n : n - k \in bad}
<1> SUFFICES ASSUME bad # {} PROVE FALSE
  OBVIOUS
<1>1. back \in SUBSET Nat /\ back # {}
  <2>1. PICK i \in bad : TRUE
    OBVIOUS
  <2>2. n - i \in 0..n /\ n - (n - i) = i
    OBVIOUS
  <2> HIDE DEF bad
  <2> QED
    BY <2>1, <2>2
<1>2. PICK k \in back : \A m \in back : k <= m
  BY <1>1, Least
<1>3. n - k \in 1..n /\ n - k \notin good
  OBVIOUS
<1>4. ASSUME NEW j \in 1..n, n - k < j PROVE j \in good
  <2>1. n - j \in 0..n /\ n - j < k /\ n - (n - j) = j
    BY <1>4
  <2>2. n - j \notin back
    BY <1>2, <2>1
  <2> QED
    BY <2>1, <2>2
<1> QED
  BY <1>3, <1>4

\* A function may be defined by its value at a place further on: f[x] is last[x]
\* if x is in base, and otherwise what step[x] makes of f[next[x]].
Grows(n, D, base, next) ==
    D \in SUBSET (1..n) /\ \A x \in D : x \notin base => next[x] \in D /\ x < next[x]
Gives(D, V, base, last, step) ==
    V # {} /\ \A x \in D : IF x \in base THEN last[x] \in V ELSE step[x] \in [V -> V]
Result(base, last, next, step, f, x) == IF x \in base THEN last[x] ELSE step[x][f[next[x]]]

\* So a recursive definition over a finite range has its function.
LEMMA Recursion ==
    ASSUME NEW n \in Nat, NEW D, NEW V, NEW base, NEW next, NEW step, NEW last,
           Grows(n, D, base, next), Gives(D, V, base, last, step)
    PROVE  \E f \in [D -> V] : \A x \in D : f[x] = Result(base, last, next, step, f, x)
<1> DEFINE R(f, x) == Result(base, last, next, step, f, x)
           Good(f, k) == \A x \in D : n - k < x => f[x] = R(f, x)
           good == {k \in 0..n : \E f \in [D -> V] : Good(f, k)}
<1>0. D \in SUBSET (1..n) /\ \A x \in D : x \in Nat
  BY DEF Grows
<1>1. 0 \in good
  <2>2. PICK v \in V : TRUE
    BY DEF Gives
  <2> DEFINE f == [x \in D |-> v]
  <2>1. f \in [D -> V] /\ Good(f, 0)
    BY <1>0
  <2> HIDE DEF f, Good
  <2> QED
    BY <2>1
<1>2. ASSUME NEW k \in 1..n, k - 1 \in good PROVE k \in good
  <2>1. PICK f \in [D -> V] : Good(f, k - 1)
    BY <1>2
  <2> DEFINE g == [x \in D |-> IF n - k < x THEN R(f, x) ELSE f[x]]
  <2>2. ASSUME NEW x \in D, n - k < x
        PROVE  R(f, x) \in V
    <3>1. CASE x \in base
      BY <2>2, <3>1 DEF Result, Gives
    <3>2. CASE x \notin base
      <4>1. f[next[x]] \in V /\ step[x] \in [V -> V]
        BY <2>2, <3>2 DEF Grows, Gives
      <4> QED
        BY <3>2, <4>1 DEF Result
    <3> QED
      BY <3>1, <3>2
  <2>3. g \in [D -> V]
    <3> HIDE DEF R
    <3> QED
      BY <2>2
  <2>4. ASSUME NEW x \in D, n - k < x PROVE g[x] = R(g, x)
    <3>1. CASE x \in base
      BY <2>4, <3>1 DEF Result
    <3>2. CASE x \notin base
      <4>1. next[x] \in D /\ n - (k - 1) < next[x] /\ n - k < next[x]
        <5>1. next[x] \in D /\ x < next[x]
          BY <3>2 DEF Grows
        <5>2. x \in Nat /\ next[x] \in Nat
          BY <1>0, <5>1
        <5> QED
          BY <2>4, <5>1, <5>2
      <4>2. f[next[x]] = R(f, next[x])
        BY <2>1, <4>1
      <4>3. g[next[x]] = f[next[x]]
        <5> HIDE DEF R
        <5> QED
          BY <4>1, <4>2
      <4>4. g[x] = R(f, x)
        <5> HIDE DEF R
        <5> QED
          BY <2>4
      <4>5. R(f, x) = step[x][f[next[x]]] /\ R(g, x) = step[x][g[next[x]]]
        BY <3>2, Zenon DEF Result
      <4> HIDE DEF R, g
      <4> QED
        BY <4>3, <4>4, <4>5
    <3> QED
      BY <3>1, <3>2
  <2> HIDE DEF g, R
  <2>5. Good(g, k)
    BY <2>4
  <2> HIDE DEF Good
  <2>6. \E h \in [D -> V] : Good(h, k)
    BY <2>3, <2>5
  <2> QED
    BY <2>6
<1>3. n \in good
  <2> HIDE DEF good
  <2>1. \A k \in 0..n : k \in good
    BY <1>1, <1>2, Induction
  <2> QED
    BY <2>1
<1> HIDE DEF R
<1>4. PICK f \in [D -> V] : Good(f, n)
  BY <1>3
<1>5. \A x \in D : f[x] = R(f, x)
  <2>1. \A x \in D : n - n < x
    BY <1>0
  <2> QED
    BY <1>4, <2>1
<1> QED
  BY <1>5, Zenon DEF R

-----------------------------------------------------------------------------
(* The number of the sender                                                *)

DigitsFrom(s) ==
    CHOOSE f : f = [i \in 1..(2 * Len(s) + 1) |->
                      IF i > 2 * Len(s) THEN <<>>
                      ELSE IF Nibble(s, i) < 10 THEN <<Nibble(s, i)>> \o f[i + 1]
                      ELSE f[i + 1]]

LEMMA NibbleIs ==
    ASSUME NEW s \in Seq(Nat), NEW i \in 1..(2 * Len(s)) PROVE Nibble(s, i) \in Nat
<1>1. Len(s) \in Nat /\ (i + 1) \div 2 \in 1..Len(s)
  OBVIOUS
<1>2. s[(i + 1) \div 2] \in Nat
  BY <1>1
<1>3. \A v \in Nat : v % 16 \in Nat /\ v \div 16 \in Nat
  OBVIOUS
<1> QED
  BY <1>2, <1>3 DEF Nibble

\* What Digits takes from the nibbles at i and behind.
LEMMA DigitsRead ==
    ASSUME NEW s \in Seq(Nat)
    PROVE  \E f \in [1..(2 * Len(s) + 1) -> Seq(Nat)] :
             /\ \A i \in 1..(2 * Len(s)) : Nibble(s, i) < 10 => f[i] = <<Nibble(s, i)>> \o f[i + 1]
             /\ \A n : Digits(s, n) = IF Len(f[1]) <= n THEN f[1] ELSE SubSeq(f[1], 1, n)
<1> DEFINE V == Seq(Nat)
           D == 1..(2 * Len(s) + 1)
           base == {i \in D : i > 2 * Len(s)}
           last == [i \in D |-> <<>>]
           next == [i \in D |-> i + 1]
           step == [i \in D |-> [y \in V |-> IF Nibble(s, i) < 10 THEN <<Nibble(s, i)>> \o y ELSE y]]
           Body(f, i) == IF i > 2 * Len(s) THEN <<>>
                         ELSE IF Nibble(s, i) < 10 THEN <<Nibble(s, i)>> \o f[i + 1]
                         ELSE f[i + 1]
<1>1. Len(s) \in Nat /\ 2 * Len(s) + 1 \in Nat
  OBVIOUS
<1>2. <<>> \in V
  OBVIOUS
<1>3. Grows(2 * Len(s) + 1, D, base, next)
  BY <1>1 DEF Grows
<1>4. Gives(D, V, base, last, step)
  <2>3. V # {}
    BY <1>2
  <2>1. ASSUME NEW i \in D, i \in base PROVE last[i] \in V
    BY <1>2
  <2>2. ASSUME NEW i \in D, i \notin base PROVE step[i] \in [V -> V]
    <3>1. i \in 1..(2 * Len(s))
      BY <1>1, <2>2
    <3>2. Nibble(s, i) \in Nat
      BY <3>1, NibbleIs
    <3>3. \A y \in V : <<Nibble(s, i)>> \o y \in V
      BY <3>2
    <3> HIDE DEF V
    <3>4. [y \in V |-> IF Nibble(s, i) < 10 THEN <<Nibble(s, i)>> \o y ELSE y] \in [V -> V]
      BY <3>3
    <3> QED
      BY <3>4, Zenon
  <2> HIDE DEF last, step, base, V
  <2> QED
    BY <2>1, <2>2, <2>3 DEF Gives
<1>5. PICK f \in [D -> V] : \A x \in D : f[x] = Result(base, last, next, step, f, x)
  <2> HIDE DEF D, V, base, last, next, step
  <2> QED
    BY <1>1, <1>3, <1>4, Recursion
<1>6. f = [i \in D |-> Body(f, i)]
  <2>1. ASSUME NEW i \in D PROVE f[i] = Body(f, i)
    <3>0. f[i] = Result(base, last, next, step, f, i)
      BY <1>5
    <3>1. CASE i \in base
      <4>1. f[i] = last[i]
        BY <3>0, <3>1 DEF Result
      <4> QED
        BY <3>1, <4>1
    <3>2. CASE i \notin base
      <4>1. f[i] = step[i][f[next[i]]]
        BY <3>0, <3>2 DEF Result
      <4>2. f[i + 1] \in V /\ next[i] = i + 1
        BY <1>1, <1>3, <3>2 DEF Grows
      <4>3. f[i] = IF Nibble(s, i) < 10 THEN <<Nibble(s, i)>> \o f[i + 1] ELSE f[i + 1]
        <5> HIDE DEF V
        <5> QED
          BY <4>1, <4>2, Zenon
      <4>4. ~(i > 2 * Len(s))
        BY <3>2
      <4> QED
        BY <4>3, <4>4, Zenon
    <3> QED
      BY <3>1, <3>2
  <2> HIDE DEF Body, D
  <2> QED
    BY <2>1
<1> DEFINE F == DigitsFrom(s)
<1>7. F = [i \in D |-> Body(F, i)]
  BY <1>6, Zenon DEF DigitsFrom
<1>8. \A i \in D : F[i] = Body(F, i)
  <2> HIDE DEF F, Body, D
  <2> QED
    BY <1>7
<1>9. F \in [D -> V]
  <2> DEFINE good == {i \in D : F[i] \in V}
  <2>1. ASSUME NEW i \in D, \A j \in D : i < j => j \in good PROVE F[i] \in V
    <3>1. F[i] = Body(F, i)
      BY <1>8
    <3>2. CASE i > 2 * Len(s)
      BY <1>2, <3>1, <3>2
    <3>3. CASE ~(i > 2 * Len(s))
      <4>1. i + 1 \in D /\ i < i + 1 /\ i \in 1..(2 * Len(s))
        BY <1>1, <3>3
      <4>2. F[i + 1] \in V
        BY <2>1, <4>1
      <4>3. Nibble(s, i) \in Nat
        BY <4>1, NibbleIs
      <4>4. <<Nibble(s, i)>> \o F[i + 1] \in V
        BY <4>2, <4>3
      <4> QED
        <5> HIDE DEF V, F
        <5> QED
          BY <3>1, <3>3, <4>2, <4>4, Zenon
    <3> QED
      BY <3>2, <3>3
  <2>2. \A i \in D : (\A j \in D : i < j => j \in good) => i \in good
    <3> HIDE DEF D, F, V
    <3> QED
      BY <2>1
  <2>3. \A i \in D : i \in good
    <3> HIDE DEF good
    <3> QED
      BY <1>1, <2>2, Backwards
  <2>4. \A i \in D : F[i] \in V
    BY <2>3
  <2> HIDE DEF F, V, D, Body
  <2> QED
    BY <1>7, <2>4
<1>10. \A i \in 1..(2 * Len(s)) : Nibble(s, i) < 10 => F[i] = <<Nibble(s, i)>> \o F[i + 1]
  <2> SUFFICES ASSUME NEW i \in 1..(2 * Len(s)), Nibble(s, i) < 10
               PROVE  F[i] = <<Nibble(s, i)>> \o F[i + 1]
    OBVIOUS
  <2>1. i \in D /\ ~(i > 2 * Len(s))
    BY <1>1
  <2> HIDE DEF F, D
  <2> QED
    BY <1>8, <2>1, Zenon
<1>11. \A n : Digits(s, n) = IF Len(F[1]) <= n THEN F[1] ELSE SubSeq(F[1], 1, n)
  BY Zenon DEF Digits, DigitsFrom
<1> HIDE DEF F
<1> QED
  BY <1>9, <1>10, <1>11

\* Where the elements of two sequences are when one is behind the other.
LEMMA ConcatNumbers ==
    \A s, t \in Seq(Nat) :
        /\ s \o t \in Seq(Nat) /\ Len(s \o t) = Len(s) + Len(t) /\ Len(s) \in Nat /\ Len(t) \in Nat
        /\ \A i \in 1..(Len(s) + Len(t)) : (s \o t)[i] = IF i <= Len(s) THEN s[i] ELSE t[i - Len(s)]
<1>1. \A s \in Seq(Nat) : Len(s) \in Nat
  OBVIOUS
<1> QED
  BY <1>1, Concatenated, Zenon

LEMMA NumbersAssociate == \A s, t, u \in Seq(Nat) : (s \o t) \o u = s \o (t \o u)
  BY SMTT(30), Associate

\* Two digits an octet: each is where the parser looks for it.
LEMMA SemiOctetsAre ==
    ASSUME NEW n \in Seq(0..9)
    PROVE  /\ SemiOctets(n) \in Seq(Nat) /\ Len(SemiOctets(n)) = (Len(n) + 1) \div 2
           /\ \A i \in 1..Len(n) : Nibble(SemiOctets(n), i) = n[i]
<1> DEFINE o == (Len(n) + 1) \div 2
           high(k) == IF 2 * k <= Len(n) THEN n[2 * k] ELSE 15
           s == SemiOctets(n)
<1>1. Len(n) \in Nat /\ o \in Nat /\ \A i \in 1..Len(n) : n[i] \in 0..9
  OBVIOUS
<1>2. \A k \in 1..o : 2 * k - 1 \in 1..Len(n) /\ (2 * k <= Len(n) => 2 * k \in 1..Len(n))
  BY <1>1
<1>3. ASSUME NEW k \in 1..o
      PROVE  n[2 * k - 1] \in 0..9 /\ high(k) \in 0..15 /\ (2 * k <= Len(n) => high(k) = n[2 * k])
  BY <1>1, <1>2
<1>4. s = [k \in 1..o |-> n[2 * k - 1] + 16 * high(k)]
  BY Zenon DEF SemiOctets
<1> HIDE DEF high, o
<1>5. ASSUME NEW k \in 1..o
      PROVE  s[k] \in Nat /\ s[k] % 16 = n[2 * k - 1] /\ s[k] \div 16 = high(k)
  <2>1. \A a \in 0..9, b \in 0..15 : a + 16 * b \in Nat /\ (a + 16 * b) % 16 = a /\ (a + 16 * b) \div 16 = b
    OBVIOUS
  <2>2. s[k] = n[2 * k - 1] + 16 * high(k)
    <3> HIDE DEF s
    <3> QED
      BY <1>4
  <2> HIDE DEF s
  <2> QED
    BY ZenonT(60), <1>3, <2>1, <2>2
<1>6. s \in Seq(Nat) /\ Len(s) = o
  <2>3. \A a \in 0..9, b \in 0..15 : a + 16 * b \in Nat
    OBVIOUS
  <2>1. \A k \in 1..o : n[2 * k - 1] + 16 * high(k) \in Nat
    BY <1>3, <2>3
  <2>2. s \in [1..o -> Nat]
    <3> HIDE DEF s
    <3> QED
      BY <1>4, <2>1
  <2> HIDE DEF s
  <2> QED
    BY <1>1, <2>2, SeqDef, LenProperties
<1> HIDE DEF s
<1>7. ASSUME NEW i \in 1..Len(n) PROVE Nibble(s, i) = n[i]
  <2>1. (i + 1) \div 2 \in 1..o
    BY <1>1 DEF o
  <2>2. CASE i % 2 = 1
    <3>1. 2 * ((i + 1) \div 2) - 1 = i
      BY <2>2
    <3> QED
      BY <1>5, <2>1, <2>2, <3>1 DEF Nibble
  <2>3. CASE i % 2 # 1
    <3>1. 2 * ((i + 1) \div 2) = i /\ i <= Len(n)
      BY <2>3
    <3>2. high((i + 1) \div 2) = n[i]
      BY <1>3, <2>1, <3>1
    <3> QED
      BY <1>5, <2>1, <2>3, <3>2 DEF Nibble
  <2> QED
    BY <2>2, <2>3
<1> QED
  BY <1>6, <1>7 DEF s, o

\* The first octets of a sequence.
LEMMA FirstPart ==
    ASSUME NEW S, NEW a \in Seq(S), NEW b \in Seq(S)
    PROVE  SubSeq(a \o b, 1, Len(a)) = a
<1>1. Len(a) \in Nat /\ Len(b) \in Nat
  OBVIOUS
<1>2. /\ a \o b \in Seq(S) /\ Len(a \o b) = Len(a) + Len(b)
      /\ \A i \in 1..(Len(a) + Len(b)) : (a \o b)[i] = IF i <= Len(a) THEN a[i] ELSE b[i - Len(a)]
  BY Concatenated
<1> DEFINE c == a \o b
<1> HIDE DEF c
<1>3. c \in Seq(S) /\ Len(c) = Len(a) + Len(b) /\ \A i \in 1..Len(a) : c[i] = a[i]
  BY <1>1, <1>2 DEF c
<1>4. \A i \in 1..Len(a) : c[i] \in S
  BY <1>1, <1>3
<1>5. /\ SubSeq(c, 1, Len(a)) \in Seq(S) /\ Len(SubSeq(c, 1, Len(a))) = Len(a)
      /\ \A i \in 1..Len(a) : SubSeq(c, 1, Len(a))[i] = c[i]
  BY <1>1, <1>3
<1>6. SubSeq(c, 1, Len(a)) = a
  <2> DEFINE d == SubSeq(c, 1, Len(a))
  <2> HIDE DEF d
  <2>1. d \in Seq(S) /\ Len(d) = Len(a) /\ \A i \in 1..Len(a) : d[i] = a[i]
    BY <1>3, <1>5 DEF d
  <2>2. d = a
    BY <2>1, SeqEqual
  <2> QED
    BY <2>2 DEF d
<1> QED
  BY <1>6 DEF c

LEMMA DigitsBack ==
    ASSUME NEW n \in Seq(0..9), NEW rest \in Seq(Nat)
    PROVE  Digits(SemiOctets(n) \o rest, Len(n)) = n
<1> DEFINE h == SemiOctets(n)
           s == h \o rest
           L == Len(n)
<1>1. L \in Nat /\ n \in Seq(Nat) /\ \A i \in 1..L : n[i] \in Nat /\ n[i] < 10
  <2>1. 0..9 \subseteq Nat
    OBVIOUS
  <2>2. n \in Seq(Nat)
    BY <2>1, SeqMonotonic
  <2>3. \A i \in 1..L : n[i] \in 0..9
    OBVIOUS
  <2>4. \A d \in 0..9 : d \in Nat /\ d < 10
    OBVIOUS
  <2>5. Len(n) \in Nat
    OBVIOUS
  <2> QED
    BY <2>2, <2>3, <2>4, <2>5, Zenon
<1>2. /\ h \in Seq(Nat) /\ Len(h) = (L + 1) \div 2
      /\ \A i \in 1..L : Nibble(h, i) = n[i]
  BY SemiOctetsAre
<1> HIDE DEF h
<1>3. /\ s \in Seq(Nat) /\ Len(s) = Len(h) + Len(rest) /\ Len(rest) \in Nat
      /\ \A i \in 1..Len(h) : s[i] = h[i]
  <2>1. /\ s \in Seq(Nat) /\ Len(s) = Len(h) + Len(rest)
        /\ \A i \in 1..(Len(h) + Len(rest)) : s[i] = IF i <= Len(h) THEN h[i] ELSE rest[i - Len(h)]
    BY <1>2, ConcatNumbers
  <2>2. Len(h) \in Nat /\ Len(rest) \in Nat
    BY <1>2
  <2> HIDE DEF s
  <2> QED
    BY <2>1, <2>2
<1> HIDE DEF s, L
<1>13. /\ L + 1 <= 2 * Len(s) + 1 /\ Len(s) \in Nat
       /\ \A i \in 1..L : (i + 1) \div 2 \in 1..Len(h) /\ i \in 1..(2 * Len(s))
  BY <1>1, <1>2, <1>3
<1>4. ASSUME NEW i \in 1..L PROVE Nibble(s, i) = n[i] /\ i \in 1..(2 * Len(s))
  <2>1. (i + 1) \div 2 \in 1..Len(h) /\ i \in 1..(2 * Len(s))
    BY <1>13
  <2>2. s[(i + 1) \div 2] = h[(i + 1) \div 2]
    BY <1>3, <2>1
  <2>3. Nibble(s, i) = Nibble(h, i)
    BY <2>2, Zenon DEF Nibble
  <2> QED
    BY <1>2, <2>1, <2>3
<1>5. PICK f \in [1..(2 * Len(s) + 1) -> Seq(Nat)] :
        /\ \A i \in 1..(2 * Len(s)) : Nibble(s, i) < 10 => f[i] = <<Nibble(s, i)>> \o f[i + 1]
        /\ \A m : Digits(s, m) = IF Len(f[1]) <= m THEN f[1] ELSE SubSeq(f[1], 1, m)
  BY <1>3, DigitsRead
<1>6. \A i \in 1..(L + 1) : f[i] \in Seq(Nat)
  <2>1. \A i \in 1..(L + 1) : i \in 1..(2 * Len(s) + 1)
    BY <1>1, <1>13
  <2> QED
    BY <2>1
<1>7. \A i \in 1..L : f[i] = <<n[i]>> \o f[i + 1]
  <2> SUFFICES ASSUME NEW i \in 1..L PROVE f[i] = <<n[i]>> \o f[i + 1]
    OBVIOUS
  <2>1. Nibble(s, i) = n[i] /\ i \in 1..(2 * Len(s)) /\ n[i] < 10
    BY <1>1, <1>4
  <2>2. Nibble(s, i) < 10
    BY <2>1, Zenon
  <2>3. f[i] = <<Nibble(s, i)>> \o f[i + 1]
    BY <1>5, <2>1, <2>2
  <2> QED
    BY <2>1, <2>3, Zenon
<1>14. \A k \in 0..L : k + 1 \in 1..(L + 1) /\ f[k + 1] \in Seq(Nat)
  <2>1. \A k \in 0..L : k + 1 \in 1..(L + 1)
    BY <1>1
  <2> QED
    BY <1>6, <2>1
<1>15. n \in Seq(Nat) /\ Len(n) = L
  BY <1>1 DEF L
<1> DEFINE Before(k) == f[1] = SubSeq(n, 1, k) \o f[k + 1]
           good == {k \in 0..L : Before(k)}
<1>8. Before(0)
  <2>1. SubSeq(n, 1, 0) = <<>> /\ 0 + 1 = 1
    BY <1>15
  <2>2. f[1] \in Seq(Nat)
    BY <1>1, <1>6
  <2>3. \A x \in Seq(Nat) : <<>> \o x = x
    OBVIOUS
  <2>4. <<>> \o f[1] = f[1]
    BY <2>2, <2>3, Zenon
  <2> QED
    BY <2>1, <2>4, Zenon
<1>9. ASSUME NEW k \in 1..L, Before(k - 1) PROVE Before(k)
  <2> DEFINE x == SubSeq(n, 1, k - 1)
             c == <<n[k]>>
             y == f[k + 1]
  <2>1. k \in 1..(L + 1) /\ (k - 1) + 1 = k /\ k \in 0..L /\ n[k] \in Nat
    BY <1>1
  <2>2. x \in Seq(Nat) /\ c \in Seq(Nat) /\ x \o c = SubSeq(n, 1, k)
    BY <1>1, <1>15
  <2>3. y \in Seq(Nat)
    BY <1>14, <2>1
  <2>4. f[1] = x \o f[k]
    BY <1>9, <2>1, Zenon
  <2>5. f[k] = c \o y
    BY <1>7
  <2> HIDE DEF x, c, y
  <2>6. x \o (c \o y) = (x \o c) \o y
    BY <2>2, <2>3, NumbersAssociate
  <2>7. f[1] = SubSeq(n, 1, k) \o y
    BY <2>2, <2>4, <2>5, <2>6, Zenon
  <2> QED
    BY <2>7, Zenon DEF y
<1>10. f[1] = n \o f[L + 1]
  <2>1. L \in good
    <3>1. 0 \in good
      BY <1>1, <1>8
    <3>2. ASSUME NEW k \in 1..L, k - 1 \in good PROVE k \in good
      <4>1. Before(k - 1)
        BY <3>2
      <4>2. Before(k) /\ k \in 0..L
        <5>1. k \in 0..L
          BY <1>1
        <5> HIDE DEF Before
        <5> QED
          BY <1>9, <4>1, <5>1
      <4> HIDE DEF Before
      <4> QED
        BY <4>2
    <3> HIDE DEF good
    <3>3. \A k \in 0..L : k \in good
      BY <1>1, <3>1, <3>2, Induction
    <3> QED
      BY <1>1, <3>3
  <2>2. f[1] = SubSeq(n, 1, L) \o f[L + 1]
    BY <2>1
  <2>3. SubSeq(n, 1, L) = n
    BY <1>15
  <2> QED
    BY <2>2, <2>3, Zenon
<1>11. Digits(s, L) = n
  <2> DEFINE t == f[L + 1]
  <2>1. t \in Seq(Nat)
    BY <1>1, <1>6
  <2>2. f[1] = n \o t
    BY <1>10
  <2> HIDE DEF t
  <2>3. SubSeq(n \o t, 1, L) = n
    BY <1>15, <2>1, FirstPart
  <2>4. Len(n \o t) = L + Len(t) /\ Len(t) \in Nat
    BY <1>15, <2>1, ConcatNumbers
  <2>5. Len(n \o t) <= L => n \o t = n
    <3>1. Len(n \o t) <= L => Len(t) = 0
      BY <1>1, <2>4
    <3>2. Len(t) = 0 => t = <<>>
      BY <2>1, EmptySeq
    <3>3. n \o <<>> = n
      BY <1>15
    <3> QED
      BY <3>1, <3>2, <3>3, Zenon
  <2>6. Digits(s, L) = IF Len(n \o t) <= L THEN n \o t ELSE SubSeq(n \o t, 1, L)
    BY <1>5, <2>2, Zenon
  <2> QED
    BY <2>3, <2>5, <2>6, Zenon
<1> QED
  BY <1>11 DEF s, h, L

-----------------------------------------------------------------------------
(* UTF-16 of the gateway                                                   *)

LEMMA Utf8Is == ASSUME NEW cp \in Nat PROVE Utf8(cp) \in Seq(Nat)
<1>1. /\ cp \div 64 \in Nat /\ cp % 64 \in Nat /\ cp \div 4096 \in Nat /\ cp \div 262144 \in Nat
      /\ (cp \div 64) % 64 \in Nat /\ (cp \div 4096) % 64 \in Nat
  BY SMT
<1>2. \A a, b, c, d \in Nat : <<a>> \in Seq(Nat) /\ <<a, b>> \in Seq(Nat) /\ <<a, b, c>> \in Seq(Nat)
                              /\ <<a, b, c, d>> \in Seq(Nat)
  BY SMT
<1>3. \A a, b \in Nat : a + b \in Nat
  BY SMT
<1> QED
  BY <1>1, <1>2, <1>3, SMT DEF Utf8

\* A unit or two of the data, or none.
LEMMA Utf16Is ==
    ASSUME NEW s \in Seq(Nat), NEW i \in 1..Len(s), i < Len(s)
    PROVE  LET char == Utf16Next(s, i) IN
           /\ char.len = 0 => i + 2 \in 1..(Len(s) + 1) /\ i < i + 2
           /\ char.len # 0 => /\ char.cp \in Nat
                              /\ i + char.len \in 1..(Len(s) + 1) /\ i < i + char.len
<1>1. Len(s) \in Nat /\ i \in Nat /\ 1 <= i /\ i + 1 \in 1..Len(s)
  BY SMT
<1>2. \A j \in 1..Len(s) : s[j] \in Nat
  BY SMT
<1>3. UnitAt(s, i) \in Nat
  BY <1>1, <1>2, SMT DEF UnitAt
<1>4. CASE IsLow(UnitAt(s, i))
  <2>2. ~IsHigh(UnitAt(s, i))
    BY <1>3, <1>4, SMT DEF IsLow, IsHigh
  <2>1. Utf16Next(s, i) = Invalid
    BY <1>4, <2>2, SMT DEF Utf16Next
  <2> QED
    BY <1>1, <2>1, SMT DEF Invalid
<1>5. CASE IsHigh(UnitAt(s, i)) /\ i + 3 <= Len(s) /\ IsLow(UnitAt(s, i + 2))
  <2>1. ~IsLow(UnitAt(s, i))
    BY <1>3, <1>5, SMT DEF IsLow, IsHigh
  <2>2. Utf16Next(s, i)
          = [len |-> 4, cp |-> 65536 + (UnitAt(s, i) - 55296) * 1024 + UnitAt(s, i + 2) - 56320]
    BY <1>5, <2>1, SMT DEF Utf16Next
  <2>3. UnitAt(s, i + 2) \in Nat
    <3>1. i + 2 \in 1..Len(s) /\ (i + 2) + 1 \in 1..Len(s)
      BY <1>1, <1>5, SMT
    <3>2. s[i + 2] \in Nat /\ s[(i + 2) + 1] \in Nat
      BY <1>2, <3>1
    <3>3. \A a, b \in Nat : a * 256 + b \in Nat
      BY SMT
    <3> QED
      BY <3>2, <3>3 DEF UnitAt
  <2>4. \A a, b \in Nat : 55296 <= a => 65536 + (a - 55296) * 1024 + b - 56320 \in Nat
    BY SMT
  <2>6. 55296 <= UnitAt(s, i)
    BY <1>5, SMT DEF IsHigh
  <2>5. 65536 + (UnitAt(s, i) - 55296) * 1024 + UnitAt(s, i + 2) - 56320 \in Nat
    <3>1. PICK a \in Nat : a = UnitAt(s, i)
      BY <1>3, Zenon
    <3>2. PICK b \in Nat : b = UnitAt(s, i + 2)
      BY <2>3, Zenon
    <3>3. 65536 + (a - 55296) * 1024 + b - 56320 \in Nat
      <4>1. 55296 <= a
        BY <2>6, <3>1, SMT
      <4> QED
        BY <2>4, <4>1, SMT
    <3> QED
      BY <3>1, <3>2, <3>3, SMT
  <2> QED
    BY <1>1, <1>5, <2>2, <2>5, SMT
<1>6. CASE ~IsLow(UnitAt(s, i)) /\ IsHigh(UnitAt(s, i)) /\ ~(i + 3 <= Len(s) /\ IsLow(UnitAt(s, i + 2)))
  <2>1. Utf16Next(s, i) = Invalid
    BY <1>6, SMT DEF Utf16Next
  <2> QED
    BY <1>1, <2>1, SMT DEF Invalid
<1>7. CASE ~IsLow(UnitAt(s, i)) /\ ~IsHigh(UnitAt(s, i))
  <2>1. Utf16Next(s, i) = [len |-> 2, cp |-> UnitAt(s, i)]
    BY <1>7, SMT DEF Utf16Next
  <2> QED
    BY <1>1, <1>3, <2>1, SMT
<1> QED
  BY <1>4, <1>5, <1>6, <1>7

WideFrom(s) ==
    CHOOSE f : f = [i \in 1..(Len(s) + 1) |->
                      IF i >= Len(s) THEN <<>>
                      ELSE LET char == Utf16Next(s, i) IN
                           IF char.len = 0 THEN Utf8(Replacement) \o f[i + 2]
                           ELSE Utf8(char.cp) \o f[i + char.len]]

\* What Wide makes of the units at i and behind.
LEMMA WideRead ==
    ASSUME NEW s \in Seq(Nat)
    PROVE  \E f : /\ \A i \in 1..(Len(s) + 1) : ~(i < Len(s)) => f[i] = <<>>
                  /\ \A i \in 1..(Len(s) + 1) : i < Len(s) /\ Utf16Next(s, i).len # 0 =>
                        f[i] = Utf8(Utf16Next(s, i).cp) \o f[i + Utf16Next(s, i).len]
                  /\ Wide(s) = f[1]
<1> DEFINE V == Seq(Nat)
           n == Len(s) + 1
           D == 1..n
           Char(i) == Utf16Next(s, i)
           Size(i) == IF Char(i).len = 0 THEN 2 ELSE Char(i).len
           Text(i) == IF Char(i).len = 0 THEN Utf8(Replacement) ELSE Utf8(Char(i).cp)
           base == {i \in D : ~(i < Len(s))}
           last == [i \in D |-> <<>>]
           next == [i \in D |-> i + Size(i)]
           step == [i \in D |-> [y \in V |-> Text(i) \o y]]
           Body(f, i) == IF i >= Len(s) THEN <<>>
                         ELSE IF Char(i).len = 0 THEN Utf8(Replacement) \o f[i + 2]
                              ELSE Utf8(Char(i).cp) \o f[i + Char(i).len]
<1>1. Len(s) \in Nat /\ n \in Nat /\ <<>> \in V /\ V # {}
  OBVIOUS
<1>2. \A i \in D : i \notin base <=> i \in 1..Len(s) /\ i < Len(s)
  BY <1>1
<1>15. Replacement \in Nat
  BY SMT DEF Replacement
<1> HIDE DEF base
<1>3. ASSUME NEW i \in D, i \notin base
      PROVE  Text(i) \in V /\ i + Size(i) \in D /\ i < i + Size(i)
  <2>1. /\ Char(i).len = 0 => i + 2 \in D /\ i < i + 2
        /\ Char(i).len # 0 => Char(i).cp \in Nat /\ i + Char(i).len \in D /\ i < i + Char(i).len
    BY <1>2, <1>3, Utf16Is
  <2> HIDE DEF Char, V, D
  <2>4. Text(i) \in V
    BY <1>15, <2>1, Utf8Is DEF V
  <2> QED
    BY <2>1, <2>4
<1>4. Grows(n, D, base, next)
  <2> HIDE DEF Size
  <2>1. \A i \in D : i \notin base => next[i] \in D /\ i < next[i]
    BY <1>3
  <2> QED
    BY <2>1 DEF Grows
<1>5. Gives(D, V, base, last, step)
  <2> HIDE DEF V, D, Text
  <2>1. \A i \in D : last[i] \in V
    BY <1>1
  <2>2. ASSUME NEW i \in D, i \notin base PROVE step[i] \in [V -> V]
    <3>1. Text(i) \in V
      BY <1>3, <2>2
    <3>2. \A y \in V : Text(i) \o y \in V
      BY <3>1, ConcatNumbers DEF V
    <3>3. [y \in V |-> Text(i) \o y] \in [V -> V]
      BY <3>2
    <3> QED
      BY <3>3, Zenon
  <2> HIDE DEF last, step
  <2> QED
    BY <1>1, <2>1, <2>2 DEF Gives
<1>6. PICK f \in [D -> V] : \A x \in D : f[x] = Result(base, last, next, step, f, x)
  <2> HIDE DEF n, D, V, last, next, step
  <2> QED
    BY <1>1, <1>4, <1>5, Recursion
<1>7. f = [i \in D |-> Body(f, i)]
  <2>1. ASSUME NEW i \in D PROVE f[i] = Body(f, i)
    <3>1. f[i] = Result(base, last, next, step, f, i)
      BY <1>6
    <3>2. CASE i \in base
      <4>1. f[i] = last[i]
        BY <3>1, <3>2, Zenon DEF Result
      <4>2. i >= Len(s)
        BY <1>1, <3>2 DEF base
      <4>3. f[i] = <<>>
        BY <4>1
      <4> QED
        BY <4>2, <4>3
    <3>3. CASE i \notin base
      <4>1. f[i] = step[i][f[next[i]]]
        BY <3>1, <3>3, Zenon DEF Result
      <4>2. next[i] = i + Size(i) /\ i + Size(i) \in D
        BY <1>3, <3>3, Zenon
      <4>3. f[i + Size(i)] \in V
        <5> HIDE DEF D, V, Size
        <5> QED
          BY <4>2
      <4>4. f[i] = Text(i) \o f[i + Size(i)]
        <5> HIDE DEF V, D, Text, Size
        <5>1. step[i] = [y \in V |-> Text(i) \o y]
          BY Zenon
        <5> QED
          BY <4>1, <4>2, <4>3, <5>1, Zenon
      <4>5. ~(i >= Len(s))
        BY <1>1, <1>2, <3>3
      <4>6. CASE Char(i).len = 0
        <5>1. Text(i) = Utf8(Replacement) /\ Size(i) = 2
          BY <4>6, Zenon
        <5> HIDE DEF Text, Size
        <5> QED
          BY <4>4, <4>5, <4>6, <5>1, Zenon
      <4>7. CASE Char(i).len # 0
        <5>1. Text(i) = Utf8(Char(i).cp) /\ Size(i) = Char(i).len
          BY <4>7, Zenon
        <5> HIDE DEF Text, Size
        <5> QED
          BY <4>4, <4>5, <4>7, <5>1, Zenon
      <4> QED
        BY <4>6, <4>7
    <3> QED
      BY <3>2, <3>3
  <2> HIDE DEF Body, D
  <2> QED
    BY <2>1
<1> DEFINE F == WideFrom(s)
<1>8. F = [i \in D |-> Body(F, i)]
  BY <1>7, Zenon DEF WideFrom
<1>9. \A i \in D : F[i] = Body(F, i)
  <2> HIDE DEF F, Body, D
  <2> QED
    BY <1>8
<1>10. Wide(s) = F[1]
  BY Zenon DEF Wide, WideFrom
<1> HIDE DEF F
<1>11. \A i \in D : ~(i < Len(s)) => F[i] = <<>>
  <2> SUFFICES ASSUME NEW i \in D, ~(i < Len(s)) PROVE F[i] = <<>>
    OBVIOUS
  <2>1. i >= Len(s)
    BY <1>1
  <2> HIDE DEF D, Char
  <2> QED
    BY <1>9, <2>1
<1>12. \A i \in D : i < Len(s) /\ Char(i).len # 0 => F[i] = Utf8(Char(i).cp) \o F[i + Char(i).len]
  <2> SUFFICES ASSUME NEW i \in D, i < Len(s), Char(i).len # 0
               PROVE  F[i] = Utf8(Char(i).cp) \o F[i + Char(i).len]
    OBVIOUS
  <2>1. ~(i >= Len(s))
    BY <1>1
  <2> HIDE DEF D, Char
  <2> QED
    BY <1>9, <2>1
<1> QED
  BY <1>10, <1>11, <1>12, Zenon

\* A character and what is behind it.
LEMMA TextBehind ==
    ASSUME NEW s \in Seq(Nat), NEW p \in 1..Len(s), Utf8Next(s, p).len # 0
    PROVE  LET n == p + Utf8Next(s, p).len IN
           /\ n \in 1..(Len(s) + 1)
           /\ Utf8(Utf8Next(s, p).cp) \o SubSeq(s, n, Len(s)) = SubSeq(s, p, Len(s))
<1>1. PICK l : l = Utf8Next(s, p).len
  OBVIOUS
<1>2. PICK u : u = Utf8(Utf8Next(s, p).cp)
  OBVIOUS
<1>3. CharAt(s, p)
  BY CharBack
<1>4. l \in 1..4 /\ p + l - 1 <= Len(s) /\ u = SubSeq(s, p, p + l - 1)
  BY <1>1, <1>2, <1>3, Zenon DEF CharAt
<1>5. Len(s) \in Nat /\ p \in Nat /\ l \in Nat /\ p + l \in 1..(Len(s) + 1)
  BY <1>4
<1>6. /\ p \in 1..(Len(s) + 1) /\ p + l - 1 \in (p - 1)..Len(s) /\ Len(s) \in (p + l - 1)..Len(s)
      /\ (p + l - 1) + 1 = p + l
  BY <1>4, <1>5
<1>7. SubSeq(s, p, p + l - 1) \o SubSeq(s, (p + l - 1) + 1, Len(s)) = SubSeq(s, p, Len(s))
  BY <1>6, ConcatAdjacentSubSeq
<1>8. u \o SubSeq(s, p + l, Len(s)) = SubSeq(s, p, Len(s))
  BY <1>4, <1>6, <1>7, Zenon
<1> QED
  BY <1>1, <1>2, <1>5, <1>8, Zenon

\* The gateway reads the units that smset wrote, and there are no halves of them.
LEMMA WideBack ==
    ASSUME NEW s \in Seq(Nat), NEW t \in Seq(Nat), NEW M, Linked("UCS2", s, t, Len(s) + 1, M)
    PROVE  Wide(t) = s /\ Len(t) % 2 = 0
<1>1. PICK f : /\ \A i \in 1..(Len(t) + 1) : ~(i < Len(t)) => f[i] = <<>>
               /\ \A i \in 1..(Len(t) + 1) : i < Len(t) /\ Utf16Next(t, i).len # 0 =>
                     f[i] = Utf8(Utf16Next(t, i).cp) \o f[i + Utf16Next(t, i).len]
               /\ Wide(t) = f[1]
  BY WideRead
<1>2. Len(t) \in Nat /\ Len(s) \in Nat
  OBVIOUS
<1> DEFINE n == Len(t) + 1
           Rest(p, q) == f[q] = SubSeq(s, p, Len(s)) /\ (n - q) % 2 = 0
           good == {q \in 1..n : \A p \in Nat : <<p, q>> \in M => Rest(p, q)}
<1>3. ASSUME NEW q \in 1..n, \A j \in 1..n : q < j => j \in good, NEW p \in Nat, <<p, q>> \in M
      PROVE  Rest(p, q)
  <2>0. q \in Nat
    BY <1>2
  <2>1. (p = Len(s) + 1 /\ q = n) \/ Passed("UCS2", s, t, M, p, q)
    BY <1>3, <2>0, Zenon DEF Linked
  <2>2. CASE p = Len(s) + 1 /\ q = n
    <3>1. f[n] = <<>>
      BY <1>1, <1>2
    <3>2. SubSeq(s, Len(s) + 1, Len(s)) = <<>>
      BY <1>2
    <3>3. (n - n) % 2 = 0
      BY <1>2
    <3> HIDE DEF n
    <3> QED
      BY <2>2, <3>1, <3>2, <3>3, Zenon
  <2>3. CASE Passed("UCS2", s, t, M, p, q)
    <3>1. PICK c : c = Utf8Next(s, p).cp
      OBVIOUS
    <3>2. PICK k : k = Len(Utf16(c))
      OBVIOUS
    <3>3. p \in 1..Len(s) /\ q \in 1..Len(t) /\ Utf8Next(s, p).len # 0
      BY <2>3, Zenon DEF Passed
    <3>4. Code("UCS2", s, p) = Utf16(c)
      BY <3>1, SMT DEF Code
    <3>5. CharAt(s, p)
      BY <3>3, CharBack
    <3>6. Scalar(c)
      BY <3>1, <3>5, Zenon DEF CharAt
    <3>7. k = 2 \/ k = 4
      <4>1. Utf16(c) \in Seq(Nat) /\ (Len(Utf16(c)) = 2 \/ Len(Utf16(c)) = 4)
        BY <3>6, UnitsAre, SMT
      <4> QED
        BY <3>2, <4>1, Zenon
    <3>8. q + k - 1 <= Len(t) /\ <<p + Utf8Next(s, p).len, q + k>> \in M
      BY <2>3, <3>2, <3>4, Zenon DEF Passed, Stands
    <3>9. Utf16Next(t, q).len = k /\ Utf16Next(t, q).cp = c
      <4>1. Utf16Next(t, q).len = Len(Code("UCS2", s, p)) /\ Utf16Next(t, q).cp = Utf8Next(s, p).cp
        BY <2>0, <2>3, CharRead
      <4> QED
        BY <3>1, <3>2, <3>4, <4>1, Zenon
    <3>10. /\ q < Len(t) /\ q + k \in 1..n /\ q < q + k /\ k # 0
           /\ (n - (q + k)) % 2 = 0 => (n - q) % 2 = 0
      <4>1. \A l, m \in Nat : \A j \in {2, 4} : m + j - 1 <= l /\ 1 <= m =>
                /\ m < l /\ m + j \in 1..(l + 1) /\ m < m + j
                /\ (l + 1 - (m + j)) % 2 = 0 => (l + 1 - m) % 2 = 0
        OBVIOUS
      <4>2. k \in {2, 4} /\ 1 <= q
        BY <3>3, <3>7
      <4>3. k # 0
        BY <3>7
      <4>4. /\ q < Len(t) /\ q + k \in 1..(Len(t) + 1) /\ q < q + k
            /\ (Len(t) + 1 - (q + k)) % 2 = 0 => (Len(t) + 1 - q) % 2 = 0
        BY <1>2, <2>0, <3>8, <4>1, <4>2, Zenon
      <4> QED
        BY <4>3, <4>4
    <3>11. f[q] = Utf8(c) \o f[q + k]
      BY <1>1, <3>9, <3>10
    <3>12. PICK m : m = p + Utf8Next(s, p).len
      OBVIOUS
    <3>13. m \in 1..(Len(s) + 1) /\ Utf8(c) \o SubSeq(s, m, Len(s)) = SubSeq(s, p, Len(s))
      BY <3>1, <3>3, <3>12, TextBehind, Zenon
    <3>14. m \in Nat /\ <<m, q + k>> \in M
      BY <1>2, <3>8, <3>12, <3>13
    <3>15. q + k \in good
      BY <1>3, <3>10
    <3>16. Rest(m, q + k)
      BY <3>14, <3>15
    <3> QED
      <4> HIDE DEF n
      <4> QED
        BY <3>10, <3>11, <3>13, <3>16, Zenon
  <2> QED
    BY <2>1, <2>2, <2>3
<1>4. 1 \in good
  <2>1. \A q \in 1..n : (\A j \in 1..n : q < j => j \in good) => q \in good
    <3> HIDE DEF Rest, n
    <3> QED
      BY <1>3
  <2>2. n \in Nat /\ 1 \in 1..n
    BY <1>2
  <2> HIDE DEF good, n
  <2> QED
    BY <2>1, <2>2, Backwards
<1>5. Rest(1, 1)
  <2>1. <<1, 1>> \in M
    BY Zenon DEF Linked
  <2> HIDE DEF Rest
  <2> QED
    BY <1>4, <2>1
<1>6. SubSeq(s, 1, Len(s)) = s /\ (Len(t) + 1 - 1) = Len(t)
  BY <1>2
<1>7. n - 1 = Len(t)
  BY <1>2
<1> HIDE DEF n
<1> QED
  BY <1>1, <1>5, <1>6, <1>7, Zenon

-----------------------------------------------------------------------------
(* The information elements of a header                                    *)

\* What the element at place i says of the concatenation.
Narrow(ud, i) == [concat |-> TRUE, wide |-> FALSE, ref |-> ud[i + 2],
                  total |-> ud[i + 3], part |-> ud[i + 4]]
Broad(ud, i) == [concat |-> TRUE, wide |-> TRUE, ref |-> ud[i + 2] * 256 + ud[i + 3],
                 total |-> ud[i + 4], part |-> ud[i + 5]]
Ends(ud, i) == i > ud[1] \/ i + ud[i + 1] > ud[1]
IsNarrow(ud, i) == ud[i] = 0 /\ ud[i + 1] = 3
IsBroad(ud, i) == ud[i] = 8 /\ ud[i + 1] = 4

ConcatenationFrom(ud) ==
    CHOOSE f : f = [i \in 2..(ud[1] + 2) |->
                      IF Ends(ud, i) THEN NotConcat
                      ELSE IF IsNarrow(ud, i) THEN Narrow(ud, i)
                      ELSE IF IsBroad(ud, i) THEN Broad(ud, i)
                      ELSE f[i + 2 + ud[i + 1]]]

\* What the elements at i and behind say, if the header fits.
LEMMA ConcatenationRead ==
    ASSUME NEW ud \in Seq(Nat), 1 \in 1..Len(ud), 1 + ud[1] <= Len(ud)
    PROVE  \E f : /\ Concatenation(ud) = f[2]
                  /\ \A i \in 2..(ud[1] + 2) :
                        f[i] = IF Ends(ud, i) THEN NotConcat
                               ELSE IF IsNarrow(ud, i) THEN Narrow(ud, i)
                               ELSE IF IsBroad(ud, i) THEN Broad(ud, i)
                               ELSE f[i + 2 + ud[i + 1]]
<1> DEFINE n == ud[1] + 2
           D == 2..n
           base == {i \in D : Ends(ud, i) \/ IsNarrow(ud, i) \/ IsBroad(ud, i)}
           Here(i) == IF Ends(ud, i) THEN NotConcat
                      ELSE IF IsNarrow(ud, i) THEN Narrow(ud, i) ELSE Broad(ud, i)
           last == [i \in D |-> Here(i)]
           V == {Here(i) : i \in D}
           next == [i \in D |-> i + 2 + ud[i + 1]]
           step == [i \in D |-> [y \in V |-> y]]
           Body(f, i) == IF Ends(ud, i) THEN NotConcat
                         ELSE IF IsNarrow(ud, i) THEN Narrow(ud, i)
                         ELSE IF IsBroad(ud, i) THEN Broad(ud, i)
                         ELSE f[i + 2 + ud[i + 1]]
<1>1. ud[1] \in Nat /\ n \in Nat /\ 2 \in D /\ Len(ud) \in Nat
  BY SMT
<1>2. ASSUME NEW i \in D, ~Ends(ud, i)
      PROVE  ud[i + 1] \in Nat /\ i + 2 + ud[i + 1] \in D /\ i < i + 2 + ud[i + 1]
  <2>1. i \in Nat /\ 2 <= i /\ ~(i > ud[1])
    BY <1>1, <1>2, SMT DEF Ends
  <2>2. i + 1 \in 1..Len(ud)
    BY <1>1, <2>1, SMT
  <2>3. ud[i + 1] \in Nat
    BY <2>2
  <2>4. ~(i + ud[i + 1] > ud[1])
    BY <1>2, SMT DEF Ends
  <2>5. \A a, b, c \in Nat : 2 <= a /\ ~(a + b > c) => a + 2 + b \in 2..(c + 2) /\ a < a + 2 + b
    BY SMT
  <2> QED
    BY <1>1, <2>1, <2>3, <2>4, <2>5, Zenon
<1> HIDE DEF n
<1>3. Grows(n, D, base, next)
  <2>1. D \in SUBSET (1..n)
    BY <1>1
  <2>2. ASSUME NEW i \in D, i \notin base PROVE next[i] \in D /\ i < next[i]
    <3>1. ~Ends(ud, i)
      BY <2>2
    <3> HIDE DEF D
    <3> QED
      BY <1>2, <3>1
  <2> HIDE DEF D, base, next
  <2> QED
    BY <2>1, <2>2 DEF Grows
<1>4. Gives(D, V, base, last, step)
  <2> HIDE DEF Here, D
  <2>1. \A i \in D : last[i] \in V
    OBVIOUS
  <2>2. V # {}
    BY <1>1
  <2>3. \A i \in D : step[i] \in [V -> V]
    <3> HIDE DEF V
    <3> QED
      OBVIOUS
  <2> HIDE DEF V, last, step, base
  <2> QED
    BY <2>1, <2>2, <2>3 DEF Gives
<1>5. PICK f \in [D -> V] : \A x \in D : f[x] = Result(base, last, next, step, f, x)
  <2> HIDE DEF D, V, base, last, next, step
  <2> QED
    BY <1>1, <1>3, <1>4, Recursion
<1>6. f = [i \in D |-> Body(f, i)]
  <2>1. ASSUME NEW i \in D PROVE f[i] = Body(f, i)
    <3>1. f[i] = Result(base, last, next, step, f, i)
      BY <1>5
    <3>2. CASE i \in base
      <4>1. f[i] = last[i] /\ last[i] = Here(i)
        <5> HIDE DEF Here, D, base
        <5> QED
          BY <3>1, <3>2, Zenon DEF Result
      <4>2. Here(i) = Body(f, i)
        <5> HIDE DEF D
        <5> QED
          BY <3>2, Zenon
      <4> QED
        BY <4>1, <4>2, Zenon
    <3>3. CASE i \notin base
      <4>1. f[i] = step[i][f[next[i]]]
        BY <3>1, <3>3, Zenon DEF Result
      <4>2. ~Ends(ud, i) /\ ~IsNarrow(ud, i) /\ ~IsBroad(ud, i)
        <5> HIDE DEF D
        <5> QED
          BY <3>3, Zenon
      <4>3. next[i] = i + 2 + ud[i + 1] /\ i + 2 + ud[i + 1] \in D
        BY <1>2, <4>2, Zenon
      <4>4. f[i] = f[i + 2 + ud[i + 1]]
        <5>1. f[next[i]] \in V
          <6> HIDE DEF V, D
          <6> QED
            BY <4>3
        <5>2. step[i] = [y \in V |-> y]
          BY Zenon
        <5> HIDE DEF V, step, next
        <5> QED
          BY <4>1, <4>3, <5>1, <5>2, Zenon
      <4> QED
        BY <4>2, <4>4, Zenon
    <3> QED
      BY <3>2, <3>3
  <2> HIDE DEF Body, D
  <2> QED
    BY <2>1
<1> DEFINE F == ConcatenationFrom(ud)
<1>7. F = [i \in D |-> Body(F, i)]
  BY <1>6, Zenon DEF ConcatenationFrom, n
<1>8. Concatenation(ud) = F[2]
  BY Zenon DEF Concatenation, ConcatenationFrom, Ends, IsNarrow, IsBroad, Narrow, Broad
<1> HIDE DEF F
<1>9. \A i \in D : F[i] = Body(F, i)
  <2> HIDE DEF Body, D
  <2> QED
    BY <1>7
<1> QED
  BY <1>8, <1>9, Zenon DEF n

\* A header of a part says so whatever stands behind it.
LEMMA HeaderRead ==
    ASSUME NEW k \in Nat, NEW h \in Headers(k), NEW ud \in Seq(Nat)
    PROVE  /\ h \in Seq(Nat) /\ Len(h) > 1 /\ h[1] + 1 = Len(h)
           /\ LET c == Concatenation(h \o ud)
              IN  c.concat = TRUE /\ c.ref = 5 /\ c.total = 2 /\ c.part = k
<1> DEFINE x == h \o ud
<1>1. Len(ud) \in Nat
  OBVIOUS
<1>2. ASSUME h \in Seq(Nat), Len(h) > 1, h[1] + 1 = Len(h)
      PROVE  /\ x \in Seq(Nat) /\ \A i \in 1..Len(h) : x[i] = h[i]
             /\ 1 \in 1..Len(x) /\ 1 + x[1] <= Len(x)
  <2>1. /\ x \in Seq(Nat) /\ Len(x) = Len(h) + Len(ud) /\ Len(h) \in Nat
        /\ \A i \in 1..(Len(h) + Len(ud)) : x[i] = IF i <= Len(h) THEN h[i] ELSE ud[i - Len(h)]
    BY <1>2, ConcatNumbers
  <2> HIDE DEF x
  <2>2. \A i \in 1..Len(h) : x[i] = h[i]
    BY <1>1, <2>1
  <2> QED
    BY SMTT(30), <1>1, <1>2, <2>1, <2>2
<1> HIDE DEF x
<1>4. CASE h = <<5, 0, 3, 5, 2, k>>
  <2>1. h \in Seq(Nat) /\ Len(h) = 6 /\ h[1] = 5 /\ h[2] = 0 /\ h[3] = 3 /\ h[4] = 5 /\ h[5] = 2 /\ h[6] = k
    BY <1>4
  <2>2. /\ x \in Seq(Nat) /\ 1 \in 1..Len(x) /\ 1 + x[1] <= Len(x)
        /\ x[1] = 5 /\ x[2] = 0 /\ x[3] = 3 /\ x[4] = 5 /\ x[5] = 2 /\ x[6] = k
    BY <1>2, <2>1
  <2>3. PICK f : /\ Concatenation(x) = f[2]
                 /\ \A i \in 2..(x[1] + 2) :
                        f[i] = IF Ends(x, i) THEN NotConcat
                               ELSE IF IsNarrow(x, i) THEN Narrow(x, i)
                               ELSE IF IsBroad(x, i) THEN Broad(x, i)
                               ELSE f[i + 2 + x[i + 1]]
    BY <2>2, ConcatenationRead
  <2>4. ~Ends(x, 2) /\ IsNarrow(x, 2) /\ 2 \in 2..(x[1] + 2)
    BY <2>2, SMTT(30) DEF Ends, IsNarrow
  <2>5. Concatenation(x) = Narrow(x, 2)
    BY <2>3, <2>4, Zenon
  <2>8. /\ Concatenation(x).concat = TRUE /\ Concatenation(x).ref = 5
        /\ Concatenation(x).total = 2 /\ Concatenation(x).part = k
    <3>1. 2 + 2 = 4 /\ 2 + 3 = 5 /\ 2 + 4 = 6
      BY SMT
    <3>2. x[2 + 2] = 5 /\ x[2 + 3] = 2 /\ x[2 + 4] = k
      BY <2>2, <3>1, Zenon
    <3>3. Narrow(x, 2) = [concat |-> TRUE, wide |-> FALSE, ref |-> 5, total |-> 2, part |-> k]
      BY <3>2, Zenon DEF Narrow
    <3>4. PICK c : c = [concat |-> TRUE, wide |-> FALSE, ref |-> 5, total |-> 2, part |-> k]
      OBVIOUS
    <3>5. c.concat = TRUE /\ c.ref = 5 /\ c.total = 2 /\ c.part = k
      BY <3>4
    <3> QED
      BY <2>5, <3>3, <3>4, <3>5, Zenon
  <2>9. Len(h) > 1 /\ h[1] + 1 = Len(h)
    BY <2>1, SMT
  <2> QED
    BY <2>1, <2>8, <2>9, Zenon DEF x
<1>5. CASE h = <<6, 8, 4, 0, 5, 2, k>>
  <2>1. /\ h \in Seq(Nat) /\ Len(h) = 7 /\ h[1] = 6 /\ h[2] = 8 /\ h[3] = 4 /\ h[4] = 0
        /\ h[5] = 5 /\ h[6] = 2 /\ h[7] = k
    BY <1>5
  <2>2. /\ x \in Seq(Nat) /\ 1 \in 1..Len(x) /\ 1 + x[1] <= Len(x)
        /\ x[1] = 6 /\ x[2] = 8 /\ x[3] = 4 /\ x[4] = 0 /\ x[5] = 5 /\ x[6] = 2 /\ x[7] = k
    BY <1>2, <2>1
  <2>3. PICK f : /\ Concatenation(x) = f[2]
                 /\ \A i \in 2..(x[1] + 2) :
                        f[i] = IF Ends(x, i) THEN NotConcat
                               ELSE IF IsNarrow(x, i) THEN Narrow(x, i)
                               ELSE IF IsBroad(x, i) THEN Broad(x, i)
                               ELSE f[i + 2 + x[i + 1]]
    BY <2>2, ConcatenationRead
  <2>4. ~Ends(x, 2) /\ ~IsNarrow(x, 2) /\ IsBroad(x, 2) /\ 2 \in 2..(x[1] + 2)
    BY <2>2, SMTT(30) DEF Ends, IsNarrow, IsBroad
  <2>5. Concatenation(x) = Broad(x, 2)
    BY <2>3, <2>4, Zenon
  <2>8. /\ Concatenation(x).concat = TRUE /\ Concatenation(x).ref = 5
        /\ Concatenation(x).total = 2 /\ Concatenation(x).part = k
    <3>1. 2 + 2 = 4 /\ 2 + 3 = 5 /\ 2 + 4 = 6 /\ 2 + 5 = 7 /\ 0 * 256 + 5 = 5
      BY SMT
    <3>2. x[2 + 2] = 0 /\ x[2 + 3] = 5 /\ x[2 + 4] = 2 /\ x[2 + 5] = k
      BY <2>2, <3>1, Zenon
    <3>3. Broad(x, 2) = [concat |-> TRUE, wide |-> TRUE, ref |-> 5, total |-> 2, part |-> k]
      BY <3>2, <3>1, Zenon DEF Broad
    <3>4. PICK c : c = [concat |-> TRUE, wide |-> TRUE, ref |-> 5, total |-> 2, part |-> k]
      OBVIOUS
    <3>5. c.concat = TRUE /\ c.ref = 5 /\ c.total = 2 /\ c.part = k
      BY <3>4
    <3> QED
      BY <2>5, <3>3, <3>4, <3>5, Zenon
  <2>9. Len(h) > 1 /\ h[1] + 1 = Len(h)
    BY <2>1, SMT
  <2> QED
    BY <2>1, <2>8, <2>9, Zenon DEF x
<1>6. CASE h = <<10, 36, 3, 8, 4, 1, 0, 3, 5, 2, k>>
  <2>1. /\ h \in Seq(Nat) /\ Len(h) = 11 /\ h[1] = 10 /\ h[2] = 36 /\ h[3] = 3 /\ h[7] = 0
        /\ h[8] = 3 /\ h[9] = 5 /\ h[10] = 2 /\ h[11] = k
    BY <1>6
  <2>2. /\ x \in Seq(Nat) /\ 1 \in 1..Len(x) /\ 1 + x[1] <= Len(x)
        /\ x[1] = 10 /\ x[2] = 36 /\ x[3] = 3 /\ x[7] = 0 /\ x[8] = 3 /\ x[9] = 5 /\ x[10] = 2 /\ x[11] = k
    BY <1>2, <2>1
  <2>3. PICK f : /\ Concatenation(x) = f[2]
                 /\ \A i \in 2..(x[1] + 2) :
                        f[i] = IF Ends(x, i) THEN NotConcat
                               ELSE IF IsNarrow(x, i) THEN Narrow(x, i)
                               ELSE IF IsBroad(x, i) THEN Broad(x, i)
                               ELSE f[i + 2 + x[i + 1]]
    BY <2>2, ConcatenationRead
  <2>4. /\ ~Ends(x, 2) /\ ~IsNarrow(x, 2) /\ ~IsBroad(x, 2) /\ 2 \in 2..(x[1] + 2)
        /\ 2 + 2 + x[2 + 1] = 7
        /\ ~Ends(x, 7) /\ IsNarrow(x, 7) /\ 7 \in 2..(x[1] + 2)
    <3>1. 2 + 1 = 3 /\ 7 + 1 = 8
      BY SMT
    <3>2. x[2 + 1] = 3 /\ x[7 + 1] = 3
      BY <2>2, <3>1, Zenon
    <3>3. ~Ends(x, 2) /\ ~Ends(x, 7)
      BY <2>2, <3>2, SMT DEF Ends
    <3>4. ~IsNarrow(x, 2) /\ ~IsBroad(x, 2)
      BY <2>2, SMT DEF IsNarrow, IsBroad
    <3>5. IsNarrow(x, 7)
      BY <2>2, <3>2, Zenon DEF IsNarrow
    <3> QED
      BY <2>2, <3>2, <3>3, <3>4, <3>5, SMT
  <2>6. f[2] = f[2 + 2 + x[2 + 1]]
    BY <2>3, <2>4, Zenon
  <2>7. f[7] = Narrow(x, 7)
    BY <2>3, <2>4, Zenon
  <2>5. Concatenation(x) = Narrow(x, 7)
    BY <2>3, <2>4, <2>6, <2>7, Zenon
  <2>8. /\ Concatenation(x).concat = TRUE /\ Concatenation(x).ref = 5
        /\ Concatenation(x).total = 2 /\ Concatenation(x).part = k
    <3>1. 7 + 2 = 9 /\ 7 + 3 = 10 /\ 7 + 4 = 11
      BY SMT
    <3>2. x[7 + 2] = 5 /\ x[7 + 3] = 2 /\ x[7 + 4] = k
      BY <2>2, <3>1, Zenon
    <3>3. Narrow(x, 7) = [concat |-> TRUE, wide |-> FALSE, ref |-> 5, total |-> 2, part |-> k]
      BY <3>2, Zenon DEF Narrow
    <3>4. PICK c : c = [concat |-> TRUE, wide |-> FALSE, ref |-> 5, total |-> 2, part |-> k]
      OBVIOUS
    <3>5. c.concat = TRUE /\ c.ref = 5 /\ c.total = 2 /\ c.part = k
      BY <3>4
    <3> QED
      BY <2>5, <3>3, <3>4, <3>5, Zenon
  <2>9. Len(h) > 1 /\ h[1] + 1 = Len(h)
    BY <2>1, SMT
  <2> QED
    BY <2>1, <2>8, <2>9, Zenon DEF x
<1> QED
  BY <1>4, <1>5, <1>6 DEF Headers

-----------------------------------------------------------------------------
(* What parse_raw_pdu finds in a message of the center                     *)

\* The last octets of a sequence.
LEMMA LastPart ==
    ASSUME NEW a \in Seq(Nat), NEW b \in Seq(Nat)
    PROVE  SubSeq(a \o b, Len(a) + 1, Len(a) + Len(b)) = b
<1> DEFINE c == a \o b
           l == Len(a)
           m == Len(b)
<1>1. /\ c \in Seq(Nat) /\ Len(c) = l + m /\ l \in Nat /\ m \in Nat
      /\ \A i \in 1..(l + m) : c[i] = IF i <= l THEN a[i] ELSE b[i - l]
  BY ConcatNumbers
<1>2. \A i \in 1..m : b[i] \in Nat
  OBVIOUS
<1> HIDE DEF c, l, m
<1>3. \A i \in 1..m : l + i \in 1..(l + m) /\ ~(l + i <= l) /\ (l + i) - l = i /\ (l + 1) + i - 1 = l + i
  BY <1>1
<1>4. \A i \in 1..m : c[l + i] = b[i]
  BY <1>1, <1>3
<1>5. \A i \in (l + 1)..(l + m) : c[i] \in Nat
  <2>1. \A i \in (l + 1)..(l + m) : i \in 1..Len(c)
    BY <1>1
  <2> QED
    BY <1>1, <2>1
<1> DEFINE d == SubSeq(c, l + 1, l + m)
<1>6. /\ d \in Seq(Nat) /\ Len(d) = m
      /\ \A i \in 1..m : d[i] = c[(l + 1) + i - 1]
  <2>1. /\ d \in Seq(Nat)
        /\ Len(d) = (IF l + 1 <= l + m THEN (l + m) - (l + 1) + 1 ELSE 0)
        /\ \A i \in 1..((l + m) - (l + 1) + 1) : d[i] = c[(l + 1) + i - 1]
    <3>1. PICK p \in Int : p = l + 1
      BY <1>1
    <3>2. PICK q \in Int : q = l + m
      BY <1>1
    <3>3. \A i \in p..q : c[i] \in Nat
      BY <1>5, <3>1, <3>2, Zenon
    <3>4. PICK e : e = SubSeq(c, p, q)
      OBVIOUS
    <3>5. /\ e \in Seq(Nat) /\ Len(e) = (IF p <= q THEN q - p + 1 ELSE 0)
          /\ \A i \in 1..(q - p + 1) : e[i] = c[p + i - 1]
      BY <3>3, <3>4, SubSeqProperties
    <3>6. d = e
      BY <3>1, <3>2, <3>4, Zenon
    <3> QED
      BY <3>1, <3>2, <3>5, <3>6, Zenon
  <2>2. (IF l + 1 <= l + m THEN (l + m) - (l + 1) + 1 ELSE 0) = m /\ (l + m) - (l + 1) + 1 = m
    BY <1>1
  <2> HIDE DEF d
  <2> QED
    BY <2>1, <2>2, Zenon
<1> HIDE DEF d
<1>7. \A i \in 1..m : d[i] = b[i]
  BY <1>3, <1>4, <1>6
<1>8. d = b
  BY <1>6, <1>7, SeqEqual DEF m
<1> QED
  BY <1>8 DEF d, c, l, m

\* A name that keeps the provers from taking a concatenation apart.
Behind(s, t) == s \o t

\* Joined from the left or with the last three first.
LEMMA FiveAssociate ==
    ASSUME NEW a \in Seq(Nat), NEW b \in Seq(Nat), NEW c \in Seq(Nat), NEW d \in Seq(Nat),
           NEW e \in Seq(Nat)
    PROVE  Behind(Behind(Behind(Behind(a, b), c), d), e) = Behind(Behind(a, b), Behind(c, Behind(d, e)))
<1>1. \A s, t, u \in Seq(Nat) : Behind(Behind(s, t), u) = Behind(s, Behind(t, u))
  BY NumbersAssociate DEF Behind
<1>2. \A s, t \in Seq(Nat) : Behind(s, t) \in Seq(Nat)
  BY ConcatNumbers DEF Behind
<1>3. PICK p \in Seq(Nat) : p = Behind(a, b)
  BY <1>2
<1>4. PICK q \in Seq(Nat) : q = Behind(d, e)
  BY <1>2
<1>5. PICK r \in Seq(Nat) : r = Behind(p, c)
  BY <1>2
<1>6. Behind(Behind(r, d), e) = Behind(r, Behind(d, e))
  BY <1>1
<1>7. Behind(Behind(p, c), q) = Behind(p, Behind(c, q))
  BY <1>1
<1>8. Behind(Behind(Behind(Behind(a, b), c), d), e) = Behind(Behind(a, b), Behind(c, Behind(d, e)))
  BY <1>3, <1>4, <1>5, <1>6, <1>7, Zenon
<1> QED
  BY <1>8

\* Five parts in a row, each where the ones before it end.
Row(a, b, c, d, e) ==
    LET x == a \o b \o c \o d \o e
    IN  /\ x \in Seq(Nat) /\ Len(x) = Len(a) + Len(b) + Len(c) + Len(d) + Len(e)
        /\ \A i \in 1..Len(a) : x[i] = a[i]
        /\ \A i \in 1..Len(b) : x[Len(a) + i] = b[i]
        /\ \A i \in 1..Len(d) : x[Len(a) + Len(b) + Len(c) + i] = d[i]
        /\ SubSeq(x, Len(a) + Len(b) + Len(c) + Len(d) + 1, Len(x)) = e
        /\ SubSeq(x, Len(a) + Len(b) + 1, Len(x)) = c \o (d \o e)

\* They are.
LEMMA InFive ==
    ASSUME NEW a \in Seq(Nat), NEW b \in Seq(Nat), NEW c \in Seq(Nat), NEW d \in Seq(Nat),
           NEW e \in Seq(Nat)
    PROVE  Row(a, b, c, d, e)
<1>18. PICK ab \in Seq(Nat) : ab = a \o b
  BY ConcatNumbers
<1>19. PICK abc \in Seq(Nat) : abc = ab \o c
  BY ConcatNumbers
<1>20. PICK abcd \in Seq(Nat) : abcd = abc \o d
  BY ConcatNumbers
<1>21. PICK x : x = abcd \o e
  OBVIOUS
<1>1. /\ ab \in Seq(Nat) /\ Len(ab) = Len(a) + Len(b) /\ Len(a) \in Nat /\ Len(b) \in Nat
      /\ \A i \in 1..(Len(a) + Len(b)) : ab[i] = IF i <= Len(a) THEN a[i] ELSE b[i - Len(a)]
  BY <1>18, ConcatNumbers
<1>2. /\ abc \in Seq(Nat) /\ Len(abc) = Len(ab) + Len(c) /\ Len(c) \in Nat
      /\ \A i \in 1..(Len(ab) + Len(c)) : abc[i] = IF i <= Len(ab) THEN ab[i] ELSE c[i - Len(ab)]
  BY ZenonT(60), <1>1, <1>19, ConcatNumbers
<1>3. /\ abcd \in Seq(Nat) /\ Len(abcd) = Len(abc) + Len(d) /\ Len(d) \in Nat
      /\ \A i \in 1..(Len(abc) + Len(d)) : abcd[i] = IF i <= Len(abc) THEN abc[i] ELSE d[i - Len(abc)]
  BY ZenonT(60), <1>2, <1>20, ConcatNumbers
<1>4. /\ x \in Seq(Nat) /\ Len(x) = Len(abcd) + Len(e) /\ Len(e) \in Nat
      /\ \A i \in 1..(Len(abcd) + Len(e)) : x[i] = IF i <= Len(abcd) THEN abcd[i] ELSE e[i - Len(abcd)]
  BY ZenonT(60), <1>3, <1>21, ConcatNumbers
<1>5. SubSeq(x, Len(abcd) + 1, Len(abcd) + Len(e)) = e
  BY <1>3, <1>21, LastPart
<1>6. x = ab \o (c \o (d \o e))
  <2>1. x = a \o b \o c \o d \o e
    BY <1>18, <1>19, <1>20, <1>21, Zenon
  <2> QED
    <3>1. a \o b \o c \o d \o e = (a \o b) \o (c \o (d \o e))
      <4>1. Behind(Behind(Behind(Behind(a, b), c), d), e) = Behind(Behind(a, b), Behind(c, Behind(d, e)))
        BY FiveAssociate
      <4> QED
        BY <4>1, Zenon DEF Behind
    <3> QED
      BY <1>18, <2>1, <3>1, Zenon
<1>7. SubSeq(x, Len(ab) + 1, Len(x)) = c \o (d \o e)
  <2>1. c \o (d \o e) \in Seq(Nat) /\ Len(c \o (d \o e)) = Len(c) + (Len(d) + Len(e))
    <3>1. d \o e \in Seq(Nat) /\ Len(d \o e) = Len(d) + Len(e)
      BY ConcatNumbers
    <3> QED
      BY <3>1, ConcatNumbers
  <2>2. SubSeq(ab \o (c \o (d \o e)), Len(ab) + 1, Len(ab) + Len(c \o (d \o e))) = c \o (d \o e)
    BY <1>1, <2>1, LastPart
  <2>3. Len(x) = Len(ab) + Len(c \o (d \o e))
    <3> QED
      BY <1>1, <1>2, <1>3, <1>4, <2>1
  <2> QED
    BY <1>6, <2>2, <2>3, Zenon
<1>16. /\ Len(ab) \in Nat /\ Len(abc) \in Nat /\ Len(abcd) \in Nat
       /\ Len(abcd) = Len(abc) + Len(d)
  BY <1>1, <1>2, <1>3
<1>17. \A l, m, n \in Nat :
        /\ \A i \in 1..l : i \in 1..(l + m) /\ i <= l /\ i \in 1..(l + m + n) /\ i <= l + m
        /\ \A i \in 1..m : /\ l + i \in 1..(l + m) /\ l + i \in 1..(l + m + n) /\ l + i <= l + m
                          /\ ~(l + i <= l) /\ (l + i) - l = i
  OBVIOUS
<1>8. \A i \in 1..Len(abc) : x[i] = abc[i]
  <2>1. \A i \in 1..Len(abc) : i \in 1..(Len(abc) + Len(d)) /\ i \in 1..(Len(abcd) + Len(e)) /\ i <= Len(abcd) /\ i <= Len(abc)
    BY <1>3, <1>4, <1>16, <1>17, Zenon
  <2> QED
    BY <1>3, <1>4, <2>1
<1>9. \A i \in 1..Len(ab) : x[i] = ab[i]
  <2>1. \A i \in 1..Len(ab) : i \in 1..(Len(ab) + Len(c)) /\ i \in 1..Len(abc) /\ i <= Len(ab)
    BY <1>1, <1>2
  <2> QED
    BY <1>2, <1>8, <2>1
<1>10. \A i \in 1..Len(a) : x[i] = a[i]
  <2>1. \A i \in 1..Len(a) : i \in 1..(Len(a) + Len(b)) /\ i \in 1..Len(ab) /\ i <= Len(a)
    BY <1>1
  <2> QED
    BY <1>1, <1>9, <2>1
<1>11. \A i \in 1..Len(b) : x[Len(a) + i] = b[i]
  <2>1. \A i \in 1..Len(b) : /\ Len(a) + i \in 1..(Len(a) + Len(b)) /\ Len(a) + i \in 1..Len(ab)
                             /\ ~(Len(a) + i <= Len(a)) /\ (Len(a) + i) - Len(a) = i
    BY SMTT(30), <1>1
  <2> QED
    BY <1>1, <1>9, <2>1
<1>12. \A i \in 1..Len(d) : x[Len(abc) + i] = d[i]
  <2>1. \A i \in 1..Len(d) : /\ Len(abc) + i \in 1..(Len(abc) + Len(d))
                             /\ Len(abc) + i \in 1..(Len(abcd) + Len(e)) /\ Len(abc) + i <= Len(abcd)
                             /\ ~(Len(abc) + i <= Len(abc)) /\ (Len(abc) + i) - Len(abc) = i
    <3>1. \A i \in 1..Len(d) : /\ Len(abc) + i \in 1..(Len(abc) + Len(d))
                               /\ Len(abc) + i \in 1..(Len(abc) + Len(d) + Len(e))
                               /\ Len(abc) + i <= Len(abc) + Len(d)
                               /\ ~(Len(abc) + i <= Len(abc)) /\ (Len(abc) + i) - Len(abc) = i
      <4>1. Len(d) \in Nat /\ Len(e) \in Nat /\ Len(abc) \in Nat
        BY <1>3, <1>4, <1>16
      <4> QED
        BY <1>17, <4>1, Zenon
    <3> QED
      BY <1>16, <3>1, Zenon
  <2> QED
    BY <1>3, <1>4, <2>1
<1>13. Len(abc) = Len(a) + Len(b) + Len(c) /\ Len(abcd) = Len(a) + Len(b) + Len(c) + Len(d)
       /\ Len(x) = Len(a) + Len(b) + Len(c) + Len(d) + Len(e)
  BY <1>1, <1>2, <1>3, <1>4
<1>14. SubSeq(x, Len(abcd) + 1, Len(x)) = e
  BY <1>4, <1>5, Zenon
<1>15. x = a \o b \o c \o d \o e
  BY <1>18, <1>19, <1>20, <1>21, Zenon
<1> QED
  BY <1>1, <1>4, <1>7, <1>10, <1>11, <1>12, <1>13, <1>14, <1>15, Zenon DEF Row

\* The address of the center takes as many octets as its first one says.
Center(a) == a \in Seq(Nat) /\ Len(a) > 0 /\ Len(a) = 1 + a[1]

\* What the center puts in front of a message.
CenterAddress(c) == IF c = <<>> THEN <<0>> ELSE <<1 + Len(SemiOctets(c)), 145>> \o SemiOctets(c)

\* It says how many octets it takes.
LEMMA CenterIs == \A c \in Centers : Center(CenterAddress(c))
<1>1. Center(<<0>>)
  BY SMT DEF Center
<1>2. Center(<<1 + Len(SemiOctets(<<8, 6, 1>>)), 145>> \o SemiOctets(<<8, 6, 1>>))
  <2>1. <<8, 6, 1>> \in Seq(0..9)
    BY SMT
  <2>2. PICK s \in Seq(Nat) : s = SemiOctets(<<8, 6, 1>>)
    BY <2>1, SemiOctetsAre
  <2>3. Len(s) \in Nat
    OBVIOUS
  <2>4. PICK l \in Seq(Nat) : l = <<1 + Len(s), 145>>
    <3>1. <<1 + Len(s), 145>> \in Seq(Nat)
      BY <2>3, SMT
    <3> QED
      BY <3>1, Zenon
  <2>5. Len(l) = 2 /\ l[1] = 1 + Len(s)
    BY <2>4, SMT
  <2>6. PICK a : a = l \o s
    OBVIOUS
  <2>7. /\ a \in Seq(Nat) /\ Len(a) = Len(l) + Len(s)
        /\ \A i \in 1..(Len(l) + Len(s)) : a[i] = IF i <= Len(l) THEN l[i] ELSE s[i - Len(l)]
    BY <2>6, ConcatNumbers
  <2>8. 1 \in 1..(Len(l) + Len(s)) /\ 1 <= Len(l)
    BY <2>3, <2>5, SMT
  <2>9. a[1] = 1 + Len(s) /\ Len(a) = 2 + Len(s)
    BY <2>5, <2>7, <2>8, Zenon
  <2>10. Center(a)
    <3>1. Len(a) > 0 /\ Len(a) = 1 + a[1]
      BY <2>3, <2>9, SMT
    <3> QED
      BY <2>7, <3>1, Zenon DEF Center
  <2> QED
    BY <2>2, <2>4, <2>6, <2>10, Zenon
<1>3. <<8, 6, 1>> # <<>>
  BY SMT
<1> QED
  BY <1>1, <1>2, <1>3, Zenon DEF Centers, CenterAddress

\* User data that begins with a header, if the message says so.
Headed(udhi, ud) ==
    udhi => /\ Len(ud) > 0 /\ ud[1] # 0 /\ 1 + ud[1] <= Len(ud)
            /\ Concatenation(ud).total > 0 /\ Concatenation(ud).part <= Concatenation(ud).total

\* parse_raw_pdu finds the number of the sender, the coding and the user data
\* of a message of the center where the center has put them.
LEMMA FrameRead ==
    ASSUME NEW c0 \in Centers,
           NEW n \in Seq(0..9), Len(n) \in 1..31,
           NEW udhi \in BOOLEAN, NEW dcs0 \in {0, 8}, NEW udl0 \in Nat, NEW e \in Seq(Nat),
           Len(e) = (IF Is7Bit(dcs0) THEN Octets(udl0) ELSE udl0),
           Headed(udhi, e)
    PROVE  Frame(Deliver(c0, n, udhi, dcs0, udl0, e))
           = [id |-> IF udhi THEN Concatenation(e) ELSE NotConcat, sender |-> n, dcs |-> dcs0,
              data |-> SubSeq(e, (IF udhi THEN 1 + e[1] ELSE 0) + 1, Len(e))]
<1>0. PICK a : a = CenterAddress(c0) /\ Center(a)
  BY CenterIs
<1>1. PICK b \in Seq(Nat) : b = <<IF udhi THEN 68 ELSE 4, Len(n), 145>>
  <2>1. PICK v \in Nat : v = IF udhi THEN 68 ELSE 4
    BY SMT
  <2>2. <<v, Len(n), 145>> \in Seq(Nat)
    BY SMT
  <2> QED
    BY <2>1, <2>2, Zenon
<1>2. PICK c \in Seq(Nat) : c = SemiOctets(n)
  BY SemiOctetsAre
<1>3. PICK d \in Seq(Nat) : d = <<0, dcs0, 98, 112, 33, 65, 1, 0, 35, udl0>>
  <2>1. dcs0 \in Nat
    BY SMT
  <2>2. <<0, dcs0, 98, 112, 33, 65, 1, 0, 35, udl0>> \in Seq(Nat)
    BY <2>1, SMT
  <2> QED
    BY <2>2, Zenon
<1>4. Len(b) = 3 /\ b[1] = (IF udhi THEN 68 ELSE 4) /\ b[2] = Len(n)
  BY <1>1
<1>5. Len(c) = (Len(n) + 1) \div 2
  BY <1>2, SemiOctetsAre
<1>6. Len(d) = 10 /\ d[2] = dcs0 /\ d[10] = udl0
  BY <1>3
<1>7. PICK pdu : pdu = a \o b \o c \o d \o e
  OBVIOUS
<1>8. /\ pdu \in Seq(Nat) /\ Len(pdu) = Len(a) + Len(b) + Len(c) + Len(d) + Len(e)
      /\ \A i \in 1..Len(a) : pdu[i] = a[i]
      /\ \A i \in 1..Len(b) : pdu[Len(a) + i] = b[i]
      /\ \A i \in 1..Len(d) : pdu[Len(a) + Len(b) + Len(c) + i] = d[i]
      /\ SubSeq(pdu, Len(a) + Len(b) + Len(c) + Len(d) + 1, Len(pdu)) = e
      /\ SubSeq(pdu, Len(a) + Len(b) + 1, Len(pdu)) = c \o (d \o e)
  <2>1. a \in Seq(Nat)
    BY <1>0 DEF Center
  <2>2. Row(a, b, c, d, e)
    BY <2>1, InFive
  <2> QED
    BY <1>7, <2>2, Zenon DEF Row
<1> DEFINE first == 2 + pdu[1]
           digits == pdu[first + 1]
           pid == first + 3 + AddressOctets(digits)
           dcs == pdu[pid + 1]
           udl == pdu[pid + 9]
           udLen == IF Is7Bit(dcs) THEN Octets(udl) ELSE udl
           ud == SubSeq(pdu, pid + 10, pid + 9 + udLen)
           hasUdh == (pdu[first] \div 64) % 2 = 1 /\ udLen > 0
           header == IF hasUdh THEN 1 + ud[1] ELSE 0
           concatenation == IF hasUdh THEN Concatenation(ud) ELSE NotConcat
<1>9. Frame(pdu) =
        IF \/ Len(pdu) < 2 \/ first + 2 > Len(pdu) \/ pid + 9 > Len(pdu)
           \/ pid + 9 + udLen > Len(pdu)
           \/ hasUdh /\ (ud[1] = 0 \/ header > udLen)
           \/ concatenation.concat /\ ~(concatenation.total > 0 /\ concatenation.part <= concatenation.total)
        THEN Rejected
        ELSE [id |-> concatenation,
              sender |-> IF digits \in 1..31 THEN Digits(SubSeq(pdu, first + 3, Len(pdu)), digits)
                         ELSE <<"UNKNOWN">>,
              dcs |-> dcs,
              data |-> SubSeq(ud, header + 1, udLen)]
  BY Zenon DEF Frame
<1>10. Len(a) \in Nat /\ Len(n) \in Nat /\ Len(c) \in Nat /\ Len(e) \in Nat /\ Len(a) > 0
  BY <1>0 DEF Center
<1>11. first = Len(a) + 1
  <2>1. 1 \in 1..Len(a) /\ a[1] \in Nat
    BY <1>0, <1>10 DEF Center
  <2>2. pdu[1] = a[1]
    BY <1>8, <2>1
  <2> QED
    BY <1>0, <1>10, <2>1, <2>2 DEF Center
<1> HIDE DEF first
<1>12. digits = Len(n) /\ pdu[first] = b[1]
  <2>1. 1 \in 1..Len(b) /\ 2 \in 1..Len(b) /\ first + 1 = Len(a) + 2
    BY <1>4, <1>10, <1>11
  <2> QED
    BY <1>4, <1>8, <1>11, <2>1
<1> HIDE DEF digits
<1>13. pid = Len(a) + Len(b) + Len(c) + 1
  BY <1>4, <1>5, <1>10, <1>11, <1>12 DEF AddressOctets
<1> HIDE DEF pid
<1>14. dcs = dcs0 /\ udl = udl0
  <2>1. 2 \in 1..Len(d) /\ 10 \in 1..Len(d)
    BY <1>6
  <2>2. pid + 1 = Len(a) + Len(b) + Len(c) + 2 /\ pid + 9 = Len(a) + Len(b) + Len(c) + 10
    BY <1>4, <1>10, <1>13
  <2> QED
    BY <1>6, <1>8, <2>1, <2>2
<1> HIDE DEF dcs, udl
<1>15. udLen = Len(e)
  BY <1>14
<1> HIDE DEF udLen
<1>16. pid + 9 + udLen = Len(pdu) /\ pid + 10 = Len(a) + Len(b) + Len(c) + Len(d) + 1
  BY <1>4, <1>6, <1>8, <1>10, <1>13, <1>15
<1>17. ud = e
  BY <1>8, <1>16, Zenon
<1> HIDE DEF ud
<1>18. hasUdh <=> udhi
  <2>1. CASE udhi
    <3>1. pdu[first] = 68 /\ udLen > 0
      BY <1>4, <1>12, <1>15, <2>1 DEF Headed
    <3> QED
      BY <2>1, <3>1, SMT
  <2>2. CASE ~udhi
    <3>1. pdu[first] = 4
      BY <1>4, <1>12, <2>2
    <3> QED
      BY <2>2, <3>1, SMT
  <2> QED
    BY <2>1, <2>2
<1> HIDE DEF hasUdh
<1>19. header = (IF udhi THEN 1 + e[1] ELSE 0) /\ concatenation = (IF udhi THEN Concatenation(e) ELSE NotConcat)
  BY <1>17, <1>18, Zenon
<1> HIDE DEF header, concatenation
<1>20. ~(Len(pdu) < 2) /\ ~(first + 2 > Len(pdu)) /\ ~(pid + 9 > Len(pdu)) /\ ~(pid + 9 + udLen > Len(pdu))
  <2>1. \A k, m, o \in Nat : k > 0 =>
          /\ ~(k + 3 + m + 10 + o < 2) /\ ~(k + 1 + 2 > k + 3 + m + 10 + o)
          /\ ~(k + 3 + m + 1 + 9 > k + 3 + m + 10 + o) /\ ~(k + 3 + m + 10 + o > k + 3 + m + 10 + o)
    OBVIOUS
  <2>2. Len(pdu) = Len(a) + 3 + Len(c) + 10 + Len(e)
    BY <1>4, <1>6, <1>8, Zenon
  <2>3. pid = Len(a) + 3 + Len(c) + 1
    BY <1>4, <1>13, Zenon
  <2>4. /\ ~(Len(a) + 3 + Len(c) + 10 + Len(e) < 2)
        /\ ~(Len(a) + 1 + 2 > Len(a) + 3 + Len(c) + 10 + Len(e))
        /\ ~(Len(a) + 3 + Len(c) + 1 + 9 > Len(a) + 3 + Len(c) + 10 + Len(e))
        /\ ~(Len(a) + 3 + Len(c) + 10 + Len(e) > Len(a) + 3 + Len(c) + 10 + Len(e))
    BY <1>10, <2>1
  <2>5. ~(Len(pdu) < 2)
    BY <2>2, <2>4, Zenon
  <2>6. ~(first + 2 > Len(pdu))
    BY <1>11, <2>2, <2>4, Zenon
  <2>7. ~(pid + 9 > Len(pdu))
    BY <2>2, <2>3, <2>4, Zenon
  <2>8. ~(pid + 9 + udLen > Len(pdu))
    BY <1>16, <2>2, <2>4, Zenon
  <2> QED
    BY <2>5, <2>6, <2>7, <2>8, Zenon
<1>21. ~(hasUdh /\ (ud[1] = 0 \/ header > udLen))
  <2>1. CASE udhi
    <3>1. ud[1] # 0 /\ header <= udLen /\ header = 1 + ud[1] /\ ud[1] \in Nat /\ udLen \in Nat
      BY <1>10, <1>15, <1>17, <1>19, <2>1 DEF Headed
    <3> QED
      BY <3>1
  <2> QED
    BY <1>18, <2>1, Zenon
<1>22. ~(concatenation.concat /\ ~(concatenation.total > 0 /\ concatenation.part <= concatenation.total))
  BY <1>19, Zenon DEF Headed, NotConcat
<1>23. Digits(SubSeq(pdu, first + 3, Len(pdu)), digits) = n
  <2>1. first + 3 = Len(a) + Len(b) + 1
    BY <1>4, <1>10, <1>11
  <2>2. d \o e \in Seq(Nat)
    BY ConcatNumbers
  <2>3. Digits(SemiOctets(n) \o (d \o e), Len(n)) = n
    BY <2>2, DigitsBack
  <2> QED
    BY <1>2, <1>8, <1>12, <2>1, <2>3, Zenon
<1>24. Frame(pdu) = [id |-> concatenation, sender |-> n, dcs |-> dcs0, data |-> SubSeq(e, header + 1, Len(e))]
  <2>1. digits \in 1..31
    BY <1>12
  <2> QED
    BY <1>9, <1>14, <1>15, <1>17, <1>20, <1>21, <1>22, <1>23, <2>1, Zenon
<1> QED
  <2>1. Deliver(c0, n, udhi, dcs0, udl0, e)
        = CenterAddress(c0) \o <<IF udhi THEN 68 ELSE 4, Len(n), 145>> \o SemiOctets(n)
              \o <<0, dcs0, 98, 112, 33, 65, 1, 0, 35, udl0>> \o e
    BY Zenon DEF Deliver, CenterAddress
  <2> QED
    BY <1>0, <1>1, <1>2, <1>3, <1>7, <1>19, <1>24, <2>1, ZenonT(60)

\* The codings of a UCS2 and of a GSM7 message.
LEMMA Coding == ~Is7Bit(8) /\ Is7Bit(0)
  BY SMT DEF Is7Bit

LEMMA NumberIs == \A n \in Numbers : n \in Seq(0..9) /\ Len(n) \in 1..31
  BY NumbersAssumption

\* A message whose user data is nothing but the text.
LEMMA WholeRead ==
    ASSUME NEW c \in Centers, NEW n \in Numbers, data \in Seq(Nat)
    PROVE  Frame(WholePdu(c, n)) = [id |-> NotConcat, sender |-> n, dcs |-> 8, data |-> data]
<1>1. n \in Seq(0..9) /\ Len(n) \in 1..31
  BY NumberIs
<1>2. Len(data) \in Nat /\ 8 \in {0, 8} /\ FALSE \in BOOLEAN
  OBVIOUS
<1>3. Len(data) = (IF Is7Bit(8) THEN Octets(Len(data)) ELSE Len(data))
  BY Coding, Zenon
<1>4. Headed(FALSE, data)
  BY Zenon DEF Headed
<1>5. Frame(Deliver(c, n, FALSE, 8, Len(data), data))
      = [id |-> IF FALSE THEN Concatenation(data) ELSE NotConcat, sender |-> n, dcs |-> 8,
         data |-> SubSeq(data, (IF FALSE THEN 1 + data[1] ELSE 0) + 1, Len(data))]
  BY <1>1, <1>2, <1>3, <1>4, FrameRead
<1>6. SubSeq(data, 1, Len(data)) = data
  BY SubSeqFull
<1>7. 0 + 1 = 1
  BY SMT
<1> QED
  BY <1>5, <1>6, <1>7, Zenon DEF WholePdu

\* A message that is part k of two.
KnownPart(k, h, n, ud) ==
    /\ Frame(PartPdu(n, h, ud)) = [id |-> Concatenation(h \o ud), sender |-> n, dcs |-> 8, data |-> ud]
    /\ LET c == Concatenation(h \o ud)
       IN  c.concat = TRUE /\ c.ref = 5 /\ c.total = 2 /\ c.part = k
LEMMA PartRead ==
    ASSUME NEW k \in {1, 2}, NEW h \in Headers(k), NEW n \in Numbers, NEW ud \in Seq(Nat)
    PROVE  KnownPart(k, h, n, ud)
<1>1. n \in Seq(0..9) /\ Len(n) \in 1..31
  BY NumberIs
<1>2. k \in Nat
  BY SMT
<1>3. /\ h \in Seq(Nat) /\ Len(h) > 1 /\ h[1] + 1 = Len(h)
      /\ LET c == Concatenation(h \o ud)
         IN  c.concat = TRUE /\ c.ref = 5 /\ c.total = 2 /\ c.part = k
  BY <1>2, HeaderRead
<1>13. Len(h) > 1 /\ h[1] + 1 = Len(h) /\ h \in Seq(Nat)
  BY <1>3, Zenon
<1>4. PICK x : x = h \o ud
  OBVIOUS
<1>5. /\ x \in Seq(Nat) /\ Len(x) = Len(h) + Len(ud) /\ Len(h) \in Nat /\ Len(ud) \in Nat
      /\ \A i \in 1..(Len(h) + Len(ud)) : x[i] = IF i <= Len(h) THEN h[i] ELSE ud[i - Len(h)]
  BY <1>3, <1>4, ConcatNumbers
<1>14. Len(x) = Len(h) + Len(ud) /\ Len(h) \in Nat /\ Len(ud) \in Nat
  BY <1>5, Zenon
<1>6. x[1] = h[1] /\ h[1] \in Nat /\ h[1] # 0
  <2>1. 1 \in 1..(Len(h) + Len(ud)) /\ 1 <= Len(h) /\ 1 \in 1..Len(h)
    BY <1>13, SMT
  <2>2. x[1] = h[1]
    BY <1>5, <2>1, Zenon
  <2>3. h[1] \in Nat
    BY <1>3, <2>1
  <2> QED
    BY <1>3, <2>2, <2>3, SMT
<1>7. Headed(TRUE, x)
  <2>1. Concatenation(x).total = 2 /\ Concatenation(x).part = k
    BY <1>3, <1>4, Zenon
  <2>2. Concatenation(x).total > 0 /\ Concatenation(x).part <= Concatenation(x).total
    <3>1. \A t, p : t = 2 /\ p = k => t > 0 /\ p <= t
      BY SMT
    <3> QED
      BY <2>1, <3>1, Zenon
  <2>3. Len(x) > 0 /\ x[1] # 0 /\ 1 + x[1] <= Len(x)
    BY <1>6, <1>13, <1>14, SMT
  <2> QED
    BY <2>2, <2>3, Zenon DEF Headed
<1>8. 8 \in {0, 8} /\ TRUE \in BOOLEAN /\ Len(x) \in Nat /\ <<>> \in Centers
  BY <1>5 DEF Centers
<1>9. Len(x) = (IF Is7Bit(8) THEN Octets(Len(x)) ELSE Len(x))
  BY Coding, Zenon
<1>10. Frame(Deliver(<<>>, n, TRUE, 8, Len(x), x))
       = [id |-> IF TRUE THEN Concatenation(x) ELSE NotConcat, sender |-> n, dcs |-> 8,
          data |-> SubSeq(x, (IF TRUE THEN 1 + x[1] ELSE 0) + 1, Len(x))]
  BY ZenonT(60), <1>1, <1>5, <1>7, <1>8, <1>9, FrameRead
<1>11. SubSeq(x, (1 + x[1]) + 1, Len(x)) = ud
  <2>1. SubSeq(x, Len(h) + 1, Len(h) + Len(ud)) = ud
    BY <1>3, <1>4, LastPart
  <2>2. (1 + x[1]) + 1 = Len(h) + 1
    BY <1>6, <1>13, <1>14, SMTT(30)
  <2> QED
    BY <1>5, <2>1, <2>2, Zenon
<1>12. Frame(PartPdu(n, h, ud)) = [id |-> Concatenation(x), sender |-> n, dcs |-> 8, data |-> ud]
  <2>1. PartPdu(n, h, ud) = Deliver(<<>>, n, TRUE, 8, Len(x), x)
    BY <1>4, <1>5, Zenon DEF PartPdu
  <2> QED
    BY <1>10, <1>11, <2>1, Zenon
<1> QED
  BY <1>3, <1>4, <1>12, Zenon DEF KnownPart

\* A text has no zero, and the C string is all of it.
LEMMA NoZero == \A s \in Seq(1..255) : CString(s) = s
<1>1. \A S : \A s \in Seq(S) : \A i \in 1..Len(s) : s[i] \in S
  OBVIOUS
<1>2. ~(0 \in 1..255)
  BY SMT
<1>3. \A s \in Seq(1..255) : ~(\E i \in 1..Len(s) : s[i] = 0)
  BY <1>1, <1>2, ZenonT(60)
<1> QED
  BY <1>3, Zenon DEF CString

\* What stands in the data of a UCS2 text is the text for the gateway too.
LEMMA TextArrives ==
    ASSUME Packing, Aligned, Encoded("UCS2")
    PROVE  data \in Seq(Nat) /\ TextOf(data, 8) = utf8
<1>1. pc = "encoded" /\ encoding = "UCS2" /\ encoding # "GSM7"
  BY DEF Encoded
<1>2. data \in Seq(Nat)
  BY <1>1 DEF Aligned
<1>3. PICK M : Linked("UCS2", utf8, data, Len(utf8) + 1, M)
  <2>1. \E M : Linked(encoding, utf8, Stream, Len(utf8) + 1, M)
    BY <1>1, Zenon DEF Aligned
  <2>2. Stream = data
    BY <1>1, Zenon DEF Stream
  <2> QED
    BY <1>1, <2>1, <2>2, Zenon
<1>4. utf8 \in Seq(Nat)
  BY InputIs
<1>5. Wide(data) = utf8 /\ Len(data) % 2 = 0
  BY <1>2, <1>3, <1>4, WideBack
<1>6. utf8 \in Seq(1..255)
  BY InputsAssumption DEF Packing, TypeOK
<1>7. CString(utf8) = utf8
  BY <1>6, NoZero
<1>8. Len(data) % 2 # 1
  BY <1>5, SMT
<1> QED
  BY <1>2, <1>5, <1>7, <1>8, Coding, Zenon DEF TextOf

\* The two parts of the data joined.
LEMMA CutJoined ==
    ASSUME NEW s \in Seq(Nat), NEW cut \in 0..Len(s)
    PROVE  /\ SubSeq(s, 1, cut) \in Seq(Nat) /\ SubSeq(s, cut + 1, Len(s)) \in Seq(Nat)
           /\ SubSeq(s, 1, cut) \o SubSeq(s, cut + 1, Len(s)) = s
<1>1. 1 \in 1..(Len(s) + 1) /\ cut \in (1 - 1)..Len(s) /\ Len(s) \in cut..Len(s)
  OBVIOUS
<1>2. SubSeq(s, 1, cut) \o SubSeq(s, cut + 1, Len(s)) = SubSeq(s, 1, Len(s))
  BY <1>1, ConcatAdjacentSubSeq
<1>3. SubSeq(s, 1, Len(s)) = s
  BY SubSeqFull
<1>4. SubSeq(s, 1, cut) \in Seq(Nat) /\ SubSeq(s, cut + 1, Len(s)) \in Seq(Nat)
  OBVIOUS
<1> QED
  BY <1>2, <1>3, <1>4, Zenon

\* Frame and text together.
LEMMA Ucs2Holds == Packing /\ Aligned => Ucs2Arrives
<1> SUFFICES ASSUME Packing, Aligned, Encoded("UCS2") PROVE Ucs2Arrives
  BY Zenon DEF Ucs2Arrives
<1>1. data \in Seq(Nat) /\ TextOf(data, 8) = utf8
  BY TextArrives
<1>2. ASSUME NEW c \in Centers, NEW n \in Numbers
      PROVE  LET frame == Frame(WholePdu(c, n))
             IN  /\ frame.dcs = 8 /\ ~frame.id.concat /\ frame.sender = n
                 /\ TextOf(frame.data, 8) = utf8
  <2>1. Frame(WholePdu(c, n)) = [id |-> NotConcat, sender |-> n, dcs |-> 8, data |-> data]
    BY <1>1, <1>2, WholeRead
  <2>2. ~NotConcat.concat
    BY DEF NotConcat
  <2>3. PICK f : f = Frame(WholePdu(c, n))
    OBVIOUS
  <2>4. f.id = NotConcat /\ f.sender = n /\ f.dcs = 8 /\ f.data = data
    BY <2>1, <2>3
  <2> QED
    BY <1>1, <2>2, <2>3, <2>4, Zenon
<1>3. ASSUME NEW n \in Numbers, NEW cut \in Cuts, NEW h \in Headers(1), NEW g \in Headers(2),
             Len(h) + cut <= UserData /\ Len(g) + Len(data) - cut <= UserData
      PROVE  LET one == Frame(PartPdu(n, h, SubSeq(data, 1, cut)))
                 two == Frame(PartPdu(n, g, SubSeq(data, cut + 1, Len(data))))
             IN  /\ one.id.concat /\ two.id.concat /\ one.sender = n /\ two.sender = n
                 /\ one.id.ref = 5 /\ one.id.total = 2 /\ one.id.part = 1
                 /\ two.id.ref = 5 /\ two.id.total = 2 /\ two.id.part = 2
                 /\ TextOf(one.data \o two.data, 8) = utf8
  <2>1. cut \in 0..Len(data)
    BY <1>3 DEF Cuts
  <2>2. PICK a, b : /\ a = SubSeq(data, 1, cut) /\ b = SubSeq(data, cut + 1, Len(data))
                    /\ a \in Seq(Nat) /\ b \in Seq(Nat) /\ a \o b = data
    <3>1. PICK a : a = SubSeq(data, 1, cut)
      OBVIOUS
    <3>2. PICK b : b = SubSeq(data, cut + 1, Len(data))
      OBVIOUS
    <3>3. a \in Seq(Nat) /\ b \in Seq(Nat) /\ a \o b = data
      BY <1>1, <2>1, <3>1, <3>2, CutJoined
    <3> QED
      BY <3>1, <3>2, <3>3, Zenon
  <2>3. PICK one, two : one = Frame(PartPdu(n, h, a)) /\ two = Frame(PartPdu(n, g, b))
    OBVIOUS
  <2>4. 1 \in {1, 2} /\ 2 \in {1, 2}
    OBVIOUS
  <2>5. PICK i : i = Concatenation(h \o a)
    OBVIOUS
  <2>6. PICK j : j = Concatenation(g \o b)
    OBVIOUS
  <2>7. /\ one = [id |-> i, sender |-> n, dcs |-> 8, data |-> a]
        /\ i.concat = TRUE /\ i.ref = 5 /\ i.total = 2 /\ i.part = 1
    <3>1. KnownPart(1, h, n, a)
      BY <1>3, <2>2, <2>4, PartRead
    <3> QED
      BY <2>3, <2>5, <3>1, Zenon DEF KnownPart
  <2>8. /\ two = [id |-> j, sender |-> n, dcs |-> 8, data |-> b]
        /\ j.concat = TRUE /\ j.ref = 5 /\ j.total = 2 /\ j.part = 2
    <3>1. KnownPart(2, g, n, b)
      BY <1>3, <2>2, <2>4, PartRead
    <3> QED
      BY <2>3, <2>6, <3>1, Zenon DEF KnownPart
  <2>9. one.id = i /\ one.sender = n /\ one.data = a /\ two.id = j /\ two.sender = n /\ two.data = b
    BY <2>7, <2>8
  <2> QED
    BY <1>1, <2>2, <2>3, <2>7, <2>8, <2>9, Zenon
<1>4. Len(data) <= UserData =>
        \A c \in Centers, n \in Numbers :
            LET frame == Frame(WholePdu(c, n))
            IN  /\ frame.dcs = 8 /\ ~frame.id.concat /\ frame.sender = n
                /\ TextOf(frame.data, 8) = utf8
  BY <1>2, Zenon
<1> QED
  <2>1. Encoded("UCS2") /\ utf8 # <<>> => Ucs2Arrives
    BY <1>3, <1>4, Zenon DEF Ucs2Arrives
  <2> QED
    BY <2>1, Zenon DEF Ucs2Arrives

\* A UCS2 text of any length a message holds, from any number, reaches the
\* gateway whole, and so do its two parts wherever they were cut, with the part
\* they are (sms2wechat-v7.c:907-1081, 1233-1243 and 1333-1350).
THEOREM TextsReachTheGateway == Spec => []Ucs2Arrives
<1>1. Packing /\ Aligned => Ucs2Arrives
  BY Ucs2Holds
<1> QED
  BY <1>1, BothHold, PTL

-----------------------------------------------------------------------------
(* Plain GSM7 texts                                                        *)

PlainText(s) == \A i \in 1..Len(s) : SeptetsOf(s[i]) = <<s[i]>>

\* A plain character is one octet and one septet, the same.
LEMMA PlainChar ==
    ASSUME NEW s \in Seq(Nat), PlainText(s), NEW p \in 1..Len(s)
    PROVE  /\ s[p] \in Nat /\ s[p] < 128
           /\ Utf8Next(s, p).len = 1 /\ Code("GSM7", s, p) = <<s[p]>>
<1>1. PICK b \in Nat : b = s[p]
  OBVIOUS
<1>2. p \in Nat /\ p <= Len(s)
  OBVIOUS
<1>3. SeptetsOf(b) = <<b>>
  BY <1>1, Zenon DEF PlainText
<1>4. b \in Septets
  <2>1. <<b>> \in Seq(Septets)
    BY <1>3, SeptetsAreSeptets
  <2>2. \A S : \A v : <<v>> \in Seq(S) => v \in S
    OBVIOUS
  <2> QED
    BY <2>1, <2>2, Zenon
<1>5. b < 128
  BY <1>4, SMT DEF Septets
<1>6. At(s, p) = b
  BY <1>1, <1>2, Zenon DEF At
<1>7. One(At(s, p), b)
  BY <1>5, <1>6, Zenon DEF One
<1>8. Utf8Next(s, p) = [len |-> 1, cp |-> b]
  BY <1>2, <1>7, CharOf
<1>9. Utf8Next(s, p).len = 1 /\ Utf8Next(s, p).cp = b
  BY <1>8
<1>10. Code("GSM7", s, p) = SeptetsOf(b)
  BY <1>9, Zenon DEF Code
<1> QED
  BY <1>1, <1>3, <1>5, <1>9, <1>10, Zenon

\* The septets of a plain text are its octets.
LEMMA PlainBack ==
    ASSUME NEW s \in Seq(Nat), PlainText(s), NEW t \in Seq(Nat), NEW M,
           Linked("GSM7", s, t, Len(s) + 1, M)
    PROVE  t = s
<1>1. Len(t) \in Nat /\ Len(s) \in Nat
  OBVIOUS
<1> DEFINE n == Len(t) + 1
           Rest(p, q) == /\ Len(t) - q = Len(s) - p
                         /\ \A k \in Nat : p + k <= Len(s) => t[q + k] = s[p + k]
           good == {q \in 1..n : \A p \in Nat : <<p, q>> \in M => Rest(p, q)}
<1>2. ASSUME NEW q \in 1..n, \A j \in 1..n : q < j => j \in good, NEW p \in Nat, <<p, q>> \in M
      PROVE  Rest(p, q)
  <2>0. q \in Nat
    BY <1>1
  <2>1. (p = Len(s) + 1 /\ q = n) \/ Passed("GSM7", s, t, M, p, q)
    BY <1>2, <2>0, Zenon DEF Linked
  <2>2. CASE p = Len(s) + 1 /\ q = n
    <3>1. Len(t) - n = Len(s) - (Len(s) + 1)
      BY <1>1
    <3>2. \A k \in Nat : ~((Len(s) + 1) + k <= Len(s))
      BY <1>1
    <3> HIDE DEF n
    <3> QED
      BY <2>2, <3>1, <3>2, Zenon
  <2>3. CASE Passed("GSM7", s, t, M, p, q)
    <3>1. p \in 1..Len(s) /\ q \in 1..Len(t)
      BY <2>3, Zenon DEF Passed
    <3>2. s[p] \in Nat /\ Utf8Next(s, p).len = 1 /\ Code("GSM7", s, p) = <<s[p]>>
      BY <3>1, PlainChar
    <3>3. PICK c : c = <<s[p]>>
      OBVIOUS
    <3>4. Len(c) = 1 /\ c[1] = s[p]
      BY <3>3
    <3>5. t[q] = s[p]
      <4>1. \A i \in 1..Len(c) : t[q + i - 1] = c[i]
        BY <2>3, <3>2, <3>3, Zenon DEF Passed, Stands
      <4>2. t[q + 1 - 1] = c[1]
        <5>1. 1 \in 1..Len(c)
          BY <3>4
        <5> QED
          BY <4>1, <5>1, Zenon
      <4>3. q + 1 - 1 = q
        BY <2>0
      <4> QED
        BY <3>4, <4>2, <4>3, Zenon
    <3>6. <<p + 1, q + 1>> \in M
      BY <2>3, <3>2, <3>3, <3>4, Zenon DEF Passed
    <3>7. q + 1 \in 1..n /\ q < q + 1 /\ p + 1 \in Nat
      BY <1>1, <2>0, <3>1
    <3>8. Rest(p + 1, q + 1)
      <4>1. q + 1 \in good
        BY <1>2, <3>7
      <4> HIDE DEF Rest
      <4> QED
        BY <3>6, <3>7, <4>1
    <3>9. Len(t) - q = Len(s) - p
      BY <1>1, <2>0, <3>8
    <3>10. ASSUME NEW k \in Nat, p + k <= Len(s) PROVE t[q + k] = s[p + k]
      <4>1. CASE k = 0
        <5>1. p + 0 = p /\ q + 0 = q
          BY <2>0
        <5> QED
          BY <3>5, <4>1, <5>1, Zenon
      <4>2. CASE k # 0
        <5>1. k - 1 \in Nat /\ (p + 1) + (k - 1) = p + k /\ (q + 1) + (k - 1) = q + k
          BY <2>0, <3>10, <4>2
        <5>2. (p + 1) + (k - 1) <= Len(s) => t[(q + 1) + (k - 1)] = s[(p + 1) + (k - 1)]
          BY <3>8, <5>1, Zenon
        <5> QED
          BY <3>10, <5>1, <5>2, Zenon
      <4> QED
        BY <4>1, <4>2
    <3> QED
      BY <3>9, <3>10, Zenon
  <2> QED
    BY <2>1, <2>2, <2>3, Zenon
<1>3. 1 \in good
  <2>1. \A q \in 1..n : (\A j \in 1..n : q < j => j \in good) => q \in good
    <3> HIDE DEF Rest, n
    <3> QED
      BY <1>2
  <2>2. n \in Nat /\ 1 \in 1..n
    BY <1>1
  <2> HIDE DEF good, n
  <2> QED
    BY <2>1, <2>2, Backwards
<1>4. Rest(1, 1)
  <2>1. <<1, 1>> \in M
    BY Zenon DEF Linked
  <2> HIDE DEF Rest
  <2> QED
    BY <1>3, <2>1
<1>5. Len(t) = Len(s)
  BY <1>1, <1>4
<1>6. \A i \in 1..Len(s) : t[i] = s[i]
  <2>1. \A i \in 1..Len(s) : i - 1 \in Nat /\ 1 + (i - 1) = i /\ i <= Len(s)
    BY <1>1
  <2>2. \A k \in Nat : 1 + k <= Len(s) => t[1 + k] = s[1 + k]
    BY <1>4, Zenon
  <2> HIDE DEF Rest
  <2> QED
    BY <2>1, <2>2, Zenon
<1> QED
  BY <1>5, <1>6, SeqEqual

\* The octet whose bits are x1 to x8,
Sum8(v, x1, x2, x3, x4, x5, x6, x7, x8) ==
    v = x1 + 2 * x2 + 4 * x3 + 8 * x4 + 16 * x5 + 32 * x6 + 64 * x7 + 128 * x8

\* and the seven bits of a septet out of the two octets they lie in, for every
\* place it can begin at.
Moved(v, w, a1, a2, a3, a4, a5, a6, a7, a8, b1, b2, b3, b4, b5, b6, b7, b8) ==
    /\ (v \div 1) % 128 = a1 + 2 * a2 + 4 * a3 + 8 * a4 + 16 * a5 + 32 * a6 + 64 * a7
    /\ (v \div 2) % 128 = a2 + 2 * a3 + 4 * a4 + 8 * a5 + 16 * a6 + 32 * a7 + 64 * a8
    /\ (v \div 4 + w * 64) % 128 = a3 + 2 * a4 + 4 * a5 + 8 * a6 + 16 * a7 + 32 * a8 + 64 * b1
    /\ (v \div 8 + w * 32) % 128 = a4 + 2 * a5 + 4 * a6 + 8 * a7 + 16 * a8 + 32 * b1 + 64 * b2
    /\ (v \div 16 + w * 16) % 128 = a5 + 2 * a6 + 4 * a7 + 8 * a8 + 16 * b1 + 32 * b2 + 64 * b3
    /\ (v \div 32 + w * 8) % 128 = a6 + 2 * a7 + 4 * a8 + 8 * b1 + 16 * b2 + 32 * b3 + 64 * b4
    /\ (v \div 64 + w * 4) % 128 = a7 + 2 * a8 + 4 * b1 + 8 * b2 + 16 * b3 + 32 * b4 + 64 * b5
    /\ (v \div 128 + w * 2) % 128 = a8 + 2 * b1 + 4 * b2 + 8 * b3 + 16 * b4 + 32 * b5 + 64 * b6

\* They do, for any bits.
LEMMA Shifted ==
    ASSUME NEW a1 \in Bit, NEW a2 \in Bit, NEW a3 \in Bit, NEW a4 \in Bit,
           NEW a5 \in Bit, NEW a6 \in Bit, NEW a7 \in Bit, NEW a8 \in Bit,
           NEW b1 \in Bit, NEW b2 \in Bit, NEW b3 \in Bit, NEW b4 \in Bit,
           NEW b5 \in Bit, NEW b6 \in Bit, NEW b7 \in Bit, NEW b8 \in Bit,
           NEW v \in Nat, Sum8(v, a1, a2, a3, a4, a5, a6, a7, a8),
           NEW w \in Nat, Sum8(w, b1, b2, b3, b4, b5, b6, b7, b8)
    PROVE  Moved(v, w, a1, a2, a3, a4, a5, a6, a7, a8, b1, b2, b3, b4, b5, b6, b7, b8)
<1>0. \A x \in Bit : x = 0 \/ x = 1
  BY DEF Bit
<1>11. v = a1 + 2 * a2 + 4 * a3 + 8 * a4 + 16 * a5 + 32 * a6 + 64 * a7 + 128 * a8 /\ w = b1 + 2 * b2 + 4 * b3 + 8 * b4 + 16 * b5 + 32 * b6 + 64 * b7 + 128 * b8
  BY Zenon DEF Sum8
<1>9. \A q \in Nat, r \in 0..127 : (r + 128 * q) % 128 = r
  BY SMT
<1>10. /\ a1 \in Nat /\ a2 \in Nat /\ a3 \in Nat /\ a4 \in Nat /\ a5 \in Nat /\ a6 \in Nat /\ a7 \in Nat
       /\ a8 \in Nat /\ b1 \in Nat /\ b2 \in Nat /\ b3 \in Nat /\ b4 \in Nat /\ b5 \in Nat
       /\ b6 \in Nat /\ b7 \in Nat /\ b8 \in Nat
  BY <1>0
<1>1. (v \div 1) % 128 = a1 + 2 * a2 + 4 * a3 + 8 * a4 + 16 * a5 + 32 * a6 + 64 * a7
  <2>1. v \div 1 = a1 + 2 * a2 + 4 * a3 + 8 * a4 + 16 * a5 + 32 * a6 + 64 * a7 + 128 * a8
    BY <1>0, <1>11, SMT
  <2> QED
    BY <1>0, <1>11, <2>1, SMT
<1>2. (v \div 2) % 128 = a2 + 2 * a3 + 4 * a4 + 8 * a5 + 16 * a6 + 32 * a7 + 64 * a8
  <2>1. v \div 2 = a2 + 2 * a3 + 4 * a4 + 8 * a5 + 16 * a6 + 32 * a7 + 64 * a8
    BY <1>0, <1>11, SMT
  <2> QED
    BY <1>0, <1>11, <2>1, SMT
<1>3. (v \div 4 + w * 64) % 128 = a3 + 2 * a4 + 4 * a5 + 8 * a6 + 16 * a7 + 32 * a8 + 64 * b1
  <2>1. v \div 4 = a3 + 2 * a4 + 4 * a5 + 8 * a6 + 16 * a7 + 32 * a8
    BY <1>0, <1>11, SMT
  <2>2. PICK q \in Nat : q = b2 + 2 * b3 + 4 * b4 + 8 * b5 + 16 * b6 + 32 * b7 + 64 * b8
    BY <1>0, <1>11, SMT
  <2>3. PICK r \in 0..127 : r = a3 + 2 * a4 + 4 * a5 + 8 * a6 + 16 * a7 + 32 * a8 + 64 * b1
    BY <1>0, <1>11, SMT
  <2>4. v \div 4 + w * 64 = r + 128 * q
    BY <1>10, <1>11, <2>1, <2>2, <2>3, SMT
  <2>5. (r + 128 * q) % 128 = r
    BY <1>9
  <2> QED
    BY <2>3, <2>4, <2>5, Zenon
<1>4. (v \div 8 + w * 32) % 128 = a4 + 2 * a5 + 4 * a6 + 8 * a7 + 16 * a8 + 32 * b1 + 64 * b2
  <2>1. v \div 8 = a4 + 2 * a5 + 4 * a6 + 8 * a7 + 16 * a8
    BY <1>0, <1>11, SMT
  <2>2. PICK q \in Nat : q = b3 + 2 * b4 + 4 * b5 + 8 * b6 + 16 * b7 + 32 * b8
    BY <1>0, <1>11, SMT
  <2>3. PICK r \in 0..127 : r = a4 + 2 * a5 + 4 * a6 + 8 * a7 + 16 * a8 + 32 * b1 + 64 * b2
    BY <1>0, <1>11, SMT
  <2>4. v \div 8 + w * 32 = r + 128 * q
    BY <1>10, <1>11, <2>1, <2>2, <2>3, SMT
  <2>5. (r + 128 * q) % 128 = r
    BY <1>9
  <2> QED
    BY <2>3, <2>4, <2>5, Zenon
<1>5. (v \div 16 + w * 16) % 128 = a5 + 2 * a6 + 4 * a7 + 8 * a8 + 16 * b1 + 32 * b2 + 64 * b3
  <2>1. v \div 16 = a5 + 2 * a6 + 4 * a7 + 8 * a8
    BY <1>0, <1>11, SMT
  <2>2. PICK q \in Nat : q = b4 + 2 * b5 + 4 * b6 + 8 * b7 + 16 * b8
    BY <1>0, <1>11, SMT
  <2>3. PICK r \in 0..127 : r = a5 + 2 * a6 + 4 * a7 + 8 * a8 + 16 * b1 + 32 * b2 + 64 * b3
    BY <1>0, <1>11, SMT
  <2>4. v \div 16 + w * 16 = r + 128 * q
    BY <1>10, <1>11, <2>1, <2>2, <2>3, SMT
  <2>5. (r + 128 * q) % 128 = r
    BY <1>9
  <2> QED
    BY <2>3, <2>4, <2>5, Zenon
<1>6. (v \div 32 + w * 8) % 128 = a6 + 2 * a7 + 4 * a8 + 8 * b1 + 16 * b2 + 32 * b3 + 64 * b4
  <2>1. v \div 32 = a6 + 2 * a7 + 4 * a8
    BY <1>0, <1>11, SMT
  <2>2. PICK q \in Nat : q = b5 + 2 * b6 + 4 * b7 + 8 * b8
    BY <1>0, <1>11, SMT
  <2>3. PICK r \in 0..127 : r = a6 + 2 * a7 + 4 * a8 + 8 * b1 + 16 * b2 + 32 * b3 + 64 * b4
    BY <1>0, <1>11, SMT
  <2>4. v \div 32 + w * 8 = r + 128 * q
    BY <1>10, <1>11, <2>1, <2>2, <2>3, SMT
  <2>5. (r + 128 * q) % 128 = r
    BY <1>9
  <2> QED
    BY <2>3, <2>4, <2>5, Zenon
<1>7. (v \div 64 + w * 4) % 128 = a7 + 2 * a8 + 4 * b1 + 8 * b2 + 16 * b3 + 32 * b4 + 64 * b5
  <2>1. v \div 64 = a7 + 2 * a8
    BY <1>0, <1>11, SMT
  <2>2. PICK q \in Nat : q = b6 + 2 * b7 + 4 * b8
    BY <1>0, <1>11, SMT
  <2>3. PICK r \in 0..127 : r = a7 + 2 * a8 + 4 * b1 + 8 * b2 + 16 * b3 + 32 * b4 + 64 * b5
    BY <1>0, <1>11, SMT
  <2>4. v \div 64 + w * 4 = r + 128 * q
    BY <1>10, <1>11, <2>1, <2>2, <2>3, SMT
  <2>5. (r + 128 * q) % 128 = r
    BY <1>9
  <2> QED
    BY <2>3, <2>4, <2>5, Zenon
<1>8. (v \div 128 + w * 2) % 128 = a8 + 2 * b1 + 4 * b2 + 8 * b3 + 16 * b4 + 32 * b5 + 64 * b6
  <2>1. v \div 128 = a8
    BY <1>0, <1>11, SMT
  <2>2. PICK q \in Nat : q = b7 + 2 * b8
    BY <1>0, <1>11, SMT
  <2>3. PICK r \in 0..127 : r = a8 + 2 * b1 + 4 * b2 + 8 * b3 + 16 * b4 + 32 * b5 + 64 * b6
    BY <1>0, <1>11, SMT
  <2>4. v \div 128 + w * 2 = r + 128 * q
    BY <1>10, <1>11, <2>1, <2>2, <2>3, SMT
  <2>5. (r + 128 * q) % 128 = r
    BY <1>9
  <2> QED
    BY <2>3, <2>4, <2>5, Zenon
<1> QED
  BY <1>1, <1>2, <1>3, <1>4, <1>5, <1>6, <1>7, <1>8, Zenon DEF Moved

\* v is the octet whose bits stand behind place p of x.
Byte(v, x, p) ==
    /\ \A j \in 1..8 : x[p + j] \in Bit
    /\ v = x[p + 1] + 2 * x[p + 2] + 4 * x[p + 3] + 8 * x[p + 4] + 16 * x[p + 5] + 32 * x[p + 6] + 64 * x[p + 7] + 128 * x[p + 8]

\* OctetsOf makes an octet of each eight bits.
LEMMA OctetIs ==
    ASSUME NEW x \in Seq(Bit), NEW k \in Nat, 8 * (k + 1) <= Len(x)
    PROVE  /\ k + 1 \in 1..Len(OctetsOf(x))
           /\ Byte(OctetsOf(x)[k + 1], x, 8 * k)
<1>1. Len(x) \in Nat
  OBVIOUS
<1>2. k + 1 \in 1..(Len(x) \div 8) /\ Len(x) \div 8 \in Nat
  BY <1>1, SMT
<1>3. /\ Len(OctetsOf(x)) = Len(x) \div 8
      /\ OctetsOf(x)[k + 1] = Value7(SubSeq(x, 8 * (k + 1) - 7, 8 * (k + 1) - 1)) + 128 * x[8 * (k + 1)]
  <2>1. \A n \in Nat : Len([i \in 1..n |-> Value7(SubSeq(x, 8 * i - 7, 8 * i - 1)) + 128 * x[8 * i]]) = n
    OBVIOUS
  <2> QED
    BY <1>2, <2>1, Zenon DEF OctetsOf
<1>4. 8 * (k + 1) - 7 = 8 * k + 1 /\ 8 * (k + 1) - 1 = 8 * k + 7 /\ 8 * (k + 1) = 8 * k + 8
  BY SMT
<1>5. PICK p \in Nat : p = 8 * k
  BY SMT
<1>6. \A j \in 1..8 : x[p + j] \in Bit
  <2>1. \A j \in 1..8 : p + j \in 1..Len(x)
    BY <1>1, <1>5, SMT
  <2>2. \A j \in 1..Len(x) : x[j] \in Bit
    OBVIOUS
  <2> QED
    BY <2>1, <2>2, Zenon
<1>7. PICK s : s = SubSeq(x, p + 1, p + 7)
  OBVIOUS
<1>8. \A j \in 1..7 : s[j] = x[p + j]
  <2>1. p + 1 \in Int /\ p + 7 \in Int /\ (p + 7) - (p + 1) + 1 = 7
    BY SMT
  <2>2. \A j \in (p + 1)..(p + 7) : x[j] \in Bit
    <3>1. \A j \in (p + 1)..(p + 7) : j \in 1..Len(x)
      BY <1>1, <1>5, SMT
    <3> QED
      BY <3>1
  <2>3. \A j \in 1..((p + 7) - (p + 1) + 1) : s[j] = x[(p + 1) + j - 1]
    BY <1>7, <2>1, <2>2, SubSeqProperties
  <2>4. \A j \in 1..7 : (p + 1) + j - 1 = p + j
    BY SMT
  <2> QED
    BY <2>1, <2>3, <2>4, Zenon
<1>9. 1 \in 1..7 /\ 2 \in 1..7 /\ 3 \in 1..7 /\ 4 \in 1..7 /\ 5 \in 1..7 /\ 6 \in 1..7 /\ 7 \in 1..7
  BY SMT
<1>10. Value7(s) = x[p + 1] + 2 * x[p + 2] + 4 * x[p + 3] + 8 * x[p + 4] + 16 * x[p + 5] + 32 * x[p + 6] + 64 * x[p + 7]
  BY <1>8, <1>9, Zenon DEF Value7
<1>11. OctetsOf(x)[k + 1] = (x[p + 1] + 2 * x[p + 2] + 4 * x[p + 3] + 8 * x[p + 4] + 16 * x[p + 5] + 32 * x[p + 6] + 64 * x[p + 7]) + 128 * x[p + 8]
  BY <1>3, <1>4, <1>5, <1>7, <1>10, ZenonT(60)
<1>12. Byte(OctetsOf(x)[k + 1], x, p)
  BY <1>6, <1>11, Zenon DEF Byte
<1> QED
  BY <1>2, <1>3, <1>5, <1>12, Zenon

\* gsm7bit_to_utf8 takes septet i from the seven bits that carry it.
LEMMA SeptetIs ==
    ASSUME NEW x \in Seq(Bit), NEW i \in Nat, Len(x) % 8 = 0, 7 * i + 7 <= Len(x)
    PROVE  SeptetAt(OctetsOf(x), i) = x[7 * i + 1] + 2 * x[7 * i + 2] + 4 * x[7 * i + 3] + 8 * x[7 * i + 4] + 16 * x[7 * i + 5] + 32 * x[7 * i + 6] + 64 * x[7 * i + 7]
<1>1. PICK o \in Nat, m \in 0..7 : (i * 7) \div 8 = o /\ (i * 7) % 8 = m /\ 7 * i = 8 * o + m
  <2>1. (i * 7) \div 8 \in Nat /\ (i * 7) % 8 \in 0..7 /\ 7 * i = 8 * ((i * 7) \div 8) + ((i * 7) % 8)
    BY SMT
  <2> QED
    BY <2>1, Zenon
<1>2. PICK s : s = OctetsOf(x)
  OBVIOUS
<1>3. SeptetAt(s, i) = (IF m <= 1 THEN s[o + 1] \div Power[m + 1]
                        ELSE s[o + 1] \div Power[m + 1] + s[o + 2] * Power[9 - m]) % 128
  BY <1>1, Zenon DEF SeptetAt
<1>4. Len(x) \in Nat
  OBVIOUS
<1>5. PICK p \in Nat : p = 8 * o
  BY SMT
<1>6. Byte(s[o + 1], x, p)
  <2>1. 8 * (o + 1) <= Len(x)
    BY <1>1, <1>4, SMT
  <2> QED
    BY <1>2, <1>5, <2>1, OctetIs
<1>7. ASSUME m > 1 PROVE Byte(s[o + 2], x, p + 8)
  <2>1. 8 * ((o + 1) + 1) <= Len(x) /\ o + 1 \in Nat /\ (o + 1) + 1 = o + 2 /\ 8 * (o + 1) = p + 8
    BY <1>1, <1>4, <1>5, <1>7, SMT
  <2>2. Byte(s[(o + 1) + 1], x, 8 * (o + 1))
    BY <1>2, <2>1, OctetIs
  <2> QED
    BY <2>1, <2>2, Zenon
<1>8. \A j \in 1..7 : 7 * i + j = p + (m + j)
  BY <1>1, <1>5, SMT
<1>9. /\ 1 \in 1..8 /\ 2 \in 1..8 /\ 3 \in 1..8 /\ 4 \in 1..8 /\ 5 \in 1..8 /\ 6 \in 1..8 /\ 7 \in 1..8
      /\ 8 \in 1..8 /\ 1 \in 1..7 /\ 2 \in 1..7 /\ 3 \in 1..7 /\ 4 \in 1..7 /\ 5 \in 1..7 /\ 6 \in 1..7
      /\ 7 \in 1..7
  BY SMT
<1>10. \A j \in 1..8 : (p + 8) + j = p + (8 + j)
  BY SMT
<1>11. PICK a1 \in Bit : a1 = x[p + 1]
  BY <1>6, <1>9, Zenon DEF Byte
<1>12. PICK a2 \in Bit : a2 = x[p + 2]
  BY <1>6, <1>9, Zenon DEF Byte
<1>13. PICK a3 \in Bit : a3 = x[p + 3]
  BY <1>6, <1>9, Zenon DEF Byte
<1>14. PICK a4 \in Bit : a4 = x[p + 4]
  BY <1>6, <1>9, Zenon DEF Byte
<1>15. PICK a5 \in Bit : a5 = x[p + 5]
  BY <1>6, <1>9, Zenon DEF Byte
<1>16. PICK a6 \in Bit : a6 = x[p + 6]
  BY <1>6, <1>9, Zenon DEF Byte
<1>17. PICK a7 \in Bit : a7 = x[p + 7]
  BY <1>6, <1>9, Zenon DEF Byte
<1>18. PICK a8 \in Bit : a8 = x[p + 8]
  BY <1>6, <1>9, Zenon DEF Byte
<1>19. PICK v \in Nat : v = s[o + 1] /\ v = a1 + 2 * a2 + 4 * a3 + 8 * a4 + 16 * a5 + 32 * a6 + 64 * a7 + 128 * a8
  <2>1. s[o + 1] = a1 + 2 * a2 + 4 * a3 + 8 * a4 + 16 * a5 + 32 * a6 + 64 * a7 + 128 * a8
    BY <1>6, <1>11, <1>12, <1>13, <1>14, <1>15, <1>16, <1>17, <1>18, Zenon DEF Byte
  <2>2. a1 + 2 * a2 + 4 * a3 + 8 * a4 + 16 * a5 + 32 * a6 + 64 * a7 + 128 * a8 \in Nat
    BY SMT DEF Bit
  <2> QED
    BY <2>1, <2>2, Zenon
<1>20. ASSUME m > 1 PROVE s[o + 2] = x[p + 9] + 2 * x[p + 10] + 4 * x[p + 11] + 8 * x[p + 12] + 16 * x[p + 13] + 32 * x[p + 14] + 64 * x[p + 15] + 128 * x[p + 16]
  <2>1. Byte(s[o + 2], x, p + 8)
    BY <1>7, <1>20
  <2>2. (p + 8) + 1 = p + 9
    BY SMT
  <2>3. (p + 8) + 2 = p + 10
    BY SMT
  <2>4. (p + 8) + 3 = p + 11
    BY SMT
  <2>5. (p + 8) + 4 = p + 12
    BY SMT
  <2>6. (p + 8) + 5 = p + 13
    BY SMT
  <2>7. (p + 8) + 6 = p + 14
    BY SMT
  <2>8. (p + 8) + 7 = p + 15
    BY SMT
  <2>9. (p + 8) + 8 = p + 16
    BY SMT
  <2> QED
    BY <2>1, <2>2, <2>3, <2>4, <2>5, <2>6, <2>7, <2>8, <2>9, Zenon DEF Byte
<1>41. PICK b1 \in Bit : m > 1 => b1 = x[p + 9]
  <2>1. CASE m > 1
    <3>1. (p + 8) + 1 = p + 9
      BY SMT
    <3>2. x[p + 9] \in Bit
      BY <1>7, <1>9, <2>1, <3>1, Zenon DEF Byte
    <3> QED
      BY <3>2
  <2>2. CASE ~(m > 1)
    <3>1. 0 \in Bit
      BY DEF Bit
    <3> QED
      BY <2>2, <3>1
  <2> QED
    BY <2>1, <2>2
<1>42. PICK b2 \in Bit : m > 1 => b2 = x[p + 10]
  <2>1. CASE m > 1
    <3>1. (p + 8) + 2 = p + 10
      BY SMT
    <3>2. x[p + 10] \in Bit
      BY <1>7, <1>9, <2>1, <3>1, Zenon DEF Byte
    <3> QED
      BY <3>2
  <2>2. CASE ~(m > 1)
    <3>1. 0 \in Bit
      BY DEF Bit
    <3> QED
      BY <2>2, <3>1
  <2> QED
    BY <2>1, <2>2
<1>43. PICK b3 \in Bit : m > 1 => b3 = x[p + 11]
  <2>1. CASE m > 1
    <3>1. (p + 8) + 3 = p + 11
      BY SMT
    <3>2. x[p + 11] \in Bit
      BY <1>7, <1>9, <2>1, <3>1, Zenon DEF Byte
    <3> QED
      BY <3>2
  <2>2. CASE ~(m > 1)
    <3>1. 0 \in Bit
      BY DEF Bit
    <3> QED
      BY <2>2, <3>1
  <2> QED
    BY <2>1, <2>2
<1>44. PICK b4 \in Bit : m > 1 => b4 = x[p + 12]
  <2>1. CASE m > 1
    <3>1. (p + 8) + 4 = p + 12
      BY SMT
    <3>2. x[p + 12] \in Bit
      BY <1>7, <1>9, <2>1, <3>1, Zenon DEF Byte
    <3> QED
      BY <3>2
  <2>2. CASE ~(m > 1)
    <3>1. 0 \in Bit
      BY DEF Bit
    <3> QED
      BY <2>2, <3>1
  <2> QED
    BY <2>1, <2>2
<1>45. PICK b5 \in Bit : m > 1 => b5 = x[p + 13]
  <2>1. CASE m > 1
    <3>1. (p + 8) + 5 = p + 13
      BY SMT
    <3>2. x[p + 13] \in Bit
      BY <1>7, <1>9, <2>1, <3>1, Zenon DEF Byte
    <3> QED
      BY <3>2
  <2>2. CASE ~(m > 1)
    <3>1. 0 \in Bit
      BY DEF Bit
    <3> QED
      BY <2>2, <3>1
  <2> QED
    BY <2>1, <2>2
<1>46. PICK b6 \in Bit : m > 1 => b6 = x[p + 14]
  <2>1. CASE m > 1
    <3>1. (p + 8) + 6 = p + 14
      BY SMT
    <3>2. x[p + 14] \in Bit
      BY <1>7, <1>9, <2>1, <3>1, Zenon DEF Byte
    <3> QED
      BY <3>2
  <2>2. CASE ~(m > 1)
    <3>1. 0 \in Bit
      BY DEF Bit
    <3> QED
      BY <2>2, <3>1
  <2> QED
    BY <2>1, <2>2
<1>47. PICK b7 \in Bit : m > 1 => b7 = x[p + 15]
  <2>1. CASE m > 1
    <3>1. (p + 8) + 7 = p + 15
      BY SMT
    <3>2. x[p + 15] \in Bit
      BY <1>7, <1>9, <2>1, <3>1, Zenon DEF Byte
    <3> QED
      BY <3>2
  <2>2. CASE ~(m > 1)
    <3>1. 0 \in Bit
      BY DEF Bit
    <3> QED
      BY <2>2, <3>1
  <2> QED
    BY <2>1, <2>2
<1>48. PICK b8 \in Bit : m > 1 => b8 = x[p + 16]
  <2>1. CASE m > 1
    <3>1. (p + 8) + 8 = p + 16
      BY SMT
    <3>2. x[p + 16] \in Bit
      BY <1>7, <1>9, <2>1, <3>1, Zenon DEF Byte
    <3> QED
      BY <3>2
  <2>2. CASE ~(m > 1)
    <3>1. 0 \in Bit
      BY DEF Bit
    <3> QED
      BY <2>2, <3>1
  <2> QED
    BY <2>1, <2>2
<1>21. m > 1 => s[o + 2] = b1 + 2 * b2 + 4 * b3 + 8 * b4 + 16 * b5 + 32 * b6 + 64 * b7 + 128 * b8
  BY <1>20, <1>41, <1>42, <1>43, <1>44, <1>45, <1>46, <1>47, <1>48, Zenon
<1>22. PICK w \in Nat : w = b1 + 2 * b2 + 4 * b3 + 8 * b4 + 16 * b5 + 32 * b6 + 64 * b7 + 128 * b8
  <2>1. b1 + 2 * b2 + 4 * b3 + 8 * b4 + 16 * b5 + 32 * b6 + 64 * b7 + 128 * b8 \in Nat
    BY SMT DEF Bit
  <2> QED
    BY <2>1, Zenon
<1>23. m > 1 => s[o + 2] = w
  BY <1>21, <1>22, Zenon
<1>24. Moved(v, w, a1, a2, a3, a4, a5, a6, a7, a8, b1, b2, b3, b4, b5, b6, b7, b8)
  <2>1. Sum8(v, a1, a2, a3, a4, a5, a6, a7, a8) /\ Sum8(w, b1, b2, b3, b4, b5, b6, b7, b8)
    BY <1>19, <1>22, Zenon DEF Sum8
  <2> QED
    BY <2>1, Shifted
<1>25. CASE m = 0
  <2>1. Power[m + 1] = 1 /\ m <= 1
    BY <1>25, SMT DEF Power
  <2>2. SeptetAt(s, i) = a1 + 2 * a2 + 4 * a3 + 8 * a4 + 16 * a5 + 32 * a6 + 64 * a7
    BY <1>3, <1>19, <1>24, <2>1, ZenonT(60) DEF Moved
  <2>3. x[7 * i + 1] = a1
    <3>1. 7 * i + 1 = p + 1
      BY <1>1, <1>5, <1>25, SMT
    <3> QED
      BY <3>1, <1>11, Zenon
  <2>4. x[7 * i + 2] = a2
    <3>1. 7 * i + 2 = p + 2
      BY <1>1, <1>5, <1>25, SMT
    <3> QED
      BY <3>1, <1>12, Zenon
  <2>5. x[7 * i + 3] = a3
    <3>1. 7 * i + 3 = p + 3
      BY <1>1, <1>5, <1>25, SMT
    <3> QED
      BY <3>1, <1>13, Zenon
  <2>6. x[7 * i + 4] = a4
    <3>1. 7 * i + 4 = p + 4
      BY <1>1, <1>5, <1>25, SMT
    <3> QED
      BY <3>1, <1>14, Zenon
  <2>7. x[7 * i + 5] = a5
    <3>1. 7 * i + 5 = p + 5
      BY <1>1, <1>5, <1>25, SMT
    <3> QED
      BY <3>1, <1>15, Zenon
  <2>8. x[7 * i + 6] = a6
    <3>1. 7 * i + 6 = p + 6
      BY <1>1, <1>5, <1>25, SMT
    <3> QED
      BY <3>1, <1>16, Zenon
  <2>9. x[7 * i + 7] = a7
    <3>1. 7 * i + 7 = p + 7
      BY <1>1, <1>5, <1>25, SMT
    <3> QED
      BY <3>1, <1>17, Zenon
  <2> QED
    BY <1>2, <2>2, <2>3, <2>4, <2>5, <2>6, <2>7, <2>8, <2>9, Zenon
<1>26. CASE m = 1
  <2>1. Power[m + 1] = 2 /\ m <= 1
    BY <1>26, SMT DEF Power
  <2>2. SeptetAt(s, i) = a2 + 2 * a3 + 4 * a4 + 8 * a5 + 16 * a6 + 32 * a7 + 64 * a8
    BY <1>3, <1>19, <1>24, <2>1, ZenonT(60) DEF Moved
  <2>3. x[7 * i + 1] = a2
    <3>1. 7 * i + 1 = p + 2
      BY <1>1, <1>5, <1>26, SMT
    <3> QED
      BY <3>1, <1>12, Zenon
  <2>4. x[7 * i + 2] = a3
    <3>1. 7 * i + 2 = p + 3
      BY <1>1, <1>5, <1>26, SMT
    <3> QED
      BY <3>1, <1>13, Zenon
  <2>5. x[7 * i + 3] = a4
    <3>1. 7 * i + 3 = p + 4
      BY <1>1, <1>5, <1>26, SMT
    <3> QED
      BY <3>1, <1>14, Zenon
  <2>6. x[7 * i + 4] = a5
    <3>1. 7 * i + 4 = p + 5
      BY <1>1, <1>5, <1>26, SMT
    <3> QED
      BY <3>1, <1>15, Zenon
  <2>7. x[7 * i + 5] = a6
    <3>1. 7 * i + 5 = p + 6
      BY <1>1, <1>5, <1>26, SMT
    <3> QED
      BY <3>1, <1>16, Zenon
  <2>8. x[7 * i + 6] = a7
    <3>1. 7 * i + 6 = p + 7
      BY <1>1, <1>5, <1>26, SMT
    <3> QED
      BY <3>1, <1>17, Zenon
  <2>9. x[7 * i + 7] = a8
    <3>1. 7 * i + 7 = p + 8
      BY <1>1, <1>5, <1>26, SMT
    <3> QED
      BY <3>1, <1>18, Zenon
  <2> QED
    BY <1>2, <2>2, <2>3, <2>4, <2>5, <2>6, <2>7, <2>8, <2>9, Zenon
<1>27. CASE m = 2
  <2>1. Power[m + 1] = 4 /\ Power[9 - m] = 64 /\ m > 1 /\ ~(m <= 1)
    BY <1>27, SMT DEF Power
  <2>2. SeptetAt(s, i) = a3 + 2 * a4 + 4 * a5 + 8 * a6 + 16 * a7 + 32 * a8 + 64 * b1
    BY <1>3, <1>19, <1>23, <1>24, <2>1, ZenonT(60) DEF Moved
  <2>3. x[7 * i + 1] = a3
    <3>1. 7 * i + 1 = p + 3
      BY <1>1, <1>5, <1>27, SMT
    <3> QED
      BY <2>1, <3>1, <1>13, Zenon
  <2>4. x[7 * i + 2] = a4
    <3>1. 7 * i + 2 = p + 4
      BY <1>1, <1>5, <1>27, SMT
    <3> QED
      BY <2>1, <3>1, <1>14, Zenon
  <2>5. x[7 * i + 3] = a5
    <3>1. 7 * i + 3 = p + 5
      BY <1>1, <1>5, <1>27, SMT
    <3> QED
      BY <2>1, <3>1, <1>15, Zenon
  <2>6. x[7 * i + 4] = a6
    <3>1. 7 * i + 4 = p + 6
      BY <1>1, <1>5, <1>27, SMT
    <3> QED
      BY <2>1, <3>1, <1>16, Zenon
  <2>7. x[7 * i + 5] = a7
    <3>1. 7 * i + 5 = p + 7
      BY <1>1, <1>5, <1>27, SMT
    <3> QED
      BY <2>1, <3>1, <1>17, Zenon
  <2>8. x[7 * i + 6] = a8
    <3>1. 7 * i + 6 = p + 8
      BY <1>1, <1>5, <1>27, SMT
    <3> QED
      BY <2>1, <3>1, <1>18, Zenon
  <2>9. x[7 * i + 7] = b1
    <3>1. 7 * i + 7 = p + 9
      BY <1>1, <1>5, <1>27, SMT
    <3> QED
      BY <2>1, <3>1, <1>41, Zenon
  <2> QED
    BY <1>2, <2>2, <2>3, <2>4, <2>5, <2>6, <2>7, <2>8, <2>9, Zenon
<1>28. CASE m = 3
  <2>1. Power[m + 1] = 8 /\ Power[9 - m] = 32 /\ m > 1 /\ ~(m <= 1)
    BY <1>28, SMT DEF Power
  <2>2. SeptetAt(s, i) = a4 + 2 * a5 + 4 * a6 + 8 * a7 + 16 * a8 + 32 * b1 + 64 * b2
    BY <1>3, <1>19, <1>23, <1>24, <2>1, ZenonT(60) DEF Moved
  <2>3. x[7 * i + 1] = a4
    <3>1. 7 * i + 1 = p + 4
      BY <1>1, <1>5, <1>28, SMT
    <3> QED
      BY <2>1, <3>1, <1>14, Zenon
  <2>4. x[7 * i + 2] = a5
    <3>1. 7 * i + 2 = p + 5
      BY <1>1, <1>5, <1>28, SMT
    <3> QED
      BY <2>1, <3>1, <1>15, Zenon
  <2>5. x[7 * i + 3] = a6
    <3>1. 7 * i + 3 = p + 6
      BY <1>1, <1>5, <1>28, SMT
    <3> QED
      BY <2>1, <3>1, <1>16, Zenon
  <2>6. x[7 * i + 4] = a7
    <3>1. 7 * i + 4 = p + 7
      BY <1>1, <1>5, <1>28, SMT
    <3> QED
      BY <2>1, <3>1, <1>17, Zenon
  <2>7. x[7 * i + 5] = a8
    <3>1. 7 * i + 5 = p + 8
      BY <1>1, <1>5, <1>28, SMT
    <3> QED
      BY <2>1, <3>1, <1>18, Zenon
  <2>8. x[7 * i + 6] = b1
    <3>1. 7 * i + 6 = p + 9
      BY <1>1, <1>5, <1>28, SMT
    <3> QED
      BY <2>1, <3>1, <1>41, Zenon
  <2>9. x[7 * i + 7] = b2
    <3>1. 7 * i + 7 = p + 10
      BY <1>1, <1>5, <1>28, SMT
    <3> QED
      BY <2>1, <3>1, <1>42, Zenon
  <2> QED
    BY <1>2, <2>2, <2>3, <2>4, <2>5, <2>6, <2>7, <2>8, <2>9, Zenon
<1>29. CASE m = 4
  <2>1. Power[m + 1] = 16 /\ Power[9 - m] = 16 /\ m > 1 /\ ~(m <= 1)
    BY <1>29, SMT DEF Power
  <2>2. SeptetAt(s, i) = a5 + 2 * a6 + 4 * a7 + 8 * a8 + 16 * b1 + 32 * b2 + 64 * b3
    BY <1>3, <1>19, <1>23, <1>24, <2>1, ZenonT(60) DEF Moved
  <2>3. x[7 * i + 1] = a5
    <3>1. 7 * i + 1 = p + 5
      BY <1>1, <1>5, <1>29, SMT
    <3> QED
      BY <2>1, <3>1, <1>15, Zenon
  <2>4. x[7 * i + 2] = a6
    <3>1. 7 * i + 2 = p + 6
      BY <1>1, <1>5, <1>29, SMT
    <3> QED
      BY <2>1, <3>1, <1>16, Zenon
  <2>5. x[7 * i + 3] = a7
    <3>1. 7 * i + 3 = p + 7
      BY <1>1, <1>5, <1>29, SMT
    <3> QED
      BY <2>1, <3>1, <1>17, Zenon
  <2>6. x[7 * i + 4] = a8
    <3>1. 7 * i + 4 = p + 8
      BY <1>1, <1>5, <1>29, SMT
    <3> QED
      BY <2>1, <3>1, <1>18, Zenon
  <2>7. x[7 * i + 5] = b1
    <3>1. 7 * i + 5 = p + 9
      BY <1>1, <1>5, <1>29, SMT
    <3> QED
      BY <2>1, <3>1, <1>41, Zenon
  <2>8. x[7 * i + 6] = b2
    <3>1. 7 * i + 6 = p + 10
      BY <1>1, <1>5, <1>29, SMT
    <3> QED
      BY <2>1, <3>1, <1>42, Zenon
  <2>9. x[7 * i + 7] = b3
    <3>1. 7 * i + 7 = p + 11
      BY <1>1, <1>5, <1>29, SMT
    <3> QED
      BY <2>1, <3>1, <1>43, Zenon
  <2> QED
    BY <1>2, <2>2, <2>3, <2>4, <2>5, <2>6, <2>7, <2>8, <2>9, Zenon
<1>30. CASE m = 5
  <2>1. Power[m + 1] = 32 /\ Power[9 - m] = 8 /\ m > 1 /\ ~(m <= 1)
    BY <1>30, SMT DEF Power
  <2>2. SeptetAt(s, i) = a6 + 2 * a7 + 4 * a8 + 8 * b1 + 16 * b2 + 32 * b3 + 64 * b4
    BY <1>3, <1>19, <1>23, <1>24, <2>1, ZenonT(60) DEF Moved
  <2>3. x[7 * i + 1] = a6
    <3>1. 7 * i + 1 = p + 6
      BY <1>1, <1>5, <1>30, SMT
    <3> QED
      BY <2>1, <3>1, <1>16, Zenon
  <2>4. x[7 * i + 2] = a7
    <3>1. 7 * i + 2 = p + 7
      BY <1>1, <1>5, <1>30, SMT
    <3> QED
      BY <2>1, <3>1, <1>17, Zenon
  <2>5. x[7 * i + 3] = a8
    <3>1. 7 * i + 3 = p + 8
      BY <1>1, <1>5, <1>30, SMT
    <3> QED
      BY <2>1, <3>1, <1>18, Zenon
  <2>6. x[7 * i + 4] = b1
    <3>1. 7 * i + 4 = p + 9
      BY <1>1, <1>5, <1>30, SMT
    <3> QED
      BY <2>1, <3>1, <1>41, Zenon
  <2>7. x[7 * i + 5] = b2
    <3>1. 7 * i + 5 = p + 10
      BY <1>1, <1>5, <1>30, SMT
    <3> QED
      BY <2>1, <3>1, <1>42, Zenon
  <2>8. x[7 * i + 6] = b3
    <3>1. 7 * i + 6 = p + 11
      BY <1>1, <1>5, <1>30, SMT
    <3> QED
      BY <2>1, <3>1, <1>43, Zenon
  <2>9. x[7 * i + 7] = b4
    <3>1. 7 * i + 7 = p + 12
      BY <1>1, <1>5, <1>30, SMT
    <3> QED
      BY <2>1, <3>1, <1>44, Zenon
  <2> QED
    BY <1>2, <2>2, <2>3, <2>4, <2>5, <2>6, <2>7, <2>8, <2>9, Zenon
<1>31. CASE m = 6
  <2>1. Power[m + 1] = 64 /\ Power[9 - m] = 4 /\ m > 1 /\ ~(m <= 1)
    BY <1>31, SMT DEF Power
  <2>2. SeptetAt(s, i) = a7 + 2 * a8 + 4 * b1 + 8 * b2 + 16 * b3 + 32 * b4 + 64 * b5
    BY <1>3, <1>19, <1>23, <1>24, <2>1, Zenon DEF Moved
  <2>3. x[7 * i + 1] = a7
    <3>1. 7 * i + 1 = p + 7
      BY <1>1, <1>5, <1>31, SMT
    <3> QED
      BY <2>1, <3>1, <1>17, Zenon
  <2>4. x[7 * i + 2] = a8
    <3>1. 7 * i + 2 = p + 8
      BY <1>1, <1>5, <1>31, SMT
    <3> QED
      BY <2>1, <3>1, <1>18, Zenon
  <2>5. x[7 * i + 3] = b1
    <3>1. 7 * i + 3 = p + 9
      BY <1>1, <1>5, <1>31, SMT
    <3> QED
      BY <2>1, <3>1, <1>41, Zenon
  <2>6. x[7 * i + 4] = b2
    <3>1. 7 * i + 4 = p + 10
      BY <1>1, <1>5, <1>31, SMT
    <3> QED
      BY <2>1, <3>1, <1>42, Zenon
  <2>7. x[7 * i + 5] = b3
    <3>1. 7 * i + 5 = p + 11
      BY <1>1, <1>5, <1>31, SMT
    <3> QED
      BY <2>1, <3>1, <1>43, Zenon
  <2>8. x[7 * i + 6] = b4
    <3>1. 7 * i + 6 = p + 12
      BY <1>1, <1>5, <1>31, SMT
    <3> QED
      BY <2>1, <3>1, <1>44, Zenon
  <2>9. x[7 * i + 7] = b5
    <3>1. 7 * i + 7 = p + 13
      BY <1>1, <1>5, <1>31, SMT
    <3> QED
      BY <2>1, <3>1, <1>45, Zenon
  <2> QED
    BY <1>2, <2>2, <2>3, <2>4, <2>5, <2>6, <2>7, <2>8, <2>9, Zenon
<1>32. CASE m = 7
  <2>1. Power[m + 1] = 128 /\ Power[9 - m] = 2 /\ m > 1 /\ ~(m <= 1)
    BY <1>32, SMT DEF Power
  <2>2. SeptetAt(s, i) = a8 + 2 * b1 + 4 * b2 + 8 * b3 + 16 * b4 + 32 * b5 + 64 * b6
    BY <1>3, <1>19, <1>23, <1>24, <2>1, Zenon DEF Moved
  <2>3. x[7 * i + 1] = a8
    <3>1. 7 * i + 1 = p + 8
      BY <1>1, <1>5, <1>32, SMT
    <3> QED
      BY <2>1, <3>1, <1>18, Zenon
  <2>4. x[7 * i + 2] = b1
    <3>1. 7 * i + 2 = p + 9
      BY <1>1, <1>5, <1>32, SMT
    <3> QED
      BY <2>1, <3>1, <1>41, Zenon
  <2>5. x[7 * i + 3] = b2
    <3>1. 7 * i + 3 = p + 10
      BY <1>1, <1>5, <1>32, SMT
    <3> QED
      BY <2>1, <3>1, <1>42, Zenon
  <2>6. x[7 * i + 4] = b3
    <3>1. 7 * i + 4 = p + 11
      BY <1>1, <1>5, <1>32, SMT
    <3> QED
      BY <2>1, <3>1, <1>43, Zenon
  <2>7. x[7 * i + 5] = b4
    <3>1. 7 * i + 5 = p + 12
      BY <1>1, <1>5, <1>32, SMT
    <3> QED
      BY <2>1, <3>1, <1>44, Zenon
  <2>8. x[7 * i + 6] = b5
    <3>1. 7 * i + 6 = p + 13
      BY <1>1, <1>5, <1>32, SMT
    <3> QED
      BY <2>1, <3>1, <1>45, Zenon
  <2>9. x[7 * i + 7] = b6
    <3>1. 7 * i + 7 = p + 14
      BY <1>1, <1>5, <1>32, SMT
    <3> QED
      BY <2>1, <3>1, <1>46, Zenon
  <2> QED
    BY <1>2, <2>2, <2>3, <2>4, <2>5, <2>6, <2>7, <2>8, <2>9, Zenon
<1>33. m = 0 \/ m = 1 \/ m = 2 \/ m = 3 \/ m = 4 \/ m = 5 \/ m = 6 \/ m = 7
  BY SMT
<1> QED
  BY <1>25, <1>26, <1>27, <1>28, <1>29, <1>30, <1>31, <1>32, <1>33, Zenon

\* The octets of a packed text.
LEMMA OctetsOfIs ==
    ASSUME NEW x \in Seq(Bit)
    PROVE  OctetsOf(x) \in Seq(Nat) /\ Len(OctetsOf(x)) = Len(x) \div 8
<1>1. Len(x) \in Nat /\ Len(x) \div 8 \in Nat
  BY SMT
<1>2. PICK n \in Nat : n = Len(x) \div 8
  BY <1>1
<1>3. PICK s : s = OctetsOf(x)
  OBVIOUS
<1>4. s = [i \in 1..n |-> s[i]]
  <2>1. \A f, g : f = [i \in 1..n |-> g[i]] => f = [i \in 1..n |-> f[i]]
    OBVIOUS
  <2>2. s = [i \in 1..n |-> Value7(SubSeq(x, 8 * i - 7, 8 * i - 1)) + 128 * x[8 * i]]
    BY <1>2, <1>3, Zenon DEF OctetsOf
  <2> QED
    BY <2>2
<1>5. \A i \in 1..n : s[i] \in Nat
  <2> SUFFICES ASSUME NEW i \in 1..n PROVE s[i] \in Nat
    OBVIOUS
  <2>1. PICK k \in Nat : i = k + 1 /\ 8 * (k + 1) <= Len(x)
    <3>1. i - 1 \in Nat /\ i = (i - 1) + 1 /\ 8 * ((i - 1) + 1) <= Len(x)
      BY <1>1, <1>2, SMT
    <3> QED
      BY <3>1, Zenon
  <2>2. PICK p : p = 8 * k
    OBVIOUS
  <2>3. Byte(s[i], x, p)
    BY <1>3, <2>1, <2>2, OctetIs
  <2>4. /\ x[p + 1] \in Bit /\ x[p + 2] \in Bit /\ x[p + 3] \in Bit /\ x[p + 4] \in Bit
        /\ x[p + 5] \in Bit /\ x[p + 6] \in Bit /\ x[p + 7] \in Bit /\ x[p + 8] \in Bit
    <3>1. /\ 1 \in 1..8 /\ 2 \in 1..8 /\ 3 \in 1..8 /\ 4 \in 1..8 /\ 5 \in 1..8 /\ 6 \in 1..8
          /\ 7 \in 1..8 /\ 8 \in 1..8
      BY SMT
    <3> QED
      BY <2>3, <3>1, ZenonT(60) DEF Byte
  <2>5. x[p + 1] + 2 * x[p + 2] + 4 * x[p + 3] + 8 * x[p + 4] + 16 * x[p + 5] + 32 * x[p + 6]
        + 64 * x[p + 7] + 128 * x[p + 8] \in Nat
    <3>1. PICK a \in Bit : a = x[p + 1]
      BY <2>4, Zenon
    <3>2. PICK b \in Bit : b = x[p + 2]
      BY <2>4, Zenon
    <3>3. PICK c \in Bit : c = x[p + 3]
      BY <2>4, Zenon
    <3>4. PICK d \in Bit : d = x[p + 4]
      BY <2>4, Zenon
    <3>5. PICK e \in Bit : e = x[p + 5]
      BY <2>4, Zenon
    <3>6. PICK f \in Bit : f = x[p + 6]
      BY <2>4, Zenon
    <3>7. PICK g \in Bit : g = x[p + 7]
      BY <2>4, Zenon
    <3>8. PICK h \in Bit : h = x[p + 8]
      BY <2>4, Zenon
    <3>9. a + 2 * b + 4 * c + 8 * d + 16 * e + 32 * f + 64 * g + 128 * h \in Nat
      BY SMT DEF Bit
    <3> QED
      BY <3>1, <3>2, <3>3, <3>4, <3>5, <3>6, <3>7, <3>8, <3>9, Zenon
  <2> QED
    BY <2>3, <2>5, Zenon DEF Byte
<1>6. s \in Seq(Nat) /\ Len(s) = n
  BY SMTT(30), <1>4, <1>5
<1> QED
  BY <1>2, <1>3, <1>6, Zenon

\* A text loses one octet in eight.
LEMMA OctetsAre ==
    \A n \in Nat : /\ Octets(n) \in Nat /\ Octets(n) <= n /\ Octets(n) = n - (n \div 8)
                   /\ \A i \in 1..Octets(n) : 7 * (i - 1) + 7 <= 8 * Octets(n)
  BY SMT DEF Octets

\* The gateway finds the first septets that were packed.
LEMMA SeptetsFound ==
    ASSUME Packing, encoding = "GSM7", pc = "encoded"
    PROVE  \A i \in 1..Octets(Len(septets)) : SeptetAt(OctetsOf(data), i - 1) = septets[i]
<1>1. /\ data \in Seq(Bit) /\ Len(data) % 8 = 0 /\ Len(data) = 8 * Octets(Len(septets))
      /\ septets \in Seq(Septets) /\ Packed(data)
  BY Zenon DEF Packing, TypeOK, PackedWhole
<1>2. Len(septets) \in Nat
  BY <1>1
<1> SUFFICES ASSUME NEW i \in 1..Octets(Len(septets))
             PROVE  SeptetAt(OctetsOf(data), i - 1) = septets[i]
  OBVIOUS
<1>3. i \in 1..Len(septets) /\ i - 1 \in Nat /\ 7 * (i - 1) + 7 <= Len(data)
  <2>1. /\ Octets(Len(septets)) \in Nat /\ Octets(Len(septets)) <= Len(septets)
        /\ 7 * (i - 1) + 7 <= 8 * Octets(Len(septets))
    BY <1>2, OctetsAre
  <2> QED
    BY <1>1, <1>2, <2>1
<1>4. PICK k \in Nat : k = i - 1
  BY <1>3
<1>5. SeptetAt(OctetsOf(data), k)
      = data[7 * k + 1] + 2 * data[7 * k + 2] + 4 * data[7 * k + 3] + 8 * data[7 * k + 4]
        + 16 * data[7 * k + 5] + 32 * data[7 * k + 6] + 64 * data[7 * k + 7]
  BY <1>1, <1>3, <1>4, SeptetIs
<1>6. PICK v \in Septets : v = septets[i]
  BY <1>1, <1>3
<1>7. \A j \in 1..7 : data[7 * k + j] = Bits7(v)[j]
  BY <1>1, <1>3, <1>4, <1>6, Zenon DEF Packed
<1>8. Value7(Bits7(v)) = v
  BY BitsOfSeptet
<1>9. /\ 1 \in 1..7 /\ 2 \in 1..7 /\ 3 \in 1..7 /\ 4 \in 1..7 /\ 5 \in 1..7 /\ 6 \in 1..7
      /\ 7 \in 1..7
  BY SMT
<1>10. SeptetAt(OctetsOf(data), k) = Value7(Bits7(v))
  BY <1>5, <1>7, <1>9, ZenonT(60) DEF Value7
<1> QED
  BY <1>4, <1>6, <1>8, <1>10, Zenon

\* Frame and septets together.
LEMMA TailHolds == Packing /\ Aligned => OnlyTheTailIsLost
<1> SUFFICES ASSUME Packing, Aligned, Encoded("GSM7"), Plain
             PROVE  LET frame == Frame(Deliver(<<>>, <<1>>, FALSE, 0, Len(septets), OctetsOf(data)))
                    IN  /\ frame.dcs = 0
                        /\ TextOf(frame.data, 0) = SubSeq(utf8, 1, Len(utf8) - (Len(utf8) \div 8))
  BY Zenon DEF OnlyTheTailIsLost
<1>1. pc = "encoded" /\ encoding = "GSM7"
  BY DEF Encoded
<1>2. /\ data \in Seq(Bit) /\ Len(data) = 8 * Octets(Len(septets)) /\ septets \in Seq(Septets)
      /\ utf8 \in Inputs
  BY <1>1, Zenon DEF Packing, TypeOK, PackedWhole
<1>3. utf8 \in Seq(Nat) /\ utf8 \in Seq(1..255)
  BY <1>2, InputIs, InputsAssumption
<1>4. septets = utf8
  <2>1. todo = <<>> /\ \E M : Linked(encoding, utf8, Stream, Len(utf8) + 1, M)
    BY <1>1, Zenon DEF Aligned
  <2>2. septets \o <<>> = septets
    BY <1>2, ConcatEmptySeq
  <2>3. Stream = septets
    BY <1>1, <2>1, <2>2, Zenon DEF Stream
  <2>4. PICK M : Linked("GSM7", utf8, septets, Len(utf8) + 1, M)
    BY <1>1, <2>1, <2>3, Zenon
  <2>5. septets \in Seq(Nat)
    BY <2>3, StreamIs
  <2>6. PlainText(utf8)
    BY Zenon DEF Plain, PlainText
  <2> QED
    BY <1>3, <2>4, <2>5, <2>6, PlainBack
<1>5. PICK n \in Nat : n = Len(utf8)
  BY <1>3
<1>6. PICK k \in Nat : k = Octets(n) /\ k <= n /\ k = n - (n \div 8)
  BY OctetsAre
<1>7. PICK u : u = OctetsOf(data)
  OBVIOUS
<1>8. u \in Seq(Nat) /\ Len(u) = k
  <2>1. u \in Seq(Nat) /\ Len(u) = Len(data) \div 8
    BY <1>2, <1>7, OctetsOfIs
  <2>2. Len(data) = 8 * k
    BY <1>2, <1>4, <1>5, <1>6, Zenon
  <2>3. (8 * k) \div 8 = k
    BY SMT
  <2> QED
    BY <2>1, <2>2, <2>3, Zenon
<1>9. Frame(Deliver(<<>>, <<1>>, FALSE, 0, n, u))
      = [id |-> NotConcat, sender |-> <<1>>, dcs |-> 0, data |-> u]
  <2>1. <<>> \in Centers /\ <<1>> \in Seq(0..9) /\ Len(<<1>>) \in 1..31 /\ 0 \in {0, 8} /\ FALSE \in BOOLEAN
    BY SMT DEF Centers
  <2>2. Len(u) = (IF Is7Bit(0) THEN Octets(n) ELSE n)
    BY <1>6, <1>8, Coding, Zenon
  <2>3. Headed(FALSE, u)
    BY Zenon DEF Headed
  <2>4. Frame(Deliver(<<>>, <<1>>, FALSE, 0, n, u))
        = [id |-> IF FALSE THEN Concatenation(u) ELSE NotConcat, sender |-> <<1>>, dcs |-> 0,
           data |-> SubSeq(u, (IF FALSE THEN 1 + u[1] ELSE 0) + 1, Len(u))]
    BY ZenonT(60), <1>8, <2>1, <2>2, <2>3, FrameRead
  <2>5. SubSeq(u, 1, Len(u)) = u
    BY <1>8, SubSeqFull
  <2>6. 0 + 1 = 1
    BY SMT
  <2> QED
    BY <2>4, <2>5, <2>6, Zenon
<1>10. PICK t : t = SubSeq(utf8, 1, k)
  OBVIOUS
<1>11. /\ t \in Seq(1..255) /\ Len(t) = k
       /\ \A i \in 1..k : t[i] = utf8[i]
  <2>1. \A S : \A s \in Seq(S) : \A l \in 0..Len(s) :
            /\ SubSeq(s, 1, l) \in Seq(S) /\ Len(SubSeq(s, 1, l)) = l
            /\ \A i \in 1..l : SubSeq(s, 1, l)[i] = s[i]
    <3> SUFFICES ASSUME NEW S, NEW s \in Seq(S), NEW l \in 0..Len(s)
                 PROVE  /\ SubSeq(s, 1, l) \in Seq(S) /\ Len(SubSeq(s, 1, l)) = l
                        /\ \A i \in 1..l : SubSeq(s, 1, l)[i] = s[i]
      OBVIOUS
    <3> QED
      OBVIOUS
  <2>2. k \in 0..Len(utf8)
    BY <1>5, <1>6
  <2> QED
    BY <1>3, <1>10, <2>1, <2>2, ZenonT(60)
<1>12. [i \in 1..Len(u) |-> SeptetAt(u, i - 1)] = t
  <2>1. \A i \in 1..k : SeptetAt(u, i - 1) = t[i]
    BY <1>1, <1>4, <1>5, <1>6, <1>7, <1>11, SeptetsFound, Zenon
  <2>2. \A S : \A s \in Seq(S) : s = [i \in 1..Len(s) |-> s[i]]
    OBVIOUS
  <2>3. t = [i \in 1..k |-> t[i]]
    BY <1>11, <2>2, Zenon
  <2>4. [i \in 1..k |-> SeptetAt(u, i - 1)] = [i \in 1..k |-> t[i]]
    BY <2>1
  <2> QED
    BY <1>8, <2>3, <2>4, Zenon
<1>13. TextOf(u, 0) = t
  <2>1. CString(t) = t
    BY <1>11, NoZero
  <2> QED
    BY <1>12, <2>1, Coding, Zenon DEF TextOf
<1>14. PICK f : f = Frame(Deliver(<<>>, <<1>>, FALSE, 0, Len(septets), OctetsOf(data)))
  OBVIOUS
<1>15. f.dcs = 0 /\ f.data = u
  <2>1. f = [id |-> NotConcat, sender |-> <<1>>, dcs |-> 0, data |-> u]
    BY <1>4, <1>5, <1>7, <1>9, <1>14, Zenon
  <2> QED
    BY <2>1
<1>16. t = SubSeq(utf8, 1, Len(utf8) - (Len(utf8) \div 8))
  BY <1>5, <1>6, <1>10, Zenon
<1> QED
  BY <1>13, <1>14, <1>15, <1>16, Zenon

\* Of a plain GSM7 text the gateway loses the last eighth and nothing else, for
\* every length (sms2wechat-v7.c:427-453 and 1065-1069).
THEOREM TailsAreLost == Spec => []OnlyTheTailIsLost
<1>1. Packing /\ Aligned => OnlyTheTailIsLost
  BY TailHolds
<1> QED
  BY <1>1, BothHold, PTL
=============================================================================
