------------------------------- MODULE MCPdu --------------------------------
(***************************************************************************)
(* Inputs of PduParser and PduCodec: every pair of characters of every     *)
(* kind, invalid octets among them, and texts longer than an octet group.  *)
(***************************************************************************)
EXTENDS PduParser

\* One of each: letters, the extension table, codes two characters share,
\* accents, the escape, and characters of three and four octets,
Characters ==
    {<<97>>, <<64>>, <<91>>, <<194, 164>>, <<195, 132>>, <<195, 164>>, <<27>>,
     <<226, 130, 172>>, <<228, 184, 173>>, <<240, 159, 152, 128>>}
\* and octets that are no character: overlong, surrogate, too large, cut off.
Broken ==
    {<<192, 128>>, <<224, 130, 172>>, <<240, 130, 130, 172>>, <<237, 160, 128>>,
     <<244, 144, 128, 128>>, <<128>>, <<194>>}
Pieces == Characters \cup Broken
Pairs == {p \o q : p \in Pieces, q \in Pieces}

\* Up to two groups of eight septets and one, with one septet or two for the
\* character at either side of the limit of a group.
Texts ==
    {[i \in 1..n |-> IF i = k THEN c ELSE 97 + i] :
        n \in 1..17, k \in {1, 7, 8, 9, 16}, c \in {64, 91, 122}}

MCInputs == {<<>>} \cup Pieces \cup Pairs \cup Texts
MCNumbers == {<<1>>, <<1, 0, 0, 8, 6>>, <<1, 3, 9, 1>>}
=============================================================================
