------------------------------ MODULE BasicAuth ------------------------------
(***************************************************************************)
(* The Authorization field: ConstructHttpClient joins user name and        *)
(* password, Base64Encode puts their bytes into six-bit characters, and a  *)
(* server takes them apart again.                                          *)
(*                                                                         *)
(* A name is a sequence of bytes, and a character of the base64 alphabet   *)
(* is its number.                                                          *)
(***************************************************************************)
EXTENDS Naturals, SequencesExt, FiniteSetsExt

Colon == 58
Pad == 64

(* Base64Encode: transform_width hands out six bits at a time and fills    *)
(* the last of them with zeros. The length is made a multiple of four;     *)
(* before that, a padding which does so only if it is not one already.     *)
PaddingOfThree(size) == 3 - (size % 3)
Padding(size) == (3 - (size % 3)) % 3

Byte(data, i) == IF i \in DOMAIN data THEN data[i] ELSE 0

SixBits(data, bit) ==
    LET i == bit \div 8 + 1
    IN  ((256 * Byte(data, i) + Byte(data, i + 1)) \div 2 ^ (10 - (bit % 8))) % 64

Base64Encode(data) ==
    [k \in 1 .. (8 * Len(data) + 5) \div 6 |-> SixBits(data, 6 * (k - 1))]
    \o [k \in 1 .. Padding(Len(data)) |-> Pad]

BasicAuthorization(username, password) == Base64Encode(username \o <<Colon>> \o password)

-----------------------------------------------------------------------------
(* The server: four characters stand for three bytes, and each byte has    *)
(* its bits in two of them that are next to each other.                    *)
Size(text) == 3 * (Len(text) \div 4) - Cardinality({i \in DOMAIN text : text[i] = Pad})

WellFormed(text) ==
    /\ Len(text) % 4 = 0
    /\ \A i \in DOMAIN text : text[i] = Pad => i > Len(text) - 2

EightBits(text, i) ==
    LET k == i + ((i - 1) \div 3)
    IN  ((64 * text[k] + text[k + 1]) \div 4 ^ (2 - ((i - 1) % 3))) % 256

Decode(text) == [i \in 1 .. Size(text) |-> EightBits(text, i)]

FirstColon(data) == Min({i \in DOMAIN data : data[i] = Colon})

Split(data) == <<SubSeq(data, 1, FirstColon(data) - 1), SubSeq(data, FirstColon(data) + 1, Len(data))>>
=============================================================================
