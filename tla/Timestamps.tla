----------------------------- MODULE Timestamps -----------------------------
(***************************************************************************)
(* The timestamps of points: a time in nanoseconds is rounded to the       *)
(* point's precision as std::chrono::round does, and is then written in    *)
(* nanoseconds again (impl/enc/LineProtocolEncoder.cpp).                   *)
(***************************************************************************)
EXTENDS Integers

CONSTANTS
    Units,          \* the precisions, as their length in nanoseconds
    MinTime,        \* the least and
    MaxTime         \* the greatest value of the count of a Point::Time

ASSUME UnitsAssumption == Units \subseteq Nat \ {0}
ASSUME RangeAssumption == MinTime \in Int /\ MaxTime \in Int /\ MinTime <= MaxTime

Times == MinTime .. MaxTime

(* The units before and after t. Both are converted to nanoseconds to see  *)
(* which is closer, and so both have to be representable.                  *)
Below(t, unit) == unit * (t \div unit)
Above(t, unit) == Below(t, unit) + unit

Representable(t, unit) ==
    unit = 1 \/ (Below(t, unit) >= MinTime /\ Above(t, unit) <= MaxTime)

(* The closer of the two, and of two equally close ones the one with an    *)
(* even count.                                                             *)
Nearest(t, unit) ==
    IF \/ t - Below(t, unit) < Above(t, unit) - t
       \/ /\ t - Below(t, unit) = Above(t, unit) - t
          /\ (t \div unit) % 2 = 0
    THEN Below(t, unit)
    ELSE Above(t, unit)

(* The counts that AppendTimestamp can arrive at. Nanoseconds are taken as *)
(* they are; where one of the units is not representable, the conversion   *)
(* overflows and the result may be anything.                               *)
Counts(t, unit) ==
    IF unit = 1 THEN {t}
    ELSE IF Representable(t, unit) THEN {Nearest(t, unit)}
    ELSE Times

(* A count of zero is left out, and the server will put its own time.      *)
Omitted(count) == count = 0

Distance(a, b) == IF a <= b THEN b - a ELSE a - b
=============================================================================
