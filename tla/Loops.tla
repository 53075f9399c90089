-------------------------------- MODULE Loops --------------------------------
(***************************************************************************)
(* Loops of the code that several components, and proofs, speak of.        *)
(***************************************************************************)
EXTENDS Naturals, Sequences

(* What a loop over 1 .. N has collected at its end that appends val[n]    *)
(* for the n in K and skips the others.                                    *)
Collect(N, K, val) ==
    LET collected[n \in 0 .. N] ==
            IF n = 0 THEN <<>>
            ELSE IF n \in K THEN Append(collected[n - 1], val[n])
            ELSE collected[n - 1]
    IN  collected[N]
=============================================================================
