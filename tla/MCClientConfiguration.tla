----------------------- MODULE MCClientConfiguration -----------------------
EXTENDS ClientConfiguration

CONSTANTS h1

At(h, p) == [host |-> h, port |-> p]
MCEndpoints == {At(h1, 1), At(h1, 2), At("", 1)}

(* One to five bytes with the colon, so every padding, and extreme bytes.  *)
MCNames == {<<>>, <<58>>, <<255, 129>>}
=============================================================================
