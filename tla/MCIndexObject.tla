--------------------------- MODULE MCIndexObject ---------------------------
(***************************************************************************)
(* A small instance of IndexObject: five data of four keys, two of them    *)
(* equal to cmpf.                                                          *)
(***************************************************************************)
EXTENDS IndexObject

CONSTANTS a, a2, b, c, d

MCData == {a, a2, b, c, d}
MCKey == [x \in MCData |-> CASE x \in {a, a2} -> 1 [] x = b -> 2 [] x = c -> 3 [] x = d -> 4]
=============================================================================
