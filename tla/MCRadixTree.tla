---------------------------- MODULE MCRadixTree ----------------------------
(***************************************************************************)
(* A small instance of RadixTree: an alphabet of two nibbles, three keys   *)
(* of one byte, two of them siblings, and a longer one below one of them;  *)
(* two data have the same key.                                             *)
(***************************************************************************)
EXTENDS RadixTree

CONSTANTS a, a2, b, c, d

MCData == {a, a2, b, c, d}
MCKey == [x \in MCData |-> CASE x \in {a, a2} -> <<0, 1>> [] x = b -> <<0, 0>>
                             [] x = c -> <<1, 0>> [] x = d -> <<0, 1, 1, 1>>]
=============================================================================
