------------------------------ MODULE MCAnnealer ------------------------------
(* Three elements, two of them wired to each other. *)
EXTENDS Annealer

CONSTANTS x, y, z

MCPlacement == [i \in Slots |-> <<x, y, z>>[i + 1]]
MCWired == [i \in Slots |-> CASE i = 0 -> <<1>> [] i = 1 -> <<0>> [] i = 2 -> <<>>]
=============================================================================
