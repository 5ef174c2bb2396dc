------------------------------ MODULE MCGeneration ------------------------------
(* Small bounds of Generation for TLC. *)
EXTENDS Generation

MCPrices == {1, 4}
MCCosts == {1, 3}
\* A provider that never charges more than preflight allowed for.
HonestPrices == {2}
HonestCosts == {2}
=============================================================================
