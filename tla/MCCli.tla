-------------------------------- MODULE MCCli --------------------------------
(* Names, lengths and symmetry for checking Cli with TLC. *)
EXTENDS Cli, TLC

CONSTANTS b, spaces

(* Spaces leave nothing; b's session is longer than a's. *)
Trimmed == [i \in Idents |-> IF i = spaces THEN Blank ELSE i]
Lowered == [i \in Idents |-> i]
Longer == [i \in Idents |-> IF i = b THEN 3 ELSE 2]

Symmetry == Permutations(Workers) \cup Permutations(Passwords)
===============================================================================
