--------------------------- MODULE MCCliCommands ----------------------------
(***************************************************************************)
(* CliCommands for TLC: two commands of any kind at once, a name that      *)
(* means the path of another.                                              *)
(***************************************************************************)
EXTENDS CliCommands, TLC

CONSTANTS c1, c2, good, better, short, key, query, v1, v2

MCNamed == key :> key @@ query :> key
Symmetry == Permutations({good, better}) \cup Permutations({v1, v2})
            \cup Permutations({c1, c2})
=============================================================================
