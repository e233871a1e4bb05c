----------------------------- MODULE MCResolver -----------------------------
(***************************************************************************)
(* Resolver for TLC: a memory vault, and a slow one that Close leaves      *)
(* alone; a path that looks like a reference itself; two texts that are    *)
(* none though they have a colon, one of which is taken for one.           *)
(***************************************************************************)
EXTENDS Resolver

CONSTANTS c1, c2, memory, remote

MCPaths == {<<"q", ":", "/", "/", "r">>}
MCField == <<"f">>
MCSecrets == {[value |-> "x", field |-> "y"], [value |-> "z", field |-> None]}
MCValueName == <<"v">>
LooksPlain == <<"c", ":", "/">>
LooksLikeOne == <<"m", ":", "q", "q", "q">>
MCPlain == {LooksPlain, LooksLikeOne}

Secret(scheme, field) ==
  Text([scheme |-> scheme, path |-> <<"q", ":", "/", "/", "r">>,
        field |-> field])
MCAsks == {{Secret("e", MCField), LooksPlain},
           {Secret("m", MCValueName)}, {LooksLikeOne}}
=============================================================================
