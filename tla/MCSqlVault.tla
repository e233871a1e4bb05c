----------------------------- MODULE MCSqlVault -----------------------------
(***************************************************************************)
(* SqlVault for TLC: two providers with keys of their own, of which one    *)
(* creates the table, and one that only reads; two paths that differ in    *)
(* case and hold a wildcard and an escape of LIKE, and prefixes of them    *)
(* with and without these.                                                 *)
(***************************************************************************)
EXTENDS SqlVault, TLC

CONSTANTS c1, c2, reader, k1, k2

MCProviders == {c1, c2, reader}
MCKeyOf == c1 :> k1 @@ c2 :> k2 @@ reader :> k1

MCPaths == {<<"a", "_", "\\">>, <<"A", "_", "\\">>}
MCPrefixes == {<<>>, <<"a">>, <<"A", "_">>, <<"a", "_", "\\">>}
MCLower == "a" :> "a" @@ "A" :> "a" @@ "_" :> "_" @@ "\\" :> "\\"
=============================================================================
