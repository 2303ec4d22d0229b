---------------------------- MODULE MCKeyCopies ----------------------------
(* A small instance of KeyCopies for TLC: deployment a knows its own secret, *)
(* deployment b its own and that of a; some rows are older than both.        *)
EXTENDS KeyCopies, TLC

CONSTANTS k1, k2, v1, v2, v3, v4, v5, sa, sb, gone, a, b, r1, r2, r3, r4

MCOld == k1 :> v1 @@ k2 :> v2
MCSecret == a :> sa @@ b :> sb
MCFallbacks == a :> {} @@ b :> {sa}
MCInstanceOf == r1 :> a @@ r2 :> b @@ r3 :> b @@ r4 :> b

Symmetry == Permutations({v3, v4, v5})
=============================================================================
