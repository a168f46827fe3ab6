----------------------------- MODULE MCWorkspace -----------------------------
(* A notice that two links name, a link of the long tail and a mail footer;*)
(* one message with an id and one without, one of them to a lower-cased    *)
(* address.                                                                *)
EXTENDS Workspace, TLC

CONSTANTS n1, a, u1, u2, foot, m1, m2, c1, c2

MCFamilies == n1 :> {a}
MCNames == u1 :> n1 @@ u2 :> None @@ foot :> None
MCTo == m1 :> "exact" @@ m2 :> "folded"
MCText == m1 :> <<foot, u1>> @@ m2 :> <<u1>>
MCHtml == m1 :> <<u1, u2>> @@ m2 :> <<>>

Symmetry == Permutations(Connection)
=============================================================================
