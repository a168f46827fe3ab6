------------------------------ MODULE MCGateway ------------------------------
(* Two questions, of tiers L and S, and a model for S and M and one for L. *)
EXTENDS Gateway, TLC

CONSTANTS big, small, extract, classify

MCTierOf == extract :> 3 @@ classify :> 1
MCModelOf == <<small, small, big>>
=============================================================================
