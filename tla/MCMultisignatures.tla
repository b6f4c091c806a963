------------------------ MODULE MCMultisignatures ------------------------
(* Two members, of which one has two signatures, a creation with both and   *)
(* one with one of them, and two transactions that spend, of which a member *)
(* asks for one.                                                            *)
EXTENDS Multisignatures, TLC

CONSTANTS k1, k2, c1, c2, s1, s2, x1, y1, x2, x0

MCKeyOf == x1 :> k1 @@ y1 :> k1 @@ x2 :> k2 @@ x0 :> Owner
MCGroup == c1 :> {k1, k2} @@ c2 :> {k2}
MCMinimum == c1 :> 3 @@ c2 :> 2
MCRequester == s1 :> Nobody @@ s2 :> k2
MCRank == s1 :> 1 @@ c1 :> 2 @@ c2 :> 3 @@ s2 :> 4
MCMaxSubmit == {c1, s1} :> 0 @@ {c1, s2} :> 1 @@ {c1, c2} :> 2 @@ {c2, s1} :> 2 @@ {c2, s2} :> 2
MCOffers == DOMAIN MCMaxSubmit

=============================================================================
