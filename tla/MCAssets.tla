----------------------------- MODULE MCAssets -----------------------------
(* A small instance of Assets: an asset of an issuer and one of chain level,  *)
(* with an issue of each, and one to be registered; three delegates, of which *)
(* two approve.                                                               *)
EXTENDS Assets, TLC

CONSTANTS coin, btc, gold, i1, i2, d1, d2, d3

Yes(d, v) == [type |-> "approval", by |-> d, value |-> v]
Reg(a) == [type |-> "asset", asset |-> a]
Iss(i) == [type |-> "issue", id |-> i]
Exe(n) == [type |-> "exercise", id |-> n, asset |-> coin, amount |-> n]

MCCurrency == i1 :> coin @@ i2 :> btc
MCAmount == i1 :> 2 @@ i2 :> 1
MCAcc == i1 :> 4 @@ i2 :> 8
MCMaximum == [a \in Asset |-> 4]
MCLists == {{d1, d2, d3}, {d2, d3}}

\* An issue of each approved asset, its approvals, an exercise; and an asset that is
\* registered before, between or after its approvals; votes for an asset that the
\* genesis block has approved.
MCBlock ==
  {<<Iss(i1)>>, <<Iss(i2)>>, <<Yes(d1, i1)>>, <<Yes(d2, i1)>>, <<Yes(d3, i1), Exe(1)>>,
   <<Yes(d1, i2), Yes(d2, i1)>>, <<Yes(d1, i2), Yes(d2, i2)>>,
   <<Exe(2), Yes(d1, btc), Yes(d3, btc)>>}
    \cup {<<Reg(gold)>>, <<Yes(d1, gold)>>, <<Yes(d3, gold), Reg(gold)>>,
          <<Yes(d2, gold), Yes(d3, gold)>>}

=============================================================================
