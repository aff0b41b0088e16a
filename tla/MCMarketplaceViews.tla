-------------------------- MODULE MCMarketplaceViews --------------------------
(* Two identities.  A name that costs something and a free one; an operator with two addresses
   and one with one. *)
EXTENDS MarketplaceViews
MCPrice == [a |-> "paid", b |-> "free"]
MCHoldings == {[o1 |-> [n1 |-> "t1", n2 |-> "t1"], o2 |-> [n1 |-> "t1", n2 |-> "none"]]}
=============================================================================
