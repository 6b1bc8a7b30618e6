-------------------------- MODULE MCIncrementalUpdate --------------------------
(* Instances of IncrementalUpdate: two years of two days, a reconciliation  *)
(* window and an FX lookback of one day.  Every security is in USD.         *)
EXTENDS IncrementalUpdate

CONSTANT USD

MCCurrencyOf == [s \in Securities |-> USD]
Everything   == {Securities}
==============================================================================
