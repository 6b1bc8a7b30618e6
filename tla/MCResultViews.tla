---------------------------- MODULE MCResultViews -----------------------------
(* Two setups, one valid and one invalid amount, an empty comparison and   *)
(* one of two rows.                                                        *)
EXTENDS ResultViews

MCBaskets == {<<>>, <<<<"s", "m">>, <<"t", "m">>>>}
MCDemo    == <<"t", "m">>
MCDrafts  == {[setup |-> "s", amount |-> "m", plan |-> "m",
               basket |-> <<<<"s", "m">>, <<"t", "m">>>>, ledger |-> "l"]}

===============================================================================
