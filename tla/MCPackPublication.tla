--------------------------- MODULE MCPackPublication ---------------------------
(* Instances of PackPublication: two securities of one market, the first   *)
(* in a foreign currency, two years of three days, any rates.              *)
EXTENDS PackPublication

MCStores == {[bars |-> [s \in Instruments |-> IF s = 1 THEN foreign ELSE home], fx |-> rates] :
               foreign \in {{2, 3, 4, 6}, {2, 5, 6}, {5}}, home \in {{}, {2, 4, 5}},
               rates \in SUBSET PackDays}

(* All years of the first security, and the second year of both.           *)
MCScopes == {{1} \X AllYears, Instruments \X {1}}

===============================================================================
