-------------------------------- MODULE MCTier1 --------------------------------
(***************************************************************************)
(* One query that the model and the keywords name differently, one that    *)
(* only the keywords know.                                                 *)
(***************************************************************************)
EXTENDS Tier1

Model == [q \in Queries |-> IF q = "q1" THEN "i1" ELSE Unknown]
KeywordTable == [q \in Queries |-> IF q = "q1" THEN "i2" ELSE "i1"]
===============================================================================
