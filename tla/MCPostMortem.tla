---------------------------- MODULE MCPostMortem ----------------------------
(* Two trades decided by a family the resolver finds a judge for, and one
   whose judge would be a family the manifest lists without a T3 seat. *)
EXTENDS PostMortem

MCFamilies == <<"chinese", "mistral", "openai">>
MCSeats == {"chinese", "openai"}
MCDecidedFamily == [t \in Trades |-> IF t = 3 THEN "chinese" ELSE "openai"]
=============================================================================
