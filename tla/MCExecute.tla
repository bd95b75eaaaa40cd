----------------------------- MODULE MCExecute -----------------------------
(* A seed; a table and a view that share ephemeral models and run at the   *)
(* same time; a view of the table                                          *)
EXTENDS Execute, TLC

CONSTANTS t1, t2
MCModels == {"s", "m", "w", "v"}
MCEphemerals == {"e", "f"}
MCRefs == [s |-> {}, m |-> {}, w |-> {}, v |-> {"m"}, e |-> {"s"}, f |-> {}]
MCEphRefs == [s |-> <<>>, m |-> <<"e", "f">>, w |-> <<"f">>, v |-> <<>>, e |-> <<>>, f |-> <<"e">>]
MCKinds == [s |-> "seed", m |-> "table", w |-> "view", v |-> "view"]
MCEditKinds == {"view", "incremental"}
MCHooks == [s |-> {"pre_out", "post_out"}, m |-> {"pre_out", "post_in"}, w |-> {"pre_in"}, v |-> {}]
Symmetric == Permutations(Threads)
=============================================================================
