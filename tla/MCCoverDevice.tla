--------------------------- MODULE MCCoverDevice ---------------------------
(* A venetian blind with a tilt model, and a plain one without durations.  *)
EXTENDS CoverDevice

MCContexts == {[tracked |-> TRUE, sweep |-> 2], [tracked |-> FALSE, sweep |-> 0]}

MCBlindStarts == {<<1, 1>>, <<0, 0>>}
=============================================================================
