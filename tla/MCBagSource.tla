---------------------------- MODULE MCBagSource ----------------------------
(* Values for the model checker of constants a .cfg cannot write. *)
EXTENDS BagSource

MCIndexed == {TRUE, FALSE}
MCRates == {<<0, 1>>, <<1, 1>>}
==============================================================================
