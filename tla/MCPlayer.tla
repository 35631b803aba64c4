------------------------------ MODULE MCPlayer ------------------------------
(* Values for the model checker of constants a .cfg cannot write. *)
EXTENDS Player

MCIndexed == {TRUE, FALSE}
MCRates == {<<0, 1>>, <<1, 2>>, <<2, 1>>}
MCUnthrottled == {<<0, 1>>}
MCOneRate == {<<1, 1>>}
MCRatios == {<<1, 2>>, <<1, 1>>}
==============================================================================
