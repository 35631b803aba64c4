------------------------------- MODULE MCBake -------------------------------
(* Values for the model checker of constants a .cfg cannot write. *)
EXTENDS Bake

MCIndexed == {TRUE, FALSE}
==============================================================================
