---------------------------- MODULE MCRecording ----------------------------
(* Values for the model checker of constants a .cfg cannot write. *)
EXTENDS Recording, TLC

CONSTANTS Imu, PointCloud, Rbag1

SchemaOf(type_name) == [type_name |-> <<type_name>>, encoding |-> <<Rbag1>>]

MCSchema == {SchemaOf(Imu)}
MCSchemas == {SchemaOf(Imu), SchemaOf(PointCloud)}

\* Names and type names are compared and nothing else.
MCSymmetry == Permutations(Names) \cup Permutations({Imu, PointCloud})
==============================================================================
