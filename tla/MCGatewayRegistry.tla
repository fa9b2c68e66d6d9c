-------------------------- MODULE MCGatewayRegistry --------------------------
(***************************************************************************)
(* Instances of GatewayRegistry for TLC.  Operators and names are          *)
(* interchangeable: commands are given to every operator on every name.    *)
(***************************************************************************)
EXTENDS GatewayRegistry, TLC

OperatorSymmetry == Permutations(Operators)

NameSymmetry == Permutations(Names)

RegistrySymmetry == OperatorSymmetry \cup NameSymmetry
=============================================================================
