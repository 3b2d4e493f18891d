-------------------------------- MODULE MCBoot --------------------------------
(***************************************************************************)
(* Builds of the SDK for model checking HartBoot.                             *)
(***************************************************************************)
EXTENDS HartBoot

Eclic(n) == [harts |-> 0 .. n - 1, plic |-> FALSE]
PlicMode(n) == [harts |-> 0 .. n - 1, plic |-> TRUE]

\* Three harts with the ECLIC, and one hart with the PLIC.
MCBuilds == {Eclic(3), PlicMode(1)}

===============================================================================
