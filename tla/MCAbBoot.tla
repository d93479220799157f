------------------------------ MODULE MCAbBoot ------------------------------
(***************************************************************************)
(* The instances of AbBoot that TLC checks: PowerCuts, BadImages,          *)
(* EveryFailure, NoGpt and Copyback give this module its constants.        *)
(***************************************************************************)
EXTENDS AbBootProperties

\* Every way to leave Android that U-Boot tells apart.
AllModes == {"normal", "fastboot", "factory_reset", "rescueparty"}

\* Where the state space must stay small: fastboot and factory_reset only
\* leave out steps of the ordinary boot.
BootModes == {"normal", "rescueparty"}
=============================================================================
