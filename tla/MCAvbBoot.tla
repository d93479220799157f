----------------------------- MODULE MCAvbBoot ------------------------------
(***************************************************************************)
(* The instances of AvbBoot that TLC checks.                               *)
(***************************************************************************)
EXTENDS AvbBootProperties

AllBuilds == {TRUE, FALSE}
EarlyBuild == {TRUE}
=============================================================================
