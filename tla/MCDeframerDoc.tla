---------------------------- MODULE MCDeframerDoc ----------------------------
(* DeframerDoc with the configurations of DeframerConfigs, for TLC.        *)
EXTENDS DeframerDoc, DeframerConfigs
=============================================================================
