----------------------------- MODULE MCDeframer -----------------------------
(* DeframerHistory with the configurations of DeframerConfigs, for TLC.    *)
EXTENDS DeframerHistory, DeframerConfigs
=============================================================================
