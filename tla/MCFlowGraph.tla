----------------------------- MODULE MCFlowGraph -----------------------------
(* FlowGraph with two deframers of DeframerConfigs' making, for TLC: one   *)
(* whose packets are as short as the window that may be spliced, one whose *)
(* packets tell their length.                                              *)
EXTENDS FlowGraph, DeframerConfigs

FlowConfigs == { Fixed(Plain, 2, FALSE), Variable(<<1>>, 0, 0, 0, TRUE) }
=============================================================================
