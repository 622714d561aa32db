----------------------------- MODULE DeframerDoc -----------------------------
(***************************************************************************)
(* What packet_deframer.h says of packet_deframer, stated as it says it.   *)
(* `recent' is the end of the stream the block has read, the samples of    *)
(* packets included, as long as the sync word.                             *)
(***************************************************************************)
EXTENDS DeframerHistory

VARIABLE recent

dvars == <<hvars, recent>>

DInit == HInit /\ recent = <<>>

Reads(s) == recent' = ShiftIn(recent, s)

DNext ==
  \/ \E n \in 1..MaxWork : HWork(n) /\ UNCHANGED recent
  \/ \E s \in Samples : (HSearch(s) \/ HCapture(s)) /\ Reads(s)

DSpec == DInit /\ [][DNext]_dvars

\* The scheduler keeps calling work() as long as samples arrive.
DFairSpec == DSpec /\ WF_dvars(DNext)

-----------------------------------------------------------------------------
\* packet_deframer.h: "When the block finds the sync word within the bit
\* stream, it gathers the subsequent bits": when the capture of a packet
\* begins, the last bits of the stream are the sync word.
SyncWordInStream ==
  (alive /\ d_in_sync /\ d_rx_bit_cnt = 0) => recent = cfg.sync
=============================================================================
