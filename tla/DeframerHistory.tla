--------------------------- MODULE DeframerHistory ---------------------------
(***************************************************************************)
(* Deframer with two history variables that the code does not have, so     *)
(* that its output can be compared with the stream it has read:            *)
(*   fresh - the samples searched since the block began or resumed hunting,*)
(*           at most as many as the sync word has: contiguous in the stream*)
(*           and part of no packet.  d_search is never cleared, so right   *)
(*           after a packet it holds older samples than these.             *)
(*   frame - the samples captured since the last sync word.                *)
(***************************************************************************)
EXTENDS Deframer

VARIABLES fresh, frame

hvars == <<vars, fresh, frame>>

HInit == Init /\ fresh = <<>> /\ frame = <<>>

HWork(n) == Work(n) /\ UNCHANGED <<fresh, frame>>

HSearch(s) ==
  /\ Hunt(s) \/ FoundSync(s)
  /\ fresh' = ShiftIn(fresh, s)
  /\ frame' = <<>>

HCapture(s) ==
  /\ Capture(s)
  /\ fresh' = IF d_in_sync' THEN fresh ELSE <<>>
  /\ frame' = Append(frame, s)

HNext ==
  \/ \E n \in 1..MaxWork : HWork(n)
  \/ \E s \in Samples : HSearch(s) \/ HCapture(s)

HSpec == HInit /\ [][HNext]_hvars

\* The scheduler keeps calling work() as long as samples arrive.
HFairSpec == HSpec /\ WF_hvars(HNext)

-----------------------------------------------------------------------------
(* Properties                                                              *)

\* The block captures a packet exactly when the samples searched since it
\* last began to hunt end with the sync word: no sync word is missed and none
\* is made up from what the search window still holds of an earlier one.
\* Work's comparison d_search == d_sync guarantees this only if the sync word
\* has no border.
GenuineSync ==
  (alive /\ cfg.sync # <<>> /\ Unbordered(cfg.sync))
     => (d_in_sync <=> fresh = cfg.sync)

\* The window w is the end of an earlier sync word, then the samples f.
OldThenFresh(w, f) ==
  LET n == Len(cfg.sync)
      k == Len(f)
  IN  /\ Len(w) = n /\ k < n
      /\ \A i \in 1..k : w[n - k + i] = f[i]
      /\ \A i \in 1..(n - k) : w[i] = cfg.sync[k + i]

\* Why GenuineSync holds.  While a packet is captured the search window is the
\* sync word.  While hunting it is the fresh samples, preceded, until those
\* fill it, by the end of the sync word of the previous packet.
WindowInv ==
  /\ fresh \in Seq(Samples) /\ Len(fresh) <= Len(cfg.sync)
  /\ Len(d_search) <= Len(cfg.sync)
  /\ (alive /\ d_in_sync) => d_search = cfg.sync
  /\ (alive /\ ~d_in_sync) =>
        d_search = fresh \/ OldThenFresh(d_search, fresh)
  /\ GenuineSync

\* Every packet comes to an end, published or squelched, however the stream
\* goes on, unless its configuration makes a length negative.
EveryPacketEnds == (SafeLength(cfg) /\ d_in_sync) ~> ~d_in_sync

\* The configurations FrameSpec speaks of: the length of no packet is negative,
\* none is squelched and yet complete, and the sync word has no border.
InScope(c) == SafeLength(c) /\ SafeSquelch(c) /\ Unbordered(c.sync)

\* The block implements FrameSpec: each packet published is the frame that
\* followed a genuine sync word, of the right extent, packed the right way.
\* A block FrameSpec does not speak of is mapped to one that does nothing.
Abstract == INSTANCE FrameSpec WITH
  hunting <- InScope(cfg) => ~d_in_sync,
  window  <- IF InScope(cfg) THEN fresh ELSE <<>>,
  frame   <- IF InScope(cfg) /\ d_in_sync THEN frame ELSE <<>>,
  sent    <- IF InScope(cfg) THEN pub ELSE <<>>
ImplementsFrameSpec == Abstract!Spec

\* The last bits of f, those that do not fill a byte, are the last of byte.
EndsWith(byte, f) ==
  LET r == Len(f) % ByteBits
  IN  \A j \in 1..r : byte[ByteBits - r + j] = f[Len(f) - r + j] % 2

\* What has been captured, and the count, are those of the frame.
FrameHeld ==
  /\ frame \in Seq(Samples)
  /\ d_rx_bit_cnt = Len(frame)
  /\ d_packet = Abstract!Message(frame).data
  /\ cfg.pack_bytes => EndsWith(d_tmp_byte, frame)

\* d_pkt_len is the length in bits of the frame as soon as its length byte is
\* read, and before that the number its bits make.
LengthHeld ==
  ~cfg.fixed_len =>
    /\ d_have_len <=> Len(frame) >= LengthEnd
    /\ d_pkt_len = IF d_have_len THEN Abstract!FrameBits(frame)
                   ELSE Abstract!Value(SubSeq(frame, OffsetBits + 1, Len(frame)))

\* Why ImplementsFrameSpec holds.  All that add_symbol counts, packs and sums
\* up sample by sample is, at every sample, what FrameSpec says of the frame as
\* a whole.
FrameInv == (alive /\ d_in_sync) => FrameHeld /\ LengthHeld
=============================================================================
