------------------------------ MODULE FrameSpec ------------------------------
(***************************************************************************)
(* What a deframer promises, without saying how: in a stream of samples,   *)
(* find the sync word, take the frame that follows it, deliver it as one   *)
(* message, start over.  Both deframing blocks of the repository are shown *)
(* to implement this specification: packet_deframer (Deframer.tla) and the *)
(* older pattern_dump (PatternDump.tla).                                   *)
(*                                                                         *)
(* Nothing is counted or accumulated here: the extent of a frame and the   *)
(* message made of it are functions of the samples of the frame.           *)
(***************************************************************************)
EXTENDS Integers, Sequences

CONSTANTS
  ByteBits,  \* bits in a byte, 8 in the code
  Samples,   \* the values an input sample can take
  Configs    \* the configurations a block may have been built with

VARIABLES
  cfg,       \* the configuration of this block, fixed at construction
  hunting,   \* TRUE while looking for the sync word
  window,    \* the last samples seen since hunting began, at most Len(cfg.sync)
  frame,     \* the samples of the frame being captured
  sent       \* <<m>> just after message m is delivered, else <<>>

vars == <<cfg, hunting, window, frame, sent>>

-----------------------------------------------------------------------------
(* The extent and the content of a frame                                   *)

Lsb(s) == s % 2

\* The number whose binary digits, most significant first, are b.
Value(b) == LET v[i \in 0..Len(b)] == IF i = 0 THEN 0 ELSE 2 * v[i-1] + Lsb(b[i])
            IN  v[Len(b)]

\* Bits up to the end of the length byte, the length byte, the whole frame.
HeaderBits == ByteBits * (cfg.pkt_len_offset + 1)
HasLength(f) == cfg.fixed_len \/ Len(f) >= HeaderBits
Length(f) == Value(SubSeq(f, HeaderBits - ByteBits + 1, HeaderBits))
FrameBits(f) == IF cfg.fixed_len THEN cfg.pkt_len
                ELSE HeaderBits + ByteBits * (Length(f) + cfg.pkt_len_adj)

\* A length byte above max_len squelches the frame; max_len = 0 disables this.
TooLong(f) == /\ ~cfg.fixed_len
              /\ Len(f) = HeaderBits
              /\ cfg.max_len > 0
              /\ Length(f) > cfg.max_len

Complete(f) == HasLength(f) /\ Len(f) >= FrameBits(f)

\* The i-th whole byte of f, as its bits.
ByteAt(f, i) == [j \in 1..ByteBits |-> Lsb(f[(i - 1) * ByteBits + j])]

Message(f) == [packed |-> cfg.pack_bytes,
               data   |-> IF cfg.pack_bytes
                          THEN [i \in 1..(Len(f) \div ByteBits) |-> ByteAt(f, i)]
                          ELSE f]

-----------------------------------------------------------------------------
Init == /\ cfg \in Configs
        /\ hunting = TRUE
        /\ window = <<>>
        /\ frame = <<>>
        /\ sent = <<>>

\* The most recent samples of w followed by s, as many as the sync word has.
Recent(w, s) == LET all == Append(w, s)
                IN  IF Len(all) > Len(cfg.sync) THEN Tail(all) ELSE all

Search(s) ==
  /\ hunting
  /\ window' = Recent(window, s)
  /\ hunting' = (window' # cfg.sync)
  /\ sent' = <<>>
  /\ UNCHANGED <<cfg, frame>>

\* The frame ends: nothing of the search or of the frame is kept.
StartOver == hunting' = TRUE /\ window' = <<>> /\ frame' = <<>>

Take(s) ==
  LET f == Append(frame, s) IN
  /\ ~hunting
  /\ ~TooLong(f) /\ ~Complete(f)
  /\ frame' = f
  /\ sent' = <<>>
  /\ UNCHANGED <<cfg, hunting, window>>

Squelch(s) ==
  /\ ~hunting
  /\ TooLong(Append(frame, s))
  /\ StartOver
  /\ sent' = <<>>
  /\ UNCHANGED cfg

Deliver(s) ==
  LET f == Append(frame, s) IN
  /\ ~hunting
  /\ ~TooLong(f) /\ Complete(f)
  /\ StartOver
  /\ sent' = <<Message(f)>>
  /\ UNCHANGED cfg

Next == \E s \in Samples : Search(s) \/ Take(s) \/ Squelch(s) \/ Deliver(s)

Spec == Init /\ [][Next]_vars
=============================================================================
