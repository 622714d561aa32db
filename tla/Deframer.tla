------------------------------- MODULE Deframer -------------------------------
(***************************************************************************)
(* The packet_deframer block: packet_deframer_impl of lib/.                *)
(*                                                                         *)
(* The scheduler calls work() with some number of samples; the loop of     *)
(* work() handles them one by one.  A sample is either shifted into the    *)
(* search window (Hunt, FoundSync) or handed to add_symbol (the Capture    *)
(* actions), after which a complete packet is published.  One action here  *)
(* is one iteration of that loop; Work is the call itself.                 *)
(*                                                                         *)
(* A byte is kept as the sequence of its bits, most significant first:     *)
(* (byte << 1) | bit  is dropping the first and appending bit.             *)
(***************************************************************************)
EXTENDS Integers, Sequences

CONSTANTS
  ByteBits,  \* bits in a byte, 8 in the code; smaller in most runs
  Samples,   \* the values an input sample can take
  Configs,   \* constructor arguments of the blocks considered
  Garbage,   \* what an uninitialised counter may hold
  MaxWork    \* bound: the largest noutput_items of a call of work()

ASSUME ByteBitsAssumption == ByteBits \in Nat \ {0}

\* Bit 0 of a sample carries the data; bit 1 stands for all the others.
ASSUME SamplesAssumption == Samples \subseteq 0..3

ASSUME ConfigsAssumption ==
  Configs \subseteq [sync : Seq(Samples), fixed_len : BOOLEAN,
                     pkt_len : Int, max_len : Int,
                     pkt_len_offset : Nat, pkt_len_adj : Int,
                     pack_bytes : BOOLEAN]

ASSUME GarbageAssumption == Garbage \subseteq Nat /\ Garbage # {}

ASSUME MaxWorkAssumption == MaxWork \in Nat \ {0}

VARIABLES
  cfg,           \* the constructor's arguments, never changed afterwards
  d_search,      \* circular buffer of the last samples searched
  d_in_sync,     \* TRUE while a packet is being captured
  d_have_len,    \* TRUE once d_pkt_len is the packet's length in bits
  d_rx_bit_cnt,  \* samples captured since the sync word
  d_tmp_byte,    \* the bits of the byte being packed
  d_packet,      \* what has been captured: bytes if packing, else samples
  d_pkt_len,     \* length in bits, or the part of the length byte read so far
  pub,           \* <<m>> if the last loop iteration published m, else <<>>
  left,          \* samples the current call of work() has still to handle
  alive          \* FALSE once an exception has left work()

vars == <<cfg, d_search, d_in_sync, d_have_len, d_rx_bit_cnt, d_tmp_byte,
          d_packet, d_pkt_len, pub, left, alive>>

-----------------------------------------------------------------------------
Byte == [1..ByteBits -> {0, 1}]
ZeroByte == [i \in 1..ByteBits |-> 0]

\* d_pkt_len_offset and the last bit of the length byte, in bits.
OffsetBits == cfg.pkt_len_offset * ByteBits
LengthEnd == OffsetBits + ByteBits

\* push_back on a circular buffer of the sync word's capacity.
ShiftIn(buf, s) == LET all == Append(buf, s)
                   IN  IF Len(all) > Len(cfg.sync) THEN Tail(all) ELSE all

\* Mutant: the byte is kept in a wider variable, and nothing is shifted out.
WideShiftBit(byte, s) == Append(byte, s % 2)

\* (byte << 1) | (s & 0x01), in eight bits.
ShiftBit(byte, s) == Append(Tail(byte), s % 2)

\* Mutant: the bit is added before the shift.
AddThenShift(n, s) == 2 * (n + (s % 2))

\* (n << 1) | s : the other bits of s are not masked off.
ShiftSample(n, s) ==
  2 * n + (s % 2) + (IF s \div 2 = 1 /\ n % 2 = 0 THEN 2 ELSE 0)

\* Mutant: a length of zero is taken for an error too.
ReserveThrowsAtZero(n) == n <= 0

\* vector::reserve(n) with n converted to size_t: a negative n is beyond
\* max_size and throws length_error.
ReserveThrows(n) == n < 0

\* The dictionary and the vector of the PDU; name and time stamp are left out.
Pdu(data) == [packed |-> cfg.pack_bytes, data |-> data]

-----------------------------------------------------------------------------
\* The constructor.  It leaves d_have_len, d_rx_bit_cnt and d_tmp_byte unset.
Init ==
  /\ cfg \in Configs
  /\ d_search = <<>>
  /\ d_in_sync = FALSE
  /\ d_have_len \in BOOLEAN
  /\ d_rx_bit_cnt \in Garbage
  /\ d_tmp_byte \in Byte
  /\ d_packet = <<>>
  /\ d_pkt_len = cfg.pkt_len
  /\ pub = <<>>
  /\ left = 0
  /\ alive = TRUE

\* The scheduler calls work() with n samples, the previous call being over.
Work(n) ==
  /\ alive /\ left = 0
  /\ left' = n
  /\ UNCHANGED <<cfg, d_search, d_in_sync, d_have_len, d_rx_bit_cnt,
                 d_tmp_byte, d_packet, d_pkt_len, pub, alive>>

\* The loop of work() takes the next sample of the call.
NextSample == alive /\ left > 0 /\ left' = left - 1 /\ UNCHANGED cfg

\* Mutant: the window is compared before the sample is shifted in.
LateHunt(s) ==
  /\ NextSample
  /\ ~d_in_sync
  /\ d_search # cfg.sync
  /\ d_search' = ShiftIn(d_search, s)
  /\ pub' = <<>>
  /\ UNCHANGED <<d_in_sync, d_have_len, d_rx_bit_cnt, d_tmp_byte, d_packet,
                 d_pkt_len, alive>>

\* Not in sync, and the window does not match.
Hunt(s) ==
  /\ NextSample
  /\ ~d_in_sync
  /\ ShiftIn(d_search, s) # cfg.sync
  /\ d_search' = ShiftIn(d_search, s)
  /\ pub' = <<>>
  /\ UNCHANGED <<d_in_sync, d_have_len, d_rx_bit_cnt, d_tmp_byte, d_packet,
                 d_pkt_len, alive>>

\* Mutant: d_have_len is left to the constructor when the length is fixed.
StartPacketUnset ==
  \/ /\ cfg.fixed_len /\ ~ReserveThrows(d_pkt_len)
     /\ UNCHANGED <<d_have_len, d_pkt_len, alive>>
  \/ /\ cfg.fixed_len /\ ReserveThrows(d_pkt_len)
     /\ alive' = FALSE
     /\ UNCHANGED <<d_have_len, d_pkt_len>>
  \/ /\ ~cfg.fixed_len
     /\ d_have_len' = FALSE
     /\ d_pkt_len' = 0
     /\ UNCHANGED alive

\* The length is known from the start, or is to be read from the packet.
StartPacket ==
  \/ /\ cfg.fixed_len /\ ~ReserveThrows(d_pkt_len)
     /\ d_have_len' = TRUE
     /\ UNCHANGED <<d_pkt_len, alive>>
  \/ /\ cfg.fixed_len /\ ReserveThrows(d_pkt_len)
     /\ alive' = FALSE
     /\ UNCHANGED <<d_have_len, d_pkt_len>>
  \/ /\ ~cfg.fixed_len
     /\ d_have_len' = FALSE
     /\ d_pkt_len' = 0
     /\ UNCHANGED alive

\* Not in sync, and s completes the sync word.
FoundSync(s) ==
  /\ NextSample
  /\ ~d_in_sync
  /\ ShiftIn(d_search, s) = cfg.sync
  /\ d_search' = ShiftIn(d_search, s)
  /\ d_in_sync' = TRUE
  /\ d_rx_bit_cnt' = 0
  /\ d_tmp_byte' = ZeroByte
  /\ d_packet' = <<>>
  /\ pub' = <<>>
  /\ StartPacket

-----------------------------------------------------------------------------
(* In sync: add_symbol(s), then the test for the end of the packet.        *)

\* Mutant: every sample is shifted into the search window.
StoreAndSearch(s) ==
  /\ NextSample
  /\ d_in_sync
  /\ d_rx_bit_cnt' = d_rx_bit_cnt + 1
  /\ d_packet' = Append(d_packet, IF cfg.pack_bytes THEN d_tmp_byte ELSE s)
  /\ d_search' = ShiftIn(d_search, s)
  /\ UNCHANGED d_tmp_byte

\* add_symbol up to the length: count the sample, keep it or pack its bit.
Store(s) ==
  /\ NextSample
  /\ d_in_sync
  /\ d_rx_bit_cnt' = d_rx_bit_cnt + 1
  /\ \/ /\ ~cfg.pack_bytes
        /\ d_packet' = Append(d_packet, s)
        /\ UNCHANGED d_tmp_byte
     \/ /\ cfg.pack_bytes /\ d_rx_bit_cnt' % ByteBits = 0
        /\ d_packet' = Append(d_packet, ShiftBit(d_tmp_byte, s))
        /\ d_tmp_byte' = ZeroByte
     \/ /\ cfg.pack_bytes /\ d_rx_bit_cnt' % ByteBits # 0
        /\ d_tmp_byte' = ShiftBit(d_tmp_byte, s)
        /\ UNCHANGED d_packet
  /\ UNCHANGED d_search

\* Mutant: the test for the end is off by one.
FinishLate(stay) ==
  \/ /\ d_rx_bit_cnt' > d_pkt_len'
     /\ d_in_sync' = FALSE
     /\ pub' = <<Pdu(d_packet')>>
  \/ /\ d_rx_bit_cnt' <= d_pkt_len'
     /\ d_in_sync' = stay
     /\ pub' = <<>>

\* Back in work() with the length known: publish once all bits are there.
\* stay is what add_symbol made of d_in_sync.
Finish(stay) ==
  \/ /\ d_rx_bit_cnt' >= d_pkt_len'
     /\ d_in_sync' = FALSE
     /\ pub' = <<Pdu(d_packet')>>
  \/ /\ d_rx_bit_cnt' < d_pkt_len'
     /\ d_in_sync' = stay
     /\ pub' = <<>>

\* Before the length byte.
CaptureHeader(s) ==
  /\ ~d_have_len
  /\ d_rx_bit_cnt + 1 <= OffsetBits
  /\ Store(s)
  /\ pub' = <<>>
  /\ UNCHANGED <<d_in_sync, d_have_len, d_pkt_len, alive>>

\* In the length byte, not its last bit.
CaptureLengthBit(s) ==
  /\ ~d_have_len
  /\ d_rx_bit_cnt + 1 > OffsetBits
  /\ d_rx_bit_cnt + 1 # LengthEnd
  /\ Store(s)
  /\ d_pkt_len' = ShiftSample(d_pkt_len, s)
  /\ pub' = <<>>
  /\ UNCHANGED <<d_in_sync, d_have_len, alive>>

\* Mutant: max_len itself is too long.
TooLongAtMax(len) == cfg.max_len > 0 /\ len >= cfg.max_len

TooLong(len) == cfg.max_len > 0 /\ len > cfg.max_len

\* Mutant: the header and the length byte are not counted.
TotalBitsAfterLength(len) == len * ByteBits + cfg.pkt_len_adj * ByteBits

\* The samples so far, the length, and the additional bytes.
TotalBits(len) == LengthEnd + len * ByteBits + cfg.pkt_len_adj * ByteBits

\* The last bit of the length byte.  A length above max_len ends the capture;
\* the length in bits is computed, and room reserved for it, all the same.
CaptureLength(s) ==
  LET len == ShiftSample(d_pkt_len, s) IN
  /\ ~d_have_len
  /\ d_rx_bit_cnt + 1 = LengthEnd
  /\ Store(s)
  /\ d_have_len' = TRUE
  /\ d_pkt_len' = TotalBits(len)
  /\ \/ /\ ~ReserveThrows(TotalBits(len))
        /\ Finish(~TooLong(len))
        /\ UNCHANGED alive
     \/ /\ ReserveThrows(TotalBits(len))
        /\ d_in_sync' = ~TooLong(len)
        /\ pub' = <<>>
        /\ alive' = FALSE

\* The length is known.
CaptureBody(s) ==
  /\ d_have_len
  /\ Store(s)
  /\ UNCHANGED <<d_have_len, d_pkt_len, alive>>
  /\ Finish(TRUE)

Capture(s) ==
  \/ CaptureHeader(s)
  \/ CaptureLengthBit(s)
  \/ CaptureLength(s)
  \/ CaptureBody(s)

Next ==
  \/ \E n \in 1..MaxWork : Work(n)
  \/ \E s \in Samples : Hunt(s) \/ FoundSync(s) \/ Capture(s)

Spec == Init /\ [][Next]_vars

\* The scheduler keeps calling work() as long as samples arrive.
FairSpec == Spec /\ WF_vars(Next)

-----------------------------------------------------------------------------
(* Classes of configurations                                               *)

\* The length of no packet is negative: the bytes taken off by a negative
\* pkt_len_adj are at most those up to and including the length byte.
SafeLength(c) == IF c.fixed_len THEN c.pkt_len >= 0
                 ELSE c.pkt_len_offset + 1 + c.pkt_len_adj >= 0

\* A squelched packet would have at least one byte after its length byte.
SafeSquelch(c) == c.max_len + 1 + c.pkt_len_adj > 0

\* No proper prefix of the sync word is also a suffix of it.
Unbordered(w) ==
  \A b \in 1..(Len(w) - 1) : \E i \in 1..b : w[i] # w[Len(w) - b + i]

-----------------------------------------------------------------------------
(* Properties                                                              *)

\* Types.  A packing block holds bytes; what is published is the packet held.
TypeOK ==
  /\ cfg \in Configs
  /\ d_search \in Seq(Samples)
  /\ d_in_sync \in BOOLEAN
  /\ d_have_len \in BOOLEAN
  /\ d_rx_bit_cnt \in Nat
  /\ d_tmp_byte \in Byte
  /\ d_packet \in Seq(IF cfg.pack_bytes THEN Byte ELSE Samples)
  /\ d_pkt_len \in Int
  /\ pub \in {<<>>, <<Pdu(d_packet)>>}
  /\ left \in 0..MaxWork
  /\ alive \in BOOLEAN

\* No exception leaves work(): reserve() is never called with a negative
\* length, for a configuration whose packets all have a length.
NoCrash == SafeLength(cfg) => alive

\* While a packet is captured d_pkt_len is not negative, so that comparing it
\* with the unsigned d_rx_bit_cnt compares numbers; and what the constructor
\* left unset is not read: a fixed length is known, and is the configured one.
LengthInv ==
  /\ cfg.fixed_len => d_pkt_len = cfg.pkt_len
  /\ (alive /\ d_in_sync) =>
        /\ d_pkt_len >= 0
        /\ cfg.fixed_len => d_have_len
  /\ NoCrash

\* A capture is never past its end: the end of the length byte is tested for
\* equality with the count, which would never be met again once passed, and
\* the packet is complete at the first sample that makes it so.
BeforeEnd ==
  (alive /\ d_in_sync) =>
     /\ (d_have_len /\ d_rx_bit_cnt > 0) => d_rx_bit_cnt < d_pkt_len
     /\ ~d_have_len => d_rx_bit_cnt < LengthEnd

\* A packet whose length byte exceeds max_len is not published: the capture
\* that add_symbol gives up is not completed by the test that follows it.
SquelchStep ==
  \A s \in Samples :
    (SafeSquelch(cfg) /\ CaptureLength(s) /\ TooLong(ShiftSample(d_pkt_len, s)))
      => pub' = <<>> /\ ~d_in_sync'

SquelchIsFinal == [][SquelchStep]_vars
=============================================================================
