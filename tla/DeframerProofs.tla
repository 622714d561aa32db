---------------------------- MODULE DeframerProofs ----------------------------
(***************************************************************************)
(* Theorems about Deframer and DeframerHistory, for every value of the     *)
(* constants their assumptions allow, and that Deframer implements         *)
(* FrameSpec: what the block counts, packs and sums up sample by sample is *)
(* what FrameSpec says of the frame as a whole.                            *)
(***************************************************************************)
EXTENDS DeframerHistory, InductionLemmas

-----------------------------------------------------------------------------
(* The data operators                                                      *)

\* The search buffer stays a sequence of samples.
LEMMA ShiftInType ==
  ASSUME NEW buf \in Seq(Samples), NEW s \in Samples
  PROVE  ShiftIn(buf, s) \in Seq(Samples)
<1>1. Append(buf, s) \in Seq(Samples) /\ Append(buf, s) # <<>>
  BY AppendProperties
<1>2. Tail(Append(buf, s)) \in Seq(Samples)
  BY <1>1, HeadTailProperties
<1>3. QED
  BY <1>1, <1>2 DEF ShiftIn

\* Shifting a bit into a byte gives a byte.
LEMMA ShiftBitType ==
  ASSUME NEW byte \in Byte, NEW s \in Samples
  PROVE  ShiftBit(byte, s) \in Byte
<1>1. s % 2 \in {0, 1}
  BY SamplesAssumption
<1>2. byte \in Seq({0, 1}) /\ Len(byte) = ByteBits /\ byte # <<>>
  BY ByteBitsAssumption, EmptySeq DEF Byte
<1>3. Tail(byte) \in Seq({0, 1}) /\ Len(Tail(byte)) = ByteBits - 1
  BY <1>2, HeadTailProperties
<1>4. /\ Append(Tail(byte), s % 2) \in Seq({0, 1})
      /\ Len(Append(Tail(byte), s % 2)) = ByteBits
  BY <1>1, <1>3, AppendProperties, ByteBitsAssumption
<1>5. QED
  BY <1>4, LenProperties DEF ShiftBit, Byte

\* Reading one more sample of the length byte leaves a natural number.
LEMMA ShiftSampleType ==
  ASSUME NEW n \in Int, NEW s \in Samples
  PROVE  /\ ShiftSample(n, s) \in Int
         /\ n >= 0 => ShiftSample(n, s) >= 0
<1>1. s \in 0..3
  BY SamplesAssumption
<1>2. s % 2 \in 0..1 /\ s \div 2 \in 0..1
  BY <1>1
<1>3. QED
  BY <1>1, <1>2 DEF ShiftSample

\* TotalBits is an integer.
LEMMA TotalBitsType ==
  ASSUME TypeOK, NEW len \in Int
  PROVE  /\ OffsetBits \in Nat
         /\ LengthEnd \in Nat
         /\ TotalBits(len) \in Int
<1>1. cfg.pkt_len_offset \in Nat /\ cfg.pkt_len_adj \in Int
  BY ConfigsAssumption DEF TypeOK
<1>2. QED
  BY <1>1, ByteBitsAssumption DEF OffsetBits, LengthEnd, TotalBits

-----------------------------------------------------------------------------
(* Type correctness                                                        *)

\* Storing a sample keeps the types of the variables Store changes.
LEMMA StoreType ==
  ASSUME TypeOK, NEW s \in Samples, Store(s)
  PROVE  /\ cfg' = cfg
         /\ d_search' = d_search
         /\ d_rx_bit_cnt' \in Nat
         /\ d_tmp_byte' \in Byte
         /\ d_packet' \in Seq(IF cfg.pack_bytes THEN Byte ELSE Samples)
         /\ left' \in 0..MaxWork
         /\ alive
<1>1. cfg' = cfg /\ left' \in 0..MaxWork /\ alive /\ d_search' = d_search
  BY MaxWorkAssumption DEF TypeOK, Store, NextSample
<1>2. d_rx_bit_cnt' \in Nat
  BY DEF TypeOK, Store
<1>3. d_tmp_byte \in Byte /\ ShiftBit(d_tmp_byte, s) \in Byte /\ ZeroByte \in Byte
  BY ShiftBitType DEF TypeOK, Byte, ZeroByte
<1>4. CASE ~cfg.pack_bytes
  <2>1. d_packet \in Seq(Samples)
    BY <1>4 DEF TypeOK
  <2>2. Append(d_packet, s) \in Seq(Samples)
    BY <2>1, AppendProperties
  <2>3. QED
    BY <1>1, <1>2, <1>3, <1>4, <2>2 DEF Store
<1>5. CASE cfg.pack_bytes
  <2>1. d_packet \in Seq(Byte)
    BY <1>5 DEF TypeOK
  <2>2. Append(d_packet, ShiftBit(d_tmp_byte, s)) \in Seq(Byte)
    BY <1>3, <2>1, AppendProperties
  <2>3. QED
    BY <1>1, <1>2, <1>3, <1>5, <2>1, <2>2 DEF Store
<1>6. QED
  BY <1>4, <1>5

\* Publishing what has been captured keeps the types.
LEMMA FinishType ==
  ASSUME NEW stay \in BOOLEAN, Finish(stay), cfg' = cfg
  PROVE  /\ d_in_sync' \in BOOLEAN
         /\ pub' \in {<<>>, <<Pdu(d_packet)'>>}
<1>1. Pdu(d_packet') = Pdu(d_packet)'
  BY DEF Pdu
<1>2. d_in_sync' = FALSE \/ d_in_sync' = stay
  BY DEF Finish
<1>3. pub' = <<>> \/ pub' = <<Pdu(d_packet')>>
  BY DEF Finish
<1>4. QED
  BY <1>1, <1>2, <1>3

\* Every step keeps the types.
LEMMA TypeStep == TypeOK /\ [Next]_vars => TypeOK'
<1> SUFFICES ASSUME TypeOK, [Next]_vars PROVE TypeOK'
  OBVIOUS
<1>1. ASSUME NEW n \in 1..MaxWork, Work(n) PROVE TypeOK'
  BY <1>1, MaxWorkAssumption DEF Work, TypeOK, Pdu
<1>2. ASSUME NEW s \in Samples, Hunt(s) PROVE TypeOK'
  <2>1. d_search' \in Seq(Samples)
    BY <1>2, ShiftInType DEF Hunt, TypeOK
  <2>2. left' \in 0..MaxWork /\ cfg' = cfg /\ pub' = <<>>
    BY <1>2, MaxWorkAssumption DEF Hunt, NextSample, TypeOK
  <2>3. QED
    BY <1>2, <2>1, <2>2 DEF Hunt, TypeOK
<1>3. ASSUME NEW s \in Samples, FoundSync(s) PROVE TypeOK'
  <2>1. d_search' \in Seq(Samples)
    BY <1>3, ShiftInType DEF FoundSync, TypeOK
  <2>2. left' \in 0..MaxWork /\ cfg' = cfg /\ pub' = <<>> /\ d_packet' = <<>>
    BY <1>3, MaxWorkAssumption DEF FoundSync, NextSample, TypeOK
  <2>3. ZeroByte \in Byte
    BY DEF ZeroByte, Byte
  <2>4. d_have_len' \in BOOLEAN /\ d_pkt_len' \in Int /\ alive' \in BOOLEAN
    <3>1. StartPacket
      BY <1>3 DEF FoundSync
    <3>2. d_have_len' = TRUE \/ d_have_len' = FALSE \/ d_have_len' = d_have_len
      BY <3>1 DEF StartPacket
    <3>3. d_pkt_len' = d_pkt_len \/ d_pkt_len' = 0
      BY <3>1 DEF StartPacket
    <3>4. alive' = alive \/ alive' = FALSE
      BY <3>1 DEF StartPacket
    <3>5. d_have_len' \in BOOLEAN
      BY <3>2 DEF TypeOK
    <3>6. d_pkt_len' \in Int
      BY <3>3 DEF TypeOK
    <3>7. alive' \in BOOLEAN
      BY <3>4 DEF TypeOK
    <3>8. QED
      BY <3>5, <3>6, <3>7
  <2>5. QED
    BY <1>3, <2>1, <2>2, <2>3, <2>4 DEF FoundSync, TypeOK
<1>4. ASSUME NEW s \in Samples, CaptureHeader(s) PROVE TypeOK'
  <2>1. Store(s)
    BY <1>4 DEF CaptureHeader
  <2>2. QED
    BY <1>4, <2>1, StoreType DEF CaptureHeader, TypeOK
<1>5. ASSUME NEW s \in Samples, CaptureLengthBit(s) PROVE TypeOK'
  <2>1. Store(s)
    BY <1>5 DEF CaptureLengthBit
  <2>2. d_pkt_len' \in Int
    BY <1>5, ShiftSampleType DEF CaptureLengthBit, TypeOK
  <2>3. QED
    BY <1>5, <2>1, <2>2, StoreType DEF CaptureLengthBit, TypeOK
<1>6. ASSUME NEW s \in Samples, CaptureLength(s) PROVE TypeOK'
  <2> DEFINE len == ShiftSample(d_pkt_len, s)
  <2>1. Store(s)
    BY <1>6 DEF CaptureLength
  <2>2. len \in Int
    BY ShiftSampleType DEF TypeOK
  <2>3. d_have_len' = TRUE /\ d_pkt_len' \in Int
    BY <1>6, <2>2, TotalBitsType DEF CaptureLength
  <2>4. CASE ReserveThrows(TotalBits(len))
    <3>1. d_in_sync' = ~TooLong(len) /\ pub' = <<>> /\ alive' = FALSE
      BY <1>6, <2>4 DEF CaptureLength
    <3>2. QED
      BY <2>1, <2>3, <3>1, StoreType DEF TypeOK
  <2>5. CASE ~ReserveThrows(TotalBits(len))
    <3>1. Finish(~TooLong(len)) /\ alive' = alive
      BY <1>6, <2>5 DEF CaptureLength
    <3>2. (~TooLong(len)) \in BOOLEAN
      OBVIOUS
    <3>3. QED
      BY <2>1, <2>3, <3>1, <3>2, StoreType, FinishType DEF TypeOK
  <2>6. QED
    BY <2>4, <2>5
<1>7. ASSUME NEW s \in Samples, CaptureBody(s) PROVE TypeOK'
  <2>1. Store(s) /\ Finish(TRUE)
    BY <1>7 DEF CaptureBody
  <2>2. QED
    BY <1>7, <2>1, StoreType, FinishType DEF CaptureBody, TypeOK
<1>8. CASE UNCHANGED vars
  BY <1>8 DEF vars, TypeOK, Pdu
<1>9. QED
  BY <1>1, <1>2, <1>3, <1>4, <1>5, <1>6, <1>7, <1>8 DEF Next, Capture

\* The variables of a deframer always hold values of their types.
THEOREM TypeCorrect == Spec => []TypeOK
<1>1. Init => TypeOK
  <2> SUFFICES ASSUME Init PROVE TypeOK
    OBVIOUS
  <2>1. cfg.pkt_len \in Int
    BY ConfigsAssumption DEF Init
  <2>2. QED
    <3>1. d_rx_bit_cnt \in Nat /\ left \in 0..MaxWork
      BY GarbageAssumption, MaxWorkAssumption DEF Init
    <3>2. d_search \in Seq(Samples)
      BY DEF Init
    <3>3. d_packet \in Seq(IF cfg.pack_bytes THEN Byte ELSE Samples)
      BY DEF Init
    <3>4. QED
      BY <2>1, <3>1, <3>2, <3>3 DEF Init, TypeOK
<1>2. QED
  BY <1>1, TypeStep, PTL DEF Spec

-----------------------------------------------------------------------------
(* Lengths, and the absence of exceptions                                  *)

\* If the length is read from the packet, no total length is negative as long
\* as pkt_len_adj takes off at most the bytes that precede it.
LEMMA TotalBitsBound ==
  ASSUME TypeOK, NEW len \in Nat, ~cfg.fixed_len, SafeLength(cfg)
  PROVE  TotalBits(len) >= 0
<1> DEFINE o == cfg.pkt_len_offset
           a == cfg.pkt_len_adj
<1>1. o \in Nat /\ a \in Int /\ o + 1 + a >= 0
  BY ConfigsAssumption DEF TypeOK, SafeLength
<1>2. TotalBits(len) = (o * ByteBits + ByteBits) + len * ByteBits + a * ByteBits
  BY DEF TotalBits, LengthEnd, OffsetBits
<1> HIDE DEF o, a
<1>3. (o * ByteBits + ByteBits) + len * ByteBits + a * ByteBits
        = (o + 1 + a + len) * ByteBits
  BY <1>1, ByteBitsAssumption
<1>4. o + 1 + a + len \in Nat
  BY <1>1
<1>5. (o + 1 + a + len) * ByteBits >= 0
  BY <1>4, ByteBitsAssumption
<1>6. QED
  BY <1>2, <1>3, <1>5

\* A capture step that runs needs a living block in a packet, and leaves it in
\* the packet only if it was.
LEMMA StoreGuard ==
  ASSUME NEW s \in Samples, Store(s)
  PROVE  alive /\ d_in_sync /\ cfg' = cfg
BY DEF Store, NextSample

\* Every step keeps LengthInv.
LEMMA LengthStep == TypeOK /\ LengthInv /\ [Next]_vars => LengthInv'
<1> SUFFICES ASSUME TypeOK, LengthInv, [Next]_vars PROVE LengthInv'
  OBVIOUS
<1>1. ASSUME NEW n \in 1..MaxWork, Work(n) PROVE LengthInv'
  BY <1>1 DEF Work, LengthInv, NoCrash
<1>2. ASSUME NEW s \in Samples, Hunt(s) PROVE LengthInv'
  BY <1>2 DEF Hunt, NextSample, LengthInv, NoCrash
<1>3. ASSUME NEW s \in Samples, FoundSync(s) PROVE LengthInv'
  <2>1. cfg' = cfg /\ alive /\ StartPacket
    BY <1>3 DEF FoundSync, NextSample
  <2>2. CASE cfg.fixed_len /\ ~ReserveThrows(d_pkt_len)
    <3>1. d_have_len' = TRUE /\ d_pkt_len' = d_pkt_len /\ alive' = alive
      BY <2>1, <2>2 DEF StartPacket
    <3>2. d_pkt_len >= 0
      BY <2>2 DEF ReserveThrows, TypeOK
    <3>3. QED
      BY <2>1, <2>2, <3>1, <3>2 DEF LengthInv, NoCrash
  <2>3. CASE cfg.fixed_len /\ ReserveThrows(d_pkt_len)
    <3>1. alive' = FALSE /\ d_pkt_len' = d_pkt_len
      BY <2>1, <2>3 DEF StartPacket
    <3>2. ~(d_pkt_len >= 0) /\ d_pkt_len = cfg.pkt_len
      BY <2>3 DEF ReserveThrows, TypeOK, LengthInv
    <3>3. ~SafeLength(cfg)
      BY <2>3, <3>2 DEF SafeLength
    <3>4. QED
      BY <2>1, <3>1, <3>2, <3>3 DEF LengthInv, NoCrash
  <2>4. CASE ~cfg.fixed_len
    <3>1. d_pkt_len' = 0 /\ alive' = alive
      BY <2>1, <2>4 DEF StartPacket
    <3>2. QED
      BY <2>1, <2>4, <3>1 DEF LengthInv, NoCrash
  <2>5. QED
    BY <2>2, <2>3, <2>4
<1>4. ASSUME NEW s \in Samples, CaptureHeader(s) PROVE LengthInv'
  <2>1. Store(s)
    BY <1>4 DEF CaptureHeader
  <2>2. QED
    BY <1>4, <2>1, StoreGuard DEF CaptureHeader, LengthInv, NoCrash
<1>5. ASSUME NEW s \in Samples, CaptureLengthBit(s) PROVE LengthInv'
  <2>1. Store(s) /\ ~d_have_len
    BY <1>5 DEF CaptureLengthBit
  <2>2. alive /\ d_in_sync /\ cfg' = cfg /\ ~cfg.fixed_len /\ d_pkt_len >= 0
    BY <2>1, StoreGuard DEF LengthInv
  <2>3. d_pkt_len' >= 0
    BY <1>5, <2>2, ShiftSampleType DEF CaptureLengthBit, TypeOK
  <2>4. alive' = alive
    BY <1>5 DEF CaptureLengthBit
  <2>5. QED
    BY <2>2, <2>3, <2>4 DEF LengthInv, NoCrash
<1>6. ASSUME NEW s \in Samples, CaptureLength(s) PROVE LengthInv'
  <2> DEFINE len == ShiftSample(d_pkt_len, s)
  <2>1. Store(s) /\ ~d_have_len /\ d_pkt_len' = TotalBits(len)
    BY <1>6 DEF CaptureLength
  <2>2. alive /\ d_in_sync /\ cfg' = cfg /\ ~cfg.fixed_len /\ d_pkt_len >= 0
    BY <2>1, StoreGuard DEF LengthInv
  <2>3. len \in Nat
    BY <2>2, ShiftSampleType DEF TypeOK
  <2>4. TotalBits(len) \in Int
    BY <2>3, TotalBitsType
  <2>5. CASE ReserveThrows(TotalBits(len))
    <3>1. alive' = FALSE
      BY <1>6, <2>5 DEF CaptureLength
    <3>2. ~SafeLength(cfg)
      BY <2>2, <2>3, <2>4, <2>5, TotalBitsBound DEF ReserveThrows
    <3>3. QED
      BY <2>2, <3>1, <3>2 DEF LengthInv, NoCrash
  <2>6. CASE ~ReserveThrows(TotalBits(len))
    <3>1. alive' = alive
      BY <1>6, <2>6 DEF CaptureLength
    <3>2. d_pkt_len' >= 0
      BY <2>1, <2>4, <2>6 DEF ReserveThrows
    <3>3. QED
      BY <2>2, <3>1, <3>2 DEF LengthInv, NoCrash
  <2>7. QED
    BY <2>5, <2>6
<1>7. ASSUME NEW s \in Samples, CaptureBody(s) PROVE LengthInv'
  <2>1. Store(s) /\ UNCHANGED <<d_have_len, d_pkt_len, alive>>
    BY <1>7 DEF CaptureBody
  <2>2. QED
    BY <2>1, StoreGuard DEF LengthInv, NoCrash
<1>8. CASE UNCHANGED vars
  BY <1>8 DEF vars, LengthInv, NoCrash
<1>9. QED
  BY <1>1, <1>2, <1>3, <1>4, <1>5, <1>6, <1>7, <1>8 DEF Next, Capture

\* What a block knows of the length of its packet: never negative while the
\* packet is captured, and never read before it is set.
THEOREM LengthsAreSound == Spec => []LengthInv
<1>1. Init => LengthInv
  BY DEF Init, LengthInv, NoCrash
<1>2. QED
  BY <1>1, LengthStep, TypeStep, TypeCorrect, PTL DEF Spec

\* No exception leaves work() if the configuration gives every packet a length.
THEOREM NeverCrashes == Spec => []NoCrash
<1>1. LengthInv => NoCrash
  BY DEF LengthInv
<1>2. QED
  BY <1>1, LengthsAreSound, PTL

-----------------------------------------------------------------------------
(* The end of a capture                                                    *)

\* A capture that goes on after the test for the end is not past its end.
LEMMA FinishBefore ==
  ASSUME NEW stay \in BOOLEAN, Finish(stay), d_in_sync'
  PROVE  d_rx_bit_cnt' < d_pkt_len'
BY DEF Finish

\* Every step keeps BeforeEnd.
LEMMA BeforeEndStep == TypeOK /\ BeforeEnd /\ [Next]_vars => BeforeEnd'
<1> SUFFICES ASSUME TypeOK, BeforeEnd, [Next]_vars PROVE BeforeEnd'
  OBVIOUS
<1>1. /\ OffsetBits \in Nat /\ LengthEnd \in Nat
      /\ OffsetBits < LengthEnd /\ d_rx_bit_cnt \in Nat
  BY TotalBitsType, ByteBitsAssumption DEF TypeOK, LengthEnd
<1>2. ASSUME cfg' = cfg PROVE LengthEnd' = LengthEnd
  BY <1>2 DEF LengthEnd, OffsetBits
<1>3. ASSUME UNCHANGED <<cfg, d_in_sync, d_have_len, d_rx_bit_cnt, d_pkt_len, alive>>
      PROVE  BeforeEnd'
  BY <1>2, <1>3 DEF BeforeEnd
<1>4. ASSUME NEW n \in 1..MaxWork, Work(n) PROVE BeforeEnd'
  BY <1>3, <1>4 DEF Work
<1>5. ASSUME NEW s \in Samples, Hunt(s) PROVE BeforeEnd'
  BY <1>3, <1>5 DEF Hunt, NextSample
<1>6. ASSUME NEW s \in Samples, FoundSync(s) PROVE BeforeEnd'
  <2>1. d_rx_bit_cnt' = 0 /\ cfg' = cfg
    BY <1>6 DEF FoundSync, NextSample
  <2>2. QED
    BY <1>1, <1>2, <2>1 DEF BeforeEnd
<1>7. ASSUME NEW s \in Samples, Store(s)
      PROVE  /\ alive /\ d_in_sync /\ LengthEnd' = LengthEnd
             /\ d_rx_bit_cnt' = d_rx_bit_cnt + 1
  BY <1>2, <1>7 DEF Store, NextSample
<1>8. ASSUME NEW s \in Samples, CaptureHeader(s) PROVE BeforeEnd'
  <2>1. Store(s) /\ ~d_have_len' /\ d_rx_bit_cnt + 1 <= OffsetBits
    BY <1>8 DEF CaptureHeader
  <2>2. d_rx_bit_cnt' < LengthEnd'
    BY <1>1, <1>7, <2>1
  <2>3. QED
    BY <2>1, <2>2 DEF BeforeEnd
<1>9. ASSUME NEW s \in Samples, CaptureLengthBit(s) PROVE BeforeEnd'
  <2>1. Store(s) /\ ~d_have_len /\ ~d_have_len' /\ d_rx_bit_cnt + 1 # LengthEnd
    BY <1>9 DEF CaptureLengthBit
  <2>2. d_rx_bit_cnt < LengthEnd
    BY <1>7, <2>1 DEF BeforeEnd
  <2>3. d_rx_bit_cnt' < LengthEnd'
    BY <1>1, <1>7, <2>1, <2>2
  <2>4. QED
    BY <2>1, <2>3 DEF BeforeEnd
<1>10. ASSUME NEW s \in Samples, CaptureLength(s) PROVE BeforeEnd'
  <2> DEFINE len == ShiftSample(d_pkt_len, s)
  <2>1. d_have_len'
    BY <1>10 DEF CaptureLength
  <2>2. CASE Finish(~TooLong(len))
    <3>1. (~TooLong(len)) \in BOOLEAN
      OBVIOUS
    <3>2. d_in_sync' => d_rx_bit_cnt' < d_pkt_len'
      BY <2>2, <3>1, FinishBefore
    <3>3. QED
      BY <2>1, <3>2 DEF BeforeEnd
  <2>3. CASE alive' = FALSE
    BY <2>3 DEF BeforeEnd
  <2>4. QED
    BY <1>10, <2>2, <2>3 DEF CaptureLength
<1>11. ASSUME NEW s \in Samples, CaptureBody(s) PROVE BeforeEnd'
  <2>1. Finish(TRUE) /\ d_have_len'
    BY <1>11 DEF CaptureBody
  <2>2. d_in_sync' => d_rx_bit_cnt' < d_pkt_len'
    BY <2>1, FinishBefore
  <2>3. QED
    BY <2>1, <2>2 DEF BeforeEnd
<1>12. CASE UNCHANGED vars
  BY <1>3, <1>12 DEF vars
<1>13. QED
  BY <1>4, <1>5, <1>6, <1>8, <1>9, <1>10, <1>11, <1>12 DEF Next, Capture

\* No capture runs past the end of its length byte or of its packet.
THEOREM CapturesEndInTime == Spec => []BeforeEnd
<1>1. Init => BeforeEnd
  BY DEF Init, BeforeEnd
<1>2. QED
  BY <1>1, BeforeEndStep, TypeCorrect, PTL DEF Spec

-----------------------------------------------------------------------------
(* Squelched packets                                                       *)

\* A squelched length puts the end of the packet after its length byte, as
\* long as pkt_len_adj does not take off more than max_len + 1 bytes.
LEMMA SquelchedTotal ==
  ASSUME TypeOK, NEW len \in Int, SafeSquelch(cfg), TooLong(len)
  PROVE  TotalBits(len) > LengthEnd
<1> DEFINE a == cfg.pkt_len_adj
<1>1. a \in Int /\ len > cfg.max_len /\ cfg.max_len \in Int
      /\ cfg.max_len + 1 + a > 0 /\ LengthEnd \in Nat
  BY ConfigsAssumption, TotalBitsType DEF TypeOK, SafeSquelch, TooLong
<1>2. len + a >= 1
  BY <1>1
<1>3. TotalBits(len) = LengthEnd + len * ByteBits + a * ByteBits
  BY DEF TotalBits
<1> HIDE DEF a
<1>4. len * ByteBits + a * ByteBits = (len + a) * ByteBits
  BY <1>1, ByteBitsAssumption
<1>5. (len + a) * ByteBits >= ByteBits
  BY <1>1, <1>2, ByteBitsAssumption
<1>6. len * ByteBits \in Int /\ a * ByteBits \in Int
  BY <1>1, ByteBitsAssumption
<1>7. QED
  BY <1>1, <1>3, <1>4, <1>5, <1>6, ByteBitsAssumption

\* A packet longer than max_len is given up and not published.
THEOREM SquelchHolds == Spec => SquelchIsFinal
<1>1. TypeOK => SquelchStep
  <2> SUFFICES ASSUME TypeOK, NEW s \in Samples, SafeSquelch(cfg),
                      CaptureLength(s), TooLong(ShiftSample(d_pkt_len, s))
               PROVE  pub' = <<>> /\ ~d_in_sync'
    BY DEF SquelchStep
  <2> DEFINE len == ShiftSample(d_pkt_len, s)
  <2>1. len \in Int /\ TotalBits(len) \in Int /\ LengthEnd \in Nat
    BY ShiftSampleType, TotalBitsType DEF TypeOK
  <2>2. TotalBits(len) > LengthEnd
    BY <2>1, SquelchedTotal
  <2>3. d_rx_bit_cnt' = LengthEnd /\ d_pkt_len' = TotalBits(len)
    BY DEF CaptureLength, Store
  <2>4. ~(d_rx_bit_cnt' >= d_pkt_len')
    BY <2>1, <2>2, <2>3
  <2>5. CASE Finish(~TooLong(len))
    BY <2>4, <2>5 DEF Finish
  <2>6. CASE d_in_sync' = ~TooLong(len) /\ pub' = <<>>
    BY <2>6
  <2>7. QED
    BY <2>5, <2>6 DEF CaptureLength
<1>2. QED
  BY <1>1, TypeCorrect, PTL DEF SquelchIsFinal

-----------------------------------------------------------------------------
(* The search window, and the sync words found in it                       *)

\* The history variables restrict no step.
LEMMA HistoryStep == [HNext]_hvars => [Next]_vars
BY DEF HNext, hvars, HWork, HSearch, HCapture, Next

LEMMA HistorySpec == HSpec => Spec
BY HistoryStep, PTL DEF HSpec, HInit, Spec

\* push_back on a full buffer drops its first element.
LEMMA ShiftInFull ==
  ASSUME NEW buf \in Seq(Samples), NEW s \in Samples,
         Len(cfg.sync) \in Nat, Len(buf) = Len(cfg.sync)
  PROVE  /\ Len(ShiftIn(buf, s)) = Len(buf)
         /\ \A i \in 1..(Len(buf) - 1) : ShiftIn(buf, s)[i] = buf[i + 1]
         /\ Len(buf) > 0 => ShiftIn(buf, s)[Len(buf)] = s
<1> DEFINE all == Append(buf, s)
<1>1. /\ all \in Seq(Samples) /\ all # <<>> /\ Len(all) = Len(buf) + 1
      /\ \A i \in 1..Len(buf) : all[i] = buf[i]
      /\ all[Len(buf) + 1] = s
  BY AppendProperties
<1>2. ShiftIn(buf, s) = Tail(all)
  BY <1>1 DEF ShiftIn
<1>3. /\ Len(Tail(all)) = Len(buf)
      /\ \A i \in 1..Len(Tail(all)) : Tail(all)[i] = all[i + 1]
  BY <1>1, HeadTailProperties
<1>4. Len(buf) \in Nat
  BY LenProperties
<1>5. QED
  BY <1>1, <1>2, <1>3, <1>4

\* push_back on a buffer that is not full appends.
LEMMA ShiftInNotFull ==
  ASSUME NEW buf \in Seq(Samples), NEW s \in Samples,
         Len(cfg.sync) \in Nat, Len(buf) < Len(cfg.sync)
  PROVE  /\ ShiftIn(buf, s) = Append(buf, s)
         /\ Len(ShiftIn(buf, s)) = Len(buf) + 1
         /\ \A i \in 1..Len(buf) : ShiftIn(buf, s)[i] = buf[i]
         /\ ShiftIn(buf, s)[Len(buf) + 1] = s
<1>1. Len(buf) \in Nat
  BY LenProperties
<1>2. /\ Len(Append(buf, s)) = Len(buf) + 1
      /\ \A i \in 1..Len(buf) : Append(buf, s)[i] = buf[i]
      /\ Append(buf, s)[Len(buf) + 1] = s
  BY AppendProperties
<1>3. ShiftIn(buf, s) = Append(buf, s)
  BY <1>1, <1>2 DEF ShiftIn
<1>4. QED
  BY <1>2, <1>3

\* push_back never makes the buffer longer than the sync word.
LEMMA ShiftInBound ==
  ASSUME NEW buf \in Seq(Samples), NEW s \in Samples,
         Len(cfg.sync) \in Nat, Len(buf) <= Len(cfg.sync)
  PROVE  Len(ShiftIn(buf, s)) <= Len(cfg.sync)
<1>1. Len(buf) \in Nat
  BY LenProperties
<1>2. CASE Len(buf) = Len(cfg.sync)
  BY <1>1, <1>2, ShiftInFull
<1>3. CASE Len(buf) < Len(cfg.sync)
  BY <1>1, <1>3, ShiftInNotFull
<1>4. QED
  BY <1>1, <1>2, <1>3

\* A sample shifted into a window that still holds part of an earlier sync
\* word leaves one that does too, until the fresh samples fill it.
LEMMA OldThenFreshStep ==
  ASSUME NEW w \in Seq(Samples), NEW f \in Seq(Samples), NEW s \in Samples,
         cfg.sync \in Seq(Samples), OldThenFresh(w, f)
  PROVE  \/ ShiftIn(w, s) = ShiftIn(f, s)
         \/ OldThenFresh(ShiftIn(w, s), ShiftIn(f, s))
<1> DEFINE n == Len(cfg.sync)
           k == Len(f)
           w1 == ShiftIn(w, s)
           f1 == ShiftIn(f, s)
<1>1. n \in Nat /\ k \in Nat /\ k < n /\ Len(w) = n
  BY LenProperties DEF OldThenFresh
<1>2. /\ \A i \in 1..k : w[n - k + i] = f[i]
      /\ \A i \in 1..(n - k) : w[i] = cfg.sync[k + i]
  BY DEF OldThenFresh
<1>3. /\ w1 \in Seq(Samples) /\ Len(w1) = n
      /\ \A i \in 1..(n - 1) : w1[i] = w[i + 1]
      /\ w1[n] = s
  <2>1. w1 \in Seq(Samples)
    BY ShiftInType
  <2>2. /\ Len(w1) = Len(w)
        /\ \A i \in 1..(Len(w) - 1) : w1[i] = w[i + 1]
        /\ Len(w) > 0 => w1[Len(w)] = s
    BY <1>1, ShiftInFull
  <2>3. n \in Nat /\ n > 0 /\ Len(w) = n
    BY <1>1
  <2> HIDE DEF w1, n
  <2>4. QED
    BY <2>1, <2>2, <2>3
<1>4. /\ f1 \in Seq(Samples) /\ Len(f1) = k + 1
      /\ \A i \in 1..k : f1[i] = f[i]
      /\ f1[k + 1] = s
  BY <1>1, ShiftInNotFull, ShiftInType
<1> HIDE DEF w1, f1, n, k
<1>5. \A i \in 1..(k + 1) : w1[n - (k + 1) + i] = f1[i]
  <2> TAKE i \in 1..(k + 1)
  <2>1. CASE i = k + 1
    BY <1>1, <1>3, <1>4, <2>1
  <2>2. CASE i \in 1..k
    <3>1. n - (k + 1) + i \in 1..(n - 1) /\ n - (k + 1) + i + 1 = n - k + i
      BY <1>1, <2>2
    <3>2. w1[n - (k + 1) + i] = w[n - k + i]
      BY <1>3, <3>1
    <3>3. QED
      BY <1>2, <1>4, <2>2, <3>2
  <2>3. QED
    BY <1>1, <2>1, <2>2
<1>6. \A i \in 1..(n - (k + 1)) : w1[i] = cfg.sync[(k + 1) + i]
  <2> TAKE i \in 1..(n - (k + 1))
  <2>1. i \in 1..(n - 1) /\ i + 1 \in 1..(n - k) /\ k + (i + 1) = (k + 1) + i
    BY <1>1
  <2>2. QED
    BY <1>2, <1>3, <2>1
<1>7. CASE k + 1 < n
  <2>1. OldThenFresh(w1, f1)
    BY <1>1, <1>3, <1>4, <1>5, <1>6, <1>7 DEF OldThenFresh, n
  <2>2. QED
    BY <2>1 DEF w1, f1
<1>8. CASE k + 1 = n
  <2>1. \A i \in 1..Len(w1) : w1[i] = f1[i]
    BY <1>1, <1>3, <1>5, <1>8
  <2>2. w1 = f1
    BY <1>3, <1>4, <1>8, <2>1, SeqEqual
  <2>3. QED
    BY <2>2 DEF w1, f1
<1>9. QED
  BY <1>1, <1>7, <1>8

\* A window that still holds part of an earlier sync word can equal the sync
\* word only if the sync word has a border.
LEMMA OldThenFreshBorder ==
  ASSUME NEW f \in Seq(Samples), cfg.sync \in Seq(Samples), f # <<>>,
         OldThenFresh(cfg.sync, f)
  PROVE  ~Unbordered(cfg.sync)
<1> DEFINE n == Len(cfg.sync)
           k == Len(f)
           b == n - k
<1>1. n \in Nat /\ k \in Nat /\ 0 < k /\ k < n
  BY LenProperties, EmptySeq DEF OldThenFresh
<1>2. b \in 1..(n - 1) /\ n - b = k
  BY <1>1
<1>3. \A i \in 1..b : cfg.sync[i] = cfg.sync[n - b + i]
  BY <1>2 DEF OldThenFresh
<1>4. QED
  BY <1>2, <1>3 DEF Unbordered

\* A search step, with or without a match, keeps WindowInv.
LEMMA SearchWindow ==
  ASSUME TypeOK, WindowInv, NEW s \in Samples, HSearch(s)
  PROVE  WindowInv'
<1> DEFINE w1 == ShiftIn(d_search, s)
           f1 == ShiftIn(fresh, s)
<1>1. /\ alive /\ ~d_in_sync /\ cfg' = cfg
      /\ d_search' = w1 /\ fresh' = f1
      /\ ~d_in_sync' => w1 # cfg.sync
      /\ d_in_sync' => w1 = cfg.sync
  BY DEF HSearch, Hunt, FoundSync, NextSample
<1>2. /\ cfg.sync \in Seq(Samples) /\ Len(cfg.sync) \in Nat
      /\ d_search \in Seq(Samples) /\ fresh \in Seq(Samples)
  BY ConfigsAssumption, LenProperties DEF TypeOK, WindowInv
<1>3. /\ Len(d_search) <= Len(cfg.sync) /\ Len(fresh) <= Len(cfg.sync)
      /\ d_search = fresh \/ OldThenFresh(d_search, fresh)
  BY <1>1 DEF WindowInv
<1>4. /\ w1 \in Seq(Samples) /\ Len(w1) <= Len(cfg.sync)
      /\ f1 \in Seq(Samples) /\ Len(f1) <= Len(cfg.sync)
  BY <1>2, <1>3, ShiftInType, ShiftInBound
<1>5. w1 = f1 \/ OldThenFresh(w1, f1)
  <2>1. CASE d_search = fresh
    BY <2>1
  <2>2. CASE OldThenFresh(d_search, fresh)
    BY <1>2, <2>2, OldThenFreshStep
  <2>3. QED
    BY <1>3, <2>1, <2>2
<1>6. cfg.sync # <<>> => f1 # <<>>
  <2>1. CASE Len(fresh) < Len(cfg.sync)
    BY <1>2, <2>1, ShiftInNotFull, AppendProperties
  <2>2. CASE Len(fresh) = Len(cfg.sync)
    BY <1>2, <2>2, ShiftInFull, EmptySeq
  <2>3. Len(fresh) \in Nat
    BY <1>2, LenProperties
  <2>4. QED
    BY <1>2, <1>3, <2>1, <2>2, <2>3
<1>7. ASSUME cfg.sync # <<>>, Unbordered(cfg.sync)
      PROVE  w1 = cfg.sync <=> f1 = cfg.sync
  <2>1. CASE w1 = f1
    BY <2>1
  <2>2. CASE OldThenFresh(w1, f1)
    <3>1. w1 # cfg.sync
      BY <1>2, <1>4, <1>6, <1>7, <2>2, OldThenFreshBorder
    <3>2. f1 # cfg.sync
      BY <1>2, <2>2 DEF OldThenFresh
    <3>3. QED
      BY <3>1, <3>2
  <2>3. QED
    BY <1>5, <2>1, <2>2
<1> HIDE DEF w1, f1
<1>8. GenuineSync'
  <2> SUFFICES ASSUME cfg.sync # <<>>, Unbordered(cfg.sync)
               PROVE  d_in_sync' <=> f1 = cfg.sync
    BY <1>1 DEF GenuineSync, Unbordered
  <2>1. w1 = cfg.sync <=> f1 = cfg.sync
    BY <1>7
  <2>2. QED
    BY <1>1, <2>1
<1>9. OldThenFresh(w1, f1) => OldThenFresh(d_search, fresh)'
  BY <1>1 DEF OldThenFresh
<1>10. QED
  BY <1>1, <1>4, <1>5, <1>8, <1>9 DEF WindowInv

\* A capture step, the packet going on or ending, keeps WindowInv.
LEMMA CaptureWindow ==
  ASSUME TypeOK, WindowInv, NEW s \in Samples, HCapture(s)
  PROVE  WindowInv'
<1>1. Store(s)
  BY DEF HCapture, Capture, CaptureHeader, CaptureLengthBit, CaptureLength,
         CaptureBody
<1>2. alive /\ d_in_sync /\ cfg' = cfg /\ d_search' = d_search
  BY <1>1 DEF Store, NextSample
<1>3. d_search = cfg.sync /\ GenuineSync
  BY <1>2 DEF WindowInv
<1>4. cfg.sync \in Seq(Samples) /\ Len(cfg.sync) \in Nat
  BY ConfigsAssumption, LenProperties DEF TypeOK
<1>5. fresh' = IF d_in_sync' THEN fresh ELSE <<>>
  BY DEF HCapture
<1>6. fresh' \in Seq(Samples) /\ Len(fresh') <= Len(cfg.sync)
  BY <1>4, <1>5 DEF WindowInv
<1>7. CASE d_in_sync'
  <2>1. GenuineSync'
    BY <1>2, <1>3, <1>5, <1>7 DEF GenuineSync, Unbordered
  <2>2. QED
    BY <1>2, <1>3, <1>4, <1>6, <1>7, <2>1 DEF WindowInv
<1>8. CASE ~d_in_sync'
  <2>1. fresh' = <<>>
    BY <1>5, <1>8
  <2>2. GenuineSync'
    BY <1>2, <1>8, <2>1 DEF GenuineSync
  <2>3. d_search' = fresh' \/ OldThenFresh(d_search, fresh)'
    <3>1. CASE cfg.sync = <<>>
      BY <1>2, <1>3, <2>1, <3>1
    <3>2. CASE cfg.sync # <<>>
      <4>1. Len(cfg.sync) > 0 /\ Len(fresh') = 0
        BY <1>4, <2>1, <3>2, EmptySeq
      <4>2. QED
        BY <1>2, <1>3, <1>4, <4>1 DEF OldThenFresh
    <3>3. QED
      BY <3>1, <3>2
  <2>4. QED
    BY <1>2, <1>3, <1>4, <1>6, <1>8, <2>2, <2>3 DEF WindowInv
<1>9. QED
  BY <1>7, <1>8

\* Every step keeps WindowInv.
LEMMA WindowStep == TypeOK /\ WindowInv /\ [HNext]_hvars => WindowInv'
<1> SUFFICES ASSUME TypeOK, WindowInv, [HNext]_hvars PROVE WindowInv'
  OBVIOUS
<1>1. ASSUME UNCHANGED <<cfg, d_search, d_in_sync, alive, fresh>>
      PROVE  WindowInv'
  BY <1>1 DEF WindowInv, GenuineSync, OldThenFresh, Unbordered
<1>2. ASSUME NEW n \in 1..MaxWork, HWork(n) PROVE WindowInv'
  BY <1>1, <1>2 DEF HWork, Work
<1>3. ASSUME NEW s \in Samples, HSearch(s) PROVE WindowInv'
  BY <1>3, SearchWindow
<1>4. ASSUME NEW s \in Samples, HCapture(s) PROVE WindowInv'
  BY <1>4, CaptureWindow
<1>5. CASE UNCHANGED hvars
  BY <1>1, <1>5 DEF hvars, vars
<1>6. QED
  BY <1>2, <1>3, <1>4, <1>5 DEF HNext

\* The search window, in relation to the stream, is what WindowInv says.
THEOREM WindowIsSound == HSpec => []WindowInv
<1>1. HInit => WindowInv
  <2> SUFFICES ASSUME HInit PROVE WindowInv
    OBVIOUS
  <2>1. cfg.sync \in Seq(Samples)
    BY ConfigsAssumption DEF HInit, Init
  <2>2. /\ fresh = <<>> /\ d_search = <<>> /\ ~d_in_sync
        /\ Len(fresh) <= Len(cfg.sync)
    BY <2>1, LenProperties, EmptySeq DEF HInit, Init
  <2>3. QED
    BY <2>1, <2>2 DEF WindowInv, GenuineSync
<1>2. HSpec => []TypeOK
  BY HistorySpec, TypeCorrect, PTL
<1>3. QED
  BY <1>1, <1>2, WindowStep, PTL DEF HSpec

\* A packet is captured exactly when the sync word has just been found among
\* the samples searched since the last packet, if the sync word has no border.
THEOREM SyncIsGenuine == HSpec => []GenuineSync
<1>1. WindowInv => GenuineSync
  BY DEF WindowInv
<1>2. QED
  BY <1>1, WindowIsSound, PTL

-----------------------------------------------------------------------------
(* The refinement of FrameSpec                                             *)

\* The samples of a block that reads lengths have no bits but the one of data.
HardBits == Samples \subseteq {0, 1} \/ \A c \in Configs : c.fixed_len

-----------------------------------------------------------------------------
(* The number that the bits of the length byte make                        *)

\* Value is what its recursive definition says.
LEMMA ValueDefined ==
  ASSUME NEW b \in Seq(Nat)
  PROVE  \E v \in [0..Len(b) -> Nat] :
            /\ v[0] = 0
            /\ \A i \in 1..Len(b) : v[i] = 2 * v[i - 1] + (b[i] % 2)
            /\ Abstract!Value(b) = v[Len(b)]
<1> DEFINE n == Len(b)
           step == [p \in (1..n) \X Nat |-> 2 * p[2] + (b[p[1]] % 2)]
           V(f) == f = [i \in 0..n |-> IF i = 0 THEN 0 ELSE 2 * f[i - 1] + (b[i] % 2)]
           v == CHOOSE f : V(f)
<1>1. n \in Nat /\ \A i \in 1..n : b[i] \in Nat
  BY LenProperties, ElementOfSeq
<1>2. step \in [(1..n) \X Nat -> Nat]
  BY <1>1
<1>3. \A i \in 1..n, x \in Nat : step[<<i, x>>] = 2 * x + (b[i] % 2)
  OBVIOUS
<1> HIDE DEF step, n
<1>4. PICK f : Recurses(f, n, Nat, 0, step)
  BY <1>1, <1>2, RecursionExists
<1>5. V(f)
  <2>1. ASSUME NEW i \in 1..n PROVE f[i] = 2 * f[i - 1] + (b[i] % 2)
    <3>1. i - 1 \in 0..n
      BY <1>1
    <3>2. QED
      BY <1>3, <1>4, <3>1 DEF Recurses
  <2>2. f = [i \in 0..n |-> f[i]] /\ f[0] = 0
    BY <1>4 DEF Recurses
  <2>3. ASSUME NEW i \in 0..n
        PROVE  f[i] = IF i = 0 THEN 0 ELSE 2 * f[i - 1] + (b[i] % 2)
    <3>1. i = 0 \/ i \in 1..n
      BY <1>1
    <3>2. QED
      BY <2>1, <2>2, <3>1
  <2>4. QED
    BY <2>2, <2>3
<1>6. V(v)
  BY <1>5
<1>7. Abstract!Value(b) = v[n]
  BY DEF Abstract!Value, Abstract!Lsb, n
<1> HIDE DEF v
<1>8. v = [i \in 0..n |-> v[i]]
  BY <1>6
<1>9. v[0] = 0 /\ \A i \in 1..n : v[i] = 2 * v[i - 1] + (b[i] % 2)
  BY <1>1, <1>6
<1>10. v \in [0..n -> Nat]
  <2> DEFINE P == {i \in 0..n : v[i] \in Nat}
  <2>1. 0 \in P
    BY <1>1, <1>9
  <2>2. ASSUME NEW i \in 1..n, i - 1 \in P PROVE i \in P
    <3>1. v[i - 1] \in Nat /\ b[i] \in Nat
      BY <1>1, <2>2
    <3>2. v[i] \in Nat
      BY <1>1, <1>9, <3>1
    <3>3. QED
      BY <1>1, <3>2
  <2> HIDE DEF P
  <2>3. \A i \in 0..n : i \in P
    BY <1>1, <2>1, <2>2, UpTo
  <2>4. \A i \in 0..n : v[i] \in Nat
    BY <2>3 DEF P
  <2> HIDE DEF V
  <2>5. QED
    BY <1>8, <2>4
<1>11. QED
  BY <1>7, <1>9, <1>10 DEF n

\* One more bit doubles the number and is added to it.
LEMMA ValueProperties ==
  ASSUME NEW b \in Seq(Nat), NEW s \in Nat
  PROVE  /\ Abstract!Value(b) \in Nat
         /\ Abstract!Value(Append(b, s)) = 2 * Abstract!Value(b) + (s % 2)
<1> DEFINE n == Len(b)
           c == Append(b, s)
<1>1. /\ c \in Seq(Nat) /\ Len(c) = n + 1 /\ n \in Nat
      /\ c[n + 1] = s /\ \A i \in 1..n : c[i] = b[i]
  BY AppendProperties, LenProperties
<1>2. PICK v \in [0..n -> Nat] :
        /\ v[0] = 0
        /\ \A i \in 1..n : v[i] = 2 * v[i - 1] + (b[i] % 2)
        /\ Abstract!Value(b) = v[n]
  BY ValueDefined
<1>3. PICK w \in [0..(n + 1) -> Nat] :
        /\ w[0] = 0
        /\ \A i \in 1..(n + 1) : w[i] = 2 * w[i - 1] + (c[i] % 2)
        /\ Abstract!Value(c) = w[n + 1]
  <2>1. \E w \in [0..Len(c) -> Nat] :
        /\ w[0] = 0
        /\ \A i \in 1..Len(c) : w[i] = 2 * w[i - 1] + (c[i] % 2)
        /\ Abstract!Value(c) = w[Len(c)]
    BY <1>1, ValueDefined
  <2>2. QED
    BY <1>1, <2>1
<1> HIDE DEF n, c
<1>4. w[n] = v[n]
  <2> DEFINE P == {i \in 0..n : w[i] = v[i]}
  <2>1. 0 \in P
    BY <1>1, <1>2, <1>3
  <2>2. ASSUME NEW i \in 1..n, i - 1 \in P PROVE i \in P
    <3>1. w[i - 1] = v[i - 1]
      BY <2>2
    <3>2. c[i] = b[i] /\ i \in 1..(n + 1) /\ i \in 0..n
      BY <1>1
    <3>3. w[i] = v[i]
      BY <1>2, <1>3, <3>1, <3>2
    <3>4. QED
      BY <3>2, <3>3
  <2> HIDE DEF P
  <2>3. \A i \in 0..n : i \in P
    BY <1>1, <2>1, <2>2, UpTo
  <2>4. n \in 0..n
    BY <1>1
  <2>5. n \in P
    BY <2>3, <2>4
  <2>6. QED
    BY <2>5 DEF P
<1>5. v[n] \in Nat
  BY <1>1
<1>6. w[n + 1] = 2 * w[n] + (c[n + 1] % 2)
  <2>1. n + 1 \in 1..(n + 1) /\ (n + 1) - 1 = n
    BY <1>1
  <2>2. w[n + 1] = 2 * w[(n + 1) - 1] + (c[n + 1] % 2)
    BY <1>3, <2>1
  <2>3. QED
    BY <2>1, <2>2
<1>7. QED
  BY <1>1, <1>2, <1>3, <1>4, <1>5, <1>6 DEF c

\* Nothing has been read yet.
LEMMA ValueOfNothing == Abstract!Value(<<>>) = 0
<1> DEFINE b == <<>>
<1>1. b \in Seq(Nat) /\ Len(b) = 0
  BY EmptySeq
<1> HIDE DEF b
<1>2. PICK v \in [0..Len(b) -> Nat] : v[0] = 0 /\ Abstract!Value(b) = v[Len(b)]
  BY <1>1, ValueDefined
<1>3. Abstract!Value(b) = 0
  BY <1>1, <1>2
<1>4. QED
  BY <1>3 DEF b

-----------------------------------------------------------------------------
(* Packing                                                                 *)

\* Shifting a bit in moves every bit up by one.
LEMMA ShiftBitShifts ==
  ASSUME NEW byte \in Byte, NEW s \in Samples
  PROVE  /\ \A j \in 1..(ByteBits - 1) : ShiftBit(byte, s)[j] = byte[j + 1]
         /\ ShiftBit(byte, s)[ByteBits] = s % 2
         /\ ShiftBit(byte, s) \in [1..ByteBits -> {0, 1}]
<1>1. s % 2 \in {0, 1}
  BY SamplesAssumption
<1>2. byte \in Seq({0, 1}) /\ Len(byte) = ByteBits /\ byte # <<>>
  BY ByteBitsAssumption, EmptySeq DEF Byte
<1> DEFINE t == Tail(byte)
<1>3. /\ t \in Seq({0, 1}) /\ Len(t) = ByteBits - 1
      /\ \A j \in 1..(ByteBits - 1) : t[j] = byte[j + 1]
  BY <1>2, HeadTailProperties
<1> HIDE DEF t
<1>4. /\ \A j \in 1..(ByteBits - 1) : Append(t, s % 2)[j] = t[j]
      /\ Append(t, s % 2)[(ByteBits - 1) + 1] = s % 2
  BY <1>1, <1>3, AppendProperties
<1>5. (ByteBits - 1) + 1 = ByteBits
  BY ByteBitsAssumption
<1>6. ShiftBit(byte, s) = Append(t, s % 2)
  BY DEF ShiftBit, t
<1>7. ShiftBit(byte, s) \in Byte
  BY ShiftBitType
<1>8. QED
  BY <1>3, <1>4, <1>5, <1>6, <1>7 DEF Byte

\* A number of bits is so many bytes and so many bits left over.
LEMMA BitsInBytes ==
  \A n \in Nat : /\ n \div ByteBits \in Nat
                 /\ n % ByteBits \in 0..(ByteBits - 1)
                 /\ n = ((n \div ByteBits) * ByteBits) + (n % ByteBits)
                 /\ n % ByteBits <= n
                 /\ (n \div ByteBits) * ByteBits <= n
<1> TAKE n \in Nat
<1> DEFINE b == ByteBits
<1>1. b \in Nat \ {0}
  BY ByteBitsAssumption
<1> HIDE DEF b
<1>2. /\ n \div b \in Nat
      /\ n % b \in 0..(b - 1)
      /\ n = (n \div b) * b + (n % b)
  BY <1>1, DivMod
<1>3. (n \div b) * b \in Nat
  BY <1>1, <1>2
<1>4. (n \div b) * b <= n /\ n % b <= n
  BY <1>1, <1>2, <1>3
<1>5. QED
  BY <1>2, <1>4 DEF b

\* Appending a sample to a frame.
LEMMA Longer ==
  ASSUME NEW f \in Seq(Samples), NEW s \in Samples
  PROVE  /\ Append(f, s) \in Seq(Samples)
         /\ Len(f) \in Nat /\ Len(Append(f, s)) = Len(f) + 1
         /\ \A i \in 1..Len(f) : Append(f, s)[i] = f[i]
         /\ Append(f, s)[Len(f) + 1] = s
BY AppendProperties, LenProperties

\* A bit that does not complete a byte is shifted in behind those before it.
LEMMA PartialByte ==
  ASSUME NEW f \in Seq(Samples), NEW s \in Samples, NEW byte \in Byte,
         EndsWith(byte, f), Len(Append(f, s)) % ByteBits # 0
  PROVE  EndsWith(ShiftBit(byte, s), Append(f, s))
<1> DEFINE n == Len(f)
           r == n % ByteBits
           g == Append(f, s)
           new == ShiftBit(byte, s)
<1>1. /\ n \in Nat /\ Len(g) = n + 1
      /\ \A i \in 1..n : g[i] = f[i]
      /\ g[n + 1] = s
  BY Longer
<1>2. /\ (n + 1) % ByteBits = r + 1 /\ r \in 0..(ByteBits - 1) /\ r <= n
      /\ r + 1 < ByteBits /\ ByteBits \in Nat
  <2>1. n % ByteBits \in 0..(ByteBits - 1) /\ (n + 1) % ByteBits \in 0..(ByteBits - 1)
    BY <1>1, BitsInBytes
  <2>2. (n + 1) % ByteBits # 0
    BY <1>1
  <2>3. (n + 1) % ByteBits = (n % ByteBits) + 1
    BY <1>1, <2>2, CountOn, ByteBitsAssumption
  <2>4. n % ByteBits <= n
    BY <1>1, BitsInBytes
  <2>5. QED
    BY <2>1, <2>3, <2>4, ByteBitsAssumption
<1>3. /\ \A j \in 1..(ByteBits - 1) : new[j] = byte[j + 1]
      /\ new[ByteBits] = s % 2
  BY ShiftBitShifts
<1>4. \A j \in 1..r : byte[ByteBits - r + j] = f[n - r + j] % 2
  BY DEF EndsWith
<1> HIDE DEF n, r, g, new
<1>5. ASSUME NEW j \in 1..(r + 1)
      PROVE  new[ByteBits - (r + 1) + j] = g[(n + 1) - (r + 1) + j] % 2
  <2>1. CASE j = r + 1
    <3>1. ByteBits - (r + 1) + j = ByteBits /\ (n + 1) - (r + 1) + j = n + 1
      BY <1>1, <1>2, <2>1
    <3>2. QED
      BY <1>1, <1>3, <3>1
  <2>2. CASE j \in 1..r
    <3>1. /\ ByteBits - (r + 1) + j \in 1..(ByteBits - 1)
          /\ (ByteBits - (r + 1) + j) + 1 = ByteBits - r + j
          /\ (n + 1) - (r + 1) + j = n - r + j
          /\ n - r + j \in 1..n
      BY <1>1, <1>2, <2>2
    <3>2. new[ByteBits - (r + 1) + j] = byte[ByteBits - r + j]
      BY <1>3, <3>1
    <3>3. g[(n + 1) - (r + 1) + j] = f[n - r + j]
      BY <1>1, <3>1
    <3>4. QED
      BY <1>4, <2>2, <3>2, <3>3
  <2>3. QED
    BY <1>2, <2>1, <2>2
<1>6. \A j \in 1..(Len(g) % ByteBits) :
        new[ByteBits - (Len(g) % ByteBits) + j]
          = g[Len(g) - (Len(g) % ByteBits) + j] % 2
  BY <1>1, <1>2, <1>5
<1>7. EndsWith(new, g)
  BY <1>6 DEF EndsWith
<1>8. QED
  BY <1>7 DEF new, g

\* The bit that completes a byte leaves the last byte of the frame, whole.
LEMMA WholeByte ==
  ASSUME NEW f \in Seq(Samples), NEW s \in Samples, NEW byte \in Byte,
         EndsWith(byte, f), Len(Append(f, s)) % ByteBits = 0
  PROVE  ShiftBit(byte, s)
           = Abstract!ByteAt(Append(f, s), Len(Append(f, s)) \div ByteBits)
<1> DEFINE n == Len(f)
           q == (n + 1) \div ByteBits
           g == Append(f, s)
           new == ShiftBit(byte, s)
<1>1. /\ n \in Nat /\ Len(g) = n + 1
      /\ \A i \in 1..n : g[i] = f[i]
      /\ g[n + 1] = s
  BY Longer
<1>2. /\ n % ByteBits = ByteBits - 1 /\ ByteBits \in Nat \ {0}
      /\ q \in Nat /\ n + 1 = q * ByteBits
  <2>1. (n + 1) % ByteBits = 0
    BY <1>1
  <2>2. n % ByteBits = ByteBits - 1
    BY <1>1, <2>1, CountOn, ByteBitsAssumption
  <2>3. n + 1 = (((n + 1) \div ByteBits) * ByteBits) + ((n + 1) % ByteBits)
        /\ (n + 1) \div ByteBits \in Nat
    <3>1. n + 1 \in Nat
      BY <1>1
    <3>2. QED
      BY <3>1, BitsInBytes
  <2>4. QED
    BY <2>1, <2>2, <2>3, ByteBitsAssumption
<1>3. /\ \A j \in 1..(ByteBits - 1) : new[j] = byte[j + 1]
      /\ new[ByteBits] = s % 2
      /\ new \in [1..ByteBits -> {0, 1}]
  BY ShiftBitShifts
<1>4. \A j \in 1..(ByteBits - 1) :
        byte[ByteBits - (ByteBits - 1) + j] = f[n - (ByteBits - 1) + j] % 2
  BY <1>2 DEF EndsWith
<1> HIDE DEF n, q, g, new
<1>5. (q - 1) * ByteBits = (n + 1) - ByteBits /\ (n + 1) - ByteBits \in Nat
  <2>1. q # 0
    BY <1>1, <1>2
  <2>2. q >= 1 /\ (q - 1) * ByteBits = q * ByteBits - ByteBits
    BY <1>2, <2>1
  <2>3. (q - 1) * ByteBits \in Nat
    BY <1>2, <2>2
  <2>4. QED
    BY <1>2, <2>2, <2>3
<1>6. ASSUME NEW j \in 1..ByteBits
      PROVE  new[j] = g[((n + 1) - ByteBits) + j] % 2
  <2>1. CASE j = ByteBits
    <3>1. ((n + 1) - ByteBits) + j = n + 1
      BY <1>1, <1>2, <2>1
    <3>2. QED
      BY <1>1, <1>3, <2>1, <3>1
  <2>2. CASE j \in 1..(ByteBits - 1)
    <3>1. /\ ByteBits - (ByteBits - 1) + j = j + 1
          /\ n - (ByteBits - 1) + j = ((n + 1) - ByteBits) + j
          /\ ((n + 1) - ByteBits) + j \in 1..n
      BY <1>1, <1>2, <1>5, <2>2
    <3>2. new[j] = byte[j + 1]
      BY <1>3, <2>2
    <3>3. byte[j + 1] = f[((n + 1) - ByteBits) + j] % 2
      BY <1>4, <2>2, <3>1
    <3>4. g[((n + 1) - ByteBits) + j] = f[((n + 1) - ByteBits) + j]
      BY <1>1, <3>1
    <3>5. QED
      BY <3>2, <3>3, <3>4
  <2>3. QED
    BY <1>2, <2>1, <2>2
<1>7. Abstract!ByteAt(g, q) = [j \in 1..ByteBits |-> g[((n + 1) - ByteBits) + j] % 2]
  BY <1>5 DEF Abstract!ByteAt, Abstract!Lsb
<1>8. new = Abstract!ByteAt(g, q)
  BY <1>3, <1>6, <1>7
<1>9. QED
  BY <1>1, <1>8 DEF new, g, q

\* The bytes that a frame has are those of any longer one.
LEMMA BytesStay ==
  ASSUME NEW f \in Seq(Samples), NEW s \in Samples,
         NEW i \in 1..(Len(f) \div ByteBits)
  PROVE  Abstract!ByteAt(Append(f, s), i) = Abstract!ByteAt(f, i)
<1> DEFINE n == Len(f)
           q == n \div ByteBits
<1>1. n \in Nat /\ \A k \in 1..n : Append(f, s)[k] = f[k]
  BY Longer
<1>2. q \in Nat /\ q * ByteBits <= n /\ ByteBits \in Nat \ {0}
  BY <1>1, BitsInBytes, ByteBitsAssumption
<1> HIDE DEF n, q
<1>3. i \in 1..q
  BY DEF q, n
<1>4. ASSUME NEW j \in 1..ByteBits
      PROVE  (i - 1) * ByteBits + j \in 1..n
  <2>1. (i - 1) * ByteBits = i * ByteBits - ByteBits /\ i * ByteBits <= q * ByteBits
    BY <1>2, <1>3
  <2>2. (i - 1) * ByteBits \in Nat /\ i * ByteBits \in Nat /\ q * ByteBits \in Nat
    BY <1>2, <1>3
  <2>3. QED
    BY <1>1, <1>2, <2>1, <2>2
<1>5. QED
  BY <1>1, <1>4 DEF Abstract!ByteAt, Abstract!Lsb

\* What FrameSpec publishes of a frame: its samples, or its whole bytes.
LEMMA MessageData ==
  ASSUME NEW f
  PROVE  /\ ~cfg.pack_bytes => Abstract!Message(f).data = f
         /\ cfg.pack_bytes =>
              Abstract!Message(f).data
                = [i \in 1..(Len(f) \div ByteBits) |-> Abstract!ByteAt(f, i)]
BY DEF Abstract!Message

\* A step that stores a sample keeps FrameHeld.
LEMMA StoreHeld ==
  ASSUME TypeOK, FrameHeld, NEW s \in Samples, Store(s),
         frame' = Append(frame, s)
  PROVE  FrameHeld'
<1> DEFINE f == frame
           g == Append(f, s)
<1>1. /\ cfg' = cfg /\ d_rx_bit_cnt' = d_rx_bit_cnt + 1
      /\ f \in Seq(Samples) /\ d_rx_bit_cnt = Len(f)
      /\ d_packet = Abstract!Message(f).data
      /\ cfg.pack_bytes => EndsWith(d_tmp_byte, f)
  BY DEF Store, NextSample, FrameHeld
<1>2. /\ g \in Seq(Samples) /\ Len(f) \in Nat /\ Len(g) = Len(f) + 1
  BY <1>1, Longer
<1>3. d_rx_bit_cnt' = Len(g)
  BY <1>1, <1>2
<1>4. /\ d_packet' = Abstract!Message(g).data
      /\ cfg.pack_bytes => EndsWith(d_tmp_byte', g)
  <2>1. CASE ~cfg.pack_bytes
    <3>1. d_packet' = Append(d_packet, s) /\ d_packet = f
      BY <1>1, <2>1, MessageData DEF Store
    <3>2. QED
      BY <2>1, <3>1, MessageData
  <2>2. CASE cfg.pack_bytes
    <3> DEFINE q == Len(f) \div ByteBits
               bytes == [i \in 1..q |-> Abstract!ByteAt(f, i)]
    <3>1. d_packet = bytes /\ EndsWith(d_tmp_byte, f) /\ d_tmp_byte \in Byte
      BY <1>1, <2>2, MessageData DEF TypeOK
    <3>2. Abstract!Message(g).data
            = [i \in 1..(Len(g) \div ByteBits) |-> Abstract!ByteAt(g, i)]
      BY <2>2, MessageData
    <3>3. q \in Nat
      BY <1>2, BitsInBytes
    <3>4. \A i \in 1..q : Abstract!ByteAt(g, i) = Abstract!ByteAt(f, i)
      BY <1>1, BytesStay
    <3>5. CASE Len(g) % ByteBits = 0
      <4> DEFINE b == ShiftBit(d_tmp_byte, s)
      <4>1. d_packet' = Append(d_packet, b)
        BY <1>3, <2>2, <3>5 DEF Store
      <4>2. b = Abstract!ByteAt(g, Len(g) \div ByteBits)
        BY <1>1, <3>1, <3>5, WholeByte
      <4>3. Len(g) \div ByteBits = q + 1
        BY <1>2, <3>5, CountOn, ByteBitsAssumption
      <4>4. bytes \in Seq(Byte)
        BY <2>2, <3>1 DEF TypeOK
      <4>5. b \in Byte
        BY <3>1, ShiftBitType
      <4> HIDE DEF q, b
      <4>6. Len(bytes) = q
        BY <3>3
      <4> HIDE DEF bytes
      <4>7. /\ Append(bytes, b) \in Seq(Byte) /\ Len(Append(bytes, b)) = q + 1
            /\ \A i \in 1..q : Append(bytes, b)[i] = bytes[i]
            /\ Append(bytes, b)[q + 1] = b
        BY <4>4, <4>5, <4>6, AppendProperties
      <4>8. \A i \in 1..(q + 1) : Append(bytes, b)[i] = Abstract!ByteAt(g, i)
        <5> TAKE i \in 1..(q + 1)
        <5>1. CASE i = q + 1
          BY <4>2, <4>3, <4>7, <5>1
        <5>2. CASE i \in 1..q
          BY <3>4, <4>7, <5>2 DEF bytes
        <5>3. i = q + 1 \/ i \in 1..q
          BY <3>3
        <5> HIDE DEF g
        <5>4. QED
          BY <5>1, <5>2, <5>3
      <4>9. Append(bytes, b) = [i \in 1..(q + 1) |-> Append(bytes, b)[i]]
        BY <3>3, <4>7, LenProperties
      <4>10. Append(bytes, b) = [i \in 1..(q + 1) |-> Abstract!ByteAt(g, i)]
        BY <4>8, <4>9
      <4>11. d_packet' = Abstract!Message(g).data
        BY <3>1, <3>2, <4>1, <4>3, <4>10
      <4>12. EndsWith(d_tmp_byte', g)
        BY <3>5 DEF EndsWith
      <4>13. QED
        BY <4>11, <4>12
    <3>6. CASE Len(g) % ByteBits # 0
      <4>1. d_packet' = d_packet /\ d_tmp_byte' = ShiftBit(d_tmp_byte, s)
        BY <1>3, <2>2, <3>6 DEF Store
      <4>2. Len(g) \div ByteBits = q
        BY <1>2, <3>6, CountOn, ByteBitsAssumption
      <4>3. bytes = [i \in 1..q |-> Abstract!ByteAt(g, i)]
        BY <3>4
      <4>4. EndsWith(ShiftBit(d_tmp_byte, s), g)
        BY <1>1, <3>1, <3>6, PartialByte
      <4>5. QED
        BY <3>1, <3>2, <4>1, <4>2, <4>3, <4>4
    <3>7. QED
      BY <3>5, <3>6
  <2>3. QED
    BY <2>1, <2>2
<1>5. Abstract!Message(g).data = (Abstract!Message(frame).data)'
  BY <1>1 DEF Abstract!Message, Abstract!ByteAt, Abstract!Lsb
<1>6. EndsWith(d_tmp_byte', g) = EndsWith(d_tmp_byte, frame)'
  BY DEF EndsWith
<1> HIDE DEF g
<1>7. QED
  BY <1>1, <1>2, <1>3, <1>4, <1>5, <1>6 DEF FrameHeld, g

-----------------------------------------------------------------------------
(* The length of a frame                                                   *)

\* Where the length byte ends, and where it begins.
LEMMA HeaderEnd ==
  ASSUME TypeOK
  PROVE  /\ OffsetBits \in Nat /\ LengthEnd \in Nat
         /\ LengthEnd = OffsetBits + ByteBits /\ OffsetBits < LengthEnd
         /\ Abstract!HeaderBits = LengthEnd
         /\ (Abstract!HeaderBits - ByteBits) + 1 = OffsetBits + 1
<1> DEFINE o == cfg.pkt_len_offset
           b == ByteBits
<1>1. o \in Nat /\ b \in Nat \ {0}
  BY ConfigsAssumption, ByteBitsAssumption DEF TypeOK
<1> HIDE DEF o, b
<1>2. b * (o + 1) = o * b + b /\ o * b \in Nat
  BY <1>1
<1>3. OffsetBits = o * b /\ LengthEnd = o * b + b /\ Abstract!HeaderBits = b * (o + 1)
  BY DEF OffsetBits, LengthEnd, Abstract!HeaderBits, o, b
<1> HIDE DEF OffsetBits, LengthEnd
<1>4. QED
  BY <1>1, <1>2, <1>3 DEF b

\* The samples read of the length byte are numbers.
LEMMA LengthPart ==
  ASSUME NEW f \in Seq(Samples), NEW o \in Nat, NEW n \in Nat, n <= Len(f)
  PROVE  /\ SubSeq(f, o + 1, n) \in Seq(Nat)
         /\ Len(SubSeq(f, o + 1, n)) = IF o + 1 <= n THEN n - o ELSE 0
         /\ \A i \in 1..(n - o) : SubSeq(f, o + 1, n)[i] = f[o + i]
<1>1. \A i \in (o + 1)..n : f[i] \in Nat
  <2> TAKE i \in (o + 1)..n
  <2>1. i \in 1..Len(f)
    BY LenProperties
  <2>2. f[i] \in Samples
    BY <2>1, ElementOfSeq
  <2>3. f[i] \in 0..3
    BY <2>2, SamplesAssumption
  <2>4. QED
    BY <2>3
<1> DEFINE m == o + 1
           l == SubSeq(f, m, n)
<1>2. m \in Int /\ n \in Int /\ n - m + 1 = n - o
  OBVIOUS
<1>3. /\ l \in Seq(Nat)
      /\ Len(l) = IF m <= n THEN n - m + 1 ELSE 0
      /\ \A i \in 1..(n - m + 1) : l[i] = f[m + i - 1]
  <2> HIDE DEF m
  <2>1. \A i \in m..n : f[i] \in Nat
    BY <1>1 DEF m
  <2>2. QED
    BY <1>2, <2>1, SubSeqProperties
<1>4. \A i \in 1..(n - o) : m + i - 1 = o + i
  OBVIOUS
<1> HIDE DEF l
<1>5. /\ Len(l) = IF o + 1 <= n THEN n - o ELSE 0
      /\ \A i \in 1..(n - o) : l[i] = f[o + i]
  BY <1>2, <1>3, <1>4
<1>6. QED
  BY <1>3, <1>5 DEF l

\* One more sample of the length byte.
LEMMA LengthPartStep ==
  ASSUME NEW f \in Seq(Samples), NEW s \in Samples, NEW o \in Nat, o <= Len(f)
  PROVE  SubSeq(Append(f, s), o + 1, Len(f) + 1)
           = Append(SubSeq(f, o + 1, Len(f)), s)
<1> DEFINE n == Len(f)
           g == Append(f, s)
           old == SubSeq(f, o + 1, n)
           new == SubSeq(g, o + 1, n + 1)
<1>1. /\ g \in Seq(Samples) /\ n \in Nat /\ Len(g) = n + 1
      /\ \A i \in 1..n : g[i] = f[i]
      /\ g[n + 1] = s /\ n + 1 \in Nat /\ s \in Nat
  BY Longer, SamplesAssumption
<1>2. /\ old \in Seq(Nat) /\ Len(old) = n - o
      /\ \A i \in 1..(n - o) : old[i] = f[o + i]
  <2>1. n <= Len(f)
    BY <1>1
  <2>2. /\ old \in Seq(Nat)
        /\ Len(old) = IF o + 1 <= n THEN n - o ELSE 0
        /\ \A i \in 1..(n - o) : old[i] = f[o + i]
    <3> HIDE DEF n
    <3>1. QED
      BY <1>1, <2>1, LengthPart
  <2>3. QED
    BY <1>1, <2>2
<1>3. /\ new \in Seq(Nat) /\ Len(new) = (n + 1) - o
      /\ \A i \in 1..((n + 1) - o) : new[i] = g[o + i]
  <2> DEFINE n1 == n + 1
  <2>1. n1 \in Nat /\ n1 <= Len(g) /\ o + 1 <= n1
    BY <1>1
  <2> HIDE DEF n1, g
  <2>2. /\ SubSeq(g, o + 1, n1) \in Seq(Nat)
        /\ Len(SubSeq(g, o + 1, n1)) = IF o + 1 <= n1 THEN n1 - o ELSE 0
        /\ \A i \in 1..(n1 - o) : SubSeq(g, o + 1, n1)[i] = g[o + i]
    BY <1>1, <2>1, LengthPart
  <2>3. QED
    BY <2>1, <2>2 DEF n1
<1> HIDE DEF n, g, old, new
<1>4. /\ Append(old, s) \in Seq(Nat) /\ Len(Append(old, s)) = (n - o) + 1
      /\ \A i \in 1..(n - o) : Append(old, s)[i] = old[i]
      /\ Append(old, s)[(n - o) + 1] = s
  BY <1>1, <1>2, AppendProperties
<1>5. o <= n
  BY DEF n
<1>6. \A i \in 1..Len(new) : new[i] = Append(old, s)[i]
  <2> TAKE i \in 1..Len(new)
  <2>1. CASE i = (n - o) + 1
    BY <1>1, <1>3, <1>4, <1>5, <2>1
  <2>2. CASE i \in 1..(n - o)
    BY <1>1, <1>2, <1>3, <1>4, <1>5, <2>2
  <2>3. i \in 1..((n + 1) - o)
    BY <1>3
  <2>4. i = (n - o) + 1 \/ i \in 1..(n - o)
    BY <1>1, <1>5, <2>3
  <2>5. QED
    BY <2>1, <2>2, <2>4
<1>7. Len(new) = Len(Append(old, s))
  BY <1>1, <1>3, <1>4, <1>5
<1>8. new = Append(old, s)
  BY <1>3, <1>4, <1>6, <1>7, SeqEqual
<1>9. QED
  BY <1>8 DEF new, old, g, n

\* The number that the samples read of the length byte make.
Read(f) == Abstract!Value(SubSeq(f, OffsetBits + 1, Len(f)))

\* add_symbol adds a sample to it as FrameSpec does, if it is a hard bit.
LEMMA ReadStep ==
  ASSUME TypeOK, NEW f \in Seq(Samples), NEW s \in Samples,
         Samples \subseteq {0, 1}, OffsetBits <= Len(f)
  PROVE  /\ Read(f) \in Nat
         /\ Read(Append(f, s)) = ShiftSample(Read(f), s)
<1> DEFINE old == SubSeq(f, OffsetBits + 1, Len(f))
<1>1. OffsetBits \in Nat /\ Len(f) \in Nat /\ Len(Append(f, s)) = Len(f) + 1
  BY HeaderEnd, Longer
<1>2. old \in Seq(Nat)
  <2>1. Len(f) <= Len(f)
    BY <1>1
  <2>2. QED
    BY <1>1, <2>1, LengthPart
<1>3. SubSeq(Append(f, s), OffsetBits + 1, Len(Append(f, s))) = Append(old, s)
  BY <1>1, LengthPartStep
<1>4. s \in Nat /\ s \div 2 = 0
  BY SamplesAssumption
<1> HIDE DEF old
<1>5. /\ Abstract!Value(old) \in Nat
      /\ Abstract!Value(Append(old, s)) = 2 * Abstract!Value(old) + (s % 2)
  BY <1>2, <1>4, ValueProperties
<1>6. ShiftSample(Abstract!Value(old), s) = 2 * Abstract!Value(old) + (s % 2)
  BY <1>4, <1>5 DEF ShiftSample
<1>7. QED
  BY <1>3, <1>5, <1>6 DEF Read, old

\* At the end of the length byte the number read is the length of the frame,
\* and the total add_symbol computes of it the extent of the frame.
LEMMA LengthRead ==
  ASSUME TypeOK, NEW f \in Seq(Samples), Len(f) = LengthEnd, ~cfg.fixed_len
  PROVE  /\ Abstract!Length(f) = Read(f)
         /\ Abstract!HasLength(f)
         /\ Read(f) \in Nat => Abstract!FrameBits(f) = TotalBits(Read(f))
<1>1. Abstract!Length(f) = Read(f)
  BY HeaderEnd DEF Abstract!Length, Read
<1>2. Abstract!HasLength(f)
  BY HeaderEnd DEF Abstract!HasLength
<1>3. ASSUME Read(f) \in Nat
      PROVE  Abstract!FrameBits(f) = TotalBits(Read(f))
  <2> DEFINE a == cfg.pkt_len_adj
             b == ByteBits
             r == Read(f)
             e == LengthEnd
  <2>1. a \in Int /\ b \in Nat /\ e \in Nat /\ r \in Nat
    BY <1>3, ConfigsAssumption, ByteBitsAssumption, HeaderEnd DEF TypeOK
  <2>2. Abstract!FrameBits(f) = e + b * (r + a)
    BY <1>1, HeaderEnd DEF Abstract!FrameBits
  <2>3. TotalBits(r) = e + r * b + a * b
    BY DEF TotalBits
  <2> HIDE DEF a, b, r, e
  <2>4. b * (r + a) = r * b + a * b /\ r * b \in Int /\ a * b \in Int
    BY <2>1
  <2>5. e + b * (r + a) = e + r * b + a * b
    BY <2>1, <2>4
  <2>6. QED
    BY <2>2, <2>3, <2>5 DEF r
<1>4. QED
  BY <1>1, <1>2, <1>3

\* The extent of a frame, once known, does not change.
LEMMA LengthStays ==
  ASSUME TypeOK, NEW f \in Seq(Samples), NEW s \in Samples, Len(f) >= LengthEnd
  PROVE  Abstract!FrameBits(Append(f, s)) = Abstract!FrameBits(f)
<1> DEFINE g == Append(f, s)
           e == LengthEnd
           o == OffsetBits
<1>1. /\ g \in Seq(Samples) /\ Len(f) \in Nat /\ Len(g) = Len(f) + 1
      /\ \A i \in 1..Len(f) : g[i] = f[i]
      /\ e \in Nat /\ o \in Nat /\ o < e
  BY Longer, HeaderEnd
<1>2. e <= Len(f) /\ e <= Len(g) /\ o + 1 <= e
  BY <1>1
<1>3. SubSeq(g, o + 1, e) = SubSeq(f, o + 1, e)
  <2> DEFINE x == SubSeq(f, o + 1, e)
             y == SubSeq(g, o + 1, e)
  <2> HIDE DEF e, o, g
  <2>1. /\ x \in Seq(Nat) /\ Len(x) = e - o
        /\ \A i \in 1..(e - o) : x[i] = f[o + i]
    BY <1>1, <1>2, LengthPart
  <2>2. /\ y \in Seq(Nat) /\ Len(y) = e - o
        /\ \A i \in 1..(e - o) : y[i] = g[o + i]
    BY <1>1, <1>2, LengthPart
  <2>3. \A i \in 1..(e - o) : o + i \in 1..Len(f)
    BY <1>1, <1>2
  <2> HIDE DEF x, y
  <2>4. \A i \in 1..Len(x) : x[i] = y[i]
    BY <1>1, <2>1, <2>2, <2>3
  <2>5. x = y
    BY <2>1, <2>2, <2>4, SeqEqual
  <2>6. QED
    BY <2>5 DEF x, y
<1>4. Abstract!Length(g) = Abstract!Length(f)
  BY <1>3, HeaderEnd DEF Abstract!Length
<1>5. QED
  BY <1>4 DEF Abstract!FrameBits

-----------------------------------------------------------------------------
(* What the block holds of a frame is what FrameSpec says of it            *)

\* A block that is still to read the length of a packet has hard bits to read.
LEMMA ReadsHardBits ==
  ASSUME HardBits, TypeOK, ~cfg.fixed_len
  PROVE  Samples \subseteq {0, 1}
BY DEF HardBits, TypeOK

\* Before a sample is captured the block holds what the frame so far says.
LEMMA Capturing ==
  ASSUME FrameInv, NEW s \in Samples, HCapture(s)
  PROVE  /\ FrameHeld /\ LengthHeld /\ Store(s) /\ alive /\ d_in_sync
         /\ cfg' = cfg /\ frame' = Append(frame, s)
         /\ fresh' = IF d_in_sync' THEN fresh ELSE <<>>
<1>1. Store(s)
  BY DEF HCapture, Capture, CaptureHeader, CaptureLengthBit, CaptureLength,
         CaptureBody
<1>2. alive /\ d_in_sync /\ cfg' = cfg
  BY <1>1, StoreGuard
<1>3. QED
  BY <1>1, <1>2 DEF FrameInv, HCapture

\* Before the length is known the number of samples captured is below the end
\* of the length byte; at its last bit the total is that of FrameSpec.
LEMMA LengthIsRead ==
  ASSUME HardBits, TypeOK, LengthInv, BeforeEnd, FrameInv,
         NEW s \in Samples, HCapture(s), ~d_have_len
  PROVE  LET g == Append(frame, s) IN
         /\ ~cfg.fixed_len /\ Len(frame) < LengthEnd
         /\ d_pkt_len = Read(frame)
         /\ Len(frame) >= OffsetBits =>
              /\ ShiftSample(d_pkt_len, s) = Read(g)
              /\ Read(frame) \in Nat /\ Read(g) \in Nat
         /\ Len(frame) < OffsetBits => Read(frame) = 0 /\ Read(g) = 0
<1> DEFINE g == Append(frame, s)
<1>1. FrameHeld /\ LengthHeld /\ alive /\ d_in_sync
  BY Capturing
<1>2. ~cfg.fixed_len
  BY <1>1 DEF LengthInv
<1>3. d_rx_bit_cnt = Len(frame) /\ frame \in Seq(Samples) /\ Len(frame) \in Nat
  BY <1>1, LenProperties DEF FrameHeld
<1>4. Len(frame) < LengthEnd
  BY <1>1, <1>3 DEF BeforeEnd
<1>5. d_pkt_len = Read(frame)
  BY <1>1, <1>2 DEF LengthHeld, Read
<1>6. ASSUME Len(frame) >= OffsetBits
      PROVE  /\ ShiftSample(d_pkt_len, s) = Read(g)
             /\ Read(frame) \in Nat /\ Read(g) \in Nat
  <2>1. Samples \subseteq {0, 1} /\ OffsetBits <= Len(frame)
    BY <1>2, <1>3, <1>6, ReadsHardBits, HeaderEnd
  <2>2. Read(frame) \in Nat /\ Read(g) = ShiftSample(Read(frame), s)
    BY <1>3, <2>1, ReadStep
  <2>3. Read(g) \in Nat
    BY <2>2, ShiftSampleType
  <2>4. QED
    BY <1>5, <2>2, <2>3
<1>7. ASSUME Len(frame) < OffsetBits
      PROVE  Read(frame) = 0 /\ Read(g) = 0
  <2>1. Len(g) = Len(frame) + 1 /\ OffsetBits \in Nat
    BY <1>3, Longer, HeaderEnd
  <2>2. Len(g) < OffsetBits + 1 /\ Len(frame) < OffsetBits + 1
        /\ Len(g) \in Int /\ Len(frame) \in Int /\ OffsetBits + 1 \in Int
    BY <1>3, <1>7, <2>1
  <2>3. /\ SubSeq(g, OffsetBits + 1, Len(g)) = <<>>
        /\ SubSeq(frame, OffsetBits + 1, Len(frame)) = <<>>
    BY <2>2, SubSeqEmpty
  <2>4. QED
    BY <2>3, ValueOfNothing DEF Read
<1>8. QED
  BY <1>2, <1>4, <1>5, <1>6, <1>7

\* A step that captures a sample keeps LengthHeld, whether or not the packet
\* goes on.
LEMMA CaptureLengthHeld ==
  ASSUME HardBits, TypeOK, LengthInv, BeforeEnd, FrameInv,
         NEW s \in Samples, HCapture(s)
  PROVE  LengthHeld'
<1> DEFINE g == Append(frame, s)
<1>1. /\ FrameHeld /\ LengthHeld /\ cfg' = cfg /\ frame' = g
      /\ alive /\ d_in_sync
  BY Capturing
<1>2. /\ frame \in Seq(Samples) /\ d_rx_bit_cnt = Len(frame)
      /\ g \in Seq(Samples) /\ Len(g) = Len(frame) + 1 /\ Len(frame) \in Nat
  BY <1>1, Longer DEF FrameHeld
<1>3. OffsetBits \in Nat /\ LengthEnd \in Nat /\ OffsetBits < LengthEnd
  BY HeaderEnd
<1>4. LengthHeld' <=>
        (~cfg.fixed_len =>
           /\ d_have_len' <=> Len(g) >= LengthEnd
           /\ d_pkt_len' = IF d_have_len' THEN Abstract!FrameBits(g) ELSE Read(g))
  BY <1>1 DEF LengthHeld, Read, LengthEnd, OffsetBits, Abstract!FrameBits,
       Abstract!HeaderBits, Abstract!Length, Abstract!Value, Abstract!Lsb
<1> HIDE DEF g
<1>5. CASE CaptureHeader(s)
  <2>1. /\ ~d_have_len /\ ~d_have_len' /\ d_pkt_len' = d_pkt_len
        /\ Len(frame) + 1 <= OffsetBits
    BY <1>2, <1>5 DEF CaptureHeader, TypeOK
  <2>2. Len(frame) < OffsetBits /\ ~(Len(g) >= LengthEnd)
    BY <1>2, <1>3, <2>1
  <2>3. d_pkt_len = Read(frame) /\ Read(frame) = 0 /\ Read(g) = 0
    BY <2>1, <2>2, LengthIsRead DEF g
  <2>4. QED
    BY <1>4, <2>1, <2>2, <2>3
<1>6. CASE CaptureLengthBit(s)
  <2>1. /\ ~d_have_len /\ ~d_have_len' /\ d_pkt_len' = ShiftSample(d_pkt_len, s)
        /\ Len(frame) + 1 > OffsetBits /\ Len(frame) + 1 # LengthEnd
    BY <1>2, <1>6 DEF CaptureLengthBit, TypeOK
  <2>2. Len(frame) >= OffsetBits
    BY <1>2, <1>3, <2>1
  <2>3. /\ Len(frame) < LengthEnd
        /\ ShiftSample(d_pkt_len, s) = Read(g)
    BY <2>1, <2>2, LengthIsRead DEF g
  <2>4. ~(Len(g) >= LengthEnd)
    BY <1>2, <1>3, <2>1, <2>3
  <2>5. QED
    BY <1>4, <2>1, <2>3, <2>4
<1>7. CASE CaptureLength(s)
  <2>1. /\ ~d_have_len /\ d_have_len' /\ Len(frame) + 1 = LengthEnd
        /\ d_pkt_len' = TotalBits(ShiftSample(d_pkt_len, s))
    BY <1>2, <1>7 DEF CaptureLength
  <2>2. Len(frame) >= OffsetBits /\ Len(g) = LengthEnd
    BY <1>2, <1>3, <2>1
  <2>3. /\ ~cfg.fixed_len /\ Read(g) \in Nat
        /\ ShiftSample(d_pkt_len, s) = Read(g)
    BY <2>1, <2>2, LengthIsRead DEF g
  <2>4. Abstract!FrameBits(g) = TotalBits(Read(g))
    BY <1>2, <2>2, <2>3, LengthRead
  <2>5. QED
    BY <1>3, <1>4, <2>1, <2>2, <2>3, <2>4
<1>8. CASE CaptureBody(s)
  <2>1. d_have_len /\ d_have_len' /\ d_pkt_len' = d_pkt_len
    BY <1>8 DEF CaptureBody
  <2>2. CASE cfg.fixed_len
    BY <1>4, <2>2
  <2>3. CASE ~cfg.fixed_len
    <3>1. Len(frame) >= LengthEnd /\ d_pkt_len = Abstract!FrameBits(frame)
      BY <1>1, <2>1, <2>3 DEF LengthHeld
    <3>2. Abstract!FrameBits(g) = Abstract!FrameBits(frame)
      BY <1>2, <3>1, LengthStays DEF g
    <3>3. Len(g) >= LengthEnd
      BY <1>2, <1>3, <3>1
    <3>4. QED
      BY <1>4, <2>1, <3>1, <3>2, <3>3
  <2>4. QED
    BY <2>2, <2>3
<1>9. QED
  BY <1>5, <1>6, <1>7, <1>8 DEF HCapture, Capture

\* A frame begins without samples.
LEMMA FoundFrame ==
  ASSUME TypeOK, NEW s \in Samples, FoundSync(s), frame' = <<>>
  PROVE  FrameHeld' /\ LengthHeld'
<1>1. /\ d_rx_bit_cnt' = 0 /\ d_packet' = <<>> /\ cfg' = cfg
      /\ StartPacket /\ frame' = <<>>
  BY DEF FoundSync, NextSample
<1>2. Len(frame') = 0 /\ frame' \in Seq(Samples)
  BY <1>1, EmptySeq
<1>3. 0 % ByteBits = 0 /\ 0 \div ByteBits = 0
  BY ByteBitsAssumption
<1>4. (Abstract!Message(frame).data)' = <<>>
  <2>1. 1..0 = {}
    OBVIOUS
  <2>2. [i \in 1..0 |-> Abstract!ByteAt(frame', i)] = <<>>
    BY <2>1
  <2>3. (Abstract!Message(frame).data)'
          = IF cfg.pack_bytes
            THEN [i \in 1..(Len(frame') \div ByteBits) |-> Abstract!ByteAt(frame', i)]
            ELSE frame'
    BY <1>1 DEF Abstract!Message, Abstract!ByteAt, Abstract!Lsb
  <2>4. QED
    BY <1>1, <1>2, <1>3, <2>2, <2>3
<1>5. EndsWith(d_tmp_byte, frame)'
  BY <1>2, <1>3 DEF EndsWith
<1>6. FrameHeld'
  BY <1>1, <1>2, <1>4, <1>5 DEF FrameHeld
<1>7. LengthHeld'
  <2>1. LengthHeld' <=>
          (~cfg.fixed_len =>
             /\ d_have_len' <=> Len(frame') >= LengthEnd'
             /\ d_pkt_len' = IF d_have_len' THEN Abstract!FrameBits(frame)'
                             ELSE Read(frame'))
    BY <1>1 DEF LengthHeld, Read, OffsetBits, Abstract!Value, Abstract!Lsb
  <2>2. CASE cfg.fixed_len
    BY <2>1, <2>2
  <2>3. CASE ~cfg.fixed_len
    <3>1. d_have_len' = FALSE /\ d_pkt_len' = 0
      BY <1>1, <2>3 DEF StartPacket
    <3>2. OffsetBits \in Nat /\ LengthEnd \in Nat /\ OffsetBits < LengthEnd
      BY HeaderEnd
    <3>3. LengthEnd' = LengthEnd
      BY <1>1 DEF OffsetBits, LengthEnd
    <3>4. ~(Len(frame') >= LengthEnd')
      BY <1>2, <3>2, <3>3
    <3>5. OffsetBits + 1 \in Int /\ 0 < OffsetBits + 1
      BY <3>2
    <3>6. SubSeq(frame', OffsetBits + 1, 0) = <<>>
      BY <3>5, SubSeqEmpty
    <3>7. Read(frame') = 0
      BY <1>2, <3>6, ValueOfNothing DEF Read
    <3>8. QED
      BY <2>1, <3>1, <3>4, <3>7
  <2>4. QED
    BY <2>2, <2>3
<1>8. QED
  BY <1>6, <1>7

\* Every step keeps FrameInv.
LEMMA FrameStep ==
  ASSUME HardBits
  PROVE  TypeOK /\ LengthInv /\ BeforeEnd /\ FrameInv /\ [HNext]_hvars => FrameInv'
<1> SUFFICES ASSUME TypeOK, LengthInv, BeforeEnd, FrameInv, [HNext]_hvars
             PROVE  FrameInv'
  OBVIOUS
<1>1. ASSUME UNCHANGED <<cfg, d_in_sync, d_have_len, d_rx_bit_cnt, d_tmp_byte,
                         d_packet, d_pkt_len, alive, frame>>
      PROVE  FrameInv'
  <2>1. FrameHeld' <=> FrameHeld
    BY <1>1 DEF FrameHeld, EndsWith, Abstract!Message, Abstract!ByteAt, Abstract!Lsb
  <2>2. LengthHeld' <=> LengthHeld
    BY <1>1 DEF LengthHeld, OffsetBits, LengthEnd, Abstract!FrameBits,
         Abstract!HeaderBits, Abstract!Length, Abstract!Value, Abstract!Lsb
  <2>3. QED
    BY <1>1, <2>1, <2>2 DEF FrameInv
<1>2. ASSUME NEW n \in 1..MaxWork, HWork(n) PROVE FrameInv'
  BY <1>1, <1>2 DEF HWork, Work
<1>3. ASSUME NEW s \in Samples, HSearch(s) PROVE FrameInv'
  <2>1. CASE Hunt(s)
    <3>1. ~d_in_sync'
      BY <2>1 DEF Hunt
    <3>2. QED
      BY <3>1 DEF FrameInv
  <2>2. CASE FoundSync(s)
    <3>1. FrameHeld' /\ LengthHeld'
      BY <1>3, <2>2, FoundFrame DEF HSearch
    <3>2. QED
      BY <3>1 DEF FrameInv
  <2>3. QED
    BY <1>3, <2>1, <2>2 DEF HSearch
<1>4. ASSUME NEW s \in Samples, HCapture(s) PROVE FrameInv'
  <2>1. FrameHeld'
    BY <1>4, Capturing, StoreHeld
  <2>2. LengthHeld'
    BY <1>4, CaptureLengthHeld
  <2>3. QED
    BY <2>1, <2>2 DEF FrameInv
<1>5. CASE UNCHANGED hvars
  BY <1>1, <1>5 DEF hvars, vars
<1>6. QED
  BY <1>2, <1>3, <1>4, <1>5 DEF HNext

\* What the block has counted, packed and summed up of a packet is at every
\* sample what FrameSpec says of the samples captured.
THEOREM FrameIsHeld ==
  ASSUME HardBits
  PROVE  HSpec => []FrameInv
<1>1. HInit => FrameInv
  BY DEF HInit, Init, FrameInv
<1>2. HSpec => [](TypeOK /\ LengthInv /\ BeforeEnd)
  BY HistorySpec, TypeCorrect, LengthsAreSound, CapturesEndInTime, PTL
<1>3. TypeOK /\ LengthInv /\ BeforeEnd /\ FrameInv /\ [HNext]_hvars => FrameInv'
  BY FrameStep
<1>4. QED
  BY <1>1, <1>2, <1>3, PTL DEF HSpec

-----------------------------------------------------------------------------
(* The refinement                                                          *)

\* What all proofs about a step of the block may assume.
Inv == TypeOK /\ LengthInv /\ BeforeEnd /\ WindowInv /\ FrameInv

\* A search finds the sync word exactly when FrameSpec does.
LEMMA SearchFinds ==
  ASSUME Inv, Inv', InScope(cfg), NEW s \in Samples, HSearch(s)
  PROVE  d_in_sync' <=> fresh' = cfg.sync
<1>1. /\ alive /\ ~d_in_sync /\ cfg' = cfg /\ d_search' = ShiftIn(d_search, s)
      /\ ~d_in_sync' => d_search' # cfg.sync
  BY DEF HSearch, Hunt, FoundSync, NextSample
<1>2. alive'
  BY <1>1 DEF Inv, LengthInv, NoCrash, InScope, SafeLength
<1>3. CASE cfg.sync # <<>>
  BY <1>1, <1>2, <1>3 DEF Inv, WindowInv, GenuineSync, InScope, Unbordered
<1>4. CASE cfg.sync = <<>>
  <2>1. Len(cfg.sync) = 0
    BY <1>4, EmptySeq
  <2>2. /\ d_search' \in Seq(Samples) /\ Len(d_search') <= 0
        /\ fresh' \in Seq(Samples) /\ Len(fresh') <= 0
    BY <1>1, <2>1 DEF Inv, WindowInv, TypeOK
  <2>3. Len(d_search') = 0 /\ Len(fresh') = 0
    BY <2>2, LenProperties
  <2>4. d_search' = <<>> /\ fresh' = <<>>
    BY <2>2, <2>3, EmptySeq
  <2>5. QED
    BY <1>1, <1>4, <2>4
<1>5. QED
  BY <1>3, <1>4

\* The search is FrameSpec's.
LEMMA SearchRefines ==
  ASSUME Inv, Inv', InScope(cfg), NEW s \in Samples, HSearch(s)
  PROVE  Abstract!Search(s)
<1>1. /\ ~d_in_sync /\ cfg' = cfg /\ pub' = <<>> /\ fresh' = ShiftIn(fresh, s)
      /\ frame' = <<>>
  BY DEF HSearch, Hunt, FoundSync, NextSample
<1>2. d_in_sync' <=> fresh' = cfg.sync
  BY SearchFinds
<1>3. InScope(cfg)' <=> InScope(cfg)
  BY <1>1 DEF InScope, SafeLength, SafeSquelch, Unbordered
<1>4. Abstract!Recent(fresh, s) = ShiftIn(fresh, s)
  BY DEF Abstract!Recent, ShiftIn
<1> HIDE DEF InScope
<1>5. QED
  BY <1>1, <1>2, <1>3, <1>4 DEF Abstract!Search

\* How a capture step ends a frame in FrameSpec's terms.
LEMMA CaptureEnds ==
  ASSUME Inv, InScope(cfg), NEW s \in Samples, HCapture(s),
         cfg' = cfg
  PROVE  LET g == Append(frame, s) IN
         /\ (/\ d_in_sync' /\ pub' = <<>>
             /\ ~Abstract!TooLong(g) /\ ~Abstract!Complete(g))
              => Abstract!Take(s)
         /\ (~d_in_sync' /\ pub' = <<>> /\ Abstract!TooLong(g))
              => Abstract!Squelch(s)
         /\ (/\ ~d_in_sync' /\ pub' = <<Abstract!Message(g)>>
             /\ ~Abstract!TooLong(g) /\ Abstract!Complete(g))
              => Abstract!Deliver(s)
<1> DEFINE g == Append(frame, s)
<1>1. /\ d_in_sync /\ frame' = g
      /\ fresh' = IF d_in_sync' THEN fresh ELSE <<>>
  BY Capturing DEF Inv
<1>2. InScope(cfg)' <=> InScope(cfg)
  BY DEF InScope, SafeLength, SafeSquelch, Unbordered
<1>3. ASSUME d_in_sync', pub' = <<>>, ~Abstract!TooLong(g), ~Abstract!Complete(g)
      PROVE  Abstract!Take(s)
  BY <1>1, <1>2, <1>3 DEF Abstract!Take
<1>4. ASSUME ~d_in_sync', pub' = <<>>, Abstract!TooLong(g)
      PROVE  Abstract!Squelch(s)
  BY <1>1, <1>2, <1>4 DEF Abstract!Squelch, Abstract!StartOver
<1>5. ASSUME ~d_in_sync', pub' = <<Abstract!Message(g)>>,
             ~Abstract!TooLong(g), Abstract!Complete(g)
      PROVE  Abstract!Deliver(s)
  BY <1>1, <1>2, <1>5 DEF Abstract!Deliver, Abstract!StartOver
<1>6. QED
  BY <1>3, <1>4, <1>5

\* Each way of capturing a sample is FrameSpec's taking it, squelching the
\* frame or delivering it.
LEMMA CaptureRefines ==
  ASSUME HardBits, Inv, Inv', InScope(cfg), NEW s \in Samples, HCapture(s)
  PROVE  Abstract!Take(s) \/ Abstract!Squelch(s) \/ Abstract!Deliver(s)
<1> DEFINE g == Append(frame, s)
<1>1. /\ FrameHeld /\ LengthHeld /\ Store(s) /\ cfg' = cfg /\ frame' = g
      /\ alive /\ d_in_sync
  BY Capturing DEF Inv
<1>2. /\ frame \in Seq(Samples) /\ d_rx_bit_cnt = Len(frame)
      /\ g \in Seq(Samples) /\ Len(g) = Len(frame) + 1 /\ Len(frame) \in Nat
  BY <1>1, Longer DEF FrameHeld
<1>3. /\ OffsetBits \in Nat /\ LengthEnd \in Nat /\ OffsetBits < LengthEnd
      /\ Abstract!HeaderBits = LengthEnd
  BY HeaderEnd DEF Inv
<1>4. d_rx_bit_cnt' = Len(g)
  BY <1>1, <1>2 DEF Store
<1>5. Pdu(d_packet') = Abstract!Message(g)
  <2>1. FrameHeld'
    BY <1>1, StoreHeld DEF Inv
  <2>2. d_packet' = Abstract!Message(g).data
    BY <1>1, <2>1 DEF FrameHeld, Abstract!Message, Abstract!ByteAt, Abstract!Lsb
  <2>3. QED
    BY <2>2 DEF Pdu, Abstract!Message
<1> HIDE DEF g
<1>6. ASSUME d_in_sync', pub' = <<>>,
             ~Abstract!TooLong(g), ~Abstract!Complete(g)
      PROVE  Abstract!Take(s)
  BY <1>1, <1>6, CaptureEnds DEF g
<1>7. ASSUME ~d_in_sync', pub' = <<>>, Abstract!TooLong(g)
      PROVE  Abstract!Squelch(s)
  BY <1>1, <1>7, CaptureEnds DEF g
<1>8. ASSUME ~d_in_sync', pub' = <<Abstract!Message(g)>>,
             ~Abstract!TooLong(g), Abstract!Complete(g)
      PROVE  Abstract!Deliver(s)
  BY <1>1, <1>8, CaptureEnds DEF g
<1>9. CASE ~d_have_len /\ Len(g) < LengthEnd /\ d_in_sync' /\ pub' = <<>>
  <2>1. ~cfg.fixed_len
    BY <1>9, LengthIsRead DEF Inv
  <2>2. ~Abstract!TooLong(g) /\ ~Abstract!Complete(g)
    BY <1>2, <1>3, <1>9, <2>1
    DEF Abstract!TooLong, Abstract!Complete, Abstract!HasLength
  <2>3. QED
    BY <1>6, <1>9, <2>2
<1>10. ASSUME Finish(TRUE), ~Abstract!TooLong(g),
              Abstract!Complete(g) <=> Len(g) >= d_pkt_len'
       PROVE  Abstract!Take(s) \/ Abstract!Deliver(s)
  <2>1. CASE d_in_sync' = FALSE /\ pub' = <<Pdu(d_packet')>> /\ Len(g) >= d_pkt_len'
    BY <1>5, <1>8, <1>10, <2>1
  <2>2. CASE d_in_sync' = TRUE /\ pub' = <<>> /\ Len(g) < d_pkt_len'
    <3>1. ~(Len(g) >= d_pkt_len')
      <4>1. d_pkt_len' \in Int /\ Len(g) \in Int
        BY <1>2 DEF Inv, TypeOK
      <4>2. QED
        BY <2>2, <4>1
    <3>2. QED
      BY <1>6, <1>10, <2>2, <3>1
  <2>3. QED
    BY <1>4, <1>10, <2>1, <2>2 DEF Finish
<1>11. CASE CaptureHeader(s)
  <2>1. /\ ~d_have_len /\ Len(frame) + 1 <= OffsetBits
        /\ d_in_sync' = d_in_sync /\ pub' = <<>>
    BY <1>2, <1>11 DEF CaptureHeader
  <2>2. Len(g) < LengthEnd
    BY <1>2, <1>3, <2>1
  <2>3. QED
    BY <1>1, <1>9, <2>1, <2>2
<1>12. CASE CaptureLengthBit(s)
  <2>1. /\ ~d_have_len /\ Len(frame) + 1 # LengthEnd
        /\ d_in_sync' = d_in_sync /\ pub' = <<>>
    BY <1>2, <1>12 DEF CaptureLengthBit
  <2>2. Len(frame) < LengthEnd
    BY <2>1, LengthIsRead DEF Inv
  <2>3. Len(g) < LengthEnd
    BY <1>2, <1>3, <2>1, <2>2
  <2>4. QED
    BY <1>1, <1>9, <2>1, <2>3
<1>13. CASE CaptureLength(s)
  <2> DEFINE len == ShiftSample(d_pkt_len, s)
  <2>1. /\ ~d_have_len /\ Len(frame) + 1 = LengthEnd /\ d_pkt_len' = TotalBits(len)
    BY <1>2, <1>13 DEF CaptureLength
  <2>2. ~cfg.fixed_len /\ len = Read(g) /\ Read(g) \in Nat
    <3>1. Len(frame) >= OffsetBits
      BY <1>2, <1>3, <2>1
    <3>2. QED
      BY <2>1, <3>1, LengthIsRead DEF Inv, g
  <2>3. Len(g) = LengthEnd
    BY <1>2, <2>1
  <2>4. /\ Abstract!Length(g) = len /\ Abstract!HasLength(g)
        /\ Abstract!FrameBits(g) = TotalBits(len)
    BY <1>2, <2>2, <2>3, LengthRead DEF Inv
  <2>5. TotalBits(len) \in Int /\ TotalBits(len) >= 0
    BY <2>2, TotalBitsType, TotalBitsBound DEF Inv, InScope
  <2>6. Finish(~TooLong(len))
    BY <1>13, <2>5 DEF CaptureLength, ReserveThrows
  <2>7. Abstract!TooLong(g) <=> TooLong(len)
    BY <1>3, <2>2, <2>3, <2>4 DEF Abstract!TooLong, TooLong
  <2>8. Abstract!Complete(g) <=> Len(g) >= d_pkt_len'
    BY <2>1, <2>4 DEF Abstract!Complete
  <2> HIDE DEF len
  <2>9. CASE TooLong(len)
    <3>1. TotalBits(len) > LengthEnd
      BY <2>2, <2>9, SquelchedTotal DEF Inv, InScope
    <3>2. ~(d_rx_bit_cnt' >= d_pkt_len')
      BY <1>3, <1>4, <2>1, <2>3, <2>5, <3>1
    <3>3. d_in_sync' = FALSE /\ pub' = <<>>
      BY <2>6, <2>9, <3>2 DEF Finish
    <3>4. QED
      BY <1>7, <2>7, <2>9, <3>3
  <2>10. CASE ~TooLong(len)
    <3>1. Finish(TRUE)
      BY <2>6, <2>10 DEF Finish
    <3>2. QED
      BY <1>10, <2>7, <2>8, <2>10, <3>1
  <2>11. QED
    BY <2>9, <2>10
<1>14. CASE CaptureBody(s)
  <2>1. d_have_len /\ d_pkt_len' = d_pkt_len /\ Finish(TRUE)
    BY <1>14 DEF CaptureBody
  <2>2. CASE cfg.fixed_len
    <3>1. d_pkt_len = cfg.pkt_len
      BY <2>2 DEF Inv, LengthInv
    <3>2. /\ ~Abstract!TooLong(g)
          /\ Abstract!Complete(g) <=> Len(g) >= d_pkt_len'
      BY <2>1, <2>2, <3>1
      DEF Abstract!TooLong, Abstract!Complete, Abstract!HasLength, Abstract!FrameBits
    <3>3. QED
      BY <1>10, <2>1, <3>2
  <2>3. CASE ~cfg.fixed_len
    <3>1. Len(frame) >= LengthEnd /\ d_pkt_len = Abstract!FrameBits(frame)
      BY <1>1, <2>1, <2>3 DEF LengthHeld
    <3>2. Abstract!FrameBits(g) = Abstract!FrameBits(frame)
      BY <1>2, <3>1, LengthStays DEF Inv, g
    <3>3. Len(g) > LengthEnd /\ Len(g) >= LengthEnd /\ Len(g) # LengthEnd
      BY <1>2, <1>3, <3>1
    <3>4. /\ ~Abstract!TooLong(g)
          /\ Abstract!Complete(g) <=> Len(g) >= d_pkt_len'
      BY <1>3, <2>1, <3>1, <3>2, <3>3
      DEF Abstract!TooLong, Abstract!Complete, Abstract!HasLength
    <3>5. QED
      BY <1>10, <2>1, <3>4
  <2>4. QED
    BY <2>2, <2>3
<1>15. QED
  BY <1>11, <1>12, <1>13, <1>14 DEF HCapture, Capture

\* Each step is a step of FrameSpec, or changes nothing that it speaks of.
LEMMA RefinementStep ==
  ASSUME HardBits, Inv, Inv', [HNext]_hvars
  PROVE  [Abstract!Next]_(Abstract!vars)
<1>1. cfg' = cfg
  BY DEF HNext, HWork, Work, HSearch, HCapture, Hunt, FoundSync, NextSample,
         Capture, CaptureHeader, CaptureLengthBit, CaptureLength, CaptureBody,
         Store, hvars, vars
<1>2. InScope(cfg)' <=> InScope(cfg)
  BY <1>1 DEF InScope, SafeLength, SafeSquelch, Unbordered
<1>3. CASE ~InScope(cfg)
  BY <1>1, <1>2, <1>3 DEF Abstract!vars
<1>4. CASE InScope(cfg)
  <2>1. ASSUME UNCHANGED <<d_in_sync, pub, fresh, frame>>
        PROVE  UNCHANGED Abstract!vars
    BY <1>1, <1>2, <2>1 DEF Abstract!vars
  <2>2. ASSUME NEW n \in 1..MaxWork, HWork(n) PROVE UNCHANGED Abstract!vars
    BY <2>1, <2>2 DEF HWork, Work
  <2>3. ASSUME NEW s \in Samples, HSearch(s) PROVE Abstract!Next
    BY <1>4, <2>3, SearchRefines DEF Abstract!Next
  <2>4. ASSUME NEW s \in Samples, HCapture(s) PROVE Abstract!Next
    BY <1>4, <2>4, CaptureRefines DEF Abstract!Next
  <2>5. CASE UNCHANGED hvars
    BY <2>1, <2>5 DEF hvars, vars
  <2>6. QED
    BY <2>2, <2>3, <2>4, <2>5 DEF HNext
<1>5. QED
  BY <1>3, <1>4

\* A packet_deframer implements FrameSpec, for every configuration, sync word
\* and byte width, however the samples are divided into calls of work(): what
\* it publishes are the frames that follow a sync word, of the right extent and
\* packed as they should be.  A block that reads lengths needs samples without
\* other bits than the one of data, which it does not mask off.
THEOREM Implements ==
  ASSUME HardBits
  PROVE  HSpec => ImplementsFrameSpec
<1>1. HInit => Abstract!Init
  BY DEF HInit, Init, Abstract!Init
<1>2. HSpec => []Inv
  <2>1. HSpec => [](TypeOK /\ LengthInv /\ BeforeEnd)
    BY HistorySpec, TypeCorrect, LengthsAreSound, CapturesEndInTime, PTL
  <2>2. HSpec => []FrameInv
    BY FrameIsHeld
  <2>3. QED
    BY <2>1, <2>2, WindowIsSound, PTL DEF Inv
<1>3. Inv /\ Inv' /\ [HNext]_hvars => [Abstract!Next]_(Abstract!vars)
  BY RefinementStep
<1>4. QED
  BY <1>1, <1>2, <1>3, PTL DEF HSpec, ImplementsFrameSpec, Abstract!Spec
=============================================================================
