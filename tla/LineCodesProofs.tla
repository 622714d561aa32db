--------------------------- MODULE LineCodesProofs ---------------------------
(***************************************************************************)
(* Theorems about LineCodes and DumpFormat, for captures of any length.    *)
(***************************************************************************)
EXTENDS DumpFormat, InductionLemmas

\* What is true of all captures: TypeOK and Unstuffed together are inductive.
DecoderInv == TypeOK /\ Unstuffed

\* The bits before a byte, and those before the next.
LEMMA NextByte == \A k \in Nat : ByteBits * (k + 1) = ByteBits * k + ByteBits
BY LineBytesAssumption

\* Positions of bytes that have been put out lie in the data sent so far.
LEMMA BytesBefore ==
  \A k, n \in Nat : k <= n => ByteBits * k <= ByteBits * n /\ ByteBits * n \in Nat
BY LineBytesAssumption

\* Reading one bit of data, of value bit, that follows those in sent.
LEMMA ReadBit ==
  ASSUME DecoderInv, NEW bit \in Bit, sent' = Append(sent, bit),
         run' = ones', ones' \in 0..5,
         PutOut(IF bit = 1 THEN obyte \cup {bits} ELSE obyte, bits + 1)
  PROVE  DecoderInv'
<1> DEFINE byte == IF bit = 1 THEN obyte \cup {bits} ELSE obyte
           base == ByteBits * Len(out)
<1>1. /\ Len(out) \in Nat /\ bits \in Nat /\ bits < ByteBits /\ base \in Nat
      /\ ByteBits \in Nat /\ ByteBits > 0
      /\ sent \in Seq(Bit) /\ Len(sent) = base + bits
  BY LenProperties, BytesBefore, LineBytesAssumption
     DEF DecoderInv, TypeOK, Unstuffed
<1>2. /\ sent' \in Seq(Bit) /\ Len(sent') = base + bits + 1
      /\ sent'[base + bits + 1] = bit
      /\ \A i \in 1..(base + bits) : sent'[i] = sent[i]
  BY <1>1, AppendProperties
<1>3. byte = { p \in 0..bits : sent'[base + p + 1] = 1 }
  <2>1. obyte = { p \in 0..(bits - 1) : sent[base + p + 1] = 1 }
    BY DEF DecoderInv, Unstuffed, Holds
  <2>2. \A p \in 0..(bits - 1) : base + p + 1 \in 1..(base + bits)
    BY <1>1
  <2>3. obyte = { p \in 0..(bits - 1) : sent'[base + p + 1] = 1 }
    BY <1>2, <2>1, <2>2
  <2>4. \A p : p \in 0..bits <=> p \in 0..(bits - 1) \/ p = bits
    BY <1>1
  <2>5. sent'[base + bits + 1] = 1 <=> bit = 1
    BY <1>2
  <2> HIDE DEF base
  <2>6. QED
    BY <2>3, <2>4, <2>5
<1>4. \A k \in 1..Len(out) :
        out[k] = { p \in 0..(ByteBits - 1) : sent'[ByteBits * (k - 1) + p + 1] = 1 }
  <2> SUFFICES ASSUME NEW k \in 1..Len(out)
               PROVE  out[k] = { p \in 0..(ByteBits - 1) :
                                   sent'[ByteBits * (k - 1) + p + 1] = 1 }
    OBVIOUS
  <2>1. out[k] = { p \in 0..(ByteBits - 1) : sent[ByteBits * (k - 1) + p + 1] = 1 }
    BY DEF DecoderInv, Unstuffed, Holds
  <2>2. ByteBits * (k - 1) \in Nat /\ ByteBits * (k - 1) + ByteBits <= base
    <3>1. k - 1 \in Nat /\ k \in Nat /\ k <= Len(out)
      BY <1>1
    <3>2. ByteBits * k = ByteBits * (k - 1) + ByteBits
      BY <3>1, NextByte
    <3>3. QED
      BY <1>1, <3>1, <3>2, BytesBefore
  <2>3. \A p \in 0..(ByteBits - 1) :
          ByteBits * (k - 1) + p + 1 \in 1..(base + bits)
    <3> DEFINE before == ByteBits * (k - 1)
    <3>1. before \in Nat /\ before + ByteBits <= base
      BY <2>2
    <3> HIDE DEF before, base
    <3>2. \A p \in 0..(ByteBits - 1) : before + p + 1 \in 1..(base + bits)
      BY <1>1, <3>1
    <3>3. QED
      BY <3>2 DEF before
  <2>4. QED
    BY <1>2, <2>1, <2>3
<1> HIDE DEF byte
<1>5. PutOut(byte, bits + 1)
  BY DEF byte
<1>6. CASE bits + 1 = ByteBits
  <2>1. out' = Append(out, byte) /\ obyte' = {} /\ bits' = 0
    BY <1>5, <1>6 DEF PutOut
  <2>2. byte \in SUBSET (0..(ByteBits - 1))
    BY <1>1, <1>3, <1>6
  <2>3. /\ out' \in Seq(SUBSET (0..(ByteBits - 1)))
        /\ Len(out') = Len(out) + 1 /\ out'[Len(out) + 1] = byte
        /\ \A k \in 1..Len(out) : out'[k] = out[k]
    BY <2>1, <2>2, AppendProperties DEF DecoderInv, TypeOK
  <2>4. ByteBits * Len(out') = base + ByteBits
    BY <1>1, <2>3, NextByte
  <2>5. \A k \in 1..Len(out') : Holds(out[k], ByteBits * (k - 1), ByteBits)'
    <3> SUFFICES ASSUME NEW k \in 1..Len(out')
                 PROVE  Holds(out[k], ByteBits * (k - 1), ByteBits)'
      OBVIOUS
    <3>1. CASE k \in 1..Len(out)
      BY <1>4, <2>3, <3>1 DEF Holds
    <3>2. CASE k = Len(out) + 1
      <4>1. k - 1 = Len(out) /\ ByteBits - 1 = bits
        BY <1>1, <1>6, <3>2
      <4>2. QED
        BY <1>3, <2>3, <3>2, <4>1 DEF Holds
    <3>3. QED
      BY <1>1, <2>3, <3>1, <3>2
  <2>6. Holds(obyte, ByteBits * Len(out), bits)'
    <3>1. 0..(bits' - 1) = {}
      BY <2>1
    <3>2. QED
      BY <2>1, <3>1 DEF Holds
  <2>7. Len(sent') = ByteBits * Len(out') + bits'
    <3>1. ByteBits * Len(out') = base + bits + 1 /\ base + bits + 1 \in Nat
      BY <1>1, <1>6, <2>4
    <3>2. Len(sent') = base + bits + 1
      BY <1>2
    <3> HIDE DEF base
    <3>3. QED
      BY <2>1, <3>1, <3>2
  <2>8. TypeOK'
    BY <1>1, <1>2, <2>1, <2>3 DEF TypeOK
  <2>9. QED
    BY <2>5, <2>6, <2>7, <2>8 DEF DecoderInv, Unstuffed
<1>7. CASE bits + 1 # ByteBits
  <2>1. out' = out /\ obyte' = byte /\ bits' = bits + 1
    BY <1>5, <1>7 DEF PutOut
  <2>2. obyte' \in SUBSET (0..(bits' - 1)) /\ bits' \in 0..(ByteBits - 1)
    BY <1>1, <1>3, <1>7, <2>1
  <2>3. TypeOK'
    BY <1>2, <2>1, <2>2 DEF DecoderInv, TypeOK
  <2>4. \A k \in 1..Len(out') : Holds(out[k], ByteBits * (k - 1), ByteBits)'
    BY <1>4, <2>1 DEF Holds
  <2>5. Holds(obyte, ByteBits * Len(out), bits)'
    <3>1. bits' - 1 = bits
      BY <1>1, <2>1
    <3>2. QED
      BY <1>3, <2>1, <3>1 DEF Holds
  <2>6. Len(sent') = ByteBits * Len(out') + bits'
    BY <1>1, <1>2, <2>1
  <2>7. QED
    BY <2>3, <2>4, <2>5, <2>6 DEF DecoderInv, Unstuffed
<1>8. QED
  BY <1>6, <1>7

\* Every bit on the air keeps DecoderInv.
LEMMA DecoderStep == DecoderInv /\ [Next]_vars => DecoderInv'
<1> SUFFICES ASSUME DecoderInv, [Next]_vars PROVE DecoderInv'
  OBVIOUS
<1>1. ones = run /\ run \in 0..5 /\ bits \in 0..(ByteBits - 1)
  BY DEF DecoderInv, TypeOK, Unstuffed
<1>2. ASSUME NEW bit \in Bit, Send(bit) PROVE DecoderInv'
  <2>1. run # 5 /\ sent' = Append(sent, bit)
    BY <1>2 DEF Send
  <2>2. CASE bit = 0 /\ run' = 0 /\ ReadZero
    <3>1. PutOut(obyte, bits + 1) /\ ones' = 0
      BY <1>1, <2>1, <2>2 DEF ReadZero
    <3>2. QED
      BY <2>1, <2>2, <3>1, ReadBit
  <2>3. CASE bit = 1 /\ run' = run + 1 /\ ReadOne
    <3>1. PutOut(obyte \cup {bits}, bits + 1) /\ ones' = ones + 1
      BY <2>3 DEF ReadOne
    <3>2. ones' \in 0..5 /\ run' = ones'
      BY <1>1, <2>1, <2>3, <3>1
    <3>3. QED
      BY <2>1, <2>3, <3>1, <3>2, ReadBit
  <2>4. QED
    BY <1>2, <2>2, <2>3 DEF Send
<1>3. CASE Stuff
  <2>1. ones' = 0 /\ run' = 0 /\ sent' = sent /\ PutOut(obyte, bits)
    BY <1>1, <1>3 DEF Stuff, ReadZero
  <2>2. bits # ByteBits
    BY <1>1, LineBytesAssumption
  <2>3. UNCHANGED <<obyte, bits, out, sent>>
    BY <2>1, <2>2 DEF PutOut
  <2>4. QED
    BY <2>1, <2>3 DEF DecoderInv, TypeOK, Unstuffed, Holds
<1>4. CASE UNCHANGED vars
  BY <1>4 DEF vars, DecoderInv, TypeOK, Unstuffed, Holds
<1>5. QED
  BY <1>2, <1>3, <1>4 DEF Next

\* Before anything is sent.
LEMMA DecoderInit == Init => DecoderInv
<1> SUFFICES ASSUME Init PROVE DecoderInv
  OBVIOUS
<1>1. Len(sent) = 0 /\ Len(out) = 0 /\ ByteBits * 0 = 0
  BY LineBytesAssumption DEF Init
<1>2. TypeOK
  BY LineBytesAssumption DEF Init, TypeOK
<1>3. Unstuffed
  BY <1>1 DEF Init, Unstuffed, Holds
<1>4. QED
  BY <1>2, <1>3 DEF DecoderInv

\* Whatever data an HDLC transmitter sends, and wherever the capture ends, the
\* bytes of hdlc_data_decode are the whole bytes of the data.
THEOREM HdlcInverts == Spec => []Unstuffed
<1>1. Init => DecoderInv
  BY DecoderInit
<1>2. DecoderInv => Unstuffed
  BY DEF DecoderInv
<1>3. QED
  BY <1>1, <1>2, DecoderStep, PTL DEF Spec

\* The variables of the decoders hold values of their types.
THEOREM TypeCorrect == Spec => []TypeOK
<1>1. DecoderInv => TypeOK
  BY DEF DecoderInv
<1>2. QED
  BY <1>1, DecoderInit, DecoderStep, PTL DEF Spec

-----------------------------------------------------------------------------
(* Manchester code                                                         *)

\* What man_decode makes of any array: a group of two equal bits is an x.
LEMMA ManSymbols ==
  ASSUME NEW array \in Seq(Bit)
  PROVE  man_decode(array) =
           [k \in 1..(Len(array) \div 2) |->
              IF array[2 * k - 1] = array[2 * k] THEN 2 ELSE array[2 * k - 1]]
<1>1. Len(array) \in Nat /\ Groups(array, 2) = Len(array) \div 2
  BY LenProperties DEF Groups
<1>2. ASSUME NEW k \in 1..(Len(array) \div 2)
      PROVE  ManSymbol(Group(array, k, 2)) =
               IF array[2 * k - 1] = array[2 * k] THEN 2 ELSE array[2 * k - 1]
  <2>1. /\ 2 * k <= Len(array) /\ k \in Nat /\ k >= 1
        /\ 2 * (k - 1) + 1 = 2 * k - 1 /\ 2 * (k - 1) + 2 = 2 * k
    BY <1>1
  <2>2. array[2 * k - 1] \in {0, 1} /\ array[2 * k] \in {0, 1}
    BY <1>1, <2>1, ElementOfSeq DEF Bit
  <2>3. Group(array, k, 2) = [j \in 1..2 |-> array[2 * (k - 1) + j]]
    BY <2>1 DEF Group
  <2>4. [j \in 1..2 |-> array[2 * (k - 1) + j]] = <<array[2 * k - 1], array[2 * k]>>
    BY <2>1
  <2>5. QED
    BY <2>2, <2>3, <2>4 DEF ManSymbol
<1>3. QED
  BY <1>1, <1>2 DEF man_decode

\* The bits on the air that stand for the k-th bit of data.
LEMMA ManAir ==
  ASSUME NEW data \in Seq(Bit)
  PROVE  LET wave == Encode(data, 2, ManCode) IN
         /\ wave \in Seq(Bit) /\ Len(wave) = 2 * Len(data)
         /\ \A k \in 1..Len(data) :
               wave[2 * k - 1] = data[k] /\ wave[2 * k] = 1 - data[k]
<1> DEFINE wave == Encode(data, 2, ManCode)
<1>1. Len(data) \in Nat /\ 2 * Len(data) \in Nat
  BY LenProperties
<1>2. \A bit \in Bit : ManCode[bit] = <<bit, 1 - bit>>
  BY DEF ManCode, Bit
<1>3. \A i \in 1..(2 * Len(data)) :
        wave[i] = ManCode[data[1 + (i - 1) \div 2]][1 + ((i - 1) % 2)]
  BY DEF Encode
<1>4. ASSUME NEW k \in 1..Len(data)
      PROVE  wave[2 * k - 1] = data[k] /\ wave[2 * k] = 1 - data[k]
  <2>1. /\ 2 * k - 1 \in 1..(2 * Len(data)) /\ 2 * k \in 1..(2 * Len(data))
        /\ 1 + (2 * k - 1 - 1) \div 2 = k /\ 1 + ((2 * k - 1 - 1) % 2) = 1
        /\ 1 + (2 * k - 1) \div 2 = k /\ 1 + ((2 * k - 1) % 2) = 2
    BY <1>1
  <2>2. data[k] \in Bit
    BY ElementOfSeq
  <2>3. wave[2 * k - 1] = ManCode[data[k]][1] /\ wave[2 * k] = ManCode[data[k]][2]
    BY <1>3, <2>1
  <2>4. QED
    BY <1>2, <2>2, <2>3
<1>5. ASSUME NEW i \in 1..(2 * Len(data)) PROVE wave[i] \in Bit
  <2>1. PICK k \in 1..Len(data) : i = 2 * k - 1 \/ i = 2 * k
    <3>1. /\ (i + 1) \div 2 \in 1..Len(data)
          /\ i = 2 * ((i + 1) \div 2) - 1 \/ i = 2 * ((i + 1) \div 2)
      BY <1>1
    <3>2. QED
      BY <3>1
  <2>2. data[k] \in {0, 1}
    BY ElementOfSeq DEF Bit
  <2> HIDE DEF wave
  <2>3. wave[2 * k - 1] = data[k] /\ wave[2 * k] = 1 - data[k]
    BY <1>4
  <2>4. wave[i] = data[k] \/ wave[i] = 1 - data[k]
    BY <2>1, <2>3
  <2>5. QED
    BY <2>2, <2>4 DEF Bit
<1>6. wave \in [1..(2 * Len(data)) -> Bit]
  BY <1>5 DEF Encode
<1>7. wave \in Seq(Bit) /\ Len(wave) = 2 * Len(data)
  BY <1>1, <1>6, LenProperties
<1>8. QED
  BY <1>4, <1>7

\* A capture holds the bits on the air up to its end.
LEMMA CaptureBits ==
  ASSUME NEW wave \in Seq(Bit), NEW n \in 0..Len(wave)
  PROVE  /\ Capture(wave, n) \in Seq(Bit) /\ Len(Capture(wave, n)) = n
         /\ \A i \in 1..n : Capture(wave, n)[i] = wave[i]
BY SubSeqProperties, LenProperties DEF Capture

\* Wherever a capture of Manchester coded data ends, man_decode returns the data
\* of its complete groups.
LEMMA ManCapture ==
  ASSUME NEW data \in Seq(Bit), NEW n \in 0..(2 * Len(data))
  PROVE  man_decode(Capture(Encode(data, 2, ManCode), n)) =
           SubSeq(data, 1, n \div 2)
<1> DEFINE wave == Encode(data, 2, ManCode)
           cap == Capture(wave, n)
<1>1. /\ wave \in Seq(Bit) /\ Len(wave) = 2 * Len(data) /\ Len(data) \in Nat
      /\ \A k \in 1..Len(data) :
            wave[2 * k - 1] = data[k] /\ wave[2 * k] = 1 - data[k]
  BY ManAir, LenProperties
<1> HIDE DEF wave
<1>2. cap \in Seq(Bit) /\ Len(cap) = n /\ \A i \in 1..n : cap[i] = wave[i]
  BY <1>1, CaptureBits
<1> HIDE DEF cap
<1>3. ASSUME NEW k \in 1..(n \div 2)
      PROVE  (IF cap[2 * k - 1] = cap[2 * k] THEN 2 ELSE cap[2 * k - 1]) = data[k]
  <2>1. k \in 1..Len(data) /\ 2 * k - 1 \in 1..n /\ 2 * k \in 1..n
    BY <1>1
  <2>2. data[k] \in {0, 1}
    BY <2>1, ElementOfSeq DEF Bit
  <2>3. QED
    BY <1>1, <1>2, <2>1, <2>2
<1>4. man_decode(cap) = [k \in 1..(n \div 2) |-> data[k]]
  BY <1>2, <1>3, ManSymbols
<1>5. n \div 2 \in 0..Len(data)
  BY <1>1
<1>6. SubSeq(data, 1, n \div 2) = [k \in 1..(n \div 2) |-> data[k]]
  BY <1>1, <1>5, SubSeqProperties
<1>7. QED
  BY <1>4, <1>6 DEF cap, wave

\* A bit received wrong makes its group an x, and changes nothing else.
LEMMA ManFlip ==
  ASSUME NEW data \in Seq(Bit), NEW p \in 1..(2 * Len(data))
  PROVE  man_decode(Flip(Encode(data, 2, ManCode), p)) =
           [data EXCEPT ![(p + 1) \div 2] = 2]
<1> DEFINE wave == Encode(data, 2, ManCode)
           bad == Flip(wave, p)
           q == (p + 1) \div 2
<1>1. /\ wave \in Seq(Bit) /\ Len(wave) = 2 * Len(data) /\ Len(data) \in Nat
      /\ \A k \in 1..Len(data) :
            wave[2 * k - 1] = data[k] /\ wave[2 * k] = 1 - data[k]
  BY ManAir, LenProperties
<1> HIDE DEF wave
<1>2. /\ \A i \in 1..Len(wave) : bad[i] = IF i = p THEN 1 - wave[i] ELSE wave[i]
      /\ DOMAIN bad = 1..Len(wave)
  <2>1. wave \in [1..Len(wave) -> Bit]
    BY <1>1, LenProperties
  <2>2. QED
    BY <2>1 DEF Flip
<1>3. bad \in Seq(Bit) /\ Len(bad) = 2 * Len(data)
  <2>1. \A i \in 1..Len(wave) : wave[i] \in {0, 1}
    BY <1>1, ElementOfSeq DEF Bit
  <2>2. \A i \in 1..Len(wave) : bad[i] \in Bit
    BY <1>2, <2>1 DEF Bit
  <2>3. bad = [i \in 1..Len(wave) |-> bad[i]]
    BY <1>2 DEF Flip
  <2>4. bad \in [1..Len(wave) -> Bit]
    BY <2>2, <2>3
  <2>5. QED
    BY <1>1, <2>4, LenProperties
<1> HIDE DEF bad
<1>4. q \in 1..Len(data) /\ (p = 2 * q - 1 \/ p = 2 * q)
  BY <1>1
<1> HIDE DEF q
<1>5. ASSUME NEW k \in 1..Len(data)
      PROVE  (IF bad[2 * k - 1] = bad[2 * k] THEN 2 ELSE bad[2 * k - 1])
               = IF k = q THEN 2 ELSE data[k]
  <2>1. /\ 2 * k - 1 \in 1..Len(wave) /\ 2 * k \in 1..Len(wave)
        /\ 2 * k - 1 # 2 * k
        /\ k # q => p # 2 * k - 1 /\ p # 2 * k
    BY <1>1, <1>4
  <2>2. data[k] \in {0, 1} /\ wave[2 * k - 1] = data[k] /\ wave[2 * k] = 1 - data[k]
    BY <1>1, ElementOfSeq DEF Bit
  <2>3. CASE k # q
    BY <1>2, <2>1, <2>2, <2>3
  <2>4. CASE k = q
    <3>1. bad[2 * k - 1] = bad[2 * k]
      BY <1>2, <1>4, <2>1, <2>2, <2>4
    <3>2. QED
      BY <2>4, <3>1
  <2>5. QED
    BY <2>3, <2>4
<1>6. man_decode(bad) = [k \in 1..Len(data) |-> IF k = q THEN 2 ELSE data[k]]
  <2>1. Len(bad) \div 2 = Len(data)
    BY <1>1, <1>3
  <2>2. QED
    BY <1>3, <1>5, <2>1, ManSymbols
<1>7. [data EXCEPT ![q] = 2] = [k \in 1..Len(data) |-> IF k = q THEN 2 ELSE data[k]]
  <2>1. data \in [1..Len(data) -> Bit]
    BY LenProperties
  <2>2. QED
    BY <2>1, <1>4
<1>8. QED
  BY <1>6, <1>7 DEF bad, wave, q

\* Whatever data is sent, and wherever the capture ends, man_decode returns the
\* data of the complete groups, and an x for a group with a bit received wrong.
THEOREM ManchesterInverts == Spec => []ManchesterDecodes
<1>1. Init => DecoderInv
  BY DecoderInit
<1>2. DecoderInv => ManchesterDecodes
  <2> SUFFICES ASSUME sent \in Seq(Bit) PROVE ManchesterDecodes
    BY DEF DecoderInv, TypeOK
  <2> DEFINE wave == Encode(sent, 2, ManCode)
  <2>1. Len(wave) = 2 * Len(sent)
    BY ManAir
  <2>2. /\ \A n \in 0..(2 * Len(sent)) :
             man_decode(Capture(wave, n)) = SubSeq(sent, 1, n \div 2)
        /\ \A p \in 1..(2 * Len(sent)) :
             man_decode(Flip(wave, p)) = [sent EXCEPT ![(p + 1) \div 2] = 2]
    BY ManCapture, ManFlip
  <2> HIDE DEF wave
  <2>3. QED
    BY <2>1, <2>2 DEF ManchesterDecodes, wave
<1>3. QED
  BY <1>1, <1>2, DecoderStep, PTL DEF Spec

-----------------------------------------------------------------------------
(* Pulse width code                                                        *)

\* What pwm_decode makes of any array: a group that is incomplete, or does not
\* begin with a 1 and end with a 0, is an x.
LEMMA PwmSymbols ==
  ASSUME NEW array \in Seq(Bit)
  PROVE  pwm_decode(array) =
           [k \in 1..((Len(array) + 1) \div 3) |->
              IF 3 * k <= Len(array) /\ array[3 * k - 2] = 1 /\ array[3 * k] = 0
              THEN 1 - array[3 * k - 1] ELSE 2]
<1>1. Len(array) \in Nat /\ Groups(array, 3) = (Len(array) + 1) \div 3
  BY LenProperties DEF Groups
<1>2. ASSUME NEW k \in 1..((Len(array) + 1) \div 3)
      PROVE  PwmSymbol(Group(array, k, 3)) =
               IF 3 * k <= Len(array) /\ array[3 * k - 2] = 1 /\ array[3 * k] = 0
               THEN 1 - array[3 * k - 1] ELSE 2
  <2>1. /\ 3 * k <= Len(array) + 1 /\ k \in Nat /\ k >= 1
        /\ 3 * (k - 1) + 1 = 3 * k - 2 /\ 3 * (k - 1) + 2 = 3 * k - 1
        /\ 3 * (k - 1) + 3 = 3 * k
    BY <1>1
  <2>2. CASE 3 * k <= Len(array)
    <3>1. /\ array[3 * k - 2] \in {0, 1} /\ array[3 * k - 1] \in {0, 1}
          /\ array[3 * k] \in {0, 1}
      BY <1>1, <2>1, <2>2, ElementOfSeq DEF Bit
    <3>2. Group(array, k, 3) = [j \in 1..3 |-> array[3 * (k - 1) + j]]
      BY <2>1, <2>2 DEF Group
    <3>3. [j \in 1..3 |-> array[3 * (k - 1) + j]]
            = <<array[3 * k - 2], array[3 * k - 1], array[3 * k]>>
      BY <2>1
    <3>4. QED
      BY <2>2, <3>1, <3>2, <3>3 DEF PwmSymbol
  <2>3. CASE 3 * k = Len(array) + 1
    <3>1. Group(array, k, 3) = [j \in 1..2 |-> array[3 * (k - 1) + j]]
      BY <1>1, <2>1, <2>3 DEF Group
    <3>2. [j \in 1..2 |-> array[3 * (k - 1) + j]]
            = <<array[3 * k - 2], array[3 * k - 1]>>
      BY <2>1
    <3>3. ~(3 * k <= Len(array))
      BY <1>1, <2>3
    <3> DEFINE two == <<array[3 * k - 2], array[3 * k - 1]>>
    <3>4. Len(two) = 2
      OBVIOUS
    <3> HIDE DEF two
    <3>5. two # <<1, 0, 0>> /\ two # <<1, 1, 0>>
      <4>1. two = <<1, 0, 0>> => Len(two) = 3
        OBVIOUS
      <4>2. two = <<1, 1, 0>> => Len(two) = 3
        OBVIOUS
      <4>3. ~(Len(two) = 3)
        BY <3>4
      <4>4. QED
        BY <4>1, <4>2, <4>3, Zenon
    <3>6. PwmSymbol(two) = 2
      BY <3>5 DEF PwmSymbol
    <3>7. QED
      BY <3>1, <3>2, <3>3, <3>6 DEF two
  <2>4. QED
    BY <1>1, <2>1, <2>2, <2>3
<1>3. QED
  BY <1>1, <1>2 DEF pwm_decode

\* The bits on the air that stand for the k-th bit of data.
LEMMA PwmAir ==
  ASSUME NEW data \in Seq(Bit)
  PROVE  LET wave == Encode(data, 3, PwmCode) IN
         /\ wave \in Seq(Bit) /\ Len(wave) = 3 * Len(data)
         /\ \A k \in 1..Len(data) :
               /\ wave[3 * k - 2] = 1 /\ wave[3 * k - 1] = 1 - data[k]
               /\ wave[3 * k] = 0
<1> DEFINE wave == Encode(data, 3, PwmCode)
<1>1. Len(data) \in Nat /\ 3 * Len(data) \in Nat
  BY LenProperties
<1>2. \A bit \in Bit : PwmCode[bit] = <<1, 1 - bit, 0>>
  BY DEF PwmCode, Bit
<1>3. \A i \in 1..(3 * Len(data)) :
        wave[i] = PwmCode[data[1 + (i - 1) \div 3]][1 + ((i - 1) % 3)]
  BY DEF Encode
<1>4. ASSUME NEW k \in 1..Len(data)
      PROVE  wave[3 * k - 2] = 1 /\ wave[3 * k - 1] = 1 - data[k] /\ wave[3 * k] = 0
  <2>1. /\ 3 * k - 2 \in 1..(3 * Len(data)) /\ 3 * k - 1 \in 1..(3 * Len(data))
        /\ 3 * k \in 1..(3 * Len(data))
        /\ 1 + (3 * k - 2 - 1) \div 3 = k /\ 1 + ((3 * k - 2 - 1) % 3) = 1
        /\ 1 + (3 * k - 1 - 1) \div 3 = k /\ 1 + ((3 * k - 1 - 1) % 3) = 2
        /\ 1 + (3 * k - 1) \div 3 = k /\ 1 + ((3 * k - 1) % 3) = 3
    BY <1>1
  <2>2. data[k] \in Bit
    BY ElementOfSeq
  <2>3. /\ wave[3 * k - 2] = PwmCode[data[k]][1]
        /\ wave[3 * k - 1] = PwmCode[data[k]][2] /\ wave[3 * k] = PwmCode[data[k]][3]
    BY <1>3, <2>1
  <2>4. QED
    BY <1>2, <2>2, <2>3
<1>5. ASSUME NEW i \in 1..(3 * Len(data)) PROVE wave[i] \in Bit
  <2>1. PICK k \in 1..Len(data) : i = 3 * k - 2 \/ i = 3 * k - 1 \/ i = 3 * k
    <3>1. LET k == (i + 2) \div 3
          IN  k \in 1..Len(data) /\ (i = 3 * k - 2 \/ i = 3 * k - 1 \/ i = 3 * k)
      BY <1>1
    <3>2. QED
      BY <3>1
  <2>2. data[k] \in {0, 1}
    BY ElementOfSeq DEF Bit
  <2> HIDE DEF wave
  <2>3. wave[3 * k - 2] = 1 /\ wave[3 * k - 1] = 1 - data[k] /\ wave[3 * k] = 0
    BY <1>4
  <2>4. wave[i] = 1 \/ wave[i] = 1 - data[k] \/ wave[i] = 0
    BY <2>1, <2>3
  <2>5. QED
    BY <2>2, <2>4 DEF Bit
<1>6. wave \in [1..(3 * Len(data)) -> Bit]
  BY <1>5 DEF Encode
<1>7. wave \in Seq(Bit) /\ Len(wave) = 3 * Len(data)
  BY <1>1, <1>6, LenProperties
<1>8. QED
  BY <1>4, <1>7

\* Wherever a capture of pulse width coded data ends, pwm_decode returns the data
\* of its complete groups, and an x for a last group of two bits.
LEMMA PwmCapture ==
  ASSUME NEW data \in Seq(Bit), NEW n \in 0..(3 * Len(data))
  PROVE  pwm_decode(Capture(Encode(data, 3, PwmCode), n)) =
           SubSeq(data, 1, n \div 3) \o (IF n % 3 = 2 THEN <<2>> ELSE <<>>)
<1> DEFINE wave == Encode(data, 3, PwmCode)
           cap == Capture(wave, n)
           whole == SubSeq(data, 1, n \div 3)
           rest == IF n % 3 = 2 THEN <<2>> ELSE <<>>
<1>1. /\ wave \in Seq(Bit) /\ Len(wave) = 3 * Len(data) /\ Len(data) \in Nat
      /\ \A k \in 1..Len(data) :
            wave[3 * k - 2] = 1 /\ wave[3 * k - 1] = 1 - data[k] /\ wave[3 * k] = 0
  BY PwmAir, LenProperties
<1> HIDE DEF wave
<1>2. cap \in Seq(Bit) /\ Len(cap) = n /\ \A i \in 1..n : cap[i] = wave[i]
  BY <1>1, CaptureBits
<1> HIDE DEF cap
<1>3. /\ n \in Nat /\ n \div 3 \in 0..Len(data)
      /\ (n + 1) \div 3 = n \div 3 + IF n % 3 = 2 THEN 1 ELSE 0
  BY <1>1
<1>4. ASSUME NEW k \in 1..((n + 1) \div 3)
      PROVE  (IF 3 * k <= n /\ cap[3 * k - 2] = 1 /\ cap[3 * k] = 0
              THEN 1 - cap[3 * k - 1] ELSE 2)
               = IF k <= n \div 3 THEN data[k] ELSE 2
  <2>1. CASE k <= n \div 3
    <3>1. /\ k \in 1..Len(data) /\ 3 * k <= n
          /\ 3 * k - 2 \in 1..n /\ 3 * k - 1 \in 1..n /\ 3 * k \in 1..n
      BY <1>1, <1>3, <2>1
    <3>2. data[k] \in {0, 1}
      BY <3>1, ElementOfSeq DEF Bit
    <3>3. cap[3 * k - 2] = 1 /\ cap[3 * k - 1] = 1 - data[k] /\ cap[3 * k] = 0
      BY <1>1, <1>2, <3>1
    <3>4. 1 - (1 - data[k]) = data[k]
      BY <3>2
    <3>5. QED
      BY <2>1, <3>1, <3>3, <3>4
  <2>2. CASE ~(k <= n \div 3)
    <3>1. ~(3 * k <= n)
      BY <1>3, <2>2
    <3>2. QED
      BY <2>2, <3>1
  <2>3. QED
    BY <2>1, <2>2
<1>5. pwm_decode(cap) = [k \in 1..((n + 1) \div 3) |->
                           IF k <= n \div 3 THEN data[k] ELSE 2]
  <2>1. Len(cap) = n /\ cap \in Seq(Bit)
    BY <1>2
  <2>2. pwm_decode(cap) =
          [k \in 1..((n + 1) \div 3) |->
             IF 3 * k <= n /\ cap[3 * k - 2] = 1 /\ cap[3 * k] = 0
             THEN 1 - cap[3 * k - 1] ELSE 2]
    BY <2>1, PwmSymbols
  <2>3. QED
    BY <1>4, <2>2
<1>6. /\ whole \in Seq(Bit) /\ Len(whole) = n \div 3
      /\ \A k \in 1..(n \div 3) : whole[k] = data[k]
  BY <1>1, <1>3, SubSeqProperties
<1> HIDE DEF whole
<1>7. whole \o rest = [k \in 1..((n + 1) \div 3) |->
                          IF k <= n \div 3 THEN data[k] ELSE 2]
  <2>1. CASE n % 3 = 2
    <3>1. rest = <<2>> /\ Len(rest) = 1 /\ (n + 1) \div 3 = n \div 3 + 1
      BY <1>3, <2>1
    <3>2. whole \o <<2>> = [k \in 1..(n \div 3 + 1) |->
                              IF k <= n \div 3 THEN whole[k] ELSE 2]
      BY <1>3, <1>6, SMTT(30)
    <3>3. QED
      BY <1>3, <1>6, <3>1, <3>2
  <2>2. CASE n % 3 # 2
    <3>1. rest = <<>> /\ (n + 1) \div 3 = n \div 3
      BY <1>3, <2>2
    <3>2. whole \o <<>> = whole
      BY <1>6
    <3>3. whole = [k \in 1..(n \div 3) |-> whole[k]]
      BY <1>6, LenProperties
    <3>4. QED
      BY <1>3, <1>6, <3>1, <3>2, <3>3, SMTT(30)
  <2>3. QED
    BY <2>1, <2>2
<1>8. QED
  BY <1>5, <1>7 DEF cap, wave, whole

\* Whatever data is sent, and wherever the capture ends, pwm_decode returns the
\* data of the complete groups, and an x if two bits more were captured.
THEOREM PulseWidthInverts == Spec => []PulseWidthDecodes
<1>1. DecoderInv => PulseWidthDecodes
  <2> SUFFICES ASSUME sent \in Seq(Bit) PROVE PulseWidthDecodes
    BY DEF DecoderInv, TypeOK
  <2> DEFINE wave == Encode(sent, 3, PwmCode)
  <2>1. Len(wave) = 3 * Len(sent)
    BY PwmAir
  <2>2. \A n \in 0..(3 * Len(sent)) :
           pwm_decode(Capture(wave, n)) =
             SubSeq(sent, 1, n \div 3) \o (IF n % 3 = 2 THEN <<2>> ELSE <<>>)
    BY PwmCapture
  <2> HIDE DEF wave
  <2>3. QED
    BY <2>1, <2>2 DEF PulseWidthDecodes, wave
<1>2. QED
  BY <1>1, DecoderInit, DecoderStep, PTL DEF Spec

-----------------------------------------------------------------------------
(* The line that format_output makes                                       *)

\* What is on the air is captured bit by bit as it is sent.
LEMMA CaptureSends == CaptureSpec => Spec
<1>1. CaptureInit => Init
  BY DEF CaptureInit
<1>2. [CaptureNext]_<<vars, air>> => [Next]_vars
  BY DEF CaptureNext, CaptureData, CaptureStuffed, Next
<1>3. QED
  BY <1>1, <1>2, PTL DEF CaptureSpec, Spec

\* The bytes decoded are those of the data.
LEMMA DecodedBytes ==
  ASSUME TypeOK, Unstuffed
  PROVE  out = DataBytes
<1> DEFINE n == Len(out)
<1>1. /\ n \in Nat /\ out = [k \in 1..n |-> out[k]]
      /\ Len(sent) \in Nat
  BY LenProperties DEF TypeOK
<1>2. /\ Len(sent) = ByteBits * n + bits /\ bits \in 0..(ByteBits - 1)
      /\ ByteBits \in Nat \ {0}
  BY LineBytesAssumption DEF Unstuffed, TypeOK
<1>3. Len(sent) \div ByteBits = n
  <2> HIDE DEF n
  <2>1. Len(sent) = n * ByteBits + bits
    BY <1>1, <1>2
  <2>2. (n * ByteBits + bits) \div ByteBits = n
    BY <1>1, <1>2, DivModUnique
  <2>3. QED
    BY <2>1, <2>2
<1>4. \A k \in 1..n :
        out[k] = {p \in 0..(ByteBits - 1) : sent[ByteBits * (k - 1) + p + 1] = 1}
  BY DEF Unstuffed, Holds
<1> HIDE DEF n
<1>5. DataBytes = [k \in 1..n |->
        {p \in 0..(ByteBits - 1) : sent[ByteBits * (k - 1) + p + 1] = 1}]
  BY <1>3 DEF DataBytes
<1>6. QED
  BY <1>1, <1>4, <1>5

LEMMA Placeholders ==
  /\ \A a, b : Placeholder(a) = Placeholder(b) <=> a = b
  /\ \A a, b, c : Placeholder(a) # Shown(b, c)
  /\ \A a : Placeholder(a).placeholder = a
<1>1. \A a : Placeholder(a).placeholder = a /\ DOMAIN Placeholder(a) = {"placeholder"}
  BY DEF Placeholder
<1>2. \A b, c : DOMAIN Shown(b, c) = {"tipe", "value"}
  BY DEF Shown
<1>3. "placeholder" \notin {"tipe", "value"}
  OBVIOUS
<1>4. QED
  BY <1>1, <1>2, <1>3

LEMMA Shows ==
  /\ Show("bits") = Shown("bits", air)
  /\ Show("hex") = Shown("hex", bites)
  /\ Show("ascii") = IF bites \in DOMAIN LooksLike
                     THEN Placeholder(LooksLike[bites]) ELSE Shown("ascii", bites)
  /\ Show("man-bits") = Shown("man-bits", man_decode(air))
  /\ Show("pwm-bits") = Shown("pwm-bits", pwm_decode(air))
  /\ Show("hdlcd") = Shown("hdlcd", out)
BY DEF Show

\* What one replacement, and what all of them, make of one piece of the line.
Become(piece, tipe) == IF piece = Placeholder(tipe) THEN Show(tipe) ELSE piece
Timed(piece, rel_time) ==
  IF \E time \in Times[rel_time] : piece = Placeholder(time)
  THEN Shown("time", piece.placeholder) ELSE piece
Decoded(piece) ==
  Become(Become(Become(piece, "man-bits"), "pwm-bits"), "hdlcd")
Final(piece) == Decoded(Become(Become(Become(piece, "bits"), "hex"), "ascii"))

\* What has been put in is not touched again.
LEMMA ShownStays ==
  ASSUME NEW b, NEW c
  PROVE  Decoded(Shown(b, c)) = Shown(b, c) /\ Final(Shown(b, c)) = Shown(b, c)
<1>1. \A tipe : Become(Shown(b, c), tipe) = Shown(b, c)
  BY Placeholders DEF Become
<1>2. QED
  BY <1>1 DEF Decoded, Final

\* A placeholder becomes what is shown for it, and other text stays.
LEMMA BecomeProperties ==
  /\ \A tipe : Become(Placeholder(tipe), tipe) = Show(tipe)
  /\ \A a, b : a # b => Become(Placeholder(a), b) = Placeholder(a)
  /\ \A piece, tipe : piece # Placeholder(tipe) => Become(piece, tipe) = piece
BY Placeholders DEF Become

LEMMA DecodedPlaceholder ==
  /\ \A tipe \in Decoders : Decoded(Placeholder(tipe)) = Show(tipe)
  /\ \A tipe : tipe \notin Decoders => Decoded(Placeholder(tipe)) = Placeholder(tipe)
<1>1. Decoded(Placeholder("man-bits")) = Show("man-bits")
  <2>1. Become(Placeholder("man-bits"), "man-bits") = Show("man-bits")
    BY BecomeProperties
  <2>2. \A tipe : Become(Show("man-bits"), tipe) = Show("man-bits")
    BY Shows, Placeholders, BecomeProperties
  <2>3. QED
    BY <2>1, <2>2 DEF Decoded
<1>2. Decoded(Placeholder("pwm-bits")) = Show("pwm-bits")
  <2>1. /\ Become(Placeholder("pwm-bits"), "man-bits") = Placeholder("pwm-bits")
        /\ Become(Placeholder("pwm-bits"), "pwm-bits") = Show("pwm-bits")
    BY BecomeProperties
  <2>2. \A tipe : Become(Show("pwm-bits"), tipe) = Show("pwm-bits")
    BY Shows, Placeholders, BecomeProperties
  <2>3. QED
    BY <2>1, <2>2 DEF Decoded
<1>3. Decoded(Placeholder("hdlcd")) = Show("hdlcd")
  BY BecomeProperties DEF Decoded
<1>4. ASSUME NEW tipe, tipe \notin Decoders
      PROVE  Decoded(Placeholder(tipe)) = Placeholder(tipe)
  BY <1>4, BecomeProperties DEF Decoded, Decoders
<1>5. QED
  BY <1>1, <1>2, <1>3, <1>4 DEF Decoders

\* The replacements one after the other make of a piece what it stands for.
LEMMA FinalMeaning ==
  ASSUME NEW piece, NEW rel_time \in RelTime, out = DataBytes
  PROVE  Final(Timed(piece, rel_time)) = Meaning(piece, rel_time)
<1> DEFINE Of(tipe) == IF tipe = "hdlcd" THEN Shown("hdlcd", DataBytes) ELSE Show(tipe)
           Known == {"bits", "hex", "ascii"} \cup Decoders
           Look == LooksLike[bites]
           Alike == bites \in DOMAIN LooksLike /\ Look \in Decoders
           IsTime == \E time \in Times[rel_time] : piece = Placeholder(time)
<1>1. \A tipe : Of(tipe) = Show(tipe)
  BY Shows
<1>2. Meaning(piece, rel_time) =
        IF IsTime THEN Shown("time", piece.placeholder)
        ELSE IF piece = Placeholder("ascii") /\ Alike THEN Of(Look)
        ELSE IF \E tipe \in Known : piece = Placeholder(tipe) THEN Of(piece.placeholder)
        ELSE piece
  BY DEF Meaning
<1>3. CASE IsTime
  BY <1>2, <1>3, ShownStays DEF Timed
<1>4. CASE ~IsTime
  <2>1. Timed(piece, rel_time) = piece
    BY <1>4 DEF Timed
  <2> HIDE DEF IsTime
  <2>2. CASE piece = Placeholder("ascii")
    <3>1. Final(piece) = Decoded(Show("ascii"))
      BY <2>2, BecomeProperties DEF Final
    <3>2. CASE Alike
      <4>1. Decoded(Show("ascii")) = Show(Look)
        BY <3>2, Shows, DecodedPlaceholder
      <4>2. QED
        BY <1>1, <1>2, <1>4, <2>1, <2>2, <3>1, <3>2, <4>1
    <3>3. CASE ~Alike
      <4>1. Decoded(Show("ascii")) = Show("ascii")
        <5>1. CASE bites \in DOMAIN LooksLike
          BY <3>3, <5>1, Shows, DecodedPlaceholder
        <5>2. CASE bites \notin DOMAIN LooksLike
          BY <5>2, Shows, ShownStays
        <5>3. QED
          BY <5>1, <5>2
      <4>2. piece.placeholder = "ascii" /\ "ascii" \in Known
        BY <2>2, Placeholders
      <4>3. Meaning(piece, rel_time) = Show("ascii")
        BY <1>1, <1>2, <1>4, <2>2, <3>3, <4>2
      <4>4. QED
        BY <2>1, <3>1, <4>1, <4>3
    <3>4. QED
      BY <3>2, <3>3
  <2>3. ASSUME NEW tipe \in {"bits", "hex"}, piece = Placeholder(tipe)
        PROVE  Final(piece) = Meaning(piece, rel_time)
    <3>1. Final(piece) = Show(tipe)
      <4>1. Become(Become(piece, "bits"), "hex") = Show(tipe)
        BY <2>3, BecomeProperties, Placeholders, Shows
      <4>2. PICK v : Show(tipe) = Shown(tipe, v)
        BY Shows
      <4>3. Become(Show(tipe), "ascii") = Show(tipe)
        BY <4>2, BecomeProperties, Placeholders
      <4>4. Decoded(Show(tipe)) = Show(tipe)
        BY <4>2, ShownStays
      <4>5. QED
        BY <4>1, <4>3, <4>4 DEF Final
    <3>2. piece.placeholder = tipe /\ piece # Placeholder("ascii")
      BY <2>3, Placeholders
    <3>3. QED
      BY <1>1, <1>2, <1>4, <2>3, <3>1, <3>2
  <2>4. ASSUME NEW tipe \in Decoders, piece = Placeholder(tipe)
        PROVE  Final(piece) = Meaning(piece, rel_time)
    <3>1. tipe \notin {"bits", "hex", "ascii"}
      BY DEF Decoders
    <3>2. Final(piece) = Show(tipe)
      BY <2>4, <3>1, BecomeProperties, DecodedPlaceholder DEF Final
    <3>3. piece.placeholder = tipe /\ piece # Placeholder("ascii")
      BY <2>4, <3>1, Placeholders
    <3>4. QED
      BY <1>1, <1>2, <1>4, <2>4, <3>2, <3>3
  <2>5. CASE \A tipe \in Known : piece # Placeholder(tipe)
    <3>1. Final(piece) = piece
      BY <2>5, BecomeProperties DEF Final, Decoded, Decoders
    <3>2. Meaning(piece, rel_time) = piece
      BY <1>2, <1>4, <2>5
    <3>3. QED
      BY <2>1, <3>1, <3>2
  <2>6. QED
    BY <2>1, <2>2, <2>3, <2>4, <2>5
<1>5. QED
  BY <1>3, <1>4

\* format_output replaces piece by piece.
LEMMA LinePieces ==
  ASSUME NEW output_fmt, NEW rel_time
  PROVE  format_output(output_fmt, rel_time) =
           [i \in DOMAIN output_fmt |-> Final(Timed(output_fmt[i], rel_time))]
<1>1. ASSUME NEW line, NEW tipe
      PROVE  Replace(line, tipe, Show(tipe)) = [i \in DOMAIN line |-> Become(line[i], tipe)]
  BY DEF Replace, Become
<1> DEFINE With(line, tipe) == [i \in DOMAIN line |-> Become(line[i], tipe)]
           timed == ReplaceTimes(output_fmt, rel_time)
           one == With(timed, "bits")
           two == With(one, "hex")
           three == With(two, "ascii")
           four == With(three, "man-bits")
           five == With(four, "pwm-bits")
           six == With(five, "hdlcd")
<1>2. format_output(output_fmt, rel_time) = six
  BY <1>1 DEF format_output
<1>3. timed = [i \in DOMAIN output_fmt |-> Timed(output_fmt[i], rel_time)]
  BY DEF ReplaceTimes, Timed
<1> HIDE DEF timed
<1>4. three = [i \in DOMAIN output_fmt |->
        Become(Become(Become(Timed(output_fmt[i], rel_time), "bits"), "hex"), "ascii")]
  BY <1>3
<1> HIDE DEF three
<1>5. six = [i \in DOMAIN output_fmt |-> Final(Timed(output_fmt[i], rel_time))]
  BY <1>4 DEF Final, Decoded
<1>6. QED
  BY <1>2, <1>5

\* For captures of any length, formats of any pieces and any bytes that read
\* like a placeholder: the line has in the place of each placeholder what it
\* stands for.
THEOREM LineIsRight == CaptureSpec => []LineShowsCapture
<1>1. TypeOK /\ Unstuffed => LineShowsCapture
  BY DecodedBytes, LinePieces, FinalMeaning DEF LineShowsCapture
<1>2. QED
  BY <1>1, CaptureSends, TypeCorrect, HdlcInverts, PTL
=============================================================================
