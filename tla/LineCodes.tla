------------------------------ MODULE LineCodes ------------------------------
(***************************************************************************)
(* The decoders of pattern_dump.py: man_decode, pwm_decode and             *)
(* hdlc_data_decode, and the transmitters whose bits they are given.       *)
(*                                                                         *)
(* The transmitter sends one bit of data at a time.  The first two codes   *)
(* turn a bit into a group of bits, so what has been sent determines what  *)
(* was on the air.  HDLC inserts a zero after five ones (Stuff); here the  *)
(* loop of hdlc_data_decode handles each bit as it is sent, so that every  *)
(* state shows what it makes of a capture that ends there.                 *)
(***************************************************************************)
EXTENDS Integers, Sequences

CONSTANTS
  ByteBits,  \* bits in a byte, 8 in the code
  MaxSent    \* bound: the number of bits of data sent

ASSUME LineBytesAssumption == ByteBits \in Nat \ {0}

VARIABLES
  sent,   \* the bits of data sent
  run,    \* transmitter: the ones just sent, none stuffed after them yet
  obyte,  \* decoder: the positions of the ones in the byte being decoded
  bits,   \* decoder: how many of its bits are known
  ones,   \* decoder: the ones just read
  out     \* decoder: the bytes decoded, each the set of positions of its ones

vars == <<sent, run, obyte, bits, ones, out>>

-----------------------------------------------------------------------------
(* Manchester and pulse width codes                                        *)

Bit == {0, 1}

\* Each bit of data as a group of bits.
ManCode == [bit \in Bit |-> IF bit = 0 THEN <<0, 1>> ELSE <<1, 0>>]
PwmCode == [bit \in Bit |-> IF bit = 0 THEN <<1, 1, 0>> ELSE <<1, 0, 0>>]

\* What is on the air: for each bit of data the n bits that stand for it.
Encode(data, n, code) ==
  [k \in 1..(n * Len(data)) |->
     code[data[1 + (k - 1) \div n]][1 + ((k - 1) % n)]]

\* The k-th group of n bits, fewer if the array ends before.
Group(array, k, n) ==
  [j \in 1..(IF n * k <= Len(array) THEN n ELSE Len(array) - n * (k - 1))
       |-> array[n * (k - 1) + j]]

\* Mutant: the loop runs to the end of the array.
AllGroups(array, n) == (Len(array) + n - 1) \div n

\* The values of xrange(0, len - 1, n).
Groups(array, n) == (Len(array) + n - 2) \div n

\* Mutant: the second bit of a group is not looked at.
ManSymbolHalf(group) == group[1]

\* The digit of a group: 2 stands for the 'x' of a group that is no code.
ManSymbol(group) == IF group = <<0, 1>> THEN 0
                    ELSE IF group = <<1, 0>> THEN 1 ELSE 2
PwmSymbol(group) == IF group = <<1, 0, 0>> THEN 1
                    ELSE IF group = <<1, 1, 0>> THEN 0 ELSE 2

man_decode(array) ==
  [k \in 1..Groups(array, 2) |-> ManSymbol(Group(array, k, 2))]

pwm_decode(array) ==
  [k \in 1..Groups(array, 3) |-> PwmSymbol(Group(array, k, 3))]

-----------------------------------------------------------------------------
(* HDLC                                                                    *)

Init ==
  /\ sent = <<>> /\ run = 0
  /\ obyte = {} /\ bits = 0 /\ ones = 0
  /\ out = <<>>

\* The end of the loop: a byte whose bits are all known is put out.
PutOut(byte, n) ==
  \/ n = ByteBits /\ out' = Append(out, byte) /\ obyte' = {} /\ bits' = 0
  \/ n # ByteBits /\ obyte' = byte /\ bits' = n /\ UNCHANGED out

\* Mutant: the count of ones starts anew with each byte.
ReadOnePerByte ==
  /\ ones' = IF bits + 1 = ByteBits THEN 0 ELSE ones + 1
  /\ PutOut(obyte \cup {bits}, bits + 1)

\* Mutant: the one is put at the next position.
ReadOneNext == ones' = ones + 1 /\ PutOut(obyte \cup {bits + 1}, bits + 1)

ReadOne == ones' = ones + 1 /\ PutOut(obyte \cup {bits}, bits + 1)

\* A zero after five ones is dropped.
ReadZero ==
  /\ ones' = 0
  /\ PutOut(obyte, IF ones # 5 THEN bits + 1 ELSE bits)

\* The transmitter sends a bit of data, least significant first.
Send(bit) ==
  /\ Len(sent) < MaxSent
  /\ run # 5
  /\ sent' = Append(sent, bit)
  /\ \/ bit = 0 /\ run' = 0 /\ ReadZero
     \/ bit = 1 /\ run' = run + 1 /\ ReadOne

\* After five ones it sends a zero that is no data.
Stuff ==
  /\ run = 5
  /\ run' = 0
  /\ ReadZero
  /\ UNCHANGED sent

Next == (\E bit \in Bit : Send(bit)) \/ Stuff

Spec == Init /\ [][Next]_vars

-----------------------------------------------------------------------------
(* Properties                                                              *)

\* Types; no byte is complete before the end of the loop puts it out.
TypeOK ==
  /\ sent \in Seq(Bit)
  /\ run \in 0..5 /\ ones \in 0..5
  /\ bits \in 0..(ByteBits - 1)
  /\ obyte \in SUBSET (0..(bits - 1))
  /\ out \in Seq(SUBSET (0..(ByteBits - 1)))

\* A set of positions is that of the ones among n bits of data after the first
\* k.
Holds(byte, k, n) == byte = { p \in 0..(n - 1) : sent[k + p + 1] = 1 }

\* "%[hdlcd]: HDLC payload data, un-zero-stuffed and bit reversed": wherever
\* the capture ends, the bytes decoded are the whole bytes of the data sent,
\* in order, and the bits left over are the beginning of the next; the decoder
\* knows as the transmitter does how many ones have come.
Unstuffed ==
  /\ ones = run
  /\ Len(sent) = ByteBits * Len(out) + bits
  /\ \A k \in 1..Len(out) : Holds(out[k], ByteBits * (k - 1), ByteBits)
  /\ Holds(obyte, ByteBits * Len(out), bits)

\* A capture of the first n bits, and a bit received wrong.
Capture(array, n) == SubSeq(array, 1, n)
Flip(array, p) == [array EXCEPT ![p] = 1 - @]

\* "%[man-bits]": wherever the capture ends, it decodes to the data of its
\* complete groups; a bit received wrong shows as one x, in its group.
ManchesterDecodes ==
  LET air == Encode(sent, 2, ManCode) IN
  /\ \A n \in 0..Len(air) :
       man_decode(Capture(air, n)) = SubSeq(sent, 1, n \div 2)
  /\ \A p \in 1..Len(air) :
       man_decode(Flip(air, p)) = [sent EXCEPT ![(p + 1) \div 2] = 2]

\* "%[pwm-bits] 100 = 1, 110 = 0": a capture decodes to the data of its
\* complete groups, and an x if two bits more were captured.
PulseWidthDecodes ==
  LET air == Encode(sent, 3, PwmCode) IN
  \A n \in 0..Len(air) :
    pwm_decode(Capture(air, n)) =
      SubSeq(sent, 1, n \div 3) \o (IF n % 3 = 2 THEN <<2>> ELSE <<>>)
=============================================================================
