------------------------------ MODULE DumpFormat ------------------------------
(***************************************************************************)
(* format_output of pattern_dump.py: the line that the bits after a pattern*)
(* become.  It has the placeholders of the format replaced one kind after  *)
(* the other, so that what was put in for one is searched for the next.    *)
(*                                                                         *)
(* The bits are those on the air while the transmitter of LineCodes sends  *)
(* HDLC; every state is a capture that ends there, and the state of the    *)
(* decoder what hdlc_data_decode makes of it.                              *)
(***************************************************************************)
EXTENDS LineCodes, SequencesExt

CONSTANTS
  Formats,   \* the format strings, sequences of placeholders and text
  LooksLike  \* the bytes that are a placeholder if read as ASCII, and which

VARIABLE air  \* the bits captured, the stuffed ones among them

\* %s and %H for the time; %[bits] and so on; any other text.
Placeholder(tipe) == [placeholder |-> tipe]
Shown(tipe, value) == [tipe |-> tipe, value |-> value]

\* packbits(): whole bytes, the last filled with zeros.
bites == air \o [k \in 1..((ByteBits - (Len(air) % ByteBits)) % ByteBits) |-> 0]

\* What the placeholders of each kind become.
Show(tipe) ==
  CASE tipe = "bits"     -> Shown("bits", air)
    [] tipe = "hex"      -> Shown("hex", bites)
    [] tipe = "ascii"    -> IF bites \in DOMAIN LooksLike
                            THEN Placeholder(LooksLike[bites])
                            ELSE Shown("ascii", bites)
    [] tipe = "man-bits" -> Shown("man-bits", man_decode(air))
    [] tipe = "pwm-bits" -> Shown("pwm-bits", pwm_decode(air))
    [] tipe = "hdlcd"    -> Shown("hdlcd", out)

\* Mutant: replace(.., .., 1), as packet_formatter has it.
ReplaceFirst(line, tipe, piece) ==
  ReplaceFirstSubSeq(<<piece>>, <<Placeholder(tipe)>>, line)

\* out.replace('%[..]', ..)
Replace(line, tipe, piece) ==
  [i \in DOMAIN line |-> IF line[i] = Placeholder(tipe) THEN piece ELSE line[i]]

\* rel_time: None leaves the time out, True knows %s only, and False hands the
\* format to strftime, which leaves %[ as it is.
RelTime == {"None", "True", "False"}
Times == [None |-> {}, True |-> {"%s"}, False |-> {"%s", "%H"}]

ReplaceTimes(line, rel_time) ==
  [i \in DOMAIN line |->
     IF \E time \in Times[rel_time] : line[i] = Placeholder(time)
     THEN Shown("time", line[i].placeholder) ELSE line[i]]

format_output(output_fmt, rel_time) ==
  LET With(line, tipe) == Replace(line, tipe, Show(tipe))
      timed == ReplaceTimes(output_fmt, rel_time)
      plain == With(With(With(timed, "bits"), "hex"), "ascii")
  IN  With(With(With(plain, "man-bits"), "pwm-bits"), "hdlcd")

-----------------------------------------------------------------------------
CaptureInit == Init /\ air = <<>>

CaptureData ==
  \E bit \in Bit : Send(bit) /\ air' = Append(air, bit)

CaptureStuffed == Stuff /\ air' = Append(air, 0)

CaptureNext == CaptureData \/ CaptureStuffed

CaptureSpec == CaptureInit /\ [][CaptureNext]_<<vars, air>>

-----------------------------------------------------------------------------
(* Properties                                                              *)

\* The whole bytes of the data sent, as the positions of their ones.
DataBytes ==
  [k \in 1..(Len(sent) \div ByteBits) |->
     {p \in 0..(ByteBits - 1) : sent[ByteBits * (k - 1) + p + 1] = 1}]

Decoders == {"man-bits", "pwm-bits", "hdlcd"}

\* What a piece of the format stands for, told without regard to the others.
Meaning(piece, rel_time) ==
  LET Of(tipe) == IF tipe = "hdlcd" THEN Shown("hdlcd", DataBytes) ELSE Show(tipe)
  IN  IF piece \in {Placeholder(time) : time \in Times[rel_time]}
      THEN Shown("time", piece.placeholder)
      ELSE IF piece = Placeholder("ascii") /\ bites \in DOMAIN LooksLike
              /\ LooksLike[bites] \in Decoders
      THEN Of(LooksLike[bites])
      ELSE IF piece \in {Placeholder(tipe) : tipe \in {"bits", "hex", "ascii"} \cup Decoders}
      THEN Of(piece.placeholder)
      ELSE piece

\* "Output Fmt Variables": the line has what each placeholder stands for in the
\* place of each, %[hdlcd] being the data sent, whatever is put in for the
\* others: but for captured bytes that read %[man-bits], %[pwm-bits] or
\* %[hdlcd], which are themselves decoded.
LineShowsCapture ==
  \A output_fmt \in Formats, rel_time \in RelTime :
    format_output(output_fmt, rel_time) =
      [i \in DOMAIN output_fmt |-> Meaning(output_fmt[i], rel_time)]
=============================================================================
