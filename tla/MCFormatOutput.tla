--------------------------- MODULE MCFormatOutput ---------------------------
(* FormatOutput for TLC: every format string of at most three pieces.      *)
EXTENDS FormatOutput

Text == [tipe |-> "text", form |-> "all", i |-> 0, j |-> 0]
Whole(tipe) == [tipe |-> tipe, form |-> "all", i |-> 0, j |-> 0]
At(tipe, i) == [tipe |-> tipe, form |-> "at", i |-> i, j |-> 0]
From(tipe, i) == [tipe |-> tipe, form |-> "from", i |-> i, j |-> 0]
Slice(tipe, i, j) == [tipe |-> tipe, form |-> "range", i |-> i, j |-> j]
To(tipe, j) == [tipe |-> tipe, form |-> "to", i |-> 0, j |-> j]

Pieces == { Text, Whole("name"), Whole("ts"), Whole("man-bits"), At("bits", 2),
            Slice("hex", 1, 4), From("int", 3), To("ascii", 2),
            From("ascii", -3), At("bits", -2) }

ShortFormats == UNION { [1..n -> Pieces] : n \in 0..3 }

\* An ordinary name, and one that looks like a placeholder.
TwoNames == { <<Text>>, <<At("bits", 2)>> }

\* Bytes with a placeholder in them, or more: of the packet of four bits, and of
\* that of six.
PlaceholderBytes ==
  [bytes \in {<<1, 0, 1>>, <<0, 0, 1>>} |->
     IF bytes = <<1, 0, 1>> THEN <<Text, At("bits", 2)>>
     ELSE <<Whole("name"), From("ascii", -3), Text>>]

\* Packets that have the bits addressed, or only some, or none.
ShortPackets == { <<>>, <<1, 0>>, <<1, 1, 0, 1>>, <<0, 1, 1, 0, 0, 1>> }
=============================================================================
