---------------------------- MODULE FormatOutput ----------------------------
(***************************************************************************)
(* format_output of packet_formatter.py: the line that a PDU becomes.  The *)
(* format string is a sequence of pieces, text or placeholders as          *)
(* %(bits[0:4]).  The loop goes through the placeholders of the format     *)
(* string, while it replaces them in the line, one by one (Substitute).    *)
(*                                                                         *)
(* What a placeholder becomes is again a piece, which shows its bits in    *)
(* some way, or the pieces of the name, or those that the bytes read as in *)
(* ASCII: both are text that may itself have placeholders in it.  The time *)
(* stamp is a piece of its own.                                            *)
(***************************************************************************)
EXTENDS Integers, Sequences, SequencesExt, FiniteSetsExt, Subsequences

CONSTANTS
  ByteBits,  \* bits in a byte, 8 in the code
  Formats,   \* the format strings considered
  Names,     \* the names in the metadata of the PDUs
  Packets,   \* their bits, unpacked
  Reads      \* the bytes with placeholders in them if read as ASCII, and their pieces

ASSUME FormatBytesAssumption == ByteBits \in Nat \ {0}

\* What a format string, or a name, is made of: text, or a placeholder, where
\* form is "all" for %(bits), "at" for %(bits[i]), "from" for %(bits[i:]),
\* "range" for %(bits[i:j]) and "to" for %(bits[:j]).
Piece == [tipe : STRING, form : {"all", "at", "from", "range", "to"},
          i : Int, j : Int]

ASSUME PiecesAssumption ==
  /\ Formats \subseteq Seq(Piece) /\ Names \subseteq Seq(Piece)
  /\ Packets \subseteq Seq({0, 1})
  /\ \A bytes \in DOMAIN Reads : Reads[bytes] \in Seq(Piece)

VARIABLES
  format_str,  \* the constructor's argument
  name, bits,  \* the name and the bits of the PDU
  matches,     \* the placeholders that the loop has still to handle
  out,         \* the line so far
  status       \* "formatting", "returned", or "ValueError" once it is raised

vars == <<format_str, name, bits, matches, out, status>>

-----------------------------------------------------------------------------
(* Placeholders                                                            *)

\* Text is a piece of tipe "text".
IsMatch(piece) == piece.tipe # "text"

\* The others, man-bits among them, are left in the line as they are.
Known(p) == p.tipe \in {"name", "ts", "bits", "hex", "int", "ascii"}

\* An index of a slice: it counts from the end if it is negative, and one
\* beyond an end means the end.
Clamp(i) == LET n == Len(bits)
            IN  Max({0, Min({n, IF i < 0 THEN i + n ELSE i})})

\* Mutant: an index selects what comes before it.
StopBefore(p) == IF p.form \in {"all", "from"} THEN Len(bits)
                 ELSE Clamp(IF p.form = "at" THEN p.i ELSE p.j)

Start(p) == IF p.form = "all" THEN 0 ELSE Clamp(p.i)
Stop(p) == IF p.form \in {"all", "from"} THEN Len(bits)
           ELSE Clamp(IF p.form = "at" THEN p.i + 1 ELSE p.j)

sub_bits(p) == SubSeq(bits, Start(p) + 1, Stop(p))

\* packbits(): whole bytes, the last filled with zeros.
l_bites(b) ==
  b \o [k \in 1..((ByteBits - (Len(b) % ByteBits)) % ByteBits) |-> 0]

\* int(..., 2): leading zeros count for nothing.
Number(b) == SubSeq(b, SelectInSeq(b \o <<1>>, LAMBDA x : x = 1), Len(b))

\* How bits b are shown for the placeholder p.
Show(p, b) ==
  CASE p.tipe = "name" -> name
    [] p.tipe = "ts" -> << [tipe |-> "ts", shown |-> <<>>] >>
    [] p.tipe = "bits" -> << [tipe |-> "bits", shown |-> b] >>
    [] p.tipe = "int" -> << [tipe |-> "int", shown |-> Number(b)] >>
    [] p.tipe = "ascii" /\ l_bites(b) \in DOMAIN Reads -> Reads[l_bites(b)]
    [] OTHER -> << [tipe |-> p.tipe, shown |-> l_bites(b)] >>

\* No number comes before the colon, or no bits are to be shown as a number.
Raises(p) == p.form = "to" \/ (p.tipe = "int" /\ sub_bits(p) = <<>>)

\* out.replace(to_replace, tmp, 1): the first in the line, whichever was meant.
Replace(line, p, pieces) ==
  LET places == {i \in DOMAIN line : line[i] = p}
      first == Min(places)
  IN  IF places = {} THEN line
      ELSE SubSeq(line, 1, first - 1) \o pieces \o SubSeq(line, first + 1, Len(line))

-----------------------------------------------------------------------------
Init ==
  /\ format_str \in Formats /\ name \in Names /\ bits \in Packets
  /\ matches = Chosen(format_str, {i \in DOMAIN format_str : IsMatch(format_str[i])})
  /\ out = format_str
  /\ status = "formatting"

\* The next placeholder, which the loop takes from the format string.
NextMatch ==
  /\ status = "formatting" /\ matches # <<>>
  /\ matches' = Tail(matches)
  /\ UNCHANGED <<format_str, name, bits>>

Substitute ==
  /\ NextMatch
  /\ LET p == Head(matches) IN
       /\ ~Raises(p) /\ Known(p)
       /\ out' = Replace(out, p, Show(p, sub_bits(p)))
  /\ UNCHANGED status

Skip ==
  /\ NextMatch
  /\ ~Raises(Head(matches)) /\ ~Known(Head(matches))
  /\ UNCHANGED <<out, status>>

Raise ==
  /\ NextMatch
  /\ Raises(Head(matches))
  /\ status' = "ValueError"
  /\ UNCHANGED out

Return ==
  /\ status = "formatting" /\ matches = <<>>
  /\ status' = "returned"
  /\ UNCHANGED <<format_str, name, bits, matches, out>>

Next == Substitute \/ Skip \/ Raise \/ Return

Spec == Init /\ [][Next]_vars

-----------------------------------------------------------------------------
(* Properties                                                              *)

\* The bits that a placeholder stands for, as the block's doc string has it:
\* their positions, counted from zero, or from the end if an index is negative.
\* The last bit of all has no index of its own: -1 is followed by 0.
Positions(p) ==
  LET Place(i) == IF i < 0 THEN i + Len(bits) ELSE i
  IN  { k \in 0..(Len(bits) - 1) :
          CASE p.form = "all"   -> TRUE
            [] p.form = "at"    -> k = Place(p.i) /\ p.i # -1
            [] p.form = "from"  -> k >= Place(p.i)
            [] p.form = "range" -> Place(p.i) <= k /\ k < Place(p.j)
            [] OTHER            -> FALSE }

BitsAt(positions) == Chosen(bits, {k + 1 : k \in positions})

Meaning(piece) ==
  IF IsMatch(piece) /\ Known(piece) THEN Show(piece, BitsAt(Positions(piece)))
  ELSE <<piece>>

\* No placeholder comes after text put in for another that has it in it.
NoneMistaken ==
  \A k \in DOMAIN format_str : Known(format_str[k]) =>
    \A i \in 1..(k - 1) : format_str[k] \notin ToSet(Meaning(format_str[i]))

\* The line returned is the format string with each placeholder replaced by
\* what it stands for, in its place, though equal placeholders are found again
\* from the left each time, and though a name, or the bytes of the packet, may
\* read like placeholders: but for those that come after in the format string.
LineIsItsFormat ==
  (status = "returned" /\ NoneMistaken)
    => out = FlattenSeq([i \in DOMAIN format_str |-> Meaning(format_str[i])])

\* The handler in handle_pdu reports "IndexError: Ran out of bits?": no line is
\* made of a placeholder for a bit that the packet does not have.
RanOutOfBits ==
  status = "returned" =>
    \A p \in ToSet(format_str) : (Known(p) /\ p.form = "at") => p.i < Len(bits)
=============================================================================
