----------------------------- MODULE MCDumpFormat -----------------------------
(* DumpFormat for TLC: every format string of at most two pieces, and three*)
(* captures that read like placeholders, one replaced before %[ascii], one *)
(* of a decoder, and %[ascii] itself.                                      *)
EXTENDS DumpFormat

Pieces == {Placeholder(tipe) : tipe \in {"%s", "%H", "bits", "hex", "ascii",
                                         "man-bits", "pwm-bits", "hdlcd"}}
          \cup {Shown("text", <<>>)}

ShortFormats == UNION { [1..n -> Pieces] : n \in 0..2 }

Lookalikes == [bytes \in {<<1, 0, 1>>, <<0, 1, 1, 0, 0, 0>>, <<1, 1, 1>>} |->
                 CASE bytes = <<1, 0, 1>> -> "bits"
                   [] bytes = <<1, 1, 1>> -> "ascii"
                   [] OTHER -> "hdlcd"]
=============================================================================
