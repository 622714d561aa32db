---------------------------- MODULE MCPatternDump ----------------------------
(* PatternDump for TLC: patterns with and without a border, short outputs. *)
EXTENDS PatternDump

Dumps(pattern, len) ==
  [sync |-> pattern, fixed_len |-> TRUE, pkt_len |-> len, max_len |-> 0,
   pkt_len_offset |-> 0, pkt_len_adj |-> 0, pack_bytes |-> FALSE]

Patterns == { Dumps(<<1, 0, 1>>, 3), Dumps(<<1, 1, 0>>, 2), Dumps(<<0>>, 1) }
=============================================================================
