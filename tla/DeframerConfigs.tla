--------------------------- MODULE DeframerConfigs ---------------------------
(* Constructor arguments of the deframers that TLC considers.  Bytes have  *)
(* two bits in those runs, so that a length byte ranges over 0..3 and every*)
(* packet of every configuration is explored.                              *)
EXTENDS Integers

\* Sync words without a border, and with one.
Plain == <<1, 1, 0>>
Bordered == <<1, 0, 1>>

Fixed(sync, bits, pack) ==
  [sync |-> sync, fixed_len |-> TRUE, pkt_len |-> bits, max_len |-> 0,
   pkt_len_offset |-> 0, pkt_len_adj |-> 0, pack_bytes |-> pack]

Variable(sync, max, offset, adj, pack) ==
  [sync |-> sync, fixed_len |-> FALSE, pkt_len |-> 0, max_len |-> max,
   pkt_len_offset |-> offset, pkt_len_adj |-> adj, pack_bytes |-> pack]

\* Configurations as the documentation describes them.
DocConfigs ==
  { Fixed(Plain, 0, FALSE), Fixed(Plain, 3, FALSE), Fixed(Plain, 4, TRUE),
    Fixed(Plain, 5, TRUE),
    Variable(Plain, 0, 0, 0, FALSE), Variable(Plain, 2, 0, 1, TRUE),
    Variable(Plain, 1, 1, 0, TRUE), Variable(Plain, 2, 1, -1, FALSE) }

\* Configurations whose arithmetic is at its limits: negative lengths, a
\* squelched length that is nevertheless reached, a sync word with a border,
\* one of a single bit.
EdgeConfigs ==
  { Fixed(Plain, -1, TRUE), Fixed(<<1>>, 0, TRUE),
    Variable(Plain, 1, 0, -2, FALSE), Variable(Plain, 1, 0, -1, TRUE),
    Variable(Plain, 0, 1, -3, TRUE), Variable(Bordered, 0, 0, 0, FALSE) }

AllConfigs == DocConfigs \cup EdgeConfigs

\* A sync word with a border.
BorderedConfigs == { Fixed(Bordered, 2, FALSE) }

Bits == {0, 1}
Unset == {0, 7}
=============================================================================
