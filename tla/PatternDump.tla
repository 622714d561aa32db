----------------------------- MODULE PatternDump -----------------------------
(***************************************************************************)
(* The pattern_dump block of python/: the older deframer, of fixed length, *)
(* with a log file of its own.  Each bit the scheduler hands to work() is  *)
(* one action here: it is searched for the pattern (Search), added to the  *)
(* output (Collect), or completes it: the output is then published, printed*)
(* and logged (Dump).                                                      *)
(*                                                                         *)
(* A Python exception that leaves work() ends the thread of the block.  The*)
(* block itself stays, and the flow graph may be stopped and started again *)
(* with it as it is.                                                       *)
(***************************************************************************)
EXTENDS Integers, Sequences

CONSTANTS
  Configs,     \* pattern and dump_len, as FrameSpec's sync and pkt_len
  Faults,      \* which calls may raise IOError: "print", "write", "close"
  MaxRestarts  \* bound: how often the flow graph is started again

Bits == {0, 1}

ASSUME PatternConfigsAssumption ==
  \A c \in Configs : c.sync \in Seq(Bits) /\ c.fixed_len /\ c.pkt_len \in Nat
                     /\ c.pack_bytes = FALSE

ASSUME FaultsAssumption ==
  Faults \subseteq {"print", "write", "close"} /\ MaxRestarts \in Nat

VARIABLES
  cfg,            \* the constructor's arguments
  pattern_check,  \* deque of the last bits searched
  output,         \* deque of the bits after the pattern
  fp,             \* the log file: "none", "open" or "closed"
  status,         \* of the block's thread: "running", "dead" or "stopped"
  restarts,       \* how often the flow graph has been started again
  pub,            \* <<m>> if the last step published m, else <<>>
  owed,           \* history: a pattern was found and its bits not yet published
  behind          \* history: a message published while fp was open is not in it

vars == <<cfg, pattern_check, output, fp, status, restarts, pub, owed, behind>>

-----------------------------------------------------------------------------
\* Mutant: a list in place of a deque with maxlen.
PushUnbounded(q, bit, maxlen) == Append(q, bit)

\* append() on a deque of maxlen elements.
Push(q, bit, maxlen) == LET all == Append(q, bit)
                        IN  IF Len(all) > maxlen THEN Tail(all) ELSE all

\* Mutant: one bit more than the deque can hold is waited for.
OverFull(q) == Len(q) > cfg.pkt_len

Full(q) == Len(q) = cfg.pkt_len

Found == pattern_check = cfg.sync

\* The pair that is published: no metadata, and a string of '1' and '0'.
Message(q) == [packed |-> FALSE,
               data   |-> [i \in 1..Len(q) |-> IF q[i] = 1 THEN 1 ELSE 0]]

\* The constructor; there may be no file name, or the file may not open.
Init ==
  /\ cfg \in Configs
  /\ pattern_check = <<>> /\ output = <<>>
  /\ fp \in {"none", "open"}
  /\ status = "running" /\ restarts = 0
  /\ pub = <<>>
  /\ owed = FALSE /\ behind = FALSE

Search(bit) ==
  /\ status = "running" /\ ~Found
  /\ pattern_check' = Push(pattern_check, bit, Len(cfg.sync))
  /\ owed' = (pattern_check' = cfg.sync)
  /\ pub' = <<>>
  /\ UNCHANGED <<cfg, output, fp, status, restarts, behind>>

Collect(bit) ==
  /\ status = "running" /\ Found
  /\ output' = Push(output, bit, cfg.pkt_len)
  /\ ~Full(output')
  /\ pub' = <<>>
  /\ UNCHANGED <<cfg, pattern_check, fp, status, restarts, owed, behind>>

-----------------------------------------------------------------------------
(* A full output.  The message is out before anything is printed or logged.*)

\* Mutant: the block keeps matching after a dump.
ClearOutputOnly == output' = <<>> /\ UNCHANGED <<pattern_check, status>>

\* The end of the loop body: the block hunts for the pattern again.
Clear == output' = <<>> /\ pattern_check' = <<>> /\ UNCHANGED status

\* An exception leaves work() before the deques are cleared.
Raise(q) == output' = q /\ status' = "dead" /\ UNCHANGED pattern_check

PrintRaises(q) == "print" \in Faults /\ Raise(q) /\ UNCHANGED fp

NoFile == fp = "none" /\ Clear /\ UNCHANGED fp

Written == fp = "open" /\ Clear /\ UNCHANGED fp

\* Mutant: a file that could not be written to is kept.
WriteRaisesKept == fp = "open" /\ "write" \in Faults /\ Clear /\ UNCHANGED fp

\* IOError from write or flush: the file is given up.
WriteRaises == fp = "open" /\ "write" \in Faults /\ Clear /\ fp' = "none"

\* ... and from closing it as well, outside the try: fp keeps a closed file.
CloseRaises(q) ==
  /\ fp = "open" /\ {"write", "close"} \subseteq Faults
  /\ Raise(q)
  /\ fp' = "closed"

\* Writing to a closed file is a ValueError, which is not caught.
WriteToClosed(q) == fp = "closed" /\ Raise(q) /\ UNCHANGED fp

Dump(bit) ==
  LET q == Push(output, bit, cfg.pkt_len) IN
  /\ status = "running" /\ Found
  /\ Full(q)
  /\ pub' = <<Message(q)>>
  /\ owed' = FALSE
  /\ \/ Written /\ UNCHANGED behind
     \/ /\ NoFile \/ WriteRaises \/ PrintRaises(q) \/ CloseRaises(q)
             \/ WriteToClosed(q)
        /\ behind' = TRUE
  /\ UNCHANGED <<cfg, restarts>>

-----------------------------------------------------------------------------
(* The flow graph                                                          *)

\* stop(), in the block's thread when its loop has ended, however it ended.
\* It announces and closes the file; if either raises fp is not reset.
Stop ==
  /\ status \in {"running", "dead"}
  /\ status' = "stopped"
  /\ \/ fp' = "none"
     \/ fp = "open" /\ "close" \in Faults /\ fp' = "closed"
     \/ fp # "none" /\ "print" \in Faults /\ UNCHANGED fp
  /\ UNCHANGED <<cfg, pattern_check, output, restarts, pub, owed, behind>>

\* The block has no start() of its own: everything is as it was.
Start ==
  /\ status = "stopped" /\ restarts < MaxRestarts
  /\ status' = "running" /\ restarts' = restarts + 1
  /\ UNCHANGED <<cfg, pattern_check, output, fp, pub, owed, behind>>

Step == \E bit \in Bits : Search(bit) \/ Collect(bit) \/ Dump(bit)

Next == Step \/ Stop \/ Start

Spec == Init /\ [][Next]_vars

-----------------------------------------------------------------------------
(* Properties                                                              *)

\* A dump was cut short: the deques are full, as an exception left them.
Idle == Found /\ Full(output)

\* The runs in which a block that died in a dump is not started again, and bits
\* keep arriving while the flow graph runs.  What happens otherwise is shown by
\* OneDumpPerPattern.
CleanNext == Step \/ Stop \/ (Start /\ ~Idle)
CleanSpec == Init /\ [][CleanNext]_vars /\ WF_vars(Step)

\* Types; no deque is longer than its maxlen.
TypeOK ==
  /\ cfg \in Configs
  /\ pattern_check \in Seq(Bits) /\ Len(pattern_check) <= Len(cfg.sync)
  /\ output \in Seq(Bits) /\ Len(output) <= cfg.pkt_len
  /\ fp \in {"none", "open", "closed"}
  /\ status \in {"running", "dead", "stopped"}
  /\ restarts \in 0..MaxRestarts
  /\ pub # <<>> => ~pub[1].packed /\ pub[1].data \in Seq(Bits)
  /\ owed \in BOOLEAN /\ behind \in BOOLEAN

\* A log file that is still written to misses none of the messages published:
\* after a failed write the file is given up, and never resumed with a gap.
LogHasNoGap == (status = "running" /\ fp = "open") => ~behind

\* The bits after a pattern are published, whatever happens to the log file,
\* unless the flow graph stops or the thread dies.
FoundIsDumped == (status = "running" /\ owed) ~> (~owed \/ status # "running")

\* The doc string of the block: "Upon finding it, the block will output the
\* next N bits": a message is published once for each pattern found.
OneDumpPerPattern == [][(\E bit \in Bits : Dump(bit)) => owed]_vars

\* The block implements FrameSpec.  A block whose thread has died with a full
\* output has published it, and has nothing more to do.
Abstract == INSTANCE FrameSpec WITH
  ByteBits <- 8,
  Samples  <- Bits,
  hunting  <- Idle \/ ~Found,
  window   <- IF Idle THEN <<>> ELSE pattern_check,
  frame    <- IF Idle THEN <<>> ELSE output,
  sent     <- pub
ImplementsFrameSpec == Abstract!Spec
=============================================================================
