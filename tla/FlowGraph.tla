------------------------------ MODULE FlowGraph ------------------------------
(***************************************************************************)
(* The flow graph of examples/: a packet_deframer whose port `out' is      *)
(* connected to the port `pdus' of a packet_formatter.  Each block has a   *)
(* thread of its own; the message is all they share.  Other blocks may post*)
(* to the formatter too.                                                   *)
(*                                                                         *)
(* Stopping the flow graph lets the current call of work() return and then *)
(* ends the threads; starting it again gives the same two blocks new ones. *)
(* Neither block has a start(), so that both go on with what they held.    *)
(***************************************************************************)
EXTENDS Formatter, Subsequences

CONSTANTS ByteBits, Samples, Configs, Garbage, MaxWork  \* those of Deframer

VARIABLES cfg, d_search, d_in_sync, d_have_len, d_rx_bit_cnt, d_tmp_byte,
          d_packet, d_pkt_len, pub, left, alive  \* those of Deframer

deframer == <<cfg, d_search, d_in_sync, d_have_len, d_rx_bit_cnt, d_tmp_byte,
              d_packet, d_pkt_len, pub, left, alive>>

D == INSTANCE Deframer

ASSUME PduAssumption == "pdu" \in Kinds

\* No exception ends the thread of the deframer: after one, a start would give
\* the block a new thread and what Deframer calls dead would go on.
ASSUME SafeConfigsAssumption == \A c \in Configs : D!SafeLength(c)

\* A sync word that is empty is found before a sample of it is read.
ASSUME SyncWordsAssumption ==
  \A c \in Configs : c.sync \in Seq(Samples) /\ c.sync # <<>>

\* What the code does not have: with a run being the time from a start to the
\* next stop,
VARIABLES
  runs,     \* the run in which each sample of d_search was read
  oldest,   \* the run of the first sample of the packet's sync word
  packets,  \* the numbers of the messages the deframer has posted
  spliced   \* how many of them have samples of more than one run

history == <<runs, oldest, packets, spliced>>
flow_vars == <<vars, deframer, history>>

-----------------------------------------------------------------------------
FlowInit ==
  /\ Init /\ D!Init
  /\ runs = <<>> /\ oldest = 0 /\ packets = <<>> /\ spliced = 0

\* The scheduler calls no block of a flow graph that is stopped.
CallWork ==
  /\ status # "stopped"
  /\ \E n \in 1..MaxWork : D!Work(n)
  /\ UNCHANGED <<vars, history>>

\* The deframer searches: it publishes nothing.
SearchOn(s) ==
  /\ status # "stopped"
  /\ D!Hunt(s) \/ D!FoundSync(s)
  /\ runs' = D!ShiftIn(runs, restarts)
  /\ oldest' = runs'[1]
  /\ UNCHANGED <<vars, packets, spliced>>

\* The deframer captures, and publishes what is complete: message_port_pub
\* returns when the message waits at the port of the formatter.
CaptureOn(s) ==
  /\ status # "stopped"
  /\ D!Capture(s)
  /\ \/ /\ pub' = <<>>
        /\ UNCHANGED <<vars, packets, spliced>>
     \/ /\ pub' # <<>>
        /\ Post("pdu")
        /\ packets' = Append(packets, posted')
        /\ spliced' = IF oldest # restarts THEN spliced + 1 ELSE spliced
  /\ UNCHANGED <<runs, oldest>>

\* Another block posts something else to the formatter.
PostOther ==
  /\ status # "stopped"
  /\ \E kind \in Kinds \ {"pdu"} : Post(kind)
  /\ UNCHANGED <<deframer, history>>

HandleMessage == handle_pdu /\ UNCHANGED <<deframer, history>>

StopGraph ==
  /\ left = 0
  /\ Stop
  /\ UNCHANGED <<deframer, history>>

StartGraph == Start /\ UNCHANGED <<deframer, history>>

FlowNext ==
  \/ CallWork
  \/ \E s \in Samples : SearchOn(s) \/ CaptureOn(s)
  \/ PostOther
  \/ HandleMessage
  \/ StopGraph
  \/ StartGraph

FlowSpec == FlowInit /\ [][FlowNext]_flow_vars

\* The thread of a running formatter serves its port.
FlowFairSpec == FlowSpec /\ WF_flow_vars(HandleMessage)

-----------------------------------------------------------------------------
(* Properties                                                              *)

\* The numbers of the PDUs among the messages that wait.
PduNumbers(queue) == Chosen([i \in DOMAIN queue |-> queue[i].no],
                            {i \in DOMAIN queue : queue[i].kind = "pdu"})

\* The formatter formats all that the deframer publishes, in that order, across
\* stops and starts and with whatever else is posted in between: a message that
\* ends the thread is itself lost, and no packet with it.
PacketsStayInOrder == packets = formatted \o PduNumbers(inbox)

\* A capture interrupted by a stop goes on with the first samples of the next
\* run, and d_search too holds samples of the run before.  No restart makes more
\* than one packet of two runs, if the sync word has no border.
OneSplicePerRestart == D!Unbordered(cfg.sync) => spliced <= restarts
=============================================================================
