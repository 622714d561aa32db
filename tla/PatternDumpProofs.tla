-------------------------- MODULE PatternDumpProofs --------------------------
(***************************************************************************)
(* Theorems about PatternDump: its types, the log file, and the refinement *)
(* of FrameSpec, for every pattern and every length.                       *)
(***************************************************************************)
EXTENDS PatternDump, SequenceTheorems, TLAPS

\* Both deques can hold something.
Usable(c) == c.sync # <<>> /\ c.pkt_len > 0

\* What a block knows between two bits.  The output is empty until a pattern is
\* found, and full only if an exception prevented its clearing.
DequeInv ==
  /\ cfg \in Configs
  /\ pattern_check \in Seq(Bits) /\ Len(pattern_check) <= Len(cfg.sync)
  /\ output \in Seq(Bits) /\ Len(output) <= cfg.pkt_len
  /\ ~Found => output = <<>>
  /\ Idle => status # "running"
  /\ restarts \in Nat

-----------------------------------------------------------------------------
\* append() on a deque with maxlen keeps its type and its bound, and only
\* appends unless the deque is full.
LEMMA PushProperties ==
  ASSUME NEW q \in Seq(Bits), NEW bit \in Bits, NEW maxlen \in Nat,
         Len(q) <= maxlen
  PROVE  /\ Push(q, bit, maxlen) \in Seq(Bits)
         /\ Len(Push(q, bit, maxlen)) <= maxlen
         /\ Len(q) < maxlen => /\ Push(q, bit, maxlen) = Append(q, bit)
                               /\ Len(Push(q, bit, maxlen)) = Len(q) + 1
<1>1. /\ Append(q, bit) \in Seq(Bits) /\ Append(q, bit) # <<>>
      /\ Len(Append(q, bit)) = Len(q) + 1 /\ Len(q) \in Nat
  BY AppendProperties, LenProperties
<1>2. /\ Tail(Append(q, bit)) \in Seq(Bits)
      /\ Len(Tail(Append(q, bit))) = Len(q)
  BY <1>1, HeadTailProperties
<1>3. QED
  BY <1>1, <1>2 DEF Push

\* What the constructor's arguments are.
LEMMA ConfigTypes ==
  ASSUME cfg \in Configs
  PROVE  /\ cfg.sync \in Seq(Bits) /\ Len(cfg.sync) \in Nat
         /\ cfg.fixed_len /\ cfg.pkt_len \in Nat /\ cfg.pack_bytes = FALSE
BY PatternConfigsAssumption, LenProperties

\* A full output is cleared with the search, or an exception leaves work().
LEMMA DumpOutcome ==
  ASSUME NEW bit \in Bits, Dump(bit)
  PROVE  \/ output' = <<>> /\ pattern_check' = <<>> /\ status' = status
         \/ /\ output' = Push(output, bit, cfg.pkt_len)
            /\ pattern_check' = pattern_check
            /\ status' = "dead"
BY DEF Dump, Written, NoFile, WriteRaises, PrintRaises, CloseRaises,
       WriteToClosed, Clear, Raise

-----------------------------------------------------------------------------
(* Types                                                                   *)

\* The types of what a dump leaves.
LEMMA DumpTypes ==
  ASSUME TypeOK, NEW bit \in Bits, Dump(bit)
  PROVE  TypeOK'
<1> DEFINE q == Push(output, bit, cfg.pkt_len)
<1>1. /\ cfg \in Configs /\ cfg' = cfg /\ restarts' = restarts
      /\ cfg.pkt_len \in Nat /\ pub' = <<Message(q)>> /\ owed' = FALSE
  BY ConfigTypes DEF TypeOK, Dump
<1>2. q \in Seq(Bits) /\ Len(q) <= cfg.pkt_len
  BY <1>1, PushProperties DEF TypeOK
<1> HIDE DEF q
<1>3. ~Message(q).packed /\ Message(q).data \in Seq(Bits)
  <2>1. Len(q) \in Nat /\ \A i \in 1..Len(q) : (IF q[i] = 1 THEN 1 ELSE 0) \in Bits
    BY <1>2, LenProperties DEF Bits
  <2>2. [i \in 1..Len(q) |-> IF q[i] = 1 THEN 1 ELSE 0] \in Seq(Bits)
    BY <2>1
  <2>3. QED
    BY <2>2 DEF Message
<1>4. /\ output' = <<>> \/ output' = q
      /\ pattern_check' = <<>> \/ pattern_check' = pattern_check
      /\ status' \in {"running", "dead", "stopped"}
  BY DumpOutcome DEF q, TypeOK
<1>5. fp' \in {"none", "open", "closed"} /\ behind' \in BOOLEAN
  BY DEF Dump, Written, NoFile, WriteRaises, PrintRaises, CloseRaises,
         WriteToClosed, TypeOK
<1>6. /\ output' \in Seq(Bits) /\ Len(output') <= cfg.pkt_len
      /\ pattern_check' \in Seq(Bits) /\ Len(pattern_check') <= Len(cfg.sync)
  <2>1. Len(cfg.sync) \in Nat
    BY <1>1, ConfigTypes
  <2>2. output' \in Seq(Bits) /\ Len(output') <= cfg.pkt_len
    <3>1. CASE output' = <<>>
      <4>1. Len(output') = 0 /\ output' \in Seq(Bits)
        BY <3>1, EmptySeq
      <4>2. QED
        BY <1>1, <4>1
    <3>2. QED
      BY <1>2, <1>4, <3>1
  <2>3. pattern_check' \in Seq(Bits) /\ Len(pattern_check') <= Len(cfg.sync)
    <3>1. CASE pattern_check' = <<>>
      <4>1. Len(pattern_check') = 0 /\ pattern_check' \in Seq(Bits)
        BY <3>1, EmptySeq
      <4>2. QED
        BY <2>1, <4>1
    <3>2. QED
      BY <1>4, <3>1 DEF TypeOK
  <2>4. QED
    BY <2>2, <2>3
<1>7. pub'[1] = Message(q)
  BY <1>1
<1>8. QED
  BY <1>1, <1>3, <1>4, <1>5, <1>6, <1>7 DEF TypeOK

\* Every step keeps the types, of a block that is started again as well.
LEMMA TypeStep == TypeOK /\ [Next]_vars => TypeOK'
<1> SUFFICES ASSUME TypeOK, [Next]_vars PROVE TypeOK'
  OBVIOUS
<1>1. cfg \in Configs /\ Len(cfg.sync) \in Nat /\ cfg.pkt_len \in Nat
  BY ConfigTypes DEF TypeOK
<1>2. ASSUME NEW bit \in Bits, Search(bit) PROVE TypeOK'
  <2>1. /\ pattern_check' \in Seq(Bits) /\ Len(pattern_check') <= Len(cfg.sync)
    BY <1>1, <1>2, PushProperties DEF Search, TypeOK
  <2>2. QED
    BY <1>2, <2>1 DEF Search, TypeOK
<1>3. ASSUME NEW bit \in Bits, Collect(bit) PROVE TypeOK'
  <2>1. output' \in Seq(Bits) /\ Len(output') <= cfg.pkt_len
    BY <1>1, <1>3, PushProperties DEF Collect, TypeOK
  <2>2. QED
    BY <1>3, <2>1 DEF Collect, TypeOK
<1>4. CASE Stop
  BY <1>4 DEF Stop, TypeOK
<1>5. CASE Start
  <2>1. restarts' \in 0..MaxRestarts
    BY <1>5, FaultsAssumption DEF Start, TypeOK
  <2>2. QED
    BY <1>5, <2>1 DEF Start, TypeOK
<1>6. CASE UNCHANGED vars
  BY <1>6 DEF vars, TypeOK
<1>7. QED
  BY <1>2, <1>3, <1>4, <1>5, <1>6, DumpTypes DEF Next, Step

\* The variables of the block hold values of their types and neither deque ever
\* exceeds its maxlen, whatever calls raise and however often a block that died
\* in a dump is started again.
THEOREM TypeCorrect == Spec => []TypeOK
<1>1. Init => TypeOK
  <2> SUFFICES ASSUME Init PROVE TypeOK
    OBVIOUS
  <2>1. /\ Len(pattern_check) = 0 /\ Len(output) = 0
        /\ Len(cfg.sync) \in Nat /\ cfg.pkt_len \in Nat
    BY ConfigTypes, EmptySeq DEF Init
  <2>2. /\ pattern_check \in Seq(Bits) /\ Len(pattern_check) <= Len(cfg.sync)
        /\ output \in Seq(Bits) /\ Len(output) <= cfg.pkt_len
    BY <2>1 DEF Init
  <2>3. 0 \in 0..MaxRestarts
    BY FaultsAssumption
  <2>4. QED
    BY <2>2, <2>3 DEF Init, TypeOK
<1>2. QED
  BY <1>1, TypeStep, PTL DEF Spec

-----------------------------------------------------------------------------
(* The deques                                                              *)

\* Every step keeps DequeInv, if a block that died in a dump is not started.
LEMMA DequeStep ==
  ASSUME \A c \in Configs : Usable(c)
  PROVE  DequeInv /\ [CleanNext]_vars => DequeInv'
<1> SUFFICES ASSUME DequeInv, [CleanNext]_vars PROVE DequeInv'
  OBVIOUS
<1>1. /\ cfg \in Configs /\ cfg.sync \in Seq(Bits) /\ Len(cfg.sync) \in Nat
      /\ cfg.pkt_len \in Nat /\ cfg.pkt_len > 0 /\ cfg.sync # <<>>
  BY ConfigTypes DEF DequeInv, Usable
<1>2. ASSUME NEW bit \in Bits, Search(bit) PROVE DequeInv'
  <2>1. /\ status = "running" /\ ~Found /\ output = <<>>
        /\ pattern_check' = Push(pattern_check, bit, Len(cfg.sync))
        /\ UNCHANGED <<cfg, output, fp, status, restarts>>
    BY <1>2 DEF Search, DequeInv
  <2>2. /\ pattern_check' \in Seq(Bits)
        /\ Len(pattern_check') <= Len(cfg.sync)
    BY <1>1, <2>1, PushProperties DEF DequeInv
  <2>3. ~Idle'
    BY <1>1, <2>1 DEF Idle, Full
  <2>4. QED
    BY <2>1, <2>2, <2>3 DEF DequeInv
<1>3. ASSUME NEW bit \in Bits, Collect(bit) PROVE DequeInv'
  <2>1. /\ Found /\ output' = Push(output, bit, cfg.pkt_len) /\ ~Full(output')
        /\ UNCHANGED <<cfg, pattern_check, fp, status, restarts>>
    BY <1>3 DEF Collect
  <2>2. output' \in Seq(Bits) /\ Len(output') <= cfg.pkt_len
    BY <1>1, <2>1, PushProperties DEF DequeInv
  <2>3. Found' /\ ~Idle'
    BY <2>1 DEF Found, Idle, Full
  <2>4. QED
    BY <2>1, <2>2, <2>3 DEF DequeInv
<1>4. ASSUME NEW bit \in Bits, Dump(bit) PROVE DequeInv'
  <2>1. Found /\ cfg' = cfg /\ restarts' = restarts
    BY <1>4 DEF Dump
  <2>2. CASE output' = <<>> /\ pattern_check' = <<>> /\ status' = status
    <3>1. ~Found'
      BY <1>1, <2>1, <2>2 DEF Found
    <3>2. ~Idle'
      BY <3>1 DEF Idle
    <3>3. QED
      BY <1>1, <2>1, <2>2, <3>1, <3>2 DEF DequeInv
  <2>3. CASE /\ output' = Push(output, bit, cfg.pkt_len)
             /\ pattern_check' = pattern_check
             /\ status' = "dead"
    <3>1. output' \in Seq(Bits) /\ Len(output') <= cfg.pkt_len
      BY <1>1, <2>3, PushProperties DEF DequeInv
    <3>2. Found'
      BY <2>1, <2>3 DEF Found, DequeInv
    <3>3. QED
      BY <2>1, <2>3, <3>1, <3>2 DEF DequeInv
  <2>4. QED
    BY <1>4, <2>2, <2>3, DumpOutcome
<1>5. CASE Stop
  <2>1. /\ UNCHANGED <<cfg, pattern_check, output, restarts>>
        /\ status' = "stopped"
    BY <1>5 DEF Stop
  <2>2. QED
    BY <2>1 DEF DequeInv, Found, Idle, Full
<1>6. CASE Start /\ ~Idle
  <2>1. UNCHANGED <<cfg, pattern_check, output>> /\ restarts' \in Nat
    BY <1>6 DEF Start, DequeInv
  <2>2. ~Idle'
    BY <1>6, <2>1 DEF Found, Idle, Full
  <2>3. QED
    BY <2>1, <2>2 DEF DequeInv, Found
<1>7. CASE UNCHANGED vars
  BY <1>7 DEF vars, DequeInv, Found, Idle, Full
<1>8. QED
  BY <1>2, <1>3, <1>4, <1>5, <1>6, <1>7 DEF CleanNext, Step

\* The deques of a block that has just been made.
LEMMA DequeInit ==
  ASSUME \A c \in Configs : Usable(c)
  PROVE  Init => DequeInv
<1> SUFFICES ASSUME Init PROVE DequeInv
  OBVIOUS
<1>1. cfg \in Configs /\ pattern_check = <<>> /\ output = <<>>
  BY DEF Init
<1>2. cfg.sync # <<>> /\ cfg.pkt_len > 0 /\ Len(cfg.sync) \in Nat
  BY <1>1, ConfigTypes DEF Usable
<1>3. ~Found
  BY <1>1, <1>2 DEF Found
<1>4. ~Idle
  BY <1>3 DEF Idle
<1>5. restarts \in Nat
  BY DEF Init
<1>6. /\ pattern_check \in Seq(Bits) /\ Len(pattern_check) <= Len(cfg.sync)
      /\ output \in Seq(Bits) /\ Len(output) <= cfg.pkt_len
  <2>1. Len(pattern_check) = 0 /\ Len(output) = 0 /\ cfg.pkt_len \in Nat
    BY <1>1, EmptySeq, ConfigTypes
  <2>2. QED
    BY <1>1, <1>2, <2>1
<1>7. QED
  BY <1>1, <1>3, <1>4, <1>5, <1>6 DEF DequeInv

-----------------------------------------------------------------------------
(* The refinement of FrameSpec                                             *)

\* A frame of fixed length has one length, and is never squelched.
LEMMA FixedFrame ==
  ASSUME cfg \in Configs, NEW f
  PROVE  /\ ~Abstract!TooLong(f)
         /\ Abstract!Complete(f) <=> Len(f) >= cfg.pkt_len
BY ConfigTypes DEF Abstract!TooLong, Abstract!Complete, Abstract!HasLength,
                   Abstract!FrameBits

\* What is published is the frame itself.
LEMMA FrameMessage ==
  ASSUME cfg \in Configs, NEW q \in Seq(Bits)
  PROVE  Message(q) = Abstract!Message(q)
<1>1. cfg.pack_bytes = FALSE
  BY ConfigTypes
<1>2. [i \in 1..Len(q) |-> IF q[i] = 1 THEN 1 ELSE 0] = q
  <2>1. \A i \in 1..Len(q) : q[i] \in {0, 1}
    BY ElementOfSeq DEF Bits
  <2>2. \A i \in 1..Len(q) : (IF q[i] = 1 THEN 1 ELSE 0) = q[i]
    BY <2>1
  <2>3. q = [i \in 1..Len(q) |-> q[i]]
    BY DEF Bits
  <2>4. QED
    BY <2>2, <2>3
<1>3. QED
  BY <1>1, <1>2 DEF Message, Abstract!Message

\* Each step is a step of FrameSpec, or changes nothing that it speaks of.
LEMMA RefinementStep ==
  ASSUME \A c \in Configs : Usable(c), DequeInv, DequeInv',
         [CleanNext]_vars
  PROVE  [Abstract!Next]_(Abstract!vars)
<1>1. /\ cfg \in Configs /\ cfg.sync \in Seq(Bits) /\ Len(cfg.sync) \in Nat
      /\ cfg.pkt_len \in Nat /\ cfg.pkt_len > 0 /\ cfg.sync # <<>>
      /\ output \in Seq(Bits) /\ Len(output) <= cfg.pkt_len
      /\ Len(output) \in Nat
  BY ConfigTypes, LenProperties DEF DequeInv, Usable
<1>2. ASSUME NEW bit \in Bits, Search(bit) PROVE Abstract!Search(bit)
  <2>1. /\ ~Found /\ ~Idle /\ output = <<>>
        /\ pattern_check' = Push(pattern_check, bit, Len(cfg.sync))
        /\ UNCHANGED <<cfg, output, status>> /\ pub' = <<>>
    BY <1>2 DEF Search, DequeInv, Idle
  <2>2. ~Idle'
    BY <1>1, <2>1 DEF Idle, Full
  <2>3. Found' <=> pattern_check' = cfg.sync
    BY <2>1 DEF Found
  <2>4. Push(pattern_check, bit, Len(cfg.sync)) = Abstract!Recent(pattern_check, bit)
    BY DEF Push, Abstract!Recent
  <2>5. QED
    BY <2>1, <2>2, <2>3, <2>4 DEF Abstract!Search
<1>3. ASSUME NEW bit \in Bits, Found, status = "running"
      PROVE  /\ ~Idle /\ Len(output) < cfg.pkt_len
             /\ Push(output, bit, cfg.pkt_len) = Append(output, bit)
             /\ Append(output, bit) \in Seq(Bits)
  <2>1. ~Idle
    BY <1>3 DEF DequeInv
  <2>2. Len(output) < cfg.pkt_len
    BY <1>1, <1>3, <2>1 DEF Idle, Full
  <2>3. QED
    BY <1>1, <2>1, <2>2, PushProperties, AppendProperties
<1>4. ASSUME NEW bit \in Bits, Collect(bit) PROVE Abstract!Take(bit)
  <2> DEFINE f == Append(output, bit)
  <2>1. /\ Found /\ status = "running" /\ ~Full(output')
        /\ output' = Push(output, bit, cfg.pkt_len) /\ pub' = <<>>
        /\ UNCHANGED <<cfg, pattern_check>>
    BY <1>4 DEF Collect
  <2>2. ~Idle /\ output' = f
    BY <1>3, <2>1
  <2>3. Found' /\ ~Idle'
    BY <2>1 DEF Found, Idle, Full
  <2>4. Len(f) \in Nat /\ Len(f) # cfg.pkt_len /\ Len(f) <= cfg.pkt_len
    BY <1>1, <2>1, <2>2, LenProperties DEF Full, DequeInv
  <2>5. ~(Len(f) >= cfg.pkt_len)
    BY <1>1, <2>4
  <2>6. ~Abstract!TooLong(f) /\ ~Abstract!Complete(f)
    BY <1>1, <2>5, FixedFrame
  <2>7. QED
    BY <2>1, <2>2, <2>3, <2>6 DEF Abstract!Take
<1>5. ASSUME NEW bit \in Bits, Dump(bit) PROVE Abstract!Deliver(bit)
  <2> DEFINE f == Append(output, bit)
  <2>1. /\ Found /\ status = "running" /\ cfg' = cfg
        /\ Full(Push(output, bit, cfg.pkt_len))
        /\ pub' = <<Message(Push(output, bit, cfg.pkt_len))>>
    BY <1>5 DEF Dump
  <2>2. ~Idle /\ Push(output, bit, cfg.pkt_len) = f /\ f \in Seq(Bits)
    BY <1>3, <2>1
  <2>3. ~Abstract!TooLong(f) /\ Abstract!Complete(f)
    <3>1. Len(f) = cfg.pkt_len
      BY <2>1, <2>2 DEF Full
    <3>2. Len(f) >= cfg.pkt_len
      BY <1>1, <3>1
    <3> HIDE DEF f
    <3>3. QED
      BY <1>1, <3>2, FixedFrame
  <2>4. pub' = <<Abstract!Message(f)>>
    BY <1>1, <2>1, <2>2, FrameMessage
  <2>5. /\ (Idle \/ ~Found)'
        /\ (IF Idle THEN <<>> ELSE pattern_check)' = <<>>
        /\ (IF Idle THEN <<>> ELSE output)' = <<>>
    <3>1. CASE output' = <<>> /\ pattern_check' = <<>>
      <4>1. ~Found'
        BY <1>1, <2>1, <3>1 DEF Found
      <4>2. QED
        BY <3>1, <4>1
    <3>2. CASE /\ output' = Push(output, bit, cfg.pkt_len)
               /\ pattern_check' = pattern_check
      <4>1. Idle'
        BY <2>1, <3>2 DEF Idle, Found, Full
      <4>2. QED
        BY <4>1
    <3>3. QED
      BY <1>5, <3>1, <3>2, DumpOutcome
  <2>6. QED
    BY <2>1, <2>2, <2>3, <2>4, <2>5 DEF Abstract!Deliver, Abstract!StartOver
<1>6. CASE Stop \/ Start \/ UNCHANGED vars
  <2>1. UNCHANGED <<cfg, pattern_check, output, pub>>
    BY <1>6 DEF Stop, Start, vars
  <2>2. QED
    BY <2>1 DEF Abstract!vars, Idle, Found, Full
<1>7. QED
  BY <1>2, <1>4, <1>5, <1>6 DEF CleanNext, Step, Abstract!Next

\* The block implements FrameSpec, for every pattern that is not empty and every
\* length that is not zero, whatever calls raise exceptions,
\* unless a block that died in a dump is started again.
THEOREM Implements ==
  ASSUME \A c \in Configs : Usable(c)
  PROVE  CleanSpec => ImplementsFrameSpec
<1>1. Init => DequeInv
  BY DequeInit
<1>2. DequeInv /\ [CleanNext]_vars => DequeInv'
  BY DequeStep
<1>3. Init => Abstract!Init
  <2> SUFFICES ASSUME Init PROVE Abstract!Init
    OBVIOUS
  <2>1. DequeInv /\ cfg.sync # <<>> /\ cfg.pkt_len > 0
    BY DequeInit DEF Init, Usable
  <2>2. ~Found /\ ~Idle
    BY <2>1 DEF Init, Found, Idle
  <2>3. QED
    BY <2>2 DEF Init, Abstract!Init
<1>4. DequeInv /\ DequeInv' /\ [CleanNext]_vars => [Abstract!Next]_(Abstract!vars)
  BY RefinementStep
<1>5. QED
  BY <1>1, <1>2, <1>3, <1>4, PTL DEF CleanSpec, ImplementsFrameSpec, Abstract!Spec

-----------------------------------------------------------------------------
(* The log file                                                            *)

\* An open file misses nothing, unless a dump was cut short.
LogInv == (fp = "open" /\ ~Idle) => ~behind

\* Every step keeps LogInv.
LEMMA LogStep == DequeInv /\ LogInv /\ [CleanNext]_vars => LogInv'
<1> SUFFICES ASSUME DequeInv, LogInv, [CleanNext]_vars PROVE LogInv'
  OBVIOUS
<1>1. status = "running" /\ fp = "open" => ~behind
  BY DEF DequeInv, LogInv
<1>2. ASSUME NEW bit \in Bits, Search(bit) \/ Collect(bit) PROVE LogInv'
  BY <1>1, <1>2 DEF Search, Collect, LogInv
<1>3. ASSUME NEW bit \in Bits, Dump(bit) PROVE LogInv'
  <2> DEFINE q == Push(output, bit, cfg.pkt_len)
  <2>1. status = "running" /\ Found /\ Full(q) /\ cfg' = cfg
    BY <1>3 DEF Dump
  <2>2. CASE Written /\ UNCHANGED behind
    BY <1>1, <2>1, <2>2 DEF Written, LogInv
  <2>3. CASE NoFile \/ WriteRaises
    BY <2>3 DEF NoFile, WriteRaises, LogInv
  <2>4. CASE PrintRaises(q)
    <3>1. output' = q /\ pattern_check' = pattern_check
      BY <2>4 DEF PrintRaises, Raise
    <3>2. Idle'
      BY <2>1, <3>1 DEF Idle, Found, Full
    <3>3. QED
      BY <3>2 DEF LogInv
  <2>5. CASE CloseRaises(q) \/ WriteToClosed(q)
    BY <2>5 DEF CloseRaises, WriteToClosed, LogInv
  <2>6. QED
    BY <1>3, <2>2, <2>3, <2>4, <2>5 DEF Dump
<1>4. CASE Stop
  <2>1. fp' = "open" => fp = "open"
    BY <1>4 DEF Stop
  <2>2. QED
    BY <1>4, <2>1 DEF Stop, LogInv, Idle, Found, Full
<1>5. CASE (Start /\ ~Idle) \/ UNCHANGED vars
  BY <1>5 DEF Start, vars, LogInv, Idle, Found, Full
<1>6. QED
  BY <1>2, <1>3, <1>4, <1>5 DEF CleanNext, Step

\* A log file that is still written to misses no message published, whatever
\* calls raise exceptions, unless a block that died in a dump is started again.
THEOREM LogIsWhole ==
  ASSUME \A c \in Configs : Usable(c)
  PROVE  CleanSpec => []LogHasNoGap
<1>1. Init => DequeInv /\ LogInv
  BY DequeInit DEF Init, LogInv
<1>2. DequeInv /\ LogInv /\ [CleanNext]_vars => DequeInv' /\ LogInv'
  BY DequeStep, LogStep
<1>3. DequeInv /\ LogInv => LogHasNoGap
  BY DEF DequeInv, LogInv, LogHasNoGap
<1>4. QED
  BY <1>1, <1>2, <1>3, PTL DEF CleanSpec
=============================================================================
