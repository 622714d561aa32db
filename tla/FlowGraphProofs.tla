--------------------------- MODULE FlowGraphProofs ---------------------------
(***************************************************************************)
(* Theorems about Formatter, for any number of messages and restarts, and  *)
(* about FlowGraph.  The flow graph is a formatter and a deframer: what is *)
(* proved of either block alone holds of it connected to the other.        *)
(***************************************************************************)
EXTENDS FlowGraph, InductionLemmas

-----------------------------------------------------------------------------
(* The formatter                                                           *)

\* What handling a message does to the thread, the file and the lines.
LEMMA HandleOutcome ==
  ASSUME TypeOK, handle_pdu
  PROVE  \E m \in Message :
           /\ fp' \in {fp, "none"} /\ status' \in {status, "dead"}
           /\ printed' \in {printed, Append(printed, m.no)}
           /\ file' \in {file, Append(file, m.no)}
           /\ formatted' \in {formatted, Append(formatted, m.no)}
<1> DEFINE m == Head(inbox)
<1>1. inbox \in Seq(Message) /\ inbox # <<>>
  BY DEF handle_pdu, TypeOK
<1>2. m \in Message
  BY <1>1, HeadTailProperties
<1> HIDE DEF m
<1>3. Drop(m) \/ Escape(m) \/ Format(m)
  BY DEF handle_pdu, m
<1>4. CASE Drop(m) \/ Escape(m)
  BY <1>2, <1>4 DEF Drop, Escape
<1>5. CASE Format(m)
  <2>1. PrintRaises \/ Log(m) \/ WriteRaises(m)
    BY <1>5 DEF Format
  <2>2. /\ fp' \in {fp, "none"} /\ status' \in {status, "dead"}
        /\ printed' \in {printed, Append(printed, m.no)}
        /\ file' \in {file, Append(file, m.no)}
    BY <2>1 DEF PrintRaises, Log, WriteRaises, PrintIfWanted, GiveUpFile
  <2>3. QED
    BY <1>2, <1>5, <2>2 DEF Format
<1>6. QED
  BY <1>3, <1>4, <1>5

\* Every step keeps the types.
LEMMA TypeStep == TypeOK /\ [Next]_vars => TypeOK'
<1> SUFFICES ASSUME TypeOK, [Next]_vars PROVE TypeOK'
  OBVIOUS
<1>1. ASSUME NEW kind \in Kinds, Post(kind) PROVE TypeOK'
  <2>1. posted' \in 1..MaxPosts /\ posted' = posted + 1
    BY <1>1, PostsAssumption DEF Post, TypeOK
  <2>2. [no |-> posted', kind |-> kind] \in Message
    BY <2>1 DEF Message
  <2>3. inbox' \in Seq(Message)
    BY <1>1, <2>2, AppendProperties DEF Post, TypeOK
  <2>4. QED
    BY <1>1, <2>1, <2>3 DEF Post, TypeOK
<1>2. CASE handle_pdu
  <2>1. inbox' \in Seq(Message)
    BY <1>2, HeadTailProperties DEF handle_pdu, TypeOK
  <2>2. PICK m \in Message :
          /\ fp' \in {fp, "none"} /\ status' \in {status, "dead"}
          /\ printed' \in {printed, Append(printed, m.no)}
          /\ file' \in {file, Append(file, m.no)}
          /\ formatted' \in {formatted, Append(formatted, m.no)}
    BY <1>2, HandleOutcome
  <2>3. m.no \in 1..MaxPosts
    BY DEF Message
  <2>4. ASSUME NEW q \in Seq(1..MaxPosts), NEW r, r \in {q, Append(q, m.no)}
        PROVE  r \in Seq(1..MaxPosts)
    <3>1. \A S, x, t : x \in S /\ t \in Seq(S) => Append(t, x) \in Seq(S)
      BY AppendProperties
    <3>2. Append(q, m.no) \in Seq(1..MaxPosts)
      BY <2>3, <3>1
    <3>3. QED
      BY <2>4, <3>2
  <2>5. fp' \in {"none", "open"} /\ status' \in {"running", "dead", "stopped"}
    BY <2>2 DEF TypeOK
  <2>6. UNCHANGED <<log_to, restarts, posted>>
    BY <1>2 DEF handle_pdu
  <2>7. printed' \in Seq(1..MaxPosts)
    BY <2>2, <2>4 DEF TypeOK
  <2>8. file' \in Seq(1..MaxPosts)
    BY <2>2, <2>4 DEF TypeOK
  <2>9. formatted' \in Seq(1..MaxPosts)
    BY <2>2, <2>4 DEF TypeOK
  <2>10. QED
    BY <2>1, <2>5, <2>6, <2>7, <2>8, <2>9 DEF TypeOK
<1>3. CASE Stop
  BY <1>3 DEF Stop, TypeOK
<1>4. CASE Start
  <2>1. restarts' \in 0..MaxRestarts
    BY <1>4, PostsAssumption DEF Start, TypeOK
  <2>2. QED
    BY <1>4, <2>1 DEF Start, TypeOK
<1>5. CASE UNCHANGED vars
  BY <1>5 DEF vars, TypeOK
<1>6. QED
  BY <1>1, <1>2, <1>3, <1>4, <1>5 DEF Next

\* The variables of a formatter always hold values of their types.
THEOREM TypeCorrect == Spec => []TypeOK
<1>1. Init => TypeOK
  BY LoggersAssumption, PostsAssumption DEF Init, TypeOK
<1>2. QED
  BY <1>1, TypeStep, PTL DEF Spec

\* Every step keeps the log file complete.
LEMMA LogStep == LogIsComplete /\ [Next]_vars => LogIsComplete'
<1> SUFFICES ASSUME LogIsComplete, [Next]_vars PROVE LogIsComplete'
  OBVIOUS
<1>1. ASSUME NEW kind \in Kinds, Post(kind) PROVE LogIsComplete'
  BY <1>1 DEF Post, LogIsComplete
<1>2. CASE handle_pdu
  <2> DEFINE m == Head(inbox)
  <2>1. CASE Drop(m) \/ Escape(m)
    BY <2>1 DEF Drop, Escape, LogIsComplete
  <2>2. CASE Format(m)
    <3>1. CASE Log(m)
      BY <2>2, <3>1 DEF Format, Log, LogIsComplete
    <3>2. CASE PrintRaises \/ WriteRaises(m)
      BY <3>2 DEF PrintRaises, WriteRaises, GiveUpFile, LogIsComplete
    <3>3. QED
      BY <2>2, <3>1, <3>2 DEF Format
  <2>3. QED
    BY <1>2, <2>1, <2>2 DEF handle_pdu
<1>3. CASE Stop \/ Start \/ UNCHANGED vars
  BY <1>3 DEF Stop, Start, vars, LogIsComplete
<1>4. QED
  BY <1>1, <1>2, <1>3 DEF Next

\* While the log file is open it holds every message formatted, in order.
THEOREM LogComplete == Spec => []LogIsComplete
<1>1. Init => LogIsComplete
  BY DEF Init, LogIsComplete
<1>2. QED
  BY <1>1, LogStep, PTL DEF Spec

LEMMA PrefixOfItself ==
  ASSUME NEW S, NEW s \in Seq(S)
  PROVE  IsPrefix(s, s)
BY DEF IsPrefix

LEMMA PrefixOfAppended ==
  ASSUME NEW S, NEW s \in Seq(S), NEW t \in Seq(S), NEW e \in S, IsPrefix(s, t)
  PROVE  IsPrefix(s, Append(t, e))
<1>1. Len(s) <= Len(t) /\ SubSeq(s, 1, Len(s)) = SubSeq(t, 1, Len(s))
  BY DEF IsPrefix
<1>2. Len(s) \in Nat /\ Len(t) \in Nat
  BY LenProperties
<1>3. Append(t, e) \in Seq(S) /\ Len(Append(t, e)) = Len(t) + 1
  BY AppendProperties
<1>4. SubSeq(Append(t, e), 1, Len(s)) = SubSeq(t, 1, Len(s))
  BY <1>1, <1>2, <1>3
<1>5. QED
  BY <1>1, <1>2, <1>3, <1>4 DEF IsPrefix

\* Every step leaves an initial part of the messages formatted in the file.
LEMMA PrefixStep ==
  TypeOK /\ LogIsComplete /\ LogIsPrefix /\ [Next]_vars => LogIsPrefix'
<1> SUFFICES ASSUME TypeOK, LogIsComplete, LogIsPrefix, [Next]_vars
             PROVE  LogIsPrefix'
  OBVIOUS
<1>1. file \in Seq(1..MaxPosts) /\ formatted \in Seq(1..MaxPosts)
  BY DEF TypeOK
<1>2. CASE handle_pdu
  <2> DEFINE m == Head(inbox)
  <2>1. m.no \in 1..MaxPosts
    <3>1. inbox \in Seq(Message) /\ inbox # <<>>
      BY <1>2 DEF handle_pdu, TypeOK
    <3>2. m \in Message
      BY <3>1, HeadTailProperties
    <3>3. QED
      BY <3>2 DEF Message
  <2> HIDE DEF m
  <2>2. IsPrefix(file, Append(formatted, m.no))
    BY <1>1, <2>1, PrefixOfAppended DEF LogIsPrefix
  <2>3. CASE Drop(m) \/ Escape(m)
    BY <2>3 DEF Drop, Escape, LogIsPrefix
  <2>4. CASE Format(m)
    <3>1. formatted' = Append(formatted, m.no)
      BY <2>4 DEF Format
    <3>2. CASE file' = file
      BY <2>2, <3>1, <3>2 DEF LogIsPrefix
    <3>3. CASE file' = Append(file, m.no) /\ fp = "open"
      <4>1. file' = formatted'
        BY <3>1, <3>3 DEF LogIsComplete
      <4>2. formatted' \in Seq(1..MaxPosts)
        BY <1>1, <2>1, <3>1, AppendProperties
      <4>3. QED
        BY <4>1, <4>2, PrefixOfItself DEF LogIsPrefix
    <3>4. QED
      BY <2>4, <3>2, <3>3 DEF Format, PrintRaises, Log, WriteRaises
  <2>5. QED
    BY <1>2, <2>3, <2>4 DEF handle_pdu, m
<1>3. ASSUME UNCHANGED <<file, formatted>> PROVE LogIsPrefix'
  BY <1>3 DEF LogIsPrefix
<1>4. QED
  BY <1>2, <1>3 DEF Next, Post, Stop, Start, vars

\* The log is at all times an initial part of the messages formatted: it ends
\* when the file is given up or closed, and never goes on behind a gap.
THEOREM LogPrefix == Spec => []LogIsPrefix
<1>1. Init => LogIsPrefix
  <2> SUFFICES ASSUME Init PROVE LogIsPrefix
    OBVIOUS
  <2>1. file = <<>> /\ formatted = <<>> /\ <<>> \in Seq(Nat)
    BY DEF Init
  <2>2. QED
    BY <2>1, PrefixOfItself DEF LogIsPrefix
<1>2. QED
  BY <1>1, TypeCorrect, LogComplete, PrefixStep, PTL DEF Spec

-----------------------------------------------------------------------------
(* The blocks of the flow graph                                            *)

\* A step of the flow graph is one of the formatter or leaves it alone.
LEMMA FormatterStep == [FlowNext]_flow_vars => [Next]_vars
<1> SUFFICES ASSUME [FlowNext]_flow_vars PROVE [Next]_vars
  OBVIOUS
<1>1. ASSUME NEW s \in Samples, CaptureOn(s) PROVE [Next]_vars
  <2>1. UNCHANGED vars \/ Post("pdu")
    BY <1>1 DEF CaptureOn
  <2>2. QED
    BY <2>1, PduAssumption DEF Next
<1>2. CASE PostOther
  BY <1>2 DEF PostOther, Next
<1>3. CASE HandleMessage \/ StopGraph \/ StartGraph
  BY <1>3 DEF HandleMessage, StopGraph, StartGraph, Next
<1>4. ASSUME UNCHANGED vars PROVE [Next]_vars
  BY <1>4
<1>5. QED
  BY <1>1, <1>2, <1>3, <1>4 DEF FlowNext, CallWork, SearchOn, flow_vars

\* The flow graph implements Formatter, its packets being messages posted.
THEOREM HasFormatter == FlowSpec => Spec
<1>1. FlowInit => Init
  BY DEF FlowInit
<1>2. QED
  BY <1>1, FormatterStep, PTL DEF FlowSpec, Spec

\* The flow graph implements Deframer: neither posting to the formatter nor a
\* stop and a start touch anything of the block.
THEOREM HasDeframer == FlowSpec => D!Spec
<1>1. FlowInit => D!Init
  BY DEF FlowInit
<1>2. [FlowNext]_flow_vars => [D!Next]_(D!vars)
  <2> SUFFICES ASSUME [FlowNext]_flow_vars PROVE [D!Next]_(D!vars)
    OBVIOUS
  <2>1. CASE CallWork
    BY <2>1 DEF CallWork, D!Next
  <2>2. ASSUME NEW s \in Samples, SearchOn(s) \/ CaptureOn(s)
        PROVE  [D!Next]_(D!vars)
    BY <2>2 DEF SearchOn, CaptureOn, D!Next
  <2>3. ASSUME UNCHANGED deframer PROVE [D!Next]_(D!vars)
    BY <2>3 DEF deframer, D!vars
  <2>4. QED
    BY <2>1, <2>2, <2>3 DEF FlowNext, PostOther, HandleMessage, StopGraph,
                            StartGraph, flow_vars
<1>3. QED
  BY <1>1, <1>2, PTL DEF FlowSpec, D!Spec

\* So the log of the flow graph's formatter, too, is complete while it is open
\* and an initial part of what was formatted ever after.
THEOREM FlowLog == FlowSpec => [](TypeOK /\ LogIsComplete /\ LogIsPrefix)
BY HasFormatter, TypeCorrect, LogComplete, LogPrefix, PTL

-----------------------------------------------------------------------------
(* The order of the packets                                                *)

\* A queue as its numbers, and the positions of its PDUs.
NumbersOf(queue) == [i \in DOMAIN queue |-> queue[i].no]
PdusOf(queue) == {i \in DOMAIN queue : queue[i].kind = "pdu"}

LEMMA NumbersType ==
  ASSUME NEW queue \in Seq(Message)
  PROVE  /\ NumbersOf(queue) \in Seq(1..MaxPosts)
         /\ Len(NumbersOf(queue)) = Len(queue)
         /\ \A i \in 1..Len(queue) : NumbersOf(queue)[i] = queue[i].no
         /\ PduNumbers(queue) \in Seq(1..MaxPosts)
<1>1. Len(queue) \in Nat /\ DOMAIN queue = 1..Len(queue)
  BY LenProperties
<1>2. \A i \in 1..Len(queue) : queue[i].no \in 1..MaxPosts
  <2>1. \A i \in 1..Len(queue) : queue[i] \in Message
    BY ElementOfSeq
  <2>2. QED
    BY <2>1 DEF Message
<1>3. NumbersOf(queue) = [i \in 1..Len(queue) |-> queue[i].no]
  BY <1>1 DEF NumbersOf
<1>4. NumbersOf(queue) \in Seq(1..MaxPosts) /\ Len(NumbersOf(queue)) = Len(queue)
  BY <1>1, <1>2, <1>3, IsASeq
<1>5. PduNumbers(queue) = Chosen(NumbersOf(queue), PdusOf(queue))
  BY DEF PduNumbers, NumbersOf, PdusOf
<1>6. QED
  BY <1>1, <1>4, <1>5, ChosenType DEF NumbersOf

\* A message that arrives is the last of the PDUs that wait, if it is one.
LEMMA NumbersAppend ==
  ASSUME NEW queue \in Seq(Message), NEW m \in Message
  PROVE  PduNumbers(Append(queue, m)) =
           IF m.kind = "pdu" THEN Append(PduNumbers(queue), m.no) ELSE PduNumbers(queue)
<1> DEFINE longer == Append(queue, m)
           n == Len(queue)
<1>1. /\ longer \in Seq(Message) /\ Len(longer) = n + 1 /\ n \in Nat
      /\ longer[n + 1] = m /\ \A i \in 1..n : longer[i] = queue[i]
  BY AppendProperties, LenProperties
<1>2. DOMAIN longer = 1..(n + 1) /\ DOMAIN queue = 1..n
  BY <1>1, LenProperties
<1>3. /\ NumbersOf(queue) \in Seq(1..MaxPosts) /\ Len(NumbersOf(queue)) = n
      /\ m.no \in 1..MaxPosts
  BY NumbersType DEF Message
<1> HIDE DEF longer
<1>4. NumbersOf(longer) = Append(NumbersOf(queue), m.no)
  <2>1. /\ NumbersOf(longer) \in Seq(1..MaxPosts) /\ Len(NumbersOf(longer)) = n + 1
        /\ \A i \in 1..(n + 1) : NumbersOf(longer)[i] = longer[i].no
    BY <1>1, NumbersType
  <2>2. \A i \in 1..n : NumbersOf(queue)[i] = queue[i].no
    BY NumbersType
  <2> DEFINE other == Append(NumbersOf(queue), m.no)
  <2>3. /\ other \in Seq(1..MaxPosts) /\ Len(other) = n + 1
        /\ other[n + 1] = m.no /\ \A i \in 1..n : other[i] = NumbersOf(queue)[i]
    BY <1>3, AppendProperties
  <2> HIDE DEF other
  <2>4. \A i \in 1..(n + 1) : NumbersOf(longer)[i] = other[i]
    <3> TAKE i \in 1..(n + 1)
    <3>1. i = n + 1 \/ i \in 1..n
      BY <1>1
    <3>2. QED
      BY <1>1, <2>1, <2>2, <2>3, <3>1
  <2>5. QED
    BY <2>1, <2>3, <2>4, SeqEqual DEF other
<1>5. /\ \A i \in 1..n : i \in PdusOf(queue) <=> i \in PdusOf(longer)
      /\ n + 1 \in PdusOf(longer) <=> m.kind = "pdu"
  BY <1>1, <1>2 DEF PdusOf
<1>6. Chosen(Append(NumbersOf(queue), m.no), PdusOf(longer)) =
        IF n + 1 \in PdusOf(longer)
        THEN Append(Chosen(NumbersOf(queue), PdusOf(queue)), m.no)
        ELSE Chosen(NumbersOf(queue), PdusOf(queue))
  <2> DEFINE q == NumbersOf(queue)
             I == PdusOf(queue)
             J == PdusOf(longer)
             S == 1..MaxPosts
             e == m.no
  <2>1. q \in Seq(S) /\ e \in S /\ Len(q) = n
    BY <1>3
  <2>2. \A i \in 1..Len(q) : i \in I <=> i \in J
    BY <1>5, <2>1
  <2> HIDE DEF q, I, J, S, e, n
  <2>3. Chosen(Append(q, e), J) = IF Len(q) + 1 \in J THEN Append(Chosen(q, I), e)
                                  ELSE Chosen(q, I)
    BY <2>1, <2>2, ChosenAppend
  <2>4. QED
    BY <2>1, <2>3 DEF q, I, J, e
<1>7. /\ PduNumbers(longer) = Chosen(NumbersOf(longer), PdusOf(longer))
      /\ PduNumbers(queue) = Chosen(NumbersOf(queue), PdusOf(queue))
  BY DEF PduNumbers, NumbersOf, PdusOf
<1>8. QED
  BY <1>4, <1>5, <1>6, <1>7 DEF longer

\* The first message is the first of the PDUs that wait, if it is one.
LEMMA NumbersTail ==
  ASSUME NEW queue \in Seq(Message), queue # <<>>
  PROVE  PduNumbers(queue) =
           (IF Head(queue).kind = "pdu" THEN <<Head(queue).no>> ELSE <<>>)
             \o PduNumbers(Tail(queue))
<1> DEFINE rest == Tail(queue)
           n == Len(rest)
           N == NumbersOf(queue)
<1>1. /\ rest \in Seq(Message) /\ Len(queue) = n + 1 /\ n \in Nat
      /\ Head(queue) = queue[1] /\ \A i \in 1..n : rest[i] = queue[i + 1]
  BY HeadTailProperties, LenProperties
<1>2. DOMAIN rest = 1..n /\ DOMAIN queue = 1..(n + 1)
  BY <1>1, LenProperties
<1>3. /\ N \in Seq(1..MaxPosts) /\ Len(N) = n + 1
      /\ \A i \in 1..(n + 1) : N[i] = queue[i].no
  BY <1>1, NumbersType
<1> HIDE DEF rest, N
<1>4. /\ NumbersOf(rest) \in Seq(1..MaxPosts) /\ Len(NumbersOf(rest)) = n
      /\ \A i \in 1..n : NumbersOf(rest)[i] = rest[i].no
  BY <1>1, NumbersType
<1>5. N # <<>> /\ Head(N) = Head(queue).no
  BY <1>1, <1>3, EmptySeq, HeadTailProperties
<1>6. NumbersOf(rest) = Tail(N)
  <2>1. /\ Tail(N) \in Seq(1..MaxPosts) /\ Len(Tail(N)) = n
        /\ \A i \in 1..n : Tail(N)[i] = N[i + 1]
    BY <1>1, <1>3, <1>5, HeadTailProperties
  <2>2. ASSUME NEW i \in 1..n PROVE Tail(N)[i] = NumbersOf(rest)[i]
    <3>1. i + 1 \in 1..(n + 1)
      BY <1>1
    <3>2. QED
      BY <1>1, <1>3, <1>4, <2>1, <3>1
  <2>3. QED
    BY <1>4, <2>1, <2>2, SeqEqual
<1>7. /\ 1 \in PdusOf(queue) <=> Head(queue).kind = "pdu"
      /\ \A i \in 1..(Len(N) - 1) : i + 1 \in PdusOf(queue) <=> i \in PdusOf(rest)
  <2>1. 1 \in 1..(n + 1) /\ Len(N) - 1 = n /\ \A i \in 1..n : i + 1 \in 1..(n + 1)
    BY <1>1, <1>3
  <2>2. QED
    BY <1>1, <1>2, <2>1 DEF PdusOf
<1>8. Chosen(N, PdusOf(queue)) =
        (IF 1 \in PdusOf(queue) THEN <<Head(N)>> ELSE <<>>) \o Chosen(Tail(N), PdusOf(rest))
  BY <1>3, <1>5, <1>7, ChosenTail
<1>9. /\ PduNumbers(queue) = Chosen(N, PdusOf(queue))
      /\ PduNumbers(rest) = Chosen(NumbersOf(rest), PdusOf(rest))
  BY DEF PduNumbers, NumbersOf, PdusOf, N
<1>10. QED
  BY <1>5, <1>6, <1>7, <1>8, <1>9 DEF rest

\* Every step keeps the packets in order.
LEMMA OrderStep ==
  TypeOK /\ PacketsStayInOrder /\ [FlowNext]_flow_vars => PacketsStayInOrder'
<1> SUFFICES ASSUME TypeOK, PacketsStayInOrder, [FlowNext]_flow_vars
             PROVE  PacketsStayInOrder'
  OBVIOUS
<1> DEFINE Q == 1..MaxPosts
<1>1. /\ inbox \in Seq(Message) /\ formatted \in Seq(Q)
      /\ PduNumbers(inbox) \in Seq(Q)
      /\ packets = formatted \o PduNumbers(inbox)
  BY NumbersType DEF TypeOK, PacketsStayInOrder
<1> HIDE DEF Q
<1>2. ASSUME UNCHANGED <<packets, formatted, inbox>> PROVE PacketsStayInOrder'
  BY <1>2 DEF PacketsStayInOrder
<1>3. ASSUME NEW kind \in Kinds, Post(kind)
      PROVE  /\ formatted' = formatted /\ posted' \in Q
             /\ PduNumbers(inbox)' = IF kind = "pdu" THEN Append(PduNumbers(inbox), posted')
                                     ELSE PduNumbers(inbox)
  <2> DEFINE m == [no |-> posted', kind |-> kind]
  <2>1. posted' \in Q /\ inbox' = Append(inbox, m) /\ formatted' = formatted
    BY <1>3, PostsAssumption DEF Post, TypeOK, Q
  <2>2. m \in Message /\ m.no = posted' /\ m.kind = kind
    BY <2>1 DEF Message, Q
  <2> HIDE DEF m
  <2>3. PduNumbers(Append(inbox, m)) = IF m.kind = "pdu" THEN Append(PduNumbers(inbox), m.no)
                                       ELSE PduNumbers(inbox)
    BY <1>1, <2>2, NumbersAppend
  <2>4. QED
    BY <2>1, <2>2, <2>3
<1>4. ASSUME NEW s \in Samples, CaptureOn(s) PROVE PacketsStayInOrder'
  <2>1. CASE UNCHANGED <<vars, packets>>
    BY <1>2, <2>1 DEF vars
  <2>2. CASE Post("pdu") /\ packets' = Append(packets, posted')
    <3>1. /\ formatted' = formatted /\ posted' \in Q
          /\ PduNumbers(inbox)' = Append(PduNumbers(inbox), posted')
      BY <1>3, <2>2, PduAssumption
    <3>2. Append(formatted \o PduNumbers(inbox), posted') =
            formatted \o Append(PduNumbers(inbox), posted')
      BY <1>1, <3>1
    <3>3. QED
      BY <1>1, <2>2, <3>1, <3>2 DEF PacketsStayInOrder
  <2>3. QED
    BY <1>4, <2>1, <2>2 DEF CaptureOn
<1>5. CASE PostOther
  <2>1. PICK kind \in Kinds \ {"pdu"} : Post(kind)
    BY <1>5 DEF PostOther
  <2>2. packets' = packets
    BY <1>5 DEF PostOther, history
  <2>3. formatted' = formatted /\ PduNumbers(inbox)' = PduNumbers(inbox)
    BY <1>3, <2>1
  <2>4. QED
    BY <1>1, <2>2, <2>3 DEF PacketsStayInOrder
<1>6. CASE HandleMessage
  <2> DEFINE m == Head(inbox)
             rest == PduNumbers(Tail(inbox))
  <2>1. inbox # <<>> /\ inbox' = Tail(inbox) /\ packets' = packets
    BY <1>6 DEF HandleMessage, handle_pdu, history
  <2>2. /\ Tail(inbox) \in Seq(Message) /\ m \in Message
    BY <1>1, <2>1, HeadTailProperties
  <2>3. rest \in Seq(Q) /\ m.no \in Q
    BY <2>2, NumbersType DEF Q, Message
  <2>4. PduNumbers(inbox) = (IF m.kind = "pdu" THEN <<m.no>> ELSE <<>>) \o rest
    BY <1>1, <2>1, NumbersTail
  <2>5. PduNumbers(inbox)' = rest
    BY <2>1
  <2>6. Drop(m) \/ Escape(m) \/ Format(m)
    BY <1>6 DEF HandleMessage, handle_pdu
  <2> HIDE DEF m, rest
  <2>7. CASE Format(m)
    <3>1. formatted' = Append(formatted, m.no) /\ m.kind = "pdu"
      BY <2>7 DEF Format
    <3>2. <<m.no>> \in Seq(Q) /\ Append(formatted, m.no) = formatted \o <<m.no>>
      BY <1>1, <2>3, AppendIsConcat
    <3>3. formatted \o (<<m.no>> \o rest) = (formatted \o <<m.no>>) \o rest
      BY <1>1, <2>3, <3>2, ConcatAssociative, SMTT(30)
    <3>4. QED
      BY <1>1, <2>1, <2>4, <2>5, <3>1, <3>2, <3>3 DEF PacketsStayInOrder
  <2>8. CASE Drop(m) \/ Escape(m)
    <3>1. formatted' = formatted /\ m.kind # "pdu"
      BY <2>8 DEF Drop, Escape
    <3>2. <<>> \o rest = rest
      BY <2>3, ConcatEmptySeq
    <3>3. QED
      BY <1>1, <2>1, <2>4, <2>5, <3>1, <3>2 DEF PacketsStayInOrder
  <2>9. QED
    BY <2>6, <2>7, <2>8
<1>7. CASE CallWork
  BY <1>2, <1>7 DEF CallWork, vars, history
<1>8. ASSUME NEW s \in Samples, SearchOn(s) PROVE PacketsStayInOrder'
  BY <1>2, <1>8 DEF SearchOn, vars
<1>9. CASE StopGraph \/ StartGraph
  BY <1>2, <1>9 DEF StopGraph, StartGraph, Stop, Start, history
<1>10. CASE UNCHANGED flow_vars
  BY <1>2, <1>10 DEF flow_vars, vars, history
<1>11. QED
  BY <1>4, <1>5, <1>6, <1>7, <1>8, <1>9, <1>10 DEF FlowNext

\* The formatter formats all that the deframer publishes, in that order, for any
\* number of packets, of other messages in between and of restarts.
THEOREM PacketOrder == FlowSpec => []PacketsStayInOrder
<1>1. FlowInit => PacketsStayInOrder
  <2> SUFFICES ASSUME FlowInit PROVE PacketsStayInOrder
    OBVIOUS
  <2>1. inbox = <<>> /\ formatted = <<>> /\ packets = <<>>
    BY DEF FlowInit, Init
  <2>2. /\ <<>> \in Seq(Message) /\ <<>> \in Seq(1..MaxPosts)
        /\ NumbersOf(<<>>) = <<>> /\ Len(<<>>) = 0
    <3>1. <<>> \in Seq(Message) /\ <<>> \in Seq(1..MaxPosts)
      BY EmptySeq
    <3>2. NumbersOf(<<>>) \in Seq(1..MaxPosts) /\ Len(NumbersOf(<<>>)) = Len(<<>>)
      BY <3>1, NumbersType
    <3>3. QED
      BY <3>1, <3>2, EmptySeq
  <2>3. Chosen(<<>>, PdusOf(<<>>)) = <<>>
    <3>1. \A S, I : \A s \in Seq(S) : Picks(s, I)[0] = <<>>
      BY PicksDefined
    <3>2. Picks(<<>>, PdusOf(<<>>))[0] = <<>>
      BY <2>2, <3>1
    <3>3. QED
      BY <2>2, <3>2 DEF Chosen
  <2>4. PduNumbers(<<>>) = <<>>
    BY <2>2, <2>3 DEF PduNumbers, NumbersOf, PdusOf
  <2>5. <<>> \o <<>> = <<>>
    BY <2>2, ConcatEmptySeq
  <2>6. QED
    BY <2>1, <2>4, <2>5 DEF PacketsStayInOrder
<1>2. QED
  BY <1>1, HasFormatter, TypeCorrect, OrderStep, PTL DEF FlowSpec

-----------------------------------------------------------------------------
(* Packets of two runs                                                     *)

\* What shifting an element into a buffer of n places does: d elements fall out,
\* the others move up, and e is the last.
Shifted(old, new, e, n) ==
  \E d \in {0, 1} :
    /\ d = 1 <=> Len(old) = n
    /\ Len(new) = Len(old) + 1 - d
    /\ \A i \in 1..(Len(old) - d) : new[i] = old[i + d]
    /\ new[Len(old) + 1 - d] = e

\* ShiftIn does that.
LEMMA ShiftInShifts ==
  ASSUME NEW S, NEW buf \in Seq(S), NEW e \in S,
         Len(cfg.sync) \in Nat \ {0}, Len(buf) <= Len(cfg.sync)
  PROVE  /\ D!ShiftIn(buf, e) \in Seq(S)
         /\ Shifted(buf, D!ShiftIn(buf, e), e, Len(cfg.sync))
<1> DEFINE all == Append(buf, e)
<1>1. Len(buf) \in Nat
  BY LenProperties
<1>2. /\ all \in Seq(S) /\ all # <<>> /\ Len(all) = Len(buf) + 1
      /\ \A i \in 1..Len(buf) : all[i] = buf[i]
      /\ all[Len(buf) + 1] = e
  BY AppendProperties
<1>3. CASE Len(buf) = Len(cfg.sync)
  <2>1. D!ShiftIn(buf, e) = Tail(all)
    BY <1>1, <1>2, <1>3 DEF D!ShiftIn
  <2>2. /\ Tail(all) \in Seq(S) /\ Len(Tail(all)) = Len(buf)
        /\ \A i \in 1..Len(Tail(all)) : Tail(all)[i] = all[i + 1]
    BY <1>1, <1>2, HeadTailProperties
  <2>3. \A i \in 1..(Len(buf) - 1) : Tail(all)[i] = buf[i + 1]
    BY <1>1, <1>2, <2>2
  <2>4. Tail(all)[Len(buf)] = e
    BY <1>1, <1>2, <1>3, <2>2
  <2>5. QED
    BY <1>1, <1>3, <2>1, <2>2, <2>3, <2>4 DEF Shifted
<1>4. CASE Len(buf) < Len(cfg.sync)
  <2>1. D!ShiftIn(buf, e) = all
    BY <1>1, <1>2, <1>4 DEF D!ShiftIn
  <2>2. Len(buf) # Len(cfg.sync)
    BY <1>1, <1>4
  <2>3. QED
    BY <1>1, <1>2, <2>1, <2>2 DEF Shifted
<1>5. QED
  BY <1>1, <1>3, <1>4

\* The last k samples of the window w have been read since the last packet; those
\* before them, if any, are the end of its sync word.
SinceLastPacket(w, sync, k) ==
  LET n == Len(sync)
  IN  /\ k \in 0..Len(w)
      /\ k < Len(w) => Len(w) = n /\ \A i \in 1..(n - k) : w[i] = sync[k + i]

\* One of them is of an earlier run.
Aged(read, now, k) == \E i \in (Len(read) - k + 1)..Len(read) : read[i] # now

\* There is a restart for each packet of two runs, and one more for the packet
\* that the samples at hand may yet become the beginning of.
SpliceInv ==
  /\ cfg \in Configs
  /\ restarts \in Nat /\ spliced \in Nat /\ spliced <= restarts
  /\ d_in_sync \in BOOLEAN
  /\ d_search \in Seq(Samples) /\ Len(d_search) <= Len(cfg.sync)
  /\ runs \in Seq(0..restarts) /\ Len(runs) = Len(d_search)
  /\ d_in_sync => /\ d_search = cfg.sync
                  /\ oldest \in 0..restarts
                  /\ oldest # restarts => spliced < restarts
  /\ ~d_in_sync => \E k \in Nat :
                     /\ SinceLastPacket(d_search, cfg.sync, k)
                     /\ Aged(runs, restarts, k) => spliced < restarts

\* The window matches with a sample of an earlier packet's sync word in it only
\* if the sync word has a border.
LEMMA MatchIsFresh ==
  ASSUME NEW k \in Nat, SinceLastPacket(cfg.sync, cfg.sync, k), k > 0,
         cfg.sync \in Seq(Samples), D!Unbordered(cfg.sync)
  PROVE  k = Len(cfg.sync)
<1> DEFINE n == Len(cfg.sync)
<1>1. n \in Nat /\ k \in 0..n
  BY LenProperties DEF SinceLastPacket
<1>2. ASSUME k < n PROVE FALSE
  <2>1. n - k \in 1..(n - 1)
    BY <1>1, <1>2
  <2>2. PICK i \in 1..(n - k) : cfg.sync[i] # cfg.sync[n - (n - k) + i]
    BY <2>1 DEF D!Unbordered
  <2>3. cfg.sync[i] = cfg.sync[k + i]
    BY <1>2, <2>2 DEF SinceLastPacket
  <2>4. n - (n - k) + i = k + i
    BY <1>1, <2>2
  <2>5. QED
    BY <2>2, <2>3, <2>4
<1>3. QED
  BY <1>1, <1>2

\* A sample searched is the last one read since the last packet, and of this run.
LEMMA SearchedSince ==
  ASSUME SpliceInv, NEW s \in Samples, SearchOn(s), NEW k \in Nat,
         SinceLastPacket(d_search, cfg.sync, k),
         Aged(runs, restarts, k) => spliced < restarts
  PROVE  \E j \in Nat : /\ j > 0 /\ SinceLastPacket(d_search', cfg'.sync, j)
                        /\ Aged(runs', restarts', j) => spliced' < restarts'
<1> DEFINE n == Len(cfg.sync)
           l == Len(d_search)
<1>1. /\ d_search' = D!ShiftIn(d_search, s) /\ runs' = D!ShiftIn(runs, restarts)
      /\ cfg' = cfg /\ restarts' = restarts /\ spliced' = spliced
  BY DEF SearchOn, D!Hunt, D!FoundSync, D!NextSample, vars
<1>2. /\ n \in Nat \ {0} /\ l \in Nat /\ l <= n /\ k \in 0..l /\ Len(runs) = l
      /\ d_search \in Seq(Samples) /\ runs \in Seq(0..restarts)
      /\ restarts \in 0..restarts
  BY SyncWordsAssumption, LenProperties, EmptySeq DEF SpliceInv, SinceLastPacket
<1>3. Shifted(d_search, d_search', s, n) /\ Shifted(runs, runs', restarts, n)
  BY <1>1, <1>2, ShiftInShifts
<1>4. PICK d \in {0, 1} :
        /\ d = 1 <=> l = n
        /\ Len(d_search') = l + 1 - d
        /\ \A i \in 1..(l - d) : d_search'[i] = d_search[i + d]
  BY <1>3 DEF Shifted
<1>5. /\ Len(runs') = l + 1 - d
      /\ \A i \in 1..(l - d) : runs'[i] = runs[i + d]
      /\ runs'[l + 1 - d] = restarts
  BY <1>2, <1>3, <1>4 DEF Shifted
<1> DEFINE j == IF k = n THEN n ELSE k + 1
<1>6. j \in Nat /\ j > 0 /\ j \in 0..(l + 1 - d)
  BY <1>2, <1>4
<1>7. SinceLastPacket(d_search', cfg'.sync, j)
  <2>1. CASE j < l + 1 - d
    <3>1. k < l /\ j = k + 1 /\ l = n /\ d = 1
      BY <1>2, <1>4, <2>1 DEF SinceLastPacket
    <3>2. \A i \in 1..(n - j) : d_search'[i] = cfg.sync[j + i]
      <4> TAKE i \in 1..(n - j)
      <4>1. d_search'[i] = d_search[i + 1] /\ i + 1 \in 1..(n - k)
        BY <1>2, <1>4, <3>1
      <4>2. d_search[i + 1] = cfg.sync[k + (i + 1)]
        BY <3>1, <4>1 DEF SinceLastPacket
      <4>3. k + (i + 1) = j + i
        BY <1>2, <3>1
      <4>4. QED
        BY <4>1, <4>2, <4>3
    <3>3. QED
      BY <1>1, <1>4, <1>6, <3>1, <3>2 DEF SinceLastPacket
  <2>2. QED
    BY <1>1, <1>4, <1>6, <2>1 DEF SinceLastPacket
<1>8. ASSUME Aged(runs', restarts', j) PROVE spliced' < restarts'
  <2>1. PICK i \in (l + 1 - d - j + 1)..(l + 1 - d) : runs'[i] # restarts
    BY <1>1, <1>5, <1>8 DEF Aged
  <2>2. i \in 1..(l - d) /\ i + d \in (l - k + 1)..l
    <3>1. i # l + 1 - d
      BY <1>5, <2>1
    <3>2. CASE k = n
      <4>1. l = n /\ d = 1 /\ j = n
        BY <1>2, <1>4, <3>2
      <4>2. l + 1 - d - j + 1 = 1 /\ l + 1 - d = l
        BY <1>2, <3>2, <4>1
      <4>3. i \in 1..l
        BY <2>1, <4>2
      <4>4. QED
        BY <1>2, <3>1, <3>2, <4>1, <4>3
    <3>3. CASE k # n
      BY <1>2, <1>4, <1>6, <2>1, <3>1, <3>3
    <3>4. QED
      BY <3>2, <3>3
  <2>3. runs[i + d] # restarts
    BY <1>5, <2>1, <2>2
  <2>4. Aged(runs, restarts, k)
    BY <1>2, <2>2, <2>3 DEF Aged
  <2>5. QED
    BY <1>1, <2>4
<1>9. QED
  BY <1>6, <1>7, <1>8

\* A sample searched keeps the invariant.  When it completes the sync word, all
\* of the window has been read since the last packet.
LEMMA SearchSplice ==
  ASSUME SpliceInv, NEW s \in Samples, SearchOn(s), D!Unbordered(cfg.sync)
  PROVE  SpliceInv'
<1>1. /\ d_search' = D!ShiftIn(d_search, s) /\ runs' = D!ShiftIn(runs, restarts)
      /\ cfg' = cfg /\ restarts' = restarts /\ spliced' = spliced
      /\ oldest' = runs'[1] /\ ~d_in_sync
      /\ \/ d_in_sync' = FALSE
         \/ d_in_sync' = TRUE /\ d_search' = cfg.sync
  BY DEF SearchOn, D!Hunt, D!FoundSync, D!NextSample, vars, SpliceInv
<1>2. /\ cfg.sync \in Seq(Samples) /\ Len(cfg.sync) \in Nat \ {0}
      /\ Len(runs) = Len(d_search) /\ Len(d_search) \in Nat
      /\ d_search \in Seq(Samples) /\ runs \in Seq(0..restarts)
      /\ Len(d_search) <= Len(cfg.sync) /\ restarts \in 0..restarts
  BY SyncWordsAssumption, LenProperties, EmptySeq DEF SpliceInv
<1>3. /\ Shifted(d_search, d_search', s, Len(cfg.sync))
      /\ Shifted(runs, runs', restarts, Len(cfg.sync))
      /\ d_search' \in Seq(Samples) /\ runs' \in Seq(0..restarts)
  BY <1>1, <1>2, ShiftInShifts
<1>4. /\ Len(d_search') <= Len(cfg.sync) /\ Len(d_search') \in Nat
      /\ Len(runs') = Len(d_search')
  BY <1>2, <1>3 DEF Shifted
<1>5. PICK k \in Nat : /\ SinceLastPacket(d_search, cfg.sync, k)
                       /\ Aged(runs, restarts, k) => spliced < restarts
  BY <1>1 DEF SpliceInv
<1>6. PICK j \in Nat : /\ j > 0 /\ SinceLastPacket(d_search', cfg'.sync, j)
                       /\ Aged(runs', restarts', j) => spliced' < restarts'
  BY <1>5, SearchedSince
<1>7. CASE d_in_sync' = FALSE
  BY <1>1, <1>3, <1>4, <1>6, <1>7 DEF SpliceInv
<1>8. CASE d_in_sync' = TRUE /\ d_search' = cfg.sync
  <2>1. j = Len(cfg.sync) /\ Len(runs') = Len(cfg.sync)
    <3>1. SinceLastPacket(cfg.sync, cfg.sync, j)
      BY <1>1, <1>6, <1>8 DEF SinceLastPacket
    <3>2. QED
      BY <1>2, <1>4, <1>6, <1>8, <3>1, MatchIsFresh
  <2>2. oldest' \in 0..restarts
    BY <1>1, <1>2, <1>3, <2>1, ElementOfSeq
  <2>3. ASSUME oldest' # restarts PROVE spliced < restarts
    <3>1. 1 \in (Len(runs') - j + 1)..Len(runs') /\ runs'[1] # restarts'
      BY <1>1, <1>2, <2>1, <2>3
    <3>2. Aged(runs', restarts', j)
      BY <3>1 DEF Aged
    <3>3. QED
      BY <1>1, <1>6, <3>2
  <2>4. QED
    BY <1>1, <1>3, <1>4, <1>8, <2>2, <2>3 DEF SpliceInv
<1>9. QED
  BY <1>1, <1>7, <1>8

\* A sample captured keeps it: a packet published takes the place of the one
\* that was to come, and nothing has been read since.
LEMMA CaptureSplice ==
  ASSUME SpliceInv, NEW s \in Samples, CaptureOn(s)
  PROVE  SpliceInv'
<1>1. D!Store(s)
  BY DEF CaptureOn, D!Capture, D!CaptureHeader, D!CaptureLengthBit,
         D!CaptureLength, D!CaptureBody
<1>2. /\ d_in_sync /\ cfg' = cfg /\ d_search' = d_search /\ restarts' = restarts
      /\ runs' = runs /\ oldest' = oldest
  BY <1>1 DEF D!Store, D!NextSample, CaptureOn, Post, vars
<1>3. /\ d_in_sync' \in BOOLEAN
      /\ pub' # <<>> => d_in_sync' = FALSE
  BY <1>2 DEF CaptureOn, D!Capture, D!CaptureHeader, D!CaptureLengthBit,
         D!CaptureLength, D!CaptureBody, D!Finish, D!TooLong, SpliceInv
<1>4. /\ d_search = cfg.sync /\ oldest \in 0..restarts
      /\ spliced \in Nat /\ spliced <= restarts /\ restarts \in Nat
      /\ oldest # restarts => spliced < restarts
      /\ Len(runs) = Len(cfg.sync)
  BY <1>2 DEF SpliceInv
<1>5. \/ pub' = <<>> /\ spliced' = spliced
      \/ /\ d_in_sync' = FALSE
         /\ spliced' = IF oldest # restarts THEN spliced + 1 ELSE spliced
  BY <1>3 DEF CaptureOn
<1>6. spliced' \in Nat /\ spliced' <= restarts
  BY <1>4, <1>5
<1>7. CASE d_in_sync' = TRUE
  BY <1>2, <1>4, <1>5, <1>6, <1>7 DEF SpliceInv
<1>8. CASE d_in_sync' = FALSE
  <2>1. Len(cfg.sync) \in Nat
    BY SyncWordsAssumption, LenProperties DEF SpliceInv
  <2>2. SinceLastPacket(d_search', cfg'.sync, 0)
    BY <1>2, <1>4, <2>1 DEF SinceLastPacket
  <2>3. ~Aged(runs', restarts', 0)
    BY <1>2, <1>4, <2>1 DEF Aged
  <2>4. QED
    BY <1>2, <1>4, <1>6, <1>8, <2>2, <2>3 DEF SpliceInv
<1>9. QED
  BY <1>3, <1>7, <1>8

\* A start makes room for one more packet of two runs.
LEMMA StartSplice ==
  ASSUME SpliceInv, StartGraph
  PROVE  SpliceInv'
<1>1. /\ restarts' = restarts + 1
      /\ UNCHANGED <<cfg, spliced, d_in_sync, d_search, runs, oldest>>
  BY DEF StartGraph, Start, deframer, history
<1>2. /\ restarts \in Nat /\ spliced \in Nat /\ spliced <= restarts
      /\ runs \in Seq(0..restarts)
  BY DEF SpliceInv
<1>3. runs \in Seq(0..restarts')
  <2>1. Len(runs) \in Nat /\ runs \in [1..Len(runs) -> 0..restarts]
    BY <1>2, LenProperties
  <2>2. \A i \in 1..Len(runs) : runs[i] \in 0..restarts'
    BY <1>1, <1>2, <2>1
  <2>3. runs \in [1..Len(runs) -> 0..restarts']
    BY <2>1, <2>2
  <2>4. QED
    BY <2>1, <2>3, SeqDef
<1>4. oldest \in 0..restarts => oldest \in 0..restarts'
  BY <1>1, <1>2
<1>5. /\ restarts' \in Nat /\ spliced' \in Nat /\ spliced' < restarts'
      /\ spliced' <= restarts'
  BY <1>1, <1>2
<1>6. QED
  BY <1>1, <1>3, <1>4, <1>5 DEF SpliceInv

\* Any other step changes nothing the invariant speaks of.
LEMMA SpliceStep ==
  ASSUME D!Unbordered(cfg.sync) => SpliceInv, [FlowNext]_flow_vars
  PROVE  (D!Unbordered(cfg.sync) => SpliceInv)'
<1>1. cfg' = cfg
  <2>1. ASSUME NEW s \in Samples, SearchOn(s) \/ CaptureOn(s) PROVE cfg' = cfg
    BY <2>1 DEF SearchOn, D!Hunt, D!FoundSync, CaptureOn, D!Capture,
                D!CaptureHeader, D!CaptureLengthBit, D!CaptureLength,
                D!CaptureBody, D!Store, D!NextSample
  <2>2. CASE CallWork
    BY <2>2 DEF CallWork, D!Work
  <2>3. QED
    BY <2>1, <2>2 DEF FlowNext, PostOther, HandleMessage, StopGraph, StartGraph,
                      flow_vars, deframer
<1>2. D!Unbordered(cfg.sync)' => D!Unbordered(cfg.sync)
  BY <1>1 DEF D!Unbordered
<1> SUFFICES ASSUME SpliceInv, D!Unbordered(cfg.sync) PROVE SpliceInv'
  BY <1>2
<1>3. ASSUME UNCHANGED <<cfg, restarts, spliced, d_in_sync, d_search, runs, oldest>>
      PROVE  SpliceInv'
  BY <1>3 DEF SpliceInv
<1>4. CASE CallWork
  BY <1>3, <1>4 DEF CallWork, D!Work, vars, history
<1>5. ASSUME NEW s \in Samples, SearchOn(s) PROVE SpliceInv'
  BY <1>5, SearchSplice
<1>6. ASSUME NEW s \in Samples, CaptureOn(s) PROVE SpliceInv'
  BY <1>6, CaptureSplice
<1>7. CASE PostOther
  BY <1>3, <1>7 DEF PostOther, Post, deframer, history
<1>8. CASE HandleMessage
  BY <1>3, <1>8 DEF HandleMessage, handle_pdu, deframer, history
<1>9. CASE StopGraph
  BY <1>3, <1>9 DEF StopGraph, Stop, deframer, history
<1>10. CASE StartGraph
  BY <1>10, StartSplice
<1>11. CASE UNCHANGED flow_vars
  BY <1>3, <1>11 DEF flow_vars, vars, deframer, history
<1>12. QED
  BY <1>4, <1>5, <1>6, <1>7, <1>8, <1>9, <1>10, <1>11 DEF FlowNext

\* For any sync word without a border, and any number of restarts: each makes
\* at most one packet of samples of two runs.
THEOREM OneSplice == FlowSpec => []OneSplicePerRestart
<1>1. FlowInit => SpliceInv
  <2> SUFFICES ASSUME FlowInit PROVE SpliceInv
    OBVIOUS
  <2>1. /\ cfg \in Configs /\ restarts = 0 /\ spliced = 0 /\ d_in_sync = FALSE
        /\ d_search = <<>> /\ runs = <<>>
    BY DEF FlowInit, Init, D!Init
  <2>2. /\ Len(d_search) = 0 /\ Len(runs) = 0 /\ Len(cfg.sync) \in Nat
        /\ d_search \in Seq(Samples) /\ runs \in Seq(0..restarts)
    BY <2>1, SyncWordsAssumption, LenProperties, EmptySeq
  <2>3. SinceLastPacket(d_search, cfg.sync, 0) /\ ~Aged(runs, restarts, 0)
    BY <2>2 DEF SinceLastPacket, Aged
  <2>4. /\ cfg \in Configs /\ restarts \in Nat /\ spliced \in Nat
        /\ spliced <= restarts /\ d_in_sync = FALSE
    BY <2>1
  <2>5. /\ Len(d_search) <= Len(cfg.sync) /\ Len(runs) = Len(d_search)
        /\ \E k \in Nat : /\ SinceLastPacket(d_search, cfg.sync, k)
                          /\ Aged(runs, restarts, k) => spliced < restarts
    BY <2>2, <2>3
  <2>6. QED
    BY <2>2, <2>4, <2>5 DEF SpliceInv
<1>2. (D!Unbordered(cfg.sync) => SpliceInv) => OneSplicePerRestart
  BY DEF SpliceInv, OneSplicePerRestart
<1>3. QED
  BY <1>1, <1>2, SpliceStep, PTL DEF FlowSpec
=============================================================================
