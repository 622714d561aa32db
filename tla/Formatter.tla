------------------------------ MODULE Formatter ------------------------------
(***************************************************************************)
(* The packet_formatter block of python/: it formats each message posted to*)
(* its port, prints the line and appends it to a log file.  The scheduler  *)
(* hands it one message at a time, in the order they were posted; handling *)
(* one is one action.                                                      *)
(*                                                                         *)
(* An exception that leaves handle_pdu ends the thread of the block.  The  *)
(* block stays, and the flow graph may be stopped and started again with   *)
(* it.  What a line consists of is left to another module: here a message  *)
(* can be formatted or it cannot.                                          *)
(***************************************************************************)
EXTENDS Integers, Sequences, SequencesExt

CONSTANTS
  Kinds,       \* the kinds of messages posted
  Faults,      \* which files may raise IOError: "stdout", "file"
  Loggers,     \* the values of log_to considered
  MaxPosts,    \* bound: the number of messages posted
  MaxRestarts  \* bound: how often the flow graph is started again

\* "pdu": a PDU that can be formatted; "odd": one whose formatting raises an
\* exception, as %(int) of no bits does; "other": a message that is no pair;
\* "untyped": a pair without a dictionary and a vector of bytes.
ASSUME KindsAssumption == Kinds \subseteq {"pdu", "odd", "other", "untyped"}

ASSUME FormatterFaultsAssumption == Faults \subseteq {"stdout", "file"}

ASSUME LoggersAssumption == Loggers \subseteq {"stdout", "file", "stdout_file"}

ASSUME PostsAssumption == MaxPosts \in Nat /\ MaxRestarts \in Nat

VARIABLES
  log_to,     \* the constructor's argument
  fp,         \* the log file: "none" or "open"
  status,     \* of the block's thread: "running", "dead" or "stopped"
  restarts,   \* how often the flow graph has been started again
  posted,     \* how many messages have been posted
  inbox,      \* the messages waiting at the port
  printed,    \* the numbers of the messages printed
  file,       \* the numbers of the messages in the log file
  formatted   \* history: the numbers of the messages formatted

vars == <<log_to, fp, status, restarts, posted, inbox, printed, file, formatted>>

Message == [no : 1..MaxPosts, kind : Kinds]

-----------------------------------------------------------------------------
stdout == log_to \in {"stdout", "stdout_file"}

\* The constructor.  A file that cannot be opened is reported and forgotten.
Init ==
  /\ log_to \in Loggers
  /\ fp \in (IF log_to = "stdout" THEN {"none"} ELSE {"none", "open"})
  /\ status = "running" /\ restarts = 0
  /\ posted = 0 /\ inbox = <<>>
  /\ printed = <<>> /\ file = <<>> /\ formatted = <<>>

\* Another block publishes a message to this one.
Post(kind) ==
  /\ posted < MaxPosts
  /\ posted' = posted + 1
  /\ inbox' = Append(inbox, [no |-> posted', kind |-> kind])
  /\ UNCHANGED <<log_to, fp, status, restarts, printed, file, formatted>>

-----------------------------------------------------------------------------
(* handle_pdu                                                              *)

\* Mutant: the file is closed where its errors are not caught.
CloseUnguarded ==
  \/ fp = "open" /\ fp' = "none" /\ UNCHANGED status
  \/ fp = "open" /\ "file" \in Faults /\ status' = "dead" /\ UNCHANGED fp
  \/ fp = "none" /\ status' = "dead" /\ UNCHANGED fp

\* Mutant: the file is kept after an error.
KeepFile == UNCHANGED <<fp, status>>

\* The handler of IOError: the file is closed and given up, whatever closing
\* it raises.  Without a file, None.close() is an AttributeError that leaves.
GiveUpFile ==
  \/ fp = "open" /\ fp' = "none" /\ UNCHANGED status
  \/ fp = "none" /\ status' = "dead" /\ UNCHANGED fp

\* No pair, or an exception of format_output, which is caught and reported.
Drop(m) ==
  /\ m.kind \in {"other", "odd"}
  /\ UNCHANGED <<fp, status, printed, file, formatted>>

\* The conversions of the pair come before the try.
Escape(m) ==
  /\ m.kind = "untyped"
  /\ status' = "dead"
  /\ UNCHANGED <<fp, printed, file, formatted>>

\* print raises IOError: the line goes neither to stdout nor to the file.
PrintRaises ==
  /\ stdout /\ "stdout" \in Faults
  /\ GiveUpFile
  /\ UNCHANGED <<printed, file>>

PrintIfWanted(m) ==
  printed' = IF stdout THEN Append(printed, m.no) ELSE printed

\* The line is printed, and added to the file if there is one.
Log(m) ==
  /\ PrintIfWanted(m)
  /\ file' = IF fp = "open" THEN Append(file, m.no) ELSE file
  /\ UNCHANGED <<fp, status>>

\* Writing the line, its newline or flushing raises IOError: some of the line
\* may be in the file or none.
WriteRaises(m) ==
  /\ fp = "open" /\ "file" \in Faults
  /\ PrintIfWanted(m)
  /\ file' \in {file, Append(file, m.no)}
  /\ GiveUpFile

Format(m) ==
  /\ m.kind = "pdu"
  /\ formatted' = Append(formatted, m.no)
  /\ PrintRaises \/ Log(m) \/ WriteRaises(m)

handle_pdu ==
  /\ status = "running" /\ inbox # <<>>
  /\ inbox' = Tail(inbox)
  /\ LET m == Head(inbox) IN Drop(m) \/ Escape(m) \/ Format(m)
  /\ UNCHANGED <<log_to, restarts, posted>>

-----------------------------------------------------------------------------
(* The flow graph                                                          *)

\* Mutant: fp is left with the closed file.
StopForgets ==
  /\ status \in {"running", "dead"}
  /\ status' = "stopped"
  /\ fp' = IF fp = "open" THEN "closed" ELSE fp
  /\ UNCHANGED <<log_to, restarts, posted, inbox, printed, file, formatted>>

\* Mutant: the messages waiting are dropped.
StopDrains ==
  /\ status \in {"running", "dead"}
  /\ status' = "stopped"
  /\ fp' = "none"
  /\ inbox' = <<>>
  /\ UNCHANGED <<log_to, restarts, posted, printed, file, formatted>>

\* stop(): the file is closed, whatever closing it raises.
Stop ==
  /\ status \in {"running", "dead"}
  /\ status' = "stopped"
  /\ fp' = "none"
  /\ UNCHANGED <<log_to, restarts, posted, inbox, printed, file, formatted>>

\* Mutant: the file is opened again and added to.
StartReopens ==
  /\ status = "stopped" /\ restarts < MaxRestarts
  /\ status' = "running" /\ restarts' = restarts + 1
  /\ fp' = IF log_to = "stdout" THEN "none" ELSE "open"
  /\ UNCHANGED <<log_to, posted, inbox, printed, file, formatted>>

\* There is no start(): the file is not opened again.
Start ==
  /\ status = "stopped" /\ restarts < MaxRestarts
  /\ status' = "running" /\ restarts' = restarts + 1
  /\ UNCHANGED <<log_to, fp, posted, inbox, printed, file, formatted>>

Next ==
  \/ \E kind \in Kinds : Post(kind)
  \/ handle_pdu
  \/ Stop
  \/ Start

Spec == Init /\ [][Next]_vars

\* The thread of a running block serves its port.
FairSpec == Spec /\ WF_vars(handle_pdu)

-----------------------------------------------------------------------------
(* Properties                                                              *)

\* Types.
TypeOK ==
  /\ log_to \in Loggers
  /\ fp \in {"none", "open"}
  /\ status \in {"running", "dead", "stopped"}
  /\ restarts \in 0..MaxRestarts
  /\ posted \in 0..MaxPosts
  /\ inbox \in Seq(Message)
  /\ printed \in Seq(1..MaxPosts)
  /\ file \in Seq(1..MaxPosts)
  /\ formatted \in Seq(1..MaxPosts)

\* While the log file is open it holds every message formatted, in the order
\* of their arrival: a line is never lost or written twice without the file
\* being given up.
LogIsComplete == fp = "open" => file = formatted

\* What is in the log file is an initial part of what was formatted, and stays
\* that when the file has been given up or the flow graph started again: the
\* log ends, and does not go on behind a gap.
LogIsPrefix == IsPrefix(file, formatted)

\* The messages are numbered in the order in which they are handled.
Handled == posted - Len(inbox)

\* All that is due of message n has been printed.
LineDone(n) == n \in ToSet(formatted) /\ (stdout => n \in ToSet(printed))

\* A message posted is handled, until the flow graph stops or an exception
\* ends the thread; but no error of the log file does: a thread that is dead
\* has died before it had printed its last line.
EveryMessageIsHandled ==
  inbox # <<>> ~>
    (inbox = <<>> \/ status = "stopped" \/ (status = "dead" /\ ~LineDone(Handled)))

\* The last handler, for StandardError, reports whatever "went horribly
\* wrong": no error of printing or logging a PDU leaves handle_pdu.
ErrorsAreReported == status # "dead"
=============================================================================
