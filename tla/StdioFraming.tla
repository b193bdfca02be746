---------------------------- MODULE StdioFraming ----------------------------
(***************************************************************************)
(* The stdio transport of the MCP server (server.py,                       *)
(* bounded_stdio_server): a reader that cuts standard input into lines and *)
(* hands each to the SDK, and a writer that puts the SDK's messages on     *)
(* standard output, both with a limit on the length of a line.             *)
(*                                                                         *)
(* Lines are read in pieces of at most one byte more than the limit.  The  *)
(* input is a sequence of bytes; when they arrive makes no difference,     *)
(* since readline waits.                                                   *)
(***************************************************************************)
EXTENDS Integers, Sequences, FiniteSets, SequencesExt, Orders

CONSTANTS
    MaxLine,    \* MAX_STDIO_MESSAGE_BYTES, the newline included
    Ids,        \* request ids, short enough for an error to fit the limit
    NoId,       \* a notification has none
    MaxInput,   \* bound on the input
    MaxOut      \* bound on the messages of the SDK

ASSUME LimitAssumption == MaxLine \in Nat \ {0} /\ MaxInput \in Nat

ASSUME IdAssumption == NoId \notin Ids

\* A newline, a byte of a message, and one no message contains.
Newline == "newline"
Bytes   == {Newline, "good", "bad"}

\* What the SDK is handed: a message, or one of two errors.
Frames == {"message", "invalid", "oversized"}

Messages == [id: Ids \cup {NoId}, fits: BOOLEAN]
NoMessage == [id |-> NoId, fits |-> TRUE]

VARIABLES
    input,      \* standard input, all of it
    unread,     \* what readline has not returned yet
    reading,    \* where the reader is: at a new line, in one, at the end
    raw,        \* the last piece read
    oversized,  \* the line so far is over the limit, or was cut
    delivered,  \* what the reader has sent to the SDK, bytes included
    writing,    \* the writer has a message
    message,    \* that message
    written,    \* messages on standard output
    emitted     \* history: messages the SDK has sent

reader == <<input, unread, reading, raw, oversized, delivered>>
writer == <<writing, message, written, emitted>>
vars   == <<reader, writer>>

TypeOK ==
    /\ input \in BoundedSeq(Bytes, MaxInput)
    /\ unread \in BoundedSeq(Bytes, MaxInput)
    /\ reading \in {"line", "piece", "end"}
    /\ raw \in BoundedSeq(Bytes, MaxLine + 1)
    /\ oversized \in BOOLEAN
    /\ delivered \in Seq([frame: Frames, bytes: BoundedSeq(Bytes, MaxLine)])
    /\ writing \in BOOLEAN
    /\ message \in Messages
    /\ written \in Seq([id: Ids \cup {NoId}, fits: {TRUE}])
    /\ emitted \in Seq(Messages)

Init ==
    /\ input \in BoundedSeq(Bytes, MaxInput)
    /\ unread = input
    /\ reading = "line"
    /\ raw = <<>>
    /\ oversized = FALSE
    /\ delivered = <<>>
    /\ writing = FALSE
    /\ message = NoMessage
    /\ written = <<>>
    /\ emitted = <<>>

----------------------------------------------------------------------------
Ended(s) == s # <<>> /\ s[Len(s)] = Newline

\* readline(limit): up to a newline, the limit or the end, whatever is first.
PieceLength(limit) ==
    CHOOSE n \in 0..Len(unread) :
        /\ n <= limit
        /\ n \in {limit, Len(unread)} \/ Ended(SubSeq(unread, 1, n))
        /\ \A k \in 1..n - 1 : unread[k] # Newline

ReadPiece ==
    LET n == PieceLength(MaxLine + 1)
    IN  /\ raw' = SubSeq(unread, 1, n)
        /\ unread' = SubSeq(unread, n + 1, Len(unread))

\* Mutants, here and below, are plausible mistakes in the definition they
\* precede; the specification uses none of them.  The length of the line is not
\* looked at.
BeginLineUnbounded ==
    /\ reading = "line" /\ unread # <<>>
    /\ ReadPiece
    /\ oversized' = FALSE
    /\ reading' = "piece"
    /\ UNCHANGED <<input, delivered, writer>>

\* The first piece of a line.
BeginLine ==
    /\ reading = "line" /\ unread # <<>>
    /\ ReadPiece
    /\ oversized' = (Len(raw') > MaxLine)
    /\ reading' = "piece"
    /\ UNCHANGED <<input, delivered, writer>>

\* The rest of a line is read and dropped.  The end of the input ends the
\* line too.
DropPiece ==
    /\ reading = "piece" /\ raw # <<>> /\ ~Ended(raw)
    /\ ReadPiece
    /\ oversized' = TRUE
    /\ UNCHANGED <<input, reading, delivered, writer>>

LineRead == reading = "piece" /\ (raw = <<>> \/ Ended(raw))

\* A blank line or one with a bad byte is no JSON-RPC message.
Parsed(s) == IF Len(s) > 1 /\ "bad" \notin ToSet(s) THEN "message" ELSE "invalid"

Report(frame, bytes) ==
    delivered' = Append(delivered, [frame |-> frame, bytes |-> bytes])

\* Mutant: what follows the first piece is read as a line of its own.
SendLineAtOnce ==
    /\ reading = "piece"
    /\ \/ oversized /\ Report("oversized", <<>>)
       \/ ~oversized /\ Report(Parsed(raw), raw)
    /\ reading' = "line"
    /\ UNCHANGED <<input, unread, raw, oversized, writer>>

\* The line is handed over, which waits for the SDK to take it.
SendLine ==
    /\ LineRead
    /\ \/ oversized /\ Report("oversized", <<>>)
       \/ ~oversized /\ Report(Parsed(raw), raw)
    /\ reading' = "line"
    /\ UNCHANGED <<input, unread, raw, oversized, writer>>

\* Nothing is left: the reader closes its stream.
EndOfInput ==
    /\ reading = "line" /\ unread = <<>>
    /\ reading' = "end"
    /\ UNCHANGED <<input, unread, raw, oversized, delivered, writer>>

----------------------------------------------------------------------------
\* The SDK sends a message, which waits for the writer: a response, one for
\* each request at most, or a notification.
Emit(m) ==
    /\ ~writing /\ Len(emitted) < MaxOut
    /\ m.id # NoId => \A i \in DOMAIN emitted : emitted[i].id # m.id
    /\ writing' = TRUE
    /\ message' = m
    /\ emitted' = Append(emitted, m)
    /\ UNCHANGED <<reader, written>>

\* Mutant: nothing takes the place of a response over the limit.
DroppedAll(m) == ~m.fits

\* _bounded_output leaves a notification over the limit out, and puts an error
\* with the same id in the place of a response over it.
Dropped(m) == ~m.fits /\ m.id = NoId

Write ==
    /\ writing
    /\ writing' = FALSE
    /\ message' = NoMessage
    /\ \/ ~Dropped(message) /\ written' = Append(written, [id |-> message.id, fits |-> TRUE])
       \/ Dropped(message) /\ UNCHANGED written
    /\ UNCHANGED <<reader, emitted>>

Next ==
    \/ BeginLine \/ DropPiece \/ SendLine \/ EndOfInput
    \/ \E m \in Messages : Emit(m)
    \/ Write

Spec == Init /\ [][Next]_vars

----------------------------------------------------------------------------
(***************************************************************************)
(* Properties.                                                             *)
(***************************************************************************)

\* Where the lines of s end: at newlines, and at the end of the input if no
\* newline is there.
Ends(s) == {p \in DOMAIN s : s[p] = Newline \/ p = Len(s)}

\* How many lines end up to p, and the one that ends there.
LinesTo(s, p) == Cardinality({q \in Ends(s) : q <= p})

LineTo(s, p) ==
    LET first == CHOOSE b \in 1..p :
                     /\ b = 1 \/ b - 1 \in Ends(s)
                     /\ \A q \in b..p - 1 : q \notin Ends(s)
    IN  SubSeq(s, first, p)

\* What a line should be reported as: one over the limit, or cut short by the
\* end of the input, as oversized, any other by its bytes.
Expected(line) ==
    IF Len(line) <= MaxLine /\ Ended(line)
      THEN [frame |-> Parsed(line), bytes |-> line]
      ELSE [frame |-> "oversized", bytes |-> <<>>]

\* Framing stays in step: each line of the input is reported once and in
\* order, and no part of an oversized line is ever taken for a message.
FramesInStep ==
    /\ \A p \in Ends(input) :
          LinesTo(input, p) <= Len(delivered)
          => delivered[LinesTo(input, p)] = Expected(LineTo(input, p))
    /\ Len(delivered) <= Cardinality(Ends(input))
    /\ reading = "end" => Len(delivered) = Cardinality(Ends(input))

\* Every response, however large, reaches the client in the order the SDK sent
\* it, if only as an error; notifications are left out only when too large.
AnswersWritten ==
    LET handled == IF writing THEN Front(emitted) ELSE emitted
        kept    == Without(handled, {m \in Messages : m.id = NoId /\ ~m.fits})
    IN  /\ Len(written) = Len(kept)
        /\ \A i \in DOMAIN written : written[i].id = kept[i].id
=============================================================================
