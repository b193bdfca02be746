----------------------------- MODULE StdioProofs -----------------------------
(***************************************************************************)
(* Theorems about StdioFraming, for any limit on a line, any input and any *)
(* messages of the SDK.                                                    *)
(*                                                                         *)
(* The reader's state says where the current line began only through what  *)
(* has been reported, so the inductive invariant names that place: it is   *)
(* where the last reported line ended, and no line has ended since, except *)
(* where the last piece does.                                              *)
(***************************************************************************)
EXTENDS StdioFraming, OrdersProofs

Reports == [frame: Frames, bytes: BoundedSeq(Bytes, MaxLine)]

\* BoundedSeq in terms of Seq, which the steps are about.
ReaderTyped ==
    /\ input \in Seq(Bytes) /\ Len(input) <= MaxInput
    /\ unread \in Seq(Bytes) /\ Len(unread) <= Len(input)
    /\ raw \in Seq(Bytes) /\ Len(raw) <= MaxLine + 1
    /\ reading \in {"line", "piece", "end"}
    /\ oversized \in BOOLEAN
    /\ delivered \in Seq(Reports)

\* What readline has returned of the input.
Consumed == Len(input) - Len(unread)

UnreadInv == unread = SubSeq(input, Consumed + 1, Len(input))

\* The lines up to b, where one ends, have been reported, and no others.
Reported(b) ==
    /\ b = 0 \/ b \in Ends(input)
    /\ Len(delivered) = LinesTo(input, b)
    /\ \A p \in Ends(input) :
          p <= b => delivered[LinesTo(input, p)] = Expected(LineTo(input, p))

\* The reader is in the line that begins after b.
InLine(b) ==
    /\ b < Consumed
    /\ \A q \in b + 1..Consumed - 1 : input[q] # Newline
    /\ Ended(raw) => input[Consumed] = Newline
    /\ raw # <<>> /\ ~Ended(raw) => input[Consumed] # Newline
    /\ ~Ended(raw) /\ Len(raw) <= MaxLine => Consumed = Len(input)
    /\ ~oversized => raw = SubSeq(input, b + 1, Consumed) /\ Len(raw) <= MaxLine
    /\ oversized => \/ Consumed - b > MaxLine
                    \/ Consumed = Len(input) /\ input[Consumed] # Newline

PlaceInv ==
    /\ reading = "line" => Reported(Consumed)
    /\ reading = "piece" => \E b \in 0..Len(input) : Reported(b) /\ InLine(b)
    /\ reading = "end" => Reported(Consumed) /\ unread = <<>>

ReaderInv == ReaderTyped /\ UnreadInv /\ PlaceInv

Outputs == [id: Ids \cup {NoId}, fits: {TRUE}]

\* What the writer leaves out, and what it has written of the messages s.
Lost == {m \in Messages : m.id = NoId /\ ~m.fits}

Answers(s) ==
    /\ Len(written) = Len(Without(s, Lost))
    /\ \A i \in DOMAIN written : written[i].id = Without(s, Lost)[i].id

WriterTyped ==
    /\ writing \in BOOLEAN
    /\ message \in Messages
    /\ written \in Seq(Outputs)
    /\ emitted \in Seq(Messages)

\* The writer has answered all messages but the one it holds, the last.
WriterInv ==
    /\ WriterTyped
    /\ ~writing => Answers(emitted)
    /\ writing => \E s \in Seq(Messages) : emitted = Append(s, message) /\ Answers(s)

USE LimitAssumption, IdAssumption

----------------------------------------------------------------------------
(***************************************************************************)
(* The writer.                                                             *)
(***************************************************************************)

\* What was written of s, and one more message.
LEMMA AnswersMore ==
    ASSUME WriterTyped, NEW s \in Seq(Messages), Answers(s), NEW m \in Messages,
           \/ m \notin Lost /\ written' = Append(written, [id |-> m.id, fits |-> TRUE])
           \/ m \in Lost /\ UNCHANGED written
    PROVE  written' \in Seq(Outputs) /\ Answers(Append(s, m))'
<1> DEFINE w == Without(s, Lost)
           w2 == Without(Append(s, m), Lost)
           o == [id |-> m.id, fits |-> TRUE]
<1>1. w \in Seq(Messages)
  BY WithoutPicks
<1>2. w2 = IF m \in Lost THEN w ELSE Append(w, m)
  BY WithoutAppend
<1>3. m.id \in Ids \cup {NoId} /\ o \in Outputs /\ o.id = m.id
  BY DEF Messages, Outputs
<1>4. written \in Seq(Outputs) /\ Len(written) = Len(w)
      /\ \A i \in 1..Len(written) : written[i].id = w[i].id
  BY DEF WriterTyped, Answers
<1> HIDE DEF w, w2, o
<1>5. CASE m \in Lost
  <2>1. w2 = w /\ written' = written
    BY <1>2, <1>5
  <2>. QED
    BY <1>4, <2>1 DEF Answers, w, w2
<1>6. CASE m \notin Lost
  <2>1. w2 = Append(w, m) /\ written' = Append(written, o)
    BY <1>2, <1>6 DEF o
  <2>2. /\ Len(w2) = Len(w) + 1 /\ w2[Len(w) + 1] = m
        /\ \A i \in 1..Len(w) : w2[i] = w[i]
    BY <1>1, <2>1
  <2>3. /\ written' \in Seq(Outputs) /\ Len(written') = Len(written) + 1
        /\ written'[Len(written) + 1] = o
        /\ \A i \in 1..Len(written) : written'[i] = written[i]
    BY <1>3, <1>4, <2>1
  <2>4. Len(written) \in Nat /\ Len(w) \in Nat /\ DOMAIN written' = 1..Len(written) + 1
    BY <1>1, <1>4, <2>3
  <2>5. \A i \in 1..Len(written) + 1 : written'[i].id = w2[i].id
    BY <1>3, <1>4, <2>2, <2>3, <2>4
  <2>. QED
    BY <1>4, <2>2, <2>3, <2>4, <2>5 DEF Answers, w2
<1>. QED
  BY <1>5, <1>6

\* Nothing is written at the start.
LEMMA WriterInit == Init => WriterInv
<1> SUFFICES ASSUME Init PROVE WriterInv
  OBVIOUS
<1>1. /\ writing = FALSE /\ message = NoMessage /\ written = <<>> /\ emitted = <<>>
  BY DEF Init
<1>2. WriterTyped
  <2>1. NoMessage \in Messages /\ <<>> \in Seq(Outputs) /\ <<>> \in Seq(Messages)
    BY DEF NoMessage, Messages
  <2>. QED
    BY <1>1, <2>1 DEF WriterTyped
<1>3. Without(<<>>, Lost) \in Seq(Messages) /\ Len(Without(<<>>, Lost)) <= 0
  <2>1. <<>> \in Seq(Messages) /\ Len(<<>>) = 0
    OBVIOUS
  <2>. QED
    BY <2>1, WithoutPicks
<1>4. Answers(emitted)
  BY <1>1, <1>3 DEF Answers
<1>. QED
  BY <1>1, <1>2, <1>4 DEF WriterInv

\* Every step keeps the writer's answers in step with the SDK's messages.
LEMMA WriterStep == WriterInv /\ [Next]_vars => WriterInv'
<1> SUFFICES ASSUME WriterInv, [Next]_vars PROVE WriterInv'
  OBVIOUS
<1>0. WriterTyped
  BY DEF WriterInv
<1>1. CASE BeginLine \/ DropPiece \/ SendLine \/ EndOfInput \/ UNCHANGED vars
  <2>1. UNCHANGED <<writing, message, written, emitted>>
    BY <1>1 DEF BeginLine, DropPiece, SendLine, EndOfInput, vars, writer
  <2>. QED
    BY <2>1 DEF WriterInv, WriterTyped, Answers
<1>2. ASSUME NEW m \in Messages, Emit(m) PROVE WriterInv'
  <2>1. /\ ~writing /\ writing' = TRUE /\ message' = m /\ written' = written
        /\ emitted' = Append(emitted, m)
    BY <1>2 DEF Emit
  <2>2. WriterTyped'
    BY <1>0, <2>1 DEF WriterTyped
  <2>3. emitted \in Seq(Messages) /\ Answers(emitted)
    BY <2>1 DEF WriterInv, WriterTyped
  <2>4. \A s : Answers(s) => Answers(s)'
    BY <2>1 DEF Answers
  <2>. QED
    BY <2>1, <2>2, <2>3, <2>4 DEF WriterInv
<1>3. CASE Write
  <2>1. /\ writing /\ writing' = FALSE /\ message' = NoMessage /\ emitted' = emitted
        /\ \/ ~Dropped(message) /\ written' = Append(written, [id |-> message.id, fits |-> TRUE])
           \/ Dropped(message) /\ UNCHANGED written
    BY <1>3 DEF Write
  <2>2. PICK m \in Messages : m = message
    BY <1>0 DEF WriterTyped
  <2>3. PICK s \in Seq(Messages) : emitted = Append(s, m) /\ Answers(s)
    BY <2>1, <2>2 DEF WriterInv
  <2>4. Dropped(message) <=> m \in Lost
    BY <2>2 DEF Dropped, Lost
  <2>5. written' \in Seq(Outputs) /\ Answers(Append(s, m))'
    BY <1>0, <2>1, <2>2, <2>3, <2>4, AnswersMore
  <2>6. Answers(emitted)'
    BY <2>1, <2>3, <2>5 DEF Answers
  <2>7. NoMessage \in Messages
    BY DEF NoMessage, Messages
  <2>. QED
    BY <1>0, <2>1, <2>5, <2>6, <2>7 DEF WriterInv, WriterTyped
<1>. QED
  BY <1>1, <1>2, <1>3 DEF Next

\* Every response reaches the client in the order the SDK sent it, if only as
\* an error, and no notification that fits is left out (stdout_writer,
\* _bounded_output), for any number of messages.
THEOREM AnswersAreWritten == Spec => []AnswersWritten
<1>1. WriterInv => AnswersWritten
  <2> SUFFICES ASSUME WriterInv PROVE AnswersWritten
    OBVIOUS
  <2> DEFINE handled == IF writing THEN Front(emitted) ELSE emitted
  <2>1. Answers(handled)
    <3>1. CASE ~writing
      BY <3>1 DEF WriterInv
    <3>2. CASE writing
      <4>1. PICK s \in Seq(Messages) : emitted = Append(s, message) /\ Answers(s)
        BY <3>2 DEF WriterInv
      <4>2. message \in Messages
        BY DEF WriterInv, WriterTyped
      <4>3. Front(Append(s, message)) = s
        BY <4>2 DEF Front
      <4>. QED
        BY <3>2, <4>1, <4>3
    <3>. QED
      BY <3>1, <3>2
  <2>. QED
    BY <2>1 DEF AnswersWritten, Answers, Lost
<1>. QED
  BY <1>1, WriterInit, WriterStep, PTL DEF Spec

----------------------------------------------------------------------------
(***************************************************************************)
(* Lines and pieces.                                                       *)
(***************************************************************************)

\* Lines end at positions of the input.
LEMMA EndsInside ==
    ASSUME NEW s \in Seq(Bytes)
    PROVE  /\ Len(s) \in Nat /\ Ends(s) \subseteq 1..Len(s)
           /\ Ends(s) \subseteq Nat /\ 0 \notin Ends(s)
  BY DEF Ends

\* Counting lines.
LEMMA LineCount ==
    ASSUME NEW s \in Seq(Bytes), NEW p \in Nat
    PROVE  /\ IsFiniteSet(Ends(s)) /\ IsFiniteSet({q \in Ends(s) : q <= p})
           /\ Ends(s) \subseteq 1..Len(s)
           /\ LinesTo(s, p) \in Nat /\ LinesTo(s, p) <= Cardinality(Ends(s))
           /\ p = 0 => LinesTo(s, p) = 0
           /\ p = Len(s) => LinesTo(s, p) = Cardinality(Ends(s))
<1> DEFINE E == Ends(s)
           F == {q \in E : q <= p}
<1>1. E \subseteq 1..Len(s) /\ Len(s) \in Nat
  BY EndsInside
<1>2. IsFiniteSet(1..Len(s))
  BY <1>1, FS_Interval
<1>3. IsFiniteSet(E)
  BY <1>1, <1>2, FS_Subset
<1> HIDE DEF E
<1>4. IsFiniteSet(F) /\ Cardinality(F) \in Nat /\ Cardinality(F) <= Cardinality(E)
  BY <1>3, FS_Subset, FS_CardinalityType
<1>5. ASSUME p = 0 PROVE F = {}
  <2>1. \A q \in E : q \in 1..Len(s) /\ ~(q <= 0)
    BY <1>1
  <2>. QED
    BY <1>5, <2>1
<1>6. ASSUME p = Len(s) PROVE F = E
  <2>1. \A q \in E : q <= Len(s)
    BY <1>1
  <2>. QED
    BY <1>6, <2>1
<1>7. Cardinality({}) = 0
  BY FS_EmptySet
<1>. QED
  BY <1>1, <1>3, <1>4, <1>5, <1>6, <1>7 DEF LinesTo, E

\* The line that ends at p is not counted before.
LEMMA LaterLine ==
    ASSUME NEW s \in Seq(Bytes), NEW b \in Nat, NEW p \in Ends(s), b < p
    PROVE  LinesTo(s, b) + 1 <= LinesTo(s, p)
<1> DEFINE B == {q \in Ends(s) : q <= b}
           P == {q \in Ends(s) : q <= p}
<1>1. p \in Nat /\ Ends(s) \subseteq Nat
  BY EndsInside
<1>2. IsFiniteSet(B) /\ IsFiniteSet(P)
  BY <1>1, LineCount
<1>3. B \cup {p} \subseteq P /\ p \notin B
  BY <1>1
<1> HIDE DEF B, P
<1>4. Cardinality(B \cup {p}) = Cardinality(B) + 1
  BY <1>2, <1>3, FS_AddElement
<1>5. Cardinality(B \cup {p}) <= Cardinality(P)
  BY <1>2, <1>3, FS_Subset
<1>. QED
  BY <1>4, <1>5 DEF LinesTo, B, P

\* The line that ends at p, when the one before it ended at b.
LEMMA NextLine ==
    ASSUME NEW s \in Seq(Bytes), NEW b \in 0..Len(s), b = 0 \/ b \in Ends(s),
           NEW p \in Ends(s), b < p, \A q \in b + 1..p - 1 : q \notin Ends(s)
    PROVE  /\ LinesTo(s, p) = LinesTo(s, b) + 1
           /\ LineTo(s, p) = SubSeq(s, b + 1, p)
           /\ \A q \in Ends(s) : q <= p => q <= b \/ q = p
<1> DEFINE B == {q \in Ends(s) : q <= b}
           P == {q \in Ends(s) : q <= p}
<1>1. p \in Nat /\ b \in Nat /\ Ends(s) \subseteq Nat /\ 0 \notin Ends(s)
  BY EndsInside
<1>2. IsFiniteSet(B)
  BY <1>1, LineCount
<1>3. \A q \in Ends(s) : q <= p => q <= b \/ q = p
  BY <1>1
<1>4. P = B \cup {p} /\ p \notin B
  BY <1>1, <1>3
<1>5. LinesTo(s, p) = LinesTo(s, b) + 1
  <2> HIDE DEF B, P
  <2>1. Cardinality(P) = Cardinality(B) + 1
    BY <1>2, <1>4, FS_AddElement
  <2>. QED
    BY <2>1 DEF LinesTo, B, P
<1>6. LineTo(s, p) = SubSeq(s, b + 1, p)
  <2> DEFINE F(c) == /\ c = 1 \/ c - 1 \in Ends(s)
                     /\ \A q \in c..p - 1 : q \notin Ends(s)
  <2>1. b + 1 \in 1..p /\ F(b + 1)
    BY <1>1
  <2>2. ASSUME NEW c \in 1..p, F(c) PROVE c = b + 1
    <3>1. ~(c <= b)
      BY <1>1, <2>2
    <3>2. ~(b + 1 < c)
      <4>1. SUFFICES ASSUME b + 1 < c PROVE FALSE
        OBVIOUS
      <4>2. c - 1 \in b + 1..p - 1 /\ c # 1
        BY <1>1, <2>2, <4>1
      <4>. QED
        BY <2>2, <4>2
    <3>. QED
      BY <1>1, <2>2, <3>1, <3>2
  <2>3. (CHOOSE c \in 1..p : F(c)) = b + 1
    BY <2>1, <2>2
  <2>. QED
    BY <2>3 DEF LineTo
<1>. QED
  BY <1>3, <1>5, <1>6

\* What readline returns.
IsPiece(n, limit) ==
    /\ n \in 0..Len(unread) /\ n <= limit
    /\ unread # <<>> => n >= 1
    /\ \A k \in 1..n - 1 : unread[k] # Newline
    /\ n \in {limit, Len(unread)} \/ Ended(SubSeq(unread, 1, n))

\* Such a piece exists: up to the first newline, if one comes soon enough.
LEMMA PieceRead ==
    ASSUME unread \in Seq(Bytes), NEW limit \in Nat \ {0}
    PROVE  IsPiece(PieceLength(limit), limit)
<1> DEFINE len == Len(unread)
           T == {k \in 1..len : k <= limit /\ unread[k] = Newline}
           F(n) == /\ n <= limit
                   /\ n \in {limit, Len(unread)} \/ Ended(SubSeq(unread, 1, n))
                   /\ \A k \in 1..n - 1 : unread[k] # Newline
<1>1. len \in Nat
  OBVIOUS
<1>2. \E n \in 0..len : F(n)
  <2>1. CASE T = {}
    <3> DEFINE n == IF len <= limit THEN len ELSE limit
    <3>1. n \in 0..len /\ n <= limit /\ n \in {limit, len}
      BY <1>1
    <3>2. \A k \in 1..n - 1 : unread[k] # Newline
      BY <1>1, <2>1
    <3>. QED
      BY <3>1, <3>2
  <2>2. CASE T # {}
    <3>1. PICK n \in T : \A k \in T : n <= k
      <4>1. T \subseteq Nat
        BY <1>1
      <4> HIDE DEF T
      <4>. QED
        BY <2>2, <4>1, LeastElement
    <3>2. n \in 1..len /\ n <= limit /\ unread[n] = Newline
      BY <3>1
    <3>3. \A k \in 1..n - 1 : unread[k] # Newline
      BY <1>1, <3>1, <3>2
    <3>4. Ended(SubSeq(unread, 1, n))
      BY <3>2 DEF Ended
    <3>. QED
      BY <3>2, <3>3, <3>4
  <2>. QED
    BY <2>1, <2>2
<1> DEFINE n == PieceLength(limit)
<1>3. n \in 0..len /\ F(n)
  BY <1>2 DEF PieceLength
<1>4. unread # <<>> => n >= 1
  <2>1. SUFFICES ASSUME unread # <<>>, n = 0 PROVE FALSE
    BY <1>3
  <2>2. len # 0
    BY <2>1
  <2>3. SubSeq(unread, 1, 0) = <<>>
    OBVIOUS
  <2>. QED
    BY <1>3, <2>1, <2>2, <2>3 DEF Ended
<1>. QED
  BY <1>3, <1>4 DEF IsPiece

----------------------------------------------------------------------------
(***************************************************************************)
(* The reader.                                                             *)
(***************************************************************************)

\* Nothing is consumed at the start.
LEMMA ReaderInit == Init => ReaderInv
<1> SUFFICES ASSUME Init PROVE ReaderInv
  OBVIOUS
<1>1. /\ unread = input /\ raw = <<>> /\ delivered = <<>> /\ oversized = FALSE
      /\ reading = "line" /\ input \in BoundedSeq(Bytes, MaxInput)
  BY DEF Init
<1>2. input \in Seq(Bytes) /\ Len(input) <= MaxInput /\ Len(input) \in Nat
  BY <1>1 DEF BoundedSeq, SeqOf
<1>3. <<>> \in Seq(Bytes) /\ <<>> \in Seq(Reports) /\ Len(<<>>) = 0 /\ 0 <= MaxLine + 1
  OBVIOUS
<1>4. ReaderTyped
  <2>1. /\ unread \in Seq(Bytes) /\ Len(unread) <= Len(input)
        /\ raw \in Seq(Bytes) /\ Len(raw) <= MaxLine + 1 /\ delivered \in Seq(Reports)
    BY <1>1, <1>2, <1>3
  <2>. QED
    BY <1>1, <1>2, <2>1 DEF ReaderTyped
<1>5. Consumed = 0
  BY <1>1, <1>2 DEF Consumed
<1>6. UnreadInv
  BY <1>1, <1>2, <1>5 DEF UnreadInv
<1>7. Reported(0)
  <2>1. LinesTo(input, 0) = 0
    BY <1>2, LineCount
  <2>2. \A p \in Ends(input) : ~(p <= 0)
    BY <1>2, EndsInside
  <2>. QED
    BY <1>1, <1>3, <2>1, <2>2 DEF Reported
<1>. QED
  BY <1>1, <1>4, <1>5, <1>6, <1>7 DEF ReaderInv, PlaceInv

\* One readline: what is consumed grows by the piece, whose last byte alone
\* may be a newline.
PieceTaken(n) ==
    /\ n \in 0..Len(unread) /\ n <= MaxLine + 1
    /\ unread # <<>> => n >= 1
    /\ unread' \in Seq(Bytes) /\ Len(unread') = Len(unread) - n
    /\ raw' \in Seq(Bytes) /\ Len(raw') = n
    /\ Consumed \in 0..Len(input) /\ Consumed' = Consumed + n /\ Consumed' <= Len(input)
    /\ UnreadInv'
    /\ raw' = SubSeq(input, Consumed + 1, Consumed + n)
    /\ Ended(raw') <=> n >= 1 /\ input[Consumed + n] = Newline
    /\ \A q \in Consumed + 1..Consumed + n - 1 : input[q] # Newline
    /\ ~Ended(raw') /\ n <= MaxLine => Consumed' = Len(input)

\* ReadPiece takes a piece.
LEMMA TakePiece ==
    ASSUME ReaderTyped, UnreadInv, ReadPiece, input' = input
    PROVE  \E n \in Nat : PieceTaken(n)
<1> DEFINE n == PieceLength(MaxLine + 1)
           c == Consumed
           u == Len(unread)
           l == Len(input)
<1>0. /\ input \in Seq(Bytes) /\ unread \in Seq(Bytes) /\ u \in Nat /\ l \in Nat
      /\ u <= l /\ MaxLine \in Nat
  BY DEF ReaderTyped
<1>1. IsPiece(n, MaxLine + 1)
  BY <1>0, PieceRead
<1>2. raw' = SubSeq(unread, 1, n) /\ unread' = SubSeq(unread, n + 1, u)
  BY DEF ReadPiece
<1> HIDE DEF n
<1>3. n \in 0..u /\ n <= MaxLine + 1 /\ n \in Nat
  BY <1>0, <1>1 DEF IsPiece
<1>4. /\ c \in 0..l /\ c = l - u
  BY <1>0 DEF Consumed
<1>5. unread' \in Seq(Bytes) /\ Len(unread') = u - n
  BY <1>0, <1>2, <1>3
<1>6. Consumed' = c + n /\ c + n <= l
  BY <1>0, <1>3, <1>4, <1>5 DEF Consumed
<1>7. raw' \in Seq(Bytes) /\ Len(raw') = n
      /\ \A k \in 1..n : raw'[k] = unread[k]
  BY <1>0, <1>2, <1>3
<1>8. \A k \in 1..u : unread[k] = input[c + k]
  <2>1. unread = SubSeq(input, c + 1, l)
    BY DEF UnreadInv
  <2>2. c + 1 \in 1..l + 1
    BY <1>0, <1>4
  <2>3. \A k \in 1..l - c : SubSeq(input, c + 1, l)[k] = input[c + k]
    BY <1>0, <1>4, <2>2
  <2>4. l - c = u
    BY <1>0, <1>4
  <2> HIDE DEF c, l, u
  <2>. QED
    BY <2>1, <2>3, <2>4
<1>9. UnreadInv'
  <2>1. \A k \in 1..u - n : unread'[k] = unread[k + n]
    BY <1>0, <1>2, <1>3
  <2> DEFINE v == SubSeq(input, c + n + 1, l)
  <2>2. v \in Seq(Bytes) /\ Len(v) = u - n /\ \A k \in 1..u - n : v[k] = input[c + n + k]
    BY <1>0, <1>3, <1>4, <1>6
  <2> HIDE DEF v
  <2>3. ASSUME NEW k \in 1..u - n PROVE unread'[k] = v[k]
    <3>1. k + n \in 1..u /\ c + (k + n) = c + n + k
      BY <1>0, <1>3, <1>4
    <3>2. unread'[k] = unread[k + n] /\ v[k] = input[c + n + k]
      BY <2>1, <2>2
    <3>. QED
      BY <1>8, <3>1, <3>2
  <2>4. unread' = v
    BY <1>5, <2>2, <2>3, SeqEqual
  <2>. QED
    BY <1>6, <2>4 DEF UnreadInv, v
<1>10. raw' = SubSeq(input, c + 1, c + n)
  <2> DEFINE v == SubSeq(input, c + 1, c + n)
  <2>1. v \in Seq(Bytes) /\ Len(v) = n /\ \A k \in 1..n : v[k] = input[c + k]
    BY <1>0, <1>3, <1>4, <1>6
  <2> HIDE DEF v
  <2>2. ASSUME NEW k \in 1..n PROVE raw'[k] = v[k]
    <3>1. k \in 1..u
      BY <1>0, <1>3
    <3>. QED
      BY <1>7, <1>8, <2>1, <3>1
  <2>3. raw' = v
    BY <1>7, <2>1, <2>2, SeqEqual
  <2>. QED
    BY <2>3 DEF v
<1>11. Ended(raw') <=> n >= 1 /\ input[c + n] = Newline
  BY <1>0, <1>3, <1>7, <1>8 DEF Ended
<1>12. \A q \in c + 1..c + n - 1 : input[q] # Newline
  <2> SUFFICES ASSUME NEW q \in c + 1..c + n - 1 PROVE input[q] # Newline
    OBVIOUS
  <2>1. q - c \in 1..n - 1 /\ q - c \in 1..u /\ c + (q - c) = q
    BY <1>0, <1>3, <1>4
  <2>. QED
    BY <1>1, <1>8, <2>1 DEF IsPiece
<1>13. ~Ended(raw') /\ n <= MaxLine => Consumed' = l
  <2>1. n \in {MaxLine + 1, u} \/ Ended(raw')
    BY <1>1, <1>2 DEF IsPiece
  <2>. QED
    BY <1>0, <1>3, <1>4, <1>6, <2>1
<1>14. unread # <<>> => n >= 1
  BY <1>1 DEF IsPiece
<1>. QED
  BY <1>3, <1>4, <1>5, <1>6, <1>7, <1>9, <1>10, <1>11, <1>12, <1>13, <1>14 DEF PieceTaken

\* The types a step of the reader reads.
LEMMA ReaderTypes ==
    ASSUME ReaderInv
    PROVE  /\ input \in Seq(Bytes) /\ Len(input) \in Nat /\ Len(unread) \in Nat
           /\ Consumed \in 0..Len(input) /\ MaxLine \in Nat
           /\ Consumed = Len(input) <=> unread = <<>>
           /\ ReaderTyped /\ UnreadInv
<1>1. /\ ReaderTyped /\ input \in Seq(Bytes) /\ unread \in Seq(Bytes)
      /\ Len(unread) <= Len(input)
  BY DEF ReaderInv, ReaderTyped
<1>2. Len(input) \in Nat /\ Len(unread) \in Nat /\ (Len(unread) = 0 <=> unread = <<>>)
  BY <1>1
<1>3. Consumed \in 0..Len(input) /\ (Consumed = Len(input) <=> Len(unread) = 0)
  BY <1>1, <1>2 DEF Consumed
<1>. QED
  BY <1>1, <1>2, <1>3 DEF ReaderInv

\* What has been reported stays so, for any place in the input.
LEMMA StillReported ==
    ASSUME input' = input, delivered' = delivered
    PROVE  \A b : Reported(b) => Reported(b)'
  BY DEF Reported

\* The first piece of a line.
LEMMA BeginLineStep ==
    ASSUME ReaderInv, BeginLine
    PROVE  ReaderInv'
<1>0. /\ reading = "line" /\ unread # <<>> /\ ReadPiece
      /\ oversized' = (Len(raw') > MaxLine) /\ reading' = "piece"
      /\ input' = input /\ delivered' = delivered
  BY DEF BeginLine
<1>1. PICK n \in Nat : PieceTaken(n)
  BY <1>0, ReaderTypes, TakePiece
<1>2. PICK b \in 0..Len(input) : b = Consumed
  BY ReaderTypes
<1>3. Reported(b)'
  BY <1>0, <1>2, StillReported DEF ReaderInv, PlaceInv
<1>4. n >= 1 /\ Len(raw') = n /\ Consumed' = b + n
  BY <1>0, <1>1, <1>2 DEF PieceTaken
<1>5. InLine(b)'
  <2>1. b < Consumed' /\ MaxLine \in Nat
    BY <1>4
  <2>2. \A q \in b + 1..Consumed' - 1 : input'[q] # Newline
    BY <1>0, <1>1, <1>2, <1>4 DEF PieceTaken
  <2>3. /\ Ended(raw') <=> input'[Consumed'] = Newline
        /\ ~Ended(raw') /\ Len(raw') <= MaxLine => Consumed' = Len(input')
        /\ raw' = SubSeq(input', b + 1, Consumed')
    BY <1>0, <1>1, <1>2, <1>4 DEF PieceTaken
  <2>4. /\ ~oversized' => Len(raw') <= MaxLine
        /\ oversized' => Consumed' - b > MaxLine
    <3>1. oversized' <=> Len(raw') > MaxLine
      BY <1>0
    <3>2. Consumed' - b = Len(raw') /\ (~(Len(raw') > MaxLine) => Len(raw') <= MaxLine)
      BY <1>4, <2>1
    <3>. QED
      BY <3>1, <3>2
  <2>. QED
    BY <2>1, <2>2, <2>3, <2>4 DEF InLine
<1>6. ReaderTyped'
  BY <1>0, <1>1, <1>4, ReaderTypes DEF ReaderTyped, PieceTaken
<1>7. UnreadInv'
  BY <1>1 DEF PieceTaken
<1>8. b \in 0..Len(input')
  BY <1>0
<1>. QED
  BY <1>0, <1>3, <1>5, <1>6, <1>7, <1>8 DEF ReaderInv, PlaceInv

\* A piece of the rest of a line.
LEMMA DropPieceStep ==
    ASSUME ReaderInv, DropPiece
    PROVE  ReaderInv'
<1>0. /\ reading = "piece" /\ raw # <<>> /\ ~Ended(raw) /\ ReadPiece
      /\ oversized' = TRUE /\ reading' = "piece"
      /\ input' = input /\ delivered' = delivered
  BY DEF DropPiece
<1>1. PICK n \in Nat : PieceTaken(n)
  BY <1>0, ReaderTypes, TakePiece
<1>2. PICK b \in 0..Len(input) : Reported(b) /\ InLine(b)
  BY <1>0 DEF ReaderInv, PlaceInv
<1>3. Reported(b)'
  BY <1>0, <1>2, StillReported
<1>4. Len(raw') = n /\ Consumed' = Consumed + n /\ Consumed \in 0..Len(input)
  BY <1>1 DEF PieceTaken
<1>5. /\ b < Consumed /\ input[Consumed] # Newline /\ MaxLine \in Nat /\ Len(input) \in Nat
      /\ \A q \in b + 1..Consumed - 1 : input[q] # Newline
  BY <1>0, <1>2, ReaderTypes DEF InLine
<1>6. Consumed - b > MaxLine \/ Consumed = Len(input)
  BY <1>0, <1>2 DEF InLine
<1>7. InLine(b)'
  <2>1. b < Consumed'
    BY <1>4, <1>5
  <2>2. \A q \in b + 1..Consumed' - 1 : input'[q] # Newline
    <3>1. SUFFICES ASSUME NEW q \in b + 1..Consumed' - 1 PROVE input[q] # Newline
      BY <1>0
    <3>2. q \in b + 1..Consumed - 1 \/ q = Consumed \/ q \in Consumed + 1..Consumed + n - 1
      BY <1>4, <1>5
    <3>. QED
      BY <1>1, <1>5, <3>2 DEF PieceTaken
  <2>3. /\ Ended(raw') <=> n >= 1 /\ input'[Consumed'] = Newline
        /\ ~Ended(raw') /\ Len(raw') <= MaxLine => Consumed' = Len(input')
    BY <1>0, <1>1, <1>4 DEF PieceTaken
  <2>4. raw' # <<>> => n >= 1
    BY <1>1, <1>4 DEF PieceTaken
  <2>5. Consumed = Len(input) => Consumed' = Consumed
    BY <1>1, <1>4 DEF PieceTaken
  <2>6. \/ Consumed' - b > MaxLine
        \/ Consumed' = Len(input') /\ input'[Consumed'] # Newline
    BY <1>0, <1>4, <1>5, <1>6, <2>5
  <2>. QED
    BY <1>0, <2>1, <2>2, <2>3, <2>4, <2>6 DEF InLine
<1>8. ReaderTyped'
  BY <1>0, <1>1, <1>4, ReaderTypes DEF ReaderTyped, PieceTaken
<1>9. UnreadInv'
  BY <1>1 DEF PieceTaken
<1>10. b \in 0..Len(input')
  BY <1>0
<1>. QED
  BY <1>0, <1>3, <1>7, <1>8, <1>9, <1>10 DEF ReaderInv, PlaceInv

\* The line that the reader has come to the end of, and how it is reported.
LEMMA LineDone ==
    ASSUME ReaderInv, LineRead, NEW b \in 0..Len(input), InLine(b)
    PROVE  /\ Consumed \in Ends(input) /\ b < Consumed
           /\ \A q \in b + 1..Consumed - 1 : q \notin Ends(input)
           /\ oversized => Expected(SubSeq(input, b + 1, Consumed))
                              = [frame |-> "oversized", bytes |-> <<>>]
           /\ ~oversized => /\ Expected(SubSeq(input, b + 1, Consumed))
                                  = [frame |-> Parsed(raw), bytes |-> raw]
                            /\ Len(raw) <= MaxLine
<1> DEFINE c == Consumed
           line == SubSeq(input, b + 1, c)
<1>0. /\ input \in Seq(Bytes) /\ Len(input) \in Nat /\ c \in 0..Len(input) /\ MaxLine \in Nat
      /\ b < c /\ b \in Nat /\ raw \in Seq(Bytes)
  BY ReaderTypes DEF InLine, ReaderTyped
<1>1. /\ line \in Seq(Bytes) /\ Len(line) = c - b /\ line[Len(line)] = input[c]
      /\ line # <<>>
  <2>1. line \in Seq(Bytes) /\ Len(line) = c - b /\ \A k \in 1..c - b : line[k] = input[b + k]
    BY <1>0
  <2>2. c - b \in 1..c - b /\ b + (c - b) = c
    BY <1>0
  <2>. QED
    BY <1>0, <2>1, <2>2
<1>2. Ended(line) <=> input[c] = Newline
  BY <1>1 DEF Ended
<1>3. c \in Ends(input)
  <2>1. CASE Ended(raw)
    BY <1>0, <2>1 DEF InLine, Ends
  <2>2. CASE raw = <<>>
    <3>1. ~Ended(raw) /\ Len(raw) <= MaxLine
      BY <1>0, <2>2 DEF Ended
    <3>2. c = Len(input)
      BY <3>1 DEF InLine
    <3>. QED
      BY <1>0, <3>2 DEF Ends
  <2>. QED
    BY <2>1, <2>2 DEF LineRead
<1>4. \A q \in b + 1..c - 1 : q \notin Ends(input)
  BY <1>0 DEF InLine, Ends
<1>5. CASE oversized
  <2>1. ~(Len(line) <= MaxLine /\ Ended(line))
    <3>1. CASE c - b > MaxLine
      BY <1>0, <1>1, <3>1
    <3>2. CASE input[c] # Newline
      BY <1>2, <3>2
    <3>. QED
      BY <1>5, <3>1, <3>2 DEF InLine
  <2>. QED
    BY <1>0, <1>3, <1>4, <1>5, <2>1 DEF Expected
<1>6. CASE ~oversized
  <2>1. raw = line /\ Len(raw) <= MaxLine
    BY <1>6 DEF InLine
  <2>2. Ended(raw)
    BY <1>1, <2>1 DEF LineRead
  <2>. QED
    BY <1>0, <1>3, <1>4, <1>6, <2>1, <2>2 DEF Expected
<1>. QED
  BY <1>5, <1>6

\* A line is reported.
LEMMA SendLineStep ==
    ASSUME ReaderInv, SendLine
    PROVE  ReaderInv'
<1> DEFINE len == Len(delivered)
<1>0. /\ reading = "piece" /\ reading' = "line" /\ LineRead
      /\ \/ oversized /\ Report("oversized", <<>>)
         \/ ~oversized /\ Report(Parsed(raw), raw)
      /\ UNCHANGED <<input, unread, raw, oversized>>
  BY DEF SendLine, LineRead
<1>1. PICK b \in 0..Len(input) : Reported(b) /\ InLine(b)
  BY <1>0 DEF ReaderInv, PlaceInv
<1>2. PICK p \in Nat : p = Consumed
  BY ReaderTypes
<1>3. /\ p \in Ends(input) /\ b < p
      /\ \A q \in b + 1..p - 1 : q \notin Ends(input)
  BY <1>0, <1>1, <1>2, LineDone
<1>4. input \in Seq(Bytes) /\ b \in Nat /\ delivered \in Seq(Reports) /\ len \in Nat
  BY <1>1, ReaderTypes DEF ReaderTyped
<1>5. /\ LinesTo(input, p) = LinesTo(input, b) + 1
      /\ LineTo(input, p) = SubSeq(input, b + 1, p)
      /\ \A q \in Ends(input) : q <= p => q <= b \/ q = p
  BY <1>1, <1>3, <1>4, NextLine DEF Reported
<1>6. PICK report \in Reports : /\ delivered' = Append(delivered, report)
                                /\ report = Expected(LineTo(input, p))
  <2>1. CASE oversized
    <3>1. delivered' = Append(delivered, [frame |-> "oversized", bytes |-> <<>>])
      BY <1>0, <2>1 DEF Report
    <3>2. Expected(LineTo(input, p)) = [frame |-> "oversized", bytes |-> <<>>]
      BY <1>0, <1>1, <1>2, <1>5, <2>1, LineDone
    <3>3. <<>> \in BoundedSeq(Bytes, MaxLine)
      BY DEF BoundedSeq, SeqOf
    <3>4. [frame |-> "oversized", bytes |-> <<>>] \in Reports
      BY <3>3 DEF Reports, Frames
    <3>. QED
      BY <3>1, <3>2, <3>4
  <2>2. CASE ~oversized
    <3>1. delivered' = Append(delivered, [frame |-> Parsed(raw), bytes |-> raw])
      BY <1>0, <2>2 DEF Report
    <3>2. /\ Expected(LineTo(input, p)) = [frame |-> Parsed(raw), bytes |-> raw]
          /\ Len(raw) <= MaxLine
      BY <1>0, <1>1, <1>2, <1>5, <2>2, LineDone
    <3>3. raw \in BoundedSeq(Bytes, MaxLine)
      <4>1. raw \in Seq(Bytes)
        BY ReaderTypes DEF ReaderTyped
      <4>. QED
        BY <3>2, <4>1 DEF BoundedSeq, SeqOf
    <3>4. [frame |-> Parsed(raw), bytes |-> raw] \in Reports
      BY <3>3 DEF Reports, Frames, Parsed
    <3>. QED
      BY <3>1, <3>2, <3>4
  <2>. QED
    BY <2>1, <2>2
<1>7. /\ delivered' \in Seq(Reports) /\ Len(delivered') = len + 1
      /\ delivered'[len + 1] = report
      /\ \A i \in 1..len : delivered'[i] = delivered[i]
  BY <1>4, <1>6
<1>8. len = LinesTo(input, b)
  BY <1>1 DEF Reported
<1>9. Reported(p)'
  <2>1. ASSUME NEW q \in Ends(input), q <= p
        PROVE  delivered'[LinesTo(input, q)] = Expected(LineTo(input, q))
    <3>1. CASE q = p
      BY <1>5, <1>6, <1>7, <1>8, <3>1
    <3>2. CASE q <= b
      <4>1. q \in Nat /\ 0 < q /\ LinesTo(input, q) \in Nat /\ LinesTo(input, 0) = 0
        <5>1. q \in Nat /\ q # 0
          BY <1>4, EndsInside
        <5>2. LinesTo(input, q) \in Nat
          BY <1>4, <5>1, LineCount
        <5>3. LinesTo(input, 0) = 0
          BY <1>4, LineCount
        <5>. QED
          BY <5>1, <5>2, <5>3
      <4>2. LinesTo(input, 0) + 1 <= LinesTo(input, q)
        BY <1>4, <4>1, LaterLine
      <4>3. LinesTo(input, q) <= LinesTo(input, b)
        <5>1. CASE q = b
          BY <4>1, <5>1
        <5>2. CASE q < b
          <6>1. b \in Ends(input)
            BY <1>1, <4>1, <5>2 DEF Reported
          <6>2. LinesTo(input, q) + 1 <= LinesTo(input, b)
            BY <1>4, <4>1, <5>2, <6>1, LaterLine
          <6>. QED
            BY <1>4, <1>8, <4>1, <6>2
        <5>. QED
          BY <1>4, <3>2, <4>1, <5>1, <5>2
      <4>4. LinesTo(input, q) \in 1..len
        BY <1>4, <1>8, <4>1, <4>2, <4>3
      <4>. QED
        BY <1>1, <1>7, <3>2, <4>4 DEF Reported
    <3>. QED
      BY <1>5, <2>1, <3>1, <3>2
  <2>. QED
    BY <1>0, <1>3, <1>5, <1>7, <1>8, <2>1 DEF Reported
<1>10. Consumed' = p /\ UnreadInv'
  BY <1>0, <1>2, ReaderTypes DEF Consumed, UnreadInv
<1>11. ReaderTyped'
  BY <1>0, <1>7, ReaderTypes DEF ReaderTyped
<1>. QED
  BY <1>0, <1>9, <1>10, <1>11 DEF ReaderInv, PlaceInv

\* Every step keeps the reader in step with the lines of the input.
LEMMA ReaderStep == ReaderInv /\ [Next]_vars => ReaderInv'
<1> SUFFICES ASSUME ReaderInv, [Next]_vars PROVE ReaderInv'
  OBVIOUS
<1>1. CASE EndOfInput
  <2>1. /\ reading = "line" /\ reading' = "end" /\ unread = <<>>
        /\ UNCHANGED <<input, unread, raw, oversized, delivered>>
    BY <1>1 DEF EndOfInput
  <2>2. Consumed' = Consumed
    BY <2>1 DEF Consumed
  <2>3. Reported(Consumed)'
    BY <2>1, <2>2 DEF ReaderInv, PlaceInv, Reported
  <2>. QED
    BY <2>1, <2>2, <2>3 DEF ReaderInv, PlaceInv, ReaderTyped, UnreadInv
<1>2. ASSUME UNCHANGED <<input, unread, reading, raw, oversized, delivered>> PROVE ReaderInv'
  BY <1>2 DEF ReaderInv, ReaderTyped, UnreadInv, PlaceInv, Reported, InLine, Consumed
<1>3. CASE Write \/ (\E m \in Messages : Emit(m)) \/ UNCHANGED vars
  BY <1>2, <1>3 DEF Write, Emit, vars, reader
<1>. QED
  BY <1>1, <1>3, BeginLineStep, DropPieceStep, SendLineStep DEF Next

----------------------------------------------------------------------------
\* Each line of the input is reported once, in order, and an oversized one or
\* one cut short only as such (_read_stdin_line, stdin_reader), for any input
\* and any limit.
THEOREM FramesStayInStep == Spec => []FramesInStep
<1>1. ReaderInv => FramesInStep
  <2> SUFFICES ASSUME ReaderInv PROVE FramesInStep
    OBVIOUS
  <2>0. input \in Seq(Bytes) /\ Len(input) \in Nat /\ Consumed \in 0..Len(input)
    BY ReaderTypes
  <2>1. PICK b \in 0..Len(input) : /\ Reported(b)
                                   /\ reading = "end" => b = Len(input)
    BY <2>0, ReaderTypes DEF ReaderInv, PlaceInv, ReaderTyped
  <2>2. b \in Nat /\ LinesTo(input, b) \in Nat /\ LinesTo(input, b) <= Cardinality(Ends(input))
        /\ (b = Len(input) => LinesTo(input, b) = Cardinality(Ends(input)))
    <3>1. b \in Nat
      BY <2>0
    <3>. QED
      BY <2>0, <3>1, LineCount
  <2>3. ASSUME NEW p \in Ends(input), LinesTo(input, p) <= Len(delivered)
        PROVE  delivered[LinesTo(input, p)] = Expected(LineTo(input, p))
    <3>1. p \in Nat /\ LinesTo(input, p) \in Nat
      <4>1. p \in Nat
        BY <2>0, EndsInside
      <4>. QED
        BY <2>0, <4>1, LineCount
    <3>2. ~(b < p)
      <4>1. SUFFICES ASSUME b < p PROVE FALSE
        OBVIOUS
      <4>2. LinesTo(input, b) + 1 <= LinesTo(input, p)
        BY <2>0, <2>2, <4>1, LaterLine
      <4>. QED
        BY <2>1, <2>2, <2>3, <3>1, <4>2 DEF Reported
    <3>. QED
      BY <2>1, <2>2, <3>1, <3>2 DEF Reported
  <2>. QED
    BY <2>1, <2>2, <2>3 DEF FramesInStep, Reported
<1>. QED
  BY <1>1, ReaderInit, ReaderStep, PTL DEF Spec

\* All variables of the reader and the writer keep their types; a line that is
\* handed on is within the limit.
THEOREM StdioTypeCorrect == Spec => []TypeOK
<1>1. ReaderInv /\ WriterInv => TypeOK
  <2> SUFFICES ASSUME ReaderInv, WriterInv PROVE TypeOK
    OBVIOUS
  <2>1. \A s \in Seq(Bytes), k \in Nat : Len(s) <= k => s \in BoundedSeq(Bytes, k)
    BY DEF BoundedSeq, SeqOf
  <2>2. /\ input \in Seq(Bytes) /\ Len(input) <= MaxInput /\ Len(input) \in Nat
        /\ unread \in Seq(Bytes) /\ Len(unread) <= Len(input) /\ Len(unread) \in Nat
        /\ raw \in Seq(Bytes) /\ Len(raw) <= MaxLine + 1
    BY DEF ReaderInv, ReaderTyped
  <2>3. /\ input \in BoundedSeq(Bytes, MaxInput) /\ unread \in BoundedSeq(Bytes, MaxInput)
        /\ raw \in BoundedSeq(Bytes, MaxLine + 1)
    <3>1. Len(unread) <= MaxInput /\ MaxInput \in Nat /\ MaxLine + 1 \in Nat
      BY <2>2
    <3>. QED
      BY <2>1, <2>2, <3>1
  <2>. QED
    BY <2>3 DEF TypeOK, ReaderInv, ReaderTyped, Reports, WriterInv, WriterTyped, Outputs
<1>. QED
  BY <1>1, ReaderInit, ReaderStep, WriterInit, WriterStep, PTL DEF Spec
==============================================================================
