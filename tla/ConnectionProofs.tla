--------------------------- MODULE ConnectionProofs ---------------------------
(***************************************************************************)
(* Theorems about a connection, for any bytes, encodings, buffer sizes and *)
(* numbers of writes.                                                      *)
(*                                                                         *)
(* EofInv says what the two end of file flags stand for, and is enough for *)
(* EofTrue: is_incomplete() is only FALSE when everything was read.        *)
(*                                                                         *)
(* IInv adds an account of every byte that was written: the first of them  *)
(* were converted, and what they mean is what R got and what the UTF-8     *)
(* buffer holds; the others are in the raw buffer and in the pipe; and no  *)
(* character was cut in two between them.  Inv, PollTrue and LinesComplete *)
(* follow, and that the connection implements the stream of module Stream. *)
(***************************************************************************)
EXTENDS ConnectionStream, FiniteSetTheorems, SequenceTheorems, WellFoundedInduction, TLAPS

-----------------------------------------------------------------------------
(***************************************************************************)
(* The end of file.                                                        *)
(***************************************************************************)
\* c is a processx_connection_t, whatever the buffers hold.
Shape(c) ==
    /\ {"is_closed", "is_eof", "is_eof_raw", "raw_mode", "allocated",
        "buffer", "utf8", "utf8_allocated"} \subseteq DOMAIN c
    /\ c.is_eof \in BOOLEAN /\ c.is_eof_raw \in BOOLEAN /\ c.raw_mode \in BOOLEAN

\* What the two flags of connection c stand for.
Flags(c) ==
    /\ c.is_eof_raw => pipe = <<>> /\ ~wopen
    /\ c.is_eof => c.is_eof_raw /\ c.buffer = <<>> /\ c.utf8 = <<>>

\* A binary connection is in raw mode from the beginning: nothing is converted.
Binary(c) == ~Text => c.raw_mode /\ c.utf8 = <<>>

\* Lines are only read from text.
Scans == pc = "scan" => Text

EofInv == Shape(con) /\ Flags(con) /\ Binary(con) /\ Scans /\ wopen \in BOOLEAN

\* d is c but for its buffers.
Rebuffered(d, c) ==
    /\ Shape(d)
    /\ d.is_eof = c.is_eof /\ d.is_eof_raw = c.is_eof_raw /\ d.raw_mode = c.raw_mode

\* What processx__connection_read promises: the flags stand for what they should,
\* at the end of file nothing was taken from the pipe, the value is 0 when is_eof_
\* is set, and in raw mode nothing is converted while there is room.
ReadPromise(r, c) ==
    /\ {"con", "took"} \subseteq DOMAIN r
    /\ Shape(r.con) /\ Flags(r.con)
    /\ r.con.raw_mode = c.raw_mode
    /\ r.con.is_eof => r.ret = 0
    /\ r.con.is_eof_raw => r.took = 0
    /\ (c.raw_mode /\ c.buffer = <<>>) => r.con.utf8 = c.utf8

\* The inductive invariant implies the property.
LEMMA EofInvImplies == EofInv => EofTrue
  BY DEF EofInv, Flags, EofTrue

\* It holds when the connection is created.
LEMMA EofInvInit == Init => EofInv
  <1> SUFFICES ASSUME Init PROVE EofInv
    OBVIOUS
  <1> DEFINE b == enc = "binary"
  <1>1. con = [is_closed |-> FALSE, is_eof |-> FALSE, is_eof_raw |-> FALSE,
               raw_mode |-> b, allocated |-> FALSE,
               buffer |-> <<>>, utf8 |-> <<>>, utf8_allocated |-> 0]
    BY DEF Init, connection_create
  <1>2. b \in BOOLEAN /\ (~Text => b)
    BY DEF Text
  <1>3. wopen = TRUE /\ pc = "idle"
    BY DEF Init
  <1> HIDE DEF b
  <1> QED BY <1>1, <1>2, <1>3 DEF EofInv, Shape, Flags, Binary, Scans

\* processx__connection_to_utf8 changes the buffers only, and nothing at all if
\* there is nothing to convert.
LEMMA ToUtf8 ==
  ASSUME NEW c, Shape(c)
  PROVE  /\ Rebuffered(to_utf8(c).con, c)
         /\ c.buffer = <<>> => to_utf8(c) = [con |-> c, ret |-> 0]
  <1> DEFINE room == c.utf8_allocated - Len(c.utf8)
             After(x) == [con |-> [c EXCEPT !.buffer = Drop(@, x.in), !.utf8 = @ \o x.out],
                          ret |-> Len(x.out)]
             v == Converted(c.buffer, room, c.is_eof_raw)
  <1>1. CASE c.buffer = <<>> \/ room = 0
    BY <1>1 DEF to_utf8, Shape, Rebuffered
  <1>2. CASE ~(c.buffer = <<>> \/ room = 0)
    <2>1. to_utf8(c) = Once(After, v)
      BY <1>2 DEF to_utf8
    <2>2. Once(After, v) = After(v)
      BY DEF Once
    <2> HIDE DEF v
    <2>3. PICK p, q : After(v).con = [c EXCEPT !.buffer = p, !.utf8 = q]
      OBVIOUS
    <2> HIDE DEF After
    <2>4. to_utf8(c).con = [c EXCEPT !.buffer = p, !.utf8 = q]
      BY <2>1, <2>2, <2>3
    <2>5. Rebuffered([c EXCEPT !.buffer = p, !.utf8 = q], c)
      BY DEF Shape, Rebuffered
    <2> QED BY <1>2, <2>4, <2>5
  <1> QED BY <1>1, <1>2

\* processx__connection_read keeps the promise.
LEMMA ConnectionRead ==
  ASSUME NEW c, Shape(c), Flags(c), wopen \in BOOLEAN
  PROVE  ReadPromise(connection_read(c), c)
  <1> DEFINE a == alloc(c)
             todo == BufferSize - Len(a.buffer)
             data == Incoming(todo)
             y == a.is_eof \/ (AtEnd /\ Drained(a))
             z == a.is_eof_raw \/ AtEnd
             b == [a EXCEPT !.buffer = @ \o data, !.is_eof_raw = z, !.is_eof = y]
             Result(x) == [con |-> x.con, ret |-> x.ret, took |-> Len(data)]
             r == connection_read(c)
  <1>1. CASE c.is_eof_raw /\ c.buffer = <<>>
    <2> DEFINE w == c.is_eof \/ c.utf8 = <<>>
               d == [c EXCEPT !.is_eof = w]
    <2>1. r = [con |-> d, ret |-> 0, took |-> 0]
      BY <1>1 DEF connection_read
    <2>2. w \in BOOLEAN /\ (w => c.utf8 = <<>>)
      BY DEF Flags
    <2> HIDE DEF w
    <2>3. /\ Shape(d) /\ d.is_eof = w /\ d.is_eof_raw = c.is_eof_raw
          /\ d.raw_mode = c.raw_mode /\ d.buffer = c.buffer /\ d.utf8 = c.utf8
      BY <2>2 DEF Shape
    <2> HIDE DEF r, d
    <2>4. ReadPromise(r, c)
      BY <1>1, <2>1, <2>2, <2>3 DEF Flags, ReadPromise
    <2> QED BY <2>4 DEF r
  <1>2. CASE ~(c.is_eof_raw /\ c.buffer = <<>>)
    <2>1. ~c.is_eof
      BY <1>2 DEF Flags
    <2>2. /\ Shape(a) /\ a.buffer = c.buffer /\ a.utf8 = c.utf8
          /\ a.is_eof = c.is_eof /\ a.is_eof_raw = c.is_eof_raw /\ a.raw_mode = c.raw_mode
      BY DEF alloc, Shape
    <2>3. pipe = <<>> => data = <<>> /\ Len(data) = 0
      BY DEF Incoming
    <2> HIDE DEF a
    <2>4. y \in BOOLEAN /\ z \in BOOLEAN /\ (z => pipe = <<>> /\ ~wopen)
      BY <2>2 DEF Flags, AtEnd, Shape
    <2> HIDE DEF data
    <2>5. y => z /\ a.buffer \o data = <<>> /\ a.utf8 = <<>>
      BY <2>1, <2>2, <2>3 DEF AtEnd, Drained
    <2> HIDE DEF y, z
    <2>6. /\ b.is_eof = y /\ b.is_eof_raw = z /\ b.raw_mode = a.raw_mode
          /\ b.buffer = a.buffer \o data /\ b.utf8 = a.utf8
          /\ Shape(b)
      BY <2>2, <2>4 DEF Shape
    <2>7. CASE todo = 0
      <3>1. r = Once(Result, to_utf8(a))
        BY <1>2, <2>7 DEF connection_read, a, data
      <3>2. Once(Result, to_utf8(a)) = Result(to_utf8(a))
        BY DEF Once
      <3>3. r = Result(to_utf8(a))
        <4> HIDE DEF Result, r, b
        <4> QED BY <3>1, <3>2
      <3> HIDE DEF r
      <3>4. Rebuffered(to_utf8(a).con, a)
        BY <2>2, ToUtf8
      <3>5. c.buffer # <<>>
        BY <2>2, <2>7, SizeAssumption
      <3>6. ReadPromise(r, c)
        BY <2>1, <2>2, <2>3, <3>3, <3>4, <3>5 DEF Rebuffered, Flags, ReadPromise
      <3> QED BY <3>6 DEF r
    <2>8. CASE todo # 0 /\ ~b.raw_mode /\ b.buffer # <<>>
      <3>1. r = Once(Result, to_utf8(b))
        BY <1>2, <2>8 DEF connection_read, a, data, y, z
      <3>2. Once(Result, to_utf8(b)) = Result(to_utf8(b))
        BY DEF Once
      <3>3. r = Result(to_utf8(b))
        <4> HIDE DEF Result, r, b
        <4> QED BY <3>1, <3>2
      <3> HIDE DEF r, b
      <3>4. Rebuffered(to_utf8(b).con, b)
        BY <2>6, ToUtf8
      <3>5. ~y /\ ~a.raw_mode
        BY <2>4, <2>5, <2>6, <2>8
      <3>6. ReadPromise(r, c)
        BY <2>2, <2>3, <2>4, <2>6, <3>3, <3>4, <3>5 DEF Rebuffered, Flags, ReadPromise
      <3> QED BY <3>6 DEF r
    <2>9. CASE todo # 0 /\ ~(~b.raw_mode /\ b.buffer # <<>>)
      <3>1. r = [con |-> b, ret |-> Len(b.buffer), took |-> Len(data)]
        BY <1>2, <2>9 DEF connection_read, a, data, y, z
      <3> HIDE DEF r, b
      <3>2. y => Len(b.buffer) = 0
        BY <2>5, <2>6
      <3>3. ReadPromise(r, c)
        BY <2>2, <2>3, <2>4, <2>5, <2>6, <3>1, <3>2 DEF Flags, ReadPromise
      <3> QED BY <3>3 DEF r
    <2> QED BY <2>7, <2>8, <2>9
  <1> QED BY <1>1, <1>2

\* What a call may start from after its read, if there was one: k is what it takes
\* out of buffer buf.
MayTake(r, buf, k) ==
    /\ Shape(r.con) /\ Flags(r.con) /\ Binary(r.con)
    /\ r.con.is_eof_raw => r.took = 0
    /\ r.con.is_eof => k = 0
    /\ buf = "buffer" \/ (buf = "utf8" /\ Text)

\* At the end of file nothing is left that could be taken, so the flags still
\* stand for what they should when a call has taken its data.
LEMMA TakeKeeps ==
  ASSUME NEW r, NEW buf, NEW k, MayTake(r, buf, k), Take(r, buf, k),
         wopen \in BOOLEAN, Scans'
  PROVE  EofInv'
  <1> DEFINE d == [r.con EXCEPT ![buf] = Drop(@, k)]
  <1>1. con' = d /\ pipe' = Drop(pipe, r.took) /\ enc' = enc /\ wopen' = wopen
    BY DEF Take
  <1>2. Drop(<<>>, 0) = <<>>
    BY DEF Drop
  <1>3. buf \in {"buffer", "utf8"}
    BY DEF MayTake
  <1>4. /\ Shape(d)
        /\ d.is_eof = r.con.is_eof /\ d.is_eof_raw = r.con.is_eof_raw
        /\ d.raw_mode = r.con.raw_mode
        /\ d.utf8 = IF buf = "utf8" THEN Drop(r.con.utf8, k) ELSE r.con.utf8
        /\ d.buffer = IF buf = "buffer" THEN Drop(r.con.buffer, k) ELSE r.con.buffer
    <2>1. Shape(r.con)
      BY DEF MayTake
    <2> QED BY <1>3, <2>1 DEF Shape
  <1> HIDE DEF d
  <1>5. r.con.is_eof_raw => pipe' = <<>>
    BY <1>1, <1>2 DEF MayTake, Flags
  <1>6. r.con.is_eof => d.buffer = <<>> /\ d.utf8 = <<>>
    BY <1>2, <1>3, <1>4 DEF MayTake, Flags
  <1>7. Flags(con)'
    BY <1>1, <1>4, <1>5, <1>6 DEF MayTake, Flags
  <1>8. Binary(con)'
    BY <1>1, <1>3, <1>4 DEF MayTake, Binary, Text
  <1> QED BY <1>1, <1>4, <1>7, <1>8 DEF EofInv

\* The read of a call on a text connection, or its absence.
LEMMA TextRead ==
  ASSUME EofInv, Text, NEW r, NEW k,
         r = connection_read(con) \/ r = NoRead(con), r.con.is_eof => k = 0
  PROVE  MayTake(r, "utf8", k)
  <1>1. CASE r = connection_read(con)
    <2>1. ReadPromise(r, con)
      BY <1>1, ConnectionRead DEF EofInv
    <2> QED BY <2>1 DEF MayTake, ReadPromise, Binary
  <1>2. CASE r = NoRead(con)
    BY <1>2 DEF EofInv, MayTake, NoRead
  <1> QED BY <1>1, <1>2

\* An empty buffer has no characters.
LEMMA NoChars ==
  ASSUME NEW n \in N
  PROVE  find_utf8_chars(<<>>, n) = 0
  <1> DEFINE Z == {j \in 1..0 : <<>>[j] # "C"}
  <1>1. Z = {}
    OBVIOUS
  <1>2. Cardinality(Z) = 0
    BY <1>1, FS_EmptySet
  <1>3. n = -1 \/ Cardinality(Z) <= n
    BY <1>2, SizeAssumption DEF N
  <1> HIDE DEF Z
  <1>4. Len(<<>>) = 0
    OBVIOUS
  <1> QED BY <1>3, <1>4 DEF find_utf8_chars, Z

\* processx_connection_read_chars keeps the invariant.
LEMMA ReadCharsKeeps ==
  ASSUME EofInv, NEW n \in N, ReadChars(n)
  PROVE  EofInv'
  <1> DEFINE K(r) == IF WholeChars(r.con.utf8) THEN find_utf8_chars(r.con.utf8, n) ELSE 0
  <1>1. PICK r : /\ r = connection_read(con) \/ r = NoRead(con)
                 /\ Take(r, "utf8", K(r))
    BY DEF ReadChars
  <1>2. Text /\ Scans'
    BY DEF ReadChars, callVars, EofInv, Scans, Text, Take
  <1>3. ~r.con.is_eof \/ r.con.utf8 = <<>>
    <2>1. MayTake(r, "utf8", 0)
      BY <1>1, <1>2, TextRead
    <2> QED BY <2>1 DEF MayTake, Flags
  <1>4. r.con.is_eof => K(r) = 0
    BY <1>3, NoChars
  <1> HIDE DEF K
  <1>5. MayTake(r, "utf8", K(r))
    BY <1>1, <1>2, <1>4, TextRead
  <1> QED BY <1>1, <1>2, <1>5, TakeKeeps DEF EofInv

\* processx_connection_read_bytes keeps the invariant: it only reads when the
\* buffer is empty, so nothing is converted.
LEMMA ReadBytesKeeps ==
  ASSUME EofInv, NEW n \in N, ReadBytes(n)
  PROVE  EofInv'
  <1> DEFINE c == [con EXCEPT !.raw_mode = TRUE]
             Size(r) == Len(r.con.buffer)
             Eof(r) == r.con.is_eof_raw /\ r.con.buffer = <<>>
             R(r) == [r EXCEPT !.con.is_eof = @ \/ Eof(r)]
             K(r) == IF n = -1 THEN Size(r) ELSE Least(n, Size(r))
  <1>1. PICK r : /\ r = IF c.buffer = <<>> /\ ~c.is_eof_raw THEN connection_read(c) ELSE NoRead(c)
                 /\ Take(R(r), "buffer", K(r))
    BY DEF ReadBytes
  <1>2. ~Text /\ Scans'
    BY DEF ReadBytes, callVars, EofInv, Scans, Text, Take
  <1>3. /\ Shape(c) /\ Flags(c) /\ Binary(c)
        /\ c.raw_mode
    BY DEF EofInv, Shape, Flags, Binary
  <1> HIDE DEF c
  <1>4. /\ Shape(r.con) /\ Flags(r.con) /\ Binary(r.con)
        /\ r.con.is_eof_raw => r.took = 0
    <2>1. CASE c.buffer = <<>> /\ ~c.is_eof_raw
      <3>1. ReadPromise(r, c)
        BY <1>1, <1>3, <2>1, ConnectionRead DEF EofInv
      <3> QED BY <1>3, <2>1, <3>1 DEF ReadPromise, Binary
    <2>2. CASE ~(c.buffer = <<>> /\ ~c.is_eof_raw)
      BY <1>1, <1>3, <2>2 DEF NoRead
    <2> QED BY <2>1, <2>2
  <1>5. {"con", "took"} \subseteq DOMAIN r
    <2>1. DOMAIN NoRead(c) = {"con", "ret", "took"}
      BY DEF NoRead
    <2>2. CASE c.buffer = <<>> /\ ~c.is_eof_raw
      BY <1>1, <2>2, ConnectionRead, <1>3 DEF EofInv, ReadPromise
    <2> QED BY <1>1, <2>1, <2>2
  <1>6. /\ R(r).con.is_eof = (r.con.is_eof \/ Eof(r))
        /\ R(r).con.is_eof_raw = r.con.is_eof_raw /\ R(r).con.raw_mode = r.con.raw_mode
        /\ R(r).con.buffer = r.con.buffer /\ R(r).con.utf8 = r.con.utf8
        /\ R(r).took = r.took /\ Shape(R(r).con)
    <2> HIDE DEF Size
    <2>1. (r.con.is_eof \/ Eof(r)) \in BOOLEAN
      OBVIOUS
    <2> HIDE DEF Eof
    <2> QED BY <1>4, <1>5, <2>1 DEF Shape
  <1>7. r.con.buffer = <<>> => K(r) = 0
    BY SizeAssumption DEF Least, N
  <1>8. MayTake(R(r), "buffer", K(r))
    <2> HIDE DEF R, K
    <2>1. Eof(r) => r.con.utf8 = <<>>
      BY <1>2, <1>4 DEF Binary
    <2> QED BY <1>4, <1>6, <1>7, <2>1 DEF MayTake, Flags, Binary
  <1> HIDE DEF R, K
  <1> QED BY <1>1, <1>2, <1>8, TakeKeeps DEF EofInv

\* The end of processx_connection_read_lines keeps the invariant, if no line is
\* looked for at the end of file.
LEMMA LinesServedKeeps ==
  ASSUME wopen \in BOOLEAN, NEW r, NEW newline, NEW n,
         MayTake(r, "utf8", 0), r.con.is_eof => newline = 0,
         LinesServed(r, newline, n)
  PROVE  EofInv'
  <1> DEFINE u == r.con.utf8
             lines == IF newline = 0 THEN 0
                      ELSE Least(IF n = -1 THEN MaxLines ELSE n, Newlines(u, Len(u)))
             k == IF LastLine(r.con) THEN Len(u) ELSE NthNewline(u, lines)
  <1>1. Take(r, "utf8", k) /\ Idle
    BY DEF LinesServed
  <1>2. Scans'
    BY <1>1 DEF Idle, Scans
  <1>3. r.con.is_eof => k = 0
    BY DEF MayTake, Flags, LastLine, NthNewline
  <1> HIDE DEF k
  <1>4. MayTake(r, "utf8", k)
    BY <1>3 DEF MayTake
  <1> QED BY <1>1, <1>2, <1>4, TakeKeeps DEF EofInv

\* The beginning of processx_connection_read_lines keeps the invariant.
LEMMA LinesBeginsKeeps ==
  ASSUME EofInv, NEW n \in N, LinesBegins(n)
  PROVE  EofInv'
  <1> DEFINE Newline(r) == NewlineIn(r.con.utf8, 0, Len(r.con.utf8))
  <1>1. PICK r : /\ r = connection_read(con) \/ r = NoRead(con)
                 /\ IF r.con.utf8 = <<>> \/ Newline(r) # 0
                    THEN LinesServed(r, Newline(r), n)
                    ELSE Take(r, "utf8", 0)
    BY DEF LinesBegins
  <1>2. Text
    BY DEF LinesBegins
  <1>3. MayTake(r, "utf8", 0)
    BY <1>1, <1>2, TextRead
  <1>4. r.con.is_eof => Newline(r) = 0
    <2>1. NewlineIn(<<>>, 0, Len(<<>>)) = 0
      BY DEF NewlineIn
    <2> QED BY <1>3, <2>1 DEF MayTake, Flags
  <1>5. CASE LinesServed(r, Newline(r), n)
    <2> HIDE DEF Newline
    <2> QED BY <1>3, <1>4, <1>5, LinesServedKeeps DEF EofInv
  <1>6. CASE Take(r, "utf8", 0)
    <2>1. Scans'
      BY <1>2, <1>6 DEF Scans, Text, Take
    <2> QED BY <1>3, <1>6, <2>1, TakeKeeps DEF EofInv
  <1> QED BY <1>1, <1>5, <1>6

\* So does each further read of read_until_newline: the loop ends at the end of
\* file, where connection_read() returns 0.  The UTF-8 buffer may grow before.
LEMMA LinesReadsKeeps ==
  ASSUME EofInv, LinesReads
  PROVE  EofInv'
  <1> DEFINE c == IF NeedsRealloc(con) THEN realloc(con) ELSE con
             Newline(r) == NewlineIn(r.con.utf8, end, SearchEnd(r.con))
  <1>1. PICK r : /\ r = IF con.is_eof THEN NoRead(con) ELSE connection_read(c)
                 /\ \/ r.ret = 0 /\ LinesServed(r, 0, want)
                    \/ r.ret # 0 /\ LinesServed(r, Newline(r), want)
                    \/ r.ret # 0 /\ Take(r, "utf8", 0)
    BY DEF LinesReads
  <1>2. Text
    BY DEF LinesReads, EofInv, Scans
  <1>3. Shape(c) /\ Flags(c)
    <2>1. Shape(con) /\ Flags(con)
      BY DEF EofInv
    <2>2. PICK m : realloc(con) = [con EXCEPT !.utf8_allocated = m]
      BY DEF realloc
    <2>3. LET d == [con EXCEPT !.utf8_allocated = m] IN Shape(d) /\ Flags(d)
      BY <2>1 DEF Shape, Flags
    <2> QED BY <2>1, <2>2, <2>3
  <1> HIDE DEF c
  <1>4. MayTake(r, "utf8", 0) /\ (r.con.is_eof => r.ret = 0)
    <2>1. CASE con.is_eof
      BY <1>1, <1>2, <2>1, TextRead DEF NoRead
    <2>2. CASE ~con.is_eof
      <3>1. ReadPromise(r, c)
        BY <1>1, <1>3, <2>2, ConnectionRead DEF EofInv
      <3> QED BY <1>2, <3>1 DEF MayTake, ReadPromise, Binary
    <2> QED BY <2>1, <2>2
  <1> HIDE DEF Newline
  <1>5. CASE r.ret = 0 /\ LinesServed(r, 0, want)
    BY <1>4, <1>5, LinesServedKeeps DEF EofInv
  <1>6. CASE r.ret # 0 /\ LinesServed(r, Newline(r), want)
    BY <1>4, <1>6, LinesServedKeeps DEF EofInv
  <1>7. CASE r.ret # 0 /\ Take(r, "utf8", 0)
    <2>1. Scans'
      BY <1>2, <1>7 DEF Scans, Text, Take
    <2> QED BY <1>4, <1>7, <2>1, TakeKeeps DEF EofInv
  <1> QED BY <1>1, <1>5, <1>6, <1>7

\* The conversion that poll() tries before it waits keeps the invariant: at the
\* end of file and in raw mode there is none.
LEMMA PollBeginsKeeps ==
  ASSUME EofInv, NEW ms, PollBegins(ms)
  PROVE  EofInv'
  <1>1. con' = pre_poll(con).con /\ UNCHANGED <<enc, pipe, wopen>> /\ Scans'
    BY DEF PollBegins, PollSays, Idle, Scans, pipeVars
  <1>2. \/ pre_poll(con).con = con
        \/ pre_poll(con).con = to_utf8(con).con /\ ~con.is_eof /\ ~con.raw_mode
    <2> DEFINE Says(d, e) == [con |-> d, event |-> e]
               Tried(x) == Says(x.con, IF x.con.utf8 # <<>> THEN "ready" ELSE "handle")
    <2>1. Once(Tried, to_utf8(con)) = Tried(to_utf8(con))
      BY DEF Once
    <2>2. \/ pre_poll(con).con = con
          \/ pre_poll(con) = Once(Tried, to_utf8(con)) /\ ~con.is_eof /\ ~con.raw_mode
      <3>1. CASE con.is_closed
        BY <3>1 DEF pre_poll
      <3>2. CASE ~con.is_closed /\ con.is_eof
        BY <3>2 DEF pre_poll
      <3>3. CASE ~con.is_closed /\ ~con.is_eof /\ con.raw_mode
        BY <3>3 DEF pre_poll
      <3>4. CASE ~con.is_closed /\ ~con.is_eof /\ ~con.raw_mode
        BY <3>4 DEF pre_poll
      <3> QED BY <3>1, <3>2, <3>3, <3>4
    <2>3. Tried(to_utf8(con)).con = to_utf8(con).con
      OBVIOUS
    <2> HIDE DEF Tried
    <2> QED BY <2>1, <2>2, <2>3
  <1>3. CASE con' = con
    BY <1>1, <1>3 DEF EofInv, Flags, Binary, Text
  <1>4. CASE con' = to_utf8(con).con /\ ~con.is_eof /\ ~con.raw_mode
    <2>1. Rebuffered(con', con)
      BY <1>4, ToUtf8 DEF EofInv
    <2> QED BY <1>1, <1>4, <2>1 DEF EofInv, Rebuffered, Flags, Binary, Text
  <1> QED BY <1>1, <1>2, <1>3, <1>4

\* Every step keeps the invariant.
LEMMA EofInvStep == EofInv /\ [Next]_vars => EofInv'
  <1> SUFFICES ASSUME EofInv, [Next]_vars PROVE EofInv'
    OBVIOUS
  <1>1. ASSUME NEW b, Write(b) PROVE EofInv'
    BY <1>1 DEF Write, callVars, EofInv, Flags, Binary, Scans, Text
  <1>2. CASE CloseWrite
    BY <1>2 DEF CloseWrite, callVars, EofInv, Flags, Binary, Scans, Text
  <1>3. ASSUME NEW n \in N, ReadChars(n) \/ ReadBytes(n) \/ LinesBegins(n) PROVE EofInv'
    BY <1>3, ReadCharsKeeps, ReadBytesKeeps, LinesBeginsKeeps
  <1>4. CASE LinesReads
    BY <1>4, LinesReadsKeeps
  <1>5. CASE close
    <2>1. Shape(con)' /\ Flags(con)' /\ Binary(con)'
      BY <1>5 DEF close, pipeVars, EofInv, Shape, Flags, Binary, Text
    <2> QED BY <1>5, <2>1 DEF close, pipeVars, callVars, EofInv, Scans, Text
  <1>6. ASSUME NEW ms, PollBegins(ms) PROVE EofInv'
    BY <1>6, PollBeginsKeeps
  <1>7. CASE ReadFails
    <2> DEFINE c == IF pc = "scan" /\ NeedsRealloc(con) THEN realloc(con) ELSE con
    <2>1. con' = alloc(c) /\ UNCHANGED <<enc, pipe, wopen>> /\ pc' = "idle"
      BY <1>7 DEF ReadFails, pipeVars, Idle
    <2>2. Shape(c) /\ Flags(c) /\ Binary(c)
      <3>1. Shape(con) /\ Flags(con) /\ Binary(con)
        BY DEF EofInv
      <3>2. PICK m : realloc(con) = [con EXCEPT !.utf8_allocated = m]
        BY DEF realloc
      <3>3. LET d == [con EXCEPT !.utf8_allocated = m]
            IN  Shape(d) /\ Flags(d) /\ Binary(d)
        BY <3>1 DEF Shape, Flags, Binary
      <3> QED BY <3>1, <3>2, <3>3
    <2> HIDE DEF c
    <2>3. Shape(alloc(c)) /\ Flags(alloc(c)) /\ Binary(alloc(c))
      BY <2>2 DEF alloc, Shape, Flags, Binary
    <2> QED BY <2>1, <2>3 DEF EofInv, Flags, Binary, Scans, Text
  <1>8. CASE \/ PollReady \/ PollSilent \/ PollTimesOut
             \/ PollInterrupted \/ ReadAllBegins \/ ReadAllEnds
    <2>1. UNCHANGED <<con, enc, pipe, wopen>> /\ (pc' = "idle" \/ pc' = pc)
      BY <1>8 DEF PollReady, PollSilent, PollTimesOut, PollInterrupted,
                  ReadAllBegins, ReadAllEnds, PollSays, Idle, pipeVars, callVars
    <2> QED BY <2>1 DEF EofInv, Flags, Binary, Scans, Text
  <1>9. CASE UNCHANGED vars
    BY <1>9 DEF vars, pipeVars, callVars, EofInv, Flags, Binary, Scans, Text
  <1> QED BY <1>1, <1>2, <1>3, <1>4, <1>5, <1>6, <1>7, <1>8, <1>9 DEF Next, Reader

\* is_incomplete() is FALSE only when the other end is closed and R has got all
\* that was written: connection_read(), the only place that sets is_eof_ for text,
\* and read_bytes() look at both buffers before they say so.
THEOREM EofIsTrue == Spec => []EofTrue
  <1>1. Spec => []EofInv
    BY EofInvInit, EofInvStep, PTL DEF Spec
  <1> QED BY <1>1, EofInvImplies, PTL

-----------------------------------------------------------------------------
(***************************************************************************)
(* Numbers.                                                                *)
(***************************************************************************)
\* A set of numbers has a least element.
LEMMA LeastNumber ==
  ASSUME NEW T, T \subseteq Nat, T # {}
  PROVE  \E m \in T : \A k \in T : m <= k
  <1> DEFINE R == OpToRel(<, Nat)
  <1>1. IsWellFoundedOn(R, Nat)
    BY NatLessThanWellFounded
  <1> HIDE DEF R
  <1>2. PICK x \in T : \A y \in T : ~ (<<y, x>> \in R)
    BY <1>1, WFMin
  <1>3. \A y \in T : y < x => <<y, x>> \in R
    BY DEF R, OpToRel
  <1>4. \A y \in T : y \in Nat
    OBVIOUS
  <1>5. ASSUME NEW y \in T PROVE x <= y
    <2>1. x \in Nat /\ y \in Nat /\ ~ (y < x)
      BY <1>2, <1>3, <1>4
    <2> QED BY <2>1
  <1> QED BY <1>5

\* A set that contains 0, and with each number below n also the next one.
LEMMA UpTo ==
  ASSUME NEW n \in Nat, NEW T, 0 \in T, \A i \in 0..(n - 1) : i \in T => i + 1 \in T
  PROVE  \A i \in 0..n : i \in T
  <1> DEFINE Bad == {i \in 0..n : i \notin T}
  <1>1. SUFFICES ASSUME Bad # {} PROVE FALSE
    OBVIOUS
  <1>2. PICK m \in Bad : \A k \in Bad : m <= k
    <2>1. Bad \subseteq Nat
      OBVIOUS
    <2> HIDE DEF Bad
    <2> QED BY <1>1, <2>1, LeastNumber
  <1>3. m # 0 /\ m - 1 \in 0..(n - 1)
    OBVIOUS
  <1>4. m - 1 \in T
    BY <1>2, <1>3
  <1> QED BY <1>3, <1>4

\* f begins with x0, and goes on by Step.
Follows(f, L, X, x0, Step) ==
    /\ f \in [0..L -> X]
    /\ f[0] = x0
    /\ \A i \in 1..L : f[i] = Step[<<i, f[i - 1]>>]

\* A function of a number may be defined from its value at the number before.
LEMMA Recursion ==
  ASSUME NEW L \in Nat, NEW X, NEW x0 \in X, NEW Step \in [(1..L) \X X -> X]
  PROVE  \E f : Follows(f, L, X, x0, Step)
  <1> DEFINE Is(f, k) == f[0] = x0 /\ \A i \in 1..k : f[i] = Step[<<i, f[i - 1]>>]
             T == {k \in 0..L : \E f \in [0..k -> X] : Is(f, k)}
  <1>1. 0 \in T
    <2> DEFINE g == [i \in 0..0 |-> x0]
    <2>1. g \in [0..0 -> X] /\ Is(g, 0)
      OBVIOUS
    <2> HIDE DEF g, Is
    <2> QED BY <2>1
  <1>2. ASSUME NEW k \in 0..(L - 1), k \in T PROVE k + 1 \in T
    <2>1. PICK f \in [0..k -> X] : Is(f, k)
      BY <1>2
    <2> DEFINE v == Step[<<k + 1, f[k]>>]
               g == [i \in 0..(k + 1) |-> IF i = k + 1 THEN v ELSE f[i]]
    <2>2. f[k] \in X /\ k + 1 \in 1..L
      OBVIOUS
    <2>3. <<k + 1, f[k]>> \in (1..L) \X X
      BY <2>2
    <2>4. v \in X
      BY <2>3
    <2> HIDE DEF v
    <2>5. g \in [0..(k + 1) -> X] /\ (\A i \in 0..k : g[i] = f[i]) /\ g[k + 1] = v
      BY <2>4
    <2> HIDE DEF g
    <2>6. ASSUME NEW i \in 1..(k + 1) PROVE g[i] = Step[<<i, g[i - 1]>>]
      <3>1. CASE i = k + 1
        <4>1. g[i - 1] = f[k]
          BY <3>1, <2>5
        <4> QED BY <3>1, <4>1, <2>5 DEF v
      <3>2. CASE i # k + 1
        <4>1. i \in 1..k /\ i - 1 \in 0..k /\ i \in 0..k
          BY <3>2
        <4>2. g[i - 1] = f[i - 1] /\ g[i] = f[i]
          BY <4>1, <2>5
        <4> QED BY <4>1, <4>2, <2>1
      <3> QED BY <3>1, <3>2
    <2>7. Is(g, k + 1) /\ k + 1 \in 0..L
      BY <2>1, <2>5, <2>6
    <2> HIDE DEF Is
    <2> QED BY <2>5, <2>7
  <1>3. \A k \in 0..L : k \in T
    <2> HIDE DEF T
    <2> QED BY <1>1, <1>2, UpTo
  <1>4. L \in T
    <2> HIDE DEF T
    <2> QED BY <1>3
  <1> QED BY <1>4 DEF Follows

-----------------------------------------------------------------------------
(***************************************************************************)
(* The UTF-8 form of bytes.                                                *)
(***************************************************************************)
\* The bytes of text.
Bytes == {"a", "n", "r", "L", "C"}

\* Meaning() for encoding e.
Form(e, s, i) ==
    IF s[i] \notin {"L", "C"} THEN <<s[i]>>
    ELSE IF e = "latin1" THEN <<"L", "C">>
    ELSE IF \/ s[i] = "L" /\ i < Len(s) /\ s[i + 1] = "C"
            \/ s[i] = "C" /\ i > 1 /\ s[i - 1] = "L" THEN <<s[i]>> ELSE <<>>
Decoded(e, s) ==
    LET upTo[i \in 0..Len(s)] == IF i = 0 THEN <<>> ELSE upTo[i - 1] \o Form(e, s, i)
    IN  IF e # "binary" THEN upTo[Len(s)] ELSE s

\* The UTF-8 form of s is that of the encoding of the connection.
LEMMA MeaningIs == ASSUME NEW s PROVE Meaning(s) = Decoded(enc, s)
  BY DEF Meaning, Decoded, Form, Text

\* f[i] is what the first i bytes of s mean.
IsDecoding(e, s, f) ==
    /\ f \in [0..Len(s) -> Seq(Bytes)]
    /\ f[0] = <<>>
    /\ \A i \in 1..Len(s) : f[i] = f[i - 1] \o Form(e, s, i)

\* The forms of the bytes, one after the other.
LEMMA Decoding ==
  ASSUME NEW e, e # "binary", NEW s \in Seq(Bytes)
  PROVE  \E f : IsDecoding(e, s, f) /\ Decoded(e, s) = f[Len(s)]
  <1> DEFINE L == Len(s)
             X == Seq(Bytes)
             Step == [p \in (1..L) \X X |-> p[2] \o Form(e, s, p[1])]
             Def(g) == [i \in 0..L |-> IF i = 0 THEN <<>> ELSE g[i - 1] \o Form(e, s, i)]
  <1>1. L \in Nat /\ <<>> \in X
    OBVIOUS
  <1>2. ASSUME NEW i \in 1..L PROVE Form(e, s, i) \in X
    <2>1. s[i] \in Bytes /\ "L" \in Bytes /\ "C" \in Bytes
      BY DEF Bytes
    <2>2. <<s[i]>> \in X /\ <<"L", "C">> \in X
      BY <2>1
    <2> HIDE DEF X
    <2> QED BY <1>1, <2>2 DEF Form
  <1>3. Step \in [(1..L) \X X -> X]
    BY <1>2
  <1>4. PICK f \in [0..L -> X] : f[0] = <<>> /\ \A i \in 1..L : f[i] = Step[<<i, f[i - 1]>>]
    <2> HIDE DEF L, X, Step
    <2>1. \E f : Follows(f, L, X, <<>>, Step)
      BY <1>1, <1>3, Recursion
    <2> QED BY <2>1 DEF Follows
  <1>5. \A i \in 1..L : f[i] = f[i - 1] \o Form(e, s, i)
    <2> SUFFICES ASSUME NEW i \in 1..L PROVE f[i] = f[i - 1] \o Form(e, s, i)
      OBVIOUS
    <2>1. f[i - 1] \in X
      OBVIOUS
    <2>2. <<i, f[i - 1]>> \in (1..L) \X X
      BY <2>1
    <2> HIDE DEF L, X
    <2> QED BY <1>4, <2>2
  <1> HIDE DEF L, X, Step
  <1>6. f = Def(f)
    BY <1>1, <1>4, <1>5
  <1> DEFINE u == CHOOSE g : g = Def(g)
  <1>7. u = Def(u)
    BY <1>6
  <1>8. Decoded(e, s) = u[L]
    BY DEF Decoded, L
  <1> HIDE DEF u
  <1>9. DOMAIN u = 0..L /\ u[0] = <<>> /\ \A i \in 1..L : u[i] = u[i - 1] \o Form(e, s, i)
    BY <1>7, <1>1
  <1>10. u \in [0..L -> X]
    <2> DEFINE T == {i \in 0..L : u[i] \in X}
    <2>1. 0 \in T
      BY <1>9, <1>1
    <2>2. ASSUME NEW i \in 0..(L - 1), i \in T PROVE i + 1 \in T
      <3>1. i + 1 \in 1..L /\ i + 1 \in 0..L /\ (i + 1) - 1 = i
        BY <1>1
      <3>2. u[i + 1] = u[i] \o Form(e, s, i + 1) /\ u[i] \in X /\ Form(e, s, i + 1) \in X
        BY <3>1, <1>9, <1>2, <2>2
      <3>3. u[i + 1] \in X
        BY <3>2 DEF X
      <3> QED BY <3>1, <3>3
    <2>3. \A i \in 0..L : i \in T
      <3> HIDE DEF T
      <3> QED BY <1>1, <2>1, <2>2, UpTo
    <2>4. u = [i \in 0..L |-> u[i]]
      BY <1>7
    <2> QED BY <2>3, <2>4
  <1> QED BY <1>8, <1>9, <1>10 DEF IsDecoding, L, X

\* s ends in the middle of a character, and t begins there.
Open(e, s) == e \notin {"latin1", "binary"} /\ s # <<>> /\ s[Len(s)] = "L"
GoesOn(t) == t # <<>> /\ t[1] = "C"

\* The forms are bytes of text.
LEMMA FormType ==
  ASSUME NEW e, NEW s \in Seq(Bytes), NEW i \in 1..Len(s)
  PROVE  Form(e, s, i) \in Seq(Bytes)
  <1>1. s[i] \in Bytes /\ "L" \in Bytes /\ "C" \in Bytes
    BY DEF Bytes
  <1>2. <<s[i]>> \in Seq(Bytes) /\ <<"L", "C">> \in Seq(Bytes) /\ <<>> \in Seq(Bytes)
    BY <1>1
  <1> QED BY <1>2 DEF Form

\* The UTF-8 form of bytes is bytes.
LEMMA DecodedType ==
  ASSUME NEW e, NEW s \in Seq(Bytes)
  PROVE  Decoded(e, s) \in Seq(Bytes)
  <1>1. CASE e = "binary"
    BY <1>1 DEF Decoded
  <1>2. CASE e # "binary"
    <2>1. PICK f : IsDecoding(e, s, f) /\ Decoded(e, s) = f[Len(s)]
      BY <1>2, Decoding
    <2> QED BY <2>1 DEF IsDecoding
  <1> QED BY <1>1, <1>2

\* Nothing means nothing.
LEMMA DecodedEmpty == ASSUME NEW e PROVE Decoded(e, <<>>) = <<>>
  <1>1. <<>> \in Seq(Bytes) /\ Len(<<>>) = 0
    OBVIOUS
  <1>2. CASE e = "binary"
    BY <1>2 DEF Decoded
  <1>3. CASE e # "binary"
    <2>1. PICK f : IsDecoding(e, <<>>, f) /\ Decoded(e, <<>>) = f[Len(<<>>)]
      BY <1>1, <1>3, Decoding
    <2> QED BY <1>1, <2>1 DEF IsDecoding
  <1> QED BY <1>2, <1>3

\* A byte keeps its form when more follows that does not complete it.
LEMMA FormConcat ==
  ASSUME NEW e, e # "binary", NEW s \in Seq(Bytes), NEW t \in Seq(Bytes),
         ~(Open(e, s) /\ GoesOn(t))
  PROVE  /\ \A i \in 1..Len(s) : Form(e, s \o t, i) = Form(e, s, i)
         /\ \A j \in 1..Len(t) : Form(e, s \o t, Len(s) + j) = Form(e, t, j)
  <1> DEFINE u == s \o t
  <1>1. /\ Len(s) \in Nat /\ Len(t) \in Nat /\ Len(u) = Len(s) + Len(t)
        /\ \A i \in 1..Len(s) : u[i] = s[i]
        /\ \A j \in 1..Len(t) : u[Len(s) + j] = t[j]
        /\ Len(s) > 0 => s # <<>>
        /\ Len(t) > 0 => t # <<>>
    OBVIOUS
  <1> HIDE DEF u
  <1>2. ASSUME NEW i \in 1..Len(s) PROVE Form(e, u, i) = Form(e, s, i)
    <2>1. u[i] = s[i] /\ (i > 1 => u[i - 1] = s[i - 1]) /\ (i < Len(s) => u[i + 1] = s[i + 1])
      BY <1>1
    <2>2. CASE e = "latin1" \/ s[i] # "L"
      BY <2>1, <2>2 DEF Form
    <2>3. CASE e # "latin1" /\ s[i] = "L"
      <3>1. (i < Len(u) /\ u[i + 1] = "C") <=> (i < Len(s) /\ s[i + 1] = "C")
        <4>1. CASE i < Len(s)
          BY <4>1, <1>1, <2>1
        <4>2. CASE i = Len(s)
          <5>1. Open(e, s)
            BY <1>1, <2>3, <4>2 DEF Open
          <5>2. ASSUME i < Len(u) PROVE u[i + 1] # "C"
            <6>1. 1 \in 1..Len(t) /\ u[Len(s) + 1] = t[1]
              BY <1>1, <4>2, <5>2
            <6> QED BY <1>1, <4>2, <5>1, <6>1 DEF GoesOn
          <5> QED BY <4>2, <5>2
        <4> QED BY <4>1, <4>2, <1>1
      <3> QED BY <2>1, <2>3, <3>1 DEF Form
    <2> QED BY <2>2, <2>3
  <1>3. ASSUME NEW j \in 1..Len(t) PROVE Form(e, u, Len(s) + j) = Form(e, t, j)
    <2> DEFINE n == Len(s) + j
    <2>1. /\ u[n] = t[j] /\ n \in Nat
          /\ n < Len(u) <=> j < Len(t)
          /\ j < Len(t) => u[n + 1] = t[j + 1]
          /\ j > 1 => n > 1 /\ u[n - 1] = t[j - 1]
      <3>1. j < Len(t) => j + 1 \in 1..Len(t) /\ Len(s) + (j + 1) = n + 1
        BY <1>1
      <3>2. j > 1 => j - 1 \in 1..Len(t) /\ Len(s) + (j - 1) = n - 1
        BY <1>1
      <3>3. u[n] = t[j] /\ n \in Nat /\ (n < Len(u) <=> j < Len(t))
        BY <1>1
      <3>4. j < Len(t) => u[n + 1] = t[j + 1]
        BY <1>1, <3>1
      <3>5. j > 1 => u[n - 1] = t[j - 1]
        BY <1>1, <3>2
      <3>6. j > 1 => n > 1
        BY <1>1
      <3> QED BY <3>3, <3>4, <3>5, <3>6
    <2>2. CASE e = "latin1" \/ t[j] # "C"
      <3> HIDE DEF n
      <3>1. Form(e, u, n) = Form(e, t, j)
        BY <2>1, <2>2 DEF Form
      <3> QED BY <3>1 DEF n
    <2>3. CASE e # "latin1" /\ t[j] = "C"
      <3>1. (n > 1 /\ u[n - 1] = "L") <=> (j > 1 /\ t[j - 1] = "L")
        <4>1. CASE j > 1
          BY <4>1, <2>1
        <4>2. CASE j = 1
          <5>1. GoesOn(t)
            BY <1>1, <2>3, <4>2 DEF GoesOn
          <5>2. ASSUME n > 1 PROVE u[n - 1] # "L"
            <6>1. Len(s) \in 1..Len(s) /\ n - 1 = Len(s)
              BY <1>1, <4>2, <5>2
            <6>2. u[n - 1] = s[Len(s)]
              BY <1>1, <6>1
            <6> QED BY <1>1, <2>3, <5>1, <6>1, <6>2 DEF Open
          <5> QED BY <4>2, <5>2
        <4> QED BY <4>1, <4>2
      <3> HIDE DEF n
      <3>2. Form(e, u, n) = Form(e, t, j)
        BY <2>1, <2>3, <3>1 DEF Form
      <3> QED BY <3>2 DEF n
    <2> QED BY <2>2, <2>3
  <1> QED BY <1>2, <1>3 DEF u

\* Brackets do not matter.
LEMMA Brackets ==
  ASSUME NEW k \in Seq(Bytes), NEW l \in Seq(Bytes), NEW m \in Seq(Bytes)
  PROVE  (k \o l) \o m = k \o (l \o m)
  BY ConcatAssociative

\* Where no character is cut in two, the form of the whole is that of the parts.
LEMMA DecodedConcat ==
  ASSUME NEW e, NEW s \in Seq(Bytes), NEW t \in Seq(Bytes), ~(Open(e, s) /\ GoesOn(t))
  PROVE  Decoded(e, s \o t) = Decoded(e, s) \o Decoded(e, t)
  <1>1. CASE e = "binary"
    BY <1>1 DEF Decoded
  <1>2. CASE e # "binary"
    <2> DEFINE u == s \o t
    <2>1. /\ u \in Seq(Bytes) /\ Len(u) = Len(s) + Len(t)
          /\ Len(s) \in Nat /\ Len(t) \in Nat
      OBVIOUS
    <2>2. /\ \A i \in 1..Len(s) : Form(e, u, i) = Form(e, s, i)
          /\ \A j \in 1..Len(t) : Form(e, u, Len(s) + j) = Form(e, t, j)
      BY <1>2, FormConcat
    <2> HIDE DEF u
    <2>3. PICK f : IsDecoding(e, s, f) /\ Decoded(e, s) = f[Len(s)]
      BY <1>2, Decoding
    <2>4. PICK g : IsDecoding(e, t, g) /\ Decoded(e, t) = g[Len(t)]
      BY <1>2, Decoding
    <2>5. PICK h : IsDecoding(e, u, h) /\ Decoded(e, u) = h[Len(u)]
      BY <1>2, <2>1, Decoding
    <2>6. \A i \in 0..Len(s) : h[i] = f[i]
      <3> DEFINE T == {i \in 0..Len(s) : h[i] = f[i]}
      <3>1. 0 \in T
        BY <2>1, <2>3, <2>5 DEF IsDecoding
      <3>2. ASSUME NEW i \in 0..(Len(s) - 1), i \in T PROVE i + 1 \in T
        <4>1. i + 1 \in 1..Len(s) /\ i + 1 \in 1..Len(u) /\ (i + 1) - 1 = i /\ i + 1 \in 0..Len(s)
          BY <2>1
        <4>2. f[i + 1] = f[i] \o Form(e, s, i + 1)
          BY <2>3, <4>1 DEF IsDecoding
        <4>3. h[i + 1] = h[i] \o Form(e, u, i + 1)
          BY <2>5, <4>1 DEF IsDecoding
        <4> QED BY <2>2, <3>2, <4>1, <4>2, <4>3
      <3> HIDE DEF T
      <3>3. \A i \in 0..Len(s) : i \in T
        BY <2>1, <3>1, <3>2, UpTo
      <3> QED BY <3>3 DEF T
    <2> DEFINE d == Decoded(e, s)
    <2>7. d \in Seq(Bytes)
      BY DecodedType
    <2>8. \A j \in 0..Len(t) : h[Len(s) + j] = d \o g[j]
      <3> DEFINE T == {j \in 0..Len(t) : h[Len(s) + j] = d \o g[j]}
      <3>1. 0 \in T
        <4>1. h[Len(s)] = d /\ g[0] = <<>> /\ Len(s) + 0 = Len(s)
          BY <2>1, <2>3, <2>4, <2>6 DEF IsDecoding
        <4> HIDE DEF d
        <4>2. d \o <<>> = d
          BY <2>7
        <4>3. h[Len(s) + 0] = d \o g[0] /\ 0 \in 0..Len(t)
          BY <2>1, <4>1, <4>2
        <4> QED BY <4>3
      <3>2. ASSUME NEW j \in 0..(Len(t) - 1), j \in T PROVE j + 1 \in T
        <4> DEFINE n == Len(s) + j
        <4>1. /\ j + 1 \in 1..Len(t) /\ (j + 1) - 1 = j /\ j + 1 \in 0..Len(t) /\ j \in 0..Len(t)
              /\ Len(s) + (j + 1) = n + 1 /\ n + 1 \in 1..Len(u) /\ (n + 1) - 1 = n
          BY <2>1
        <4> DEFINE w == Form(e, t, j + 1)
                   v == g[j]
        <4>2. g[j + 1] = v \o w
          BY <2>4, <4>1 DEF IsDecoding
        <4>3. h[n + 1] = h[n] \o w
          <5>1. h[n + 1] = h[n] \o Form(e, u, n + 1)
            BY <2>5, <4>1 DEF IsDecoding
          <5>2. Form(e, u, n + 1) = w
            BY <2>2, <4>1
          <5> QED BY <5>1, <5>2
        <4>4. w \in Seq(Bytes) /\ v \in Seq(Bytes)
          BY <2>4, <4>1, FormType DEF IsDecoding
        <4>5. h[n] = d \o v
          BY <3>2
        <4> HIDE DEF d, v, w, n
        <4>6. (d \o v) \o w = d \o (v \o w)
          BY <2>7, <4>4, Brackets
        <4>7. h[n + 1] = d \o g[j + 1]
          BY <4>2, <4>3, <4>5, <4>6
        <4> QED BY <4>1, <4>7
      <3> HIDE DEF T
      <3>3. \A j \in 0..Len(t) : j \in T
        BY <2>1, <3>1, <3>2, UpTo
      <3> QED BY <3>3 DEF T
    <2>9. Len(t) \in 0..Len(t)
      BY <2>1
    <2>10. Decoded(e, u) = d \o Decoded(e, t)
      BY <2>1, <2>4, <2>5, <2>8, <2>9
    <2> QED BY <2>10 DEF u
  <1> QED BY <1>1, <1>2

\* One character.
LEMMA DecodedOne ==
  ASSUME NEW e, NEW x \in Bytes, e # "binary"
  PROVE  Decoded(e, <<x>>) = IF x \notin {"L", "C"} THEN <<x>>
                             ELSE IF e = "latin1" THEN <<"L", "C">> ELSE <<>>
  <1> DEFINE s == <<x>>
  <1>1. s \in Seq(Bytes) /\ Len(s) = 1 /\ s[1] = x
    OBVIOUS
  <1> HIDE DEF s
  <1>2. PICK f : IsDecoding(e, s, f) /\ Decoded(e, s) = f[Len(s)]
    BY <1>1, Decoding
  <1> DEFINE w == Form(e, s, 1)
  <1>3. f[1] = <<>> \o w /\ w \in Seq(Bytes)
    <2>1. 1 \in 1..Len(s) /\ 1 - 1 = 0
      BY <1>1
    <2>2. f[1] = f[0] \o w /\ f[0] = <<>>
      BY <1>2, <2>1 DEF IsDecoding
    <2>3. w \in Seq(Bytes)
      BY <1>1, <2>1, FormType
    <2> QED BY <2>2, <2>3
  <1>4. w = IF x \notin {"L", "C"} THEN <<x>> ELSE IF e = "latin1" THEN <<"L", "C">> ELSE <<>>
    BY <1>1 DEF Form
  <1>5. f[1] = w
    <2> HIDE DEF w
    <2> QED BY <1>3
  <1>6. Decoded(e, s) = f[1]
    BY <1>1, <1>2
  <1> QED BY <1>4, <1>5, <1>6 DEF s

\* A character of two bytes.
LEMMA DecodedPair ==
  ASSUME NEW e, e \notin {"binary", "latin1"}
  PROVE  Decoded(e, <<"L", "C">>) = <<"L", "C">>
  <1> DEFINE s == <<"L", "C">>
  <1>1. s \in Seq(Bytes) /\ Len(s) = 2 /\ s[1] = "L" /\ s[2] = "C"
    BY DEF Bytes
  <1> HIDE DEF s
  <1>2. PICK f : IsDecoding(e, s, f) /\ Decoded(e, s) = f[Len(s)]
    BY <1>1, Decoding
  <1>3. Form(e, s, 1) = <<"L">> /\ Form(e, s, 2) = <<"C">>
    BY <1>1 DEF Form
  <1>4. f[0] = <<>> /\ f[1] = f[0] \o <<"L">> /\ f[2] = f[1] \o <<"C">>
    <2>1. 1 \in 1..Len(s) /\ 2 \in 1..Len(s) /\ 1 - 1 = 0 /\ 2 - 1 = 1
      BY <1>1
    <2>2. /\ f[0] = <<>> /\ f[1] = f[1 - 1] \o Form(e, s, 1)
          /\ f[2] = f[2 - 1] \o Form(e, s, 2)
      BY <1>2, <2>1 DEF IsDecoding
    <2> QED BY <1>3, <2>1, <2>2
  <1>5. <<>> \o <<"L">> = <<"L">> /\ <<"L">> \o <<"C">> = <<"L", "C">>
    <2> DEFINE w == <<"L">> \o <<"C">>
    <2>1. <<>> \o <<"L">> = <<"L">>
      OBVIOUS
    <2>2. w \in Seq(Bytes) /\ Len(w) = 2 /\ w[1] = "L" /\ w[2] = "C"
      BY DEF Bytes
    <2> HIDE DEF w
    <2>3. w = <<"L", "C">>
      BY <2>2
    <2> QED BY <2>1, <2>3 DEF w
  <1> QED BY <1>1, <1>2, <1>4, <1>5 DEF s

\* u consists of whole characters.
Whole(u) ==
    \A i \in 1..Len(u) : /\ u[i] = "L" => i < Len(u) /\ u[i + 1] = "C"
                         /\ u[i] = "C" => i > 1 /\ u[i - 1] = "L"

\* What concatenation does.
LEMMA ConcatIs ==
  ASSUME NEW B, NEW s \in Seq(B), NEW t \in Seq(B)
  PROVE  /\ s \o t \in Seq(B) /\ Len(s \o t) = Len(s) + Len(t)
         /\ Len(s) \in Nat /\ Len(t) \in Nat
         /\ \A i \in 1..Len(s) : (s \o t)[i] = s[i]
         /\ \A j \in 1..Len(t) : (s \o t)[Len(s) + j] = t[j]
  OBVIOUS

\* Whole characters after whole characters are whole characters.
LEMMA WholeConcat ==
  ASSUME NEW u \in Seq(Bytes), NEW v \in Seq(Bytes), Whole(u), Whole(v)
  PROVE  Whole(u \o v)
  <1> DEFINE w == u \o v
  <1>1. /\ Len(u) \in Nat /\ Len(v) \in Nat /\ Len(w) = Len(u) + Len(v)
        /\ \A i \in 1..Len(u) : w[i] = u[i]
        /\ \A j \in 1..Len(v) : w[Len(u) + j] = v[j]
    BY ConcatIs
  <1> HIDE DEF w
  <1>2. ASSUME NEW i \in 1..Len(w)
        PROVE  /\ w[i] = "L" => i < Len(w) /\ w[i + 1] = "C"
               /\ w[i] = "C" => i > 1 /\ w[i - 1] = "L"
    <2>1. CASE i <= Len(u)
      <3>1. i \in 1..Len(u) /\ w[i] = u[i]
        BY <2>1, <1>1
      <3>2. u[i] = "L" => i < Len(u) /\ u[i + 1] = "C" /\ i + 1 \in 1..Len(u)
        BY <3>1, <1>1 DEF Whole
      <3>3. u[i] = "C" => i > 1 /\ u[i - 1] = "L" /\ i - 1 \in 1..Len(u)
        BY <3>1, <1>1 DEF Whole
      <3> QED BY <3>1, <3>2, <3>3, <1>1
    <2>2. CASE i > Len(u)
      <3> DEFINE j == i - Len(u)
      <3>1. j \in 1..Len(v) /\ i = Len(u) + j
        BY <2>2, <1>1
      <3> HIDE DEF j
      <3>2. w[i] = v[j]
        BY <3>1, <1>1
      <3>3. v[j] = "L" => j + 1 \in 1..Len(v) /\ v[j + 1] = "C"
        BY <3>1, <1>1 DEF Whole
      <3>4. v[j] = "C" => j - 1 \in 1..Len(v) /\ v[j - 1] = "L"
        BY <3>1, <1>1 DEF Whole
      <3>5. Len(u) + (j + 1) = i + 1 /\ Len(u) + (j - 1) = i - 1
        BY <3>1, <1>1
      <3>6. ASSUME w[i] = "L" PROVE i < Len(w) /\ w[i + 1] = "C"
        <4>1. j + 1 \in 1..Len(v) /\ v[j + 1] = "C"
          BY <3>2, <3>3, <3>6
        <4>2. w[Len(u) + (j + 1)] = "C"
          BY <4>1, <1>1
        <4> QED BY <4>1, <4>2, <3>1, <3>5, <1>1
      <3>7. ASSUME w[i] = "C" PROVE i > 1 /\ w[i - 1] = "L"
        <4>1. j - 1 \in 1..Len(v) /\ v[j - 1] = "L"
          BY <3>2, <3>4, <3>7
        <4>2. w[Len(u) + (j - 1)] = "L"
          BY <4>1, <1>1
        <4> QED BY <4>1, <4>2, <3>1, <3>5, <1>1
      <3> QED BY <3>6, <3>7
    <2> QED BY <2>1, <2>2, <1>1
  <1> QED BY <1>2 DEF Whole, w

\* Drop() and what it drops.
LEMMA DropIs ==
  ASSUME NEW B, NEW u \in Seq(B), NEW k \in 0..Len(u)
  PROVE  /\ Drop(u, k) \in Seq(B) /\ Len(Drop(u, k)) = Len(u) - k
         /\ \A i \in 1..(Len(u) - k) : Drop(u, k)[i] = u[k + i]
         /\ SubSeq(u, 1, k) \in Seq(B) /\ Len(SubSeq(u, 1, k)) = k
         /\ \A i \in 1..k : SubSeq(u, 1, k)[i] = u[i]
         /\ SubSeq(u, 1, k) \o Drop(u, k) = u
  <1>1. Len(u) \in Nat /\ \A i \in 1..Len(u) : u[i] \in B
    OBVIOUS
  <1> DEFINE d == SubSeq(u, k + 1, Len(u))
             p == SubSeq(u, 1, k)
  <1>2. d \in Seq(B) /\ Len(d) = Len(u) - k /\ \A i \in 1..(Len(u) - k) : d[i] = u[k + i]
    <2>1. k + 1 \in Int /\ Len(u) \in Int /\ \A i \in (k + 1)..Len(u) : u[i] \in B
      BY <1>1
    <2>2. /\ d \in Seq(B) /\ Len(d) = (IF k + 1 <= Len(u) THEN Len(u) - (k + 1) + 1 ELSE 0)
          /\ \A i \in 1..(Len(u) - (k + 1) + 1) : d[i] = u[(k + 1) + i - 1]
      BY <2>1, SubSeqProperties
    <2> HIDE DEF d
    <2>3. Len(d) = Len(u) - k
      BY <1>1, <2>2
    <2>4. ASSUME NEW i \in 1..(Len(u) - k) PROVE d[i] = u[k + i]
      <3>1. i \in 1..(Len(u) - (k + 1) + 1) /\ (k + 1) + i - 1 = k + i
        BY <1>1
      <3> QED BY <2>2, <3>1
    <2> QED BY <2>2, <2>3, <2>4
  <1>3. p \in Seq(B) /\ Len(p) = k /\ \A i \in 1..k : p[i] = u[i]
    <2>1. 1 \in Int /\ k \in Int /\ \A i \in 1..k : u[i] \in B
      BY <1>1
    <2>2. /\ p \in Seq(B) /\ Len(p) = (IF 1 <= k THEN k - 1 + 1 ELSE 0)
          /\ \A i \in 1..(k - 1 + 1) : p[i] = u[1 + i - 1]
      BY <2>1, SubSeqProperties
    <2>3. k - 1 + 1 = k /\ \A i \in Int : 1 + i - 1 = i
      OBVIOUS
    <2> HIDE DEF p
    <2> QED BY <1>1, <2>2, <2>3
  <1> HIDE DEF d, p
  <1>4. p \o d = u
    <2>1. /\ p \o d \in Seq(B) /\ Len(p \o d) = k + (Len(u) - k)
          /\ \A i \in 1..k : (p \o d)[i] = p[i]
          /\ \A i \in 1..(Len(u) - k) : (p \o d)[k + i] = d[i]
      BY <1>2, <1>3
    <2>2. Len(p \o d) = Len(u)
      BY <2>1, <1>1
    <2>3. ASSUME NEW i \in 1..Len(u) PROVE (p \o d)[i] = u[i]
      <3>1. CASE i <= k
        BY <3>1, <2>1, <1>3
      <3>2. CASE i > k
        <4>1. i - k \in 1..(Len(u) - k) /\ k + (i - k) = i
          BY <3>2, <1>1
        <4> QED BY <4>1, <2>1, <1>2
      <3>3. k \in Int /\ i \in Int
        BY <1>1
      <3>4. i <= k \/ i > k
        BY <3>3
      <3> QED BY <3>1, <3>2, <3>4
    <2> HIDE DEF d, p
    <2> QED BY <2>1, <2>2, <2>3, SeqEqual
  <1> QED BY <1>2, <1>3, <1>4 DEF Drop, d, p

\* So is what is left if whole characters are taken.
LEMMA WholeDrop ==
  ASSUME NEW u \in Seq(Bytes), NEW k \in 0..Len(u), Whole(u), k = Len(u) \/ u[k + 1] # "C"
  PROVE  Whole(Drop(u, k))
  <1> DEFINE d == Drop(u, k)
  <1>1. Len(u) \in Nat /\ Len(d) = Len(u) - k /\ \A i \in 1..Len(d) : d[i] = u[k + i]
    BY DropIs
  <1> HIDE DEF d
  <1>2. ASSUME NEW i \in 1..Len(d)
        PROVE  /\ d[i] = "L" => i < Len(d) /\ d[i + 1] = "C"
               /\ d[i] = "C" => i > 1 /\ d[i - 1] = "L"
    <2>1. d[i] = u[k + i] /\ k + i \in 1..Len(u) /\ i \in Nat
      BY <1>1
    <2>2. ASSUME d[i] = "L" PROVE i < Len(d) /\ d[i + 1] = "C"
      <3>1. k + i < Len(u) /\ u[(k + i) + 1] = "C"
        BY <2>1, <2>2 DEF Whole
      <3>2. i + 1 \in 1..Len(d) /\ k + (i + 1) = (k + i) + 1
        BY <3>1, <1>1
      <3>3. d[i + 1] = u[k + (i + 1)]
        BY <3>2, <1>1
      <3> QED BY <3>1, <3>2, <3>3
    <2>3. ASSUME d[i] = "C" PROVE i > 1 /\ d[i - 1] = "L"
      <3>1. k + i > 1 /\ u[(k + i) - 1] = "L"
        BY <2>1, <2>3 DEF Whole
      <3>2. i # 1
        BY <2>1, <2>3, <1>1
      <3>3. i > 1 /\ i - 1 \in 1..Len(d) /\ k + (i - 1) = (k + i) - 1
        BY <3>2, <1>1
      <3>4. d[i - 1] = u[k + (i - 1)]
        BY <3>3, <1>1
      <3> QED BY <3>1, <3>3, <3>4
    <2> QED BY <2>2, <2>3
  <1> QED BY <1>2 DEF Whole, d

-----------------------------------------------------------------------------
(***************************************************************************)
(* The conversion.                                                         *)
(***************************************************************************)
\* The loop of to_utf8() has consumed i bytes of s and made o of them.
Made(s, room, last, i, o) ==
    /\ i \in 0..Len(s) /\ o \in Seq(Bytes) /\ Len(o) <= room
    /\ o = Decoded(enc, SubSeq(s, 1, i)) /\ Whole(o)
    /\ Open(enc, SubSeq(s, 1, i)) =>
           (i < Len(s) /\ s[i + 1] # "C") \/ (last /\ i = Len(s))

\* Why it stops.
Stuck(s, room, i, o) ==
    \/ i = Len(s)
    \/ enc # "latin1" /\ i = Len(s) - 1 /\ s[i + 1] = "L"
    \/ Len(o) + 2 > room

\* It has consumed q as well.
LEMMA MadeMore ==
  ASSUME NEW s \in Seq(Bytes), NEW room \in Nat, NEW last, NEW i, NEW o,
         Made(s, room, last, i, o), NEW n \in Nat, i + n <= Len(s),
         NEW q \in Seq(Bytes), q # <<>>,
         SubSeq(s, 1, i + n) = SubSeq(s, 1, i) \o q,
         ~(Open(enc, SubSeq(s, 1, i)) /\ GoesOn(q)),
         Len(o) + Len(Decoded(enc, q)) <= room, Whole(Decoded(enc, q)),
         Open(enc, q) => (i + n < Len(s) /\ s[(i + n) + 1] # "C") \/ (last /\ i + n = Len(s))
  PROVE  Made(s, room, last, i + n, o \o Decoded(enc, q))
  <1> DEFINE p == SubSeq(s, 1, i)
             w == Decoded(enc, q)
  <1>1. i \in 0..Len(s) /\ o \in Seq(Bytes) /\ o = Decoded(enc, p) /\ Whole(o)
    BY DEF Made
  <1>2. p \in Seq(Bytes) /\ w \in Seq(Bytes)
    BY <1>1, DropIs, DecodedType
  <1>3. p \o q \in Seq(Bytes) /\ Decoded(enc, p \o q) = o \o w
    <2> HIDE DEF p, w
    <2>1. ~(Open(enc, p) /\ GoesOn(q))
      BY DEF p
    <2> QED BY <1>1, <1>2, <2>1, ConcatIs, DecodedConcat DEF w
  <1>4. Open(enc, p \o q) => Open(enc, q)
    <2> HIDE DEF p
    <2>1. Len(p) \in Nat /\ Len(q) \in Nat /\ Len(q) # 0 /\ Len(p \o q) = Len(p) + Len(q)
      BY <1>2, ConcatIs
    <2>2. Len(q) \in 1..Len(q)
      BY <2>1
    <2>3. (p \o q)[Len(p) + Len(q)] = q[Len(q)]
      BY <1>2, <2>2, ConcatIs
    <2> QED BY <2>1, <2>3 DEF Open
  <1>5. o \o w \in Seq(Bytes) /\ Len(o \o w) = Len(o) + Len(w) /\ Whole(o \o w)
    <2> HIDE DEF w
    <2>1. Whole(w)
      BY DEF w
    <2> QED BY <1>1, <1>2, <2>1, ConcatIs, WholeConcat
  <1>6. Len(o \o w) <= room
    <2>1. Len(o) + Len(w) <= room
      OBVIOUS
    <2> HIDE DEF w
    <2> QED BY <1>5, <2>1
  <1>7. i + n \in 0..Len(s)
    BY <1>1
  <1>8. SubSeq(s, 1, i + n) = p \o q
    OBVIOUS
  <1> HIDE DEF p, w
  <1>9. Made(s, room, last, i + n, o \o w)
    BY <1>3, <1>4, <1>5, <1>6, <1>7, <1>8 DEF Made
  <1> QED BY <1>9 DEF w

\* The next byte, and the next two.
LEMMA NextBytes ==
  ASSUME NEW s \in Seq(Bytes), NEW i \in 0..(Len(s) - 1)
  PROVE  /\ SubSeq(s, 1, i + 1) = SubSeq(s, 1, i) \o <<s[i + 1]>>
         /\ i + 1 < Len(s) /\ s[i + 1] = "L" /\ s[i + 2] = "C" =>
                SubSeq(s, 1, i + 2) = SubSeq(s, 1, i) \o <<"L", "C">>
  <1>0. Len(s) \in Nat
    OBVIOUS
  <1>1. ASSUME NEW k \in 1..Len(s) PROVE SubSeq(s, 1, k) = SubSeq(s, 1, k - 1) \o <<s[k]>>
    <2>1. 1 \in 1..Len(s) /\ k \in 1..Len(s)
      BY <1>0
    <2> QED BY <2>1, SubSeqRecursiveSecond
  <1>2. i + 1 \in 1..Len(s) /\ (i + 1) - 1 = i
    BY <1>0
  <1>3. SubSeq(s, 1, i + 1) = SubSeq(s, 1, i) \o <<s[i + 1]>>
    BY <1>1, <1>2
  <1>4. ASSUME i + 1 < Len(s), s[i + 1] = "L", s[i + 2] = "C"
        PROVE  SubSeq(s, 1, i + 2) = SubSeq(s, 1, i) \o <<"L", "C">>
    <2> DEFINE p == SubSeq(s, 1, i)
    <2>1. p \in Seq(Bytes)
      BY <1>0, DropIs
    <2>2. i + 2 \in 1..Len(s) /\ (i + 2) - 1 = i + 1
      BY <1>0, <1>4
    <2>3. SubSeq(s, 1, i + 2) = SubSeq(s, 1, i + 1) \o <<"C">>
      BY <1>1, <1>4, <2>2
    <2>4. SubSeq(s, 1, i + 2) = (p \o <<"L">>) \o <<"C">>
      BY <1>3, <1>4, <2>3
    <2> HIDE DEF p
    <2>5. <<"L">> \in Seq(Bytes) /\ <<"C">> \in Seq(Bytes)
      BY DEF Bytes
    <2>6. (p \o <<"L">>) \o <<"C">> = p \o (<<"L">> \o <<"C">>)
      BY <2>1, <2>5, Brackets
    <2>7. <<"L">> \o <<"C">> = <<"L", "C">>
      <3> DEFINE w == <<"L">> \o <<"C">>
      <3>1. w \in Seq(Bytes) /\ Len(w) = 2 /\ w[1] = "L" /\ w[2] = "C"
        BY DEF Bytes
      <3> HIDE DEF w
      <3>2. w = <<"L", "C">>
        BY <3>1
      <3> QED BY <3>2 DEF w
    <2> QED BY <2>4, <2>6, <2>7 DEF p
  <1> QED BY <1>3, <1>4

\* The characters are whole.
LEMMA WholeOnes ==
  /\ Whole(<<>>) /\ Whole(<<"L", "C">>)
  /\ \A x \in {"a", "n", "r"} : Whole(<<x>>)
  <1>1. Whole(<<>>)
    BY DEF Whole
  <1>2. ASSUME NEW x \in {"a", "n", "r"} PROVE Whole(<<x>>)
    <2> DEFINE s == <<x>>
    <2>1. Len(s) = 1 /\ s[1] = x
      OBVIOUS
    <2> HIDE DEF s
    <2>2. Whole(s)
      BY <2>1 DEF Whole
    <2> QED BY <2>2 DEF s
  <1>3. Whole(<<"L", "C">>)
    <2> DEFINE s == <<"L", "C">>
    <2>1. Len(s) = 2 /\ s[1] = "L" /\ s[2] = "C"
      OBVIOUS
    <2> HIDE DEF s
    <2>2. Whole(s)
      BY <2>1 DEF Whole
    <2> QED BY <2>2 DEF s
  <1> QED BY <1>1, <1>2, <1>3

\* What one step of the loop makes of what was made before.
Steps(s, room, last, i, o, y) ==
    /\ y = [in |-> y.in, out |-> y.out, stop |-> y.stop] /\ y.stop \in BOOLEAN
    /\ Made(s, room, last, y.in, y.out)
    /\ y.stop => Stuck(s, room, y.in, y.out)
    /\ ~y.stop => y.in > i

\* One step of the loop.
LEMMA ConvertNext ==
  ASSUME Text, NEW s \in Seq(Bytes), NEW room \in Nat, NEW last \in BOOLEAN,
         NEW i \in 0..(Len(s) - 1), NEW o, Made(s, room, last, i, o)
  PROVE  Steps(s, room, last, i, o,
               ConvertStep([in |-> i, out |-> o, stop |-> FALSE], CharAt(s, i + 1),
                           Len(s), room, last))
  <1> DEFINE x == [in |-> i, out |-> o, stop |-> FALSE]
             b == s[i + 1]
             ch == CharAt(s, i + 1)
             y == ConvertStep(x, ch, Len(s), room, last)
             p == SubSeq(s, 1, i)
  <1>0. /\ Len(s) \in Nat /\ i \in Nat /\ i + 1 \in 1..Len(s) /\ b \in Bytes
        /\ o \in Seq(Bytes) /\ Len(o) \in Nat
    BY DEF Made
  <1>1. enc # "binary" /\ (Open(enc, p) => b # "C")
    BY <1>0 DEF Text, Made
  <1>2. /\ SubSeq(s, 1, i + 1) = p \o <<b>>
        /\ i + 1 < Len(s) /\ b = "L" /\ s[i + 2] = "C" => SubSeq(s, 1, i + 2) = p \o <<"L", "C">>
    BY NextBytes
  <1>3. <<b>> \in Seq(Bytes) /\ <<b>> # <<>> /\ Len(<<b>>) = 1 /\ <<b>>[1] = b
    BY <1>0
  <1>4. ~(Open(enc, p) /\ GoesOn(<<b>>)) /\ (Open(enc, <<b>>) => enc # "latin1" /\ b = "L")
    BY <1>1, <1>3 DEF GoesOn, Open
  <1> DEFINE w == Decoded(enc, <<b>>)
  <1>5. /\ w = IF b \notin {"L", "C"} THEN <<b>> ELSE IF enc = "latin1" THEN <<"L", "C">> ELSE <<>>
        /\ Whole(w) /\ Len(w) <= 2 /\ Len(w) \in Nat
    <2>1. w = IF b \notin {"L", "C"} THEN <<b>> ELSE IF enc = "latin1" THEN <<"L", "C">> ELSE <<>>
      BY <1>0, <1>1, DecodedOne
    <2>2. Whole(w)
      <3>1. b \notin {"L", "C"} => b \in {"a", "n", "r"}
        BY <1>0 DEF Bytes
      <3> HIDE DEF w, b
      <3> QED BY <2>1, <3>1, WholeOnes
    <2>3. Len(<<"L", "C">>) = 2 /\ Len(<<>>) = 0
      OBVIOUS
    <2> HIDE DEF w, b
    <2> QED BY <1>3, <2>1, <2>2, <2>3
  <1>6. ASSUME Len(o) + Len(w) <= room,
               enc # "latin1" /\ b = "L" =>
                  (i + 1 < Len(s) /\ s[(i + 1) + 1] # "C") \/ (last /\ i + 1 = Len(s))
        PROVE  Made(s, room, last, i + 1, o \o w)
    <2> DEFINE q == <<b>>
    <2>0. i + 1 <= Len(s) /\ 1 \in Nat
      BY <1>0
    <2>1. /\ q \in Seq(Bytes) /\ q # <<>> /\ SubSeq(s, 1, i + 1) = p \o q
          /\ ~(Open(enc, p) /\ GoesOn(q)) /\ Whole(Decoded(enc, q))
          /\ Len(o) + Len(Decoded(enc, q)) <= room
          /\ Open(enc, q) =>
                (i + 1 < Len(s) /\ s[(i + 1) + 1] # "C") \/ (last /\ i + 1 = Len(s))
      BY <1>2, <1>3, <1>4, <1>5, <1>6
    <2> HIDE DEF q, b
    <2>2. Made(s, room, last, i + 1, o \o Decoded(enc, q))
      BY <2>0, <2>1, MadeMore
    <2> QED BY <2>2 DEF q
  <1>7. Made(s, room, last, i, o)
    OBVIOUS
  <1>8. o \o <<>> = o
    BY <1>0
  <1> USE DEF Steps
  <1>9. CASE b \in {"a", "n", "r"} \/ (enc = "latin1" /\ b \in {"L", "C"})
    <2>1. ch = [err |-> "ok", n |-> 1, out |-> w]
      <3> HIDE DEF w
      <3>1. CASE b \in {"a", "n", "r"}
        <4>1. ch = [err |-> "ok", n |-> 1, out |-> <<b>>]
          BY <3>1 DEF CharAt
        <4> HIDE DEF b, ch
        <4> QED BY <3>1, <4>1, <1>5
      <3>2. CASE enc = "latin1" /\ b \in {"L", "C"}
        <4>1. ch = [err |-> "ok", n |-> 1, out |-> <<"L", "C">>]
          BY <3>2 DEF CharAt
        <4> HIDE DEF b, ch
        <4> QED BY <3>2, <4>1, <1>5
      <3> QED BY <1>9, <3>1, <3>2
    <2> HIDE DEF w, ch
    <2>2. CASE Len(o) + Len(w) > room
      <3>1. y = [in |-> i, out |-> o, stop |-> TRUE]
        BY <2>1, <2>2 DEF ConvertStep
      <3>2. Stuck(s, room, i, o)
        BY <1>0, <1>5, <2>2 DEF Stuck
      <3> HIDE DEF y
      <3>3. Steps(s, room, last, i, o, y)
        BY <1>7, <3>1, <3>2
      <3> QED BY <3>3 DEF y, ch
    <2>3. CASE Len(o) + Len(w) <= room
      <3>1. y = [in |-> i + 1, out |-> o \o w, stop |-> FALSE]
        <4>1. ~(Len(o) + Len(w) > room)
          BY <1>0, <1>5, <2>3
        <4>2. ch.err = "ok" /\ ch.n = 1 /\ ch.out = w
          BY <2>1
        <4>3. y = [x EXCEPT !.in = @ + ch.n, !.out = @ \o ch.out]
          BY <4>1, <4>2 DEF ConvertStep
        <4> QED BY <4>2, <4>3
      <3>2. Made(s, room, last, i + 1, o \o w)
        BY <1>6, <1>9, <2>3
      <3> HIDE DEF y
      <3>3. Steps(s, room, last, i, o, y)
        BY <1>0, <3>1, <3>2
      <3> QED BY <3>3 DEF y, ch
    <2> QED BY <1>0, <1>5, <2>2, <2>3
  <1>10. CASE enc # "latin1" /\ b = "L" /\ i + 1 = Len(s)
    <2>1. ch = [err |-> "EINVAL", n |-> 0, out |-> <<>>]
      BY <1>10 DEF CharAt
    <2>2. w = <<>> /\ Len(w) = 0
      BY <1>5, <1>10
    <2> HIDE DEF w, ch
    <2>3. CASE last
      <3>1. y = [in |-> Len(s), out |-> o, stop |-> TRUE]
        BY <2>1, <2>3 DEF ConvertStep
      <3>2. Made(s, room, last, i + 1, o \o w)
        <4>1. Len(o) + Len(w) <= room
          BY <1>0, <2>2 DEF Made
        <4> QED BY <1>6, <1>10, <2>3, <4>1
      <3>3. Made(s, room, last, Len(s), o)
        BY <1>8, <1>10, <2>2, <3>2
      <3> HIDE DEF y
      <3>4. Steps(s, room, last, i, o, y)
        BY <3>1, <3>3 DEF Stuck
      <3> QED BY <3>4 DEF y, ch
    <2>4. CASE ~last
      <3>1. y = [in |-> i, out |-> o, stop |-> TRUE]
        BY <2>1, <2>4 DEF ConvertStep
      <3>2. Stuck(s, room, i, o)
        BY <1>0, <1>10 DEF Stuck
      <3> HIDE DEF y
      <3>3. Steps(s, room, last, i, o, y)
        BY <1>7, <3>1, <3>2
      <3> QED BY <3>3 DEF y, ch
    <2> QED BY <2>3, <2>4
  <1>11. CASE enc # "latin1" /\ b = "L" /\ i + 1 < Len(s) /\ s[i + 2] = "C"
    <2> DEFINE q == <<"L", "C">>
    <2>0. (i + 1) + 1 = i + 2
      BY <1>0
    <2>1. ch = [err |-> "ok", n |-> 2, out |-> q]
      BY <1>11, <2>0 DEF CharAt
    <2>2. /\ q \in Seq(Bytes) /\ q # <<>> /\ Len(q) = 2 /\ q[1] = "L" /\ q[2] = "C"
          /\ Whole(q) /\ Decoded(enc, q) = q
      BY <1>1, <1>11, WholeOnes, DecodedPair DEF Bytes
    <2>3. SubSeq(s, 1, i + 2) = p \o q /\ i + 2 <= Len(s)
      BY <1>0, <1>2, <1>11
    <2> HIDE DEF w, ch, q
    <2>4. CASE Len(o) + Len(q) > room
      <3>1. y = [in |-> i, out |-> o, stop |-> TRUE]
        BY <2>1, <2>4 DEF ConvertStep
      <3>2. Stuck(s, room, i, o)
        BY <1>0, <2>2, <2>4 DEF Stuck
      <3> HIDE DEF y
      <3>3. Steps(s, room, last, i, o, y)
        BY <1>7, <3>1, <3>2
      <3> QED BY <3>3 DEF y, ch
    <2>5. CASE Len(o) + Len(q) <= room
      <3>1. y = [in |-> i + 2, out |-> o \o q, stop |-> FALSE]
        <4>1. ~(Len(o) + Len(q) > room)
          BY <1>0, <2>2, <2>5
        <4>2. ch.err = "ok" /\ ch.n = 2 /\ ch.out = q
          BY <2>1
        <4>3. y = [x EXCEPT !.in = @ + ch.n, !.out = @ \o ch.out]
          BY <4>1, <4>2 DEF ConvertStep
        <4> QED BY <4>2, <4>3
      <3>2. ~GoesOn(q) /\ ~Open(enc, q)
        BY <2>2 DEF GoesOn, Open
      <3>3. Made(s, room, last, i + 2, o \o Decoded(enc, q))
        <4> HIDE DEF b, y
        <4> QED BY <2>2, <2>3, <2>5, <3>2, MadeMore
      <3> HIDE DEF y
      <3>4. Steps(s, room, last, i, o, y)
        BY <1>0, <2>2, <3>1, <3>3
      <3> QED BY <3>4 DEF y, ch
    <2> QED BY <1>0, <2>2, <2>4, <2>5
  <1>12. CASE enc # "latin1" /\ (b = "C" \/ (b = "L" /\ i + 1 < Len(s) /\ s[i + 2] # "C"))
    <2>0. (i + 1) + 1 = i + 2
      BY <1>0
    <2>1. ch = [err |-> "EILSEQ", n |-> 0, out |-> <<>>]
      BY <1>0, <1>12, <2>0 DEF CharAt
    <2>2. w = <<>> /\ Len(w) = 0
      BY <1>5, <1>12
    <2> HIDE DEF w, ch
    <2>3. y = [in |-> i + 1, out |-> o, stop |-> FALSE]
      BY <2>1 DEF ConvertStep
    <2>4. Made(s, room, last, i + 1, o \o w)
      <3>1. Len(o) + Len(w) <= room
        BY <1>0, <2>2 DEF Made
      <3> QED BY <1>6, <1>12, <2>0, <3>1
    <2>5. Made(s, room, last, i + 1, o)
      BY <1>8, <2>2, <2>4
    <2> HIDE DEF y
    <2>6. Steps(s, room, last, i, o, y)
      BY <1>0, <2>3, <2>5
    <2> QED BY <2>6 DEF y, ch
  <1> QED
    <2>1. b \in {"a", "n", "r", "L", "C"} /\ (i + 1 = Len(s) \/ i + 1 < Len(s))
      BY <1>0 DEF Bytes
    <2> HIDE DEF b, Steps
    <2> QED BY <2>1, <1>9, <1>10, <1>11, <1>12

\* processx__connection_to_utf8 converts as much as it can: what it has consumed
\* means what it has made, no character is cut, and it only stops at the end, before
\* an incomplete character, or when two more bytes might not fit.
LEMMA ConvertedSays ==
  ASSUME Text, NEW s \in Seq(Bytes), NEW room \in Nat, NEW last \in BOOLEAN
  PROVE  LET x == Converted(s, room, last)
         IN  Made(s, room, last, x.in, x.out) /\ Stuck(s, room, x.in, x.out)
  <1> DEFINE L == Len(s)
             Fine(x) == Made(s, room, last, x.in, x.out) /\ (x.stop => Stuck(s, room, x.in, x.out))
             X == {x \in [in : 0..L, out : Seq(Bytes), stop : BOOLEAN] : Fine(x)}
             x0 == [in |-> 0, out |-> <<>>, stop |-> FALSE]
             Move(x) == IF x.stop \/ x.in = Len(s) THEN x
                        ELSE ConvertStep(x, CharAt(s, x.in + 1), Len(s), room, last)
             Step == [p \in (1..L) \X X |-> Move(p[2])]
             Def(g) == [k \in 0..L |-> IF k = 0 THEN x0 ELSE Once(Move, g[k - 1])]
  <1>0. L \in Nat
    OBVIOUS
  <1>1. x0 \in X
    <2>1. SubSeq(s, 1, 0) = <<>>
      BY SubSeqEmpty
    <2>2. Decoded(enc, <<>>) = <<>> /\ Whole(<<>>) /\ ~Open(enc, <<>>)
      BY DecodedEmpty, WholeOnes DEF Open
    <2>3. x0 \in [in : 0..L, out : Seq(Bytes), stop : BOOLEAN] /\ Len(<<>>) = 0
      BY <1>0
    <2>4. Made(s, room, last, 0, <<>>)
      <3> DEFINE o == <<>>
      <3>1. o \in Seq(Bytes) /\ Len(o) = 0 /\ 0 \in 0..L /\ Len(o) <= room
        BY <1>0, <2>3
      <3>2. SubSeq(s, 1, 0) = o /\ Decoded(enc, o) = o /\ Whole(o) /\ ~Open(enc, o)
        BY <2>1, <2>2
      <3> HIDE DEF o
      <3>3. Made(s, room, last, 0, o)
        BY <3>1, <3>2 DEF Made
      <3> QED BY <3>3 DEF o
    <2>5. Fine(x0)
      BY <2>4
    <2> QED BY <2>3, <2>5
  <1>2. ASSUME NEW x \in X PROVE Move(x) \in X /\ (Move(x).stop \/ Move(x).in = L \/ Move(x).in > x.in)
    <2>0. x \in [in : 0..L, out : Seq(Bytes), stop : BOOLEAN] /\ Fine(x)
      OBVIOUS
    <2>1. CASE x.stop \/ x.in = Len(s)
      <3>1. Move(x) = x
        BY <2>1
      <3> HIDE DEF Move, X
      <3> QED BY <2>1, <3>1
    <2>2. CASE ~(x.stop \/ x.in = Len(s))
      <3> DEFINE i == x.in
                 o == x.out
                 z == [in |-> i, out |-> o, stop |-> FALSE]
                 y == ConvertStep(z, CharAt(s, i + 1), Len(s), room, last)
      <3>1. x = z
        BY <2>0, <2>2
      <3>2. Move(x) = y
        BY <2>2, <3>1
      <3>3. i \in 0..(Len(s) - 1) /\ Made(s, room, last, i, o)
        BY <1>0, <2>0, <2>2
      <3>4. Steps(s, room, last, i, o, y)
        <4> HIDE DEF i, o
        <4> QED BY <3>3, ConvertNext
      <3> HIDE DEF y, i, o, Move
      <3>5. y \in [in : 0..L, out : Seq(Bytes), stop : BOOLEAN]
        BY <3>4 DEF Steps, Made
      <3>6. Fine(y) /\ (y.stop \/ y.in > i)
        BY <3>4 DEF Steps
      <3> QED BY <3>2, <3>5, <3>6 DEF i
    <2> QED BY <2>1, <2>2
  <1>3. Step \in [(1..L) \X X -> X]
    <2> HIDE DEF Move, X, L
    <2> QED BY <1>2
  <1>4. \A v : Once(Move, v) = Move(v)
    BY DEF Once
  <1>5. \E f : f = Def(f)
    <2>1. PICK f : Follows(f, L, X, x0, Step)
      <3> HIDE DEF L, X, x0, Step
      <3> QED BY <1>0, <1>1, <1>3, Recursion
    <2>2. ASSUME NEW k \in 1..L PROVE f[k] = Move(f[k - 1])
      <3>0. k - 1 \in 0..L
        BY <1>0
      <3>1. f[k - 1] \in X
        <4> HIDE DEF L, X
        <4> QED BY <2>1, <3>0 DEF Follows
      <3>2. <<k, f[k - 1]>> \in (1..L) \X X
        BY <3>1
      <3>3. f[k] = Step[<<k, f[k - 1]>>]
        BY <2>1 DEF Follows
      <3> HIDE DEF Move, X, L
      <3> QED BY <3>2, <3>3
    <2>3. f[0] = x0 /\ f = [k \in 0..L |-> f[k]]
      <3> HIDE DEF X, L, Step, x0
      <3> QED BY <2>1 DEF Follows
    <2> HIDE DEF L, X, Step, Move, x0
    <2>4. f = Def(f)
      <3>1. \A k \in 0..L : f[k] = IF k = 0 THEN x0 ELSE Once(Move, f[k - 1])
        BY <1>0, <1>4, <2>2, <2>3
      <3> QED BY <2>3, <3>1
    <2> QED BY <2>4
  <1> DEFINE u == CHOOSE g : g = Def(g)
  <1>6. u = Def(u)
    <2> HIDE DEF Def
    <2> QED BY <1>5
  <1>7. Converted(s, room, last) = u[L]
    BY DEF Converted
  <1> HIDE DEF u, Move, X, x0
  <1>8. u[0] = x0 /\ \A k \in 1..L : u[k] = Move(u[k - 1])
    <2>1. u[0] = x0
      BY <1>0, <1>6
    <2>2. ASSUME NEW k \in 1..L PROVE u[k] = Move(u[k - 1])
      <3>1. k \in 0..L /\ k # 0
        BY <1>0
      <3>2. u[k] = Once(Move, u[k - 1])
        BY <1>6, <3>1
      <3> QED BY <1>4, <3>2
    <2> QED BY <2>1, <2>2
  <1> DEFINE T == {k \in 0..L : u[k] \in X /\ (u[k].stop \/ u[k].in = L \/ u[k].in >= k)}
  <1>9. \A k \in 0..L : k \in T
    <2>1. 0 \in T
      <3>1. u[0].in = 0
        BY <1>8 DEF x0
      <3> QED BY <1>0, <1>1, <1>8, <3>1
    <2>2. ASSUME NEW k \in 0..(L - 1), k \in T PROVE k + 1 \in T
      <3>1. k + 1 \in 1..L /\ k + 1 \in 0..L /\ (k + 1) - 1 = k
        BY <1>0
      <3> DEFINE v == u[k]
                 m == u[k + 1]
      <3>2. m = Move(v)
        BY <1>8, <3>1
      <3>3. v \in X /\ (v.stop \/ v.in = L \/ v.in >= k)
        BY <2>2
      <3>4. m \in X /\ (m.stop \/ m.in = L \/ m.in > v.in)
        BY <1>2, <3>2, <3>3
      <3>5. v.stop \/ v.in = L => m = v
        BY <3>2 DEF Move
      <3>6. v.in \in Int /\ m.in \in Int
        BY <3>3, <3>4 DEF X
      <3> HIDE DEF v, m, L
      <3>7. m.stop \/ m.in = L \/ m.in >= k + 1
        BY <3>3, <3>4, <3>5, <3>6
      <3> QED BY <3>1, <3>4, <3>7 DEF m
    <2> HIDE DEF T, L
    <2> QED BY <1>0, <2>1, <2>2, UpTo
  <1> DEFINE c == u[L]
  <1>10. c \in X /\ (c.stop \/ c.in = L \/ c.in >= L)
    BY <1>0, <1>9
  <1> HIDE DEF c
  <1>11. Made(s, room, last, c.in, c.out) /\ Stuck(s, room, c.in, c.out)
    <2>1. c.in \in 0..L /\ Fine(c)
      BY <1>10 DEF X
    <2>2. CASE c.stop
      BY <2>1, <2>2
    <2>3. CASE ~c.stop
      BY <1>0, <1>10, <2>1, <2>3 DEF Stuck
    <2> QED BY <2>2, <2>3
  <1> QED BY <1>7, <1>11 DEF c

-----------------------------------------------------------------------------
(***************************************************************************)
(* The buffers.                                                            *)
(***************************************************************************)
\* What the two buffers of connection c may hold.
Buffers(c) ==
    /\ c.is_closed \in BOOLEAN /\ c.allocated \in BOOLEAN
    /\ c.buffer \in Seq(Byte) /\ Len(c.buffer) <= BufferSize
    /\ c.utf8 \in Seq(Bytes) /\ Whole(c.utf8)
    /\ c.utf8_allocated \in Nat /\ Len(c.utf8) <= c.utf8_allocated
    /\ c.allocated => c.utf8_allocated >= BufferSize
    /\ ~c.allocated => c.buffer = <<>> /\ c.utf8 = <<>>

\* If z ends in the middle of a character, then c will not complete it.
Settled(e, z, c) ==
    Open(e, z) => \/ c.buffer # <<>> /\ c.buffer[1] # "C"
                  \/ c.buffer = <<>> /\ c.is_eof_raw

\* The fields that the buffers have nothing to do with.
SameElse(d, c) ==
    /\ Shape(d)
    /\ d.is_closed = c.is_closed /\ d.is_eof_raw = c.is_eof_raw /\ d.is_eof = c.is_eof
    /\ d.raw_mode = c.raw_mode

\* What is written is among the bytes of text.
LEMMA SeqBytes == Seq(Byte) \subseteq Seq(Bytes)
  <1> SUFFICES ASSUME NEW s \in Seq(Byte) PROVE s \in Seq(Bytes)
    OBVIOUS
  <1>1. Len(s) \in Nat /\ s = [i \in 1..Len(s) |-> s[i]] /\ \A i \in 1..Len(s) : s[i] \in Byte
    OBVIOUS
  <1>2. \A i \in 1..Len(s) : s[i] \in Bytes
    BY <1>1, ByteAssumption DEF Bytes
  <1> QED BY <1>1, <1>2

\* What processx__connection_to_utf8 does to the buffers: z leaves the one, and what it
\* means is appended to the other.
ToUtf8Of(d, c, z) ==
    /\ z \in Seq(Byte) /\ c.buffer = z \o d.buffer
    /\ d.utf8 = c.utf8 \o Decoded(enc, z)
    /\ Settled(enc, z, d)
    /\ \/ d.buffer = <<>>
       \/ Decoded(enc, d.buffer) = <<>>
       \/ Len(Decoded(enc, z)) + 2 > c.utf8_allocated - Len(c.utf8)
       \/ c.utf8_allocated = Len(c.utf8)

\* processx__connection_to_utf8 does this, and keeps whole characters whole.
LEMMA ToUtf8Says ==
  ASSUME Text, NEW c, Shape(c), Buffers(c)
  PROVE  LET d == to_utf8(c).con
         IN  /\ SameElse(d, c) /\ Buffers(d)
             /\ \E z : ToUtf8Of(d, c, z)
  <1> DEFINE room == c.utf8_allocated - Len(c.utf8)
             After(x) == [con |-> [c EXCEPT !.buffer = Drop(@, x.in), !.utf8 = @ \o x.out],
                          ret |-> Len(x.out)]
             v == Converted(c.buffer, room, c.is_eof_raw)
             d == to_utf8(c).con
  <1>0. /\ c.buffer \in Seq(Byte) /\ c.buffer \in Seq(Bytes) /\ c.utf8 \in Seq(Bytes)
        /\ Len(c.buffer) \in Nat /\ Len(c.utf8) \in Nat /\ room \in Nat
    BY SeqBytes DEF Buffers
  <1>1. CASE c.buffer = <<>> \/ room = 0
    <2> DEFINE z == <<>>
    <2>1. d = c
      BY <1>1 DEF to_utf8
    <2>2. z \in Seq(Byte) /\ c.buffer = z \o c.buffer
      BY <1>0
    <2>3. Decoded(enc, z) = <<>> /\ c.utf8 = c.utf8 \o <<>> /\ ~Open(enc, z)
      BY <1>0, DecodedEmpty DEF Open
    <2>4. c.buffer = <<>> \/ c.utf8_allocated = Len(c.utf8)
      BY <1>0, <1>1 DEF Buffers
    <2> HIDE DEF z, d
    <2>5. ToUtf8Of(d, c, z)
      BY <2>1, <2>2, <2>3, <2>4 DEF ToUtf8Of, Settled
    <2> QED BY <2>1, <2>5 DEF SameElse, d
  <1>2. CASE ~(c.buffer = <<>> \/ room = 0)
    <2>1. to_utf8(c) = Once(After, v)
      BY <1>2 DEF to_utf8
    <2>2. Once(After, v) = After(v)
      BY DEF Once
    <2>3. Made(c.buffer, room, c.is_eof_raw, v.in, v.out) /\ Stuck(c.buffer, room, v.in, v.out)
      <3>1. c.is_eof_raw \in BOOLEAN
        BY DEF Shape
      <3> HIDE DEF room
      <3> QED BY <1>0, <3>1, ConvertedSays
    <2> HIDE DEF v
    <2> DEFINE n == v.in
               o == v.out
               s == c.buffer
               z == SubSeq(s, 1, n)
               p == Drop(s, n)
               q == c.utf8 \o o
    <2>4. d = [c EXCEPT !.buffer = p, !.utf8 = q]
      <3>1. After(v).con = [c EXCEPT !.buffer = p, !.utf8 = q]
        OBVIOUS
      <3> HIDE DEF After, p, q
      <3> QED BY <2>1, <2>2, <3>1
    <2>5. /\ n \in 0..Len(s) /\ o \in Seq(Bytes) /\ Len(o) <= room /\ o = Decoded(enc, z) /\ Whole(o)
          /\ Open(enc, z) => (n < Len(s) /\ s[n + 1] # "C") \/ (c.is_eof_raw /\ n = Len(s))
      BY <2>3 DEF Made
    <2>6. /\ p \in Seq(Byte) /\ Len(p) = Len(s) - n /\ z \in Seq(Byte) /\ z \o p = s
          /\ \A i \in 1..(Len(s) - n) : p[i] = s[n + i]
      <3>1. s \in Seq(Byte) /\ n \in 0..Len(s)
        BY <1>0, <2>5
      <3> HIDE DEF s, n
      <3> QED BY <3>1, DropIs
    <2>7. q \in Seq(Bytes) /\ Len(q) = Len(c.utf8) + Len(o) /\ Whole(q) /\ Len(o) \in Nat
      <3> HIDE DEF o, q
      <3>1. Whole(c.utf8)
        BY DEF Buffers
      <3> QED BY <1>0, <2>5, <3>1, ConcatIs, WholeConcat DEF q
    <2>8. SameElse(d, c) /\ d.buffer = p /\ d.utf8 = q /\ d.allocated = c.allocated
          /\ d.utf8_allocated = c.utf8_allocated
      <3> HIDE DEF p, q, d
      <3> QED BY <2>4 DEF Shape, SameElse
    <2>9. Len(q) <= c.utf8_allocated
      <3>1. /\ Len(o) <= c.utf8_allocated - Len(c.utf8) /\ c.utf8_allocated \in Nat
            /\ Len(q) = Len(c.utf8) + Len(o) /\ Len(o) \in Nat
        BY <2>5, <2>7 DEF Buffers
      <3> HIDE DEF q, o
      <3> QED BY <1>0, <3>1
    <2>10. Buffers(d)
      <3>1. Len(p) <= BufferSize /\ c.allocated
        <4>1. c.allocated /\ Len(s) <= BufferSize
          BY <1>2 DEF Buffers
        <4>2. Len(p) = Len(s) - n /\ n \in 0..Len(s) /\ Len(s) \in Nat
          BY <1>0, <2>5, <2>6
        <4> HIDE DEF p, s, n
        <4> QED BY <4>1, <4>2, SizeAssumption
      <3> HIDE DEF p, q, d
      <3> QED BY <2>6, <2>7, <2>8, <2>9, <3>1 DEF Buffers, SameElse
    <2>11. Settled(enc, z, d)
      <3>1. n < Len(s) => p # <<>> /\ p[1] = s[n + 1]
        <4>1. ASSUME n < Len(s) PROVE Len(p) # 0 /\ 1 \in 1..(Len(s) - n)
          BY <1>0, <2>5, <2>6, <4>1
        <4> HIDE DEF p
        <4> QED BY <2>6, <4>1
      <3>2. n = Len(s) => p = <<>>
        <4>1. n = Len(s) => Len(p) = 0
          BY <1>0, <2>6
        <4> HIDE DEF p
        <4> QED BY <2>6, <4>1
      <3> HIDE DEF p, z, d, n
      <3> QED BY <2>5, <2>8, <3>1, <3>2 DEF Settled, SameElse
    <2>12. \/ p = <<>> \/ Decoded(enc, p) = <<>> \/ Len(o) + 2 > room
      <3>1. CASE n = Len(s)
        <4>1. Len(p) = 0
          BY <1>0, <2>6, <3>1
        <4> HIDE DEF p
        <4> QED BY <2>6, <4>1
      <3>2. CASE enc # "latin1" /\ n = Len(s) - 1 /\ s[n + 1] = "L"
        <4>1. Len(p) = 1 /\ 1 \in 1..(Len(s) - n)
          BY <1>0, <2>5, <2>6, <3>2
        <4>2. p[1] = "L"
          BY <2>6, <3>2, <4>1
        <4> HIDE DEF p
        <4>3. p = <<"L">>
          <5>1. p \in Seq(Byte) /\ Len(p) = 1
            BY <2>6, <4>1
          <5> QED BY <5>1, <4>2
        <4>4. Decoded(enc, <<"L">>) = <<>>
          BY <3>2, DecodedOne DEF Text, Bytes
        <4> QED BY <4>3, <4>4
      <3>3. CASE Len(o) + 2 > room
        BY <3>3
      <3> QED BY <2>3, <3>1, <3>2, <3>3 DEF Stuck
    <2>13. ToUtf8Of(d, c, z)
      <3> HIDE DEF p, q, z, d, o, room
      <3> QED BY <2>5, <2>6, <2>8, <2>11, <2>12 DEF ToUtf8Of, q, room
    <2> HIDE DEF d, z
    <2> QED BY <2>8, <2>10, <2>13 DEF d
  <1> QED BY <1>1, <1>2

\* From c, with p in the pipe, to d, with q: some bytes z were converted.
Moved(e, c, p, d, q) ==
    \E z \in Seq(Bytes) :
        /\ c.buffer \o p = z \o (d.buffer \o q)
        /\ d.utf8 = c.utf8 \o Decoded(e, z)
        /\ Settled(e, z, d)
        /\ z = <<>> => \E x \in Seq(Bytes) : d.buffer = c.buffer \o x

\* What processx__connection_read does to the buffers and the pipe.
ReadGives(r, c) ==
    /\ Buffers(r.con)
    /\ r.con.is_closed = c.is_closed
    /\ c.is_eof => r.con.is_eof
    /\ c.is_eof_raw => r.con.is_eof_raw
    /\ r.took \in 0..Len(pipe)
    /\ Moved(enc, c, pipe, r.con, Drop(pipe, r.took))

\* Data were appended to the raw buffer.
LEMMA MovedRaw ==
  ASSUME NEW e, NEW c, NEW d, NEW p \in Seq(Bytes), NEW n \in 0..Len(p),
         c.buffer \in Seq(Bytes), c.utf8 \in Seq(Bytes),
         d.buffer = c.buffer \o SubSeq(p, 1, n), d.utf8 = c.utf8
  PROVE  Moved(e, c, p, d, Drop(p, n))
  <1> DEFINE x == SubSeq(p, 1, n)
             q == Drop(p, n)
             z == <<>>
             b == c.buffer
             u == c.utf8
  <1>1. x \in Seq(Bytes) /\ q \in Seq(Bytes) /\ x \o q = p
    BY DropIs
  <1>2. b \in Seq(Bytes) /\ u \in Seq(Bytes) /\ z \in Seq(Bytes)
    OBVIOUS
  <1>3. Decoded(e, z) = z /\ ~Open(e, z)
    BY DecodedEmpty DEF Open
  <1>4. d.buffer = b \o x /\ d.utf8 = u
    OBVIOUS
  <1>5. u \o z = u /\ \A w \in Seq(Bytes) : z \o w = w
    BY <1>2
  <1> HIDE DEF x, q, z, b, u
  <1>6. (b \o x) \o q = b \o (x \o q) /\ (b \o x) \o q \in Seq(Bytes)
    <2>1. b \o x \in Seq(Bytes)
      BY <1>1, <1>2, ConcatIs
    <2>2. (b \o x) \o q = b \o (x \o q)
      <3>1. b \in Seq(Bytes) /\ x \in Seq(Bytes) /\ q \in Seq(Bytes)
        BY <1>1, <1>2
      <3> QED BY <3>1, Brackets
    <2>3. (b \o x) \o q \in Seq(Bytes)
      BY <1>1, <2>1, ConcatIs
    <2> QED BY <2>2, <2>3
  <1>7. b \o p = z \o (d.buffer \o q)
    BY <1>1, <1>4, <1>5, <1>6
  <1>8. d.utf8 = u \o Decoded(e, z)
    BY <1>3, <1>4, <1>5
  <1>9. Settled(e, z, d)
    BY <1>3 DEF Settled
  <1>10. Moved(e, c, p, d, q)
    BY <1>1, <1>2, <1>4, <1>7, <1>8, <1>9 DEF Moved, b, u
  <1> QED BY <1>10 DEF q

\* Then some of it was converted.
LEMMA MovedText ==
  ASSUME NEW c, NEW b, NEW d, NEW z, NEW p \in Seq(Bytes), NEW n \in 0..Len(p),
         c.buffer \in Seq(Bytes), d.buffer \in Seq(Bytes),
         b.buffer = c.buffer \o SubSeq(p, 1, n), b.utf8 = c.utf8,
         ToUtf8Of(d, b, z)
  PROVE  Moved(enc, c, p, d, Drop(p, n))
  <1> DEFINE x == SubSeq(p, 1, n)
             q == Drop(p, n)
             v == c.buffer
             w == d.buffer
  <1>1. x \in Seq(Bytes) /\ q \in Seq(Bytes) /\ x \o q = p
    BY DropIs
  <1>2. v \in Seq(Bytes) /\ w \in Seq(Bytes) /\ z \in Seq(Bytes)
    BY SeqBytes DEF ToUtf8Of
  <1>3. v \o x = z \o w
    BY DEF ToUtf8Of
  <1>4. z = <<>> => w = v \o x
    <2> HIDE DEF x, v, w
    <2> SUFFICES ASSUME z = <<>> PROVE w = v \o x
      OBVIOUS
    <2>1. <<>> \o w = w
      BY <1>2
    <2> QED BY <1>3, <2>1
  <1> HIDE DEF x, q, v, w
  <1>5. (v \o x) \o q = v \o (x \o q) /\ (z \o w) \o q = z \o (w \o q)
    <2>1. v \in Seq(Bytes) /\ x \in Seq(Bytes) /\ q \in Seq(Bytes)
      BY <1>1, <1>2
    <2>2. z \in Seq(Bytes) /\ w \in Seq(Bytes) /\ q \in Seq(Bytes)
      BY <1>1, <1>2
    <2>3. (v \o x) \o q = v \o (x \o q)
      BY <2>1, Brackets
    <2>4. (z \o w) \o q = z \o (w \o q)
      BY <2>2, Brackets
    <2> QED BY <2>3, <2>4
  <1>6. v \o p = z \o (w \o q)
    BY <1>1, <1>3, <1>5
  <1>7. d.utf8 = c.utf8 \o Decoded(enc, z) /\ Settled(enc, z, d)
    BY DEF ToUtf8Of
  <1>8. Moved(enc, c, p, d, q)
    BY <1>1, <1>2, <1>4, <1>6, <1>7 DEF Moved, v, w
  <1> QED BY <1>8 DEF q

\* What read() returns: the first bytes of the pipe, as many as fit.
LEMMA IncomingIs ==
  ASSUME pipe \in Seq(Byte), NEW room \in Nat
  PROVE  \E n \in 0..Len(pipe) : /\ Incoming(room) = SubSeq(pipe, 1, n)
                                 /\ Len(Incoming(room)) = n
                                 /\ n <= room
                                 /\ Incoming(room) \in Seq(Byte)
  <1> DEFINE n == IF pipe = <<>> THEN 0 ELSE Least(room, Len(pipe))
  <1>1. n \in 0..Len(pipe) /\ n <= room
    BY DEF Least
  <1>2. Incoming(room) = SubSeq(pipe, 1, n)
    <2>1. CASE pipe = <<>>
      <3>1. SubSeq(pipe, 1, 0) = <<>>
        BY SubSeqEmpty
      <3> QED BY <2>1, <3>1 DEF Incoming
    <2>2. CASE pipe # <<>>
      BY <2>2 DEF Incoming
    <2> QED BY <2>1, <2>2
  <1> HIDE DEF n
  <1>3. Len(SubSeq(pipe, 1, n)) = n /\ SubSeq(pipe, 1, n) \in Seq(Byte)
    BY <1>1, DropIs
  <1> QED BY <1>1, <1>2, <1>3

\* processx__connection_read loses nothing: what it takes from the pipe is in the buffers,
\* and what it converts from the one is in the other.  It converts nothing if the
\* connection is binary, because read_bytes() only calls it with an empty buffer.
LEMMA ReadBuffers ==
  ASSUME NEW c, Shape(c), Flags(c), Buffers(c), pipe \in Seq(Byte), wopen \in BOOLEAN,
         Text \/ (c.raw_mode /\ c.buffer = <<>>)
  PROVE  ReadGives(connection_read(c), c)
  <1> DEFINE a == alloc(c)
             todo == BufferSize - Len(a.buffer)
             data == Incoming(todo)
             y == a.is_eof \/ (AtEnd /\ Drained(a))
             w == a.is_eof_raw \/ AtEnd
             b == [a EXCEPT !.buffer = @ \o data, !.is_eof_raw = w, !.is_eof = y]
             Result(x) == [con |-> x.con, ret |-> x.ret, took |-> Len(data)]
             r == connection_read(c)
  <1>0. /\ c.buffer \in Seq(Bytes) /\ c.utf8 \in Seq(Bytes) /\ pipe \in Seq(Bytes)
        /\ Len(c.buffer) \in Nat /\ Len(pipe) \in Nat /\ c.buffer \in Seq(Byte)
    BY SeqBytes DEF Buffers
  <1>1. CASE c.is_eof_raw /\ c.buffer = <<>>
    <2> DEFINE f == c.is_eof \/ c.utf8 = <<>>
               d == [c EXCEPT !.is_eof = f]
    <2>1. r = [con |-> d, ret |-> 0, took |-> 0]
      BY <1>1 DEF connection_read
    <2>2. f \in BOOLEAN /\ (c.is_eof => f)
      OBVIOUS
    <2> HIDE DEF f
    <2>3. /\ d.is_eof = f /\ d.is_eof_raw = c.is_eof_raw /\ d.is_closed = c.is_closed
          /\ d.buffer = c.buffer /\ d.utf8 = c.utf8
          /\ d.allocated = c.allocated /\ d.utf8_allocated = c.utf8_allocated
      BY <2>2 DEF Shape
    <2> HIDE DEF d
    <2>4. Buffers(d)
      BY <2>3 DEF Buffers
    <2>5. 0 \in 0..Len(pipe) /\ SubSeq(pipe, 1, 0) = <<>> /\ c.buffer \o <<>> = c.buffer
      BY <1>0, SubSeqEmpty
    <2>6. d.buffer = c.buffer \o SubSeq(pipe, 1, 0)
      BY <2>3, <2>5
    <2>7. Moved(enc, c, pipe, d, Drop(pipe, 0))
      BY <1>0, <2>3, <2>5, <2>6, MovedRaw
    <2> HIDE DEF r
    <2>8. ReadGives(r, c)
      BY <2>1, <2>2, <2>3, <2>4, <2>5, <2>7 DEF ReadGives
    <2> QED BY <2>8 DEF r
  <1>2. CASE ~(c.is_eof_raw /\ c.buffer = <<>>)
    <2>1. /\ Shape(a) /\ a.buffer = c.buffer /\ a.utf8 = c.utf8
          /\ a.is_eof = c.is_eof /\ a.is_eof_raw = c.is_eof_raw /\ a.raw_mode = c.raw_mode
          /\ a.is_closed = c.is_closed
      BY DEF alloc, Shape
    <2>2. Buffers(a) /\ a.allocated
      <3>1. CASE c.allocated
        BY <3>1 DEF alloc
      <3>2. CASE ~c.allocated
        <4>1. a.allocated = TRUE /\ a.utf8_allocated = BufferSize
          BY <3>2 DEF alloc, Shape
        <4>2. c.buffer = <<>> /\ c.utf8 = <<>> /\ Len(c.buffer) = 0 /\ Len(c.utf8) = 0
          BY <3>2 DEF Buffers
        <4> HIDE DEF a
        <4>3. /\ Len(a.buffer) <= BufferSize /\ a.utf8_allocated \in Nat
              /\ Len(a.utf8) <= a.utf8_allocated /\ a.utf8_allocated >= BufferSize
          BY <2>1, <4>1, <4>2, SizeAssumption
        <4>4. a.is_closed \in BOOLEAN /\ a.buffer \in Seq(Byte) /\ a.utf8 \in Seq(Bytes) /\ Whole(a.utf8)
          BY <2>1 DEF Buffers
        <4> QED BY <4>1, <4>3, <4>4 DEF Buffers
      <3> QED BY <3>1, <3>2 DEF Buffers
    <2> HIDE DEF a
    <2>3. todo \in Nat /\ (c.raw_mode /\ c.buffer = <<>> => todo # 0)
      BY <1>0, <2>1, <2>2, SizeAssumption DEF Buffers
    <2>4. PICK n \in 0..Len(pipe) : /\ data = SubSeq(pipe, 1, n) /\ Len(data) = n /\ n <= todo
                                    /\ data \in Seq(Byte)
      <3> HIDE DEF todo
      <3> QED BY <2>3, IncomingIs
    <2>5. todo = 0 => n = 0 /\ data = <<>>
      <3>1. todo = 0 => n = 0
        BY <2>4
      <3> HIDE DEF data
      <3> QED BY <2>4, <3>1
    <2>6. y \in BOOLEAN /\ w \in BOOLEAN /\ (c.is_eof => y) /\ (c.is_eof_raw => w)
      BY <2>1 DEF Shape
    <2>7. Len(a.buffer \o data) <= BufferSize /\ a.buffer \o data \in Seq(Byte)
      <3>1. Len(data) <= BufferSize - Len(a.buffer)
        BY <2>4
      <3> HIDE DEF data
      <3>2. Len(a.buffer \o data) = Len(a.buffer) + Len(data) /\ a.buffer \o data \in Seq(Byte)
        BY <1>0, <2>1, <2>4, ConcatIs
      <3>3. Len(a.buffer) \in Nat /\ Len(data) \in Nat
        BY <1>0, <2>1, <2>4
      <3>4. Len(a.buffer \o data) <= BufferSize
        BY <3>1, <3>2, <3>3, SizeAssumption
      <3> QED BY <3>2, <3>4
    <2> HIDE DEF data, y, w
    <2>8. /\ b.is_eof = y /\ b.is_eof_raw = w /\ b.raw_mode = a.raw_mode
          /\ b.buffer = a.buffer \o data /\ b.utf8 = a.utf8 /\ b.is_closed = a.is_closed
          /\ b.allocated = a.allocated /\ b.utf8_allocated = a.utf8_allocated
          /\ Shape(b)
      BY <2>1, <2>6 DEF Shape
    <2> HIDE DEF b
    <2>9. Buffers(b)
      BY <2>2, <2>7, <2>8 DEF Buffers
    <2>10. CASE todo = 0
      <3>1. r = Once(Result, to_utf8(a))
        BY <1>2, <2>10 DEF connection_read, a, data
      <3>2. Once(Result, to_utf8(a)) = Result(to_utf8(a))
        BY DEF Once
      <3> DEFINE d == to_utf8(a).con
      <3>3. r.con = d /\ r.took = n
        <4>1. r = Result(to_utf8(a))
          <5> HIDE DEF Result, r
          <5> QED BY <3>1, <3>2
        <4> HIDE DEF r
        <4> QED BY <2>4, <4>1
      <3>4. Text
        BY <2>3, <2>10
      <3>5. PICK z : SameElse(d, a) /\ Buffers(d) /\ ToUtf8Of(d, a, z)
        BY <2>1, <2>2, <3>4, ToUtf8Says
      <3> HIDE DEF r, d
      <3>6. a.buffer = c.buffer \o SubSeq(pipe, 1, n)
        <4>1. c.buffer \o <<>> = c.buffer
          BY <1>0
        <4> QED BY <2>1, <2>4, <2>5, <2>10, <4>1
      <3>7. d.buffer \in Seq(Bytes)
        BY <3>5, SeqBytes DEF Buffers
      <3>8. Moved(enc, c, pipe, d, Drop(pipe, n))
        BY <1>0, <2>1, <2>4, <3>5, <3>6, <3>7, MovedText
      <3>9. ReadGives(r, c)
        BY <2>1, <2>4, <3>3, <3>5, <3>8 DEF ReadGives, SameElse
      <3> QED BY <3>9 DEF r
    <2>11. CASE todo # 0 /\ ~b.raw_mode /\ b.buffer # <<>>
      <3>1. r = Once(Result, to_utf8(b))
        BY <1>2, <2>11 DEF connection_read, a, data, y, w, b
      <3>2. Once(Result, to_utf8(b)) = Result(to_utf8(b))
        BY DEF Once
      <3> DEFINE d == to_utf8(b).con
      <3>3. r.con = d /\ r.took = n
        <4>1. r = Result(to_utf8(b))
          <5> HIDE DEF Result, r
          <5> QED BY <3>1, <3>2
        <4> HIDE DEF r
        <4> QED BY <2>4, <4>1
      <3>4. Text
        BY <2>1, <2>8, <2>11
      <3>5. PICK z : SameElse(d, b) /\ Buffers(d) /\ ToUtf8Of(d, b, z)
        BY <2>8, <2>9, <3>4, ToUtf8Says
      <3> HIDE DEF r, d
      <3>6. b.buffer = c.buffer \o SubSeq(pipe, 1, n) /\ b.utf8 = c.utf8
        BY <2>1, <2>4, <2>8
      <3>7. d.buffer \in Seq(Bytes)
        BY <3>5, SeqBytes DEF Buffers
      <3>8. Moved(enc, c, pipe, d, Drop(pipe, n))
        BY <1>0, <2>4, <3>5, <3>6, <3>7, MovedText
      <3>9. ReadGives(r, c)
        BY <2>1, <2>4, <2>6, <2>8, <3>3, <3>5, <3>8 DEF ReadGives, SameElse
      <3> QED BY <3>9 DEF r
    <2>12. CASE todo # 0 /\ ~(~b.raw_mode /\ b.buffer # <<>>)
      <3>1. r = [con |-> b, ret |-> Len(b.buffer), took |-> Len(data)]
        BY <1>2, <2>12 DEF connection_read, a, data, y, w, b
      <3> HIDE DEF r
      <3>2. Moved(enc, c, pipe, b, Drop(pipe, n))
        <4>1. b.buffer = c.buffer \o SubSeq(pipe, 1, n) /\ b.utf8 = c.utf8
          BY <2>1, <2>4, <2>8
        <4> QED BY <1>0, <2>4, <4>1, MovedRaw
      <3>3. r.con = b /\ r.took = n
        BY <2>4, <3>1
      <3>4. ReadGives(r, c)
        BY <2>1, <2>4, <2>6, <2>8, <2>9, <3>2, <3>3 DEF ReadGives
      <3> QED BY <3>4 DEF r
    <2> QED BY <2>10, <2>11, <2>12
  <1> QED BY <1>1, <1>2

-----------------------------------------------------------------------------
(***************************************************************************)
(* Counting.                                                               *)
(***************************************************************************)
\* The members of Z up to i.
Number(Z, i) == Cardinality({j \in 1..i : j \in Z})

\* Counting goes by one.
LEMMA NumberNext ==
  ASSUME NEW Z, NEW i \in Nat
  PROVE  /\ Number(Z, i) \in Nat
         /\ Number(Z, 0) = 0
         /\ i + 1 \in Z => Number(Z, i + 1) = Number(Z, i) + 1
         /\ i + 1 \notin Z => Number(Z, i + 1) = Number(Z, i)
  <1> DEFINE Below(k) == {j \in 1..k : j \in Z}
  <1>1. Below(0) = {}
    OBVIOUS
  <1>2. IsFiniteSet(Below(i))
    <2>1. IsFiniteSet(1..i)
      BY FS_Interval
    <2>2. Below(i) \in SUBSET (1..i)
      OBVIOUS
    <2> HIDE DEF Below
    <2> QED BY <2>1, <2>2, FS_Subset
  <1>3. i + 1 \in Z => Below(i + 1) = Below(i) \cup {i + 1}
    OBVIOUS
  <1>4. i + 1 \notin Z => Below(i + 1) = Below(i)
    OBVIOUS
  <1>5. i + 1 \notin Below(i)
    OBVIOUS
  <1>6. \A k : Number(Z, k) = Cardinality(Below(k))
    BY DEF Number
  <1> HIDE DEF Below
  <1>7. Cardinality(Below(i)) \in Nat
    BY <1>2, FS_CardinalityType
  <1>8. Cardinality(Below(i) \cup {i + 1}) = Cardinality(Below(i)) + 1
    BY <1>2, <1>5, FS_AddElement
  <1> QED BY <1>1, <1>3, <1>4, <1>6, <1>7, <1>8, FS_EmptySet

\* The n-th member.
LEMMA NumberFirst ==
  ASSUME NEW Z, NEW L \in Nat, NEW n \in Nat \ {0}, n <= Number(Z, L)
  PROVE  \E m \in 1..L : m \in Z /\ Number(Z, m) = n /\ Number(Z, m - 1) = n - 1
  <1> DEFINE T == {i \in 0..L : Number(Z, i) >= n}
  <1>1. PICK m \in T : \A k \in T : m <= k
    <2>1. T \subseteq Nat /\ L \in T
      BY NumberNext
    <2> HIDE DEF T
    <2> QED BY <2>1, LeastNumber
  <1>2. m \in 1..L /\ m - 1 \in Nat /\ m - 1 \in 0..L /\ (m - 1) + 1 = m
    <2>1. Number(Z, 0) = 0
      BY NumberNext
    <2> QED BY <1>1, <2>1
  <1>3. ~(Number(Z, m - 1) >= n) /\ Number(Z, m) >= n
    BY <1>1, <1>2
  <1>4. /\ Number(Z, m - 1) \in Nat
        /\ m \in Z => Number(Z, m) = Number(Z, m - 1) + 1
        /\ m \notin Z => Number(Z, m) = Number(Z, m - 1)
    BY <1>2, NumberNext
  <1>5. m \in Z /\ Number(Z, m) = n /\ Number(Z, m - 1) = n - 1
    BY <1>3, <1>4
  <1> QED BY <1>2, <1>5

\* find_utf8_chars() finds the end of a character.
LEMMA CharsEnd ==
  ASSUME NEW s \in Seq(Bytes), NEW n \in N
  PROVE  LET k == find_utf8_chars(s, n)
         IN  k \in 0..Len(s) /\ (k = Len(s) \/ s[k + 1] # "C")
  <1> DEFINE L == Len(s)
             Z == {j \in 1..L : s[j] # "C"}
             Starts(i) == Cardinality({j \in 1..i : s[j] # "C"})
             Cut(i) == i = L \/ s[i + 1] # "C"
             k == find_utf8_chars(s, n)
  <1>1. L \in Nat
    OBVIOUS
  <1>2. ASSUME NEW i \in 0..L PROVE Starts(i) = Number(Z, i)
    <2>1. {j \in 1..i : s[j] # "C"} = {j \in 1..i : j \in Z}
      BY <1>1
    <2> QED BY <2>1 DEF Number
  <1>3. CASE n = -1 \/ Starts(L) <= n
    <2>1. k = L
      BY <1>3 DEF find_utf8_chars
    <2> QED BY <1>1, <2>1
  <1>4. CASE ~(n = -1 \/ Starts(L) <= n)
    <2>1. n \in Nat
      BY <1>4, SizeAssumption DEF N
    <2>2. Number(Z, L) \in Nat /\ Starts(L) = Number(Z, L)
      BY <1>1, <1>2, NumberNext
    <2> HIDE DEF Starts, L
    <2>3. n + 1 \in Nat \ {0} /\ n + 1 <= Number(Z, L) /\ (n + 1) - 1 = n
      BY <1>4, <2>1, <2>2
    <2> HIDE DEF Z
    <2>4. PICK m \in 1..L : m \in Z /\ Number(Z, m - 1) = n
      BY <1>1, <2>3, NumberFirst
    <2>5. m - 1 \in 0..L /\ (m - 1) + 1 = m
      BY <1>1
    <2>6. Cut(m - 1) /\ Starts(m - 1) = n
      BY <1>2, <2>4, <2>5 DEF Z
    <2>7. k = CHOOSE i \in 0..L : Cut(i) /\ Starts(i) = n
      BY <1>4 DEF find_utf8_chars, L, Starts
    <2> HIDE DEF Cut
    <2>8. k \in 0..L /\ Cut(k)
      BY <2>5, <2>6, <2>7
    <2> QED BY <2>8 DEF Cut, L
  <1> QED BY <1>3, <1>4

\* The position of a newline.
LEMMA NthIs ==
  ASSUME NEW s \in Seq(Bytes), NEW k \in 0..Newlines(s, Len(s))
  PROVE  /\ NthNewline(s, k) \in 0..Len(s)
         /\ k > 0 => NthNewline(s, k) > 0 /\ s[NthNewline(s, k)] = "n"
  <1> DEFINE L == Len(s)
             Z == {j \in 1..L : s[j] = "n"}
  <1>1. L \in Nat /\ DOMAIN s = 1..L
    OBVIOUS
  <1>2. ASSUME NEW i \in 0..L PROVE Newlines(s, i) = Number(Z, i)
    <2>1. {j \in 1..i : s[j] = "n"} = {j \in 1..i : j \in Z}
      BY <1>1
    <2> QED BY <2>1 DEF Number, Newlines
  <1>3. CASE k = 0
    BY <1>1, <1>3 DEF NthNewline
  <1>4. CASE k # 0
    <2>1. Newlines(s, L) = Number(Z, L) /\ Number(Z, L) \in Nat
      BY <1>1, <1>2, NumberNext
    <2>2. k \in Nat \ {0} /\ k <= Number(Z, L)
      <3> HIDE DEF Z
      <3> QED BY <1>4, <2>1
    <2> HIDE DEF Z, L
    <2>3. PICK m \in 1..L : m \in Z /\ Number(Z, m) = k
      BY <1>1, <2>2, NumberFirst
    <2> DEFINE P(i) == s[i] = "n" /\ Newlines(s, i) = k
    <2>4. m \in DOMAIN s /\ P(m)
      BY <1>1, <1>2, <2>3 DEF Z
    <2>5. NthNewline(s, k) = CHOOSE i \in DOMAIN s : P(i)
      BY <1>4 DEF NthNewline
    <2>6. NthNewline(s, k) \in DOMAIN s /\ P(NthNewline(s, k))
      <3> HIDE DEF P
      <3> QED BY <2>4, <2>5
    <2> QED BY <1>1, <2>6 DEF L
  <1> QED BY <1>3, <1>4

\* How many newlines there are.
LEMMA NewlinesNat == ASSUME NEW s \in Seq(Bytes) PROVE Newlines(s, Len(s)) \in Nat
  <1> DEFINE Z == {j \in 1..Len(s) : s[j] = "n"}
  <1>1. {j \in 1..Len(s) : s[j] = "n"} = {j \in 1..Len(s) : j \in Z} /\ Len(s) \in Nat
    OBVIOUS
  <1>2. Newlines(s, Len(s)) = Number(Z, Len(s))
    BY <1>1 DEF Number, Newlines
  <1> QED BY <1>1, <1>2, NumberNext

-----------------------------------------------------------------------------
(***************************************************************************)
(* Where every byte is.                                                    *)
(***************************************************************************)
\* Of what was written, t, the part done was converted, and R got g; the rest is in the
\* raw buffer and in the pipe.  No character is cut in two.
Account(e, t, g, c, p, done) ==
    /\ done \in Seq(Bytes)
    /\ t = done \o (c.buffer \o p)
    /\ g \o c.utf8 = Decoded(e, done)
    /\ Settled(e, done, c)

\* What g, c and p are.
Typed(g, c, p) ==
    /\ g \in Seq(Bytes) /\ p \in Seq(Bytes)
    /\ c.buffer \in Seq(Bytes) /\ c.utf8 \in Seq(Bytes)

\* How a concatenation begins, and when it is empty.
LEMMA FirstOf ==
  ASSUME NEW s \in Seq(Bytes), NEW t \in Seq(Bytes)
  PROVE  /\ s # <<>> => s \o t # <<>> /\ (s \o t)[1] = s[1]
         /\ s \o t = <<>> => s = <<>> /\ t = <<>>
  <1>1. Len(s \o t) = Len(s) + Len(t) /\ Len(s) \in Nat /\ Len(t) \in Nat
    BY ConcatIs
  <1>2. ASSUME s # <<>> PROVE s \o t # <<>> /\ (s \o t)[1] = s[1]
    <2>1. Len(s) # 0
      BY <1>2
    <2>2. 1 \in 1..Len(s) /\ Len(s \o t) # 0
      BY <1>1, <2>1
    <2>3. (s \o t)[1] = s[1]
      BY <2>2, ConcatIs
    <2> DEFINE u == s \o t
    <2>4. u # <<>>
      <3>1. Len(u) # 0
        BY <2>2
      <3> HIDE DEF u
      <3> QED BY <3>1
    <2> QED BY <2>3, <2>4
  <1>3. ASSUME s \o t = <<>> PROVE s = <<>> /\ t = <<>>
    <2>1. Len(s \o t) = 0
      BY <1>3
    <2>2. Len(s) = 0 /\ Len(t) = 0
      BY <1>1, <2>1
    <2> QED BY <2>2
  <1> QED BY <1>2, <1>3

\* Whether a concatenation ends in the middle of a character.
LEMMA OpenConcat ==
  ASSUME NEW e, NEW s \in Seq(Bytes), NEW t \in Seq(Bytes), Open(e, s \o t)
  PROVE  IF t = <<>> THEN Open(e, s) ELSE Open(e, t)
  <1>1. CASE t = <<>>
    <2>1. s \o <<>> = s
      OBVIOUS
    <2> QED BY <1>1, <2>1
  <1>2. CASE t # <<>>
    <2>1. Len(s) \in Nat /\ Len(t) \in Nat /\ Len(t) # 0 /\ Len(s \o t) = Len(s) + Len(t)
      BY <1>2, ConcatIs
    <2>2. Len(t) \in 1..Len(t)
      BY <2>1
    <2>3. (s \o t)[Len(s) + Len(t)] = t[Len(t)]
      BY <2>2, ConcatIs
    <2> QED BY <1>2, <2>1, <2>3 DEF Open
  <1> QED BY <1>1, <1>2

\* What comes after the part that was converted does not go on with a character of it.
LEMMA CleanCut ==
  ASSUME NEW e, NEW c, NEW p \in Seq(Bytes), NEW done, c.buffer \in Seq(Bytes),
         Settled(e, done, c), c.is_eof_raw => p = <<>>,
         NEW z \in Seq(Bytes), NEW y \in Seq(Bytes), c.buffer \o p = z \o y
  PROVE  ~(Open(e, done) /\ GoesOn(z))
  <1> SUFFICES ASSUME Open(e, done), GoesOn(z) PROVE FALSE
    OBVIOUS
  <1> DEFINE b == c.buffer
  <1>1. z # <<>> /\ z[1] = "C"
    BY DEF GoesOn
  <1> HIDE DEF b
  <1>2. z \o y # <<>> /\ (z \o y)[1] = "C"
    BY <1>1, FirstOf
  <1>3. CASE b # <<>> /\ b[1] # "C"
    <2>1. (b \o p)[1] = b[1]
      BY <1>3, FirstOf DEF b
    <2> QED BY <1>2, <1>3, <2>1 DEF b
  <1>4. CASE b = <<>> /\ c.is_eof_raw
    <2>1. <<>> \o <<>> = <<>>
      OBVIOUS
    <2> QED BY <1>2, <1>4, <2>1 DEF b
  <1> QED BY <1>3, <1>4 DEF Settled, b

\* The account is still true after a read or a conversion.
LEMMA AccountMoved ==
  ASSUME NEW e, NEW t, NEW g, NEW c, NEW p, NEW done, Account(e, t, g, c, p, done),
         NEW d, NEW q, Moved(e, c, p, d, q),
         c.is_eof_raw => p = <<>> /\ d.is_eof_raw,
         Typed(g, c, p), Typed(g, d, q)
  PROVE  \E more : Account(e, t, g, d, q, more)
  <1>1. PICK z \in Seq(Bytes) :
            /\ c.buffer \o p = z \o (d.buffer \o q)
            /\ d.utf8 = c.utf8 \o Decoded(e, z)
            /\ Settled(e, z, d)
            /\ z = <<>> => \E x \in Seq(Bytes) : d.buffer = c.buffer \o x
    BY DEF Moved
  <1> DEFINE y == d.buffer \o q
             m == done \o z
             v == Decoded(e, z)
             u == c.utf8
  <1>2. y \in Seq(Bytes) /\ m \in Seq(Bytes) /\ v \in Seq(Bytes) /\ done \in Seq(Bytes)
    <2>1. done \in Seq(Bytes)
      BY DEF Account
    <2>2. v \in Seq(Bytes)
      BY DecodedType
    <2>3. y \in Seq(Bytes)
      BY ConcatIs DEF Typed
    <2>4. m \in Seq(Bytes)
      BY <2>1, ConcatIs
    <2> QED BY <2>1, <2>2, <2>3, <2>4
  <1>3. g \in Seq(Bytes) /\ u \in Seq(Bytes)
    BY DEF Typed
  <1>4. ~(Open(e, done) /\ GoesOn(z))
    <2>1. Settled(e, done, c) /\ c.buffer \in Seq(Bytes) /\ p \in Seq(Bytes) /\ c.buffer \o p = z \o y
      BY <1>1 DEF Account, Typed
    <2> HIDE DEF y
    <2> QED BY <1>2, <2>1, CleanCut
  <1>5. t = m \o y
    <2>1. t = done \o (z \o y)
      BY <1>1 DEF Account
    <2> HIDE DEF y
    <2>2. done \in Seq(Bytes) /\ z \in Seq(Bytes) /\ y \in Seq(Bytes)
      BY <1>2
    <2>3. (done \o z) \o y = done \o (z \o y)
      BY <2>2, Brackets
    <2> QED BY <2>1, <2>3
  <1>6. g \o d.utf8 = Decoded(e, m)
    <2>1. g \o d.utf8 = g \o (u \o v)
      BY <1>1
    <2>2. g \o u = Decoded(e, done)
      BY DEF Account
    <2>3. Decoded(e, m) = Decoded(e, done) \o v
      BY <1>2, <1>4, DecodedConcat
    <2> HIDE DEF u, v, m
    <2>4. g \in Seq(Bytes) /\ u \in Seq(Bytes) /\ v \in Seq(Bytes)
      BY <1>2, <1>3
    <2>5. (g \o u) \o v = g \o (u \o v)
      BY <2>4, Brackets
    <2> QED BY <2>1, <2>2, <2>3, <2>5
  <1>7. Settled(e, m, d)
    <2> SUFFICES ASSUME Open(e, m)
                 PROVE  \/ d.buffer # <<>> /\ d.buffer[1] # "C"
                        \/ d.buffer = <<>> /\ d.is_eof_raw
      BY DEF Settled
    <2>1. IF z = <<>> THEN Open(e, done) ELSE Open(e, z)
      BY <1>2, OpenConcat
    <2>2. CASE z # <<>>
      BY <1>1, <2>1, <2>2 DEF Settled
    <2>3. CASE z = <<>>
      <3>1. PICK x \in Seq(Bytes) : d.buffer = c.buffer \o x
        BY <1>1, <2>3
      <3>2. Settled(e, done, c) /\ Open(e, done)
        BY <2>1, <2>3 DEF Account
      <3>3. CASE c.buffer # <<>> /\ c.buffer[1] # "C"
        <4> DEFINE b == c.buffer
        <4>1. b \in Seq(Bytes)
          BY DEF Typed
        <4> HIDE DEF b
        <4>2. b # <<>> => b \o x # <<>> /\ (b \o x)[1] = b[1]
          BY <4>1, FirstOf
        <4> QED BY <3>1, <3>3, <4>2 DEF b
      <3>4. CASE c.buffer = <<>> /\ c.is_eof_raw
        <4>1. d.buffer \in Seq(Bytes) /\ q \in Seq(Bytes) /\ p = <<>>
          BY <3>4 DEF Typed
        <4>2. <<>> \o y = y /\ <<>> \o <<>> = <<>>
          BY <1>2
        <4>3. y = <<>>
          <5> HIDE DEF y
          <5>1. c.buffer \o p = z \o y
            BY <1>1 DEF y
          <5> QED BY <2>3, <3>4, <4>1, <4>2, <5>1
        <4>4. d.buffer = <<>>
          <5> DEFINE b == d.buffer
          <5>1. b \in Seq(Bytes) /\ q \in Seq(Bytes) /\ b \o q = <<>>
            BY <4>1, <4>3
          <5> HIDE DEF b
          <5>2. b = <<>>
            BY <5>1, FirstOf
          <5> QED BY <5>2 DEF b
        <4> QED BY <3>4, <4>4
      <3> QED BY <3>2, <3>3, <3>4 DEF Settled
    <2> QED BY <2>2, <2>3
  <1> HIDE DEF m
  <1>8. Account(e, t, g, d, q, m)
    BY <1>2, <1>5, <1>6, <1>7 DEF Account
  <1> QED BY <1>8

\* It is still true when R takes the first k bytes of the UTF-8 buffer.
LEMMA AccountTakes ==
  ASSUME NEW e, NEW t, NEW g, NEW c, NEW p, NEW done, Account(e, t, g, c, p, done),
         Typed(g, c, p), NEW k \in 0..Len(c.utf8), NEW d,
         d.buffer = c.buffer, d.utf8 = Drop(c.utf8, k), d.is_eof_raw = c.is_eof_raw
  PROVE  Account(e, t, g \o SubSeq(c.utf8, 1, k), d, p, done)
  <1> DEFINE u == c.utf8
             x == SubSeq(u, 1, k)
             w == Drop(u, k)
  <1>1. g \in Seq(Bytes) /\ u \in Seq(Bytes)
    BY DEF Typed
  <1>2. x \in Seq(Bytes) /\ w \in Seq(Bytes) /\ x \o w = u
    <2> HIDE DEF u
    <2>1. k \in 0..Len(u)
      BY DEF u
    <2> QED BY <1>1, <2>1, DropIs
  <1>3. d.utf8 = w
    OBVIOUS
  <1> HIDE DEF u, x, w
  <1>4. (g \o x) \o w = g \o (x \o w)
    <2>1. g \in Seq(Bytes) /\ x \in Seq(Bytes) /\ w \in Seq(Bytes)
      BY <1>1, <1>2
    <2> QED BY <2>1, Brackets
  <1>5. (g \o x) \o d.utf8 = Decoded(e, done)
    BY <1>2, <1>3, <1>4 DEF Account, u
  <1>6. Account(e, t, g \o x, d, p, done)
    BY <1>5 DEF Account, Settled
  <1> QED BY <1>6 DEF x, u

\* It is still true when R takes the first k bytes of the raw buffer.
LEMMA AccountTakesRaw ==
  ASSUME NEW t, NEW g, NEW c, NEW p, NEW done, Account("binary", t, g, c, p, done),
         Typed(g, c, p), c.utf8 = <<>>, NEW k \in 0..Len(c.buffer), NEW d,
         d.buffer = Drop(c.buffer, k), d.utf8 = <<>>
  PROVE  \E more : Account("binary", t, g \o SubSeq(c.buffer, 1, k), d, p, more)
  <1> DEFINE b == c.buffer
             x == SubSeq(b, 1, k)
             w == Drop(b, k)
             m == done \o x
  <1>1. g \in Seq(Bytes) /\ b \in Seq(Bytes) /\ p \in Seq(Bytes) /\ done \in Seq(Bytes)
    BY DEF Typed, Account
  <1>2. x \in Seq(Bytes) /\ w \in Seq(Bytes) /\ x \o w = b
    <2> HIDE DEF b
    <2>1. k \in 0..Len(b)
      BY DEF b
    <2> QED BY <1>1, <2>1, DropIs
  <1>3. g = done
    <2>1. g \o <<>> = g
      BY <1>1
    <2> QED BY <2>1 DEF Account, Decoded
  <1>4. d.buffer = w /\ t = done \o (b \o p)
    BY DEF Account
  <1> HIDE DEF b, x, w
  <1>5. m \in Seq(Bytes) /\ m \o <<>> = m
    BY <1>1, <1>2
  <1>6. t = m \o (w \o p)
    <2>1. (x \o w) \o p = x \o (w \o p)
      <3>1. x \in Seq(Bytes) /\ w \in Seq(Bytes) /\ p \in Seq(Bytes)
        BY <1>1, <1>2
      <3> QED BY <3>1, Brackets
    <2> DEFINE y == w \o p
    <2>2. y \in Seq(Bytes)
      BY <1>1, <1>2, ConcatIs
    <2> HIDE DEF y
    <2>3. (done \o x) \o y = done \o (x \o y)
      <3>1. done \in Seq(Bytes) /\ x \in Seq(Bytes) /\ y \in Seq(Bytes)
        BY <1>1, <1>2, <2>2
      <3> QED BY <3>1, Brackets
    <2>4. b \o p = x \o y
      BY <1>2, <2>1 DEF y
    <2>5. t = m \o y
      BY <1>4, <2>3, <2>4
    <2> QED BY <2>5 DEF y
  <1>7. Decoded("binary", m) = m /\ ~Open("binary", m)
    BY DEF Decoded, Open
  <1>8. g \o x = m
    BY <1>3
  <1> HIDE DEF m
  <1>9. Account("binary", t, g \o x, d, p, m)
    BY <1>4, <1>5, <1>6, <1>7, <1>8 DEF Account, Settled
  <1> QED BY <1>9 DEF x, b

\* It is still true when one more byte is written.
LEMMA AccountWrites ==
  ASSUME NEW e, NEW t, NEW g, NEW c, NEW p, NEW done, Account(e, t, g, c, p, done),
         Typed(g, c, p), NEW b \in Bytes
  PROVE  Account(e, Append(t, b), g, c, Append(p, b), done)
  <1> DEFINE v == c.buffer
             x == <<b>>
  <1>1. v \in Seq(Bytes) /\ p \in Seq(Bytes) /\ done \in Seq(Bytes) /\ x \in Seq(Bytes)
    BY DEF Typed, Account
  <1>2. t = done \o (v \o p) /\ v \o p \in Seq(Bytes)
    <2>1. t = done \o (v \o p)
      BY DEF Account
    <2> HIDE DEF v
    <2>2. v \o p \in Seq(Bytes)
      BY <1>1, ConcatIs
    <2> QED BY <2>1, <2>2
  <1>3. t \in Seq(Bytes)
    <2> DEFINE y == v \o p
    <2>1. y \in Seq(Bytes) /\ t = done \o y
      BY <1>2
    <2> HIDE DEF y
    <2> QED BY <1>1, <2>1, ConcatIs
  <1>4. \A s \in Seq(Bytes) : Append(s, b) = s \o x
    OBVIOUS
  <1> HIDE DEF v, x
  <1>5. Append(t, b) = done \o (v \o Append(p, b))
    <2> DEFINE y == v \o p
    <2>1. Append(t, b) = t \o x /\ Append(p, b) = p \o x
      BY <1>1, <1>3, <1>4
    <2>2. y \o x = v \o (p \o x)
      <3>1. v \in Seq(Bytes) /\ p \in Seq(Bytes) /\ x \in Seq(Bytes)
        BY <1>1
      <3> QED BY <3>1, Brackets
    <2>3. y \in Seq(Bytes) /\ t = done \o y
      BY <1>2
    <2> HIDE DEF y
    <2>4. (done \o y) \o x = done \o (y \o x)
      <3>1. done \in Seq(Bytes) /\ y \in Seq(Bytes) /\ x \in Seq(Bytes)
        BY <1>1, <2>3
      <3> QED BY <3>1, Brackets
    <2> QED BY <2>1, <2>2, <2>3, <2>4
  <1> QED BY <1>5 DEF Account, v

\* What R got, the buffers and the pipe add up to what was written.
Adds(e, t, g, c, p) == (g \o c.utf8) \o Decoded(e, c.buffer \o p) = Decoded(e, t)

\* What the account says of the whole.
LEMMA AccountTotal ==
  ASSUME NEW e, NEW t, NEW g, NEW c, NEW p, NEW done, Account(e, t, g, c, p, done),
         Typed(g, c, p), c.is_eof_raw => p = <<>>
  PROVE  Adds(e, t, g, c, p)
  <1> DEFINE b == c.buffer
             y == b \o p
  <1>1. done \in Seq(Bytes) /\ b \in Seq(Bytes) /\ p \in Seq(Bytes)
    BY DEF Account, Typed
  <1>2. t = done \o y /\ g \o c.utf8 = Decoded(e, done) /\ Settled(e, done, c)
    BY DEF Account
  <1>3. y \in Seq(Bytes)
    <2> HIDE DEF b
    <2> QED BY <1>1, ConcatIs
  <1>4. ~(Open(e, done) /\ GoesOn(y))
    <2>1. <<>> \in Seq(Bytes) /\ y = y \o <<>>
      BY <1>3
    <2> HIDE DEF y
    <2>2. b \o p = y \o <<>>
      BY <2>1 DEF y
    <2> QED BY <1>1, <1>2, <1>3, <2>1, <2>2, CleanCut
  <1> HIDE DEF y
  <1>5. Decoded(e, done \o y) = Decoded(e, done) \o Decoded(e, y)
    BY <1>1, <1>3, <1>4, DecodedConcat
  <1> QED BY <1>2, <1>5 DEF Adds, y

-----------------------------------------------------------------------------
(***************************************************************************)
(* The invariant.                                                          *)
(***************************************************************************)
\* The kinds of the variables other than con.
StateType ==
    /\ enc \in Encodings
    /\ pipe \in Seq(Byte) /\ sent \in Seq(Byte) /\ got \in Seq(Bytes)
    /\ pc \in {"idle", "scan", "poll"}
    /\ want \in N \cup {0, 1}
    /\ loop \in {"no", "poll", "read"}
    /\ event \in {"none", "ready", "silent", "timeout", "closed"}
    /\ res \in Seq(Seq(Bytes))

\* Only a binary connection is in raw mode, and read_until_newline() is not in a
\* connection that is closed, nor does it search past the end of the buffer.
ModeInv ==
    /\ Text => ~con.raw_mode
    /\ pc = "scan" => ~con.is_closed /\ end \in 0..Len(con.utf8)

\* Every byte that was written is accounted for.
Story == \E done : Account(enc, sent, got, con, pipe, done)

\* PollTrue, for the encoding that the state has.
Polls ==
    /\ pc = "poll" => ~con.is_eof /\ con.utf8 = <<>> /\ Decoded(enc, con.buffer) = <<>>
    /\ event = "ready" => con.utf8 # <<>> \/ con.buffer # <<>> \/ pipe # <<>> \/ ~wopen

IInv ==
    /\ EofInv /\ Buffers(con) /\ StateType /\ ModeInv /\ Story
    /\ Polls /\ LinesComplete

\* What a call may go on with after its read, if there was one.
Ready(r) ==
    /\ Shape(r.con) /\ Flags(r.con) /\ Binary(r.con) /\ Buffers(r.con)
    /\ r.con.raw_mode = con.raw_mode /\ r.con.is_closed = con.is_closed
    /\ con.is_eof => r.con.is_eof
    /\ con.is_eof_raw => r.con.is_eof_raw
    /\ r.took \in 0..Len(pipe)
    /\ r.con.is_eof_raw => r.took = 0
    /\ Moved(enc, con, pipe, r.con, Drop(pipe, r.took))

\* The bytes of R's text x were delivered, and is_eof_ was not set with them.
Delivers(x) ==
    /\ x \in Seq(Bytes) /\ got' = got \o x
    /\ UNCHANGED <<enc, sent, wopen>>
    /\ con'.is_closed = con.is_closed
    /\ con.is_eof => con'.is_eof
    /\ con'.is_eof => x = <<>>

\* What is left when a call has taken x.
Left(x) ==
    /\ Buffers(con') /\ Story' /\ Delivers(x)
    /\ pipe' \in Seq(Byte) /\ con'.raw_mode = con.raw_mode /\ event' = "none"

\* A connection that is con but for its memory and its mode.
Same(c) ==
    /\ Shape(c) /\ Flags(c) /\ Binary(c) /\ Buffers(c)
    /\ c.buffer = con.buffer /\ c.utf8 = con.utf8 /\ c.raw_mode = con.raw_mode
    /\ c.is_closed = con.is_closed /\ c.is_eof = con.is_eof /\ c.is_eof_raw = con.is_eof_raw

\* A call may go on after connection_read().
LEMMA ReadReady ==
  ASSUME IInv, NEW c, Same(c), Text \/ c.buffer = <<>>
  PROVE  Ready(connection_read(c))
  <1> DEFINE r == connection_read(c)
  <1>1. ReadPromise(r, c)
    BY ConnectionRead DEF Same, IInv, EofInv
  <1>2. ReadGives(r, c)
    <2>1. Text \/ (c.raw_mode /\ c.buffer = <<>>)
      BY DEF Same, Binary
    <2> QED BY <2>1, ReadBuffers DEF Same, IInv, EofInv, StateType
  <1> HIDE DEF r
  <1>3. Moved(enc, con, pipe, r.con, Drop(pipe, r.took))
    BY <1>2 DEF ReadGives, Moved, Same
  <1>4. Binary(r.con)
    BY <1>1 DEF ReadPromise, Same, Binary
  <1>5. Ready(r)
    BY <1>1, <1>2, <1>3, <1>4 DEF Ready, ReadPromise, ReadGives, Same
  <1> QED BY <1>5 DEF r

\* It is ready without a read too.
LEMMA NoReadReady ==
  ASSUME IInv, NEW c, Same(c)
  PROVE  Ready(NoRead(c))
  <1> DEFINE r == NoRead(c)
  <1>1. r.con = c /\ r.took = 0
    BY DEF NoRead
  <1>2. /\ pipe \in Seq(Bytes) /\ con.buffer \in Seq(Bytes) /\ con.utf8 \in Seq(Bytes)
        /\ 0 \in 0..Len(pipe) /\ SubSeq(pipe, 1, 0) = <<>>
    BY SeqBytes, SubSeqEmpty DEF IInv, StateType, Buffers
  <1>3. con.buffer \o <<>> = con.buffer
    BY <1>2
  <1>4. Moved(enc, con, pipe, c, Drop(pipe, 0))
    <2>1. c.buffer = con.buffer \o SubSeq(pipe, 1, 0) /\ c.utf8 = con.utf8
      BY <1>2, <1>3 DEF Same
    <2> QED BY <1>2, <2>1, MovedRaw
  <1> HIDE DEF r
  <1>5. Ready(r)
    BY <1>1, <1>2, <1>4 DEF Ready, Same
  <1> QED BY <1>5 DEF r

\* The account after the read.
LEMMA ReadyAccount ==
  ASSUME IInv, NEW r, Ready(r)
  PROVE  /\ Typed(got, r.con, Drop(pipe, r.took))
         /\ Drop(pipe, r.took) \in Seq(Byte)
         /\ \E done : Account(enc, sent, got, r.con, Drop(pipe, r.took), done)
  <1> DEFINE q == Drop(pipe, r.took)
             d == r.con
  <1>1. PICK done : Account(enc, sent, got, con, pipe, done)
    BY DEF IInv, Story
  <1>2. Typed(got, con, pipe)
    BY SeqBytes DEF IInv, StateType, Buffers, Typed
  <1>3. q \in Seq(Byte) /\ q \in Seq(Bytes)
    <2>1. pipe \in Seq(Byte) /\ r.took \in 0..Len(pipe)
      BY DEF IInv, StateType, Ready
    <2>2. q \in Seq(Byte)
      BY <2>1, DropIs
    <2> QED BY <2>2, SeqBytes
  <1>4. Moved(enc, con, pipe, d, q) /\ Buffers(d)
    BY DEF Ready
  <1> HIDE DEF q
  <1>5. Typed(got, d, q)
    BY <1>2, <1>3, <1>4, SeqBytes DEF Buffers, Typed
  <1>6. con.is_eof_raw => pipe = <<>> /\ d.is_eof_raw
    BY DEF IInv, EofInv, Flags, Ready
  <1> HIDE DEF d
  <1>7. \E more : Account(enc, sent, got, d, q, more)
    BY <1>1, <1>2, <1>4, <1>5, <1>6, AccountMoved
  <1> QED BY <1>3, <1>5, <1>7 DEF d, q

\* A call takes the first k bytes of the UTF-8 buffer, and they are whole characters.
LEMMA TakeText ==
  ASSUME IInv, NEW r, Ready(r), NEW k \in 0..Len(r.con.utf8),
         k = Len(r.con.utf8) \/ r.con.utf8[k + 1] # "C", Take(r, "utf8", k)
  PROVE  /\ Left(SubSeq(r.con.utf8, 1, k))
         /\ con'.buffer = r.con.buffer /\ con'.utf8 = Drop(r.con.utf8, k)
         /\ r.con.is_eof_raw => pipe' = <<>> /\ wopen' = FALSE
  <1> DEFINE u == r.con.utf8
             w == Drop(u, k)
             d == [r.con EXCEPT !["utf8"] = Drop(@, k)]
             q == Drop(pipe, r.took)
             x == SubSeq(u, 1, k)
  <1>1. con' = d /\ pipe' = q /\ got' = got \o x /\ event' = "none" /\ UNCHANGED <<enc, wopen, sent>>
    BY DEF Take
  <1>2. Shape(r.con) /\ Buffers(r.con)
    BY DEF Ready
  <1>3. /\ d.utf8 = w /\ d.buffer = r.con.buffer /\ d.is_eof = r.con.is_eof
        /\ d.is_eof_raw = r.con.is_eof_raw /\ d.raw_mode = r.con.raw_mode
        /\ d.is_closed = r.con.is_closed /\ d.allocated = r.con.allocated
        /\ d.utf8_allocated = r.con.utf8_allocated
    BY <1>2 DEF Shape
  <1>4. /\ w \in Seq(Bytes) /\ x \in Seq(Bytes) /\ Len(w) = Len(u) - k /\ Whole(w)
        /\ u \in Seq(Bytes) /\ Len(u) \in Nat
    <2>1. u \in Seq(Bytes) /\ Whole(u) /\ k \in 0..Len(u) /\ (k = Len(u) \/ u[k + 1] # "C")
      BY <1>2 DEF Buffers
    <2> HIDE DEF u
    <2> QED BY <2>1, DropIs, WholeDrop
  <1>5. u = <<>> => w = <<>> /\ x = <<>>
    <2> SUFFICES ASSUME u = <<>> PROVE w = <<>> /\ x = <<>>
      OBVIOUS
    <2>1. Len(u) = 0
      OBVIOUS
    <2>2. k = 0
      BY <2>1
    <2>3. SubSeq(<<>>, 1, 0) = <<>> /\ Drop(<<>>, 0) = <<>>
      BY SubSeqEmpty DEF Drop
    <2> QED BY <2>2, <2>3
  <1> HIDE DEF d, w, x
  <1>6. Buffers(d)
    <2>1. Len(w) <= r.con.utf8_allocated
      BY <1>2, <1>4 DEF Buffers
    <2>2. ~r.con.allocated => w = <<>>
      BY <1>2, <1>5 DEF Buffers
    <2> HIDE DEF u
    <2> QED BY <1>2, <1>3, <1>4, <2>1, <2>2 DEF Buffers
  <1>7. Story'
    <2>1. PICK done : Account(enc, sent, got, r.con, q, done)
      BY ReadyAccount
    <2>2. Typed(got, r.con, q)
      BY ReadyAccount
    <2>3. Account(enc, sent, got \o x, d, q, done)
      <3> HIDE DEF q
      <3> QED BY <1>3, <2>1, <2>2, AccountTakes DEF w, x
    <2>4. Account(enc', sent', got', con', pipe', done)
      BY <1>1, <2>3
    <2> QED BY <2>4 DEF Story
  <1>8. Delivers(x)
    <2>1. r.con.is_eof => x = <<>>
      BY <1>5 DEF Ready, Flags
    <2> QED BY <1>1, <1>3, <1>4, <2>1 DEF Delivers, Ready
  <1>9. q \in Seq(Byte)
    BY ReadyAccount
  <1>10. r.con.is_eof_raw => pipe' = <<>> /\ wopen' = FALSE
    <2>1. Drop(<<>>, 0) = <<>> /\ wopen \in BOOLEAN
      BY SubSeqEmpty DEF Drop, IInv, EofInv
    <2> QED BY <1>1, <2>1 DEF Ready, Flags
  <1>11. Left(x)
    <2> HIDE DEF q
    <2> QED BY <1>1, <1>3, <1>6, <1>7, <1>8, <1>9 DEF Left, Ready
  <1> QED BY <1>1, <1>3, <1>10, <1>11 DEF w, x

\* A binary read takes the first k bytes of the raw buffer.
LEMMA TakeRaw ==
  ASSUME IInv, ~Text, NEW r, Ready(r), NEW k \in 0..Len(r.con.buffer),
         Take(r, "buffer", k)
  PROVE  Left(SubSeq(r.con.buffer, 1, k))
  <1> DEFINE b == r.con.buffer
             w == Drop(b, k)
             d == [r.con EXCEPT !["buffer"] = Drop(@, k)]
             q == Drop(pipe, r.took)
             x == SubSeq(b, 1, k)
  <1>1. con' = d /\ pipe' = q /\ got' = got \o x /\ event' = "none" /\ UNCHANGED <<enc, wopen, sent>>
    BY DEF Take
  <1>2. Shape(r.con) /\ Buffers(r.con) /\ r.con.utf8 = <<>> /\ enc = "binary"
    BY DEF Ready, Binary, Text
  <1>3. /\ d.buffer = w /\ d.utf8 = r.con.utf8 /\ d.is_eof = r.con.is_eof
        /\ d.is_eof_raw = r.con.is_eof_raw /\ d.raw_mode = r.con.raw_mode
        /\ d.is_closed = r.con.is_closed /\ d.allocated = r.con.allocated
        /\ d.utf8_allocated = r.con.utf8_allocated
    BY <1>2 DEF Shape
  <1>4. /\ w \in Seq(Byte) /\ x \in Seq(Byte) /\ Len(w) = Len(b) - k /\ x \in Seq(Bytes)
        /\ b \in Seq(Byte) /\ Len(b) \in Nat
    <2>1. b \in Seq(Byte) /\ k \in 0..Len(b)
      BY <1>2 DEF Buffers
    <2> HIDE DEF b
    <2> QED BY <2>1, DropIs, SeqBytes
  <1>5. b = <<>> => w = <<>> /\ x = <<>>
    <2> SUFFICES ASSUME b = <<>> PROVE w = <<>> /\ x = <<>>
      OBVIOUS
    <2>1. Len(b) = 0
      OBVIOUS
    <2>2. k = 0
      BY <2>1
    <2>3. SubSeq(<<>>, 1, 0) = <<>> /\ Drop(<<>>, 0) = <<>>
      BY SubSeqEmpty DEF Drop
    <2> QED BY <2>2, <2>3
  <1> HIDE DEF d, w, x
  <1>6. Buffers(d)
    <2>1. Len(w) <= BufferSize
      BY <1>2, <1>4, SizeAssumption DEF Buffers
    <2>2. ~r.con.allocated => w = <<>>
      BY <1>2, <1>5 DEF Buffers
    <2> HIDE DEF b
    <2> QED BY <1>2, <1>3, <1>4, <2>1, <2>2 DEF Buffers
  <1>7. Story'
    <2>1. PICK done : Account("binary", sent, got, r.con, q, done)
      BY <1>2, ReadyAccount
    <2>2. Typed(got, r.con, q)
      BY ReadyAccount
    <2>3. \E more : Account("binary", sent, got \o x, d, q, more)
      <3> HIDE DEF q
      <3> QED BY <1>2, <1>3, <2>1, <2>2, AccountTakesRaw DEF w, x
    <2>4. \E more : Account(enc', sent', got', con', pipe', more)
      BY <1>1, <1>2, <2>3
    <2> QED BY <2>4 DEF Story
  <1>8. Delivers(x)
    <2>1. r.con.is_eof => x = <<>>
      BY <1>5 DEF Ready, Flags
    <2> QED BY <1>1, <1>3, <1>4, <2>1 DEF Delivers, Ready
  <1>9. q \in Seq(Byte)
    BY ReadyAccount
  <1>10. Left(x)
    <2> HIDE DEF q
    <2> QED BY <1>1, <1>3, <1>6, <1>7, <1>8, <1>9 DEF Left, Ready
  <1> QED BY <1>10 DEF x

-----------------------------------------------------------------------------
(***************************************************************************)
(* The steps.                                                              *)
(***************************************************************************)
\* The types of a state in which the invariant holds.
LEMMA TypedState == IInv => Typed(got, con, pipe)
  BY SeqBytes DEF IInv, StateType, Buffers, Typed

\* Every byte is where it was.
LEMMA StoryStays ==
  ASSUME IInv, UNCHANGED <<enc, sent, got, pipe>>,
         con'.buffer = con.buffer, con'.utf8 = con.utf8, con'.is_eof_raw = con.is_eof_raw
  PROVE  Story'
  <1>1. PICK done : Account(enc, sent, got, con, pipe, done)
    BY DEF IInv, Story
  <1>2. Account(enc', sent', got', con', pipe', done)
    BY <1>1 DEF Account, Settled
  <1> QED BY <1>2 DEF Story

\* The parts of the invariant are all there is to it.
LEMMA AllOf ==
  ASSUME EofInv', Buffers(con'), StateType', ModeInv', Story', Polls', LinesComplete'
  PROVE  IInv'
  BY DEF IInv, Buffers

\* It holds when the connection is created.
LEMMA InvInit == Init => IInv
  <1> SUFFICES ASSUME Init PROVE IInv
    OBVIOUS
  <1> DEFINE b == enc = "binary"
  <1>1. con = [is_closed |-> FALSE, is_eof |-> FALSE, is_eof_raw |-> FALSE,
               raw_mode |-> b, allocated |-> FALSE,
               buffer |-> <<>>, utf8 |-> <<>>, utf8_allocated |-> 0]
    BY DEF Init, connection_create
  <1>2. /\ enc \in Encodings /\ pipe = <<>> /\ wopen = TRUE /\ pc = "idle" /\ want = 0
        /\ loop = "no" /\ event = "none" /\ res = <<>> /\ sent = <<>> /\ got = <<>>
    BY DEF Init
  <1>3. Text => ~b
    BY DEF Text
  <1> HIDE DEF b
  <1>4. /\ con.is_closed = FALSE /\ con.allocated = FALSE /\ con.buffer = <<>>
        /\ con.utf8 = <<>> /\ con.utf8_allocated = 0 /\ con.raw_mode = b
    BY <1>1
  <1>5. Len(<<>>) = 0 /\ \A X : <<>> \in Seq(X)
    OBVIOUS
  <1>6. Whole(<<>>)
    BY WholeOnes
  <1>7. Buffers(con)
    <2>1. /\ con.buffer \in Seq(Byte) /\ con.utf8 \in Seq(Bytes)
          /\ Len(con.buffer) = 0 /\ Len(con.utf8) = 0 /\ Whole(con.utf8)
      BY <1>4, <1>5, <1>6
    <2>2. con.is_closed \in BOOLEAN /\ con.allocated \in BOOLEAN /\ ~con.allocated
      BY <1>4
    <2>3. BufferSize \in Nat
      BY SizeAssumption
    <2>4. con.utf8_allocated \in Nat
      BY <1>4
    <2>5. Len(con.buffer) <= BufferSize /\ Len(con.utf8) <= con.utf8_allocated
      BY <2>1, <2>3, <1>4
    <2>6. con.buffer = <<>> /\ con.utf8 = <<>>
      BY <1>4
    <2> QED BY <2>1, <2>2, <2>4, <2>5, <2>6 DEF Buffers
  <1>8. StateType
    BY <1>2, <1>5 DEF StateType
  <1>9. ModeInv
    BY <1>2, <1>3, <1>4 DEF ModeInv
  <1>10. Story
    <2>1. <<>> \o <<>> = <<>> /\ <<>> \in Seq(Bytes)
      OBVIOUS
    <2>2. Decoded(enc, <<>>) = <<>> /\ ~Open(enc, <<>>)
      BY DecodedEmpty DEF Open
    <2>3. Account(enc, sent, got, con, pipe, <<>>)
      BY <1>2, <1>4, <2>1, <2>2 DEF Account, Settled
    <2> QED BY <2>3 DEF Story
  <1>11. Polls /\ LinesComplete
    BY <1>2 DEF Polls, LinesComplete
  <1> QED BY <1>7, <1>8, <1>9, <1>10, <1>11, EofInvInit DEF IInv

\* A byte is written.
LEMMA WriteStep ==
  ASSUME IInv, NEW b \in Byte, Write(b), EofInv'
  PROVE  IInv'
  <1>1. /\ pipe' = Append(pipe, b) /\ sent' = Append(sent, b) /\ wopen /\ event' = "none" /\ res' = <<>>
        /\ UNCHANGED <<con, enc, wopen, pc, end, want, loop, got>>
    BY DEF Write, Quiet, callVars
  <1>2. Buffers(con')
    BY <1>1 DEF IInv, Buffers
  <1>3. StateType'
    <2>1. pipe' \in Seq(Byte) /\ sent' \in Seq(Byte) /\ <<>> \in Seq(Seq(Bytes))
      BY <1>1 DEF IInv, StateType
    <2> QED BY <1>1, <2>1 DEF IInv, StateType
  <1>4. ModeInv'
    BY <1>1 DEF IInv, ModeInv, Text
  <1>5. Story'
    <2>1. PICK done : Account(enc, sent, got, con, pipe, done)
      BY DEF IInv, Story
    <2>2. Typed(got, con, pipe) /\ b \in Bytes
      BY TypedState, ByteAssumption DEF Bytes
    <2>3. Account(enc, Append(sent, b), got, con, Append(pipe, b), done)
      BY <2>1, <2>2, AccountWrites
    <2>4. Account(enc', sent', got', con', pipe', done)
      BY <1>1, <2>3
    <2> QED BY <2>4 DEF Story
  <1>6. Polls' /\ LinesComplete'
    BY <1>1 DEF IInv, Polls, LinesComplete
  <1> QED BY <1>2, <1>3, <1>4, <1>5, <1>6, AllOf

\* A step that changes neither the connection, nor the pipe, nor what R got.
LEMMA OtherSteps ==
  ASSUME IInv, EofInv', UNCHANGED <<con, enc, pipe, sent, got>>,
         pc' = "idle" \/ UNCHANGED <<pc, end>>,
         want' \in N \cup {0, 1}, loop' \in {"no", "poll", "read"},
         event' \in {"none", "ready", "silent", "timeout", "closed"},
         wopen' = wopen \/ ~wopen',
         event' = "ready" => event = "ready" \/ pipe # <<>> \/ ~wopen,
         res' = <<>> \/ res' = res
  PROVE  IInv'
  <1>1. Buffers(con')
    BY DEF IInv, Buffers
  <1>2. StateType'
    <2>1. <<>> \in Seq(Seq(Bytes))
      OBVIOUS
    <2> QED BY <2>1 DEF IInv, StateType
  <1>3. ModeInv'
    BY DEF IInv, ModeInv, Text
  <1>4. Story'
    BY StoryStays
  <1>5. Polls'
    BY DEF IInv, Polls
  <1>6. LinesComplete'
    BY DEF IInv, LinesComplete
  <1> QED BY <1>1, <1>2, <1>3, <1>4, <1>5, <1>6, AllOf

\* The memory of the buffers may grow.
LEMMA SameMemory ==
  ASSUME IInv
  PROVE  /\ Same(con) /\ Same(realloc(con))
         /\ \A c : Same(c) => Same(alloc(c))
  <1>1. Same(con)
    BY DEF IInv, EofInv, Same
  <1>2. Same(realloc(con))
    <2> DEFINE size == con.utf8_allocated
               new == (size * 12) \div 10
               m == IF new = size THEN 2 * new ELSE new
               d == [con EXCEPT !.utf8_allocated = m]
    <2>1. realloc(con) = d
      BY DEF realloc
    <2>2. size \in Nat
      BY DEF IInv, Buffers
    <2> HIDE DEF size
    <2>3. new \in Nat /\ new >= size
      BY <2>2
    <2> HIDE DEF new
    <2>4. m \in Nat /\ m >= size
      BY <2>2, <2>3
    <2> HIDE DEF m
    <2>5. /\ Shape(d) /\ d.utf8_allocated = m /\ d.buffer = con.buffer /\ d.utf8 = con.utf8
          /\ d.raw_mode = con.raw_mode /\ d.is_closed = con.is_closed /\ d.is_eof = con.is_eof
          /\ d.is_eof_raw = con.is_eof_raw /\ d.allocated = con.allocated
      BY <1>1 DEF Same, Shape
    <2> HIDE DEF d
    <2>6. Flags(d) /\ Binary(d)
      BY <1>1, <2>5 DEF Same, Flags, Binary
    <2>7. Buffers(d)
      <3>1. Len(con.utf8) \in Nat /\ BufferSize \in Nat
        BY <1>1, SizeAssumption DEF Same, Buffers
      <3>2. Len(con.utf8) <= m /\ (con.allocated => m >= BufferSize)
        BY <1>1, <2>2, <2>4, <3>1 DEF Same, Buffers, size
      <3> QED BY <1>1, <2>4, <2>5, <3>2 DEF Same, Buffers
    <2> QED BY <2>1, <2>5, <2>6, <2>7 DEF Same
  <1>3. ASSUME NEW c, Same(c) PROVE Same(alloc(c))
    <2>1. CASE c.allocated
      BY <1>3, <2>1 DEF alloc
    <2>2. CASE ~c.allocated
      <3> DEFINE d == [c EXCEPT !.allocated = TRUE, !.utf8_allocated = BufferSize]
      <3>1. alloc(c) = d
        BY <2>2 DEF alloc
      <3>2. /\ Shape(d) /\ d.utf8_allocated = BufferSize /\ d.buffer = c.buffer /\ d.utf8 = c.utf8
            /\ d.raw_mode = c.raw_mode /\ d.is_closed = c.is_closed /\ d.is_eof = c.is_eof
            /\ d.is_eof_raw = c.is_eof_raw /\ d.allocated = TRUE
        BY <1>3 DEF Same, Shape
      <3> HIDE DEF d
      <3>3. Len(<<>>) = 0 /\ c.utf8 = <<>>
        BY <1>3, <2>2 DEF Same, Buffers
      <3>4. Flags(d) /\ Binary(d)
        BY <1>3, <3>2 DEF Same, Flags, Binary
      <3>5. Buffers(d)
        <4>1. Len(d.utf8) = 0
          BY <3>2, <3>3
        <4>2. /\ d.buffer \in Seq(Byte) /\ Len(d.buffer) <= BufferSize /\ d.is_closed \in BOOLEAN
              /\ d.utf8 \in Seq(Bytes) /\ Whole(d.utf8)
          BY <1>3, <3>2 DEF Same, Buffers
        <4>3. BufferSize \in Nat /\ d.allocated \in BOOLEAN /\ d.allocated
          BY <3>2, SizeAssumption
        <4>4. d.utf8_allocated \in Nat /\ Len(d.utf8) <= d.utf8_allocated /\ d.utf8_allocated >= BufferSize
          BY <3>2, <4>1, <4>3
        <4> QED BY <4>2, <4>3, <4>4 DEF Buffers
      <3> QED BY <1>3, <3>1, <3>2, <3>4, <3>5 DEF Same
    <2> QED BY <2>1, <2>2
  <1> QED BY <1>1, <1>2, <1>3

\* What R_PRE_POLL_FUNC_CONNECTION_READY may answer, and when.
PrePolled(p) ==
    \/ /\ p.con = con
       /\ p.event \in {"closed", "ready", "handle"}
       /\ p.event = "ready" => ~wopen \/ con.utf8 # <<>> \/ con.buffer # <<>>
       /\ p.event = "handle" => ~con.is_eof /\ con.utf8 = <<>> /\ con.buffer = <<>>
    \/ /\ p.con = to_utf8(con).con
       /\ Text /\ con.utf8 = <<>> /\ ~con.is_eof
       /\ p.event = IF p.con.utf8 # <<>> THEN "ready" ELSE "handle"

\* It answers one of these.
LEMMA PrePoll == ASSUME IInv PROVE PrePolled(pre_poll(con))
  <1> DEFINE Says(d, e) == [con |-> d, event |-> e]
             Tried(x) == Says(x.con, IF x.con.utf8 # <<>> THEN "ready" ELSE "handle")
             p == pre_poll(con)
  <1>1. /\ Flags(con) /\ Binary(con) /\ (Text => ~con.raw_mode)
        /\ con.is_closed \in BOOLEAN /\ con.is_eof \in BOOLEAN /\ con.raw_mode \in BOOLEAN
    BY DEF IInv, EofInv, ModeInv, Buffers, Shape
  <1>2. CASE con.is_closed
    <2>1. p.con = con /\ p.event = "closed"
      BY <1>2 DEF pre_poll
    <2> QED BY <2>1 DEF PrePolled
  <1>3. CASE ~con.is_closed /\ con.is_eof
    <2>1. p.con = con /\ p.event = "ready"
      BY <1>3 DEF pre_poll
    <2> QED BY <1>1, <1>3, <2>1 DEF PrePolled, Flags
  <1>4. CASE ~con.is_closed /\ ~con.is_eof /\ con.raw_mode
    <2>1. p.con = con /\ p.event = IF con.buffer # <<>> THEN "ready" ELSE "handle"
      BY <1>4 DEF pre_poll
    <2>2. con.utf8 = <<>>
      BY <1>1, <1>4 DEF Binary
    <2> QED BY <1>4, <2>1, <2>2 DEF PrePolled
  <1>5. CASE ~con.is_closed /\ ~con.is_eof /\ ~con.raw_mode
    <2>1. Text
      BY <1>1, <1>5 DEF Binary
    <2>2. CASE con.utf8 # <<>> \/ (con.buffer # <<>> /\ con.is_eof_raw)
      <3>1. p.con = con /\ p.event = "ready"
        BY <1>5, <2>2 DEF pre_poll
      <3> QED BY <2>2, <3>1 DEF PrePolled
    <2>3. CASE ~(con.utf8 # <<>> \/ (con.buffer # <<>> /\ con.is_eof_raw))
      <3>1. p = Once(Tried, to_utf8(con))
        BY <1>5, <2>3 DEF pre_poll
      <3>2. Once(Tried, to_utf8(con)) = Tried(to_utf8(con))
        BY DEF Once
      <3>3. p = Tried(to_utf8(con))
        <4> HIDE DEF Tried, p
        <4> QED BY <3>1, <3>2
      <3> HIDE DEF p
      <3>4. /\ p.con = to_utf8(con).con
            /\ p.event = IF p.con.utf8 # <<>> THEN "ready" ELSE "handle"
        BY <3>3
      <3>5. con.utf8 = <<>>
        BY <2>3
      <3> HIDE DEF Tried, Says
      <3>6. PrePolled(p)
        BY <1>5, <2>1, <3>4, <3>5 DEF PrePolled
      <3> QED BY <3>6 DEF p
    <2> QED BY <2>2, <2>3
  <1> QED BY <1>1, <1>2, <1>3, <1>4, <1>5

\* The conversion before poll() leaves nothing that means something in the raw buffer, if
\* it makes nothing of it: there is room for a character in the empty UTF-8 buffer.
LEMMA NothingToRead ==
  ASSUME IInv, NEW d, NEW z, ToUtf8Of(d, con, z), Buffers(d), con.utf8 = <<>>, d.utf8 = <<>>
  PROVE  Decoded(enc, d.buffer) = <<>>
  <1> DEFINE v == Decoded(enc, z)
             b == d.buffer
  <1>1. z \in Seq(Bytes) /\ b \in Seq(Bytes) /\ v \in Seq(Bytes)
    BY SeqBytes, DecodedType DEF ToUtf8Of, Buffers
  <1>2. <<>> \o v = <<>>
    BY DEF ToUtf8Of
  <1>3. v = <<>>
    <2> HIDE DEF v
    <2>1. <<>> \o v = v
      BY <1>1
    <2> QED BY <1>2, <2>1
  <1>4. Len(v) = 0 /\ Len(con.utf8) = 0
    <2> HIDE DEF v
    <2> QED BY <1>3
  <1>5. /\ con.utf8_allocated \in Nat
        /\ con.allocated => con.utf8_allocated >= 2
        /\ ~con.allocated => con.buffer = <<>>
    <2>1. BufferSize \in Nat /\ BufferSize >= 2
      BY SizeAssumption
    <2> QED BY <2>1 DEF IInv, Buffers
  <1>6. con.buffer = <<>> => b = <<>>
    <2>1. z \o b = con.buffer
      BY DEF ToUtf8Of
    <2> HIDE DEF b
    <2> QED BY <1>1, <2>1, FirstOf
  <1>7. CASE b = <<>> \/ Decoded(enc, b) = <<>>
    BY <1>7, DecodedEmpty
  <1>8. CASE Len(v) + 2 > con.utf8_allocated - Len(con.utf8) \/ con.utf8_allocated = Len(con.utf8)
    <2>1. ~(con.utf8_allocated >= 2)
      <3> HIDE DEF v, b
      <3> QED BY <1>4, <1>5, <1>8
    <2> QED BY <1>5, <1>6, <2>1, DecodedEmpty
  <1> QED BY <1>7, <1>8 DEF ToUtf8Of

\* poll() begins.
LEMMA PollBeginsStep ==
  ASSUME IInv, NEW ms \in {-1, 1}, PollBegins(ms), EofInv'
  PROVE  IInv'
  <1> DEFINE p == pre_poll(con)
  <1>1. /\ con' = p.con
        /\ \/ p.event = "handle" /\ pc' = "poll" /\ want' = ms /\ event' = "none" /\ loop' = loop
           \/ p.event # "handle" /\ pc' = "idle" /\ want' = 0 /\ event' = p.event
              /\ loop' \in {loop, "read"}
        /\ res' = <<>> /\ UNCHANGED <<enc, pipe, wopen, sent, got>>
    BY DEF PollBegins, PollSays, Idle, pipeVars
  <1>2. PrePolled(p)
    BY PrePoll
  <1>3. p.event \in {"closed", "ready", "handle"}
    BY <1>2 DEF PrePolled
  <1> HIDE DEF p
  <1>4. StateType'
    <2>1. <<>> \in Seq(Seq(Bytes)) /\ 0 \in N \cup {0, 1} /\ ms \in N \cup {0, 1}
      BY DEF N
    <2> QED BY <1>1, <1>3, <2>1 DEF IInv, StateType
  <1>5. LinesComplete'
    BY <1>1 DEF LinesComplete
  <1>6. CASE /\ p.con = con
             /\ p.event = "ready" => ~wopen \/ con.utf8 # <<>> \/ con.buffer # <<>>
             /\ p.event = "handle" => ~con.is_eof /\ con.utf8 = <<>> /\ con.buffer = <<>>
    <2>1. Buffers(con') /\ ModeInv'
      BY <1>1, <1>6 DEF IInv, Buffers, ModeInv, Text
    <2>2. Story'
      BY <1>1, <1>6, StoryStays
    <2>3. Polls'
      BY <1>1, <1>6, DecodedEmpty DEF Polls
    <2> QED BY <1>4, <1>5, <2>1, <2>2, <2>3, AllOf
  <1>7. CASE /\ p.con = to_utf8(con).con
             /\ Text /\ con.utf8 = <<>> /\ ~con.is_eof
             /\ p.event = IF p.con.utf8 # <<>> THEN "ready" ELSE "handle"
    <2> DEFINE d == p.con
    <2>1. /\ Shape(con) /\ Buffers(con) /\ Typed(got, con, pipe)
          /\ pipe \in Seq(Bytes) /\ con.buffer \in Seq(Bytes)
      BY TypedState DEF IInv, EofInv, Typed
    <2>2. SameElse(d, con) /\ Buffers(d) /\ \E z : ToUtf8Of(d, con, z)
      BY <1>7, <2>1, ToUtf8Says
    <2>3. PICK z : ToUtf8Of(d, con, z)
      BY <2>2
    <2>4. con' = d
      BY <1>1
    <2> HIDE DEF d
    <2>5. Buffers(con') /\ ModeInv'
      BY <1>1, <2>2, <2>4 DEF IInv, ModeInv, SameElse, Text
    <2>6. d.buffer \in Seq(Bytes) /\ d.utf8 \in Seq(Bytes)
      BY <2>2, SeqBytes DEF Buffers
    <2>7. Story'
      <3>1. PICK done : Account(enc, sent, got, con, pipe, done)
        BY DEF IInv, Story
      <3>2. 0 \in 0..Len(pipe) /\ SubSeq(pipe, 1, 0) = <<>> /\ Drop(pipe, 0) = pipe
        <4>1. Len(pipe) \in Nat /\ SubSeq(pipe, 1, 0) = <<>>
          BY <2>1, SubSeqEmpty
        <4>2. 0 \in 0..Len(pipe)
          BY <4>1
        <4>3. SubSeq(pipe, 1, 0) \o Drop(pipe, 0) = pipe /\ Drop(pipe, 0) \in Seq(Bytes)
          BY <2>1, <4>2, DropIs
        <4> DEFINE q == Drop(pipe, 0)
        <4>4. <<>> \o q = pipe /\ q \in Seq(Bytes)
          BY <4>1, <4>3
        <4> HIDE DEF q
        <4>5. q = pipe
          BY <4>4
        <4> QED BY <4>1, <4>2, <4>5 DEF q
      <3>3. con.buffer = con.buffer \o SubSeq(pipe, 1, 0)
        <4>1. con.buffer \o <<>> = con.buffer
          BY <2>1
        <4> QED BY <3>2, <4>1
      <3>4. Moved(enc, con, pipe, d, pipe)
        <4>1. Moved(enc, con, pipe, d, Drop(pipe, 0))
          BY <2>1, <2>3, <2>6, <3>2, <3>3, MovedText
        <4> QED BY <3>2, <4>1
      <3>5. Typed(got, d, pipe)
        BY <2>1, <2>6 DEF Typed
      <3>6. con.is_eof_raw => pipe = <<>> /\ d.is_eof_raw
        BY <2>2 DEF IInv, EofInv, Flags, SameElse
      <3>7. \E more : Account(enc, sent, got, d, pipe, more)
        BY <2>1, <3>1, <3>4, <3>5, <3>6, AccountMoved
      <3> QED BY <1>1, <2>4, <3>7 DEF Story
    <2>8. Polls'
      <3>1. d.utf8 = <<>> => Decoded(enc, d.buffer) = <<>>
        BY <1>7, <2>2, <2>3, NothingToRead
      <3>2. ~con'.is_eof
        BY <1>7, <2>2, <2>4 DEF SameElse
      <3> QED BY <1>1, <1>7, <2>4, <3>1, <3>2 DEF Polls, d
    <2> QED BY <1>4, <1>5, <2>5, <2>7, <2>8, AllOf
  <1> QED BY <1>2, <1>6, <1>7 DEF PrePolled

\* read() fails.
LEMMA ReadFailsStep ==
  ASSUME IInv, ReadFails, EofInv'
  PROVE  IInv'
  <1> DEFINE c == IF pc = "scan" /\ NeedsRealloc(con) THEN realloc(con) ELSE con
  <1>1. /\ con' = alloc(c) /\ pc' = "idle" /\ want' = 0 /\ loop' = "no"
        /\ event' = "none" /\ res' = <<>> /\ UNCHANGED <<enc, pipe, wopen, sent, got>>
    BY DEF ReadFails, Idle, Quiet, pipeVars
  <1>2. Same(c)
    BY SameMemory
  <1> HIDE DEF c
  <1>3. Same(con')
    BY <1>1, <1>2, SameMemory
  <1>4. Buffers(con') /\ ModeInv'
    BY <1>1, <1>3 DEF Same, IInv, ModeInv, Text
  <1>5. StateType'
    <2>1. <<>> \in Seq(Seq(Bytes))
      OBVIOUS
    <2> QED BY <1>1, <2>1 DEF IInv, StateType
  <1>6. Story'
    BY <1>1, <1>3, StoryStays DEF Same
  <1>7. Polls' /\ LinesComplete'
    BY <1>1 DEF Polls, LinesComplete
  <1> QED BY <1>4, <1>5, <1>6, <1>7, AllOf

\* The connection is closed.
LEMMA CloseStep ==
  ASSUME IInv, close, EofInv'
  PROVE  IInv'
  <1>1. /\ con' = [con EXCEPT !.is_closed = TRUE] /\ event' = "none" /\ res' = <<>> /\ pc = "idle"
        /\ UNCHANGED <<enc, pipe, wopen, sent, pc, end, want, loop, got>>
    BY DEF close, Quiet, pipeVars, callVars
  <1>2. /\ con'.is_closed = TRUE /\ con'.buffer = con.buffer /\ con'.utf8 = con.utf8
        /\ con'.is_eof_raw = con.is_eof_raw /\ con'.raw_mode = con.raw_mode
        /\ con'.allocated = con.allocated /\ con'.utf8_allocated = con.utf8_allocated
    BY <1>1 DEF IInv, EofInv, Shape
  <1>3. Buffers(con') /\ ModeInv'
    BY <1>1, <1>2 DEF IInv, Buffers, ModeInv, Text
  <1>4. StateType'
    <2>1. <<>> \in Seq(Seq(Bytes))
      OBVIOUS
    <2> QED BY <1>1, <2>1 DEF IInv, StateType
  <1>5. Story'
    BY <1>1, <1>2, StoryStays
  <1>6. Polls' /\ LinesComplete'
    BY <1>1 DEF Polls, LinesComplete
  <1> QED BY <1>3, <1>4, <1>5, <1>6, AllOf

\* The invariant after a call that took x out of a buffer.
LEMMA AfterTake ==
  ASSUME IInv, EofInv', NEW x, Left(x),
         pc' \in {"idle", "scan"}, want' \in N \cup {0, 1}, loop' \in {"no", "poll", "read"},
         res' \in Seq(Seq(Bytes)), LinesComplete',
         pc' = "scan" => ~con.is_closed /\ end' \in 0..Len(con'.utf8)
  PROVE  IInv'
  <1>1. /\ Buffers(con') /\ Story' /\ event' = "none" /\ pipe' \in Seq(Byte)
        /\ con'.raw_mode = con.raw_mode /\ con'.is_closed = con.is_closed
        /\ x \in Seq(Bytes) /\ got' = got \o x /\ UNCHANGED <<enc, sent, wopen>>
    BY DEF Left, Delivers
  <1>2. StateType'
    <2>1. got' \in Seq(Bytes)
      BY <1>1, ConcatIs DEF IInv, StateType
    <2> QED BY <1>1, <2>1 DEF IInv, StateType
  <1>3. ModeInv'
    BY <1>1 DEF IInv, ModeInv, Text
  <1>4. Polls'
    BY <1>1 DEF Polls
  <1> QED BY <1>1, <1>2, <1>3, <1>4, AllOf

\* What read_all_output() does next.
LEMMA LoopGoesOn == ASSUME IInv, LoopOn PROVE loop' \in {"no", "poll", "read"}
  BY DEF LoopOn, IInv, StateType

\* The first byte is no continuation.
LEMMA NothingYet ==
  ASSUME NEW u \in Seq(Bytes), Whole(u)
  PROVE  /\ 0 \in 0..Len(u) /\ (0 = Len(u) \/ u[0 + 1] # "C")
         /\ SubSeq(u, 1, 0) = <<>> /\ Drop(u, 0) = u
  <1>1. Len(u) \in Nat /\ SubSeq(u, 1, 0) = <<>>
    BY SubSeqEmpty
  <1>2. 0 \in 0..Len(u)
    BY <1>1
  <1>3. Drop(u, 0) = u
    <2> DEFINE q == Drop(u, 0)
    <2>1. <<>> \o q = u /\ q \in Seq(Bytes)
      BY <1>1, <1>2, DropIs
    <2> HIDE DEF q
    <2>2. q = u
      BY <2>1
    <2> QED BY <2>2 DEF q
  <1>4. Len(u) # 0 => u[1] # "C"
    BY <1>1 DEF Whole
  <1> QED BY <1>1, <1>2, <1>3, <1>4

\* The read of a call of a text connection.
LEMMA TextReady ==
  ASSUME IInv, Text, NEW r, r = connection_read(con) \/ r = NoRead(con)
  PROVE  Ready(r)
  BY SameMemory, ReadReady, NoReadReady

\* What a call of read_chars() takes, and from what.
CharsTaken(n, r, k) ==
    /\ r = connection_read(con) \/ r = NoRead(con)
    /\ Take(r, "utf8", k)
    /\ k = IF WholeChars(r.con.utf8) THEN find_utf8_chars(r.con.utf8, n) ELSE 0

\* processx_connection_read_chars
LEMMA CharsTake ==
  ASSUME IInv, NEW n \in N, ReadChars(n)
  PROVE  \E r, k : Ready(r) /\ k \in 0..Len(r.con.utf8) /\ Left(SubSeq(r.con.utf8, 1, k))
  <1>1. PICK r, k : CharsTaken(n, r, k)
    BY DEF ReadChars, CharsTaken
  <1> DEFINE u == r.con.utf8
  <1>2. Ready(r)
    BY <1>1, TextReady DEF ReadChars, CharsTaken
  <1>3. u \in Seq(Bytes) /\ Whole(u)
    BY <1>2 DEF Ready, Buffers
  <1>4. k \in 0..Len(u) /\ (k = Len(u) \/ u[k + 1] # "C")
    <2>1. CASE WholeChars(u)
      <3> HIDE DEF u
      <3>1. k = find_utf8_chars(u, n)
        BY <1>1, <2>1 DEF CharsTaken, u
      <3> QED BY <1>3, <3>1, CharsEnd
    <2>2. CASE ~WholeChars(u)
      <3>1. k = 0
        BY <1>1, <2>2 DEF CharsTaken
      <3> HIDE DEF u
      <3> QED BY <1>3, <3>1, NothingYet
    <2> QED BY <2>1, <2>2
  <1>5. Left(SubSeq(r.con.utf8, 1, k))
    BY <1>1, <1>2, <1>4, TakeText DEF CharsTaken
  <1> QED BY <1>2, <1>4, <1>5

\* The fields of what connection_read() gives.
LEMMA ReadIs == ASSUME NEW c PROVE DOMAIN connection_read(c) = {"con", "ret", "took"}
  <1> DEFINE a == alloc(c)
             todo == BufferSize - Len(a.buffer)
             data == Incoming(todo)
             b == [a EXCEPT !.buffer = @ \o data,
                            !.is_eof_raw = @ \/ AtEnd,
                            !.is_eof = @ \/ (AtEnd /\ Drained(a))]
             Result(x) == [con |-> x.con, ret |-> x.ret, took |-> Len(data)]
             d == [c EXCEPT !.is_eof = @ \/ c.utf8 = <<>>]
  <1>1. connection_read(c) \in {[con |-> d, ret |-> 0, took |-> 0],
                               Once(Result, to_utf8(a)), Once(Result, to_utf8(b)),
                               [con |-> b, ret |-> Len(b.buffer), took |-> Len(data)]}
    BY DEF connection_read
  <1>2. \A x : Once(Result, x) = Result(x)
    BY DEF Once
  <1> HIDE DEF b, d, data
  <1>3. \A x : DOMAIN Result(x) = {"con", "ret", "took"}
    OBVIOUS
  <1> HIDE DEF Result
  <1> QED BY <1>1, <1>2, <1>3

\* What a call of read_bytes() takes, and from what.
BytesTaken(n, c, r, y, q, k) ==
    /\ c = [con EXCEPT !.raw_mode = TRUE]
    /\ r = IF c.buffer = <<>> /\ ~c.is_eof_raw THEN connection_read(c) ELSE NoRead(c)
    /\ y = (r.con.is_eof \/ (r.con.is_eof_raw /\ r.con.buffer = <<>>))
    /\ q = [r EXCEPT !.con.is_eof = y]
    /\ Take(q, "buffer", k)
    /\ k = IF n = -1 THEN Len(r.con.buffer) ELSE Least(n, Len(r.con.buffer))

\* processx_connection_read_bytes
LEMMA BytesTake ==
  ASSUME IInv, NEW n \in N, ReadBytes(n)
  PROVE  \E r, k : Ready(r) /\ k \in 0..Len(r.con.buffer) /\ Left(SubSeq(r.con.buffer, 1, k))
  <1>1. PICK c, r, y, q, k : BytesTaken(n, c, r, y, q, k)
    BY DEF ReadBytes, BytesTaken
  <1>2. ~Text
    BY DEF ReadBytes
  <1>3. Same(c)
    <2>1. Same(con) /\ con.raw_mode
      BY <1>2, SameMemory DEF IInv, EofInv, Binary
    <2>2. /\ Shape(c) /\ c.buffer = con.buffer /\ c.utf8 = con.utf8 /\ c.raw_mode = TRUE
          /\ c.is_closed = con.is_closed /\ c.is_eof = con.is_eof /\ c.is_eof_raw = con.is_eof_raw
          /\ c.allocated = con.allocated /\ c.utf8_allocated = con.utf8_allocated
      BY <1>1, <2>1 DEF BytesTaken, Same, Shape
    <2>3. con.raw_mode = TRUE
      BY <2>1 DEF Same, Shape
    <2>4. Flags(c) /\ Binary(c) /\ Buffers(c)
      BY <2>1, <2>2 DEF Same, Flags, Binary, Buffers
    <2> QED BY <2>2, <2>3, <2>4 DEF Same
  <1>4. Ready(r)
    <2>1. CASE c.buffer = <<>> /\ ~c.is_eof_raw
      BY <1>1, <1>3, <2>1, ReadReady DEF BytesTaken
    <2>2. CASE ~(c.buffer = <<>> /\ ~c.is_eof_raw)
      BY <1>1, <1>3, <2>2, NoReadReady DEF BytesTaken
    <2> QED BY <2>1, <2>2
  <1>5. DOMAIN r = {"con", "ret", "took"}
    <2>1. DOMAIN NoRead(c) = {"con", "ret", "took"}
      BY DEF NoRead
    <2>2. DOMAIN connection_read(c) = {"con", "ret", "took"}
      BY ReadIs
    <2> QED BY <1>1, <2>1, <2>2 DEF BytesTaken
  <1>6. /\ q.took = r.took /\ q.con.is_eof = y /\ q.con.buffer = r.con.buffer
        /\ q.con.utf8 = r.con.utf8 /\ q.con.is_eof_raw = r.con.is_eof_raw
        /\ q.con.raw_mode = r.con.raw_mode /\ q.con.is_closed = r.con.is_closed
        /\ q.con.allocated = r.con.allocated /\ q.con.utf8_allocated = r.con.utf8_allocated
        /\ Shape(q.con)
    <2>1. Shape(r.con) /\ q = [r EXCEPT !.con.is_eof = y]
      BY <1>1, <1>4 DEF Ready, BytesTaken
    <2>2. y \in BOOLEAN
      BY <1>1 DEF BytesTaken
    <2> QED BY <1>5, <2>1, <2>2 DEF Shape
  <1>7. y => r.con.is_eof_raw /\ r.con.buffer = <<>> /\ r.con.utf8 = <<>>
    BY <1>1, <1>2, <1>4 DEF BytesTaken, Ready, Flags, Binary
  <1>8. r.con.is_eof => y
    BY <1>1 DEF BytesTaken
  <1>9. Ready(q)
    <2>1. Flags(q.con)
      BY <1>4, <1>6, <1>7 DEF Ready, Flags
    <2>2. Moved(enc, con, pipe, q.con, Drop(pipe, q.took))
      BY <1>4, <1>6 DEF Ready, Moved, Settled
    <2>3. Binary(q.con) /\ Buffers(q.con)
      BY <1>4, <1>6 DEF Ready, Binary, Buffers
    <2> QED BY <1>4, <1>6, <1>8, <2>1, <2>2, <2>3 DEF Ready
  <1>10. k \in 0..Len(q.con.buffer)
    <2> DEFINE L == Len(r.con.buffer)
    <2>1. L \in Nat
      BY <1>4 DEF Ready, Buffers
    <2>2. k = IF n = -1 THEN L ELSE Least(n, L)
      BY <1>1 DEF BytesTaken
    <2> HIDE DEF L
    <2>3. n = -1 \/ n \in Nat
      BY SizeAssumption DEF N
    <2>4. k \in 0..L
      BY <2>1, <2>2, <2>3 DEF Least
    <2> QED BY <1>6, <2>4 DEF L
  <1>11. Left(SubSeq(q.con.buffer, 1, k))
    BY <1>1, <1>2, <1>9, <1>10, TakeRaw DEF BytesTaken
  <1> QED BY <1>9, <1>10, <1>11

\* Both keep the invariant.
LEMMA CharsAndBytesStep ==
  ASSUME IInv, NEW n \in N, ReadChars(n) \/ ReadBytes(n), EofInv'
  PROVE  IInv'
  <1>1. PICK x : Left(x)
    BY CharsTake, BytesTake
  <1>2. res' = <<>> /\ pc' = pc /\ pc = "idle" /\ want' = want /\ LoopOn
    BY DEF ReadChars, ReadBytes, callVars, MayRead
  <1>3. loop' \in {"no", "poll", "read"}
    BY <1>2, LoopGoesOn
  <1>4. want' \in N \cup {0, 1} /\ <<>> \in Seq(Seq(Bytes))
    BY <1>2 DEF IInv, StateType
  <1>5. LinesComplete'
    BY <1>2 DEF LinesComplete
  <1> QED BY <1>1, <1>2, <1>3, <1>4, <1>5, AfterTake

\* How many whole lines read_lines() returns, if n are asked for and newline tells
\* whether there is one.
Lines(u, newline, n) ==
    IF newline = 0 THEN 0
    ELSE Least(IF n = -1 THEN MaxLines ELSE n, Newlines(u, Len(u)))

\* There are as many.
LEMMA LinesIs ==
  ASSUME NEW u \in Seq(Bytes), NEW newline, NEW n, n = -1 \/ n \in Nat
  PROVE  Lines(u, newline, n) \in 0..Newlines(u, Len(u))
  <1>1. Newlines(u, Len(u)) \in Nat
    BY NewlinesNat
  <1> QED BY <1>1, SizeAssumption DEF Lines, Least

\* A part of text is text.
LEMMA PartIs ==
  ASSUME NEW u \in Seq(Bytes), NEW i \in 0..Len(u), NEW j \in Int, j <= Len(u)
  PROVE  SubSeq(u, i + 1, j) \in Seq(Bytes)
  <1>1. Len(u) \in Nat /\ \A m \in 1..Len(u) : u[m] \in Bytes
    OBVIOUS
  <1>2. i + 1 \in Int /\ \A m \in (i + 1)..j : u[m] \in Bytes
    BY <1>1
  <1> QED BY <1>2, SubSeqProperties

\* What read_lines() takes: whole lines, or all that is left.
LinesTaken(r, newline, n) ==
    IF LastLine(r.con) THEN Len(r.con.utf8)
    ELSE NthNewline(r.con.utf8, Lines(r.con.utf8, newline, n))

\* It takes whole characters, and the last of them is a newline unless all is taken.
LEMMA WholeLines ==
  ASSUME NEW r, Buffers(r.con), NEW newline, NEW n, n = -1 \/ n \in Nat
  PROVE  LET u == r.con.utf8
             k == LinesTaken(r, newline, n)
         IN  /\ k \in 0..Len(u) /\ (k = Len(u) \/ u[k + 1] # "C")
             /\ ~LastLine(r.con) /\ Lines(u, newline, n) # 0 => k > 0 /\ u[k] = "n"
  <1> DEFINE u == r.con.utf8
             l == Lines(u, newline, n)
             k == LinesTaken(r, newline, n)
             L == Len(u)
  <1>1. u \in Seq(Bytes) /\ Whole(u) /\ L \in Nat
    BY DEF Buffers
  <1> HIDE DEF u
  <1>2. l \in 0..Newlines(u, L)
    BY <1>1, LinesIs
  <1>3. CASE LastLine(r.con)
    BY <1>1, <1>3 DEF LinesTaken, u
  <1>4. CASE ~LastLine(r.con)
    <2>1. k = NthNewline(u, l)
      BY <1>4 DEF LinesTaken, u
    <2> HIDE DEF k, l
    <2>2. k \in 0..L /\ (l > 0 => k > 0 /\ u[k] = "n")
      BY <1>1, <1>2, <2>1, NthIs
    <2>3. l = 0 => k = 0
      BY <2>1 DEF NthNewline
    <2>4. l # 0 => l > 0
      <3>1. Newlines(u, L) \in Nat
        BY <1>1, NewlinesNat
      <3> QED BY <1>2, <3>1
    <2>5. k = L \/ u[k + 1] # "C"
      <3>1. SUFFICES ASSUME k # L, u[k + 1] = "C" PROVE FALSE
        OBVIOUS
      <3>2. k + 1 \in 1..L /\ (k + 1) - 1 = k
        BY <1>1, <2>2, <3>1
      <3>3. k > 0 /\ u[k] = "L"
        BY <1>1, <3>1, <3>2 DEF Whole
      <3> QED BY <2>2, <2>3, <2>4, <3>3
    <2> QED BY <1>4, <2>2, <2>4, <2>5 DEF k, l, u
  <1> QED BY <1>3, <1>4 DEF u

\* The strings that read_lines() returns.
LinesGiven(r, newline, n, whole, rest) ==
    LET u == r.con.utf8
        l == Lines(u, newline, n)
        Eol(i) == NthNewline(u, i)
        slashr(i) == IF Eol(i) > 1 /\ u[Eol(i) - 1] = "r" THEN 1 ELSE 0
    IN  /\ whole = [i \in 1..l |-> SubSeq(u, Eol(i - 1) + 1, Eol(i) - 1 - slashr(i))]
        /\ rest = IF LastLine(r.con) THEN <<SubSeq(u, Eol(l) + 1, Len(u))>> ELSE <<>>

\* They are text, and there is none of them without a newline if more may follow.
LEMMA LinesText ==
  ASSUME NEW r, Buffers(r.con), NEW newline, NEW n, n = -1 \/ n \in Nat,
         NEW whole, NEW rest, LinesGiven(r, newline, n, whole, rest)
  PROVE  /\ whole \o rest \in Seq(Seq(Bytes))
         /\ ~LastLine(r.con) /\ whole \o rest # <<>> => Lines(r.con.utf8, newline, n) # 0
  <1> DEFINE u == r.con.utf8
             l == Lines(u, newline, n)
             Eol(i) == NthNewline(u, i)
             slashr(i) == IF Eol(i) > 1 /\ u[Eol(i) - 1] = "r" THEN 1 ELSE 0
             Line(i) == SubSeq(u, Eol(i - 1) + 1, Eol(i) - 1 - slashr(i))
             last == SubSeq(u, Eol(l) + 1, Len(u))
  <1>1. u \in Seq(Bytes) /\ Len(u) \in Nat
    BY DEF Buffers
  <1>2. /\ whole = [i \in 1..l |-> Line(i)]
        /\ rest = IF LastLine(r.con) THEN <<last>> ELSE <<>>
    BY DEF LinesGiven
  <1> HIDE DEF u
  <1>3. l \in 0..Newlines(u, Len(u)) /\ Newlines(u, Len(u)) \in Nat
    BY <1>1, LinesIs, NewlinesNat
  <1> HIDE DEF l
  <1>4. ASSUME NEW i \in 0..l PROVE Eol(i) \in 0..Len(u)
    <2>1. i \in 0..Newlines(u, Len(u))
      BY <1>3
    <2> QED BY <1>1, <2>1, NthIs
  <1>5. \A i : slashr(i) \in {0, 1}
    OBVIOUS
  <1> HIDE DEF Eol, slashr
  <1>6. ASSUME NEW i \in 1..l PROVE Line(i) \in Seq(Bytes)
    <2> DEFINE j == Eol(i) - 1 - slashr(i)
               m == Eol(i - 1)
    <2>1. i - 1 \in 0..l /\ i \in 0..l
      BY <1>3
    <2>2. m \in 0..Len(u) /\ Eol(i) \in 0..Len(u) /\ slashr(i) \in {0, 1}
      BY <1>4, <1>5, <2>1
    <2>3. j \in Int /\ j <= Len(u)
      BY <1>1, <2>2
    <2> HIDE DEF j, m
    <2>4. SubSeq(u, m + 1, j) \in Seq(Bytes)
      BY <1>1, <2>2, <2>3, PartIs
    <2> QED BY <2>4 DEF j, m
  <1>7. last \in Seq(Bytes)
    <2>1. l \in 0..l
      BY <1>3
    <2>2. Eol(l) \in 0..Len(u) /\ Len(u) \in Int
      BY <1>1, <1>4, <2>1
    <2> QED BY <1>1, <2>2, PartIs
  <1> HIDE DEF Line, last
  <1>8. l \in Nat
    BY <1>3
  <1>9. whole \in Seq(Seq(Bytes)) /\ Len(whole) = l
    BY <1>2, <1>6, <1>8
  <1>10. rest \in Seq(Seq(Bytes))
    BY <1>2, <1>7
  <1>11. whole \o rest \in Seq(Seq(Bytes))
    <2> DEFINE X == Seq(Bytes)
    <2> HIDE DEF X
    <2>1. whole \in Seq(X) /\ rest \in Seq(X)
      BY <1>9, <1>10 DEF X
    <2>2. whole \o rest \in Seq(X)
      BY <2>1, ConcatIs
    <2> QED BY <2>2 DEF X
  <1>12. ASSUME ~LastLine(r.con), l = 0 PROVE whole \o rest = <<>>
    <2>1. rest = <<>> /\ whole = <<>>
      BY <1>2, <1>9, <1>12
    <2>2. <<>> \o <<>> = <<>>
      OBVIOUS
    <2> QED BY <2>1, <2>2
  <1> QED BY <1>11, <1>12 DEF l, u

\* The end of processx_connection_read_lines takes whole lines, or, when all was read,
\* all that is left.
LEMMA ServedTake ==
  ASSUME IInv, NEW r, Ready(r), NEW newline, NEW n, n = -1 \/ n \in Nat,
         LinesServed(r, newline, n)
  PROVE  /\ \E k \in 0..Len(r.con.utf8) : Left(SubSeq(r.con.utf8, 1, k))
         /\ LinesComplete' /\ res' \in Seq(Seq(Bytes))
         /\ pc' = "idle" /\ want' = 0 /\ LoopOn
  <1> DEFINE u == r.con.utf8
             k == LinesTaken(r, newline, n)
             x == SubSeq(u, 1, k)
  <1>1. PICK whole, rest : LinesGiven(r, newline, n, whole, rest) /\ res' = whole \o rest
    BY DEF LinesServed, LinesGiven, Lines
  <1>2. Take(r, "utf8", k) /\ Idle /\ LoopOn
    BY DEF LinesServed, LinesTaken, Lines
  <1>3. Buffers(r.con) /\ u \in Seq(Bytes) /\ Len(u) \in Nat
    BY DEF Ready, Buffers
  <1>4. /\ k \in 0..Len(u) /\ (k = Len(u) \/ u[k + 1] # "C")
        /\ ~LastLine(r.con) /\ Lines(u, newline, n) # 0 => k > 0 /\ u[k] = "n"
    BY <1>3, WholeLines
  <1> HIDE DEF k
  <1>5. /\ Left(x) /\ con'.buffer = r.con.buffer /\ con'.utf8 = Drop(u, k)
        /\ r.con.is_eof_raw => pipe' = <<>> /\ wopen' = FALSE
    BY <1>2, <1>4, TakeText
  <1>6. /\ res' \in Seq(Seq(Bytes))
        /\ ~LastLine(r.con) /\ res' # <<>> => Lines(u, newline, n) # 0
    BY <1>1, <1>3, LinesText
  <1>7. LinesComplete'
    <2>1. SUFFICES ASSUME res' # <<>>
                   PROVE  \/ got'[Len(got')] = "n"
                          \/ /\ ~wopen' /\ pipe' = <<>>
                             /\ con'.buffer = <<>> /\ con'.utf8 = <<>>
      BY DEF LinesComplete
    <2>2. CASE LastLine(r.con)
      <3>1. k = Len(u)
        BY <2>2 DEF k, LinesTaken
      <3>2. Drop(u, Len(u)) = <<>>
        <4> DEFINE w == Drop(u, Len(u))
        <4> HIDE DEF u
        <4>1. Len(u) \in 0..Len(u)
          BY <1>3
        <4>2. w \in Seq(Bytes) /\ Len(w) = Len(u) - Len(u)
          BY <1>3, <4>1, DropIs
        <4> HIDE DEF w
        <4>3. w = <<>>
          BY <1>3, <4>2
        <4> QED BY <4>3 DEF w
      <3> QED BY <1>5, <2>2, <3>1, <3>2 DEF LastLine
    <2>3. CASE ~LastLine(r.con)
      <3>1. k > 0 /\ u[k] = "n"
        BY <1>4, <1>6, <2>1, <2>3
      <3>2. k \in 1..k /\ k \in Nat
        BY <1>3, <1>4, <3>1
      <3>3. x \in Seq(Bytes) /\ Len(x) = k /\ x[k] = u[k]
        <4> HIDE DEF u
        <4> QED BY <1>3, <1>4, <3>2, DropIs
      <3>4. got' = got \o x /\ got \in Seq(Bytes)
        BY <1>5 DEF Left, Delivers, IInv, StateType
      <3> HIDE DEF x, u
      <3>5. Len(got \o x) = Len(got) + k /\ (got \o x)[Len(got) + k] = x[k]
        BY <3>2, <3>3, <3>4, ConcatIs
      <3> QED BY <3>1, <3>3, <3>4, <3>5
    <2> QED BY <2>2, <2>3
  <1> QED BY <1>2, <1>4, <1>5, <1>6, <1>7 DEF Idle

\* read_until_newline() goes on.
LEMMA ScanTake ==
  ASSUME IInv, NEW r, Ready(r), Take(r, "utf8", 0)
  PROVE  /\ Left(<<>>) /\ con'.utf8 = r.con.utf8 /\ 0 \in 0..Len(r.con.utf8)
         /\ SubSeq(r.con.utf8, 1, 0) = <<>>
  <1> DEFINE u == r.con.utf8
  <1>1. u \in Seq(Bytes) /\ Whole(u)
    BY DEF Ready, Buffers
  <1>2. /\ 0 \in 0..Len(u) /\ (0 = Len(u) \/ u[0 + 1] # "C")
        /\ SubSeq(u, 1, 0) = <<>> /\ Drop(u, 0) = u
    <2> HIDE DEF u
    <2> QED BY <1>1, NothingYet
  <1>3. Left(SubSeq(u, 1, 0)) /\ con'.utf8 = Drop(u, 0)
    BY <1>2, TakeText
  <1> QED BY <1>2, <1>3

\* The UTF-8 buffer only grows in a read.
LEMMA Grows ==
  ASSUME IInv, NEW r, Ready(r)
  PROVE  Len(con.utf8) \in Nat /\ Len(r.con.utf8) \in Nat /\ Len(con.utf8) <= Len(r.con.utf8)
  <1> DEFINE u == con.utf8
  <1>1. PICK z \in Seq(Bytes) : r.con.utf8 = u \o Decoded(enc, z)
    BY DEF Ready, Moved
  <1> DEFINE v == Decoded(enc, z)
  <1>2. u \in Seq(Bytes) /\ v \in Seq(Bytes)
    BY DecodedType DEF IInv, Buffers
  <1> HIDE DEF u, v
  <1>3. Len(u \o v) = Len(u) + Len(v) /\ Len(u) \in Nat /\ Len(v) \in Nat
    BY <1>2, ConcatIs
  <1>4. r.con.utf8 = u \o v
    BY <1>1 DEF v
  <1> QED BY <1>3, <1>4 DEF u

\* processx_connection_read_lines begins.
LEMMA LinesBeginsStep ==
  ASSUME IInv, NEW n \in N, LinesBegins(n), EofInv'
  PROVE  /\ IInv'
         /\ \E r, k : Ready(r) /\ k \in 0..Len(r.con.utf8) /\ Left(SubSeq(r.con.utf8, 1, k))
  <1> DEFINE Newline(r) == NewlineIn(r.con.utf8, 0, Len(r.con.utf8))
  <1>1. PICK r : /\ r = connection_read(con) \/ r = NoRead(con)
                 /\ \/ LinesServed(r, Newline(r), n)
                    \/ /\ Take(r, "utf8", 0) /\ pc' = "scan" /\ end' = Len(r.con.utf8)
                       /\ want' = n /\ res' = <<>> /\ loop' = loop
    BY DEF LinesBegins
  <1>2. Ready(r) /\ ~con.is_closed /\ (n = -1 \/ n \in Nat)
    BY <1>1, TextReady, SizeAssumption DEF LinesBegins, MayRead, N
  <1> HIDE DEF Newline
  <1>3. CASE LinesServed(r, Newline(r), n)
    <2>1. PICK k \in 0..Len(r.con.utf8) : Left(SubSeq(r.con.utf8, 1, k))
      BY <1>2, <1>3, ServedTake
    <2>2. /\ LinesComplete' /\ res' \in Seq(Seq(Bytes))
          /\ pc' = "idle" /\ want' = 0 /\ LoopOn
      BY <1>2, <1>3, ServedTake
    <2>3. loop' \in {"no", "poll", "read"}
      BY <2>2, LoopGoesOn
    <2>4. IInv'
      BY <2>1, <2>2, <2>3, AfterTake
    <2> QED BY <1>2, <2>1, <2>4
  <1>4. CASE /\ Take(r, "utf8", 0) /\ pc' = "scan" /\ end' = Len(r.con.utf8)
             /\ want' = n /\ res' = <<>> /\ loop' = loop
    <2>1. /\ Left(<<>>) /\ con'.utf8 = r.con.utf8 /\ 0 \in 0..Len(r.con.utf8)
          /\ SubSeq(r.con.utf8, 1, 0) = <<>>
      BY <1>2, <1>4, ScanTake
    <2>2. end' \in 0..Len(con'.utf8)
      BY <1>2, <1>4, <2>1, Grows
    <2>3. want' \in N \cup {0, 1} /\ loop' \in {"no", "poll", "read"} /\ <<>> \in Seq(Seq(Bytes))
      BY <1>4 DEF IInv, StateType
    <2>4. LinesComplete'
      BY <1>4 DEF LinesComplete
    <2>5. IInv'
      BY <1>2, <1>4, <2>1, <2>2, <2>3, <2>4, AfterTake
    <2>6. Left(SubSeq(r.con.utf8, 1, 0))
      BY <2>1
    <2> QED BY <1>2, <2>1, <2>5, <2>6
  <1> QED BY <1>1, <1>3, <1>4

\* It reads again.
LEMMA LinesReadsStep ==
  ASSUME IInv, LinesReads, EofInv'
  PROVE  /\ IInv'
         /\ \E r, k : Ready(r) /\ k \in 0..Len(r.con.utf8) /\ Left(SubSeq(r.con.utf8, 1, k))
  <1> DEFINE c == IF NeedsRealloc(con) THEN realloc(con) ELSE con
             Newline(r) == NewlineIn(r.con.utf8, end, SearchEnd(r.con))
  <1>1. PICK r : /\ r = IF con.is_eof THEN NoRead(con) ELSE connection_read(c)
                 /\ \/ \E newline : LinesServed(r, newline, want)
                    \/ /\ Take(r, "utf8", 0) /\ end' = end /\ res' = <<>>
                       /\ UNCHANGED <<pc, want, loop>>
    <2>1. PICK r : /\ r = IF con.is_eof THEN NoRead(con) ELSE connection_read(c)
                   /\ \/ LinesServed(r, 0, want)
                      \/ LinesServed(r, Newline(r), want)
                      \/ /\ Take(r, "utf8", 0) /\ end' = end /\ res' = <<>>
                         /\ UNCHANGED <<pc, want, loop>>
      BY DEF LinesReads, SearchEnd
    <2> HIDE DEF Newline, c
    <2> QED BY <2>1
  <1>2. Text /\ pc = "scan" /\ ~con.is_closed /\ end \in 0..Len(con.utf8)
    BY DEF LinesReads, IInv, EofInv, Scans, ModeInv
  <1>3. want = -1 \/ want \in Nat
    BY SizeAssumption DEF IInv, StateType, N
  <1>4. Ready(r)
    <2>1. Same(c) /\ Same(con)
      BY SameMemory
    <2> HIDE DEF c
    <2> QED BY <1>1, <1>2, <2>1, ReadReady, NoReadReady
  <1> HIDE DEF c
  <1>5. CASE \E newline : LinesServed(r, newline, want)
    <2>0. PICK newline : LinesServed(r, newline, want)
      BY <1>5
    <2>1. PICK k \in 0..Len(r.con.utf8) : Left(SubSeq(r.con.utf8, 1, k))
      BY <1>3, <1>4, <2>0, ServedTake
    <2>2. /\ LinesComplete' /\ res' \in Seq(Seq(Bytes))
          /\ pc' = "idle" /\ want' = 0 /\ LoopOn
      BY <1>3, <1>4, <2>0, ServedTake
    <2>3. loop' \in {"no", "poll", "read"}
      BY <2>2, LoopGoesOn
    <2>4. IInv'
      BY <2>1, <2>2, <2>3, AfterTake
    <2> QED BY <1>4, <2>1, <2>4
  <1>6. CASE /\ Take(r, "utf8", 0) /\ end' = end /\ res' = <<>>
             /\ UNCHANGED <<pc, want, loop>>
    <2>1. /\ Left(<<>>) /\ con'.utf8 = r.con.utf8 /\ 0 \in 0..Len(r.con.utf8)
          /\ SubSeq(r.con.utf8, 1, 0) = <<>>
      BY <1>4, <1>6, ScanTake
    <2>2. end' \in 0..Len(con'.utf8)
      <3>1. Len(con.utf8) \in Nat /\ Len(r.con.utf8) \in Nat /\ Len(con.utf8) <= Len(r.con.utf8)
        BY <1>4, Grows
      <3> QED BY <1>2, <1>6, <2>1, <3>1
    <2>3. want' \in N \cup {0, 1} /\ loop' \in {"no", "poll", "read"} /\ <<>> \in Seq(Seq(Bytes))
      BY <1>6 DEF IInv, StateType
    <2>4. LinesComplete'
      BY <1>6 DEF LinesComplete
    <2>5. pc' = "scan"
      BY <1>2, <1>6
    <2>6. IInv'
      BY <1>2, <1>6, <2>1, <2>2, <2>3, <2>4, <2>5, AfterTake
    <2>7. Left(SubSeq(r.con.utf8, 1, 0))
      BY <2>1
    <2> QED BY <1>4, <2>1, <2>6, <2>7
  <1> QED BY <1>1, <1>5, <1>6

\* Every step keeps the invariant.
LEMMA InvStep == IInv /\ [Next]_vars => IInv'
  <1> SUFFICES ASSUME IInv, [Next]_vars PROVE IInv'
    OBVIOUS
  <1>0. EofInv'
    BY EofInvStep DEF IInv
  <1>1. ASSUME NEW b \in Byte, Write(b) PROVE IInv'
    BY <1>0, <1>1, WriteStep
  <1>2. ASSUME NEW n \in N, ReadChars(n) \/ ReadBytes(n) \/ LinesBegins(n) PROVE IInv'
    BY <1>0, <1>2, CharsAndBytesStep, LinesBeginsStep
  <1>3. CASE LinesReads
    BY <1>0, <1>3, LinesReadsStep
  <1>4. CASE ReadFails
    BY <1>0, <1>4, ReadFailsStep
  <1>5. CASE close
    BY <1>0, <1>5, CloseStep
  <1>6. ASSUME NEW ms \in {-1, 1}, PollBegins(ms) PROVE IInv'
    BY <1>0, <1>6, PollBeginsStep
  <1>7. CASE \/ CloseWrite \/ PollReady \/ PollSilent \/ PollTimesOut
             \/ PollInterrupted \/ ReadAllBegins \/ ReadAllEnds \/ UNCHANGED vars
    <2>1. /\ UNCHANGED <<con, enc, pipe, sent, got>>
          /\ pc' = "idle" \/ UNCHANGED <<pc, end>>
          /\ want' \in {0, want} /\ loop' \in {"no", "poll", "read", loop}
          /\ wopen' = wopen \/ ~wopen'
          /\ event' \in {"none", "ready", "silent", "timeout", event}
          /\ event' = "ready" => event = "ready" \/ pipe # <<>> \/ ~wopen
          /\ res' = <<>> \/ res' = res
      BY <1>7 DEF CloseWrite, PollReady, PollSilent, PollTimesOut, PollInterrupted,
                  ReadAllBegins, ReadAllEnds, PollSays, Idle, Quiet, pipeVars, callVars, vars
    <2>2. /\ want' \in N \cup {0, 1} /\ loop' \in {"no", "poll", "read"}
          /\ event' \in {"none", "ready", "silent", "timeout", "closed"}
      BY <2>1 DEF IInv, StateType
    <2> QED BY <1>0, <2>1, <2>2, OtherSteps
  <1> QED BY <1>1, <1>2, <1>3, <1>4, <1>5, <1>6, <1>7 DEF Next, Reader

-----------------------------------------------------------------------------
(***************************************************************************)
(* What follows.                                                           *)
(***************************************************************************)
\* What R got, what the buffers hold and what the pipe holds is what was written.
LEMMA Total == IInv => Adds(enc, sent, got, con, pipe)
  <1> SUFFICES ASSUME IInv PROVE Adds(enc, sent, got, con, pipe)
    OBVIOUS
  <1>1. PICK done : Account(enc, sent, got, con, pipe, done)
    BY DEF IInv, Story
  <1>2. con.is_eof_raw => pipe = <<>>
    BY DEF IInv, EofInv, Flags
  <1> QED BY <1>1, <1>2, TypedState, AccountTotal

\* The invariant is more than the properties.
LEMMA InvFollows == IInv => Inv /\ PollTrue /\ LinesComplete
  <1> SUFFICES ASSUME IInv PROVE Inv /\ PollTrue /\ LinesComplete
    OBVIOUS
  <1>1. TypeOK
    <2>1. Shape(con) /\ Buffers(con) /\ StateType /\ ModeInv /\ wopen \in BOOLEAN
      BY DEF IInv, EofInv
    <2>2. Utf8Bytes = Seq(Bytes)
      BY DEF Utf8Bytes, Bytes
    <2>3. \A f \in {"is_closed", "is_eof", "is_eof_raw", "raw_mode", "allocated"} :
             con[f] \in BOOLEAN
      BY <2>1 DEF Shape, Buffers
    <2> QED BY <2>1, <2>2, <2>3 DEF TypeOK, Buffers, StateType, ModeInv
  <1>2. NothingLost
    <2> DEFINE u == con.utf8
               b == con.buffer
    <2>1. got \in Seq(Bytes) /\ b \in Seq(Bytes) /\ pipe \in Seq(Bytes)
      BY TypedState DEF Typed
    <2>2. (got \o u) \o Decoded(enc, b \o pipe) = Decoded(enc, sent)
      BY Total DEF Adds
    <2>3. Meaning(sent) = Decoded(enc, sent) /\ Meaning(b \o pipe) = Decoded(enc, b \o pipe)
      BY MeaningIs
    <2>4. CASE Text
      BY <2>2, <2>3, <2>4 DEF NothingLost
    <2>5. CASE ~Text
      <3>1. u = <<>> /\ Decoded(enc, sent) = sent /\ Decoded(enc, b \o pipe) = b \o pipe
        BY <2>5 DEF IInv, EofInv, Binary, Text, Decoded
      <3> HIDE DEF u, b
      <3>2. got \o <<>> = got
        BY <2>1
      <3>3. (got \o b) \o pipe = got \o (b \o pipe)
        BY <2>1, Brackets
      <3>4. got \o b \o pipe = sent
        BY <2>2, <3>1, <3>2, <3>3
      <3> QED BY <2>5, <3>4 DEF NothingLost, b
    <2> QED BY <2>4, <2>5
  <1>3. NoInternalError
    <2> DEFINE u == con.utf8
    <2>1. u \in Seq(Bytes) /\ Whole(u) /\ Len(u) \in Nat
      BY DEF IInv, Buffers
    <2> HIDE DEF u
    <2>2. ASSUME u # <<>> PROVE u[1] # "C" /\ u[Len(u)] # "L"
      <3>1. Len(u) # 0
        BY <2>1, <2>2
      <3>2. 1 \in 1..Len(u) /\ Len(u) \in 1..Len(u)
        BY <2>1, <3>1
      <3> QED BY <2>1, <3>2 DEF Whole
    <2> QED BY <2>2 DEF NoInternalError, WholeChars, u
  <1>4. PollTrue
    <2>1. Meaning(con.buffer) = Decoded(enc, con.buffer)
      BY MeaningIs
    <2> QED BY <2>1 DEF IInv, Polls, PollTrue
  <1> QED BY <1>1, <1>2, <1>3, <1>4 DEF Inv, IInv

\* The buffers are sound after every call, for any bytes, encoding, buffer sizes and
\* numbers of writes: nothing is lost, doubled or reordered between write() and R, and
\* find_utf8_chars() finds no byte it cannot tell the length of.
THEOREM BuffersAreSound == Spec => []Inv
  <1>1. IInv => Inv
    BY InvFollows
  <1> QED BY <1>1, InvInit, InvStep, PTL DEF Spec

\* poll() never waits while there is something to read, and "ready" is true.
THEOREM PollIsTrue == Spec => []PollTrue
  <1>1. IInv => PollTrue
    BY InvFollows
  <1> QED BY <1>1, InvInit, InvStep, PTL DEF Spec

\* read_lines() returns an unterminated line only when all was read.
THEOREM LinesAreComplete == Spec => []LinesComplete
  <1>1. IInv => LinesComplete
    BY InvFollows
  <1> QED BY <1>1, InvInit, InvStep, PTL DEF Spec

-----------------------------------------------------------------------------
(***************************************************************************)
(* The stream.                                                             *)
(***************************************************************************)
\* A sequence is an initial part of what it is continued to.
LEMMA InitialPart ==
  ASSUME NEW s \in Seq(Bytes), NEW t \in Seq(Bytes)
  PROVE  S!IsInitialPart(s, s \o t)
  <1> DEFINE u == s \o t
             p == SubSeq(u, 1, Len(s))
  <1>1. /\ u \in Seq(Bytes) /\ Len(u) = Len(s) + Len(t) /\ Len(s) \in Nat /\ Len(t) \in Nat
        /\ \A i \in 1..Len(s) : u[i] = s[i]
    BY ConcatIs
  <1> HIDE DEF u
  <1>2. Len(s) \in 0..Len(u) /\ Len(s) <= Len(u)
    BY <1>1
  <1>3. p \in Seq(Bytes) /\ Len(p) = Len(s) /\ \A i \in 1..Len(s) : p[i] = u[i]
    BY <1>1, <1>2, DropIs
  <1> HIDE DEF p
  <1>4. s = p
    BY <1>1, <1>3, SeqEqual
  <1> QED BY <1>2, <1>4 DEF S!IsInitialPart, p, u

\* One more byte changes nothing of what the bytes before it mean: a lead byte means
\* nothing until it is continued.
LEMMA DecodedGrows ==
  ASSUME NEW e, NEW s \in Seq(Bytes), NEW b \in Bytes
  PROVE  \E x \in Seq(Bytes) : Decoded(e, Append(s, b)) = Decoded(e, s) \o x
  <1>1. Append(s, b) = s \o <<b>> /\ <<b>> \in Seq(Bytes) /\ <<b>>[1] = b
    OBVIOUS
  <1>2. CASE ~(Open(e, s) /\ GoesOn(<<b>>))
    <2> DEFINE q == <<b>>
    <2>1. q \in Seq(Bytes) /\ ~(Open(e, s) /\ GoesOn(q)) /\ Append(s, b) = s \o q
      BY <1>1, <1>2
    <2> HIDE DEF q
    <2>2. Decoded(e, s \o q) = Decoded(e, s) \o Decoded(e, q) /\ Decoded(e, q) \in Seq(Bytes)
      BY <2>1, DecodedConcat, DecodedType
    <2> QED BY <2>1, <2>2
  <1>3. CASE Open(e, s) /\ GoesOn(<<b>>)
    <2> DEFINE n == Len(s) - 1
               p == SubSeq(s, 1, n)
               l == <<"L">>
               c == <<"C">>
               w == <<"L", "C">>
    <2>1. b = "C" /\ e \notin {"latin1", "binary"} /\ s # <<>> /\ s[Len(s)] = "L"
      BY <1>1, <1>3 DEF Open, GoesOn
    <2>2. Len(s) \in Nat /\ Len(s) # 0
      BY <2>1
    <2>3. n \in 0..Len(s) /\ n \in 0..(Len(s) - 1) /\ n + 1 = Len(s)
      BY <2>2
    <2>4. p \in Seq(Bytes) /\ SubSeq(s, 1, n + 1) = p \o <<s[n + 1]>>
      <3> HIDE DEF n
      <3> QED BY <2>3, DropIs, NextBytes
    <2>5. SubSeq(s, 1, Len(s)) = s
      BY <2>2
    <2>6. s = p \o l
      BY <2>1, <2>3, <2>4, <2>5
    <2>7. /\ l \in Seq(Bytes) /\ c \in Seq(Bytes) /\ w \in Seq(Bytes)
          /\ ~GoesOn(l) /\ ~GoesOn(w)
      BY DEF GoesOn, Bytes
    <2>8. l \o c = w
      <3> DEFINE v == l \o c
      <3>1. v \in Seq(Bytes) /\ Len(v) = 2 /\ v[1] = "L" /\ v[2] = "C"
        BY DEF Bytes
      <3> HIDE DEF v
      <3>2. v = w
        BY <3>1
      <3> QED BY <3>2 DEF v
    <2>9. Decoded(e, l) = <<>> /\ Decoded(e, w) = w
      BY <2>1, DecodedOne, DecodedPair DEF Bytes
    <2>10. Append(s, b) = s \o c
      BY <1>1, <2>1
    <2> HIDE DEF p, l, c, w, n
    <2>11. (p \o l) \o c = p \o (l \o c)
      BY <2>4, <2>7, Brackets
    <2>12. Append(s, b) = p \o w
      BY <2>6, <2>8, <2>10, <2>11
    <2>13. Decoded(e, p \o l) = Decoded(e, p) \o Decoded(e, l)
      BY <2>4, <2>7, DecodedConcat
    <2>14. Decoded(e, p \o w) = Decoded(e, p) \o Decoded(e, w)
      BY <2>4, <2>7, DecodedConcat
    <2> DEFINE d == Decoded(e, p)
    <2>15. d \in Seq(Bytes)
      BY <2>4, DecodedType
    <2> HIDE DEF d
    <2>16. d \o <<>> = d
      BY <2>15
    <2>17. Decoded(e, s) = d /\ Decoded(e, Append(s, b)) = d \o w
      BY <2>6, <2>9, <2>12, <2>13, <2>14, <2>16 DEF d
    <2> QED BY <2>7, <2>17
  <1> QED BY <1>2, <1>3

\* A call that delivers x, and may find the end of file.
LEMMA DeliverStep ==
  ASSUME IInv, IInv', NEW x, Delivers(x), ~con.is_closed
  PROVE  [S!Next]_(S!vars)
  <1> DEFINE t == Decoded(enc, sent)
             u == con'.utf8
             v == Decoded(enc, con'.buffer \o pipe')
  <1>1. /\ x \in Seq(Bytes) /\ got' = got \o x /\ UNCHANGED <<enc, sent, wopen>>
        /\ con'.is_closed = con.is_closed
        /\ con.is_eof => con'.is_eof
        /\ con'.is_eof => x = <<>>
    BY DEF Delivers
  <1>2. Meaning(sent) = t /\ Meaning(sent)' = t
    BY <1>1 DEF Meaning, Decoded, Form, Text
  <1>3. /\ got \in Seq(Bytes) /\ Typed(got', con', pipe')
        /\ con.is_eof \in BOOLEAN /\ con'.is_eof \in BOOLEAN
        /\ con'.is_eof => ~wopen /\ pipe' = <<>> /\ con'.buffer = <<>> /\ u = <<>>
        /\ con'.is_eof_raw => pipe' = <<>>
    BY <1>1, SeqBytes DEF IInv, EofInv, Shape, Flags, StateType, Buffers, Typed
  <1>4. (got' \o u) \o v = t
    <2>1. PICK done : Account(enc', sent', got', con', pipe', done)
      BY DEF IInv, Story
    <2>2. Account(enc, sent, got', con', pipe', done)
      BY <1>1, <2>1
    <2>3. Adds(enc, sent, got', con', pipe')
      BY <1>3, <2>2, AccountTotal
    <2> QED BY <2>3 DEF Adds
  <1>5. u \in Seq(Bytes) /\ v \in Seq(Bytes) /\ got' \in Seq(Bytes)
    <2>1. con'.buffer \in Seq(Bytes) /\ pipe' \in Seq(Bytes)
      BY <1>3 DEF Typed
    <2> DEFINE w == con'.buffer \o pipe'
    <2>2. w \in Seq(Bytes)
      BY <2>1, ConcatIs
    <2> HIDE DEF w
    <2>3. Decoded(enc, w) \in Seq(Bytes)
      BY <2>2, DecodedType
    <2> QED BY <1>3, <2>3 DEF Typed, w
  <1>6. con'.is_eof => got' = got /\ got = t
    <2>1. SUFFICES ASSUME con'.is_eof PROVE got' = got /\ got = t
      OBVIOUS
    <2>2. got' = got
      <3>1. got \o <<>> = got
        BY <1>3
      <3> QED BY <1>1, <2>1, <3>1
    <2>3. v = <<>>
      <3>1. <<>> \o <<>> = <<>>
        OBVIOUS
      <3> QED BY <1>3, <2>1, <3>1, DecodedEmpty
    <2> HIDE DEF u, v
    <2>4. (got \o <<>>) \o <<>> = got
      BY <1>3
    <2> QED BY <1>3, <1>4, <2>1, <2>2, <2>3, <2>4
  <1>7. S!IsInitialPart(got, got') /\ S!IsInitialPart(got', t)
    <2> HIDE DEF u, v, t
    <2>1. u \o v \in Seq(Bytes)
      BY <1>5, ConcatIs
    <2>2. (got' \o u) \o v = got' \o (u \o v)
      BY <1>5, Brackets
    <2>3. S!IsInitialPart(got', got' \o (u \o v))
      BY <1>5, <2>1, InitialPart
    <2> QED BY <1>1, <1>3, <1>4, <2>2, <2>3, InitialPart
  <1> HIDE DEF t, u, v
  <1>8. CASE con.is_eof
    BY <1>1, <1>2, <1>6, <1>8 DEF S!vars
  <1>9. CASE ~con.is_eof /\ con'.is_eof
    <2>1. S!End
      BY <1>1, <1>2, <1>3, <1>6, <1>9 DEF S!End
    <2> QED BY <2>1 DEF S!Next
  <1>10. CASE ~con.is_eof /\ ~con'.is_eof
    <2>1. S!Deliver
      BY <1>1, <1>2, <1>7, <1>10 DEF S!Deliver
    <2> QED BY <2>1 DEF S!Next
  <1> QED BY <1>8, <1>9, <1>10

\* A step that R does not see.
LEMMA UnseenStep ==
  ASSUME UNCHANGED <<enc, sent, wopen, got>>,
         con'.is_closed = con.is_closed, con'.is_eof = con.is_eof
  PROVE  [S!Next]_(S!vars)
  <1>1. Meaning(sent)' = Meaning(sent)
    BY DEF Meaning, Text
  <1> QED BY <1>1 DEF S!vars

\* Every step of the connection is one of the stream, or is not seen.
LEMMA StreamStep == IInv /\ IInv' /\ [Next]_vars => [S!Next]_(S!vars)
  <1> SUFFICES ASSUME IInv, IInv', [Next]_vars PROVE [S!Next]_(S!vars)
    OBVIOUS
  <1>0. EofInv'
    BY DEF IInv
  <1>1. ASSUME NEW b \in Byte, Write(b) PROVE [S!Next]_(S!vars)
    <2>1. wopen /\ sent' = Append(sent, b) /\ UNCHANGED <<con, enc, wopen, got>>
      BY <1>1 DEF Write
    <2>2. Meaning(sent) = Decoded(enc, sent) /\ Meaning(sent)' = Decoded(enc, Append(sent, b))
      BY <2>1 DEF Meaning, Decoded, Form, Text
    <2>3. sent \in Seq(Bytes) /\ b \in Bytes
      BY SeqBytes, ByteAssumption DEF IInv, StateType, Bytes
    <2>4. PICK x \in Seq(Bytes) : Decoded(enc, Append(sent, b)) = Decoded(enc, sent) \o x
      BY <2>3, DecodedGrows
    <2> DEFINE t == Decoded(enc, sent)
    <2>5. t \in Seq(Bytes)
      BY <2>3, DecodedType
    <2> HIDE DEF t
    <2>6. S!IsInitialPart(t, t \o x)
      BY <2>4, <2>5, InitialPart
    <2>7. S!Write
      BY <2>1, <2>2, <2>4, <2>6 DEF S!Write, t
    <2> QED BY <2>7 DEF S!Next
  <1>2. CASE CloseWrite
    <2>1. wopen /\ wopen' = FALSE /\ UNCHANGED <<con, enc, sent, got>>
      BY <1>2 DEF CloseWrite
    <2>2. Meaning(sent)' = Meaning(sent)
      BY <2>1 DEF Meaning, Text
    <2>3. S!Finish
      BY <2>1, <2>2 DEF S!Finish, IInv, EofInv
    <2> QED BY <2>3 DEF S!Next
  <1>3. ASSUME NEW n \in N, ReadChars(n) \/ ReadBytes(n) \/ LinesBegins(n)
        PROVE  [S!Next]_(S!vars)
    <2>1. ~con.is_closed
      BY <1>3 DEF ReadChars, ReadBytes, LinesBegins, MayRead
    <2>2. PICK x : Delivers(x)
      BY <1>0, <1>3, CharsTake, BytesTake, LinesBeginsStep DEF Left
    <2> QED BY <2>1, <2>2, DeliverStep
  <1>4. CASE LinesReads
    <2>1. ~con.is_closed
      BY <1>4 DEF LinesReads, IInv, ModeInv
    <2>2. PICK x : Delivers(x)
      BY <1>0, <1>4, LinesReadsStep DEF Left
    <2> QED BY <2>1, <2>2, DeliverStep
  <1>5. CASE ReadFails
    <2> DEFINE c == IF pc = "scan" /\ NeedsRealloc(con) THEN realloc(con) ELSE con
    <2>1. con' = alloc(c) /\ UNCHANGED <<enc, sent, wopen, got>>
      BY <1>5 DEF ReadFails, pipeVars
    <2>2. Same(c)
      BY SameMemory
    <2> HIDE DEF c
    <2>3. Same(con')
      BY <2>1, <2>2, SameMemory
    <2> QED BY <2>1, <2>3, UnseenStep DEF Same
  <1>6. CASE close
    <2>1. con' = [con EXCEPT !.is_closed = TRUE] /\ UNCHANGED <<enc, sent, wopen, got>>
      BY <1>6 DEF close, pipeVars
    <2>2. con'.is_closed = TRUE
      BY <2>1 DEF IInv, EofInv, Shape
    <2>3. Meaning(sent)' = Meaning(sent)
      BY <2>1 DEF Meaning, Text
    <2>4. S!Close
      BY <2>1, <2>2, <2>3 DEF S!Close
    <2> QED BY <2>4 DEF S!Next
  <1>7. ASSUME NEW ms \in {-1, 1}, PollBegins(ms) PROVE [S!Next]_(S!vars)
    <2>1. con' = pre_poll(con).con /\ UNCHANGED <<enc, sent, wopen, got>>
      BY <1>7 DEF PollBegins, pipeVars
    <2>2. \/ con' = con
          \/ Text /\ con' = to_utf8(con).con
      BY <2>1, PrePoll DEF PrePolled
    <2>3. CASE con' = con
      BY <2>1, <2>3, UnseenStep
    <2>4. CASE Text /\ con' = to_utf8(con).con
      <3>1. SameElse(con', con)
        BY <2>4, ToUtf8Says DEF IInv, EofInv
      <3> QED BY <2>1, <3>1, UnseenStep DEF SameElse
    <2> QED BY <2>2, <2>3, <2>4
  <1>8. CASE \/ PollReady \/ PollSilent \/ PollTimesOut
             \/ PollInterrupted \/ ReadAllBegins \/ ReadAllEnds \/ UNCHANGED vars
    <2>1. UNCHANGED <<con, enc, sent, wopen, got>>
      BY <1>8 DEF PollReady, PollSilent, PollTimesOut, PollInterrupted,
                  ReadAllBegins, ReadAllEnds, pipeVars, vars
    <2> QED BY <2>1, UnseenStep
  <1> QED BY <1>1, <1>2, <1>3, <1>4, <1>5, <1>6, <1>7, <1>8 DEF Next, Reader

\* A connection that was created is a stream that nobody wrote to.
LEMMA StreamInit == Init => S!Init
  <1> SUFFICES ASSUME Init PROVE S!Init
    OBVIOUS
  <1>1. /\ con.is_closed = FALSE /\ con.is_eof = FALSE /\ wopen = TRUE
        /\ sent = <<>> /\ got = <<>>
    BY DEF Init, connection_create
  <1>2. Meaning(sent) = <<>>
    BY <1>1, MeaningIs, DecodedEmpty
  <1> QED BY <1>1, <1>2 DEF S!Init

\* The connection, whatever the sizes of its buffers and the order of reads, writes and
\* polls, implements the stream.
THEOREM StreamIsImplemented == Spec => ImplementsStream
  <1>1. Spec => []IInv
    BY InvInit, InvStep, PTL DEF Spec
  <1> QED BY <1>1, StreamInit, StreamStep, PTL DEF Spec, ImplementsStream, S!Spec
=============================================================================
