------------------------------ MODULE Connection ------------------------------
(***************************************************************************)
(* The reading side of a connection (src/src/processx-connection.c) on     *)
(* Unix: the raw buffer, the conversion to UTF-8 and the UTF-8 buffer, the *)
(* calls that read characters, lines and bytes, polling, and the loops of  *)
(* R/io.R that read until the end.  The other end of the pipe is written   *)
(* and closed by another process at any time.                              *)
(*                                                                         *)
(* Bytes: "a" is any ASCII character but "n", the newline, and "r", the    *)
(* carriage return; "L" leads a two byte UTF-8 character, "C" continues    *)
(* it.  In latin1, "L" and "C" are characters of their own, which take two *)
(* bytes in UTF-8.                                                         *)
(***************************************************************************)
EXTENDS Integers, Sequences, FiniteSets

CONSTANTS
    Byte,        \* the bytes the other process writes,
    MaxSent,     \* and how many
    Encodings,   \* "UTF-8", "latin1" or "binary"
    Counts,      \* the values of the argument n of the calls, above 0
    MaxLines,    \* 1000 in the code: how many lines a call gives that asks for all
    BufferSize,  \* 64K in the code: of both buffers, when allocated
    Reserve,     \* 8 in the code: what is kept free in the UTF-8 buffer
    Faults       \* among "error" (of read()) and "interrupt" (of poll())

ASSUME ByteAssumption == Byte \subseteq {"a", "n", "r", "L", "C"}
ASSUME EncodingsAssumption == Encodings \subseteq {"UTF-8", "latin1", "binary"}
ASSUME SizeAssumption == /\ MaxSent \in Nat
                         /\ BufferSize \in Nat \ {0}
                         /\ Reserve \in 2..BufferSize
                         /\ Counts \subseteq Nat
                         /\ MaxLines \in Nat \ {0}

VARIABLES
    con,      \* processx_connection_t
    enc,      \* its encoding
    pipe,     \* the bytes in the pipe
    wopen,    \* the other end is open
    pc,       \* "idle", "scan" in read_until_newline, "poll" in poll()
    end,      \* read_until_newline: how much of con.utf8 was searched
    want,     \* read_lines: maxlines; poll: whether it times out
    loop,     \* the next step of read_all_output, "no" if it does not run
    event,    \* what poll() said, if that was the last step
    res,      \* what read_lines() returned, if that was the last step
    sent,     \* all that was written,
    got       \* and all that was taken out of the buffers for R

callVars == <<pc, end, want>>
pipeVars == <<pipe, wopen, sent>>
vars == <<con, enc, pipeVars, callVars, loop, event, res, got>>

Text == enc # "binary"

\* A step that answers nothing.
Quiet == event' = "none" /\ res' = <<>>

\* A call returns.
Idle == pc' = "idle" /\ end' = 0 /\ want' = 0

\* -1 stands for all.
N == Counts \cup {-1}

--------------------------------------------------------------------------------
(* Sequences. *)

\* Op(v), written so that TLC evaluates v once.
Once(Op(_), v) == CHOOSE y \in {Op(x) : x \in {v}} : TRUE

Drop(s, n) == SubSeq(s, n + 1, Len(s))
Least(i, j) == IF i <= j THEN i ELSE j

\* The position of the first newline in s[from + 1 .. to], 0 if there is none.
NewlineIn(s, from, to) ==
    LET At == {i \in (from + 1)..to : s[i] = "n"}
    IN  IF At = {} THEN 0 ELSE CHOOSE i \in At : \A j \in At : i <= j

Newlines(s, i) == Cardinality({j \in 1..i : s[j] = "n"})

\* The position of the k-th newline.
NthNewline(s, k) ==
    IF k = 0 THEN 0 ELSE CHOOSE i \in DOMAIN s : s[i] = "n" /\ Newlines(s, i) = k

--------------------------------------------------------------------------------
(* Conversion. *)

\* iconv() at byte i of s: a character of n bytes and its UTF-8 form, or an error.
CharAt(s, i) ==
    CASE s[i] \in {"a", "n", "r"}  -> [err |-> "ok", n |-> 1, out |-> <<s[i]>>]
      [] enc = "latin1" /\ s[i] \in {"L", "C"} ->
             [err |-> "ok", n |-> 1, out |-> <<"L", "C">>]
      [] enc # "latin1" /\ s[i] = "L" /\ i = Len(s) ->
             [err |-> "EINVAL", n |-> 0, out |-> <<>>]
      [] enc # "latin1" /\ s[i] = "L" /\ i < Len(s) /\ s[i + 1] = "C" ->
             [err |-> "ok", n |-> 2, out |-> <<"L", "C">>]
      [] OTHER -> [err |-> "EILSEQ", n |-> 0, out |-> <<>>]

\* The bytes of a buffer that are consumed, and their UTF-8 form, if there is
\* room for `room' bytes: conversion stops if the room is used up or a character
\* is not complete, which is dropped at the end of the stream (last); invalid
\* bytes are skipped.
Bug_ConvertStep(x, ch, size, room, last) ==
    CASE ch.err = "EILSEQ" -> [x EXCEPT !.in = @ + 1]
      [] ch.err = "EINVAL" -> [x EXCEPT !.stop = TRUE, !.in = size]
      [] ch.err = "ok" /\ Len(x.out) + Len(ch.out) > room -> [x EXCEPT !.stop = TRUE]
      [] OTHER -> [x EXCEPT !.in = @ + ch.n, !.out = @ \o ch.out]
ConvertStep(x, ch, size, room, last) ==
    CASE ch.err = "EILSEQ" -> [x EXCEPT !.in = @ + 1]
      [] ch.err = "EINVAL" -> [x EXCEPT !.stop = TRUE, !.in = IF last THEN size ELSE @]
      [] ch.err = "ok" /\ Len(x.out) + Len(ch.out) > room -> [x EXCEPT !.stop = TRUE]
      [] OTHER -> [x EXCEPT !.in = @ + ch.n, !.out = @ \o ch.out]

Converted(s, room, last) ==
    LET Move(x) == IF x.stop \/ x.in = Len(s) THEN x
                   ELSE ConvertStep(x, CharAt(s, x.in + 1), Len(s), room, last)
        state[k \in 0..Len(s)] ==
          IF k = 0 THEN [in |-> 0, out |-> <<>>, stop |-> FALSE]
                   ELSE Once(Move, state[k - 1])
    IN  state[Len(s)]

\* Mutant: the output begins at the start of the UTF-8 buffer.
BugOffset_to_utf8(c) ==
    LET room == c.utf8_allocated - Len(c.utf8)
        After(x) == [con |-> [c EXCEPT !.buffer = Drop(@, x.in),
                                       !.utf8 = x.out \o @],
                     ret |-> Len(x.out)]
    IN  IF c.buffer = <<>> \/ room = 0
        THEN [con |-> c, ret |-> 0]
        ELSE Once(After, Converted(c.buffer, room, c.is_eof_raw))
\* processx__connection_to_utf8: the connection after it, and its value.
to_utf8(c) ==
    LET room == c.utf8_allocated - Len(c.utf8)
        After(x) == [con |-> [c EXCEPT !.buffer = Drop(@, x.in), !.utf8 = @ \o x.out],
                     ret |-> Len(x.out)]
    IN  IF c.buffer = <<>> \/ room = 0
        THEN [con |-> c, ret |-> 0]
        ELSE Once(After, Converted(c.buffer, room, c.is_eof_raw))

--------------------------------------------------------------------------------
(* Reading from the pipe. *)

alloc(c) == IF c.allocated THEN c
            ELSE [c EXCEPT !.allocated = TRUE, !.utf8_allocated = BufferSize]

realloc(c) ==
    LET size == c.utf8_allocated
        new == (size * 12) \div 10
    IN  [c EXCEPT !.utf8_allocated = IF new = size THEN 2 * new ELSE new]

\* read(): what is in the pipe, as much as there is room for; nothing if the
\* pipe is empty (EAGAIN); end of file (or EIO) if it was closed as well.
Incoming(room) ==
    IF pipe = <<>> THEN <<>> ELSE SubSeq(pipe, 1, Least(room, Len(pipe)))
AtEnd == pipe = <<>> /\ ~wopen

Bug_Drained(c) == c.buffer = <<>>
Drained(c) == c.utf8 = <<>> /\ c.buffer = <<>>

\* processx__connection_read: the connection after it, its value, and how many
\* bytes it took from the pipe.
connection_read(c) ==
    LET a == alloc(c)
        todo == BufferSize - Len(a.buffer)
        data == Incoming(todo)
        b == [a EXCEPT !.buffer = @ \o data,
                       !.is_eof_raw = @ \/ AtEnd,
                       !.is_eof = @ \/ (AtEnd /\ Drained(a))]
        Result(x) == [con |-> x.con, ret |-> x.ret, took |-> Len(data)]
    IN  IF c.is_eof_raw /\ c.buffer = <<>>
        THEN [con |-> [c EXCEPT !.is_eof = @ \/ c.utf8 = <<>>], ret |-> 0, took |-> 0]
        ELSE IF todo = 0 THEN Once(Result, to_utf8(a))
        ELSE IF ~b.raw_mode /\ b.buffer # <<>> THEN Once(Result, to_utf8(b))
        ELSE [con |-> b, ret |-> Len(b.buffer), took |-> Len(data)]

NoRead(c) == [con |-> c, ret |-> 0, took |-> 0]

--------------------------------------------------------------------------------
(* The other process. *)

Write(b) ==
    /\ wopen
    /\ Len(sent) < MaxSent
    /\ pipe' = Append(pipe, b)
    /\ sent' = Append(sent, b)
    /\ Quiet
    /\ UNCHANGED <<con, enc, wopen, callVars, loop, got>>

CloseWrite ==
    /\ wopen
    /\ wopen' = FALSE
    /\ Quiet
    /\ UNCHANGED <<con, enc, pipe, callVars, loop, sent, got>>

--------------------------------------------------------------------------------
(* Calls of R.  A read, with result r, takes r.took bytes from the pipe    *)
(* and leaves the connection as r.con; then R gets k bytes of a buffer.    *)

MayRead == pc = "idle" /\ loop \in {"no", "read"} /\ ~con.is_closed

Take(r, buf, k) ==
    /\ con' = [r.con EXCEPT ![buf] = Drop(@, k)]
    /\ got' = got \o SubSeq(r.con[buf], 1, k)
    /\ pipe' = Drop(pipe, r.took)
    /\ event' = "none"
    /\ UNCHANGED <<enc, wopen, sent>>

LoopOn == loop' = IF loop = "read" THEN "poll" ELSE loop

\* The loops of read_all_output read all there is.
CountFor(n) == loop = "read" => n = -1

\* processx__connection_find_utf8_chars: how many bytes the first n characters
\* take.  The first byte of each tells its length.
WholeChars(s) == s # <<>> => s[1] # "C" /\ s[Len(s)] # "L"
find_utf8_chars(s, n) ==
    LET Starts(i) == Cardinality({j \in 1..i : s[j] # "C"})
        Cut(i) == i = Len(s) \/ s[i + 1] # "C"
    IN  IF n = -1 \/ Starts(Len(s)) <= n THEN Len(s)
        ELSE CHOOSE i \in 0..Len(s) : Cut(i) /\ Starts(i) = n

\* processx_connection_read_chars.  It throws if the buffer is not whole
\* characters; what was read before stays in the buffer.
ReadChars(n) ==
    /\ MayRead /\ Text
    /\ CountFor(n)
    /\ \E r \in {IF ~con.is_eof /\ con.utf8 = <<>> THEN connection_read(con) ELSE NoRead(con)} :
          LET u == r.con.utf8
          IN  Take(r, "utf8", IF WholeChars(u) THEN find_utf8_chars(u, n) ELSE 0)
    /\ res' = <<>>
    /\ LoopOn
    /\ UNCHANGED callVars

\* processx_connection_read_bytes
ReadBytes(n) ==
    LET c == [con EXCEPT !.raw_mode = TRUE]
    IN  /\ MayRead /\ ~Text
        /\ CountFor(n)
        /\ \E r \in {IF c.buffer = <<>> /\ ~c.is_eof_raw THEN connection_read(c) ELSE NoRead(c)} :
              LET size == Len(r.con.buffer)
                  eof == r.con.is_eof_raw /\ r.con.buffer = <<>>
              IN  Take([r EXCEPT !.con.is_eof = @ \/ eof],
                       "buffer", IF n = -1 THEN size ELSE Least(n, size))
        /\ res' = <<>>
        /\ LoopOn
        /\ UNCHANGED callVars

\* The text that is left is the last line, although it does not end with "n".
Bug_LastLine(c) == c.is_eof_raw /\ c.utf8 # <<>> /\ c.utf8[Len(c.utf8)] # "n"
LastLine(c) ==
    /\ c.is_eof_raw
    /\ c.utf8 # <<>>
    /\ c.buffer = <<>>
    /\ c.utf8[Len(c.utf8)] # "n"

\* processx__connection_find_lines, after the search for a newline, and the rest
\* of processx_connection_read_lines: up to n lines, or MaxLines, and what follows
\* them if no more data will come and it does not end with a newline.
LinesServed(r, newline, n) ==
    LET u == r.con.utf8
        size == Len(u)
        lines == IF newline = 0 THEN 0
                 ELSE Least(IF n = -1 THEN MaxLines ELSE n, Newlines(u, size))
        eof == LastLine(r.con)
        Eol(l) == NthNewline(u, l)
        slashr(l) == IF Eol(l) > 1 /\ u[Eol(l) - 1] = "r" THEN 1 ELSE 0
        Line(l) == SubSeq(u, Eol(l - 1) + 1, Eol(l) - 1 - slashr(l))
    IN  /\ res' = [l \in 1..lines |-> Line(l)]
                  \o (IF eof THEN <<SubSeq(u, Eol(lines) + 1, size)>> ELSE <<>>)
        /\ Take(r, "utf8", IF eof THEN size ELSE Eol(lines))
        /\ Idle
        /\ LoopOn

\* processx_connection_read_lines up to the loop of read_until_newline: something
\* is read if the buffer is empty, then the buffer is searched.
LinesBegins(n) ==
    /\ MayRead /\ Text
    /\ CountFor(n)
    /\ \E r \in {IF con.utf8 = <<>> THEN connection_read(con) ELSE NoRead(con)} :
          LET u == r.con.utf8
              newline == NewlineIn(u, 0, Len(u))
          IN  IF u = <<>> \/ newline # 0
              THEN LinesServed(r, newline, n)
              ELSE /\ Take(r, "utf8", 0)
                   /\ pc' = "scan"
                   /\ end' = Len(u)
                   /\ want' = n
                   /\ res' = <<>>
                   /\ UNCHANGED loop

\* Where the search ends after more was read: `end' is not moved.
SearchEnd(c) == end

Bug_NeedsRealloc(c) == Len(c.utf8) >= c.utf8_allocated
NeedsRealloc(c) == Len(c.utf8) >= c.utf8_allocated - Reserve

\* One more read() in read_until_newline.
LinesReads ==
    LET c == IF NeedsRealloc(con) THEN realloc(con) ELSE con
    IN  /\ pc = "scan"
        /\ \E r \in {IF con.is_eof THEN NoRead(con) ELSE connection_read(c)} :
              LET newline == NewlineIn(r.con.utf8, end, SearchEnd(r.con))
              IN  IF r.ret = 0 THEN LinesServed(r, 0, want)
                  ELSE IF newline # 0 THEN LinesServed(r, newline, want)
                  ELSE /\ Take(r, "utf8", 0)
                       /\ end' = SearchEnd(r.con)
                       /\ res' = <<>>
                       /\ UNCHANGED <<pc, want, loop>>

\* read() fails: the call throws, and so does the loop around it.
Reads(c) == ~(c.is_eof_raw /\ c.buffer = <<>>) /\ Len(c.buffer) < BufferSize
ReadFails ==
    /\ "error" \in Faults
    /\ \/ pc = "scan"
       \/ MayRead /\ con.utf8 = <<>> /\ (Text \/ con.buffer = <<>>)
    /\ Reads(con)
    /\ con' = alloc(IF pc = "scan" /\ NeedsRealloc(con) THEN realloc(con) ELSE con)
    /\ Idle
    /\ loop' = "no"
    /\ Quiet
    /\ UNCHANGED <<enc, pipeVars, got>>

close ==
    /\ pc = "idle" /\ loop = "no"
    /\ con' = [con EXCEPT !.is_closed = TRUE]
    /\ Quiet
    /\ UNCHANGED <<enc, pipeVars, callVars, loop, got>>

--------------------------------------------------------------------------------
(* Polling. *)

\* PROCESSX__I_PRE_POLL_FUNC_CONNECTION_READY: what can be said without poll().
Bug_pre_poll(c) ==
    [con |-> c, event |-> IF c.is_closed THEN "closed"
                          ELSE IF c.is_eof \/ c.utf8 # <<>> \/ (c.raw_mode /\ c.buffer # <<>>)
                               THEN "ready" ELSE "handle"]
pre_poll(c) ==
    LET Says(d, e) == [con |-> d, event |-> e]
    IN  CASE c.is_closed                     -> Says(c, "closed")
          [] ~c.is_closed /\ c.is_eof        -> Says(c, "ready")
          [] ~c.is_closed /\ ~c.is_eof /\ c.raw_mode ->
                 Says(c, IF c.buffer # <<>> THEN "ready" ELSE "handle")
          [] OTHER ->
                 IF c.utf8 # <<>> \/ (c.buffer # <<>> /\ c.is_eof_raw)
                 THEN Says(c, "ready")
                 ELSE LET Tried(x) ==
                            Says(x.con, IF x.con.utf8 # <<>> THEN "ready" ELSE "handle")
                      IN  Once(Tried, to_utf8(c))

PollSays(e) ==
    /\ event' = e
    /\ Idle
    /\ loop' = IF loop = "poll" THEN "read" ELSE loop

\* poll(list(con), ms), up to the system call.  ms is -1 or not.
PollBegins(ms) ==
    /\ pc = "idle"
    /\ \/ loop = "no"
       \/ loop = "poll" /\ ~con.is_eof /\ ms = -1
    /\ \E p \in {pre_poll(con)} :
          /\ con' = p.con
          /\ IF p.event = "handle"
             THEN pc' = "poll" /\ want' = ms /\ event' = "none" /\ UNCHANGED <<end, loop>>
             ELSE PollSays(p.event)
    /\ res' = <<>>
    /\ UNCHANGED <<enc, pipeVars, got>>

\* The pipe has data, or its other end is closed: POLLIN or POLLHUP.
PollReady ==
    /\ pc = "poll"
    /\ pipe # <<>> \/ ~wopen
    /\ PollSays("ready")
    /\ res' = <<>>
    /\ UNCHANGED <<con, enc, pipeVars, got>>

\* Something else that is polled was ready: an output of the same process.
PollSilent ==
    /\ pc = "poll"
    /\ pipe = <<>> /\ wopen
    /\ PollSays("silent")
    /\ res' = <<>>
    /\ UNCHANGED <<con, enc, pipeVars, got>>

PollTimesOut ==
    /\ pc = "poll" /\ want # -1
    /\ pipe = <<>> /\ wopen
    /\ PollSays("timeout")
    /\ res' = <<>>
    /\ UNCHANGED <<con, enc, pipeVars, got>>

\* R_CheckUserInterrupt in processx__interruptible_poll.
PollInterrupted ==
    /\ "interrupt" \in Faults
    /\ pc = "poll"
    /\ pipe = <<>> /\ wopen
    /\ Idle
    /\ loop' = "no"
    /\ Quiet
    /\ UNCHANGED <<con, enc, pipeVars, got>>

--------------------------------------------------------------------------------
(* process_read_all_output, process_read_all_output_lines: poll and read   *)
(* while the output is incomplete.                                         *)

ReadAllBegins ==
    /\ pc = "idle" /\ loop = "no" /\ ~con.is_closed
    /\ loop' = "poll"
    /\ Quiet
    /\ UNCHANGED <<con, enc, pipeVars, callVars, got>>

ReadAllEnds ==
    /\ pc = "idle" /\ loop = "poll" /\ con.is_eof
    /\ loop' = "no"
    /\ Quiet
    /\ UNCHANGED <<con, enc, pipeVars, callVars, got>>

--------------------------------------------------------------------------------

\* processx_c_connection_create, for the read end of a pipe.
connection_create ==
    con = [is_closed |-> FALSE, is_eof |-> FALSE, is_eof_raw |-> FALSE,
           raw_mode |-> enc = "binary", allocated |-> FALSE,
           buffer |-> <<>>, utf8 |-> <<>>, utf8_allocated |-> 0]

Init ==
    /\ enc \in Encodings
    /\ connection_create
    /\ pipe = <<>> /\ wopen = TRUE
    /\ pc = "idle" /\ end = 0 /\ want = 0
    /\ loop = "no" /\ event = "none" /\ res = <<>>
    /\ sent = <<>> /\ got = <<>>

Reader ==
    \/ \E n \in N : ReadChars(n) \/ ReadBytes(n) \/ LinesBegins(n)
    \/ LinesReads \/ ReadFails \/ close
    \/ \E ms \in {-1, 1} : PollBegins(ms)
    \/ PollReady \/ PollSilent \/ PollTimesOut \/ PollInterrupted
    \/ ReadAllBegins \/ ReadAllEnds

Next ==
    \/ \E b \in Byte : Write(b)
    \/ CloseWrite
    \/ Reader

Spec == Init /\ [][Next]_vars

\* The system call that was begun is carried out, and the loop of read_all_output
\* goes on.  Nobody has to write, to close, or to call anything.
Fairness ==
    /\ WF_vars(LinesReads)
    /\ WF_vars(PollReady)
    /\ WF_vars(loop = "poll" /\ PollBegins(-1))
    /\ WF_vars(loop = "read" /\ (ReadChars(-1) \/ ReadBytes(-1) \/ LinesBegins(-1)))
    /\ WF_vars(ReadAllEnds)

FairSpec == Spec /\ Fairness

--------------------------------------------------------------------------------
(* Properties. *)

Utf8Bytes == Seq({"a", "n", "r", "L", "C"})

\* The fields of the connection have their types, and neither buffer holds more
\* than was allocated for it (the arithmetic of todo and outbytesleft).
TypeOK ==
    /\ con.buffer \in Seq(Byte) /\ Len(con.buffer) <= BufferSize
    /\ con.utf8 \in Utf8Bytes /\ Len(con.utf8) <= con.utf8_allocated
    /\ \A f \in {"is_closed", "is_eof", "is_eof_raw", "raw_mode", "allocated"} :
           con[f] \in BOOLEAN
    /\ enc \in Encodings
    /\ pipe \in Seq(Byte) /\ sent \in Seq(Byte) /\ got \in Utf8Bytes
    /\ wopen \in BOOLEAN
    /\ pc \in {"idle", "scan", "poll"}
    /\ end \in 0..Len(con.utf8) \/ pc # "scan"
    /\ want \in N \cup {0, 1}
    /\ loop \in {"no", "poll", "read"}
    /\ event \in {"none", "ready", "silent", "timeout", "closed"}
    /\ res \in Seq(Utf8Bytes)

\* The UTF-8 form of s, byte by byte: a byte is kept if it is a character, or one
\* half of a whole two byte character.
Meaning(s) ==
    LET Half(i) == \/ s[i] = "L" /\ i < Len(s) /\ s[i + 1] = "C"
                   \/ s[i] = "C" /\ i > 1 /\ s[i - 1] = "L"
        Form(i) == IF s[i] \notin {"L", "C"} THEN <<s[i]>>
                   ELSE IF enc = "latin1" THEN <<"L", "C">>
                   ELSE IF Half(i) THEN <<s[i]>> ELSE <<>>
        upTo[i \in 0..Len(s)] == IF i = 0 THEN <<>> ELSE upTo[i - 1] \o Form(i)
    IN  IF Text THEN upTo[Len(s)] ELSE s

\* processx__connection_read, to_utf8 and the calls that take data out of the
\* buffers lose, double or reorder nothing: what R got, what is in the buffers
\* and what is in the pipe is what was written, without invalid bytes, however
\* reads, writes and polls interleave and wherever the buffers fill up.
NothingLost ==
    IF Text THEN got \o con.utf8 \o Meaning(con.buffer \o pipe) = Meaning(sent)
            ELSE got \o con.buffer \o pipe = sent

\* is_incomplete() is FALSE (is_eof_) only when the other end is closed and R
\* has got everything.
EofTrue ==
    con.is_eof => /\ ~wopen /\ pipe = <<>>
                  /\ con.buffer = <<>> /\ con.utf8 = <<>>

\* find_utf8_chars never meets a character it cannot tell the length of, which it
\* calls an internal error: both ends of the buffer are ends of characters.
NoInternalError == WholeChars(con.utf8)

\* The buffers are sound after every call: within their allocation, at the ends
\* of characters, and with every byte in its place (processx-connection.c:1900-2067).
Inv == TypeOK /\ NothingLost /\ NoInternalError

\* poll() does not wait for the pipe while a character, or a byte in raw mode, is
\* in the buffers, nor at the end of file; and if it says "ready" then there is
\* something to read, or the end of file.
PollTrue ==
    /\ pc = "poll" => /\ ~con.is_eof /\ con.utf8 = <<>>
                      /\ Meaning(con.buffer) = <<>>
    /\ event = "ready" => con.utf8 # <<>> \/ con.buffer # <<>> \/ pipe # <<>> \/ ~wopen

\* read_lines() takes an unterminated line out of the buffer only when all the
\* output was read and the other end is closed.
LinesComplete ==
    res # <<>> => \/ got[Len(got)] = "n"
                  \/ ~wopen /\ pipe = <<>> /\ con.buffer = <<>> /\ con.utf8 = <<>>

\* Once the other end is closed, read_all_output() and read_all_output_lines()
\* return: poll() wakes up and is_eof_ is set, whatever is left in the buffers.
ReadAllReturns == (loop # "no" /\ ~wopen) ~> (loop = "no")

\* Every string that read_lines() returns is one line: `$read_output_lines()`
\* "only returns complete lines".
LinesAreLines == \A l \in DOMAIN res : \A i \in DOMAIN res[l] : res[l][i] # "n"
================================================================================
