--------------------------------- MODULE Run ---------------------------------
(***************************************************************************)
(* run() on Unix (R/run.R): the loop that checks the process and the time, *)
(* feeds a pseudo terminal, polls and reads, the second loop that reads    *)
(* what is left, and the ways out: a timeout, an error in a callback, an   *)
(* interrupt.  Around it are the process, which writes, reads and exits    *)
(* when it likes, and another process that it may leave behind and that    *)
(* keeps its outputs open.                                                 *)
(*                                                                         *)
(* A connection is what the module Stream says, and what Connection was    *)
(* shown to implement: a read gives the next characters, at least one and  *)
(* at most n, or nothing if there are none, or the end of file, once       *)
(* nobody can write.  kill() does what the module Process has.             *)
(*                                                                         *)
(* Characters: "n" is the newline, "r" the carriage return, "x" any other. *)
(***************************************************************************)
EXTENDS Integers, Sequences, FiniteSets

CONSTANTS
    Modes,     \* among "pipes" and "pty"
    Char,      \* what is written
    MaxOut,    \* bound: how many characters are written, to all streams together
    PipeSize,  \* how many characters a pipe or a terminal holds,
    TtySize,   \* and how many a terminal holds in the other direction
    MaxIn,     \* the size of the file for the terminal's input
    Chunk,     \* 2000 in the code: how many characters a read asks for
    Env        \* among "timeout", "other", "interrupt", "throws" (a callback throws),
               \* "kills" (a callback kills the process), "error" (one read() fails)

ASSUME ModesAssumption == Modes \subseteq {"pipes", "pty"}
ASSUME CharAssumption == Char \subseteq {"x", "r", "n"}
ASSUME SizeAssumption == /\ MaxOut \in Nat /\ MaxIn \in Nat
                         /\ PipeSize \in Nat \ {0} /\ TtySize \in Nat \ {0}
                         /\ Chunk \in Nat \ {0}

VARIABLES
    mode,      \* never changes
    child,     \* the process
    holds,     \* who has the other ends: the process and the one it left behind
    pipe,      \* what is in the pipes
    written,   \* history: all that was written
    con,       \* R's ends
    tty,       \* how much is queued for the process to read
    feed,      \* stdin_remaining, and stdin_eof_sent
    late,      \* the time of `timeout' is over
    pc,        \* where R is
    drain,     \* R is in the second loop
    ok,        \* `ok' of do_output
    buf,       \* resenv$outbuf and errbuf
    pushback,  \* pushback_out and pushback_err
    lines,     \* what the line callbacks were called with
    timeout,   \* timeout_happened
    lost,      \* kill() has reaped the process and dropped its status
    spoiled,   \* history: a read failed, or a callback closed the connections
    cleanup    \* history: what run() did when it was left, "kill" or "tree"

kernVars == <<child, holds, pipe, written, tty>>
bufVars == <<buf, pushback, lines>>
endVars == <<timeout, lost, spoiled, cleanup>>
vars == <<mode, kernVars, con, feed, late, pc, drain, ok, bufVars, endVars>>

Stream == {"stdout", "stderr"}

\* The connections of the process; "poll" is the poll connection, which is there
\* when neither stdout nor stderr is a pipe, as with a pty.
Piped == IF mode = "pty" THEN {"stdout"} ELSE Stream
Conns == IF mode = "pty" THEN {"stdout", "poll"} ELSE Stream

SIGTERM == 15
SIGKILL == 9
Running == child.st = "run"
Over == pc \in {"done", "error", "interrupted"}

Least(i, j) == IF i <= j THEN i ELSE j
Drop(s, n) == SubSeq(s, n + 1, Len(s))

--------------------------------------------------------------------------------
(* The process, and the one it leaves behind. *)

\* What was written, with what the process is about to write.
Amount == Len(written["stdout"]) + Len(written["stderr"])
          + (IF child.op = "free" THEN 0 ELSE 1)

\* It starts to write: it does nothing else until there is room.
ChildBlocks(s) ==
    /\ Running /\ child.op = "free"
    /\ "child" \in holds[s]
    /\ Amount < MaxOut
    /\ child' = [child EXCEPT !.op = s]
    /\ UNCHANGED <<mode, holds, pipe, written, tty, con, feed, late, pc, drain, ok,
                   bufVars, endVars>>

Writes(s, c) ==
    /\ Len(pipe[s]) < PipeSize
    /\ pipe' = [pipe EXCEPT ![s] = Append(@, c)]
    /\ written' = [written EXCEPT ![s] = Append(@, c)]

ChildWrites ==
    /\ Running /\ child.op # "free"
    /\ \E c \in Char : Writes(child.op, c)
    /\ child' = [child EXCEPT !.op = "free"]
    /\ UNCHANGED <<mode, holds, tty, con, feed, late, pc, drain, ok, bufVars, endVars>>

ChildReads ==
    /\ Running /\ child.op = "free"
    /\ tty > 0
    /\ tty' = tty - 1
    /\ UNCHANGED <<mode, child, holds, pipe, written, con, feed, late, pc, drain, ok,
                   bufVars, endVars>>

ChildCloses(s) ==
    /\ Running /\ child.op = "free"
    /\ mode = "pipes" /\ "child" \in holds[s]
    /\ holds' = [holds EXCEPT ![s] = @ \ {"child"}]
    /\ UNCHANGED <<mode, child, pipe, written, tty, con, feed, late, pc, drain, ok,
                   bufVars, endVars>>

Dead(code) == [st |-> "dead", code |-> code, op |-> "free"]
Without(who) == [c \in DOMAIN holds |-> holds[c] \ who]

ChildExits ==
    /\ Running /\ child.op = "free"
    /\ child' = Dead(0)
    /\ holds' = Without({"child"})
    /\ UNCHANGED <<mode, pipe, written, tty, con, feed, late, pc, drain, ok, bufVars, endVars>>

OtherWrites(s) ==
    /\ "other" \in holds[s]
    /\ Amount < MaxOut
    /\ \E c \in Char : Writes(s, c)
    /\ UNCHANGED <<mode, child, holds, tty, con, feed, late, pc, drain, ok, bufVars, endVars>>

OtherEnds ==
    /\ \E c \in Conns : "other" \in holds[c]
    /\ holds' = Without({"other"})
    /\ UNCHANGED <<mode, child, pipe, written, tty, con, feed, late, pc, drain, ok,
                   bufVars, endVars>>

TimePasses ==
    /\ "timeout" \in Env /\ ~late
    /\ late' = TRUE
    /\ UNCHANGED <<mode, kernVars, con, feed, pc, drain, ok, bufVars, endVars>>

--------------------------------------------------------------------------------
(* Killing. *)

Closed == [c \in DOMAIN con |-> [con[c] EXCEPT !.closed = TRUE]]

\* What c_processx_kill may find: the process exits just before its waitpid(),
\* which drops the status; it ends by SIGTERM, or exits because of it, within the
\* grace period; it ends by SIGKILL.  The value is TRUE if a signal has ended it.
Outcome == {"raced", "term", "exits", "kill"}
Killed(o) == Running /\ o \in {"term", "kill"}
Kill(o) ==
    /\ o \in Outcome
    /\ child' = CASE ~Running                        -> child
                  [] Running /\ o = "term"           -> Dead(SIGTERM)
                  [] Running /\ o = "kill"           -> Dead(SIGKILL)
                  [] Running /\ o \in {"raced", "exits"} -> Dead(0)
    /\ lost' = (lost \/ (Running /\ o = "raced"))
    /\ \E who \in {{"child"}} \cup (IF Running /\ o # "raced" THEN {{"child", "other"}} ELSE {}) :
          holds' = Without(who)

\* ps_kill_tree() of the package ps (external): whoever was started by the process
\* is found by a mark in the environment, which all of them are taken to have kept,
\* and ended.  The status of the process is not collected.
KillTree ==
    /\ child' = IF Running THEN Dead(SIGKILL) ELSE child
    /\ holds' = Without({"child", "other"})
    /\ UNCHANGED lost

\* defer(pr$kill()), or defer(pr$kill_tree()) with the argument cleanup_tree: however
\* run() is left, the process is killed and the connections are closed.
Leaves ==
    /\ \/ (\E o \in Outcome : Kill(o)) /\ cleanup' = "kill"
       \/ KillTree /\ cleanup' = "tree"
    /\ con' = Closed

--------------------------------------------------------------------------------
(* The loop while the process is alive. *)

LoopChecks ==
    /\ pc = "alive"
    /\ pc' = IF Running THEN "time" ELSE "wait"
    /\ UNCHANGED <<mode, kernVars, con, feed, late, drain, ok, bufVars, endVars>>

\* Mutant: the value of kill() is not looked at.
Bug_Expires ==
    /\ pc = "time" /\ late
    /\ \E o \in Outcome : Kill(o)
    /\ timeout' = TRUE
    /\ pc' = "wait"
    /\ UNCHANGED <<mode, pipe, written, tty, con, feed, late, drain, ok, bufVars, spoiled,
                   cleanup>>
\* The time is over: kill(close_connections = FALSE).
Expires ==
    /\ pc = "time" /\ late
    /\ \E o \in Outcome : Kill(o) /\ timeout' = Killed(o)
    /\ pc' = "wait"
    /\ UNCHANGED <<mode, pipe, written, tty, con, feed, late, drain, ok, bufVars, spoiled,
                   cleanup>>

InTime ==
    /\ pc = "time" /\ ~late
    /\ pc' = IF feed.eof THEN "poll" ELSE "feed"
    /\ UNCHANGED <<mode, kernVars, con, feed, late, drain, ok, bufVars, endVars>>

\* Nobody has the terminal open any more.
Hungup == ~Running /\ holds["stdout"] = {}

\* Mutant: all of the input is written before anything is polled.
Bug_FeedWrites ==
    LET n == Least(feed.left, TtySize - tty)
    IN  /\ pc = "feed" /\ ~Hungup
        /\ tty' = tty + n
        /\ feed' = [left |-> feed.left - n, eof |-> n = feed.left]
        /\ pc' = IF n = feed.left THEN "poll" ELSE "feed"
        /\ UNCHANGED <<mode, child, holds, pipe, written, con, late, drain, ok, bufVars, endVars>>
\* write_input() does not wait: it writes what fits and returns the rest.  After
\* the last of it come the two bytes of the end of file, as far as they fit.
FeedWrites ==
    LET n == Least(feed.left, TtySize - tty)
        eof == n = feed.left
    IN  /\ pc = "feed" /\ ~Hungup
        /\ tty' = IF eof THEN Least(tty + n + 2, TtySize) ELSE tty + n
        /\ feed' = [left |-> feed.left - n, eof |-> eof]
        /\ pc' = "poll"
        /\ UNCHANGED <<mode, child, holds, pipe, written, con, late, drain, ok, bufVars, endVars>>

\* write() fails with EIO, and run() with an error.
FeedFails ==
    /\ pc = "feed" /\ Hungup
    /\ pc' = "error"
    /\ Leaves
    /\ UNCHANGED <<mode, pipe, written, tty, feed, late, drain, ok, bufVars, timeout, spoiled>>

\* processx_poll: what poll_io() finds for a connection.
Ready(c) ==
    /\ ~con[c].closed
    /\ \/ con[c].eof
       \/ c # "poll" /\ pipe[c] # <<>>
       \/ holds[c] = {}
AnyReady == \E c \in Conns : Ready(c)
AllClosed == \A c \in Conns : con[c].closed

PollReady ==
    /\ pc = "poll" /\ AnyReady
    /\ pc' = "stdout"
    /\ ok' = FALSE
    /\ UNCHANGED <<mode, kernVars, con, feed, late, drain, bufVars, endVars>>

\* In the first loop the time of poll_io() is limited: 200 ms, or until the timeout.
PollTimesOut ==
    /\ pc = "poll" /\ ~drain /\ ~AnyReady
    /\ pc' = "alive"
    /\ UNCHANGED <<mode, kernVars, con, feed, late, drain, ok, bufVars, endVars>>

--------------------------------------------------------------------------------
(* do_output(). *)

\* strsplit(s, "\r?\n"), without the characters after the last newline, and these.
NewlinesTo(s, i) == Cardinality({j \in 1..i : s[j] = "n"})
Eol(s, l) == IF l = 0 THEN 0 ELSE CHOOSE i \in DOMAIN s : s[i] = "n" /\ NewlinesTo(s, i) = l
Lines(s) ==
    LET Last(l) == IF Eol(s, l) > 1 /\ s[Eol(s, l) - 1] = "r"
                   THEN Eol(s, l) - 2 ELSE Eol(s, l) - 1
    IN  [l \in 1..NewlinesTo(s, Len(s)) |-> SubSeq(s, Eol(s, l - 1) + 1, Last(l))]
Rest(s) == Drop(s, Eol(s, NewlinesTo(s, Len(s))))

\* The text the line callback is concerned with: paste0(pushback, newout).
Joined(s, data) == pushback[s] \o data

\* Mutant: the second loop goes on although nothing can be read.
Bug_After_break(s, good) ==
    IF s = "stdout" /\ "stderr" \in Piped THEN "stderr"
    ELSE IF drain THEN "left" ELSE "alive"
\* Mutant: R polls again at once when there was output.
Bug_After_poll(s, good) ==
    IF s = "stdout" /\ "stderr" \in Piped THEN "stderr"
    ELSE IF ~drain THEN "poll"
    ELSE IF good THEN "left" ELSE "break"
\* After a stream comes the other one, then the head of the loop.  The second
\* loop ends if do_output() could not read at all.
After(s, good) ==
    IF s = "stdout" /\ "stderr" \in Piped THEN "stderr"
    ELSE IF ~drain THEN "alive"
    ELSE IF good THEN "left" ELSE "break"

\* Some characters: the callbacks are called for the chunk and for every line that
\* it completes, and the characters are kept.
ReadsData(s) ==
    /\ pc = s /\ ~con[s].closed
    /\ \E k \in 1..Least(Chunk, Len(pipe[s])) :
          LET data == SubSeq(pipe[s], 1, k)
          IN  /\ pipe' = [pipe EXCEPT ![s] = Drop(@, k)]
              /\ buf' = [buf EXCEPT ![s] = @ \o data]
              /\ lines' = [lines EXCEPT ![s] = @ \o Lines(Joined(s, data))]
              /\ pushback' = [pushback EXCEPT ![s] = Rest(Joined(s, data))]
    /\ ok' = TRUE
    /\ \/ /\ pc' = After(s, TRUE)
          /\ UNCHANGED <<child, holds, con, lost, spoiled>>
       \/ \* the callback kills the process, which closes the connections
          /\ "kills" \in Env
          /\ \E o \in Outcome : Kill(o)
          /\ con' = Closed
          /\ spoiled' = TRUE
          /\ pc' = After(s, TRUE)
    /\ UNCHANGED <<mode, written, tty, feed, late, drain, timeout, cleanup>>

\* A callback throws, and run() ends with its error.  The callback for chunks is
\* called before the characters of stdout are kept, and after those of stderr,
\* unless they are bytes; the one for lines has had the first n lines, the last of
\* which made it throw: lapply() goes no further.
ReadThrows(s) ==
    /\ pc = s /\ ~con[s].closed
    /\ "throws" \in Env
    /\ \E k \in 1..Least(Chunk, Len(pipe[s])) :
          LET data == SubSeq(pipe[s], 1, k)
              Kept == buf' = [buf EXCEPT ![s] = @ \o data]
          IN  /\ pipe' = [pipe EXCEPT ![s] = Drop(@, k)]
              /\ \/ UNCHANGED bufVars
                 \/ s = "stderr" /\ Kept /\ UNCHANGED <<pushback, lines>>
                 \/ /\ Kept
                    /\ \E n \in DOMAIN Lines(Joined(s, data)) :
                          lines' = [lines EXCEPT ![s] = @ \o SubSeq(Lines(Joined(s, data)), 1, n)]
                    /\ pushback' = [pushback EXCEPT ![s] = Rest(Joined(s, data))]
    /\ ok' = TRUE
    /\ Leaves
    /\ pc' = "error"
    /\ UNCHANGED <<mode, written, tty, feed, late, drain, timeout, spoiled>>

\* Nothing, or the end of file.
ReadsNothing(s) ==
    /\ pc = s /\ ~con[s].closed
    /\ pipe[s] = <<>>
    /\ con' = [con EXCEPT ![s].eof = @ \/ holds[s] = {}]
    /\ ok' = TRUE
    /\ pc' = After(s, TRUE)
    /\ UNCHANGED <<mode, kernVars, feed, late, drain, bufVars, endVars>>

\* The error is caught.
ReadFails(s) ==
    /\ pc = s
    /\ con[s].closed \/ ("error" \in Env /\ ~con[s].eof /\ ~spoiled)
    /\ spoiled' = TRUE
    /\ pc' = After(s, ok)
    /\ UNCHANGED <<mode, kernVars, con, feed, late, drain, ok, bufVars, timeout, lost, cleanup>>

--------------------------------------------------------------------------------
(* After the loop. *)

\* proc$wait()
Waits ==
    /\ pc = "wait" /\ ~Running
    /\ drain' = TRUE
    /\ pc' = "left"
    /\ UNCHANGED <<mode, kernVars, con, feed, late, ok, bufVars, endVars>>

\* Mutant: it is enough that stdout has ended.
Bug_Incomplete == ~con["stdout"].eof
Incomplete == \E s \in Piped : ~con[s].eof

LeftChecks ==
    /\ pc = "left" /\ Incomplete
    /\ pc' = "poll"
    /\ UNCHANGED <<mode, kernVars, con, feed, late, drain, ok, bufVars, endVars>>

\* Nothing is left, or it cannot be read: run() returns.
Returns ==
    /\ (pc = "left" /\ ~Incomplete) \/ pc = "break"
    /\ pc' = "done"
    /\ Leaves
    /\ UNCHANGED <<mode, pipe, written, tty, feed, late, drain, ok, bufVars, timeout, spoiled>>

\* poll_io(-1), if all connections are closed: there is nothing to wait for.
PollNothing ==
    /\ pc = "poll" /\ drain /\ AllClosed
    /\ pc' = "stdout"
    /\ ok' = FALSE
    /\ UNCHANGED <<mode, kernVars, con, feed, late, drain, bufVars, endVars>>

\* The user interrupts a system call: what there is is read, the process is killed.
Interrupted ==
    /\ "interrupt" \in Env
    /\ pc \in {"poll", "wait"}
    /\ \E k \in [Stream -> 0..PipeSize] :
          /\ \A s \in Stream : k[s] <= Len(pipe[s]) /\ (con[s].closed => k[s] = 0)
          /\ buf' = [s \in Stream |-> buf[s] \o SubSeq(pipe[s], 1, k[s])]
          /\ pipe' = [s \in Stream |-> Drop(pipe[s], k[s])]
    /\ Leaves
    /\ pc' = "interrupted"
    /\ UNCHANGED <<mode, written, tty, feed, late, drain, ok, pushback, lines, timeout, spoiled>>

--------------------------------------------------------------------------------

\* The process was started.
Init ==
    /\ mode \in Modes
    /\ child = [st |-> "run", code |-> 0, op |-> "free"]
    /\ \E who \in {{"child"}} \cup (IF "other" \in Env THEN {{"child", "other"}} ELSE {}) :
          holds = [c \in Stream \cup {"poll"} |-> IF c \in Conns THEN who ELSE {}]
    /\ pipe = [s \in Stream |-> <<>>] /\ written = pipe /\ buf = pipe
    /\ pushback = pipe /\ lines = pipe
    /\ con = [c \in Stream \cup {"poll"} |-> [eof |-> FALSE, closed |-> FALSE]]
    /\ tty = 0
    /\ \/ feed = [left |-> 0, eof |-> TRUE]
       \/ mode = "pty" /\ \E n \in {0, MaxIn} : feed = [left |-> n, eof |-> FALSE]
    /\ late = FALSE
    /\ pc = "alive" /\ drain = FALSE /\ ok = FALSE
    /\ timeout = FALSE /\ lost = FALSE /\ spoiled = FALSE /\ cleanup = "no"

RunStep ==
    \/ LoopChecks \/ Expires \/ InTime \/ FeedWrites \/ FeedFails
    \/ PollReady \/ PollTimesOut \/ PollNothing
    \/ \E s \in Stream : ReadsData(s) \/ ReadThrows(s) \/ ReadsNothing(s) \/ ReadFails(s)
    \/ Waits \/ LeftChecks \/ Returns

ChildStep ==
    \/ ChildWrites \/ ChildReads \/ ChildExits
    \/ \E s \in Piped : ChildBlocks(s) \/ ChildCloses(s)

OtherStep == OtherEnds \/ \E s \in Piped : OtherWrites(s)

Next == RunStep \/ Interrupted \/ ChildStep \/ OtherStep \/ TimePasses

Spec == Init /\ [][Next]_vars

\* R goes on.  A process that can write does, and one that reads its input goes
\* on doing so; nobody has to exit, to begin to write, or to close anything.
FairSpec == Spec /\ WF_vars(RunStep) /\ WF_vars(ChildWrites) /\ WF_vars(ChildReads)

--------------------------------------------------------------------------------
(* Properties. *)

Text == UNION {[1..n -> Char] : n \in 0..MaxOut}

\* Types; no pipe and no terminal holds more than fits.
TypeOK ==
    /\ mode \in Modes
    /\ child \in [st : {"run", "dead"}, code : {0, SIGTERM, SIGKILL}, op : Stream \cup {"free"}]
    /\ \A c \in Stream \cup {"poll"} : /\ holds[c] \subseteq {"child", "other"}
                                       /\ con[c] \in [eof : BOOLEAN, closed : BOOLEAN]
    /\ \A s \in Stream : /\ pipe[s] \in Text /\ Len(pipe[s]) <= PipeSize
                         /\ written[s] \in Text /\ buf[s] \in Text /\ pushback[s] \in Text
                         /\ \A l \in DOMAIN lines[s] : lines[s][l] \in Text
    /\ tty \in 0..TtySize
    /\ feed \in [left : 0..MaxIn, eof : BOOLEAN]
    /\ pc \in {"alive", "time", "feed", "poll", "wait", "left", "break",
               "done", "error", "interrupted"} \cup Stream
    /\ {late, drain, ok, timeout, lost, spoiled} \subseteq BOOLEAN
    /\ cleanup \in {"no", "kill", "tree"}

\* What run() returns is all that was ever written, also by a process left behind
\* and also after a timeout, unless it could not be read (run.R:623-629).
OutputComplete ==
    pc = "done" /\ ~spoiled =>
        \A s \in Piped : buf[s] = written[s] /\ holds[s] = {}

\* The line callbacks are called with the lines of the output that a newline ends,
\* each once and in order, however the output was cut into chunks: also if a chunk
\* ends between a carriage return and a newline (run.R:476-485, 509-518).  With an
\* error or an interrupt the last of these lines may be missing, but none is called
\* twice, cut, or left out before another.  What comes after the last newline is
\* remembered and nothing else: no callback is ever called with a last line that has
\* no newline, which the documentation's "every line" (run.R:88-89) does not say.
LinesTrue ==
    \A s \in Stream :
        /\ Len(lines[s]) <= Len(Lines(buf[s]))
        /\ lines[s] = SubSeq(Lines(buf[s]), 1, Len(lines[s]))
        /\ pc \notin {"interrupted", "error"} =>
              Len(lines[s]) = Len(Lines(buf[s])) /\ pushback[s] = Rest(buf[s])

\* When run() has returned, the process is over.  `timeout' is TRUE only if its
\* time was over and a signal of run() has ended it, and the status is unknown
\* only if the process exited while it was being killed (run.R:548-550).
ResultTrue ==
    pc = "done" => /\ ~Running
                   /\ timeout => late /\ ~lost /\ child.code \in {SIGTERM, SIGKILL}
                   /\ lost => late \/ spoiled
                   /\ child.code # 0 => timeout \/ spoiled

\* However run() ends, it does not leave the process behind, nor, with cleanup_tree,
\* any that the process has started (run.R:304-308).
NothingLeft ==
    /\ Over => ~Running
    /\ cleanup = "tree" => \A c \in Conns : holds[c] = {}

\* When the process is over and nobody has its outputs open, run() returns,
\* whatever it was doing.
RunReturns == (~Running /\ \A s \in Piped : holds[s] = {}) ~> Over

\* A process whose time is over is ended, also if it writes all the time or has
\* closed its output, so that poll() never waits.
TimeoutKills == late ~> ~Running

\* The input of a terminal is written to its end as long as the process reads,
\* although the process may have to write first and R has to make room for that:
\* not both wait for each other (run.R:438-442).
InputFed == (feed.left > 0) ~> (feed.left = 0 \/ ~Running)

\* Types, and what run() says and leaves behind when it ends.
Inv == TypeOK /\ ResultTrue /\ NothingLeft

\* The result and the line callbacks have the output as it was written.
OutputTrue == OutputComplete /\ LinesTrue

================================================================================
