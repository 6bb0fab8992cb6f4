-------------------------------- MODULE WinIO --------------------------------
(***************************************************************************)
(* Connections on Windows (src/src/processx-connection.c and               *)
(* src/src/win/thread.c): overlapped reads into the buffers of several     *)
(* connections, whose completions all arrive at one completion port.       *)
(* Whoever looks at the port, poll() or a read from any connection, gets   *)
(* the next completion, whatever connection it belongs to.                 *)
(*                                                                         *)
(* A connection is the read end of an anonymous pipe, the server end of a  *)
(* FIFO (conn_create_fifo) or a server socket (a named pipe as well).  The *)
(* kernel and the process at the other end run at any time; the calls of R *)
(* and of the I/O thread, which R waits for, are steps of one program.     *)
(*                                                                         *)
(* The n-th byte that is written to a pipe is n.  A byte in Halves makes a *)
(* character only with the next one, and 0 is what happens to be in memory *)
(* that no read has written.                                               *)
(***************************************************************************)
EXTENDS Integers, Sequences, FiniteSets

CONSTANTS
    Con,       \* the connections: 1 .. n
    Servers,   \* those that may be a FIFO or a socket
    MaxSent,   \* how many bytes are written, to all connections together
    Halves,    \* those that are the first half of a character
    RawSize,   \* 64K in the code: buffer_allocated_size
    Utf8Size,  \* utf8_allocated_size: 64K, and more after long lines
    MaxWakes,  \* bound on the packets of finished polls that are left in the port
    Env        \* among "curl", a curl descriptor that is polled as well,
               \* and "destroy", the finalizers of connections

ASSUME ConAssumption ==
    Con \subseteq Nat \ {0} /\ IsFiniteSet(Con) /\ Servers \subseteq Con
ASSUME SizeAssumption ==
    MaxWakes \in Nat /\ MaxSent \in Nat /\ RawSize \in Nat \ {0} /\ Utf8Size \in Nat \ {0}
ASSUME HalvesAssumption ==
    Halves \subseteq 1..MaxSent /\ \A n \in Halves : n + 1 \notin Halves

VARIABLES
    kind,   \* "pipe", "fifo" or "socket"; never changes
    con,    \* processx_connection_t
    io,     \* what the kernel is doing for a connection
    port,   \* the completion port
    pipe,   \* bytes in the pipe
    peer,   \* the other end
    sent,   \* history: how many bytes were written,
    got,    \* and all that was handed to R
    pc,     \* where R is
    call    \* the call that R is in

kernVars == <<io, port>>
peerVars == <<peer, sent>>
vars == <<kind, con, kernVars, pipe, peerVars, got, pc, call>>

Data == Seq(0..MaxSent)
NoCon == 0

\* handle: it is open.  off: where a pending read puts its data.  mem: "listed"
\* is on the free list, and allocated.  torn: history, see PreReady.
Connection ==
    [handle : BOOLEAN, pending : BOOLEAN, connecting : BOOLEAN, off : Nat,
     state : {"none", "listen", "ready", "server"},
     eofraw : BOOLEAN, eof : BOOLEAN, closed : BOOLEAN,
     raw : Data, utf8 : Data, torn : BOOLEAN, mem : {"live", "listed", "freed"}]

\* Completion packets; Wake is posted by processx__thread_getstatus_select.
Packet == [con : Con, data : Data]
Wake == [con |-> NoCon, data |-> <<>>]

Event == {"none", "silent", "handle", "timeout", "closed", "ready", "connect"}

\* todo: connections pre_poll has not been called for.  ev: the events.
Call == [op : {"none", "poll", "read"}, con : Con \cup {NoCon}, todo : SUBSET Con,
         ev : [Con -> Event], has : BOOLEAN, forever : BOOLEAN, curl : BOOLEAN]

NoCall == [op |-> "none", con |-> NoCon, todo |-> {}, ev |-> [c \in Con |-> "none"],
           has |-> FALSE, forever |-> FALSE, curl |-> FALSE]

\* One type invariant.
TypeOK ==
    /\ kind \in [Con -> {"pipe", "fifo", "socket"}]
    /\ con \in [Con -> Connection]
    /\ \A c \in Con : Len(con[c].raw) <= RawSize /\ Len(con[c].utf8) <= Utf8Size
    /\ io \in [Con -> {"none", "read", "connect"}]
    /\ port \in Seq(Packet \cup {Wake})
    /\ \A i \in 1..Len(port) : Len(port[i].data) <= RawSize
    /\ pipe \in [Con -> Seq(1..MaxSent)]
    /\ peer \in [Con -> {"absent", "open", "closed"}]
    /\ sent \in [Con -> 0..MaxSent] /\ got \in [Con -> Data]
    /\ pc \in {"idle", "pre", "connect", "wait", "get"}
    /\ call \in Call

\* processx_c_connection_create, called by processx_exec for a pipe, by
\* conn_create_fifo() and by conn_create_unix_socket().
Create(k) ==
    [handle |-> TRUE, pending |-> FALSE, connecting |-> FALSE, off |-> 0,
     state |-> IF k = "socket" THEN "listen" ELSE "none",
     eofraw |-> FALSE, eof |-> FALSE, closed |-> FALSE,
     raw |-> <<>>, utf8 |-> <<>>, torn |-> FALSE, mem |-> "live"]

Init ==
    /\ kind \in [Con -> {"pipe", "fifo", "socket"}]
    /\ \A c \in Con : kind[c] = "pipe" <=> c \notin Servers
    /\ con = [c \in Con |-> Create(kind[c])]
    /\ io = [c \in Con |-> "none"]
    /\ port = <<>>
    /\ pipe = [c \in Con |-> <<>>]
    /\ peer = [c \in Con |-> IF kind[c] = "pipe" THEN "open" ELSE "absent"]
    /\ sent = [c \in Con |-> 0] /\ got = [c \in Con |-> <<>>]
    /\ pc = "idle" /\ call = NoCall

-----------------------------------------------------------------------------
(***************************************************************************)
(* The other process and the kernel.                                       *)
(***************************************************************************)
PeerConnects(c) ==
    /\ peer[c] = "absent" /\ con[c].handle
    /\ peer' = [peer EXCEPT ![c] = "open"]
    /\ UNCHANGED <<kind, con, kernVars, pipe, sent, got, pc, call>>

\* All bytes that were written, the n-th one to connection d as <<d, n>>.
Written == {w \in Con \X (1..MaxSent) : w[2] <= sent[w[1]]}

PeerWrites(c) ==
    /\ peer[c] = "open" /\ con[c].handle
    /\ Cardinality(Written) < MaxSent
    /\ sent' = [sent EXCEPT ![c] = @ + 1]
    /\ pipe' = [pipe EXCEPT ![c] = Append(@, sent[c] + 1)]
    /\ UNCHANGED <<kind, con, kernVars, peer, got, pc, call>>

PeerCloses(c) ==
    /\ peer[c] = "open"
    /\ peer' = [peer EXCEPT ![c] = "closed"]
    /\ UNCHANGED <<kind, con, kernVars, pipe, sent, got, pc, call>>

\* What a read that puts its data at offset off gets, and what it leaves.
Readable(c, off) ==
    SubSeq(pipe[c], 1, IF Len(pipe[c]) < RawSize - off THEN Len(pipe[c]) ELSE RawSize - off)
Rest(c, off) == SubSeq(pipe[c], RawSize - off + 1, Len(pipe[c]))

\* A pending operation completes; a read at the end of the pipe with an error
\* and no bytes, and the connection of a client with no bytes as well.
KernelCompletes(c) ==
    /\ \/ io[c] = "read" /\ (pipe[c] # <<>> \/ peer[c] = "closed")
          /\ port' = Append(port, [con |-> c, data |-> Readable(c, con[c].off)])
          /\ pipe' = [pipe EXCEPT ![c] = Rest(c, con[c].off)]
       \/ io[c] = "connect" /\ peer[c] # "absent"
          /\ port' = Append(port, [con |-> c, data |-> <<>>])
          /\ UNCHANGED pipe
    /\ io' = [io EXCEPT ![c] = "none"]
    /\ UNCHANGED <<kind, con, peerVars, got, pc, call>>

-----------------------------------------------------------------------------
(***************************************************************************)
(* The buffers.                                                            *)
(***************************************************************************)
\* How many bytes of raw make complete characters that fit into room bytes.
Convertible(raw, room) ==
    LET n == IF Len(raw) < room THEN Len(raw) ELSE room
    IN IF n > 0 /\ raw[n] \in Halves THEN n - 1 ELSE n

\* processx__connection_to_utf8: what is left moves to the front of the buffer.
\* Half a character at the end of the stream is dropped.
to_utf8(k) ==
    LET room == Utf8Size - Len(k.utf8)
        n == Convertible(k.raw, room)
        left == SubSeq(k.raw, n + 1, Len(k.raw))
    IN [k EXCEPT !.utf8 = @ \o SubSeq(k.raw, 1, n),
                 !.raw = IF k.eofraw /\ n < room /\ left # <<>> THEN <<>> ELSE left]

\* is_eof_raw_, and is_eof_ if both buffers are empty.
AtEof(k) == [k EXCEPT !.eofraw = TRUE, !.eof = @ \/ (k.utf8 = <<>> /\ k.raw = <<>>)]

\* The data of a completed read is behind what was in the buffer when the read
\* was started.  The code takes as many bytes from behind what is there now.
Landed(k, data) ==
    LET gap == k.off - Len(k.raw) IN
    k.raw \o SubSeq([i \in 1..gap |-> 0] \o data, 1, Len(data))

-----------------------------------------------------------------------------
(***************************************************************************)
(* processx__connection_start_read: ReadFile() or ConnectNamedPipe() in    *)
(* the I/O thread.  The result has the connection, the kernel's state for  *)
(* it, the packets that are queued at once, what is left in the pipe, and  *)
(* whether the call goes on, throws an error or goes on with a second      *)
(* operation, ConnectNamedPipe() after ReadFile().                         *)
(***************************************************************************)
Started(k, i, p, r, t) == [k |-> k, io |-> i, packets |-> p, rest |-> r, then |-> t]

\* ConnectNamedPipe() on the socket of a server that listens.
ConnectSocket(c, k) ==
    CASE peer[c] = "absent" ->
           Started([k EXCEPT !.pending = TRUE, !.connecting = TRUE], "connect",
                   <<>>, pipe[c], "ok")
      [] peer[c] = "open" ->  \* ERROR_PIPE_CONNECTED
           Started([k EXCEPT !.connecting = FALSE, !.state = "ready"], "none",
                   <<>>, pipe[c], "ok")
      [] peer[c] = "closed" ->  \* ERROR_NO_DATA
           Started([k EXCEPT !.connecting = TRUE], "none", <<>>, pipe[c], "throw")

\* ReadFile().
ReadFile(c, k) ==
    CASE peer[c] = "absent" ->  \* ERROR_PIPE_LISTENING
           Started([k EXCEPT !.pending = TRUE, !.connecting = TRUE], "none",
                   <<>>, pipe[c], "connect")
      [] peer[c] # "absent" /\ pipe[c] # <<>> ->  \* the packet comes anyway
           Started([k EXCEPT !.pending = TRUE, !.off = Len(k.raw)], "none",
                   <<[con |-> c, data |-> Readable(c, Len(k.raw))]>>,
                   Rest(c, Len(k.raw)), "ok")
      [] peer[c] = "open" /\ pipe[c] = <<>> ->  \* ERROR_IO_PENDING
           Started([k EXCEPT !.pending = TRUE, !.off = Len(k.raw)], "read",
                   <<>>, <<>>, "ok")
      [] peer[c] = "closed" /\ pipe[c] = <<>> ->  \* ERROR_BROKEN_PIPE
           Started(to_utf8(AtEof(k)), "none", <<>>, <<>>, "ok")

\* Mutant: a socket that listens is not waited for.
Bug_start_read(c, k) ==
    IF k.pending \/ k.state = "listen" \/ ~k.handle
    THEN Started(k, io[c], <<>>, pipe[c], "ok")
    ELSE ReadFile(c, k)

start_read(c, k) ==
    CASE ~k.handle \/ k.pending -> Started(k, io[c], <<>>, pipe[c], "ok")
      [] k.handle /\ ~k.pending /\ k.state = "listen" -> ConnectSocket(c, k)
      [] k.handle /\ ~k.pending /\ k.state # "listen" -> ReadFile(c, k)

\* The effect of a start_read that was computed as s.
Effect(c, s) ==
    /\ con' = [con EXCEPT ![c] = s.k]
    /\ io' = [io EXCEPT ![c] = s.io]
    /\ port' = port \o s.packets
    /\ pipe' = [pipe EXCEPT ![c] = s.rest]

\* The call returns, or throws an R error.
Return == pc' = "idle" /\ call' = NoCall

-----------------------------------------------------------------------------
(***************************************************************************)
(* poll().                                                                 *)
(***************************************************************************)
Idle == pc = "idle"
Usable(c) == con[c].mem = "live"

\* PROCESSX__I_PRE_POLL_FUNC_CONNECTION_READY and the state of a socket: the
\* connection, after the conversion of what is in the raw buffer, and the event.
\* The conversion moves the buffer, and also while a read into it is pending:
\* the data of that read is then not where it is expected.
PreReady(k) ==
    LET k1 == IF k.closed \/ k.eof \/ k.utf8 # <<>> \/ (k.raw # <<>> /\ k.eofraw)
              THEN k ELSE to_utf8(k)
    IN [k |-> [k1 EXCEPT !.torn = @ \/ (k.pending /\ Len(k1.raw) # Len(k.raw))],
        ev |-> IF k.closed THEN "closed"
               ELSE IF k.eof \/ k1.utf8 # <<>> \/ (k1.raw # <<>> /\ k.eofraw) THEN "ready"
               ELSE IF k.state = "ready" THEN "connect" ELSE "handle"]

\* processx_c_connection_poll() is called.
PollBegins(cs, forever, curl) ==
    /\ Idle /\ cs # {} /\ \A c \in cs : Usable(c)
    /\ curl => "curl" \in Env /\ forever /\ cs = Con
    /\ pc' = "pre"
    /\ call' = [NoCall EXCEPT !.op = "poll", !.todo = cs, !.forever = forever,
                              !.curl = curl,
                              !.ev = [c \in Con |-> IF c \in cs THEN "silent" ELSE "none"]]
   
    /\ UNCHANGED <<kind, con, kernVars, pipe, peerVars, got>>

\* Event e is known for connection c.  After the last one poll() waits, or returns
\* if there is nothing to wait for.
Known(c, e) ==
    LET todo == call.todo \ {c}
        ev == [call.ev EXCEPT ![c] = e]
    IN IF todo = {} /\ ~call.curl /\ \A d \in Con : ev[d] # "handle"
       THEN Return
       ELSE /\ pc' = IF todo = {} THEN "wait" ELSE "pre"
            /\ call' = [call EXCEPT !.todo = todo, !.ev = ev, !.con = NoCon,
                                    !.has = @ \/ e \in {"ready", "connect"}]

\* processx_i_pre_poll_func_connection, for the next connection.
PrePoll(c) ==
    /\ pc = "pre" /\ c \in call.todo /\ \A d \in call.todo : c <= d
    /\ \E p \in {PreReady(con[c])} : \E s \in {start_read(c, p.k)} : \E q \in {PreReady(s.k)} :
          \/ /\ p.ev # "handle"
             /\ con' = [con EXCEPT ![c] = p.k]
             /\ Known(c, p.ev)
             /\ UNCHANGED <<io, port, pipe>>
          \/ /\ p.ev = "handle" /\ s.then = "ok"
             /\ Effect(c, [s EXCEPT !.k = q.k])
             /\ Known(c, q.ev)
          \/ /\ p.ev = "handle" /\ s.then = "connect"
             /\ Effect(c, s)
             /\ pc' = "connect" /\ call' = [call EXCEPT !.con = c]
            
          \/ /\ p.ev = "handle" /\ s.then = "throw"
             /\ Effect(c, s) /\ Return
    /\ UNCHANGED <<kind, peerVars, got>>

\* The ConnectNamedPipe() after ReadFile() has found no client.  Its result is
\* not looked at: read_pending is set already.
ConnectPipe ==
    /\ pc = "connect"
    /\ LET c == call.con IN
       /\ io' = [io EXCEPT ![c] = IF peer[c] = "absent" THEN "connect" ELSE "none"]
       /\ IF call.op = "poll" THEN Known(c, "handle")
                              ELSE pc' = "get" /\ UNCHANGED call
    /\ UNCHANGED <<kind, con, port, pipe, peerVars, got>>

Wakes == Cardinality({i \in 1..Len(port) : port[i] = Wake})

\* What poll() does with a completion; hit: of a connection that is polled.
PollTakes(k, data, hit) ==
    LET k1 == [k EXCEPT !.pending = FALSE, !.raw = Landed(k, data)]
        k2 == to_utf8(k1)
        k3 == IF data = <<>> /\ ~k.connecting THEN AtEof(k2) ELSE k2
    IN [k3 EXCEPT !.connecting = FALSE,
                  !.state = IF hit /\ k.connecting /\ k.state # "none" THEN "ready" ELSE @]

\* getstatus returns a packet.  The loop ends if the packet is for one of the
\* connections that are polled, if something was known before, with the timeout,
\* or if select() has found something as well: then the thread is woken although
\* it has a packet, and Wake stays in the port.
PollPacket ==
    /\ pc = "wait" /\ port # <<>>
    /\ \/ port' = Tail(port)
       \/ call.curl /\ Wakes < MaxWakes /\ port' = Append(Tail(port), Wake)
    /\ LET c == Head(port).con
           hit == c # NoCon /\ call.ev[c] # "none"
       IN /\ con' = IF c = NoCon THEN con
                    ELSE [con EXCEPT ![c] = PollTakes(@, Head(port).data, hit)]
          /\ \/ (hit \/ call.has \/ ~call.forever \/ call.curl) /\ Return
             \/ ~hit /\ ~call.has /\ UNCHANGED <<pc, call>>
    /\ UNCHANGED <<kind, io, pipe, peerVars, got>>

\* getstatus returns WAIT_TIMEOUT for the last time.
PollTimeout ==
    /\ pc = "wait" /\ port = <<>> /\ (call.has \/ ~call.forever)
    /\ Return
    /\ UNCHANGED <<kind, con, kernVars, pipe, peerVars, got>>

\* processx__thread_getstatus_select: select() returns because of a curl
\* descriptor or its own timeout, before the I/O thread has told it anything.
\* PostQueuedCompletionStatus() wakes the thread, unless the thread's call has
\* just timed out: then the packet stays in the port.
PollSelect ==
    /\ pc = "wait" /\ call.curl
    /\ \/ port = <<>> /\ UNCHANGED port
       \/ port = <<>> /\ Wakes < MaxWakes /\ port' = <<Wake>>
    /\ Return
    /\ UNCHANGED <<kind, con, io, pipe, peerVars, got>>

-----------------------------------------------------------------------------
(***************************************************************************)
(* Reading.                                                                *)
(***************************************************************************)
\* processx__connection_read: called by read_chars() when the UTF-8 buffer is
\* empty, and by read_lines() also when there is no newline in it, but then the
\* buffer is made larger if it is full.
ReadBegins(c) ==
    /\ Idle /\ Usable(c) /\ ~con[c].closed /\ ~con[c].eof
    /\ con[c].state \notin {"listen", "ready"} /\ Len(con[c].utf8) < Utf8Size
    /\ LET k == con[c]
           s == start_read(c, k)
           ended == k.eofraw /\ k.raw = <<>>
       IN \/ /\ ended \/ Len(k.raw) = RawSize
             /\ con' = [con EXCEPT ![c] = IF ended THEN [k EXCEPT !.eof = @ \/ k.utf8 = <<>>]
                                                   ELSE to_utf8(k)]
             /\ Return /\ UNCHANGED <<kernVars, pipe>>
          \/ /\ Len(k.raw) < RawSize /\ ~ended
             /\ Effect(c, s)
             /\ \/ s.then = "ok" /\ ~s.k.pending /\ Return
                \/ s.then = "ok" /\ s.k.pending
                   /\ pc' = "get" /\ call' = [NoCall EXCEPT !.op = "read", !.con = c]
                  
                \/ s.then = "connect"
                   /\ pc' = "connect" /\ call' = [NoCall EXCEPT !.op = "read", !.con = c]
                  
    /\ UNCHANGED <<kind, peerVars, got>>

\* What processx__connection_read does with a completion, of any connection:
\* no bytes, and also no complete character, is taken for the end.
ReadTakes(k, data) ==
    LET k1 == [k EXCEPT !.pending = FALSE, !.raw = Landed(k, data)]
        k2 == to_utf8(k1)
    IN IF Len(k2.utf8) = Len(k1.utf8) THEN AtEof(k2) ELSE k2

\* Mutant: a completion of another connection is dropped.
Bug_ReadPacket ==
    /\ pc = "get" /\ port # <<>>
    /\ port' = Tail(port)
    /\ LET c == Head(port).con IN
       IF c = call.con
       THEN con' = [con EXCEPT ![c] = ReadTakes(@, Head(port).data)] /\ Return
       ELSE /\ con' = IF c = NoCon THEN con ELSE [con EXCEPT ![c].pending = FALSE]
            /\ UNCHANGED <<pc, call>>
    /\ UNCHANGED <<kind, io, pipe, peerVars, got>>

\* getstatus with no timeout: a packet, or none.  A packet that is not a
\* completion is taken for an error.
ReadPacket ==
    /\ pc = "get" /\ port # <<>>
    /\ port' = Tail(port)
    /\ LET c == Head(port).con IN
       IF c = NoCon
       THEN Return /\ UNCHANGED con
       ELSE /\ con' = [con EXCEPT ![c] = ReadTakes(@, Head(port).data)]
            /\ IF c = call.con THEN Return ELSE UNCHANGED <<pc, call>>
    /\ UNCHANGED <<kind, io, pipe, peerVars, got>>

ReadEnds ==
    /\ pc = "get" /\ port = <<>>
    /\ Return
    /\ UNCHANGED <<kind, con, kernVars, pipe, peerVars, got>>

\* read_chars() and read_lines() hand out what is in the UTF-8 buffer.
Takes(c, n) ==
    /\ Idle /\ Usable(c) /\ ~con[c].closed /\ n \in 1..Len(con[c].utf8)
    /\ got' = [got EXCEPT ![c] = @ \o SubSeq(con[c].utf8, 1, n)]
    /\ con' = [con EXCEPT ![c].utf8 = SubSeq(@, n + 1, Len(@))]
   
    /\ UNCHANGED <<kind, kernVars, pipe, peerVars, pc, call>>

-----------------------------------------------------------------------------
(***************************************************************************)
(* Sockets, closing and destroying.                                        *)
(***************************************************************************)
\* processx_connection_accept_socket: whether there is a client makes no
\* difference, there is always one instance of the pipe.
Accept(c) ==
    /\ Idle /\ Usable(c) /\ con[c].handle /\ con[c].state \in {"listen", "ready"}
    /\ con' = [con EXCEPT ![c].state = "server"]
   
    /\ UNCHANGED <<kind, kernVars, pipe, peerVars, got, pc, call>>

\* CloseHandle() aborts a pending operation, which completes with no bytes.
\* What is in the pipe is gone, and the history ends.
CloseHandle(c) ==
    /\ io' = [io EXCEPT ![c] = "none"]
    /\ pipe' = [pipe EXCEPT ![c] = <<>>]
    /\ got' = [got EXCEPT ![c] = <<>>]
    /\ port' = IF io[c] # "none" THEN Append(port, [con |-> c, data |-> <<>>]) ELSE port

\* processx_c_connection_close.
Close(c) ==
    /\ Idle /\ Usable(c) /\ con[c].handle
    /\ CloseHandle(c)
    /\ con' = [con EXCEPT ![c].handle = FALSE, ![c].closed = TRUE]
   
    /\ UNCHANGED <<kind, peerVars, pc, call>>

\* Mutant: a connection is freed although the kernel still writes to its buffer.
Bug_Destroy(c) ==
    /\ "destroy" \in Env /\ Idle /\ Usable(c)
    /\ CloseHandle(c)
    /\ con' = [con EXCEPT ![c].handle = FALSE, ![c].closed = TRUE, ![c].mem = "freed"]
    /\ UNCHANGED <<kind, peerVars, pc, call>>

\* processx_c_connection_destroy, from the finalizer of the R object: a
\* connection with a pending read goes to the free list.
Destroy(c) ==
    /\ "destroy" \in Env /\ Idle /\ Usable(c)
    /\ CloseHandle(c)
    /\ con' = [con EXCEPT ![c].handle = FALSE, ![c].closed = TRUE,
                          ![c].mem = IF con[c].pending THEN "listed" ELSE "freed"]
   
    /\ UNCHANGED <<kind, peerVars, pc, call>>

-----------------------------------------------------------------------------
RStep ==
    \/ \E cs \in SUBSET Con, forever, curl \in BOOLEAN : PollBegins(cs, forever, curl)
    \/ \E c \in Con : ReadBegins(c) \/ Accept(c) \/ Close(c) \/ Destroy(c)
    \/ \E c \in Con, n \in 1..Utf8Size : Takes(c, n)

CallStep ==
    \/ \E c \in Con : PrePoll(c)
    \/ ConnectPipe \/ PollPacket \/ PollTimeout \/ PollSelect
    \/ ReadPacket \/ ReadEnds

PeerStep ==
    \E c \in Con : PeerConnects(c) \/ PeerCloses(c) \/ PeerWrites(c)

Next == RStep \/ CallStep \/ PeerStep \/ \E c \in Con : KernelCompletes(c)

Spec == Init /\ [][Next]_vars

\* A call of R goes on, and the kernel completes what can be completed.
FairSpec == Spec /\ WF_vars(CallStep) /\ \A c \in Con : WF_vars(KernelCompletes(c))

-----------------------------------------------------------------------------
(***************************************************************************)
(* Properties.                                                             *)
(***************************************************************************)
Packets(c) == {i \in 1..Len(port) : port[i].con = c}
Outstanding(c) == Cardinality(Packets(c)) + (IF io[c] = "none" THEN 0 ELSE 1)

\* ConnectNamedPipe() was called after ReadFile(), or a read of another connection
\* has fetched its completion.
WaitsLate(c) == con[c].connecting /\ con[c].state # "listen"

\* At most one operation is under way for a connection, counting completions
\* that nobody has fetched; while there is one read_pending is set and the
\* connection, which the kernel and the port point to, is not freed.  And
\* read_pending is not left set when there is none, or the connection would
\* never be read again; see the README for a client that connects late to a FIFO
\* or to a socket that was accepted before.
PendingTrue ==
    \A c \in Con :
        /\ Outstanding(c) <= 1
        /\ Outstanding(c) = 1 => con[c].pending /\ con[c].mem # "freed"
        /\ con[c].pending /\ ~WaitsLate(c) => Outstanding(c) = 1

\* The bytes of connection c that were read and that R has not processed yet.
InPort(c) == IF Packets(c) = {} THEN <<>>
             ELSE port[CHOOSE i \in Packets(c) : TRUE].data

\* Whoever fetches a completion, no byte is lost, doubled or put at a wrong place
\* on its way from the other process to R.  Except: see torn.
NothingLost ==
    \A c \in Con : con[c].handle /\ ~con[c].torn =>
        got[c] \o con[c].utf8 \o con[c].raw \o InPort(c) \o pipe[c]
            = [n \in 1..sent[c] |-> n]

\* The end of the output is reported when the other process has closed its end
\* and R has got everything, not earlier, whoever fetched the completion.
EofTrue ==
    \A c \in Con : kind[c] = "pipe" /\ con[c].handle /\ ~con[c].torn =>
        /\ con[c].eofraw => peer[c] = "closed" /\ pipe[c] \o InPort(c) = <<>>
        /\ con[c].eof => Len(got[c]) = sent[c]

\* A server socket is "ready" to be accepted only if a client has connected,
\* whoever fetched the completion of ConnectNamedPipe().
ConnectTrue ==
    \A c \in Con : con[c].state = "ready" /\ con[c].handle => peer[c] # "absent"

\* poll() with an infinite timeout returns when there is data, an end of file or
\* a client for a connection it waits for.
PollReturns ==
    (\E c \in Con :
        /\ ~WaitsLate(c) /\ pc = "wait" /\ call.ev[c] = "handle"
        /\ pipe[c] # <<>> \/ peer[c] = "closed"
           \/ (con[c].state = "listen" /\ peer[c] = "open"))
    ~> pc # "wait"

\* Types and buffer sizes; what R believes about pending reads and connected
\* clients is what the kernel is doing (processx-connection.c:916-950, 1487-1541).
Inv == TypeOK /\ PendingTrue /\ ConnectTrue

\* What R reads is what was written, and its end is the end
\* (processx-connection.c:1822-1892).
StreamTrue == NothingLost /\ EofTrue

=============================================================================
