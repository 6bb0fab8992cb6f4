------------------------------- MODULE ChildInit -------------------------------
(***************************************************************************)
(* The descriptor side of processx_exec and processx__child_init           *)
(* (src/src/unix/processx.c): R makes the signal pipe and the socket pairs *)
(* of the standard streams, forks, and waits on the signal pipe; the child *)
(* moves the descriptors it was asked for to 0 .. stdio_count - 1, closes  *)
(* the rest and calls execvp().  The two run concurrently after the fork.  *)
(***************************************************************************)
EXTENDS Integers, FiniteSets

CONSTANTS
    MaxFd,       \* the largest descriptor number (RLIMIT_NOFILE - 1)
    CloseLimit,  \* 200 in the code: where closing stops at the first gap
    RTables,     \* the sets of descriptors >= 3 that R may have open
    Kinds,       \* what the standard streams may be asked to be,
    StdConns,    \* if a connection, with which descriptor
    ExtraConns,  \* the descriptors of the connections that may be passed on
    MaxExtra     \* how many connections may be passed on

\* R has at least its standard streams open.
ASSUME LimitAssumption == MaxFd \in Nat /\ MaxFd >= 2 /\ CloseLimit \in Nat /\ MaxExtra \in Nat
ASSUME RTablesAssumption == RTables \subseteq SUBSET (3..MaxFd)
ASSUME ConnsAssumption == StdConns \cup ExtraConns \subseteq 0..MaxFd
ASSUME KindsAssumption ==
    Kinds \subseteq {"pipe", "inherit", "null", "file", "2>&1", "conn", "closed", "pty"}

Fd == 0..MaxFd

\* Open files.  R's own one at descriptor f is <<"R", f>>; the socket pair of
\* stream i has the ends <<"parent", i>> and <<"child", i>>.
Nothing == <<"nothing", 0>>
SigR == <<"sigr", 0>>
SigW == <<"sigw", 0>>
PtyMain == <<"ptymain", 0>>
PtySub == <<"ptysub", 0>>
Opened(i, kind) == <<kind, i>>
File == {Nothing, SigR, SigW, PtyMain, PtySub}
        \cup {"R"} \X Fd
        \cup {"parent", "child", "file", "null"} \X (0..2)

\* What a stream is asked to be: NULL, a file, "|", "", "2>&1", the connection
\* with descriptor f, or a connection that was closed.
Request == (Kinds \ {"conn", "pty"}) \X {0} \cup {"conn"} \X Fd

VARIABLES
    ropen,        \* the descriptors R has open, when it calls
    req,          \* connections: stream -> Request
    pty,          \* the child gets a pty
    ptab,         \* the descriptor table of R
    pcx,          \* its descriptors with FD_CLOEXEC
    parent_end,   \* pipes[.][0]
    use,          \* pipes[.][1]
    cuse,         \* pipes[.][1] of the child
    signal_pipe,  \* its two descriptors
    pty_main_fd,
    pc,           \* where R is
    ctab, cx,     \* the same tables, of the child
    cpc,          \* where the child is
    fd,           \* the loop variable: of R before the fork, then of the child
    sig,          \* what was written to the signal pipe
    verdict       \* what R thinks of the start

planVars == <<parent_end, use, signal_pipe, pty_main_fd>>
parentVars == <<ptab, pcx, planVars, pc, verdict>>
childVars == <<ctab, cx, cuse, cpc>>
inputVars == <<ropen, req, pty>>
vars == <<inputVars, parentVars, childVars, fd, sig>>

\* What can be asked for: a connection that is passed on is open.
Passed(S) == {<<"conn", f>> : f \in S \cap ropen}
StdRequest   == (Kinds \ {"conn", "pty"}) \X {0} \cup Passed(StdConns)
ExtraRequest == (Kinds \cap {"closed"}) \X {0} \cup Passed(ExtraConns)

stdio_count == Cardinality(DOMAIN req)
min_fd == IF pty THEN 3 ELSE 0
error_fd == signal_pipe[2]

TypeOK ==
    /\ ropen \in SUBSET Fd
    /\ \E n \in 0..MaxExtra : req \in [0..(2 + n) -> Request]
    /\ pty \in BOOLEAN
    /\ ptab \in [Fd -> File] /\ ctab \in [Fd -> File]
    /\ pcx \in SUBSET Fd /\ cx \in SUBSET Fd
    /\ parent_end \in [DOMAIN req -> Fd \cup {-1}]
    /\ use \in [DOMAIN req -> Fd \cup {-1}] /\ cuse \in [DOMAIN req -> Fd \cup {-1}]
    /\ signal_pipe \in (Fd \cup {-1}) \X (Fd \cup {-1})
    /\ pty_main_fd \in Fd \cup {-1}
    /\ pc \in {"signal_pipe", "pty_main", "streams", "fork", "pty_child", "read", "finish",
               "done", "error"}
    /\ cpc \in {"none", "setup", "move", "wire", "close", "exec", "running", "dead"}
    /\ fd \in 0..stdio_count
    /\ sig \in {"empty", "errno"}
    /\ verdict \in {"none", "started", "failed"}

\* The standard streams are open in R, only connections are close-on-exec.
Init ==
    /\ ropen \in {0..2 \cup S : S \in RTables}
    /\ \E n \in 0..MaxExtra :
       \E std \in [0..2 -> StdRequest], extra \in [3..(2 + n) -> ExtraRequest] :
          req = [i \in 0..(2 + n) |-> IF i \in 0..2 THEN std[i] ELSE extra[i]]
    /\ req[0][1] # "2>&1" /\ req[1][1] # "2>&1"
    /\ pty \in BOOLEAN
    /\ pty => "pty" \in Kinds /\ \A i \in 0..2 : req[i] = <<"null", 0>>
    /\ ptab = [f \in Fd |-> IF f \in ropen THEN <<"R", f>> ELSE Nothing]
    /\ pcx = {f \in ropen \ 0..2 : \E i \in DOMAIN req : req[i] = <<"conn", f>>}
    /\ parent_end = [i \in DOMAIN req |-> -1]
    /\ use = parent_end
    /\ cuse = parent_end
    /\ signal_pipe = <<-1, -1>>
    /\ pty_main_fd = -1
    /\ pc = "signal_pipe"
    /\ ctab = [f \in Fd |-> Nothing]
    /\ cx = {}
    /\ cpc = "none"
    /\ fd = 0
    /\ sig = "empty"
    /\ verdict = "none"

---------------------------------------------------------------------------
(* System calls on a table t *)

\* The descriptor the kernel picks: the smallest free one that is >= from.
Lowest(t, f, from) == t[f] = Nothing /\ f >= from /\ \A g \in from..(f - 1) : t[g] # Nothing
Close(t, S) == [f \in Fd |-> IF f \in S THEN Nothing ELSE t[f]]

\* pipe() and socketpair(): the two lowest descriptors.
OpenPair(f, g, a, b) ==
    /\ Lowest(ptab, f, 0)
    /\ Lowest([ptab EXCEPT ![f] = a], g, 0)
    /\ ptab' = [ptab EXCEPT ![f] = a, ![g] = b]
    /\ pcx' = pcx \cup {f, g}

---------------------------------------------------------------------------
(* processx_exec, in R *)

SignalPipe(f, g) ==
    /\ pc = "signal_pipe"
    /\ OpenPair(f, g, SigR, SigW)
    /\ signal_pipe' = <<f, g>>
    /\ pc' = IF pty THEN "pty_main" ELSE "streams"
    /\ UNCHANGED <<inputVars, parent_end, pty_main_fd, verdict, use, childVars, fd, sig>>

\* posix_openpt() does not set FD_CLOEXEC.
PtyMainOpens(f) ==
    /\ pc = "pty_main"
    /\ Lowest(ptab, f, 0)
    /\ ptab' = [ptab EXCEPT ![f] = PtyMain]
    /\ pcx' = pcx \ {f}
    /\ pty_main_fd' = f
    /\ pc' = "streams"
    /\ UNCHANGED <<inputVars, parent_end, signal_pipe, verdict, use, childVars, fd, sig>>

\* One round of the loop over the connections.
StreamPipe(f, g) ==
    /\ pc = "streams" /\ fd < stdio_count /\ req[fd][1] = "pipe"
    /\ OpenPair(f, g, Opened(fd, "parent"), Opened(fd, "child"))
    /\ parent_end' = [parent_end EXCEPT ![fd] = f]
    /\ use' = [use EXCEPT ![fd] = g]
    /\ fd' = fd + 1
    /\ UNCHANGED <<inputVars, signal_pipe, pty_main_fd, pc, verdict, childVars, sig>>

StreamOther ==
    /\ pc = "streams" /\ fd < stdio_count /\ req[fd][1] # "pipe"
    /\ use' = [use EXCEPT ![fd] = CASE req[fd][1] = "inherit" -> fd
                                    [] req[fd][1] = "conn"    -> req[fd][2]
                                    [] OTHER                  -> -1]
    /\ fd' = fd + 1
    /\ UNCHANGED <<inputVars, ptab, pcx, parent_end, signal_pipe, pty_main_fd, pc, verdict,
                   childVars, sig>>

\* There are no descriptors left, or fork() fails: an error is thrown.  The
\* signal pipe is closed only in the latter case.
ExecFails ==
    /\ \/ pc \in {"signal_pipe", "pty_main"} /\ ptab' = ptab
       \/ pc = "streams" /\ fd < stdio_count /\ req[fd][1] = "pipe" /\ ptab' = ptab
       \/ pc = "fork" /\ ptab' = Close(ptab, {signal_pipe[1], signal_pipe[2], pty_main_fd})
    /\ pc' = "error"
    /\ pcx' = pcx
    /\ UNCHANGED <<inputVars, planVars, verdict, childVars, fd, sig>>

StreamsEnd ==
    /\ pc = "streams" /\ fd = stdio_count
    /\ pc' = "fork"
    /\ UNCHANGED <<inputVars, ptab, pcx, planVars, verdict, childVars, fd, sig>>

\* Mutant: R keeps the write end of the signal pipe.
Bug_Fork ==
    /\ pc = "fork"
    /\ ctab' = Close(ptab, {pty_main_fd})
    /\ cx' = pcx
    /\ cuse' = use
    /\ cpc' = "setup"
    /\ fd' = min_fd
    /\ pc' = IF pty THEN "pty_child" ELSE "read"
    /\ UNCHANGED <<inputVars, ptab, pcx, planVars, verdict, sig>>

\* The child closes the main end of the pty, R the write end of the signal pipe.
Fork ==
    /\ pc = "fork"
    /\ ctab' = Close(ptab, {pty_main_fd})
    /\ cx' = pcx
    /\ cuse' = use
    /\ cpc' = "setup"
    /\ fd' = min_fd
    /\ pc' = IF pty THEN "pty_child" ELSE "read"
    /\ ptab' = IF pty THEN ptab ELSE Close(ptab, {error_fd})
    /\ UNCHANGED <<inputVars, pcx, planVars, verdict, sig>>

\* R keeps the other end of the pty open as well, if open() succeeds.
PtyChildOpens(f) ==
    /\ pc = "pty_child"
    /\ f \in Fd => Lowest(ptab, f, 0)
    /\ ptab' = Close([g \in Fd |-> IF g = f THEN PtySub ELSE ptab[g]], {error_fd})
    /\ pcx' = pcx \ {f}
    /\ pc' = "read"
    /\ UNCHANGED <<inputVars, planVars, verdict, childVars, fd, sig>>

HasSigW(t) == \E f \in Fd : t[f] = SigW

\* read() on the signal pipe: an errno, or end of file once nobody has the
\* write end open.
ReadSignalPipe ==
    /\ pc = "read"
    /\ sig = "errno" \/ (~ HasSigW(ptab) /\ ~ HasSigW(ctab))
    /\ verdict' = IF sig = "errno" THEN "failed" ELSE "started"
    /\ pc' = "finish"
    /\ UNCHANGED <<inputVars, ptab, pcx, planVars, childVars, fd, sig>>

\* Mutant: also descriptors that are not the child's end of a pair are closed.
Bug_Finish ==
    /\ pc = "finish"
    /\ ptab' = Close(ptab, {signal_pipe[1]} \cup {use[i] : i \in 0..2})
    /\ pc' = "done"
    /\ UNCHANGED <<inputVars, pcx, planVars, verdict, childVars, fd, sig>>

\* Close the ends of the socket pairs that are the child's.
Finish ==
    /\ pc = "finish"
    /\ LET paired == {i \in 0..2 : use[i] >= 0 /\ parent_end[i] >= 0}
       IN  ptab' = Close(ptab, {signal_pipe[1]} \cup {use[i] : i \in paired})
    /\ pc' = "done"
    /\ UNCHANGED <<inputVars, pcx, planVars, verdict, childVars, fd, sig>>

---------------------------------------------------------------------------
(* processx__child_init, in the child *)

\* dup2(), which also clears FD_CLOEXEC; a descriptor it would duplicate to
\* itself only gets the flag cleared.
Dup2(t, from, to) == [t EXCEPT ![to] = t[from]]

\* Standard error goes where standard output goes.
Same == fd = 2 /\ cuse[fd] = -1 /\ req[fd][1] = "2>&1"

\* Every step that fails writes errno to error_fd, whatever that is by then, and
\* raises SIGKILL.
ChildFails ==
    /\ \/ cpc \in {"setup", "exec"}
       \/ cpc = "move" /\ fd < stdio_count /\ cuse[fd] \in 0..(fd - 1)
       \/ cpc = "wire" /\ fd < 3 /\ cuse[fd] = -1 /\ ~ Same
    /\ sig' = IF ctab[error_fd] = SigW THEN "errno" ELSE sig
    /\ ctab' = [f \in Fd |-> Nothing]
    /\ cpc' = "dead"
    /\ UNCHANGED <<inputVars, parentVars, cx, cuse, fd>>

\* setsid(), prctl(); with a pty, its other end becomes 0, 1 and 2.
Setup ==
    /\ cpc = "setup"
    /\ IF pty
       THEN /\ \E f \in Fd : ctab[f] = Nothing
            /\ ctab' = [g \in Fd |-> IF g \in 0..2 THEN PtySub ELSE ctab[g]]
            /\ cx' = cx \ 0..2
       ELSE UNCHANGED <<ctab, cx>>
    /\ cpc' = "move"
    /\ UNCHANGED <<inputVars, parentVars, cuse, fd, sig>>

\* A loop over the streams ends, and the next one begins.
LoopEnds(l, m) ==
    /\ cpc = l /\ fd = stdio_count
    /\ cpc' = m
    /\ fd' = min_fd
    /\ UNCHANGED <<inputVars, parentVars, ctab, cx, cuse, sig>>

\* Mutant: nothing is moved.
Bug_Moved(f) ==
    /\ cpc = "move" /\ fd < stdio_count /\ f = -1
    /\ fd' = fd + 1
    /\ UNCHANGED <<inputVars, parentVars, ctab, cx, cuse, cpc, sig>>

\* First loop: a descriptor that is smaller than its destination is moved out of
\* the way, to stdio_count or above.
Moved(f) ==
    /\ cpc = "move" /\ fd < stdio_count
    /\ \/ /\ cuse[fd] \in 0..(fd - 1)
          /\ f \in Fd /\ Lowest(ctab, f, stdio_count)
          /\ ctab' = Dup2(ctab, cuse[fd], f)
          /\ cx' = cx \ {f}
          /\ cuse' = [cuse EXCEPT ![fd] = f]
       \/ /\ cuse[fd] \notin 0..(fd - 1) /\ f = -1
          /\ UNCHANGED <<ctab, cx, cuse>>
    /\ fd' = fd + 1
    /\ UNCHANGED <<inputVars, parentVars, cpc, sig>>

\* Second loop: the descriptors get their places.
WireUse ==
    /\ cpc = "wire" /\ fd < stdio_count
    /\ cuse[fd] >= 0 \/ Same
    /\ LET use_fd == IF Same THEN 1 ELSE cuse[fd]
       IN  ctab' = Close(Dup2(ctab, use_fd, fd), {parent_end[fd]} \cap stdio_count..MaxFd)
    /\ cx' = cx \ {fd}
    /\ fd' = fd + 1
    /\ UNCHANGED <<inputVars, parentVars, cuse, cpc, sig>>

\* A file, or /dev/null, is opened; the spare descriptor is closed.
WireOpen(f) ==
    /\ cpc = "wire" /\ fd < stdio_count /\ fd < 3
    /\ cuse[fd] = -1 /\ ~ Same
    /\ Lowest(ctab, f, 0)
    /\ LET file == Opened(fd, IF req[fd][1] = "file" THEN "file" ELSE "null")
       IN  ctab' = Close([ctab EXCEPT ![f] = file, ![fd] = file], {f} \cap stdio_count..MaxFd)
    /\ cx' = cx \ {f, fd}
    /\ fd' = fd + 1
    /\ UNCHANGED <<inputVars, parentVars, cuse, cpc, sig>>

\* There is nothing to be done for an extra connection without a descriptor.
WireSkips ==
    /\ cpc = "wire" /\ fd < stdio_count /\ fd >= 3
    /\ cuse[fd] = -1
    /\ fd' = fd + 1
    /\ UNCHANGED <<inputVars, parentVars, ctab, cx, cuse, cpc, sig>>

\* The other loops: close what was duplicated, then everything from stdio_count
\* on but error_fd, up to the first gap above CloseLimit: what the first of these
\* loops has closed is a gap as well.
Gap(tab, f) == \E g \in Fd : CloseLimit < g /\ error_fd < g /\ g < f /\ tab[g] = Nothing

\* Mutants: the last loop begins one too late; error_fd is closed as well.
Bug_CloseRest_late ==
    /\ cpc = "close"
    /\ LET used == {cuse[i] : i \in DOMAIN req \ 0..(min_fd - 1)} \cap stdio_count..MaxFd
           below == stdio_count..(error_fd - 1)
           above == {f \in Fd : f > error_fd + 1 /\ ~ Gap(Close(ctab, used \cup below), f)}
       IN  ctab' = Close(ctab, used \cup below \cup above)
    /\ cpc' = "exec"
    /\ UNCHANGED <<inputVars, parentVars, cx, cuse, fd, sig>>
Bug_CloseRest_all ==
    /\ cpc = "close"
    /\ ctab' = Close(ctab, stdio_count..MaxFd)
    /\ cpc' = "exec"
    /\ UNCHANGED <<inputVars, parentVars, cx, cuse, fd, sig>>

CloseRest ==
    /\ cpc = "close"
    /\ LET used == {cuse[i] : i \in DOMAIN req \ 0..(min_fd - 1)} \cap stdio_count..MaxFd
           below == stdio_count..(error_fd - 1)
           above == {f \in Fd : f > error_fd /\ ~ Gap(Close(ctab, used \cup below), f)}
       IN  ctab' = Close(ctab, used \cup below \cup above)
    /\ cpc' = "exec"
    /\ UNCHANGED <<inputVars, parentVars, cx, cuse, fd, sig>>

\* chdir(), putenv() and execvp() succeed.
Execvp ==
    /\ cpc = "exec"
    /\ ctab' = Close(ctab, cx)
    /\ cpc' = "running"
    /\ UNCHANGED <<inputVars, parentVars, cx, cuse, fd, sig>>

---------------------------------------------------------------------------

Parent ==
    \/ \E f, g \in Fd : SignalPipe(f, g) \/ StreamPipe(f, g)
    \/ \E f \in Fd : PtyMainOpens(f)
    \/ \E f \in Fd \cup {-1} : PtyChildOpens(f)
    \/ StreamOther \/ ExecFails \/ StreamsEnd \/ Fork \/ ReadSignalPipe \/ Finish

Child ==
    \/ ChildFails \/ Setup \/ WireUse \/ WireSkips \/ CloseRest \/ Execvp
    \/ LoopEnds("move", "wire") \/ LoopEnds("wire", "close")
    \/ \E f \in Fd : WireOpen(f)
    \/ \E f \in Fd \cup {-1} : Moved(f)

Next == Parent \/ Child

Spec == Init /\ [][Next]_vars
FairSpec == Spec /\ WF_vars(Parent) /\ WF_vars(Child)

---------------------------------------------------------------------------
(* Properties *)

\* The file that stream i is asked to be.
Wanted(i) ==
    LET j == IF req[i][1] = "2>&1" THEN 1 ELSE i
        r == req[j]
    IN  CASE pty /\ i < 3                      -> PtySub
          [] r[1] = "pipe"                     -> Opened(j, "child")
          [] r[1] = "inherit"                  -> <<"R", j>>
          [] r[1] = "file"                     -> Opened(j, "file")
          [] r[1] = "conn"                     -> <<"R", r[2]>>
          [] OTHER                             -> Opened(j, "null")

\* Nothing is in the way of the streams: neither the signal pipe, nor, for the
\* pty, a connection that is one of R's own standard streams.
Clear == /\ error_fd >= stdio_count
         /\ pty => \A i \in DOMAIN req : req[i][1] = "conn" => req[i][2] > 2

\* The program starts with exactly the streams it was asked to have: none is
\* lost or mixed up when they are moved over each other, and none is closed by
\* execvp().
Wired ==
    cpc = "running" /\ Clear =>
        \A i \in DOMAIN req : i < 3 \/ req[i][1] = "conn" => ctab[i] = Wanted(i)

\* It inherits no other descriptor of R, and not R's end of its own pipes,
\* which would keep them from ever reaching end of file.
NoStrayFd ==
    cpc = "running" /\ Clear =>
        \A f \in stdio_count..MaxFd : f <= CloseLimit => ctab[f] = Nothing

\* R takes the process for started if, and only if, execvp() has succeeded.
StartIsTrue ==
    Clear => /\ verdict = "started" => cpc = "running"
             /\ verdict = "failed" => cpc = "dead"

\* R keeps its own files, and adds only its ends of the pipes and of the pty.
RTableKept ==
    pc = "done" => \A f \in Fd :
        IF f \in ropen THEN ptab[f] = <<"R", f>>
        ELSE ptab[f] \in {Nothing, PtyMain, PtySub} \cup {"parent"} \X (0..2)

\* processx_exec does not hang in read(): R closes its write end, and the child
\* either calls execvp() or dies.
StartReturns == pc = "read" ~> pc = "done"

\* Types, and R's own descriptor table after exec (processx.c:630-645).
Inv == TypeOK /\ RTableKept

=============================================================================
