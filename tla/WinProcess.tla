----------------------------- MODULE WinProcess -----------------------------
(***************************************************************************)
(* Processes on Windows (src/src/win/processx.c, src/src/win/stdio.c):     *)
(* processx_exec() with its error paths, with pipes and files or with a    *)
(* pseudo console, the job object that kills the processes when R is gone, *)
(* and the calls that wait for, ask about and terminate a process, between *)
(* any steps of the processes.                                             *)
(*                                                                         *)
(* Handles are <<p, name>>: the ends of the pipes of process p, the handle *)
(* of the process itself, and so on.  R's threads other than the one that  *)
(* calls processx are not modelled.                                        *)
(***************************************************************************)
EXTENDS Integers, FiniteSets

CONSTANTS
    Proc,      \* the process objects, in the order in which they are made
    Stream,    \* standard streams: 1 .. n,
    Pipes,     \* those that are "|"; the others are files or inherited
    PtyProc,   \* the process objects that may be made with pty = TRUE
    ExitCode,  \* what a process may exit with
    Faults,    \* what may fail, among AllFaults,
    MaxFailed  \* and bound on the exec calls that fail

AllFaults ==
    {"search", "pipe", "ptyin", "ptyout", "pseudo", "attr", "stdio", "create",
     "jobmake", "jobinfo", "denied", "job", "resume"}

STILL_ACTIVE == 259

ASSUME ProcAssumption == Proc \subseteq Nat \ {0} /\ PtyProc \subseteq Proc
ASSUME StreamAssumption ==
    Stream \subseteq Nat \ {0} /\ 1 \in Stream /\ Pipes \subseteq Stream
ASSUME CodeAssumption == ExitCode \subseteq Nat
ASSUME FaultAssumption == Faults \subseteq AllFaults /\ MaxFailed \in Nat

VARIABLES
    os,      \* the processes
    open,    \* the handles that are open in R
    handle,  \* processx_handle_t
    con,     \* the connections of the parent's ends of pipes
    std,     \* R's standard handles: its own, or the console's
    job,     \* processx__global_job_handle: "none", a job that kills its members when
             \* it is closed ("kill"), or one without that limit ("bare")
    r,       \* R is "up" or "gone"
    pc,      \* where R is
    call,    \* the call R is in
    res      \* how exec ended: it "failed" after it had cleaned up, or it has
             \* "thrown" an error as it stood

vars == <<os, open, handle, con, std, job, r, pc, call, res>>

ChildEnd(p, i) == <<p, "child", i>>
ParentEnd(p, i) == <<p, "parent", i>>
PtyName == {"ptyin_read", "ptyin_write", "ptyout_read", "ptyout_child", "conin", "hpc"}
Named(p, names) == {<<p, n, 0>> : n \in names}

Ends(p) == {ParentEnd(p, i) : i \in Pipes} \cup Named(p, {"ptyin_write", "ptyout_read"})
Handles(p) ==
    Ends(p) \cup {ChildEnd(p, i) : i \in Stream}
    \cup Named(p, PtyName \cup {"process", "thread"})
AllHandles == UNION {Handles(p) : p \in Proc}

\* A process is "dying" when its exit code is set and it still has its handles.
Os == [st : {"none", "suspended", "running", "dying", "exited"},
       code : ExitCode \cup {0, 1, 2, STILL_ACTIVE}, job : BOOLEAN, held : SUBSET AllHandles]

Handle == [mem : {"none", "live", "freed"}, hProcess : BOOLEAN, collected : BOOLEAN,
           exitcode : ExitCode \cup {0, 1, 2}, cleanup : BOOLEAN, pty : BOOLEAN,
           ptycon : BOOLEAN, denied : BOOLEAN]

NoCall == [op |-> "none", p |-> 0, i |-> 0, forever |-> FALSE]

\* One type invariant.  A connection that stdio_create has destroyed still has
\* its R object.
TypeOK ==
    /\ os \in [Proc -> Os]
    /\ open \subseteq AllHandles
    /\ handle \in [Proc -> Handle]
    /\ con \in [UNION {Ends(p) : p \in Proc} -> {"none", "live", "destroyed", "freed", "twice"}]
    /\ std \in {"own", "console"} /\ job \in {"none", "bare", "kill"} /\ r \in {"up", "gone"}
    /\ pc \in {"idle", "ptypipe", "console", "pseudo", "attr", "ptycreate", "stdio",
               "create", "assign", "resume", "finish", "wait", "terminate", "reap"}
    /\ call \in [op : {"none", "exec", "wait", "signal", "finalize"}, p : Proc \cup {0},
                 i : Stream \cup {0}, forever : BOOLEAN]
    /\ res \in [Proc -> {"none", "ok", "failed", "thrown"}]

Init ==
    /\ os = [p \in Proc |-> [st |-> "none", code |-> STILL_ACTIVE, job |-> FALSE, held |-> {}]]
    /\ open = {}
    /\ handle = [p \in Proc |-> [mem |-> "none", hProcess |-> FALSE, collected |-> FALSE,
                                 exitcode |-> 0, cleanup |-> FALSE, pty |-> FALSE,
                                 ptycon |-> FALSE, denied |-> FALSE]]
    /\ con = [e \in UNION {Ends(p) : p \in Proc} |-> "none"]
    /\ std = "own" /\ job = "none" /\ r = "up"
    /\ pc = "idle" /\ call = NoCall
    /\ res = [p \in Proc |-> "none"]

-----------------------------------------------------------------------------
(***************************************************************************)
(* The processes and the system.                                           *)
(***************************************************************************)
rVars == <<open, handle, con, std, job, r, pc, call, res>>

\* The process exits by itself.
Exits(p, code) ==
    /\ os[p].st = "running"
    /\ os' = [os EXCEPT ![p].st = "dying", ![p].code = code]
    /\ UNCHANGED rVars

\* The kernel has finished with it.
Gone(p) ==
    /\ os[p].st = "dying"
    /\ os' = [os EXCEPT ![p].st = "exited", ![p].held = {}]
    /\ UNCHANGED rVars

\* All processes of the job are terminated.
JobEnds(code) ==
    os' = [p \in Proc |->
        IF os[p].job /\ os[p].st \in {"suspended", "running"}
        THEN [os[p] EXCEPT !.st = "dying", !.code = code] ELSE os[p]]

\* R is killed, or exits after its finalizers.  The job is closed: with
\* KILL_ON_JOB_CLOSE its members end too.
RDies ==
    /\ r = "up"
    /\ r' = "gone" /\ open' = {} /\ pc' = "idle" /\ call' = NoCall
    /\ IF job = "kill" THEN JobEnds(0) ELSE UNCHANGED os
    /\ con' = [e \in DOMAIN con |-> "none"]
    /\ UNCHANGED <<handle, std, job, res>>

-----------------------------------------------------------------------------
(***************************************************************************)
(* processx_exec().                                                        *)
(***************************************************************************)
At(label) == r = "up" /\ pc = label
Fails(f) ==
    f \in Faults /\ Cardinality({p \in Proc : res[p] \in {"failed", "thrown"}}) < MaxFailed
Return == pc' = "idle" /\ call' = NoCall
P == call.p

\* R_ClearExternalPtr(result); free(handle); R_THROW_ERROR().
Cleared(p) ==
    /\ handle' = [handle EXCEPT ![p].mem = "freed"]
    /\ res' = [res EXCEPT ![p] = "failed"]
    /\ Return

\* R_THROW_ERROR() only: the finalizer of the handle will run.
Thrown ==
    /\ res' = [res EXCEPT ![P] = "thrown"]
    /\ Return

\* processx__make_handle, processx__search_path.
ExecBegins(p, pty, cleanup) ==
    /\ At("idle") /\ (pty => p \in PtyProc) /\ handle[p].mem = "none"
    /\ \A q \in Proc : q < p => handle[q].mem # "none"
    /\ LET new == [handle[p] EXCEPT !.mem = "live", !.pty = pty, !.cleanup = cleanup] IN
       \/ /\ handle' = [handle EXCEPT ![p] = new]
          /\ pc' = IF pty THEN "ptypipe" ELSE "stdio"
          /\ call' = [NoCall EXCEPT !.op = "exec", !.p = p, !.i = 1]
          /\ UNCHANGED res
       \/ /\ Fails("search")
          /\ handle' = [handle EXCEPT ![p] = [new EXCEPT !.mem = "freed"]]
          /\ res' = [res EXCEPT ![p] = "failed"]
          /\ Return
    /\ UNCHANGED <<os, open, con, std, job, r>>

-----------------------------------------------------------------------------
(***************************************************************************)
(* With a pseudo console.                                                  *)
(***************************************************************************)
\* CreatePipe() for the input, processx__create_pipe() for the output; the
\* latter throws its errors itself.
PtyPipes ==
    /\ At("ptypipe")
    /\ \/ Fails("ptyin") /\ Cleared(P) /\ UNCHANGED open
       \/ /\ Fails("ptyout") /\ Thrown
          /\ open' = open \cup Named(P, {"ptyin_read", "ptyin_write"})
          /\ UNCHANGED handle
       \/ /\ open' = open \cup Named(P, {"ptyin_read", "ptyin_write", "ptyout_read", "ptyout_child"})
          /\ pc' = "console"
          /\ UNCHANGED <<handle, call, res>>
    /\ UNCHANGED <<os, con, std, job, r>>

\* R's standard handles become those of the console: AllocConsole(), or, with a
\* console already there, CreateFile() of CONIN$ and CONOUT$.
PtyConsole ==
    /\ At("console")
    /\ std' = "console"
    /\ open' = open \/ open' = open \cup Named(P, {"conin"})
    /\ pc' = "pseudo"
    /\ UNCHANGED <<os, handle, con, job, r, call, res>>

\* PROCESSX_PTY_RESTORE_STD_HANDLES, and the ends in hs are closed.
RestoreAndClose(hs) ==
    /\ std' = "own"
    /\ open' = open \ Named(P, hs \cup {"conin"})

\* CreatePseudoConsole(), and then the ends that it has copied are closed.
PtyPseudo ==
    /\ At("pseudo")
    /\ \/ /\ Fails("pseudo")
          /\ RestoreAndClose({"ptyin_read", "ptyout_child", "ptyin_write", "ptyout_read"})
          /\ Cleared(P)
       \/ /\ open' = (open \ Named(P, {"ptyin_read", "ptyout_child"})) \cup Named(P, {"hpc"})
          /\ pc' = "attr"
          /\ UNCHANGED <<handle, std, call, res>>
    /\ UNCHANGED <<os, con, job, r>>

\* The attribute list: malloc(), Initialize... and UpdateProcThreadAttribute().
PtyAttr ==
    /\ At("attr")
    /\ \/ /\ Fails("attr")
          /\ RestoreAndClose({"hpc", "ptyin_write", "ptyout_read"})
          /\ Cleared(P)
       \/ pc' = "ptycreate" /\ UNCHANGED <<open, handle, std, call, res>>
    /\ UNCHANGED <<os, con, job, r>>

\* CreateProcessW() has made a suspended process that has the handles hs.
Created(hs) ==
    /\ os' = [os EXCEPT ![P].st = "suspended", ![P].held = hs]
    /\ pc' = "assign"
    /\ UNCHANGED <<call, res>>

\* CreateProcessW() with the attribute list; no handles are inherited.
PtyCreate ==
    /\ At("ptycreate")
    /\ \/ /\ Fails("create")
          /\ RestoreAndClose({"hpc", "ptyin_write", "ptyout_read"})
          /\ Cleared(P) /\ UNCHANGED os
       \/ /\ Created({})
          /\ std' = "own"
          /\ open' = (open \ Named(P, {"conin"})) \cup Named(P, {"process", "thread"})
          /\ handle' = [handle EXCEPT ![P] = [@ EXCEPT !.ptycon = TRUE, !.hProcess = TRUE]]
    /\ UNCHANGED <<con, job, r>>

-----------------------------------------------------------------------------
(***************************************************************************)
(* With pipes and files.                                                   *)
(***************************************************************************)
\* processx__stdio_create, for the next stream: a pipe and its connection, or
\* another handle.  The error path closes the child's handles and destroys the
\* connections, whose R objects remain; a pipe that cannot be made throws at once.
StdioCreate ==
    /\ At("stdio")
    /\ LET i == call.i
           made == {ParentEnd(P, j) : j \in {j \in Pipes : j < i}}
       IN \/ /\ open' = open \cup {ChildEnd(P, i)}
                        \cup (IF i \in Pipes THEN {ParentEnd(P, i)} ELSE {})
             /\ con' = IF i \in Pipes THEN [con EXCEPT ![ParentEnd(P, i)] = "live"] ELSE con
             /\ IF i + 1 \in Stream THEN pc' = "stdio" /\ call' = [call EXCEPT !.i = i + 1]
                                    ELSE pc' = "create" /\ UNCHANGED call
             /\ UNCHANGED res
          \/ /\ i \notin Pipes /\ Fails("stdio")
             /\ open' = open \ ({ChildEnd(P, j) : j \in Stream} \cup made)
             /\ con' = [e \in DOMAIN con |-> IF e \in made THEN "destroyed" ELSE con[e]]
             /\ Thrown
          \/ /\ i \in Pipes /\ Fails("pipe")
             /\ Thrown
             /\ UNCHANGED <<open, con>>
    /\ UNCHANGED <<os, handle, std, job, r>>

Inheritable == {h \in open : h[2] = "child"}

\* Mutant: the process is not created suspended.
Bug_CreateProcess ==
    /\ At("create")
    /\ os' = [os EXCEPT ![P].st = "running", ![P].held = Inheritable]
    /\ pc' = "assign"
    /\ open' = open \cup Named(P, {"process", "thread"})
    /\ handle' = [handle EXCEPT ![P].hProcess = TRUE]
    /\ UNCHANGED <<con, std, job, r, call, res>>

\* CreateProcessW(): all inheritable handles are inherited.
CreateProcess ==
    /\ At("create")
    /\ \/ Fails("create") /\ Thrown /\ UNCHANGED <<os, open, handle>>
       \/ /\ Created(Inheritable)
          /\ open' = open \cup Named(P, {"process", "thread"})
          /\ handle' = [handle EXCEPT ![P].hProcess = TRUE]
    /\ UNCHANGED <<con, std, job, r>>

-----------------------------------------------------------------------------
(***************************************************************************)
(* In both cases.                                                          *)
(***************************************************************************)
\* processx__init_global_job_handle, unless there is a job: CreateJobObjectW(), and
\* SetInformationJobObject(), whose error leaves a bare job for the exec calls to come.
\* Then AssignProcessToJobObject(): access may be denied if R itself is in a job; that
\* is not an error.
AssignJob ==
    /\ At("assign")
    /\ \/ ~handle[P].cleanup /\ pc' = "resume" /\ UNCHANGED <<os, job, handle, call, res>>
       \/ /\ handle[P].cleanup /\ job = "none"
          /\ \/ Fails("jobmake") /\ UNCHANGED job
             \/ Fails("jobinfo") /\ job' = "bare"
          /\ Thrown /\ UNCHANGED <<os, handle>>
       \/ /\ handle[P].cleanup
          /\ job' = IF job = "none" THEN "kill" ELSE job
          /\ \/ /\ os' = [os EXCEPT ![P].job = TRUE]
                /\ pc' = "resume" /\ UNCHANGED <<handle, call, res>>
             \/ /\ Fails("denied")
                /\ handle' = [handle EXCEPT ![P].denied = TRUE]
                /\ pc' = "resume" /\ UNCHANGED <<os, call, res>>
             \/ Fails("job") /\ Thrown /\ UNCHANGED <<os, handle>>
    /\ UNCHANGED <<open, con, std, r>>

\* ResumeThread().
Resume ==
    /\ At("resume")
    /\ \/ Fails("resume") /\ Thrown /\ UNCHANGED <<os, open>>
       \/ /\ os' = [os EXCEPT ![P].st = IF @ = "suspended" THEN "running" ELSE @]
          /\ open' = open \ Named(P, {"thread"})
          /\ pc' = "finish" /\ UNCHANGED <<call, res>>
    /\ UNCHANGED <<handle, con, std, job, r>>

\* Mutant: the child's ends stay open in R.
Bug_Finish ==
    /\ At("finish")
    /\ res' = [res EXCEPT ![P] = "ok"]
    /\ Return
    /\ UNCHANGED <<os, open, handle, con, std, job, r>>

\* processx__stdio_destroy, or the connections of the pseudo console.
Finish ==
    /\ At("finish")
    /\ LET ends == Named(P, {"ptyin_write", "ptyout_read"}) IN
       IF handle[P].pty
       THEN /\ con' = [e \in DOMAIN con |-> IF e \in ends THEN "live" ELSE con[e]]
            /\ UNCHANGED open
       ELSE open' = open \ {ChildEnd(P, i) : i \in Stream} /\ UNCHANGED con
    /\ res' = [res EXCEPT ![P] = "ok"]
    /\ Return
    /\ UNCHANGED <<os, handle, std, job, r>>

-----------------------------------------------------------------------------
(***************************************************************************)
(* Calls about a process.                                                  *)
(***************************************************************************)
\* The process object is in R's hands.
Callable(p) == At("idle") /\ handle[p].mem = "live" /\ res[p] = "ok"

\* processx__collect_exit_status.
Collected(p, code) == [handle EXCEPT ![p] = [@ EXCEPT !.collected = TRUE, !.exitcode = code]]

\* processx_is_alive and processx_get_exit_status do the same to the handle.
GetExitStatus(p) ==
    /\ Callable(p) /\ ~handle[p].collected
    /\ handle[p].hProcess /\ os[p].code # STILL_ACTIVE
    /\ handle' = Collected(p, os[p].code)
    /\ UNCHANGED <<os, open, con, std, job, r, pc, call, res>>

\* processx_wait: WaitForSingleObject() in slices, with interrupts.
WaitBegins(p, forever) ==
    /\ Callable(p) /\ ~handle[p].collected /\ handle[p].hProcess
    /\ pc' = "wait"
    /\ call' = [NoCall EXCEPT !.op = "wait", !.p = p, !.forever = forever]
    /\ UNCHANGED <<os, open, handle, con, std, job, r, res>>

\* Mutant: the exit code decides whether the process has ended.
Bug_WaitEnds ==
    /\ At("wait") /\ os[P].st = "exited" /\ os[P].code # STILL_ACTIVE
    /\ handle' = Collected(P, os[P].code)
    /\ Return
    /\ UNCHANGED <<os, open, con, std, job, r, res>>

WaitEnds ==
    /\ At("wait") /\ os[P].st = "exited"
    /\ handle' = Collected(P, os[P].code)
    /\ Return
    /\ UNCHANGED <<os, open, con, std, job, r, res>>

\* The timeout, or an interrupt.
WaitStops ==
    /\ At("wait") /\ os[P].st # "exited" /\ ~call.forever
    /\ Return
    /\ UNCHANGED <<os, open, handle, con, std, job, r, res>>

\* processx_signal with SIGTERM, SIGKILL or SIGINT, and processx_kill: the exit
\* code is asked for first.
Signal(p) ==
    /\ Callable(p) /\ ~handle[p].collected /\ handle[p].hProcess
    /\ IF os[p].code = STILL_ACTIVE
       THEN /\ pc' = "terminate"
            /\ call' = [NoCall EXCEPT !.op = "signal", !.p = p]
            /\ UNCHANGED handle
       ELSE handle' = Collected(p, os[p].code) /\ UNCHANGED <<pc, call>>
    /\ UNCHANGED <<os, open, con, std, job, r, res>>

\* Mutant: the status is recorded although the process was faster.
Bug_Terminate ==
    /\ At("terminate")
    /\ handle' = Collected(P, 2)
    /\ os' = IF handle[P].hProcess /\ os[P].st \in {"suspended", "running"}
             THEN [os EXCEPT ![P].st = "dying", ![P].code = 2] ELSE os
    /\ pc' = "reap"
    /\ UNCHANGED <<open, con, std, job, r, call, res>>

\* processx__terminate: TerminateProcess() fails if the process has ended in the
\* meantime.
Terminate ==
    /\ At("terminate")
    /\ IF handle[P].hProcess /\ os[P].st \in {"suspended", "running"}
       THEN /\ os' = [os EXCEPT ![P].st = "dying", ![P].code = 2]
            /\ handle' = Collected(P, 2)
       ELSE UNCHANGED <<os, handle>>
    /\ pc' = "reap"
    /\ UNCHANGED <<open, con, std, job, r, call, res>>

\* processx__handle_destroy, and the handle of the process is closed.
Freed(p) ==
    /\ handle' = [handle EXCEPT ![p] =
           [@ EXCEPT !.mem = "freed", !.hProcess = FALSE, !.ptycon = FALSE]]
    /\ open' = open \ Named(p, {"process"}
                               \cup (IF handle[p].ptycon THEN {"hpc"} ELSE {}))

\* WaitForSingleObject() without a timeout and CloseHandle(); without a handle
\* both fail at once.
Reap ==
    /\ At("reap") /\ (handle[P].hProcess => os[P].st = "exited")
    /\ IF call.op = "finalize"
       THEN Freed(P)
       ELSE /\ handle' = [handle EXCEPT ![P].hProcess = FALSE]
            /\ open' = open \ Named(P, {"process"})
    /\ Return
    /\ UNCHANGED <<os, con, std, job, r, res>>

\* processx__finalizer: the process object is gone, or R quits.
Finalizer(p) ==
    /\ At("idle") /\ handle[p].mem = "live"
    /\ IF handle[p].cleanup /\ ~handle[p].collected
       THEN /\ pc' = "terminate"
            /\ call' = [NoCall EXCEPT !.op = "finalize", !.p = p]
            /\ UNCHANGED <<handle, open>>
       ELSE Freed(p) /\ UNCHANGED <<pc, call>>
    /\ UNCHANGED <<os, con, std, job, r, res>>

\* processx__connection_xfinalizer, for the connections of p, which are members of
\* the process object.
ConFinalizers(p) ==
    /\ At("idle") /\ \E e \in Ends(p) : con[e] \in {"live", "destroyed"}
    /\ con' = [e \in DOMAIN con |->
                  IF e \in Ends(p) /\ con[e] = "live" THEN "freed"
                  ELSE IF e \in Ends(p) /\ con[e] = "destroyed" THEN "twice" ELSE con[e]]
    /\ open' = open \ {e \in Ends(p) : con[e] = "live"}
    /\ UNCHANGED <<os, handle, std, job, r, pc, call, res>>

\* processx_pty_close.
PtyClose(p) ==
    /\ Callable(p) /\ handle[p].ptycon
    /\ handle' = [handle EXCEPT ![p].ptycon = FALSE]
    /\ open' = open \ Named(p, {"hpc"})
    /\ UNCHANGED <<os, con, std, job, r, pc, call, res>>

\* processx__unload_cleanup: the job is terminated and closed.
Unload ==
    /\ At("idle") /\ job # "none"
    /\ JobEnds(1)
    /\ job' = "none"
    /\ UNCHANGED <<open, handle, con, std, r, pc, call, res>>

-----------------------------------------------------------------------------
\* The steps of a call once it has begun.
CallStep ==
    \/ PtyPipes \/ PtyConsole \/ PtyPseudo \/ PtyAttr \/ PtyCreate
    \/ StdioCreate \/ CreateProcess \/ AssignJob \/ Resume \/ Finish
    \/ WaitEnds \/ WaitStops \/ Terminate \/ Reap

Next ==
    \/ CallStep
    \/ \E p \in Proc :
        \/ \E pty, cleanup \in BOOLEAN : ExecBegins(p, pty, cleanup)
        \/ \E forever \in BOOLEAN : WaitBegins(p, forever)
        \/ GetExitStatus(p) \/ Signal(p) \/ Finalizer(p) \/ PtyClose(p)
        \/ ConFinalizers(p)
        \/ \E code \in ExitCode : Exits(p, code)
        \/ Gone(p)
    \/ Unload \/ RDies

Spec == Init /\ [][Next]_vars

\* A call goes on, and a process that dies ends.
FairSpec == Spec /\ WF_vars(CallStep) /\ \A p \in Proc : WF_vars(Gone(p))

-----------------------------------------------------------------------------
(***************************************************************************)
(* Properties.                                                             *)
(***************************************************************************)
\* A status that was collected is the one the process has ended with, also when
\* it exits between the question and TerminateProcess().
ExitStatusTrue ==
    \A p \in Proc : handle[p].collected =>
        os[p].st \in {"dying", "exited"} /\ handle[p].exitcode = os[p].code

\* Once exec has returned, neither R nor another process has the child's ends of
\* the pipes: they end when the process does.
PipesEnd ==
    \A p \in Proc : res[p] = "ok" =>
        \A i \in Stream :
            /\ ChildEnd(p, i) \notin open
            /\ \A q \in Proc \ {p} : ChildEnd(p, i) \notin os[q].held

\* A process with cleanup = TRUE does not outlive its handle, also if exec threw
\* an error after CreateProcessW().
CleanupKills ==
    \A p \in Proc : handle[p].mem = "freed" /\ handle[p].cleanup =>
        os[p].st \in {"none", "dying", "exited"}

\* When R is gone, at whatever point, no process with cleanup = TRUE runs on, unless
\* it could not be assigned to the job, or the job is a bare one: that takes an earlier
\* exec that threw an error.
JobKills ==
    r = "gone" =>
        \A p \in Proc : handle[p].cleanup /\ os[p].st = "running" =>
            \/ handle[p].denied
            \/ job = "bare" /\ \E q \in Proc : res[q] = "thrown" /\ handle[q].cleanup

\* R has its own standard handles whenever exec is not at work, also after
\* errors.
StdRestored == At("idle") => std = "own"

\* The handles of p that somebody will still close: its connections, its handle.
Owned(p) ==
    {e \in Ends(p) : con[e] = "live"}
    \cup (IF handle[p].hProcess THEN Named(p, {"process"}) ELSE {})
    \cup (IF handle[p].ptycon THEN Named(p, {"hpc"}) ELSE {})

\* What an exec that threw an error may have left open, for good: R_THROW_ERROR()
\* jumps over the CloseHandle() calls (win/processx.c:121-130, 1102, 1284, 1292, 1372,
\* 1400, 1408).
Strays(p) ==
    IF res[p] # "thrown" THEN {}
    ELSE IF handle[p].pty
    THEN Named(p, IF os[p].st = "none" THEN {"ptyin_read", "ptyin_write"}
                                       ELSE {"ptyin_write", "ptyout_read", "thread"})
    ELSE {ChildEnd(p, i) : i \in Stream}
         \cup (IF os[p].st = "none" THEN {} ELSE Named(p, {"thread"}))

\* Whenever exec is not at work, the handles are open that somebody will still close,
\* and no others, but for the strays of exec calls that threw.
NoHandleLeak ==
    At("idle") =>
        \A p \in Proc : res[p] # "none" =>
            /\ Owned(p) \subseteq open
            /\ open \cap Handles(p) \subseteq Owned(p) \cup Strays(p)

\* wait() returns when the process has ended, whatever its exit code.
WaitReturns == (pc = "wait" /\ os[P].st = "exited") ~> pc # "wait"

\* kill(), signal() and finalizers do not block R.
KillReturns == pc \in {"terminate", "reap"} ~> pc = "idle"

\* Types, and R's handles are right after every call: its standard handles, those of its
\* processes, and none that keeps a pipe from ending; an exec that threw an error
\* leaves its Strays open, and nothing else (win/processx.c:1043-1417).
Inv == TypeOK /\ StdRestored /\ NoHandleLeak /\ PipesEnd

\* A process with cleanup = TRUE outlives neither its handle nor, with the exceptions
\* that JobKills names, R (win/processx.c:90-153, 895-923).
CleanupHolds == CleanupKills /\ JobKills

\* No call blocks for ever (win/processx.c:903, 1455-1492).
CallsReturn == WaitReturns /\ KillReturns

=============================================================================
