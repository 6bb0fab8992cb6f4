------------------------------ MODULE UnixKernel ------------------------------
(***************************************************************************)
(* What the Unix half of processx uses of the kernel: child processes and  *)
(* their pids, waitpid(), kill(), the pending SIGCHLD and the descriptor   *)
(* table.  None of this is code of the repository; it is modelled from the *)
(* calls in src/src/unix/.                                                 *)
(*                                                                         *)
(* A child is named after the process handle whose fork() created it.      *)
(***************************************************************************)
EXTENDS Integers, FiniteSets

CONSTANTS
    Handle,   \* the process objects of the R session
    Pid,      \* process ids the kernel hands out
    Fd,       \* file descriptor numbers; 0 is the standard input of R
    Env       \* which of EnvEvents happen around processx in this instance

\* The events outside the control of processx that an instance can allow.
EnvEvents ==
    { "displace",   \* another package replaces the SIGCHLD handler
      "steal",      \* a foreign SIGCHLD handler reaps children of processx
      "notify",     \* the old handler is called too (PROCESSX_NOTIFY_OLD_SIGCHLD)
      "threads",    \* other threads take process directed signals, open files
      "reuse",      \* a pid is handed out again after the process was reaped
      "interrupt",  \* the user interrupts a wait
      "gc",         \* a garbage collection runs finalizers inside child_add
      "prefork",    \* no descriptors or no memory left before or in fork()
      "siblings",   \* R has other children, in its own process group
      "pipe",       \* pipe() fails in wait
      "oom",        \* calloc() fails in child_add
      "unload" }    \* the processx package is unloaded

ASSUME PidAssumption == Pid \subseteq Nat \ {0}
ASSUME FdAssumption  == Fd \subseteq Nat /\ 0 \in Fd
ASSUME EnvAssumption == Env \subseteq EnvEvents

NA == -2147483647 - 1   \* NA_INTEGER, the smallest int
SIGKILL == 9
SIGTERM == 15
Signal == {SIGKILL, SIGTERM}
ExitCode == {0, -SIGKILL, -SIGTERM}

VARIABLES
    child,      \* life of the child of each handle
    kpid,       \* its pid, 0 before the fork
    fate,       \* how it ended, NA before that
    sigs,       \* signals that reached it while it was alive
    execfail,   \* it reported a failed execvp() on the signal pipe
    stranger,   \* reused pids that belong to unrelated processes
    pending,    \* SIGCHLD is pending for the process
    misfire,    \* history: a signal reached something else than the own child
    owner       \* who has each descriptor open

kernelVars == <<child, kpid, fate, sigs, execfail, stranger, misfire>>

Alive == {"init", "failing", "run"}
ChildState == {"none", "zombie", "reaped"} \cup Alive

KernelTypeOK ==
    /\ child \in [Handle -> ChildState]
    /\ kpid \in [Handle -> Pid \cup {0}]
    /\ fate \in [Handle -> ExitCode \cup {NA}]
    /\ sigs \in [Handle -> SUBSET Signal]
    /\ execfail \in [Handle -> BOOLEAN]
    /\ stranger \in SUBSET Pid
    /\ pending \in BOOLEAN
    /\ misfire \in BOOLEAN
    /\ owner \in [Fd -> {"free", "other", "wait", "pty"}]

KernelInit ==
    /\ child = [h \in Handle |-> "none"]
    /\ kpid = [h \in Handle |-> 0]
    /\ fate = [h \in Handle |-> NA]
    /\ sigs = [h \in Handle |-> {}]
    /\ execfail = [h \in Handle |-> FALSE]
    /\ stranger = {}
    /\ pending = FALSE
    /\ misfire = FALSE
    /\ owner = [f \in Fd |-> IF f = 0 THEN "other" ELSE "free"]

---------------------------------------------------------------------------
(* Processes *)

\* The unreaped child that has pid p: a set of at most one handle.
Occupant(p) == {h \in Handle : kpid[h] = p /\ child[h] \in Alive \cup {"zombie"}}

PidFree(p) ==
    /\ Occupant(p) = {}
    /\ p \notin stranger
    /\ "reuse" \in Env \/ \A h \in Handle : kpid[h] # p

\* The answers of waitpid(p, ..., WNOHANG).  waitpid(0) asks for any child in
\* the process group of R; the children of processx are in their own groups.
WaitRunning(p) == \/ \E h \in Occupant(p) : child[h] \in Alive
                  \/ p = 0 /\ "siblings" \in Env
WaitExited(p)  == \E h \in Occupant(p) : child[h] = "zombie"
WaitECHILD(p)  == ~ WaitRunning(p) /\ ~ WaitExited(p)

\* What waitpid(p) does to the process table, and the status it reports.
Reaped(p) == [h \in Handle |->
                IF h \in Occupant(p) /\ child[h] = "zombie" THEN "reaped" ELSE child[h]]
Wstat(p)  == fate[CHOOSE h \in Occupant(p) : child[h] = "zombie"]

\* kill(p, 0) succeeds: zombies count.
Exists(p) == p = 0 \/ Occupant(p) # {} \/ p \in stranger

\* kill() of sig, meant for the child of h, sent to pid p: it reaches whoever
\* has that pid now; kill(-0) reaches the process group of R itself.
Delivered(h, p, sig) ==
    /\ sigs' = [c \in Handle |-> IF c \in Occupant(p) /\ child[c] \in Alive
                                 THEN sigs[c] \cup {sig} ELSE sigs[c]]
    /\ misfire' = (misfire \/ p = 0 \/ p \in stranger \/ Occupant(p) \ {h} # {})

\* execvp() succeeds in the child: the signal pipe closes.
ChildExec(h) ==
    /\ child[h] = "init"
    /\ child' = [child EXCEPT ![h] = "run"]
    /\ UNCHANGED <<kpid, fate, sigs, execfail, stranger, pending, misfire, owner>>

\* Some step of child_init fails: the child writes errno to the signal pipe;
\* its next step is raise(SIGKILL).
ChildExecFails(h) ==
    /\ child[h] = "init"
    /\ child' = [child EXCEPT ![h] = "failing"]
    /\ execfail' = [execfail EXCEPT ![h] = TRUE]
    /\ UNCHANGED <<kpid, fate, sigs, stranger, pending, misfire, owner>>

\* A child ends, by itself or by a signal, becomes a zombie and SIGCHLD is
\* sent to R.  A second SIGCHLD is merged with a pending one.  Anybody can send
\* SIGKILL, at any time.
ChildEnds(h, s) ==
    /\ child[h] \in Alive
    /\ \/ s = 0 /\ child[h] = "run"
       \/ s = -SIGTERM /\ SIGTERM \in sigs[h]
       \/ s = -SIGKILL
    /\ child' = [child EXCEPT ![h] = "zombie"]
    /\ fate' = [fate EXCEPT ![h] = s]
    /\ sigs' = [sigs EXCEPT ![h] = {}]
    /\ pending' = TRUE
    /\ UNCHANGED <<kpid, execfail, stranger, misfire, owner>>

\* An unrelated process is started and gets a pid that a child had before.
StrangerStarts(p) ==
    /\ "reuse" \in Env
    /\ PidFree(p)
    /\ \E h \in Handle : kpid[h] = p
    /\ stranger' = stranger \cup {p}
    /\ UNCHANGED <<child, kpid, fate, sigs, execfail, pending, misfire, owner>>

---------------------------------------------------------------------------
(* File descriptors *)

\* The descriptor table after close() of every descriptor in S; a negative
\* number is EBADF, and so is one that is free.
Closed(S) == [f \in Fd |-> IF f \in S THEN "free" ELSE owner[f]]

\* A file can be opened as descriptor f.  Unless the instance lets pipe() fail,
\* there is always one more free descriptor.
CanOpen(f) ==
    /\ owner[f] = "free"
    /\ "pipe" \in Env \/ \E g \in Fd \ {f} : owner[g] = "free"

\* Other code of the R process opens a file.
OtherOpens(f) ==
    /\ CanOpen(f)
    /\ owner' = [owner EXCEPT ![f] = "other"]
    /\ UNCHANGED <<kernelVars, pending>>

=============================================================================
