----------------------------- MODULE ProcessHandle -----------------------------
(***************************************************************************)
(* processx_handle_t of src/src/unix/processx-unix.h, the external pointer *)
(* in the R object that leads to it, and the functions of                  *)
(* src/src/unix/processx.c that create, fill and destroy it.               *)
(***************************************************************************)
EXTENDS ChildList

VARIABLES
    ref,           \* how R refers to the external pointer
    xptr,          \* the external pointer has an address (R_ClearExternalPtr)
    wkey,          \* the weak reference in the list node still has its key
    mem,           \* the memory of the handle
    collected,     \* handle->collected
    exitcode,      \* handle->exitcode
    hpid,          \* handle->pid
    waitpipe,      \* handle->waitpipe[1], the end the SIGCHLD handler closes
    pty_child_fd,  \* handle->pty_child_fd
    cleanup        \* handle->cleanup

statusVars == <<collected, exitcode>>
refVars    == <<ref, xptr, wkey, mem, cleanup>>

HandleTypeOK ==
    /\ ref \in [Handle -> {"none", "held", "garbage", "finalized"}]
    /\ xptr \in [Handle -> BOOLEAN]
    /\ wkey \in [Handle -> BOOLEAN]
    /\ mem \in [Handle -> {"none", "live", "freed"}]
    /\ collected \in [Handle -> BOOLEAN]
    /\ exitcode \in [Handle -> ExitCode \cup {NA}]
    /\ hpid \in [Handle -> Pid \cup {0}]
    /\ waitpipe \in [Handle -> Fd \cup {-1}]
    /\ pty_child_fd \in [Handle -> Fd \cup {-1}]
    /\ cleanup \in [Handle -> BOOLEAN]

HandleInit ==
    /\ ref = [h \in Handle |-> "none"]
    /\ xptr = [h \in Handle |-> FALSE]
    /\ wkey = [h \in Handle |-> FALSE]
    /\ mem = [h \in Handle |-> "none"]
    /\ collected = [h \in Handle |-> FALSE]
    /\ exitcode = [h \in Handle |-> 0]
    /\ hpid = [h \in Handle |-> 0]
    /\ waitpipe = [h \in Handle |-> -1]
    /\ pty_child_fd = [h \in Handle |-> -1]
    /\ cleanup = [h \in Handle |-> FALSE]

\* processx__make_handle: everything is zeroed by memset(), the descriptor
\* pty_child_fd too; only waitpipe is set to -1.
make_handle(h, cl) ==
    /\ ref' = [ref EXCEPT ![h] = "held"]
    /\ xptr' = [xptr EXCEPT ![h] = TRUE]
    /\ mem' = [mem EXCEPT ![h] = "live"]
    /\ cleanup' = [cleanup EXCEPT ![h] = cl]
    /\ pty_child_fd' = [pty_child_fd EXCEPT ![h] = 0]
    /\ waitpipe' = [waitpipe EXCEPT ![h] = -1]
    /\ UNCHANGED <<wkey, statusVars, hpid>>

\* Mutant: the pty descriptor is closed, but not forgotten.
Bug_collect_exit_status(h, code) ==
    /\ exitcode' = [exitcode EXCEPT ![h] = IF collected[h] THEN @ ELSE code]
    /\ collected' = [collected EXCEPT ![h] = TRUE]
    /\ pty_child_fd' = pty_child_fd

\* The fields after processx__collect_exit_status(status, wp, wstat), where
\* code is NA if wp is -1: the first call wins.
collect_exit_status(h, code) ==
    /\ exitcode' = [exitcode EXCEPT ![h] = IF collected[h] THEN @ ELSE code]
    /\ collected' = [collected EXCEPT ![h] = TRUE]
    /\ pty_child_fd' = [pty_child_fd EXCEPT ![h] = IF collected[h] THEN @ ELSE -1]

\* Mutant: the pty descriptor is forgotten, but not closed.
Bug_CollectCloses(h) == {}

\* The descriptors that the call closes.
CollectCloses(h) == IF collected[h] THEN {} ELSE {pty_child_fd[h]}

\* Mutant: an error of waitpid() is not told from an exit status.
Bug_CollectExited(h, p) ==
    /\ child' = Reaped(p)
    /\ collect_exit_status(h, IF WaitExited(p) THEN Wstat(p) ELSE 0)
    /\ owner' = Closed(CollectCloses(h))

\* waitpid() of pid p, which does not run, and the collection of what it
\* reports into h: the status, or NA if waitpid() says ECHILD.
CollectExited(h, p) ==
    /\ child' = Reaped(p)
    /\ collect_exit_status(h, IF WaitExited(p) THEN Wstat(p) ELSE NA)
    /\ owner' = Closed(CollectCloses(h))

\* processx__handle_destroy: close the pty descriptor, free the memory.
handle_destroy(h) ==
    /\ owner' = Closed({pty_child_fd[h]})
    /\ mem' = [mem EXCEPT ![h] = "freed"]

=============================================================================
