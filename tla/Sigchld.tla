-------------------------------- MODULE Sigchld --------------------------------
(***************************************************************************)
(* src/src/unix/sigchld.c: installation, blocking and the body of the      *)
(* SIGCHLD handler.  The handler runs on the main thread, between any two  *)
(* steps of the main program during which SIGCHLD is not blocked; children *)
(* go on exiting while it walks the list.                                  *)
(***************************************************************************)
EXTENDS ProcessHandle

VARIABLES
    blocked,      \* SIGCHLD is in the signal mask of the main thread
    disposition,  \* whose handler is installed
    old_handler,  \* old_sig_handler
    forwarding,   \* another thread got the signal and will pthread_kill() ours
    hptr          \* position of ptr in the list, 0 if the handler does not run

signalVars == <<disposition, old_handler, forwarding, hptr>>

SigchldTypeOK ==
    /\ blocked \in BOOLEAN
    /\ disposition \in {"processx", "foreign", "default"}
    /\ old_handler \in {"foreign", "default"}
    /\ forwarding \in BOOLEAN
    /\ hptr \in Nat

SigchldInit ==
    /\ blocked = FALSE
    /\ disposition = "default"
    /\ old_handler = "default"
    /\ forwarding = FALSE
    /\ hptr = 0

\* A pending signal that is not blocked is delivered before the main program
\* makes another step.
Deliverable == pending /\ ~ blocked /\ hptr = 0
MainRuns == hptr = 0 /\ ~ Deliverable

\* processx__setup_sigchld
setup_sigchld ==
    /\ disposition' = "processx"
    /\ old_handler' = IF disposition = "processx" THEN old_handler ELSE disposition
    /\ UNCHANGED <<forwarding, hptr>>

\* processx__remove_sigchld
remove_sigchld ==
    /\ disposition' = "default"
    /\ old_handler' = "default"
    /\ UNCHANGED <<forwarding, hptr>>

\* Mutant: the handler returns on other threads.
Bug_OtherThreadTakes ==
    /\ "threads" \in Env
    /\ pending /\ blocked /\ disposition = "processx"
    /\ pending' = FALSE
    /\ UNCHANGED <<kernelVars, owner, listVars, refVars, statusVars, hpid, waitpipe,
                   pty_child_fd, blocked, disposition, old_handler, forwarding, hptr>>

\* While the main thread blocks SIGCHLD, another thread gets it: there the
\* handler only forwards it.
OtherThreadTakes ==
    /\ "threads" \in Env
    /\ pending /\ blocked /\ disposition = "processx"
    /\ pending' = FALSE
    /\ forwarding' = TRUE
    /\ UNCHANGED <<kernelVars, owner, listVars, refVars, statusVars, hpid, waitpipe,
                   pty_child_fd, blocked, disposition, old_handler, hptr>>

OtherThreadForwards ==
    /\ forwarding
    /\ forwarding' = FALSE
    /\ pending' = TRUE
    /\ UNCHANGED <<kernelVars, owner, listVars, refVars, statusVars, hpid, waitpipe,
                   pty_child_fd, blocked, disposition, old_handler, hptr>>

\* The handler of somebody else runs: it may reap any of our zombies.
ForeignReaps ==
    \E S \in SUBSET {h \in Handle : child[h] = "zombie"} :
        /\ S # {} => "steal" \in Env
        /\ child' = [h \in Handle |-> IF h \in S THEN "reaped" ELSE child[h]]

\* SIGCHLD goes to a handler that is not ours, or is ignored.
SignalLost ==
    /\ pending /\ hptr = 0
    /\ ~ blocked \/ "threads" \in Env
    /\ disposition # "processx"
    /\ pending' = FALSE
    /\ IF disposition = "foreign" THEN ForeignReaps ELSE child' = child
    /\ UNCHANGED <<kpid, fate, sigs, execfail, stranger, misfire, owner, listVars, refVars,
                   statusVars, hpid, waitpipe, pty_child_fd, blocked, signalVars>>

\* Mutant: the walk begins with the second node.
Bug_CallbackEnters ==
    /\ Deliverable
    /\ disposition = "processx"
    /\ pending' = FALSE
    /\ hptr' = IF Len(child_list) > 1 THEN 2 ELSE 1
    /\ UNCHANGED <<kernelVars, owner, listVars, refVars, statusVars, hpid, waitpipe,
                   pty_child_fd, blocked, disposition, old_handler, forwarding>>

\* processx__sigchld_callback starts on the main thread.
CallbackEnters ==
    /\ Deliverable
    /\ disposition = "processx"
    /\ pending' = FALSE
    /\ hptr' = 1
    /\ UNCHANGED <<kernelVars, owner, listVars, refVars, statusVars, hpid, waitpipe,
                   pty_child_fd, blocked, disposition, old_handler, forwarding>>

\* The handle the handler finds from list node h: none if the weak reference
\* lost its key or the external pointer was cleared.
HandleFound(h) == wkey[h] /\ xptr[h]

\* The child of the current node still runs: go to the next node.
CallbackKeeps ==
    /\ hptr \in 1..Len(child_list)
    /\ WaitRunning(kpid[child_list[hptr]])
    /\ hptr' = hptr + 1
    /\ UNCHANGED <<kernelVars, pending, owner, listVars, refVars, statusVars, hpid, waitpipe,
                   pty_child_fd, blocked, disposition, old_handler, forwarding>>

\* waitpid() reaped the child of the current node, or somebody else has: set
\* the exit status, stop an active wait(), unlink the node.
CallbackReaps ==
    /\ hptr \in 1..Len(child_list)
    /\ LET h == child_list[hptr]
           p == kpid[h]
       IN  /\ ~ WaitRunning(p)
           /\ child' = Reaped(p)
           /\ IF HandleFound(h)
              THEN /\ collect_exit_status(h, IF WaitExited(p) THEN Wstat(p) ELSE NA)
                   /\ owner' = Closed(CollectCloses(h) \cup {waitpipe[h]})
                   /\ waitpipe' = [waitpipe EXCEPT ![h] = -1]
              ELSE UNCHANGED <<statusVars, pty_child_fd, owner, waitpipe>>
    /\ unlink(hptr)
    /\ UNCHANGED <<kpid, fate, sigs, execfail, stranger, misfire, pending, refVars, hpid,
                   blocked, signalVars>>

\* The end of the list: call the old handler if asked to, and return.
CallbackReturns ==
    /\ hptr = Len(child_list) + 1
    /\ hptr' = 0
    /\ IF "notify" \in Env /\ old_handler = "foreign" THEN ForeignReaps ELSE child' = child
    /\ UNCHANGED <<kpid, fate, sigs, execfail, stranger, misfire, pending, owner, listVars,
                   refVars, statusVars, hpid, waitpipe, pty_child_fd, blocked, disposition,
                   old_handler, forwarding>>

Callback == CallbackEnters \/ CallbackKeeps \/ CallbackReaps \/ CallbackReturns

=============================================================================
