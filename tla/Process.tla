-------------------------------- MODULE Process --------------------------------
(***************************************************************************)
(* src/src/unix/processx.c: the life of process objects on Unix.  The main *)
(* thread of R runs one processx call at a time; the SIGCHLD handler       *)
(* (module Sigchld) interrupts it wherever SIGCHLD is not blocked, and the *)
(* children (module UnixKernel) run concurrently with both.                *)
(*                                                                         *)
(* A step of the main program ends at a system call whose outcome depends  *)
(* on the others.  processx__finalizer calls c_processx_kill, which calls  *)
(* c_processx_wait; a garbage collection in processx_exec can run a        *)
(* finalizer.  None of them is recursive, so each has one activation.      *)
(***************************************************************************)
EXTENDS Sigchld

CONSTANTS
    MaxSlices,   \* longest finite timeout, in poll intervals of 200 ms
    Ops          \* what the R code of this instance makes use of

ASSUME MaxSlicesAssumption == MaxSlices \in Nat
ASSUME OpsAssumption == Ops \subseteq {"is_alive", "signal", "wait", "kill", "grace", "pty"}

VARIABLES
    pc,        \* where the main program is
    uh,        \* handle of the processx call R makes
    fh,        \* handle that is being finalized
    waitret,   \* who called c_processx_wait
    wfd,       \* fds[1] in c_processx_wait
    wleft,     \* timeleft there, in poll intervals; -1 for no timeout
    wmask,     \* its saved signal mask
    wres,      \* its result
    uptr,      \* ptr in processx__unload_cleanup
    unloaded   \* processx__unload_cleanup was called

regVars  == <<uh, fh, waitret, wfd, wleft, wmask, wres, uptr, unloaded>>
heldVars == <<refVars, statusVars, hpid, waitpipe, pty_child_fd>>
vars == <<kernelVars, pending, owner, listVars, heldVars, blocked, signalVars, pc, regVars>>

Location ==
    { "idle", "exec_pipes", "exec_forked", "exec_weakref", "exec_read", "exec_reap",
      "alive_check", "sig_send", "sig_reap", "wait_start", "wait_poll", "wait_check", "wait_done",
      "kill_check", "kill_term", "kill_waited", "kill_kill", "kill_reap", "kill_cleanup",
      "fin_kill", "fin_clear", "fin_destroy",
      "unload_remove", "unload_loop", "unload_reap" }

MainTypeOK ==
    /\ pc \in Location
    /\ uh \in Handle \cup {NoNode}
    /\ fh \in Handle \cup {NoNode}
    /\ waitret \in {"user", "kill"}
    /\ wfd \in Fd \cup {-1}
    /\ wleft \in -1..MaxSlices
    /\ wmask \in BOOLEAN
    /\ wres \in BOOLEAN
    /\ uptr \in Handle \cup {NoNode}
    /\ unloaded \in BOOLEAN

MainInit ==
    /\ pc = "idle"
    /\ uh = NoNode
    /\ fh = NoNode
    /\ waitret = "user"
    /\ wfd = -1
    /\ wleft = 0
    /\ wmask = FALSE
    /\ wres = FALSE
    /\ uptr = NoNode
    /\ unloaded = FALSE

Init == KernelInit /\ ListInit /\ HandleInit /\ SigchldInit /\ MainInit

\* The handle that kill and wait work on.
Cur == IF fh # NoNode THEN fh ELSE uh

At(l)   == MainRuns /\ pc = l
Goto(l) == pc' = l
\* R code runs, outside any processx call.
InR == At("idle") /\ ~ unloaded
\* R calls processx with a process object it holds.
Called(h) == InR /\ ref[h] = "held"
\* The local variables of c_processx_wait are dead.
WaitForgets == waitret' = "user" /\ wleft' = 0 /\ wmask' = FALSE /\ wres' = FALSE
\* A processx call returns to R.
Return == /\ pc' = "idle"
          /\ uh' = NoNode
          /\ WaitForgets
          /\ UNCHANGED <<fh, uptr, unloaded>>

\* processx_is_alive, processx_get_exit_status, processx_signal and
\* c_processx_kill begin with blocking SIGCHLD.
Blocks(h, l) ==
    /\ Called(h)
    /\ blocked' = TRUE
    /\ uh' = h
    /\ Goto(l)
    /\ UNCHANGED <<kernelVars, pending, owner, listVars, heldVars, signalVars, fh, waitret, wfd,
                   wleft, wmask, wres, uptr, unloaded>>

---------------------------------------------------------------------------
(* processx_exec *)

\* Up to the point where the handle exists and the SIGCHLD handler is in place.
ExecStarts(h, cl) ==
    /\ InR /\ ref[h] = "none"
    /\ setup_sigchld
    /\ make_handle(h, cl)
    /\ Goto("exec_pipes")
    /\ uh' = h
    /\ UNCHANGED <<kernelVars, pending, owner, listVars, blocked, fh, waitret, wfd, wleft,
                   wmask, wres, uptr, unloaded>>

\* An error is thrown; nobody refers to the handle any more.
ExecThrows == ref' = [ref EXCEPT ![uh] = "garbage"] /\ UNCHANGED <<xptr, wkey, mem, cleanup>>

\* The pty, a socket pair or fork() itself fails.
ExecFailsEarly ==
    /\ At("exec_pipes") /\ "prefork" \in Env
    /\ ExecThrows
    /\ Return
    /\ blocked' \in {blocked, FALSE}
    /\ UNCHANGED <<kernelVars, pending, owner, listVars, statusVars, hpid, waitpipe,
                   pty_child_fd, signalVars, wfd>>

\* SIGCHLD is blocked before the fork.
ExecForks(p) ==
    /\ At("exec_pipes") /\ PidFree(p)
    /\ blocked' = TRUE
    /\ child' = [child EXCEPT ![uh] = "init"]
    /\ kpid' = [kpid EXCEPT ![uh] = p]
    /\ Goto("exec_forked")
    /\ UNCHANGED <<fate, sigs, execfail, stranger, misfire, pending, owner, listVars, heldVars,
                   signalVars, regVars>>

\* Open the pty child end in the parent, if there is a pty and it can be
\* opened, and create the weak reference for the list node.  The node is not
\* linked yet, and creating the reference may run the garbage collector.
ExecOpensPty(f) ==
    /\ At("exec_forked")
    /\ f \in Fd => "pty" \in Ops /\ CanOpen(f)
    /\ owner' = [g \in Fd |-> IF g = f THEN "pty" ELSE owner[g]]
    /\ pty_child_fd' = [pty_child_fd EXCEPT ![uh] = f]

ExecMakesNode(f) ==
    /\ ExecOpensPty(f)
    /\ wkey' = [wkey EXCEPT ![uh] = TRUE]
    /\ Goto("exec_weakref")
    /\ UNCHANGED <<kernelVars, pending, listVars, ref, xptr, mem, cleanup, statusVars, hpid,
                   waitpipe, blocked, signalVars, regVars>>

\* child_add has no memory for the node.
ExecNoMemory(f) ==
    /\ "oom" \in Env
    /\ ExecOpensPty(f)
    /\ blocked' = FALSE
    /\ ExecThrows
    /\ Return
    /\ UNCHANGED <<kernelVars, pending, listVars, statusVars, hpid, waitpipe, signalVars,
                   wfd>>

\* Link the node and unblock SIGCHLD.
ExecLinks ==
    /\ At("exec_weakref")
    /\ child_add(uh)
    /\ blocked' = FALSE
    /\ Goto("exec_read")
    /\ UNCHANGED <<kernelVars, pending, owner, heldVars, signalVars, regVars>>

\* read() on the signal pipe: end of file once the child called execvp() or
\* died, otherwise an errno.  Only now the handle gets its pid.
ExecSucceeds ==
    /\ At("exec_read") /\ child[uh] # "init" /\ ~ execfail[uh]
    /\ hpid' = [hpid EXCEPT ![uh] = kpid[uh]]
    /\ Return
    /\ UNCHANGED <<kernelVars, pending, owner, listVars, refVars, statusVars, waitpipe,
                   pty_child_fd, blocked, signalVars, wfd>>

ExecReadsErrno ==
    /\ At("exec_read") /\ execfail[uh]
    /\ Goto("exec_reap")
    /\ UNCHANGED <<kernelVars, pending, owner, listVars, heldVars, blocked, signalVars, regVars>>

\* A blocking waitpid(), then the error is thrown.
ExecReaps ==
    /\ At("exec_reap") /\ ~ WaitRunning(kpid[uh])
    /\ child' = Reaped(kpid[uh])
    /\ ExecThrows
    /\ Return
    /\ UNCHANGED <<kpid, fate, sigs, execfail, stranger, misfire, pending, owner, listVars,
                   statusVars, hpid, waitpipe, pty_child_fd, blocked, signalVars, wfd>>

Exec ==
    \/ \E h \in Handle, cl \in BOOLEAN : ExecStarts(h, cl)
    \/ ExecFailsEarly
    \/ \E p \in Pid : ExecForks(p)
    \/ \E f \in Fd \cup {-1} : ExecMakesNode(f) \/ ExecNoMemory(f)
    \/ ExecLinks
    \/ ExecSucceeds
    \/ ExecReadsErrno
    \/ ExecReaps

---------------------------------------------------------------------------
(* processx_is_alive, processx_get_exit_status, processx_signal *)

\* processx_is_alive, and processx_get_exit_status, which changes the same
\* state: a non-blocking waitpid() while SIGCHLD is blocked, and the collection
\* of what it reports.
is_alive(h) == "is_alive" \in Ops /\ Blocks(h, "alive_check")

\* Mutant: a process that runs is taken for one that somebody else reaped.
Bug_AliveChecks ==
    /\ At("alive_check")
    /\ IF collected[uh]
       THEN UNCHANGED <<child, statusVars, pty_child_fd, owner>>
       ELSE CollectExited(uh, hpid[uh])
    /\ blocked' = FALSE
    /\ Return
    /\ UNCHANGED <<kpid, fate, sigs, execfail, stranger, misfire, pending, listVars, refVars,
                   hpid, waitpipe, signalVars, wfd>>

AliveChecks ==
    /\ At("alive_check")
    /\ IF collected[uh] \/ WaitRunning(hpid[uh])
       THEN UNCHANGED <<child, statusVars, pty_child_fd, owner>>
       ELSE CollectExited(uh, hpid[uh])
    /\ blocked' = FALSE
    /\ Return
    /\ UNCHANGED <<kpid, fate, sigs, execfail, stranger, misfire, pending, listVars, refVars,
                   hpid, waitpipe, signalVars, wfd>>

\* processx_signal: kill() the child or its process group, if its status is not
\* known.
signal(h) == "signal" \in Ops /\ Blocks(h, "sig_send")

\* Mutant: the signal is sent to a process that is known to be over, too.
Bug_SignalSends(sig) ==
    /\ At("sig_send")
    /\ Delivered(uh, hpid[uh], sig)
    /\ Goto("sig_reap")
    /\ UNCHANGED <<child, kpid, fate, execfail, stranger, pending, owner, listVars, heldVars,
                   blocked, signalVars, regVars>>

SignalSends(sig) ==
    /\ At("sig_send") /\ ~ collected[uh]
    /\ Delivered(uh, hpid[uh], sig)
    /\ Goto("sig_reap")
    /\ UNCHANGED <<child, kpid, fate, execfail, stranger, pending, owner, listVars, heldVars,
                   blocked, signalVars, regVars>>

SignalTooLate ==
    /\ At("sig_send") /\ collected[uh]
    /\ blocked' = FALSE
    /\ Return
    /\ UNCHANGED <<kernelVars, pending, owner, listVars, heldVars, signalVars, wfd>>

\* The rest of it.  The status is collected if waitpid() says ECHILD; if
\* waitpid() reaps the child, then its status is not looked at.
SignalReaps ==
    /\ At("sig_reap")
    /\ child' = Reaped(hpid[uh])
    /\ IF WaitECHILD(hpid[uh])
       THEN collect_exit_status(uh, NA) /\ owner' = Closed(CollectCloses(uh))
       ELSE UNCHANGED <<statusVars, pty_child_fd, owner>>
    /\ blocked' = FALSE
    /\ Return
    /\ UNCHANGED <<kpid, fate, sigs, execfail, stranger, misfire, pending, listVars, refVars,
                   hpid, waitpipe, signalVars, wfd>>

---------------------------------------------------------------------------
(* c_processx_wait *)

\* Mutant: SIGCHLD is not unblocked.
Bug_WaitBegins(h, f, t) ==
    /\ f \in Fd /\ owner[f] = "free"
    /\ setup_sigchld
    /\ owner' = [owner EXCEPT ![f] = "wait"]
    /\ waitpipe' = [waitpipe EXCEPT ![h] = f]
    /\ wfd' = f
    /\ wleft' = t
    /\ wmask' = blocked
    /\ blocked' = TRUE
    /\ Goto("wait_poll")
    /\ UNCHANGED <<kernelVars, pending, listVars, refVars, statusVars, hpid, pty_child_fd, fh,
                   wres, uptr, unloaded>>

\* From the beginning to the first poll().  A wait in c_processx_kill is
\* entered with SIGCHLD blocked; here it is unblocked in any case.
WaitBegins(h, f, t) ==
    /\ f \in Fd /\ owner[f] = "free"
    /\ setup_sigchld
    /\ owner' = [owner EXCEPT ![f] = "wait"]
    /\ waitpipe' = [waitpipe EXCEPT ![h] = f]
    /\ wfd' = f
    /\ wleft' = t
    /\ wmask' = blocked
    /\ blocked' = FALSE
    /\ Goto("wait_poll")
    /\ UNCHANGED <<kernelVars, pending, listVars, refVars, statusVars, hpid, pty_child_fd, fh,
                   wres, uptr, unloaded>>

wait(h, f, t) ==
    /\ Called(h) /\ "wait" \in Ops /\ ~ collected[h]
    /\ WaitBegins(h, f, t)
    /\ uh' = h
    /\ waitret' = "user"

\* The wait in c_processx_kill always has a positive timeout.
KillWaits(f, t) ==
    /\ At("wait_start") /\ t # -1
    /\ WaitBegins(Cur, f, t)
    /\ uh' = uh
    /\ waitret' = "kill"

\* pipe() fails: the saved mask is restored and an error thrown.  The mask a
\* wait in c_processx_kill saved has SIGCHLD blocked, and the error skips the
\* end of c_processx_kill and of the finalizer.
WaitNoPipe ==
    /\ "pipe" \in Env
    /\ \/ \E h \in Handle : Called(h) /\ "wait" \in Ops /\ ~ collected[h]
       \/ At("wait_start")
    /\ setup_sigchld
    /\ pc' = IF fh # NoNode /\ uh # NoNode THEN "exec_weakref" ELSE "idle"
    /\ uh' = IF fh # NoNode THEN uh ELSE NoNode
    /\ fh' = NoNode
    /\ UNCHANGED <<kernelVars, pending, owner, listVars, heldVars, blocked, waitret, wfd, wleft,
                   wmask, wres, uptr, unloaded>>

\* poll() reports that the SIGCHLD handler closed the pipe.
WaitWoken ==
    /\ At("wait_poll") /\ owner[wfd] # "wait"
    /\ wres' = TRUE
    /\ Goto("wait_done")
    /\ UNCHANGED <<kernelVars, pending, owner, listVars, heldVars, blocked, signalVars, uh, fh,
                   waitret, wfd, wleft, wmask, uptr, unloaded>>

\* Mutant: running out of time counts as success.
Bug_WaitSlice ==
    /\ At("wait_poll") /\ owner[wfd] = "wait"
    /\ wres' = (wleft = 0)
    /\ Goto(IF wleft = 0 THEN "wait_done" ELSE "wait_check")
    /\ UNCHANGED <<kernelVars, pending, owner, listVars, heldVars, blocked, signalVars, uh, fh,
                   waitret, wfd, wleft, wmask, uptr, unloaded>>

\* poll() runs into the end of a poll interval, or of the whole timeout.
WaitSlice ==
    /\ At("wait_poll") /\ owner[wfd] = "wait"
    /\ wres' = FALSE
    /\ Goto(IF wleft = 0 THEN "wait_done" ELSE "wait_check")
    /\ UNCHANGED <<kernelVars, pending, owner, listVars, heldVars, blocked, signalVars, uh, fh,
                   waitret, wfd, wleft, wmask, uptr, unloaded>>

\* R_CheckUserInterrupt() does not return: the exit handler closes the pipe.
\* Finalizers are not interruptible.
WaitInterrupted ==
    /\ At("wait_check") /\ "interrupt" \in Env /\ fh = NoNode
    /\ owner' = Closed({wfd})
    /\ wfd' = -1
    /\ Return
    /\ UNCHANGED <<kernelVars, pending, listVars, heldVars, blocked, signalVars>>

\* Mutant: time is also counted when there is no timeout.
Bug_WaitChecks_time ==
    /\ At("wait_check")
    /\ wleft' = wleft - 1
    /\ Goto("wait_poll")
    /\ UNCHANGED <<kernelVars, pending, owner, listVars, heldVars, blocked, signalVars, uh, fh,
                   waitret, wfd, wmask, wres, uptr, unloaded>>

\* kill(pid, 0), in case the signal handler was removed.
WaitChecks ==
    /\ At("wait_check")
    /\ IF Exists(hpid[Cur])
       THEN /\ wleft' = IF wleft < 0 THEN wleft ELSE wleft - 1
            /\ Goto("wait_poll")
            /\ wres' = wres
       ELSE /\ wres' = TRUE
            /\ Goto("wait_done")
            /\ wleft' = wleft
    /\ UNCHANGED <<kernelVars, pending, owner, listVars, heldVars, blocked, signalVars, uh, fh,
                   waitret, wfd, wmask, uptr, unloaded>>

\* The cleanup label: forget the pipe, restore the mask.  The descriptors are
\* closed when the call from R ends.
WaitEnds ==
    /\ At("wait_done")
    /\ waitpipe' = [waitpipe EXCEPT ![Cur] = -1]
    /\ blocked' = wmask
    /\ \/ /\ waitret = "user"
          /\ owner' = Closed({wfd})
          /\ wfd' = -1
          /\ Return
       \/ /\ waitret = "kill"
          /\ Goto("kill_waited")
          /\ UNCHANGED <<owner, regVars>>
    /\ UNCHANGED <<kernelVars, pending, listVars, refVars, statusVars, hpid, pty_child_fd,
                   signalVars>>

Wait ==
    \/ \E h \in Handle, f \in Fd, t \in -1..MaxSlices : wait(h, f, t)
    \/ \E f \in Fd, t \in 0..MaxSlices : KillWaits(f, t)
    \/ WaitNoPipe
    \/ WaitWoken
    \/ WaitSlice
    \/ WaitInterrupted
    \/ WaitChecks
    \/ WaitEnds

---------------------------------------------------------------------------
(* c_processx_kill *)

kill(h) == "kill" \in Ops /\ Blocks(h, "kill_check")

\* Does the child still run?  A child that waitpid() reaps here is not
\* collected.
KillChecks(gracious) ==
    /\ At("kill_check") /\ (gracious => "grace" \in Ops)
    /\ LET p == hpid[Cur]
       IN  IF collected[Cur]
           THEN Goto("kill_cleanup") /\ UNCHANGED <<child, statusVars, pty_child_fd, owner>>
           ELSE /\ child' = Reaped(p)
                /\ IF WaitECHILD(p)
                   THEN collect_exit_status(Cur, NA) /\ owner' = Closed(CollectCloses(Cur))
                   ELSE UNCHANGED <<statusVars, pty_child_fd, owner>>
                /\ Goto(IF ~ WaitRunning(p) THEN "kill_cleanup"
                        ELSE IF gracious THEN "kill_term" ELSE "kill_kill")
    /\ UNCHANGED <<kpid, fate, sigs, execfail, stranger, misfire, pending, listVars, refVars,
                   hpid, waitpipe, blocked, signalVars, regVars>>

\* KILL_WITH(sig): to the process group of the child.  When the child is gone
\* there may be no such group, or one that may not be signalled.
KILL_WITH(sig, l) ==
    /\ \/ /\ Delivered(Cur, hpid[Cur], sig)
          /\ Goto(l)
       \/ /\ hpid[Cur] # 0 /\ Occupant(hpid[Cur]) = {}
          /\ UNCHANGED <<sigs, misfire>>
          /\ Goto("kill_cleanup")
    /\ UNCHANGED <<child, kpid, fate, execfail, stranger, pending, owner, listVars, heldVars,
                   blocked, signalVars, regVars>>

KillTerminates == At("kill_term") /\ KILL_WITH(SIGTERM, "wait_start")

\* Mutant: whoever got SIGTERM is taken for dead.
Bug_KillWaited ==
    /\ At("kill_waited")
    /\ Goto("kill_cleanup")
    /\ UNCHANGED <<kernelVars, pending, owner, listVars, heldVars, blocked, signalVars, regVars>>

\* The grace period is over.
KillWaited ==
    /\ At("kill_waited")
    /\ Goto(IF wres THEN "kill_cleanup" ELSE "kill_kill")
    /\ UNCHANGED <<kernelVars, pending, owner, listVars, heldVars, blocked, signalVars, regVars>>

KillKills == At("kill_kill") /\ KILL_WITH(SIGKILL, "kill_reap")

\* A blocking waitpid(), and the collection of what it reports.
KillReaps ==
    /\ At("kill_reap")
    /\ ~ WaitRunning(hpid[Cur])
    /\ CollectExited(Cur, hpid[Cur])
    /\ Goto("kill_cleanup")
    /\ UNCHANGED <<kpid, fate, sigs, execfail, stranger, misfire, pending, listVars, refVars,
                   hpid, waitpipe, blocked, signalVars, regVars>>

\* The cleanup label, and the exit handler of the wait.
KillEnds ==
    /\ At("kill_cleanup")
    /\ blocked' = FALSE
    /\ owner' = Closed({wfd})
    /\ wfd' = -1
    /\ IF fh = NoNode
       THEN Return
       ELSE Goto("fin_clear") /\ WaitForgets /\ UNCHANGED <<uh, fh, uptr, unloaded>>
    /\ UNCHANGED <<kernelVars, pending, listVars, heldVars, signalVars>>

Kill ==
    \/ \E h \in Handle : kill(h)
    \/ \E g \in BOOLEAN : KillChecks(g)
    \/ KillTerminates
    \/ KillWaited
    \/ KillKills
    \/ KillReaps
    \/ KillEnds

---------------------------------------------------------------------------
(* processx__finalizer *)

\* R forgets a process object.
Drops(h) ==
    /\ Called(h)
    /\ ref' = [ref EXCEPT ![h] = "garbage"]
    /\ UNCHANGED <<kernelVars, pending, owner, listVars, xptr, wkey, mem, cleanup, statusVars,
                   hpid, waitpipe, pty_child_fd, blocked, signalVars, pc, regVars>>

\* A garbage collection finalizes h; by then the weak reference in the list
\* node may have been cleared.  The free list is freed with SIGCHLD blocked,
\* and then SIGCHLD is unblocked.
FinalizerStarts(h) ==
    /\ At("idle") \/ (At("exec_weakref") /\ "gc" \in Env)
    /\ ref[h] = "garbage"
    /\ ref' = [ref EXCEPT ![h] = "finalized"]
    /\ wkey' \in {wkey, [wkey EXCEPT ![h] = FALSE]}
    /\ freelist_free
    /\ blocked' = FALSE
    /\ \/ xptr[h] /\ fh' = h /\ Goto(IF cleanup[h] THEN "fin_kill" ELSE "fin_clear")
       \/ ~ xptr[h] /\ UNCHANGED <<fh, pc>>
    /\ UNCHANGED <<kernelVars, pending, owner, xptr, mem, cleanup, statusVars, hpid, waitpipe,
                   pty_child_fd, signalVars, uh, waitret, wfd, wleft, wmask, wres, uptr, unloaded>>

FinalizerKills ==
    /\ At("fin_kill")
    /\ blocked' = TRUE
    /\ Goto("kill_check")
    /\ UNCHANGED <<kernelVars, pending, owner, listVars, heldVars, signalVars, regVars>>

\* Mutant: the external pointer is not cleared.
Bug_FinalizerClears ==
    /\ At("fin_clear")
    /\ Goto("fin_destroy")
    /\ UNCHANGED <<kernelVars, pending, owner, listVars, heldVars, blocked, signalVars, regVars>>

\* R_ClearExternalPtr(), and after it processx__handle_destroy().
FinalizerClears ==
    /\ At("fin_clear")
    /\ xptr' = [xptr EXCEPT ![fh] = FALSE]
    /\ Goto("fin_destroy")
    /\ UNCHANGED <<kernelVars, pending, owner, listVars, ref, wkey, mem, cleanup, statusVars,
                   hpid, waitpipe, pty_child_fd, blocked, signalVars, regVars>>

FinalizerDestroys ==
    /\ At("fin_destroy")
    /\ handle_destroy(fh)
    /\ Goto(IF uh # NoNode THEN "exec_weakref" ELSE "idle")
    /\ fh' = NoNode
    /\ UNCHANGED <<kernelVars, pending, listVars, ref, xptr, wkey, cleanup, statusVars, hpid,
                   waitpipe, pty_child_fd, blocked, signalVars, uh, waitret, wfd, wleft, wmask,
                   wres, uptr, unloaded>>

Finalizer ==
    \/ \E h \in Handle : Drops(h) \/ FinalizerStarts(h)
    \/ FinalizerKills
    \/ FinalizerClears
    \/ FinalizerDestroys

---------------------------------------------------------------------------
(* processx__unload_cleanup *)

\* ptr is read from the list first,
UnloadStarts ==
    /\ InR /\ "unload" \in Env
    /\ uptr' = First(child_list)
    /\ unloaded' = TRUE
    /\ Goto("unload_remove")
    /\ UNCHANGED <<kernelVars, pending, owner, listVars, heldVars, blocked, signalVars, uh, fh,
                   waitret, wfd, wleft, wmask, wres>>

\* then the handler is removed.
UnloadRemoves ==
    /\ At("unload_remove")
    /\ remove_sigchld
    /\ Goto("unload_loop")
    /\ UNCHANGED <<kernelVars, pending, owner, listVars, heldVars, blocked, regVars>>

\* kill() the child of the current node, if it has to be cleaned up; then a
\* blocking waitpid().
UnloadKills ==
    /\ At("unload_loop") /\ uptr # NoNode
    /\ IF HandleFound(uptr) /\ cleanup[uptr]
       THEN Delivered(uptr, kpid[uptr], SIGKILL)
       ELSE UNCHANGED <<sigs, misfire>>
    /\ Goto("unload_reap")
    /\ UNCHANGED <<child, kpid, fate, execfail, stranger, pending, owner, listVars, heldVars,
                   blocked, signalVars, regVars>>

\* After waitpid(): clear the external pointer, free the node.
UnloadFrees ==
    /\ At("unload_reap")
    /\ IF HandleFound(uptr) /\ cleanup[uptr]
       THEN ~ WaitRunning(kpid[uptr]) /\ child' = Reaped(kpid[uptr])
       ELSE child' = child
    /\ xptr' = IF wkey[uptr] THEN [xptr EXCEPT ![uptr] = FALSE] ELSE xptr
    /\ nfree' = [nfree EXCEPT ![uptr] = @ + 1]
    /\ uptr' = next(uptr)
    /\ Goto("unload_loop")
    /\ UNCHANGED <<kpid, fate, sigs, execfail, stranger, misfire, pending, owner, child_list,
                   child_free_list, ref, wkey, mem, cleanup, statusVars, hpid, waitpipe,
                   pty_child_fd, blocked, signalVars, uh, fh, waitret, wfd, wleft, wmask, wres,
                   unloaded>>

\* Empty the list, and free the free list.
UnloadEnds ==
    /\ At("unload_loop") /\ uptr = NoNode
    /\ child_list' = <<>>
    /\ child_free_list' = <<>>
    /\ nfree' = [h \in Handle |-> IF FreeListed(h) THEN nfree[h] + 1 ELSE nfree[h]]
    /\ Goto("idle")
    /\ UNCHANGED <<kernelVars, pending, owner, heldVars, blocked, signalVars, regVars>>

Unload == UnloadStarts \/ UnloadRemoves \/ UnloadKills \/ UnloadFrees \/ UnloadEnds

---------------------------------------------------------------------------
(* The environment *)

\* Another package installs its own SIGCHLD handler.
Displaced ==
    /\ InR /\ "displace" \in Env
    /\ disposition' = "foreign"
    /\ UNCHANGED <<old_handler, forwarding, hptr, kernelVars, pending, owner, listVars, heldVars,
                   blocked, pc, regVars>>

\* R code, or another thread, opens a file.
Opens(f) ==
    /\ InR \/ "threads" \in Env
    /\ OtherOpens(f)
    /\ UNCHANGED <<listVars, heldVars, blocked, signalVars, pc, regVars>>

Children ==
    /\ \/ \E h \in Handle : ChildExec(h) \/ ChildExecFails(h)
       \/ \E h \in Handle, s \in ExitCode : ChildEnds(h, s)
       \/ \E p \in Pid : StrangerStarts(p)
    /\ UNCHANGED <<listVars, heldVars, blocked, signalVars, pc, regVars>>

\* SIGCHLD on its way to, and in, a handler.
Signals ==
    /\ OtherThreadTakes \/ OtherThreadForwards \/ SignalLost \/ Callback
    /\ UNCHANGED <<pc, regVars>>

Calls ==
    \/ Exec \/ Wait \/ Kill \/ Finalizer \/ Unload
    \/ AliveChecks \/ SignalTooLate \/ SignalReaps
    \/ \E h \in Handle : is_alive(h) \/ signal(h)
    \/ \E sig \in Signal : SignalSends(sig)

Next == Children \/ Signals \/ Calls \/ Displaced \/ \E f \in Fd : Opens(f)

Spec == Init /\ [][Next]_vars

\* What the scheduler and the kernel guarantee: a processx call that R made goes
\* on, signals are delivered, a forked child gets to execvp() or to its error
\* path, and SIGKILL kills.  R need not call anything, and children need not
\* exit by themselves.
Fairness ==
    /\ WF_vars(Calls /\ pc # "idle")
    /\ WF_vars(Signals)
    /\ \A h \in Handle :
          /\ WF_vars(Children /\ child[h] = "init" /\ child'[h] # "init")
          /\ WF_vars(Children /\ (child[h] = "failing" \/ SIGKILL \in sigs[h])
                      /\ child[h] \in Alive /\ child'[h] = "zombie")

FairSpec == Spec /\ Fairness

---------------------------------------------------------------------------
(* Properties *)

\* Every variable has its type.
TypeOK == KernelTypeOK /\ ListTypeOK /\ HandleTypeOK /\ SigchldTypeOK /\ MainTypeOK

\* No exit is overlooked: as long as some child is a zombie, either SIGCHLD is
\* still on its way to the handler, or the handler is running and the node of
\* that child is still ahead of it.  SIGCHLD signals that arrive together are
\* merged into one, children exit while the handler walks the list, and the
\* node is linked after the fork; the loop in processx__sigchld_callback and
\* the blocking in processx_exec have to make up for all of it.
NoLostZombie ==
    \A h \in Handle : child[h] = "zombie" =>
        \/ pending \/ forwarding
        \/ hptr # 0 /\ \E i \in hptr..Len(child_list) : child_list[i] = h

\* The exit status processx reports is the one the process really had, or NA,
\* and it is only reported when the process is over.  Five functions collect,
\* in any order, each with its own waitpid().  (A handle without a pid is one
\* whose start failed.)
ExitStatusTrue ==
    \A h \in Handle : collected[h] =>
        /\ exitcode[h] \in {fate[h], NA}
        /\ hpid[h] # 0 => child[h] = "reaped"

\* A list node is in one list at most, once at most, and is never in a list
\* after free(); free() is called at most once on it.
NodesSafe ==
    /\ \A i, j \in 1..Len(child_list) : child_list[i] = child_list[j] => i = j
    /\ \A i, j \in 1..Len(child_free_list) : child_free_list[i] = child_free_list[j] => i = j
    /\ \A h \in Handle : /\ ~ (Listed(h) /\ FreeListed(h))
                         /\ nfree[h] <= 1
                         /\ nfree[h] = 1 => ~ Listed(h) /\ ~ FreeListed(h)

\* The SIGCHLD handler never works on a handle that was freed: the finalizer
\* clears the external pointer before it frees the handle.
HandlerUsesLiveHandle ==
    hptr \in 1..Len(child_list) /\ HandleFound(child_list[hptr]) =>
        mem[child_list[hptr]] = "live"

\* If wait() says that the process is over, then it is.
WaitIsRight == pc \in {"wait_done", "kill_waited"} /\ wres => child[Cur] \notin Alive

\* What R is told about a process is true, whoever reaped it: the exit status
\* (processx.c:655-696) and the answer of wait() and of the wait of a kill
\* (processx.c:805-838).
AnswersTrue == ExitStatusTrue /\ WaitIsRight

\* When a process object that was created with cleanup = TRUE is gone, then its
\* process does not run any more.
CleanupKills == \A h \in Handle : mem[h] = "freed" /\ cleanup[h] => child[h] \notin Alive

\* processx closes no descriptor that belongs to other code of the R process.
OtherFdsKept == [][\A f \in Fd : owner[f] = "other" => owner'[f] = "other"]_vars

\* No signal goes to anything but the process the caller meant.
OnlyOwnChildSignalled == ~ misfire

\* processx__finalizer is at work on the handle, or has yet to run and will find it.
ToBeDestroyed(h) == mem[h] = "live" /\ (h = fh \/ (xptr[h] /\ ref[h] # "finalized"))

\* No descriptor is leaked: the pipe of a wait lives no longer than the call, and a pty
\* descriptor is in a handle whose finalizer has still to close it (processx.c:413-417,
\* 581-588, 692-695).  A finalizer that an error cuts off does not run again, and the
\* finalizer of an external pointer that was cleared returns at once.
NoFdLeak ==
    \A f \in Fd :
        /\ owner[f] = "wait" => wfd = f
        /\ owner[f] = "pty" => \E h \in Handle : ToBeDestroyed(h) /\ pty_child_fd[h] = f

\* Every child that exits is reaped in the end, whatever R does or does not do,
\* unless the package is unloaded.
ZombiesReaped == \A h \in Handle : child[h] = "zombie" ~> child[h] = "reaped" \/ unloaded

\* wait() returns once the process is over, with or without a timeout.
InWait(h) == Cur = h /\ waitret = "user" /\ pc \in {"wait_poll", "wait_check", "wait_done"}
WaitReturns == \A h \in Handle : InWait(h) /\ child[h] \notin Alive ~> ~ InWait(h)

\* A kill always comes to an end, and so does a finalizer that kills.
KillReturns ==
    pc \in {"kill_check", "kill_term", "wait_start", "kill_waited", "kill_kill", "kill_reap",
            "kill_cleanup", "fin_kill"} ~> pc \in {"idle", "exec_weakref"}

\* Unloading the package does not hang in one of its blocking waitpid() calls.
UnloadReturns == pc \in {"unload_remove", "unload_loop", "unload_reap"} ~> pc = "idle"

\* No call hangs: not wait() without a timeout (processx.c:795-823), not the
\* blocking waitpid() of kill() and of finalizers (processx.c:1105), and not those
\* of the unload (childlist.c:96).
CallsReturn == WaitReturns /\ KillReturns /\ UnloadReturns

=============================================================================
