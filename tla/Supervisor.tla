------------------------------ MODULE Supervisor ------------------------------
(***************************************************************************)
(* The supervisor: a process of its own (src/src/supervisor/supervisor.c)  *)
(* that R starts when a process is first supervised (R/supervisor.R), and  *)
(* that kills the supervised processes when R has died, when R asks for it *)
(* or when it gets SIGTERM or SIGINT.  R talks to it through a named pipe  *)
(* and never hears from it after its start.                                *)
(*                                                                         *)
(* The supervisor looks at other processes only through their pid.  On     *)
(* Unix a process that has exited keeps its pid until its parent reaps it, *)
(* and kill(pid, 0) succeeds until then.                                   *)
(***************************************************************************)
EXTENDS Integers, Sequences, FiniteSets, SequencesExt

CONSTANTS
    Pid,          \* the processes that R starts
    Limits,       \* the values of MAX_CHILDREN to consider
    Grace,        \* how often kill_children polls in its five seconds
    MaxMessages,  \* bound: unread messages in the pipe
    Platforms,    \* among "unix" and "windows"
    Env           \* among "sigterm", "crash" (of the supervisor), "slow"

ASSUME BoundsAssumption == /\ Limits \subseteq Nat \ {0}
                           /\ Grace \in Nat \ {0}
                           /\ MaxMessages \in Nat \ {0}
ASSUME PidAssumption == Pid \subseteq Nat \ {0}
ASSUME PlatformsAssumption == Platforms \subseteq {"unix", "windows"}

VARIABLES
    platform,    \* where this runs,
    limit,       \* and MAX_CHILDREN: these two never change
    r,           \* the R process, see RState
    supervised,  \* the processes with private$supervised
    fifo,        \* messages in the pipe
    proc,        \* what each pid stands for
    sup,         \* the supervisor, see SupState
    table,       \* children[0 .. n_children - 1]
    tracked,     \* history: pids taken up and not given back since
    termed,      \* history: pids that were sent SIGTERM,
    killed       \* and SIGKILL

rVars == <<r, supervised>>
supVars == <<sup, table, tracked>>
histVars == <<termed, killed>>
build == <<platform, limit>>
vars == <<build, rVars, fifo, proc, supVars, histVars>>

NoPid == 0

Message == [op : {"watch", "unwatch"}, pid : Pid] \cup [op : {"kill"}, pid : {NoPid}]

\* state: a zombie until its own parent reaps it.  call: in supervisor_start,
\* in the write that follows, in FlushFileBuffers.  info: supervisor_info$pid
\* is set.  pid: the process of this call.
RState == [state : {"alive", "zombie", "gone"},
           call : {"none", "start", "write", "flush"},
           info : BOOLEAN,
           pid : Pid \cup {NoPid}]

ProcState == {"new", "run", "zombie", "gone"}

SupPc == {"none", "starting", "ready", "signals", "input", "prune", "parent",
          "term", "check", "hard", "exited", "dead"}

\* i: the index of the loop the supervisor is in.  sig: sigint_received or
\* sigterm_received.  left: polls left in kill_children.
SupState == [pc : SupPc, i : 1..(limit + 1), sig : BOOLEAN, left : 0..Grace]

\* One type invariant.
TypeOK ==
    /\ platform \in Platforms /\ limit \in Limits
    /\ r \in RState
    /\ supervised \subseteq Pid
    /\ fifo \in Seq(Message) /\ Len(fifo) <= MaxMessages
    /\ proc \in [Pid -> ProcState]
    /\ sup \in SupState
    /\ table \in Seq(Pid) /\ Len(table) <= limit
    /\ tracked \subseteq Pid /\ termed \subseteq Pid /\ killed \subseteq Pid

Init ==
    /\ platform \in Platforms /\ limit \in Limits
    /\ r = [state |-> "alive", call |-> "none", info |-> FALSE, pid |-> NoPid]
    /\ supervised = {}
    /\ fifo = <<>>
    /\ proc = [p \in Pid |-> "new"]
    /\ sup = [pc |-> "none", i |-> 1, sig |-> FALSE, left |-> 0]
    /\ table = <<>>
    /\ tracked = {} /\ termed = {} /\ killed = {}

(***************************************************************************)
(* pid_is_running, for a supervised process and for R.  Windows has no     *)
(* zombies: the exit code says whether the process runs.  There a failing  *)
(* OpenProcess() counts as not running, and an exit code of 259 as         *)
(* running; both are left out.                                             *)
(***************************************************************************)
Running(state) == state \in IF platform = "unix" THEN {"run", "alive", "zombie"}
                                                 ELSE {"run", "alive"}

RAlive == r.state = "alive"
SupAt(pc) == sup.pc = pc
SupStopped == sup.pc \in {"exited", "dead"}
SupGoto(pc) == sup' = [sup EXCEPT !.pc = pc, !.i = 1]

-----------------------------------------------------------------------------
(***************************************************************************)
(* R.                                                                      *)
(***************************************************************************)
InR == RAlive /\ r.call = "none"

\* process$new() up to the point where it may call supervisor_watch_pid().
\* Processes are numbered in the order in which they are started.
ProcessNew(p) ==
    /\ InR /\ proc[p] = "new" /\ \A q \in Pid : q < p => proc[q] # "new"
    /\ proc' = [proc EXCEPT ![p] = "run"]
    /\ UNCHANGED <<build, rVars, fifo, supVars, histVars>>

\* supervise = TRUE and $supervise(TRUE): supervisor_watch_pid().  The process
\* may have finished already.  One supervisor is modelled: R does not start
\* another after supervisor_kill() or a failed start.
WatchPid(p) ==
    /\ InR /\ proc[p] # "new" /\ p \notin supervised
    /\ \/ r.info /\ r' = [r EXCEPT !.call = "write", !.pid = p] /\ UNCHANGED sup
       \/ ~r.info /\ SupAt("none")
          /\ r' = [r EXCEPT !.call = "start", !.pid = p]
          /\ SupGoto("starting")
    /\ UNCHANGED <<build, supervised, fifo, proc, table, tracked, histVars>>

\* supervisor_start() sees the line "Ready".
SeesReady ==
    /\ RAlive /\ r.call = "start" /\ sup.pc \notin {"starting", "dead"}
    /\ r' = [r EXCEPT !.call = "write", !.info = TRUE]
    /\ UNCHANGED <<build, supervised, fifo, proc, supVars, histVars>>

\* supervisor_start() throws: the process died, or five seconds have passed.
StartFails ==
    /\ RAlive /\ r.call = "start"
    /\ SupAt("dead") \/ (SupAt("starting") /\ "slow" \in Env)
    /\ r' = [r EXCEPT !.call = "none", !.pid = NoPid]
    /\ UNCHANGED <<build, supervised, fifo, proc, supVars, histVars>>

\* write_lines_named_pipe(): on Windows FlushFileBuffers() waits until the
\* message is read, and writing fails if the supervisor has gone.
Writes(m, then) ==
    /\ Len(fifo) < MaxMessages
    /\ fifo' = Append(fifo, m)
    /\ IF platform = "unix" THEN then
                            ELSE r' = [r EXCEPT !.call = "flush", !.pid = m.pid]
                                 /\ UNCHANGED supervised

PipeBroken == platform = "windows" /\ SupStopped

\* The rest of supervisor_watch_pid() and private$supervised <- TRUE.
WatchWrites ==
    /\ RAlive /\ r.call = "write"
    /\ \/ ~PipeBroken
          /\ Writes([op |-> "watch", pid |-> r.pid],
                    /\ r' = [r EXCEPT !.call = "none", !.pid = NoPid]
                    /\ supervised' = supervised \cup {r.pid})
       \/ PipeBroken
          /\ r' = [r EXCEPT !.call = "none", !.pid = NoPid]
          /\ UNCHANGED <<supervised, fifo>>
    /\ UNCHANGED <<build, proc, supVars, histVars>>

\* $supervise(FALSE): supervisor_unwatch_pid().  It writes to the pipe without
\* asking whether the supervisor runs, but a closed pipe is an error.
UnwatchPid(p) ==
    /\ InR /\ p \in supervised /\ r.info /\ ~PipeBroken
    /\ Writes([op |-> "unwatch", pid |-> p],
              UNCHANGED r /\ supervised' = supervised \ {p})
    /\ UNCHANGED <<build, proc, supVars, histVars>>

\* Mutant: it waits for the message to be read, whoever is there to read it.
Bug_FlushReturns ==
    /\ RAlive /\ r.call = "flush" /\ fifo = <<>>
    /\ r' = [r EXCEPT !.call = "none", !.pid = NoPid]
    /\ UNCHANGED <<build, supervised, fifo, proc, supVars, histVars>>

\* FlushFileBuffers() returns: the message was read or the other end is gone,
\* in which case processx_write_named_pipe() has nothing to report any more.
FlushReturns ==
    /\ RAlive /\ r.call = "flush"
    /\ fifo = <<>> \/ SupStopped
    /\ r' = [r EXCEPT !.call = "none", !.pid = NoPid]
    /\ supervised' = IF r.pid = NoPid THEN supervised
                     ELSE (supervised \ {r.pid}) \cup ({r.pid} \ supervised)
    /\ UNCHANGED <<build, fifo, proc, supVars, histVars>>

\* supervisor_kill2(): also the finalizer when R quits, and supervisor_reset()
\* when the package is unloaded.  If the pipe is broken the write throws before
\* anything was changed.
SupervisorKill ==
    /\ InR /\ r.info /\ ~PipeBroken
    /\ Len(fifo) < MaxMessages
    /\ fifo' = Append(fifo, [op |-> "kill", pid |-> NoPid])
    /\ r' = [r EXCEPT !.info = FALSE,
                      !.call = IF platform = "unix" THEN "none" ELSE "flush"]
    /\ UNCHANGED <<build, supervised, proc, supVars, histVars>>

\* R quits or crashes.  What is in the pipe stays there.
RDies ==
    /\ RAlive
    /\ r' = [r EXCEPT !.state = IF platform = "unix" THEN "zombie" ELSE "gone"]
    /\ UNCHANGED <<build, supervised, fifo, proc, supVars, histVars>>

\* R's parent calls waitpid().
RReaped ==
    /\ r.state = "zombie"
    /\ r' = [r EXCEPT !.state = "gone"]
    /\ UNCHANGED <<build, supervised, fifo, proc, supVars, histVars>>

-----------------------------------------------------------------------------
(***************************************************************************)
(* The supervised processes.                                               *)
(***************************************************************************)
ChildExits(p) ==
    /\ proc[p] = "run"
    /\ proc' = [proc EXCEPT ![p] = IF platform = "unix" THEN "zombie" ELSE "gone"]
    /\ UNCHANGED <<build, rVars, fifo, supVars, histVars>>

\* By the SIGCHLD handler of R or, when R has died, by init.
ChildReaped(p) ==
    /\ proc[p] = "zombie"
    /\ proc' = [proc EXCEPT ![p] = "gone"]
    /\ UNCHANGED <<build, rVars, fifo, supVars, histVars>>

-----------------------------------------------------------------------------
(***************************************************************************)
(* The supervisor.                                                         *)
(***************************************************************************)
\* fopen() of the pipe for reading waits for a writer, which only R can be;
\* on Windows CreateFile() fails if R has closed its end.  Then "Ready".
Opens ==
    /\ SupAt("starting")
    /\ \/ RAlive /\ SupGoto("ready")
       \/ platform = "windows" /\ ~RAlive /\ SupGoto("dead")
    /\ UNCHANGED <<build, rVars, fifo, proc, table, tracked, histVars>>

\* sigaction() comes after "Ready".
Registers ==
    /\ SupAt("ready") /\ SupGoto("signals")
    /\ UNCHANGED <<build, rVars, fifo, proc, table, tracked, histVars>>

\* SIGTERM or SIGINT: sig_handler() only sets a flag.  Before sigaction() the
\* signal ends the supervisor.
SigHandler ==
    /\ "sigterm" \in Env /\ ~SupAt("none") /\ ~SupStopped
    /\ IF sup.pc \in {"starting", "ready"} THEN SupGoto("dead")
                                            ELSE sup' = [sup EXCEPT !.sig = TRUE]
    /\ UNCHANGED <<build, rVars, fifo, proc, table, tracked, histVars>>

\* The supervisor itself is killed.
Crashes ==
    /\ "crash" \in Env /\ ~SupAt("none") /\ ~SupStopped
    /\ SupGoto("dead")
    /\ UNCHANGED <<build, rVars, fifo, proc, table, tracked, histVars>>

\* The entry of kill_children(); when it returns the supervisor exits.
KillChildren ==
    IF table = <<>> THEN SupGoto("exited") ELSE SupGoto("term")

ChecksSignals ==
    /\ SupAt("signals")
    /\ IF sup.sig THEN KillChildren ELSE SupGoto("input")
    /\ UNCHANGED <<build, rVars, fifo, proc, table, tracked, histVars>>

\* Mutant: the last element is dropped instead.
Bug_remove_element(ar, idx) == Front(ar)

\* remove_element(ar, len, idx): the last element takes the place.
remove_element(ar, idx) == Front([ar EXCEPT ![idx] = Last(ar)])

\* A line with a positive number.
AddsPid(p) ==
    /\ IF Len(table) = limit \/ Contains(table, p)
       THEN UNCHANGED table
       ELSE table' = Append(table, p)
    /\ tracked' = tracked \cup ToSet(table')
    /\ UNCHANGED sup

\* A line with a negative number.
DropsPid(p) ==
    /\ table' = IF Contains(table, p)
                THEN remove_element(table, CHOOSE i \in 1..Len(table) :
                         table[i] = p /\ \A j \in 1..(i - 1) : table[j] # p)
                ELSE table
    /\ tracked' = tracked \ {p}
    /\ UNCHANGED sup

\* One line of input.
ReadsLine ==
    /\ SupAt("input") /\ fifo # <<>>
    /\ fifo' = Tail(fifo)
    /\ LET m == Head(fifo) IN
       \/ m.op = "kill" /\ KillChildren /\ UNCHANGED <<table, tracked>>
       \/ m.op = "watch" /\ AddsPid(m.pid)
       \/ m.op = "unwatch" /\ DropsPid(m.pid)
    /\ UNCHANGED <<build, rVars, proc, histVars>>

InputEnds ==
    /\ SupAt("input") /\ fifo = <<>>
    /\ SupGoto("prune")
    /\ UNCHANGED <<build, rVars, fifo, proc, table, tracked, histVars>>

\* One round of a loop that takes processes that do not run off the table.
\* i moves on either way: the element that took the place is not looked at.
Forgets ==
    /\ sup.i <= Len(table)
    /\ table' = IF Running(proc[table[sup.i]]) THEN table
                                               ELSE remove_element(table, sup.i)
    /\ sup' = [sup EXCEPT !.i = @ + 1]

PrunesOne ==
    /\ SupAt("prune") /\ Forgets
    /\ UNCHANGED <<build, rVars, fifo, proc, tracked, histVars>>

PruneEnds ==
    /\ SupAt("prune") /\ sup.i > Len(table)
    /\ SupGoto("parent")
    /\ UNCHANGED <<build, rVars, fifo, proc, table, tracked, histVars>>

\* Mutant: R's process is looked for only while it can be waited for.
Bug_ChecksParent ==
    /\ SupAt("parent")
    /\ IF r.state # "zombie" THEN SupGoto("signals") ELSE KillChildren
    /\ UNCHANGED <<build, rVars, fifo, proc, table, tracked, histVars>>

\* The check of the parent, the end of the loop and the sleep.
ChecksParent ==
    /\ SupAt("parent")
    /\ IF Running(r.state) THEN SupGoto("signals") ELSE KillChildren
    /\ UNCHANGED <<build, rVars, fifo, proc, table, tracked, histVars>>

\* kill_children(): SIGTERM to one child.
TermsOne ==
    /\ SupAt("term") /\ sup.i <= Len(table)
    /\ termed' = termed \cup {table[sup.i]}
    /\ sup' = [sup EXCEPT !.i = @ + 1]
    /\ UNCHANGED <<build, rVars, fifo, proc, table, tracked, killed>>

TermEnds ==
    /\ SupAt("term") /\ sup.i > Len(table)
    /\ sup' = [sup EXCEPT !.pc = "check", !.i = 1, !.left = Grace]
    /\ UNCHANGED <<build, rVars, fifo, proc, table, tracked, histVars>>

\* kill_children(): one child is looked at,
ChecksOne ==
    /\ SupAt("check") /\ Forgets
    /\ UNCHANGED <<build, rVars, fifo, proc, tracked, histVars>>

\* and one poll is over: all have gone, there is time left, or not.
CheckEnds ==
    /\ SupAt("check") /\ sup.i > Len(table)
    /\ \/ table = <<>> /\ SupGoto("exited")
       \/ table # <<>> /\ sup.left > 1 /\ sup' = [sup EXCEPT !.i = 1, !.left = @ - 1]
       \/ table # <<>> /\ SupGoto("hard")
    /\ UNCHANGED <<build, rVars, fifo, proc, table, tracked, histVars>>

\* Mutant: the loop begins with the second child.
Bug_KillsOne ==
    /\ SupAt("hard") /\ sup.i <= Len(table)
    /\ killed' = killed \cup {table[j] : j \in 2..Len(table)}
    /\ proc' = [p \in Pid |-> IF p \in killed' THEN "gone" ELSE proc[p]]
    /\ sup' = [sup EXCEPT !.i = Len(table) + 1]
    /\ UNCHANGED <<build, rVars, fifo, table, tracked, termed>>

\* kill_children(): SIGKILL to one child that still runs.
KillsOne ==
    /\ SupAt("hard") /\ sup.i <= Len(table)
    /\ LET p == table[sup.i] IN
       IF Running(proc[p])
       THEN /\ killed' = killed \cup {p}
            /\ proc' = IF proc[p] # "run" THEN proc
                       ELSE [proc EXCEPT ![p] = IF platform = "unix" THEN "zombie"
                                                                     ELSE "gone"]
       ELSE UNCHANGED <<killed, proc>>
    /\ sup' = [sup EXCEPT !.i = @ + 1]
    /\ UNCHANGED <<build, rVars, fifo, table, tracked, termed>>

KillEnds ==
    /\ SupAt("hard") /\ sup.i > Len(table)
    /\ SupGoto("exited")
    /\ UNCHANGED <<build, rVars, fifo, proc, table, tracked, histVars>>

-----------------------------------------------------------------------------
RStep ==
    \/ \E p \in Pid : ProcessNew(p) \/ WatchPid(p) \/ UnwatchPid(p)
    \/ SeesReady \/ StartFails \/ WatchWrites \/ FlushReturns
    \/ SupervisorKill \/ RDies \/ RReaped

SupStep ==
    \/ Opens \/ Registers \/ ChecksSignals \/ ReadsLine \/ InputEnds
    \/ PrunesOne \/ PruneEnds \/ ChecksParent
    \/ TermsOne \/ TermEnds \/ ChecksOne \/ CheckEnds \/ KillsOne \/ KillEnds

Next ==
    \/ RStep \/ SupStep \/ SigHandler \/ Crashes
    \/ \E p \in Pid : ChildExits(p) \/ ChildReaped(p)

Spec == Init /\ [][Next]_vars

\* The supervisor runs; a zombie is reaped in the end; R's calls go on when
\* they can.  No fairness on what the user does, nor on processes exiting.
FairSpec ==
    /\ Spec
    /\ WF_vars(SupStep) /\ WF_vars(RReaped)
    /\ WF_vars(SeesReady \/ StartFails) /\ WF_vars(WatchWrites) /\ WF_vars(FlushReturns)
    /\ \A p \in Pid : WF_vars(ChildReaped(p))

-----------------------------------------------------------------------------
(***************************************************************************)
(* Properties.                                                             *)
(***************************************************************************)
\* The array never loses a process: one that was taken up, was not given back
\* and still runs is in it, once, whatever remove_element() moved around while
\* a loop was under way (supervisor.c:419-428, utils.c:33-36).
LiveChildrenTracked ==
    ~SupStopped => \A p \in tracked : proc[p] = "run" =>
        Cardinality({i \in 1..Len(table) : table[i] = p}) = 1

\* When the supervisor has exited by itself, whatever made it exit, no process
\* it had taken up runs: kill_children() missed none (supervisor.c:141-202).
ExitKillsAll == SupAt("exited") => \A p \in tracked : proc[p] # "run"

\* kill_children() signals only processes that R asked it to watch and has not
\* asked it to forget since, and none gets SIGKILL that did not get SIGTERM first,
\* although the array shrinks and is reordered between the two loops.
OnlyTrackedSignalled == killed \subseteq termed /\ termed \subseteq tracked

\* When R has died, and when R has asked for it, the supervisor stops in the
\* end: no loop of it goes on for ever.
SupervisorEnds ==
    (r.state = "gone" \/ \E i \in 1..Len(fifo) : fifo[i].op = "kill")
        /\ sup.pc \notin {"none", "starting"} ~> SupStopped

\* supervisor_start() and FlushFileBuffers() return, or R dies: R does not wait
\* for ever for a supervisor that died, that got a signal before it was ready,
\* or that is busy killing and reads no messages any more.
CallsReturn == r.call \in {"start", "flush"} ~> r.call = "none" \/ ~RAlive

\* What R/process.R:240-242 promises of supervise = TRUE: "the supervisor will
\* ensure that the process is killed when the R process exits".
SupervisedKilled ==
    ~RAlive /\ SupAt("exited") => \A p \in supervised : proc[p] # "run"

\* Types and the limit of the array, and the array is right: no running child is
\* lost from it, and only children that are or were in it, and were not given
\* back, get signals (supervisor.c:141-202, 395-440).
Inv == TypeOK /\ LiveChildrenTracked /\ OnlyTrackedSignalled

=============================================================================
