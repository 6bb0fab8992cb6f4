# A TLA+ model of processx

processx is an R package that starts child processes from R, talks to them
through pipes and pseudo terminals, waits for them and kills them. Most of it is
C code that shares state with a signal handler, with the children it forks and
with whatever else runs in the R process. This directory holds TLA+ models of
that code, TLC runs that check them on small instances, and TLAPS proofs of the
most important properties for instances of any size.

File names below are relative to the root of the repository (`src/...` in
`PROJECT.json` is that root).

## 1. The system

### Parts, state, operations

| part | state | operations | correct if |
|---|---|---|---|
| SIGCHLD handling, `src/unix/sigchld.c` | disposition of SIGCHLD, old handler, signal mask | setup, remove, block, unblock, the callback | every exit is noticed, although signals are merged and arrive at any moment |
| child list, `src/unix/childlist.c` | `child_list`, `child_free_list` | `child_add`, `freelist_add`, `freelist_free`, `unload_cleanup` | a node is in one list at most and freed once |
| process handles, `src/unix/processx.c` | `processx_handle_t`: `collected`, `exitcode`, `pid`, `waitpipe`, `pty_child_fd`, `cleanup`; the external pointer | `processx_exec`, `wait`, `is_alive`, `get_exit_status`, `signal`, `interrupt`, `kill`, the finalizer | the exit status is true, calls return, the right process is signalled, nothing is leaked or used after `free()` |
| child initialization, `src/unix/processx.c:137-348` | the descriptor tables of R and of the child | `processx_exec` around `fork()`, `processx__child_init` | the program gets the streams it was asked to have, and R learns whether it started |
| connections, `src/processx-connection.c`, `src/unix/connection.c` | byte and UTF-8 buffers, `iconv` state, end-of-file flags, socket state | create, read chars and lines, write, close, is_incomplete, poll | no byte is lost, doubled or reported after EOF; lines are cut only at newlines |
| polling, `src/poll.c`, `src/processx-connection.c` | pollables, their pre-status | `processx_c_connection_poll`, `poll()` | "ready" iff a read would not block; closed, silent and timeout are told apart |
| supervisor, `src/supervisor/`, `R/supervisor.R` | table of watched pids, a pipe from R | watch, unwatch, orphan detection, shutdown | when R dies, every watched process is terminated, then killed |
| `run()`, `R/run.R` | buffers, the timeout, the spinner | poll, read, call back, time out, clean up | all output is delivered, in order; a timeout kills |
| pipelines, `R/pipeline.R` | list of processes | start, wait, kill, aggregate status | a failed start stops the others |
| `process` class, `R/process.R`, `R/initialize.R` | an R6 object around the handle | methods that call the C functions | arguments reach the C code unchanged |
| Windows backend, `src/win/` | handles, overlapped I/O, an I/O thread, a job object | as on Unix | as on Unix |
| named pipes, sockets, FIFOs | connection state (listening, accepted, connected) | accept, connect, read, write | a connection is in one state and only takes the calls of that state |
| process tree helpers, `src/create-time.c`, `src/processx-vector.c` | none | start times, the tree below a pid | the tree is the transitive closure |
| base64, UTF-8, command line quoting | none | conversions | the inverse undoes them |
| client library, errors, cleancall, printing, build tools | none of interest | | |

### Interactions and what is hard about them

* The SIGCHLD handler runs on the main thread between any two instructions of R,
  unless the signal is blocked. It walks the same list that `child_add`, the
  finalizer and the unload code change, fills the same handles, and closes the
  pipe that `wait()` polls. Other threads may be given the signal first and
  forward it.
* Five functions call `waitpid()` for the same child: the handler, `is_alive`,
  `get_exit_status`, `signal` and `kill`. The first one gets the status; all the
  others get `ECHILD`.
* Finalizers run whenever R allocates memory, also in the middle of
  `processx_exec`. A finalizer may kill, and a gracious kill waits.
* Other packages install SIGCHLD handlers, reap children that are not theirs, or
  expect to be called by the handler of processx.
* The user interrupts a wait by a `longjmp`; `pipe()`, `fork()` and `calloc()`
  fail; the package is unloaded with processes running; pids and descriptor
  numbers are handed out again.
* Between `fork()` and `execvp()` the child rearranges descriptors while R waits
  for the signal pipe to close, which is how it learns that `execvp()` succeeded.
* The supervisor is another program. R tells it pids through a pipe and never hears
  from it again; it looks at R and at the supervised processes by pid, once in a
  while, and is itself sent signals.
* On Windows reads are overlapped: the kernel writes into the buffer of a connection
  while R does something else, and all completions arrive at one port, where they
  are fetched by whoever polls or reads next, for whichever connection. `poll()` runs
  on a thread of its own, to be interruptible.
* `run()` reads, writes, polls and looks at the clock around a process that does
  the same, may wait for R, may leave other processes behind, and may exit between
  any two calls.

`PROJECT.json` lists each of these hazards at the line where it bites, with the
properties that are aimed at it.

## 2. The modules

    UnixKernel  <-  ChildList  <-  ProcessHandle  <-  Sigchld  <-  Process  <-  MCProcess
                                                                     ^
                                  ProcessProofs  <-  StatusProofs
    ChildInit   <-  ChildInitProofs
    Connection  <-  ConnectionStream  <-  ConnectionProofs    (implements Stream)
    Run         <-  RunProofs    (Run is built on what Stream and Process promise)
    Supervisor  <-  SupervisorProofs
    WinIO       <-  WinIOProofs
    WinProcess  <-  WinProcessProofs

`A <- B` says that B extends A.

* **UnixKernel** is the environment: children and their fates, `waitpid()`,
  `kill()`, the pending SIGCHLD (one bit: the kernel merges signals) and the
  owner of each descriptor. It is external to the repository and contains only
  what `src/unix/` uses. `Env` says which events around processx an instance
  allows (other handlers, threads, interrupts, failures, unloading); with
  `Env = {}` only R, processx and its children exist.
* **ChildList** has the two lists as sequences. A handle has at most one node, so
  a node is named after its handle; `nfree` counts the calls of `free()` on it.
* **ProcessHandle** has the fields of `processx_handle_t` that decide anything,
  the external pointer (`xptr`), the key of the weak reference in the list node
  (`wkey`) and the memory of the handle (`mem`).
* **Sigchld** is the handler, one step per list node: `hptr` is the position of
  `ptr` in the list. Children exit between its steps. While it runs the main
  program does not (`MainRuns`), and a pending signal that is not blocked is
  delivered before the next step of the main program.
* **Process** is the main program: one action for every stretch of
  `src/unix/processx.c` and `childlist.c` between two points where it depends on
  others. `pc` says where it is; `uh` is the handle of the call R made, `fh` the
  one of a finalizer that interrupts it. `c_processx_wait` is called by R and by
  `c_processx_kill`, which is called by R and by the finalizer (`waitret`, `fh`).
* **ChildInit** is independent of them: the descriptor tables of R and of one
  child from the entry of `processx_exec` to its return. Process has only the
  outcome of this, as `ChildExec` and `ChildExecFails`; ChildInit shows when R's
  reading of the signal pipe agrees with that outcome.
* **Connection** is one connection that reads from a pipe, with the raw buffer
  (`con.buffer`), the UTF-8 buffer (`con.utf8`) and the two end-of-file flags.
  The other process writes and closes between any two system calls; `pc = "scan"`
  is the loop of `read_until_newline`, `pc = "poll"` the system call `poll()`, and
  `loop` the R functions that poll and read until the output is complete. `sent`
  and `got` are history: all that was written, all that R was given.
* **Stream** is the abstract specification of a connection: a text that grows,
  what was delivered of it, and an end of file that comes after all of it.
  **ConnectionStream** maps Connection to it: the text is the UTF-8 form of what was
  written (`Meaning`), the buffers and the pipe are not seen. No step may deliver
  and announce the end at once, and the end is for good; the R functions that loop
  on `is_incomplete()` rely on both.
* **Run** is `run_manage` and the ways out of `run()`. Its connections behave as
  Stream says, and its `kill()` has the outcomes that Process has. `pc` follows the
  two loops (`drain` is the second), the streams are read one after the other, and
  the process is either free or in a `write()` that waits for room (`child.op`).
  A callback that throws is an action of its own (`ReadThrows`): what it has had, and
  what was kept before it, depends on which callback it is. `cleanup` records whether
  `run()` was left through `kill()` or `kill_tree()`.
  `holds` says who has the other ends open: the process, and one it left behind.
* **Supervisor** is the supervisor process and R's side of it, in one module since
  they share the pipe: the start (`supervisor_start`), the messages, the loop of
  `main()` step by step with the array of children, `kill_children()`, the signal
  handler, and the death of either side. `platform` selects Unix or Windows, where
  zombies do not exist and `FlushFileBuffers()` makes R wait until a message is read.
* **WinIO** is `processx_c_connection_poll`, the reads, the free list and the I/O thread
  on Windows. `io` is what the kernel does for a connection, `port` the completion
  port. The n-th byte of a connection is the number n, so that a byte at a wrong
  place is seen; `torn` records that a conversion moved data while a read was
  pending. R waits while the I/O thread works, so both are one program, except for
  the packet that wakes the thread up too late (`Wake`).
* **WinProcess** is `processx_exec` on Windows with every path that fails, pipes or a
  pseudo console, the job object, and `wait`, `is_alive`, `get_exit_status`, `signal`,
  `kill`, the finalizers and unloading. Handles are kept apart by name; `open` are R's,
  `os[p].held` those of a process.
* **ProcessProofs** and **StatusProofs** hold the theorems about Process: types,
  control, the list and its nodes; statuses, descriptors and signals.
  **ChildInitProofs**, **ConnectionProofs**, **RunProofs**, **SupervisorProofs**,
  **WinIOProofs** and **WinProcessProofs** hold those about the module in their name.

Abstractions: exit codes are 0, -SIGKILL and -SIGTERM; time is counted in the
poll intervals of `c_processx_wait`, up to `MaxSlices`; process groups are
represented by their leader; `create_time` and `end_time`, which are only
reported, are left out; so are the standard connections of a handle, and, in
ChildInit, `O_NONBLOCK`, terminal attributes, environment and working directory.
The sending of a signal and its effect are two steps. In Connection a byte is one of
five kinds (plain, newline, carriage return, first and second byte of a two byte
character); `read()` and `iconv()` are external and modelled by what the code
relies on: `read()` gives as many bytes as there are and fit, `iconv()` converts
as many whole characters as fit and tells an invalid byte from an incomplete
character. A connection is read as text or as bytes, not both. The supervisor's five
seconds are `Grace` polls. On Windows `ReadFile()`, `ConnectNamedPipe()`,
`GetQueuedCompletionStatus()`, `CreateProcessW()` and the job object are external and
modelled by what the code relies on. `read_lines()` returns at most `MaxLines` lines
at once, 1000 in the code. On Windows the supervisor's `OpenProcess()` does not fail and
no supervised process exits with 259, and streams are neither `2>&1` nor connections
that are closed already. `ps_kill_tree()` is a function of the package ps; it is taken
to end every process that the process has started, which it finds by a mark in their
environment. In Run a read gives any number of characters from
one up to what it asked for, and time is one event. Definitions whose name begins
with `Bug` are deliberate faults that the properties were tested with.

## 3. What the runs check

All handles are interchangeable, so the runs without liveness use symmetry. R
need not do anything, hence deadlock is not checked.

In parentheses are the named parts of a property that is a conjunction.

| run | instance | shows |
|---|---|---|
| `process_calls` | 2 handles, 2 pids, 3 descriptors, undisturbed; all calls but `signal()`, ptys, grace periods of up to 1 interval | `TypeOK`, `NoLostZombie`, `AnswersTrue` (`ExitStatusTrue`, `WaitIsRight`), `NodesSafe`, `NoFdLeak`, `CleanupKills`, `OtherFdsKept` |
| `process_interference` | 2 handles, a foreign handler that replaces ours, reaps and is notified; finalizers inside `child_add` | `AnswersTrue`, `HandlerUsesLiveHandle` |
| `process_faults` | 2 handles, one pid that is handed out again, interrupts, failing `pipe()`, `fork()`, `calloc()`; `signal()`, no grace periods | `OnlyOwnChildSignalled`, `ExitStatusTrue` |
| `process_live` | 1 handle, threads, unloading; fairness | `ZombiesReaped`, `CallsReturn` (`WaitReturns`, `KillReturns`, `UnloadReturns`) |
| `child_init` | all combinations of stream kinds over two descriptor tables, up to 2 connections passed, failures in every step | `Inv` (`TypeOK`, `RTableKept`), `Wired`, `NoStrayFd`, `StartIsTrue`, `StartReturns` |
| `connection` | up to 4 bytes (no carriage returns), 3 encodings, buffers of 3 bytes, failing `read()`, interrupted `poll()`; fairness | `Inv` (`TypeOK`, `NothingLost`, `NoInternalError`), `EofTrue`, `PollTrue`, `LinesComplete`, `ReadAllReturns`, and the refinement `ImplementsStream` |
| `run_loop` | pipes or a terminal, 3 characters of output in pipes of 2, 2 bytes of input through a terminal of 1, a process left behind, timeout, interrupt, a failing read, callbacks that kill, or throw at any line, cleanup with `kill()` or `kill_tree()`; fairness | `Inv` (`TypeOK`, `ResultTrue`, `NothingLeft`), `OutputTrue` (`OutputComplete`, `LinesTrue`), `RunReturns`, `TimeoutKills`, `InputFed` |
| `supervisor` | 2 processes, room for 1 or 2, 2 unread messages, both platforms; R dies at any time, SIGTERM, crash and slow start of the supervisor; fairness | `Inv` (`TypeOK`, `LiveChildrenTracked`, `OnlyTrackedSignalled`), `ExitKillsAll`, `SupervisorEnds`, `CallsReturn` |
| `win_io` | a pipe and a pipe, FIFO or socket, 2 bytes, a UTF-8 buffer of 1, a curl descriptor, finalizers; fairness | `Inv` (`TypeOK`, `PendingTrue`, `ConnectTrue`), `StreamTrue` (`NothingLost`, `EofTrue`), `PollReturns` |
| `win_process` | 2 processes, one possibly with a pseudo console, a pipe and a file each, exit codes 0 and 259, one failing `exec` at any of 13 points, R dies at any time; fairness | `Inv` (`TypeOK`, `StdRestored`, `NoHandleLeak`, `PipesEnd`), `ExitStatusTrue`, `CleanupHolds` (`CleanupKills`, `JobKills`), `CallsReturn` (`WaitReturns`, `KillReturns`) |

Why the bounds are enough. Two handles give every interference that involves a
pair: two nodes in the list with the handler between them, an exit behind and
one ahead of the handler, a finalizer of one process inside the start of another,
a descriptor number that passes from one wait to the other. Three handles add
list positions but no new pair; the safety properties of Process are proved for
any number (section 4). One poll interval is enough to have a timeout that expires
before, at and after an exit. Three descriptors leave a free one next to a pty
and the pipe of a wait. In `child_init`, 11 descriptors, a closing limit of 7
instead of 200 and a file of R above that limit produce all orders of streams,
connections and signal pipe, among them those the comment at
`src/unix/processx.c:231-234` is about. The properties of that run, but
`RTableKept` and `StartReturns`, assume `Clear`: the signal pipe lies above the
streams, and a process with a pty is not passed R's standard streams.

In `connection` the buffers have 3 bytes instead of 64K, so that 4 bytes of output
overflow them, two byte characters straddle their ends, and the UTF-8 buffer has
to grow; `Reserve` is 2 instead of 8, which is what a two byte character needs,
as 8 is more than any character needs; a call returns at most 2 lines instead of 1000,
so that lines are left over. A carriage return only matters for the text
of a line that is returned, which no property of that run looks into.

In `run_loop`, three characters are enough to have a line that is cut twice, a
carriage return and its newline in different chunks, and output behind the last read
of the first loop; a carriage return that no newline follows stands for any other
character. The input is larger than the terminal takes at once, so R has to come back
to it while the process waits for R to read. One read fails at most: see below for a
stream that always fails.

In `supervisor`, a limit of 1 is reached by the first process and one of 2 by the
second; two messages in the pipe are a watch and an unwatch, or a kill behind a watch.
Two children are needed for `remove_element()` to move one of them. In `win_io` a
second connection is needed because completions of one are fetched by calls for the
other; two bytes with a UTF-8 buffer of one leave data in the raw buffer when the next
read is started. A third connection adds a third owner of the next completion, and no
new pair. In `win_process` the second process is the one that could inherit the first
one's handles, or be put into a job that the first one has not set up; 259 is
`STILL_ACTIVE`.

Fairness (`Fairness` in Process). The main program continues a processx call that was
made, signals are delivered, a forked child gets to `execvp()` or to its error path, and
SIGKILL kills. These are promises of the scheduler and the kernel. There is no fairness
for R (it need not call anything), for garbage collection, or for children (they need
not exit, or react to SIGTERM). `WaitReturns` is therefore about a process that is over.
In ChildInit both processes get weak fairness. In Connection a read that was begun is
carried out, `poll()` returns when there is something to read, and the loop of
`read_all_output` goes on; nobody has to write or to close, so `ReadAllReturns` is about
an output whose other end is closed. In Run, R goes on, a process that has room to write
does write, and one that has something to read reads it, which is what `InputFed` needs
to be true of anything; the process need not exit, begin to write or close, and time
need not pass. In Supervisor, the supervisor and R's calls go on and zombies are reaped
in the end; users do nothing and processes do not exit unless killed. In WinIO calls go
on and the kernel completes what can be completed, in WinProcess calls go on and a
process that is dying ends.

### Where code and comments disagree

Each of these runs ends with a counterexample; `PROJECT.json` quotes the lines.

* `lines_merged`: lines that arrive while `read_lines()` is in its loop are not
  seen as lines; if the output ends in the same call, without a final newline,
  they are returned as one string with newlines in it.
* `supervised_survives`: a process whose pid R has written to the pipe, but which the
  supervisor has not read when it finds R dead, is not killed.

### Seen, without a run of their own

These are behaviours of the code that the models have, or that turn up when a
constant of an instance is changed.

Unix processes. `signal()` and `kill()` that reap the child themselves throw its exit
status away; it is reported as NA although nobody interfered. An interrupted `wait()`
leaves a stale descriptor in the handle: with `"interrupt"` in `Env`, `WaitIsRight`
fails, because the handler closes whatever has the number then, for example the pipe
of another `wait()`, which returns TRUE too early. `unload_cleanup` reads the list
before the handler is removed: with `"unload"`, `NodesSafe` fails, as a node that the
handler moves in between is freed twice. In ChildInit with `MaxExtra = 3`, if
descriptors 3 and 4 are free when three connections with higher descriptors are
passed, the signal pipe is in the way of the streams and the third connection is
closed in the child. With threads, `OtherFdsKept` fails: the handler and
`processx__wait_cleanup` close the same number twice.

Connections. `processx_c_connection_read_line`, which no R function uses, is not in
the model. With it and buffers of 4 bytes `NothingLost` fails: if the end of file is
read while data is left over from a full UTF-8 buffer, and the text that is left has a
newline but does not end with one, the line up to the newline is returned and the rest
is dropped (`processx-connection.c:1039`). It also leaves the newline behind a removed
carriage return in the buffer, looks at `utf8[-1]` for an empty line, and returns 0 both
for an empty line and for none. Also outside the model: under `options(warn = 2)` the
warning about invalid bytes does not return, and what was converted is converted again
(`:1999`); `read_bytes()` after `read_chars()` goes past the UTF-8 buffer (`:171`); with a
pty, stdin and stdout are two connections that own one descriptor
(`unix/connection.c:54`); and `poll()` starts its interval again after `EINTR` (`:2081`).

`run()`. When a stream fails for good and the other one is at its end, the second loop
never ends (`run.R:628`). It does not look at the timeout: a process left behind that
holds the output open makes `run()` wait for it. The line callback is documented to be
called "for every line" (`run.R:88-89`), but a last line without a newline stays in
`pushback_out` and never reaches it (`run.R:480-483`); `LinesTrue` is about the lines
that end in a newline, and says that the rest is still there. A process that exits by
itself on SIGTERM was stopped by the timeout but `timeout` is FALSE, and one that exits
just before the `waitpid()` of `kill()` has status NA. If a process with a terminal
exits between `is_alive()` and `write_input()`, `run()` throws. The two bytes that stand
for the end of the input are dropped if the terminal is full (`run.R:583`). A process
that closes its output makes the first loop spin.

Supervisor. SIGTERM before `sigaction()` ends it without killing anything. If R dies
before the supervisor has opened the pipe, it waits in `fopen()` for ever.
`$is_supervised()` is TRUE when the supervisor is dead or its array is full.
`remove_element()` in a loop makes the loop skip a child for one round. On Windows,
where writing to a dead supervisor throws, `supervisor_kill()` throws and R keeps the
supervisor's pid.

Windows connections. Half a character in a completion is taken for the end of the stream
(`processx-connection.c:1861-1877`; with `Halves = {1}`, `EofTrue` fails). `pre_poll`
moves data while a read is pending (`:1571`, `torn`). A client that connects between
`ReadFile()` and `ConnectNamedPipe()` leaves `read_pending` set for ever (`:1528`). A
wake-up packet that was too late makes a later read fail (`:1886`, `thread.c:311`).
`poll()` closes the notification sockets even if it did not create any (`:1342`).
Connections on the free list are never freed (`:2119`). The offset of an asynchronous
file advances by converted bytes (`:1870`). `accept` does not check for a client
(`:597`).

Windows processes. A process that exits between `GetExitCodeProcess()` and
`TerminateProcess()` has its handle closed without a status (`win/processx.c:903`). One
that exits with 259 looks alive. `stdio_create` destroys connections whose R objects
destroy them again (`stdio.c:455`). Errors that are thrown in the middle of `exec` leave
handles open for good (`Strays`): the child's ends of the pipes (`win/processx.c:1372`),
these and the handle of the thread (`:121-130`, `:1400`, `:1408`), with a pseudo console
the ends of its pipes (`:1102`, `:1284`, `:1292`). If `SetInformationJobObject()` fails,
the error is thrown with `processx__global_job_handle` set (`:125-130`), and every later
process with cleanup is put into a job without `KILL_ON_JOB_CLOSE`; when R dies it runs
on, against the comment at `:91-97`. `JobKills` names this as an exception. If R dies
before the job is assigned, or resuming fails without cleanup, a suspended process stays
behind.

More of Unix processes: a finalizer that runs inside
`R_MakeWeakRefC` unblocks SIGCHLD before the node of the new child is linked, and
its exit is overlooked until the next SIGCHLD or an explicit call
(`childlist.c:37`); with the handler displaced during a
`wait()` without a timeout, the wait does not return, because `kill(pid, 0)`
succeeds on a zombie (`processx.c:809`); the finalizer of a process that failed to
start before the fork closes descriptor 0 (`processx.c:401`) and, if R has other
children in its process group, signals that group (`processx.c:1084`); after a
grace period SIGKILL may go to a reused process group (`processx.c:1101`); if
`pipe()` fails in the wait of a gracious kill, SIGCHLD stays blocked
(`processx.c:778`; with `"pipe"` in `Env` of `process_live`, `ZombiesReaped` fails), and
if it was the kill of a finalizer, then the handle is never freed and its pty descriptor
never closed; `unload_cleanup` clears the external pointers, with the same effect on all
handles (`childlist.c:103`; with `"pipe"` or `"unload"` in `Env` of `process_calls`,
`NoFdLeak` fails); `child_add` without memory leaves the child
running unknown to everybody (`processx.c:594-602`); socket pairs are leaked when
`fork()` fails (`processx.c:553-561`); `sa_flags | SA_SIGINFO` is always true, so an old
handler without `SA_SIGINFO` is called with the wrong signature (`sigchld.c:100`).

## 4. What is proved

The theorems hold for sets of handles, pids, descriptors, processes and bytes of any
size and for all other parameters, unless a hypothesis says otherwise. They assume
the `ASSUME`s of the modules: pids are positive, descriptors are naturals and include
0, R has its three standard streams open (`MaxFd >= 2` in ChildInit), and the
parameters are of the declared kinds. A hypothesis about `Env` or `Ops` leaves out an
event with which the property is false, or which the invariant cannot tell from one;
it is named below, with what goes wrong. Each invariant was checked by TLC on the
instance of its run before it was proved.

### Process

ProcessProofs first establishes what all the others use. `TypeInv` is `TypeOK` and
`RegInv`: `processx_exec` writes to the handle `uh`, and `unload_cleanup` follows
`uptr`, so where these are used they are set, and `uptr` is a node of one of the two
lists. `CtlInv` says which handle is current at which program counter, and who
called `c_processx_wait`.

* `TypeCorrect`: `Spec => []TypeOK`.
* `NoZombieIsLost` (ProcessProofs): `Spec => []NoLostZombie`, if the handler is not
  displaced or removed, no finalizer runs inside `child_add` and `child_add` has memory.
  These are exactly the cases in which it fails. The invariant says in addition that the
  handler is installed once a child exists, that two unreaped children do not share a
  pid, that every unreaped child has a node in the list or is still in the hands of
  `processx_exec` with SIGCHLD blocked, and that no finalizer runs inside
  `processx_exec`. The first is needed when a signal is delivered, the second because
  `waitpid()` is called by pid and not by node, the third when a child exits, the last
  when SIGCHLD is unblocked.
* `NodesAreSafe` (ProcessProofs): `Spec => []NodesSafe`, unless the package is unloaded.
  `child_add` links whatever node it is given, so the invariant adds that the node of a
  handle that was not started yet, or whose start has not got to the linking
  (`Unlinked`, also while a finalizer interrupts it), was never linked and never freed
  (`Fresh`).
* `HandlerIsSafe` (StatusProofs): `Spec => []HandlerUsesLiveHandle`, in any environment.
  The handler gets at a handle through the external pointer, and the finalizer clears
  that before it frees the handle. The invariant (`MemInv`) says that whatever has an
  external pointer, or is held by R or garbage, still has its memory, and that the
  pointer of the handle in `fin_destroy` is cleared; `BlankInv` is about handles that do
  not exist yet, `HereInv` about the current ones, `ForkInv` about who has a pid.
* `StatusesAreTrue` (StatusProofs): `Spec => []ExitStatusTrue`, unless a pid is handed
  out again, because then `waitpid()` may collect another process. The invariant adds
  that unreaped children have different pids, that a collected handle with a pid had its
  child reaped (`EndedInv`), and that its exit code is that child's or NA (`StatusInv`).
* `AnswersAreTrue`, `OthersAreKept`, `CleanupIsKept` (StatusProofs): `AnswersTrue`,
  `OtherFdsKept` and `CleanupKills`. All need `Uninterrupted`: an interrupt leaves a
  descriptor number in `handle->waitpipe` that somebody else gets later, and an `exec`
  that fails before the fork leaves a `pty_child_fd` of 0 from `memset()`. In addition
  `AnswersAreTrue` needs that pids are not used again, `OthersAreKept` that no other
  thread opens files, and `CleanupIsKept` that `child_add` has memory, since a child
  whose `child_add` failed runs on without a pid in its handle. The invariant says who
  owns each descriptor number: a wait in progress owns the two ends of its pipe until
  the handler or the cleanup has closed them (`PipeInv`, `OwnInv`), a handle owns its
  pty (`PtyHeld`, `PtyInv`), and a wait that was woken up is about a process that is
  over (`WokenInv`).
* `NothingLeaks` (StatusProofs): `Spec => []NoFdLeak`, with interrupts and failing
  starts too, by the same ownership without the part that an interrupt breaks.
  `NoFdLeak` says that a pty descriptor is in a handle whose finalizer is at work, or
  has yet to run and will find the handle (`ToBeDestroyed`); `DestroyInv` says this of
  every handle that has its memory. It needs `Destroying`: if `pipe()` fails in a
  finalizer, or the package is unloaded, handles are left that nobody destroys.
* `OnlyOwnSignalled` (StatusProofs): `Spec => []OnlyOwnChildSignalled` with pids that
  are used again at once, which is the case it is about. An uncollected handle has the
  pid of an unreaped child, or SIGCHLD is still to be delivered for it (`LateInv`), and
  then the handler finds it (`FoundInv`); a call that signals has blocked SIGCHLD
  (`BlockInv`) and has found the child unreaped (`TargetInv`), and the pid of an
  unreaped child belongs to nobody else (`StrangerInv`). It needs the hypotheses of
  `NoZombieIsLost`, no other thread (which may take SIGCHLD away), no siblings
  (`waitpid(0)` would report one of them), and no grace periods: in a grace period the
  handler may reap before SIGKILL is sent, see "Seen" above.

### Child initialization

ChildInitProofs proves all safety properties of ChildInit, for any table of R, any
number of connections and any descriptors, and whichever step fails: `TablesAreRight`
(`Inv`), `StreamsAreWired` (`Wired`), `NothingStrays` (`NoStrayFd`) and `StartsAreTrue`
(`StartIsTrue`). One invariant, `IInv`, serves all four. `ReqInv` is about the request,
`TableInv` about R's table: its own files stay, and each new one is where the plan says.
`PlanInv` and `ChildInv` are about the child. The argument for the three loops of
`processx__child_init`: the first loop moves every source that is below `stdio_count` to a
free descriptor at or above it; after it every source `cuse[i]` is at or above its
destination `i`, so that the second loop, which goes upwards, never overwrites a source it
has not used yet; the sources are different files, so what is closed as the other end of a
pipe is never a source; and the signal pipe is close-on-exec and in its place as long as
the child works, so R sees it closed exactly when `execvp()` succeeded or the child is
gone. `Clear`, under which the properties are stated, is what keeps the signal pipe out of
the way.

### Connections

All safety properties of Connection and the refinement are proved in ConnectionProofs,
for any bytes, encodings, buffer sizes, values of `n` and amounts of output.

* `EofIsTrue`: `Spec => []EofTrue`. `EofTrue` is about `is_eof_`; what is inductive is
  about both flags (`Flags`): `is_eof_raw_` only when the pipe is empty and closed,
  `is_eof_` only with `is_eof_raw_` and both buffers empty. In addition a binary
  connection never has anything in the UTF-8 buffer (`Binary`), which `read_bytes()`
  does not look at, and lines are only searched for in text (`Scans`). The conversion
  enters this proof only through what it cannot do: it does not touch the flags, and an
  empty buffer gives nothing.
* `BuffersAreSound` (`Inv`), `PollIsTrue` (`PollTrue`) and `LinesAreComplete`
  (`LinesComplete`), from one invariant, `IInv`. Its centre is an account of every byte
  (`Account`): what was written is `done`, the raw buffer and the pipe, one after the
  other, and what `done` means is what R got and the UTF-8 buffer. `Settled` says that
  `done` does not end in the middle of a character that the next byte would complete;
  without it the account would not be kept, because bytes that make a character together
  mean nothing apart. That is why the conversion may drop an incomplete character only
  at the end of file (`ConvertStep`). The UTF-8 buffer holds whole characters (`Whole`),
  which is what `find_utf8_chars()` relies on and preserves, and so does a cut after a
  newline. `PollTrue` follows because an empty UTF-8 buffer always has room for a
  character (`Reserve \in 2..BufferSize`), so a conversion that makes nothing has left
  nothing that means anything.
* `StreamIsImplemented`: `Spec => ImplementsStream`. A write maps to a write of Stream
  because one more byte never changes what the bytes before it mean (`DecodedGrows`);
  every call that takes something maps to `Deliver`, to `End` or to a step that is not
  seen, by the account before and after it (`DeliverStep`).

The lemmas below these are about `Meaning` and `Converted`, both recursive functions:
what a concatenation means (`DecodedConcat`) and what the conversion loop consumes and makes
(`ConvertedSays`). They use the least index for which a claim fails, as those on lines in
RunProofs do, and `Recursion`, which says that a function that is defined from its value at
the number before exists.

### Supervisor

* `ArrayIsRight`: `Spec => []Inv`, for any number of processes and any size of the array.
  `remove_element()` moves the last child into the gap, and the lemma about it says that
  exactly one element is gone. The invariant says that the array has no pid twice and only
  tracked ones (`TableInv`), and that a tracked process that runs is in it until the
  supervisor stops (`LiveInv`).
* `ExitIsClean`: `Spec => []ExitKillsAll`. `KillInv` follows `kill_children()`: below the
  index of the first loop everything was sent SIGTERM, below that of the last one nothing
  runs any more.

### Windows processes

* `HandlesAreRight`, `StatusesAreTrue` and `CleanupIsSure` (WinProcessProofs): `Inv`,
  `ExitStatusTrue` and `CleanupHolds`, for any number of processes, wherever `exec`
  fails and whenever R dies. `NoHandleLeak` in `Inv` is about every `exec`: what is to
  be closed is open, and what is open is to be closed, or is among the strays of an
  `exec` that threw (see "Seen" above). `JobKills` in `CleanupHolds` has two exceptions,
  an assignment to the job that was denied and a job that was not set up. The invariant
  accounts for every open handle at every point of `processx_exec` (`HandlesInv`): which
  are open, who will close them, and which of them a process that is being created
  inherits. A process that R has no handle of was never made or has ended (`HandleInv`),
  and one with cleanup is in the job before it runs (`JobInv`); the job kills its
  members unless an `exec` with cleanup threw (`MemberInv`).

### Windows connections

WinIOProofs, for any number of connections of any kind, any buffer sizes and amounts of
output, and any order of polls, reads, closes, finalizers and completions.

* `CompletionsAreRight`: `Spec => []Inv`. The port is a queue that all connections
  share; what a connection depends on is only whether it has a packet there (`Has`), and
  with which data (`InPort`). `One` says that it never has two. `KernelInv` relates
  this, what the kernel does and what R believes, for one connection: there is a packet
  or an operation, not both; then `read_pending` is set and the memory is not freed; an
  operation has a handle; and the data of a read has room where the code will look for
  it, although a conversion may have moved the buffer in between. `CtlInv` is about the
  connection between `ReadFile()` and `ConnectNamedPipe()`. A step works on one
  connection, possibly not the one that R called for, and `Kept` is what it has to show:
  the invariant for this one, and that all others, with their packets, are unchanged.
  `Fetched` and `Queued` are the lemmas on the queue, `StartsRead` is about
  `processx__connection_start_read`, `ReadTook` and `PollTook` about what the two
  callers do with a completion.
* `StreamIsTrue`: `Spec => []StreamTrue`, if all characters are one byte (`Halves =
  {}`): a read that gets only half a character takes this for the end, see "Seen" above.
  `StreamInv` says that what R got, the two buffers, the data in the port and the pipe
  are, one after the other, what was written; that a read under way, or with data in the
  port, has its data right behind the raw buffer, and that there is room in the UTF-8
  buffer, so that it cannot be taken for the end; that a packet without data, for a
  pipe, means that the other end is closed and the pipe is empty, and the same for
  `is_eof_raw_`. The second of these is what a conversion during a read breaks, so all
  of it is about connections for which that has not happened (`torn`).

### run()

* `ResultIsTrue` (RunProofs): `Spec => []Inv`, for any output, any buffer sizes, with
  and without timeout, input and callbacks. What the process wrote is what R has read
  followed by what is in the pipe, and a stream is at its end only if the pipe is empty
  and nobody holds the other end (`PipeInv`); the second loop begins when the process is
  over (`LoopInv`); and who killed the process, and why, agrees with what `run()`
  returns (`KillInv`). After `kill_tree()` nobody holds the other ends (`TreeInv`), from
  what is assumed of `ps_kill_tree()`. What a throwing callback has left unread or
  unkept is only bounded (`SizeInv`).
* `OutputIsTrue` (RunProofs): `Spec => []OutputTrue`, in particular what the callbacks
  were given. The invariant (`LineInv`) is that the line callback has got `Lines` of all
  that was read, and that `pushback` is the rest of it after the last newline; or, after
  an error or an interrupt, the first of these lines. It is kept because of
  `LinesJoined`: the lines of `a` followed by `b` are those of `a`, and then those of
  the rest of `a` followed by `b`, wherever a read cuts the output. `Lines` is defined
  by counting newlines with a recursive function; the lemmas on counting take the least
  number for which the claim fails (`LeastNumber`, from the well-foundedness of the
  naturals) in the place of an induction rule.

### Only model-checked

Liveness (`ZombiesReaped`, `CallsReturn`, `StartReturns`, `ReadAllReturns`,
`RunReturns`, `TimeoutKills`, `InputFed`, `SupervisorEnds`, `PollReturns`), which the
prover cannot do. All invariants the runs check are proved; the two runs that expect a
violation show where the code does something else than the documentation says.

## 5. Plan

1. Done: the modules above, their runs, and the theorems of section 4.
2. Two connections that share the descriptor of a pty; `kill_tree` and pipelines, as
   far as they are more than loops over single processes (`run()` has the outcome of
   `kill_tree`).

## 6. Not modelled

Writes on Unix, which are one non-blocking system call, except in Run; client ends of
sockets and FIFOs, whose calls are single system calls; `read_line` of the C API, see
above. Pipelines start and stop their processes one after the other, and a failed
start leaves the earlier ones to their finalizers. Pure conversions of strings and
bytes: base64, the command line, the environment block and the search of the PATH on
Windows; a tree of pids from a list of parents (`processx_vector_rooted_tree`). Reading
`/proc` and `sysctl()` for start times is I/O. Error objects, assertions, printing and
the build tools keep no state of interest, and the client library, which is loaded
into other sessions, only wraps calls. The extra wait for the output of a Windows
console in `run()`, and the error objects it throws.

## 7. Running it

    tlc -workers 2 -config process_calls.cfg MCProcess
    tlc -workers 2 -config child_init.cfg ChildInit
    tlc -workers 2 -config connection.cfg ConnectionStream
    tlc -workers 2 -config run_loop.cfg Run
    tlapm RunProofs.tla
    tlapm ChildInitProofs.tla
