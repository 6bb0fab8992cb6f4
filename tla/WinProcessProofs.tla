--------------------------- MODULE WinProcessProofs ---------------------------
(***************************************************************************)
(* Processes on Windows: the statuses, the processes with cleanup = TRUE,  *)
(* R's standard handles and all other handles are right, for any number of *)
(* processes, streams and failures.                                        *)
(***************************************************************************)
EXTENDS WinProcess, TLAPS

PtyPc == {"ptypipe", "console", "pseudo", "attr", "ptycreate"}
EarlyPc == PtyPc \cup {"stdio", "create"}
ExecPc == EarlyPc \cup {"assign", "resume", "finish"}

\* Where R is, and the call it is in.
CallInv ==
    /\ pc # "idle" => call.p \in Proc
    /\ pc = "stdio" => call.i \in Stream
    /\ pc \in ExecPc => handle[P].mem = "live" /\ res[P] = "none"
    /\ pc \in {"wait", "terminate", "reap"} => handle[P].mem = "live"
    /\ pc \in PtyPc => handle[P].pty
    /\ pc \in {"stdio", "create"} => ~handle[P].pty
    /\ pc \in {"assign", "resume", "finish"} =>
           os[P].st # "none" /\ handle[P].hProcess /\ (handle[P].ptycon <=> handle[P].pty)
    /\ pc = "terminate" => ~handle[P].collected
    /\ \A p \in Proc :
        handle[p].mem = "none" => ~handle[p].hProcess /\ ~handle[p].ptycon /\ res[p] = "none"
    /\ \A p \in Proc :
        handle[p].mem = "none" \/ (pc \in EarlyPc /\ p = P) =>
            os[p].st = "none" /\ ~handle[p].hProcess /\ ~handle[p].ptycon

\* The exit code says whether the process has ended, but for one that exits with
\* STILL_ACTIVE.
CodeInv ==
    \A p \in Proc :
        /\ os[p].st \in {"none", "suspended", "running"} => os[p].code = STILL_ACTIVE
        /\ os[p].st \in {"dying", "exited"} => os[p].code \in ExitCode \cup {0, 1, 2}

\* A process that R has no handle of was never made, or has ended.
HandleInv ==
    \A p \in Proc : handle[p].mem = "live" /\ ~handle[p].hProcess =>
        os[p].st \in {"none", "exited"}

\* A process with cleanup = TRUE is in the job before it runs.
JobInv ==
    /\ \A p \in Proc : handle[p].cleanup /\ os[p].st = "running" =>
           handle[p].denied \/ (os[p].job /\ (r = "up" \/ job = "bare"))
    /\ pc = "resume" /\ handle[P].cleanup => handle[P].denied \/ os[P].job

\* Processes that may still run are members of no other job than the one there is, and
\* a bare one comes from an exec that threw an error.
MemberInv ==
    /\ \A p \in Proc : os[p].st = "none" => ~os[p].job
    /\ \A p \in Proc : os[p].job /\ os[p].st \in {"suspended", "running"} => job # "none"
    /\ job = "bare" => \E q \in Proc : res[q] = "thrown" /\ handle[q].cleanup

\* R has the console's standard handles only while the console is made.
StdInv == r = "up" /\ std = "console" => pc \in {"pseudo", "attr", "ptycreate"}

\* The connections of a process whose exec has not begun or makes a console.
ConInv ==
    \A p \in Proc : handle[p].mem = "none" \/ (pc \in ExecPc /\ p = P /\ handle[p].pty) =>
        \A e \in Ends(p) : con[e] = "none"

\* R is in processx_exec(), for p, at one of the labels.
Making(p, labels) == p = P /\ pc \in labels

\* exec has thrown an error for p, before or after it had made the process.
Left(p) == res[p] = "thrown"
LeftEarly(p) == Left(p) /\ os[p].st = "none"
LeftLate(p) == Left(p) /\ os[p].st # "none"

\* The handles of p that R has open.
OpenInv(p) ==
    /\ \A i \in Pipes : ParentEnd(p, i) \in open <=> con[ParentEnd(p, i)] = "live"
    /\ \A i \in Stream : ChildEnd(p, i) \in open =>
           /\ Making(p, {"stdio", "create", "assign", "resume", "finish"}) \/ Left(p)
           /\ ~handle[p].pty
    /\ <<p, "process", 0>> \in open <=> handle[p].hProcess
    /\ <<p, "thread", 0>> \in open => Making(p, {"assign", "resume"}) \/ LeftLate(p)
    /\ <<p, "hpc", 0>> \in open <=> handle[p].ptycon \/ Making(p, {"attr", "ptycreate"})
    /\ <<p, "ptyin_read", 0>> \in open =>
           Making(p, {"console", "pseudo"}) \/ (LeftEarly(p) /\ handle[p].pty)
    /\ <<p, "ptyout_child", 0>> \in open => Making(p, {"console", "pseudo"})
    /\ \A n \in {"ptyin_write", "ptyout_read"} :
           /\ con[<<p, n, 0>>] = "live" => <<p, n, 0>> \in open
           /\ Making(p, {"assign", "resume", "finish"}) /\ handle[p].pty => <<p, n, 0>> \in open
           /\ Making(p, {"console", "pseudo", "attr", "ptycreate"}) => <<p, n, 0>> \in open
           /\ <<p, n, 0>> \in open =>
               \/ con[<<p, n, 0>>] = "live"
               \/ Making(p, {"console", "pseudo", "attr", "ptycreate"})
               \/ Making(p, {"assign", "resume", "finish"}) /\ handle[p].pty
               \/ LeftLate(p) /\ handle[p].pty
               \/ LeftEarly(p) /\ handle[p].pty /\ n = "ptyin_write"
    /\ <<p, "conin", 0>> \in open => Making(p, {"pseudo", "attr", "ptycreate"})

\* A child's end that another process has inherited is one of an exec that threw
\* an error: it had left it open.
HeldInv ==
    \A p, q \in Proc : p # q => \A i \in Stream :
        ChildEnd(p, i) \in os[q].held => res[p] = "thrown"

HandlesInv ==
    /\ r = "up" => \A p \in Proc : OpenInv(p)
    /\ r = "gone" => open = {}
    /\ HeldInv

IInv ==
    /\ TypeOK /\ CallInv /\ CodeInv /\ ExitStatusTrue
    /\ HandleInv /\ CleanupKills /\ JobInv /\ MemberInv
    /\ StdInv /\ ConInv /\ HandlesInv

-----------------------------------------------------------------------------
(***************************************************************************)
(* Types, one variable after the other.                                    *)
(***************************************************************************)
OsType == os \in [Proc -> Os]
OpenType == open \subseteq AllHandles
HandleType == handle \in [Proc -> Handle]
ConType ==
    con \in [UNION {Ends(p) : p \in Proc} -> {"none", "live", "destroyed", "freed", "twice"}]
StateType ==
    /\ std \in {"own", "console"} /\ job \in {"none", "bare", "kill"} /\ r \in {"up", "gone"}
    /\ pc \in ExecPc \cup {"idle", "wait", "terminate", "reap"}
CallType ==
    call \in [op : {"none", "exec", "wait", "signal", "finalize"}, p : Proc \cup {0},
              i : Stream \cup {0}, forever : BOOLEAN]
ResType == res \in [Proc -> {"none", "ok", "failed", "thrown"}]

\* The parts make up the type invariant.
LEMMA TypeParts ==
  TypeOK <=> OsType /\ OpenType /\ HandleType /\ ConType /\ StateType /\ CallType /\ ResType
  BY DEF TypeOK, OsType, OpenType, HandleType, ConType, StateType, CallType, ResType,
         ExecPc, EarlyPc, PtyPc

\* The types hold in the beginning.
LEMMA TypeInit == Init => TypeOK
  <1> SUFFICES ASSUME Init PROVE TypeOK
    OBVIOUS
  <1>1. OsType
    BY DEF Init, OsType, Os
  <1>2. HandleType
    BY DEF Init, HandleType, Handle
  <1>3. OpenType /\ StateType
    BY DEF Init, OpenType, StateType
  <1>4. ConType /\ ResType
    BY DEF Init, ConType, ResType
  <1>5. CallType
    BY DEF Init, CallType, NoCall
  <1> QED BY <1>1, <1>2, <1>3, <1>4, <1>5, TypeParts

\* The steps during which R is in a call are steps of that call.
LEMMA CallsProcess ==
  ASSUME CallInv, CallStep PROVE P \in Proc
  BY DEF CallInv, CallStep, P, At, PtyPipes, PtyConsole, PtyPseudo, PtyAttr, PtyCreate,
         StdioCreate, CreateProcess, AssignJob, Resume, Finish,
         WaitEnds, WaitStops, Terminate, Reap

\* The processes and their exit codes.
LEMMA OsTypeNext ==
  ASSUME OsType, OpenType, CallInv, Next PROVE OsType'
  <1> USE DEF OsType, Os
  <1>1. ASSUME NEW p \in Proc, NEW code \in ExitCode, Exits(p, code) PROVE OsType'
    BY <1>1 DEF Exits
  <1>2. ASSUME NEW p \in Proc, Gone(p) PROVE OsType'
    BY <1>2 DEF Gone
  <1>3. CASE RDies
    <2>1. CASE JobEnds(0)
      BY <2>1 DEF JobEnds
    <2>2. CASE UNCHANGED os
      BY <2>2
    <2> QED BY <1>3, <2>1, <2>2 DEF RDies
  <1>4. CASE Unload
    BY <1>4 DEF Unload, JobEnds
  <1>5. CASE PtyCreate
    BY <1>5, CallsProcess DEF CallStep, PtyCreate, Created
  <1>6. CASE CreateProcess
    BY <1>6, CallsProcess DEF CallStep, CreateProcess, Created, Inheritable, OpenType
  <1>7. CASE AssignJob
    BY <1>7, CallsProcess DEF CallStep, AssignJob
  <1>8. CASE Resume
    BY <1>8, CallsProcess DEF CallStep, Resume
  <1>9. CASE Terminate
    BY <1>9, CallsProcess DEF CallStep, Terminate
  <1>10. CASE UNCHANGED os
    BY <1>10
  <1> QED
    BY <1>1, <1>2, <1>3, <1>4, <1>5, <1>6, <1>7, <1>8, <1>9, <1>10
    DEF Next, CallStep, PtyPipes, PtyConsole, PtyPseudo, PtyAttr, StdioCreate, Finish,
        WaitEnds, WaitStops, Reap, ExecBegins, WaitBegins, GetExitStatus, Signal,
        Finalizer, PtyClose, ConFinalizers

\* What may be collected is an exit code.
LEMMA CodeCollected ==
  ASSUME OsType, CodeInv, NEW p \in Proc,
         os[p].code # STILL_ACTIVE \/ os[p].st = "exited"
  PROVE  os[p].code \in ExitCode \cup {0, 1, 2}
  BY DEF OsType, Os, CodeInv

\* What the calls do to a handle.
LEMMA HandleUpdates ==
  ASSUME NEW h \in Handle
  PROVE  /\ \A pty, cleanup \in BOOLEAN :
             [h EXCEPT !.mem = "live", !.pty = pty, !.cleanup = cleanup] \in Handle
         /\ [h EXCEPT !.mem = "freed"] \in Handle
         /\ \A code \in ExitCode \cup {0, 1, 2} :
             [h EXCEPT !.collected = TRUE, !.exitcode = code] \in Handle
         /\ [h EXCEPT !.mem = "freed", !.hProcess = FALSE, !.ptycon = FALSE] \in Handle
         /\ [h EXCEPT !.ptycon = TRUE, !.hProcess = TRUE] \in Handle
         /\ [h EXCEPT !.ptycon = FALSE] \in Handle
         /\ [h EXCEPT !.denied = TRUE] \in Handle
         /\ [h EXCEPT !.hProcess = TRUE] \in Handle
         /\ [h EXCEPT !.hProcess = FALSE] \in Handle
  BY DEF Handle

\* The fields of the handles.
LEMMA HandleTypeNext ==
  ASSUME OsType, HandleType, CodeInv, CallInv, Next PROVE HandleType'
  <1> USE DEF HandleType
  <1>0. CallStep => P \in Proc
    BY CallsProcess
  <1>a. ASSUME NEW p \in Proc, NEW h \in Handle, handle' = [handle EXCEPT ![p] = h]
        PROVE  HandleType'
    BY <1>a
  <1>b. ASSUME NEW p \in Proc, NEW code \in ExitCode \cup {0, 1, 2},
               handle' = Collected(p, code)
        PROVE  HandleType'
    BY <1>a, <1>b, HandleUpdates DEF Collected
  <1>c. ASSUME NEW p \in Proc, Freed(p) PROVE HandleType'
    BY <1>a, <1>c, HandleUpdates DEF Freed
  <1>d. ASSUME P \in Proc, Cleared(P) PROVE HandleType'
    BY <1>a, <1>d, HandleUpdates DEF Cleared
  <1>1. ASSUME NEW p \in Proc, NEW pty \in BOOLEAN, NEW cleanup \in BOOLEAN,
               ExecBegins(p, pty, cleanup)
        PROVE  HandleType'
    <2> DEFINE new == [handle[p] EXCEPT !.mem = "live", !.pty = pty, !.cleanup = cleanup]
    <2>1. handle' = [handle EXCEPT ![p] = new]
             \/ handle' = [handle EXCEPT ![p] = [new EXCEPT !.mem = "freed"]]
      BY <1>1 DEF ExecBegins
    <2>2. new \in Handle
      BY HandleUpdates
    <2> HIDE DEF new
    <2>3. [new EXCEPT !.mem = "freed"] \in Handle
      BY <2>2, HandleUpdates
    <2> QED BY <1>a, <2>1, <2>2, <2>3
  <1>2. ASSUME NEW p \in Proc, GetExitStatus(p) PROVE HandleType'
    BY <1>b, <1>2, CodeCollected DEF GetExitStatus
  <1>3. ASSUME NEW p \in Proc, Signal(p) PROVE HandleType'
    BY <1>b, <1>3, CodeCollected DEF Signal
  <1>4. ASSUME NEW p \in Proc, Finalizer(p) PROVE HandleType'
    BY <1>c, <1>4 DEF Finalizer
  <1>5. ASSUME NEW p \in Proc, PtyClose(p) PROVE HandleType'
    BY <1>a, <1>5, HandleUpdates DEF PtyClose
  <1>6. CASE PtyPipes \/ PtyPseudo \/ PtyAttr
    BY <1>0, <1>d, <1>6 DEF CallStep, PtyPipes, PtyPseudo, PtyAttr
  <1>7. CASE PtyCreate
    <2>1. P \in Proc
      BY <1>0, <1>7 DEF CallStep
    <2>2. [handle[P] EXCEPT !.ptycon = TRUE, !.hProcess = TRUE] \in Handle
      BY <2>1, HandleUpdates
    <2> QED BY <1>a, <1>d, <1>7, <2>1, <2>2 DEF PtyCreate
  <1>8. CASE CreateProcess
    <2>1. P \in Proc
      BY <1>0, <1>8 DEF CallStep
    <2>2. [handle[P] EXCEPT !.hProcess = TRUE] \in Handle
      BY <2>1, HandleUpdates
    <2> QED BY <1>a, <1>8, <2>1, <2>2 DEF CreateProcess
  <1>9. CASE AssignJob
    <2>1. P \in Proc
      BY <1>0, <1>9 DEF CallStep
    <2>2. [handle[P] EXCEPT !.denied = TRUE] \in Handle
      BY <2>1, HandleUpdates
    <2> QED BY <1>a, <1>9, <2>1, <2>2 DEF AssignJob
  <1>10. CASE WaitEnds
    BY <1>0, <1>b, <1>10, CodeCollected DEF CallStep, WaitEnds
  <1>11. CASE Terminate
    BY <1>0, <1>b, <1>11 DEF CallStep, Terminate
  <1>12. CASE Reap
    <2>1. P \in Proc
      BY <1>0, <1>12 DEF CallStep
    <2>2. [handle[P] EXCEPT !.hProcess = FALSE] \in Handle
      BY <2>1, HandleUpdates
    <2> QED BY <1>a, <1>c, <1>12, <2>1, <2>2 DEF Reap
  <1>13. CASE UNCHANGED handle
    BY <1>13
  <1> QED
    BY <1>1, <1>2, <1>3, <1>4, <1>5, <1>6, <1>7, <1>8, <1>9, <1>10, <1>11, <1>12, <1>13
    DEF Next, CallStep, PtyConsole, StdioCreate, Resume, Finish, WaitStops, WaitBegins,
        ConFinalizers, Exits, Gone, rVars, RDies, Unload

\* The handles that have a name are handles.
LEMMA NamedHandles ==
  ASSUME NEW p \in Proc, NEW names, names \subseteq PtyName \cup {"process", "thread"}
  PROVE  Named(p, names) \subseteq AllHandles
  BY DEF Named, AllHandles, Handles

\* Only handles are open.
LEMMA OpenTypeNext ==
  ASSUME OpenType, CallType, CallInv, Next PROVE OpenType'
  <1> USE DEF OpenType
  <1> DEFINE four == {"ptyin_read", "ptyin_write", "ptyout_read", "ptyout_child"}
  <1>0. P \in Proc => /\ Named(P, {"ptyin_read", "ptyin_write"}) \subseteq AllHandles
                      /\ Named(P, four) \subseteq AllHandles
                      /\ Named(P, {"conin"}) \subseteq AllHandles
                      /\ Named(P, {"hpc"}) \subseteq AllHandles
                      /\ Named(P, {"process", "thread"}) \subseteq AllHandles
    BY NamedHandles DEF PtyName
  <1>1. CASE PtyPipes
    BY <1>0, <1>1, CallsProcess DEF CallStep, PtyPipes
  <1>2. CASE PtyConsole
    BY <1>0, <1>2, CallsProcess DEF CallStep, PtyConsole
  <1>3. CASE PtyPseudo
    BY <1>0, <1>3, CallsProcess DEF CallStep, PtyPseudo, RestoreAndClose
  <1>4. CASE PtyAttr
    BY <1>4 DEF PtyAttr, RestoreAndClose
  <1>5. CASE PtyCreate
    BY <1>0, <1>5, CallsProcess DEF CallStep, PtyCreate, RestoreAndClose
  <1>6. CASE StdioCreate
    <2>1. P \in Proc /\ call.i \in Stream
      BY <1>6, CallsProcess DEF CallStep, StdioCreate, CallInv, At
    <2>2. ChildEnd(P, call.i) \in AllHandles
      BY <2>1 DEF AllHandles, Handles
    <2>3. call.i \in Pipes => ParentEnd(P, call.i) \in AllHandles
      BY <2>1 DEF AllHandles, Handles, Ends
    <2> QED BY <1>6, <2>2, <2>3 DEF StdioCreate
  <1>7. CASE CreateProcess
    BY <1>0, <1>7, CallsProcess DEF CallStep, CreateProcess
  <1>8. CASE Resume \/ Finish \/ Reap
    BY <1>8 DEF Resume, Finish, Reap, Freed
  <1>9. ASSUME NEW p \in Proc, Finalizer(p) \/ PtyClose(p) \/ ConFinalizers(p)
        PROVE  OpenType'
    BY <1>9 DEF Finalizer, Freed, PtyClose, ConFinalizers
  <1>10. CASE RDies
    BY <1>10 DEF RDies
  <1>11. CASE UNCHANGED open
    BY <1>11
  <1> QED
    BY <1>1, <1>2, <1>3, <1>4, <1>5, <1>6, <1>7, <1>8, <1>9, <1>10, <1>11
    DEF Next, CallStep, AssignJob, WaitEnds, WaitStops, Terminate, ExecBegins, WaitBegins,
        GetExitStatus, Signal, Exits, Gone, rVars, Unload

\* The connections.
LEMMA ConTypeNext ==
  ASSUME ConType, CallInv, Next PROVE ConType'
  <1> USE DEF ConType
  <1>1. CASE StdioCreate
    <2>1. CASE con' = con
      BY <2>1
    <2>2. CASE call.i \in Pipes /\ con' = [con EXCEPT ![ParentEnd(P, call.i)] = "live"]
      BY <2>2
    <2>3. ASSUME NEW made, 
                 con' = [e \in DOMAIN con |-> IF e \in made THEN "destroyed" ELSE con[e]]
          PROVE  ConType'
      BY <2>3
    <2> QED BY <1>1, <2>1, <2>2, <2>3 DEF StdioCreate
  <1>2. CASE Finish
    <2> DEFINE ends == Named(P, {"ptyin_write", "ptyout_read"})
    <2>1. con' = con \/ con' = [e \in DOMAIN con |-> IF e \in ends THEN "live" ELSE con[e]]
      BY <1>2 DEF Finish
    <2> HIDE DEF ends
    <2> QED BY <2>1
  <1>3. ASSUME NEW p \in Proc, ConFinalizers(p) PROVE ConType'
    BY <1>3 DEF ConFinalizers
  <1>4. CASE RDies
    BY <1>4 DEF RDies
  <1>5. CASE UNCHANGED con
    BY <1>5
  <1> QED
    BY <1>1, <1>2, <1>3, <1>4, <1>5
    DEF Next, CallStep, PtyPipes, PtyConsole, PtyPseudo, PtyAttr, PtyCreate, CreateProcess,
        AssignJob, Resume, WaitEnds, WaitStops, Terminate, Reap, ExecBegins, WaitBegins,
        GetExitStatus, Signal, Finalizer, PtyClose, Exits, Gone, rVars, Unload

\* The labels, and the other values without structure.
LEMMA StateTypeNext ==
  ASSUME StateType, Next PROVE StateType'
  <1> USE DEF StateType, ExecPc, EarlyPc, PtyPc
  <1>1. CASE PtyPipes \/ PtyConsole \/ PtyPseudo \/ PtyAttr
    BY <1>1 DEF PtyPipes, PtyConsole, PtyPseudo, PtyAttr, RestoreAndClose, Cleared,
                Thrown, Return
  <1>2. CASE PtyCreate \/ StdioCreate \/ CreateProcess
    BY <1>2 DEF PtyCreate, StdioCreate, CreateProcess, RestoreAndClose, Cleared, Created,
                Thrown, Return
  <1>3. CASE AssignJob \/ Resume \/ Finish
    BY <1>3 DEF AssignJob, Resume, Finish, Thrown, Return
  <1>4. CASE WaitEnds \/ WaitStops \/ Terminate \/ Reap
    BY <1>4 DEF WaitEnds, WaitStops, Terminate, Reap, Return
  <1>5. ASSUME NEW p \in Proc, NEW pty \in BOOLEAN, NEW cleanup \in BOOLEAN,
               ExecBegins(p, pty, cleanup) \/ WaitBegins(p, pty)
        PROVE  StateType'
    BY <1>5 DEF ExecBegins, WaitBegins, Return
  <1>6. ASSUME NEW p \in Proc,
               GetExitStatus(p) \/ Signal(p) \/ Finalizer(p) \/ PtyClose(p) \/ ConFinalizers(p)
        PROVE  StateType'
    BY <1>6 DEF GetExitStatus, Signal, Finalizer, PtyClose, ConFinalizers
  <1>7. ASSUME NEW p \in Proc, NEW code \in ExitCode, Exits(p, code) \/ Gone(p)
        PROVE  StateType'
    BY <1>7 DEF Exits, Gone, rVars
  <1>8. CASE Unload \/ RDies
    BY <1>8 DEF Unload, RDies
  <1> QED BY <1>1, <1>2, <1>3, <1>4, <1>5, <1>6, <1>7, <1>8 DEF Next, CallStep, Gone, Exits, rVars

\* The call R is in.
LEMMA CallTypeNext ==
  ASSUME CallType, CallInv, Next PROVE CallType'
  <1> USE StreamAssumption DEF CallType, NoCall
  <1>1. CASE Return
    BY <1>1 DEF Return
  <1>2. CASE UNCHANGED call
    BY <1>2
  <1>3. CASE StdioCreate
    BY <1>1, <1>3 DEF StdioCreate, Thrown, CallInv, At
  <1>4. ASSUME NEW p \in Proc, NEW pty \in BOOLEAN, NEW cleanup \in BOOLEAN,
               ExecBegins(p, pty, cleanup)
        PROVE  CallType'
    BY <1>1, <1>4 DEF ExecBegins
  <1>5. ASSUME NEW p \in Proc, NEW forever \in BOOLEAN, WaitBegins(p, forever)
        PROVE  CallType'
    BY <1>5 DEF WaitBegins
  <1>6. ASSUME NEW p \in Proc, Signal(p) PROVE CallType'
    BY <1>6 DEF Signal
  <1>7. ASSUME NEW p \in Proc, Finalizer(p) PROVE CallType'
    BY <1>7 DEF Finalizer
  <1>8. CASE CallStep /\ ~StdioCreate
    BY <1>1, <1>2, <1>8
    DEF CallStep, PtyPipes, PtyConsole, PtyPseudo, PtyAttr, PtyCreate, CreateProcess,
        AssignJob, Resume, Finish, WaitEnds, WaitStops, Terminate, Reap, Cleared, Thrown,
        Created
  <1>9. CASE RDies
    BY <1>9 DEF RDies
  <1> QED
    BY <1>2, <1>3, <1>4, <1>5, <1>6, <1>7, <1>8, <1>9
    DEF Next, GetExitStatus, PtyClose, ConFinalizers, Exits, Gone, rVars, Unload

\* How exec ended.
LEMMA ResTypeNext ==
  ASSUME ResType, CallInv, Next PROVE ResType'
  <1> USE DEF ResType
  <1>1. ASSUME CallStep PROVE ResType'
    BY <1>1, CallsProcess
    DEF CallStep, PtyPipes, PtyConsole, PtyPseudo, PtyAttr, PtyCreate, StdioCreate,
        CreateProcess, AssignJob, Resume, Finish, WaitEnds, WaitStops, Terminate, Reap,
        Cleared, Thrown, Created
  <1>2. ASSUME NEW p \in Proc, NEW pty \in BOOLEAN, NEW cleanup \in BOOLEAN,
               ExecBegins(p, pty, cleanup)
        PROVE  ResType'
    BY <1>2 DEF ExecBegins
  <1> QED
    BY <1>1, <1>2
    DEF Next, WaitBegins, GetExitStatus, Signal, Finalizer, PtyClose, ConFinalizers,
        Exits, Gone, rVars, Unload, RDies

\* A step keeps the types.
LEMMA TypeNext ==
  ASSUME TypeOK, CallInv, CodeInv, Next PROVE TypeOK'
  <1>1. /\ OsType /\ OpenType /\ HandleType /\ ConType /\ StateType /\ CallType /\ ResType
    BY TypeParts
  <1>2. OsType' /\ OpenType' /\ HandleType' /\ ConType' /\ StateType' /\ CallType' /\ ResType'
    BY <1>1, OsTypeNext, OpenTypeNext, HandleTypeNext, ConTypeNext, StateTypeNext,
       CallTypeNext, ResTypeNext
  <1>3. TypeOK' <=> OsType' /\ OpenType' /\ HandleType' /\ ConType' /\ StateType' /\ CallType'
                    /\ ResType'
    BY TypeParts, PTL
  <1> QED BY <1>2, <1>3

-----------------------------------------------------------------------------
(***************************************************************************)
(* Where R is, and what it knows of the process it makes.                  *)
(***************************************************************************)
\* It holds in the beginning.
LEMMA CallInit == Init => CallInv
  BY DEF Init, CallInv, ExecPc, EarlyPc, PtyPc

\* A step of exec keeps it.
LEMMA CallExec ==
  ASSUME TypeOK, CallInv,
         \/ PtyPipes \/ PtyConsole \/ PtyPseudo \/ PtyAttr \/ PtyCreate
         \/ StdioCreate \/ CreateProcess \/ AssignJob \/ Resume \/ Finish
  PROVE  CallInv'
  <1> USE DEF CallInv, ExecPc, EarlyPc, PtyPc, P, At
  <1>0. os \in [Proc -> Os] /\ handle \in [Proc -> Handle]
        /\ res \in [Proc -> {"none", "ok", "failed", "thrown"}] 
    BY DEF TypeOK
  <1>1. CASE PtyPipes
    BY <1>0, <1>1 DEF PtyPipes, Cleared, Thrown, Return, Handle
  <1>2. CASE PtyConsole
    BY <1>0, <1>2 DEF PtyConsole
  <1>3. CASE PtyPseudo
    BY <1>0, <1>3 DEF PtyPseudo, Cleared, Return, Handle
  <1>4. CASE PtyAttr
    BY <1>0, <1>4 DEF PtyAttr, Cleared, Return, Handle
  <1>5. CASE PtyCreate
    <2>1. CASE Cleared(P) /\ UNCHANGED os
      BY <1>0, <1>5, <2>1 DEF PtyCreate, Cleared, Return, Handle
    <2>2. CASE /\ Created({})
               /\ handle' = [handle EXCEPT ![P] = [@ EXCEPT !.ptycon = TRUE, !.hProcess = TRUE]]
      <3>1. P \in Proc /\ \A q \in Proc \ {P} : handle'[q] = handle[q] /\ os'[q] = os[q]
        BY <1>0, <1>5, <2>2 DEF PtyCreate, Created
      <3>2. /\ handle'[P].mem = handle[P].mem /\ handle'[P].pty = handle[P].pty
            /\ handle'[P].ptycon /\ handle'[P].hProcess
        BY <1>0, <2>2, <3>1 DEF Handle
      <3>3. os'[P].st = "suspended"
        BY <1>0, <2>2, <3>1 DEF Created, Os
      <3>4. pc = "ptycreate" /\ pc' = "assign" /\ call' = call /\ res' = res
        BY <1>5, <2>2 DEF PtyCreate, Created
      <3> QED BY <1>0, <3>1, <3>2, <3>3, <3>4
    <2> QED BY <1>5, <2>1, <2>2 DEF PtyCreate
  <1>6. CASE StdioCreate
    BY <1>0, <1>6 DEF StdioCreate, Thrown, Return, TypeOK
  <1>7. CASE CreateProcess
    <2>1. CASE Thrown /\ UNCHANGED <<os, handle>>
      BY <1>0, <1>7, <2>1 DEF CreateProcess, Thrown, Return
    <2>2. CASE Created(Inheritable) /\ handle' = [handle EXCEPT ![P].hProcess = TRUE]
      <3>1. P \in Proc /\ \A q \in Proc \ {P} : handle'[q] = handle[q] /\ os'[q] = os[q]
        BY <1>0, <1>7, <2>2 DEF CreateProcess, Created
      <3>2. /\ handle'[P].mem = handle[P].mem /\ handle'[P].pty = handle[P].pty
            /\ handle'[P].ptycon = handle[P].ptycon /\ handle'[P].hProcess
        BY <1>0, <2>2, <3>1 DEF Handle
      <3>3. os'[P].st = "suspended"
        BY <1>0, <2>2, <3>1 DEF Created, Os
      <3>4. pc = "create" /\ pc' = "assign" /\ call' = call /\ res' = res
        BY <1>7, <2>2 DEF CreateProcess, Created
      <3> QED BY <1>0, <3>1, <3>2, <3>3, <3>4
    <2> QED BY <1>7, <2>1, <2>2 DEF CreateProcess
  <1>8. CASE AssignJob
    <2>0. P \in Proc /\ pc = "assign"
      BY <1>8 DEF AssignJob
    <2>1. CASE Thrown /\ UNCHANGED <<os, handle>>
      BY <1>0, <1>8, <2>1 DEF AssignJob, Thrown, Return
    <2>2. CASE pc' = "resume" /\ UNCHANGED <<call, res>>
      <3>1. \A q \in Proc : /\ os'[q].st = os[q].st
                            /\ handle'[q].mem = handle[q].mem /\ handle'[q].pty = handle[q].pty
                            /\ handle'[q].ptycon = handle[q].ptycon
                            /\ handle'[q].hProcess = handle[q].hProcess
        <4>1. os' = os \/ os' = [os EXCEPT ![P].job = TRUE]
          BY <1>8 DEF AssignJob
        <4>2. handle' = handle \/ handle' = [handle EXCEPT ![P].denied = TRUE]
          BY <1>8 DEF AssignJob
        <4>3. \A q \in Proc : os'[q].st = os[q].st
          BY <1>0, <2>0, <4>1 DEF Os
        <4>4. CASE handle' = [handle EXCEPT ![P].denied = TRUE]
          BY <1>0, <2>0, <4>3, <4>4 DEF Handle
        <4> QED BY <4>2, <4>3, <4>4
      <3> QED BY <1>0, <2>0, <2>2, <3>1
    <2> QED BY <1>8, <2>1, <2>2 DEF AssignJob
  <1>9. CASE Resume
    <2>1. \A q \in Proc : os'[q].st = "none" <=> os[q].st = "none"
      BY <1>0, <1>9 DEF Resume, Os
    <2> QED BY <1>0, <1>9, <2>1 DEF Resume, Thrown, Return
  <1>10. CASE Finish
    BY <1>0, <1>10 DEF Finish, Return
  <1> QED BY <1>1, <1>2, <1>3, <1>4, <1>5, <1>6, <1>7, <1>8, <1>9, <1>10

\* A step keeps it.
LEMMA CallNext ==
  ASSUME TypeOK, CallInv, Next PROVE CallInv'
  <1> USE DEF CallInv, ExecPc, EarlyPc, PtyPc, P, At
  <1>0. os \in [Proc -> Os] /\ handle \in [Proc -> Handle]
        /\ res \in [Proc -> {"none", "ok", "failed", "thrown"}] 
    BY DEF TypeOK
  <1>1. ASSUME NEW p \in Proc, NEW pty \in BOOLEAN, NEW cleanup \in BOOLEAN,
               ExecBegins(p, pty, cleanup)
        PROVE  CallInv'
    <2>1. handle[p].mem = "none" /\ pc = "idle"
      BY <1>1 DEF ExecBegins
    <2> DEFINE new == [handle[p] EXCEPT !.mem = "live", !.pty = pty, !.cleanup = cleanup]
    <2>2. \A q \in Proc \ {p} : handle'[q] = handle[q]
      BY <1>0, <1>1 DEF ExecBegins
    <2>3. handle[p] \in Handle /\ ~handle[p].hProcess /\ ~handle[p].ptycon
      BY <1>0, <2>1
    <2>4. new \in Handle
      BY <2>3, HandleUpdates
    <2>5. new.mem = "live" /\ new.pty = pty /\ ~new.hProcess /\ ~new.ptycon
      BY <2>3 DEF Handle
    <2>6. \/ handle'[p] = new /\ pc' # "idle"
          \/ handle'[p] = [new EXCEPT !.mem = "freed"] /\ pc' = "idle"
      BY <1>0, <1>1 DEF ExecBegins, Return
    <2> HIDE DEF new
    <2>7. /\ ~handle'[p].hProcess /\ ~handle'[p].ptycon
          /\ handle'[p].mem \in {"live", "freed"}
          /\ pc' # "idle" => handle'[p].mem = "live" /\ handle'[p].pty = pty
      BY <2>4, <2>5, <2>6 DEF Handle
    <2>8. (call'.p = p /\ call'.i = 1) \/ pc' = "idle"
      BY <1>1 DEF ExecBegins, Return, NoCall
    <2>9. /\ \A q \in Proc \ {p} : res'[q] = res[q]
          /\ pc' # "idle" => res' = res
          /\ pc' \in {"idle", "stdio", "ptypipe"}
          /\ (pc' = "ptypipe" => pty) /\ (pc' = "stdio" => ~pty)
      BY <1>0, <1>1 DEF ExecBegins, Return
    <2>10. os' = os
      BY <1>1 DEF ExecBegins
    <2> QED BY <1>0, <2>1, <2>2, <2>7, <2>8, <2>9, <2>10, StreamAssumption
  <1>2. ASSUME NEW p \in Proc, NEW forever \in BOOLEAN, WaitBegins(p, forever)
        PROVE  CallInv'
    BY <1>0, <1>2 DEF WaitBegins, Callable, NoCall
  <1>3. ASSUME NEW p \in Proc, GetExitStatus(p) PROVE CallInv'
    BY <1>0, <1>3 DEF GetExitStatus, Callable, Collected, Handle
  <1>4. ASSUME NEW p \in Proc, Signal(p) PROVE CallInv'
    <2>1. pc = "idle" /\ handle[p].mem = "live" /\ ~handle[p].collected
      BY <1>4 DEF Signal, Callable
    <2>2. CASE UNCHANGED handle
      BY <1>4, <2>1, <2>2 DEF Signal, NoCall
    <2>3. CASE handle' = Collected(p, os[p].code) /\ UNCHANGED <<pc, call>>
      BY <1>0, <1>4, <2>1, <2>3 DEF Signal, Collected, Handle
    <2> QED BY <1>4, <2>2, <2>3 DEF Signal
  <1>5. ASSUME NEW p \in Proc, Finalizer(p) PROVE CallInv'
    <2>1. pc = "idle" /\ handle[p].mem = "live"
      BY <1>5 DEF Finalizer
    <2>2. CASE UNCHANGED handle
      BY <1>5, <2>1, <2>2 DEF Finalizer, NoCall
    <2>3. CASE Freed(p) /\ UNCHANGED <<pc, call>>
      BY <1>0, <1>5, <2>1, <2>3 DEF Finalizer, Freed, Handle
    <2> QED BY <1>5, <2>2, <2>3 DEF Finalizer
  <1>6. ASSUME NEW p \in Proc, PtyClose(p) PROVE CallInv'
    BY <1>0, <1>6 DEF PtyClose, Callable, Handle
  <1>7. ASSUME NEW p \in Proc, ConFinalizers(p) PROVE CallInv'
    BY <1>0, <1>7 DEF ConFinalizers
  <1>8. CASE WaitEnds
    BY <1>0, <1>8 DEF WaitEnds, Collected, Return, Handle
  <1>9. CASE WaitStops
    BY <1>0, <1>9 DEF WaitStops, Return
  <1>10. CASE Terminate
    <2>0. P \in Proc /\ handle' \in {handle, Collected(P, 2)}
      BY <1>10 DEF Terminate
    <2>1. \A q \in Proc : /\ handle'[q].mem = handle[q].mem
                          /\ handle'[q].hProcess <=> handle[q].hProcess
                          /\ handle'[q].ptycon <=> handle[q].ptycon
      <3>1. CASE handle' = handle
        BY <3>1
      <3>2. CASE handle' = Collected(P, 2)
        BY <1>0, <2>0, <3>2 DEF Collected, Handle
      <3> QED BY <2>0, <3>1, <3>2
    <2>2. \A q \in Proc : os'[q].st = "none" <=> os[q].st = "none"
      BY <1>0, <1>10 DEF Terminate, Os
    <2> QED BY <1>0, <1>10, <2>1, <2>2 DEF Terminate
  <1>11. CASE Reap
    <2>1. P \in Proc /\ handle[P].mem = "live"
      BY <1>11 DEF Reap
    <2>2. \A q \in Proc : /\ handle'[q].mem = "none" => handle[q].mem = "none"
                          /\ handle'[q].hProcess => handle[q].hProcess
                          /\ handle'[q].ptycon => handle[q].ptycon
      <3>1. CASE Freed(P)
        BY <1>0, <2>1, <3>1 DEF Freed, Handle
      <3>2. CASE handle' = [handle EXCEPT ![P].hProcess = FALSE]
        BY <1>0, <2>1, <3>2 DEF Handle
      <3> QED BY <1>11, <3>1, <3>2 DEF Reap
    <2> QED BY <1>0, <1>11, <2>2 DEF Reap, Return
  <1>12. ASSUME NEW p \in Proc, NEW code \in ExitCode, Exits(p, code) PROVE CallInv'
    BY <1>0, <1>12 DEF Exits, rVars, Os
  <1>13. ASSUME NEW p \in Proc, Gone(p) PROVE CallInv'
    BY <1>0, <1>13 DEF Gone, rVars, Os
  <1>14. CASE Unload
    BY <1>0, <1>14 DEF Unload, JobEnds, Os
  <1>15. CASE RDies
    <2>1. ASSUME NEW q \in Proc PROVE os'[q].st = "none" <=> os[q].st = "none"
      <3>1. os' = os \/ os'[q] = IF os[q].job /\ os[q].st \in {"suspended", "running"}
                                 THEN [os[q] EXCEPT !.st = "dying", !.code = 0] ELSE os[q]
        BY <1>15 DEF RDies, JobEnds
      <3> QED BY <1>0, <3>1 DEF Os
    <2> QED BY <1>0, <1>15, <2>1 DEF RDies
  <1> QED BY <1>1, <1>2, <1>3, <1>4, <1>5, <1>6, <1>7, <1>8, <1>9, <1>10, <1>11, <1>12,
             <1>13, <1>14, <1>15, CallExec
          DEF Next, CallStep

-----------------------------------------------------------------------------
(***************************************************************************)
(* Exit codes and statuses.                                                *)
(***************************************************************************)
\* The exit codes are right in the beginning.
LEMMA CodeInit == Init => CodeInv /\ ExitStatusTrue
  BY DEF Init, CodeInv, ExitStatusTrue

\* A step keeps the exit codes right.
LEMMA CodeNext ==
  ASSUME TypeOK, CallInv, CodeInv, Next PROVE CodeInv'
  <1> USE DEF CodeInv, Os
  <1>0. os \in [Proc -> Os]
    BY DEF TypeOK
  <1>1. CallStep => P \in Proc
    BY CallsProcess
  <1>2. ASSUME NEW p \in Proc, NEW code \in ExitCode, Exits(p, code) PROVE CodeInv'
    BY <1>0, <1>2 DEF Exits
  <1>3. ASSUME NEW p \in Proc, Gone(p) PROVE CodeInv'
    BY <1>0, <1>3 DEF Gone
  <1>4. CASE RDies \/ Unload
    <2>1. os' = os \/ \E code \in {0, 1} : JobEnds(code)
      BY <1>4 DEF RDies, Unload
    <2>2. ASSUME NEW code \in {0, 1}, JobEnds(code) PROVE CodeInv'
      <3>1. \A p \in Proc :
               \/ os'[p] = os[p]
               \/ os'[p].st = "dying" /\ os'[p].code = code
        BY <1>0, <2>2 DEF JobEnds
      <3> QED BY <1>0, <3>1
    <2> QED BY <2>1, <2>2
  <1>5. CASE PtyCreate \/ CreateProcess
    <2>1. os' = os \/ \E hs : Created(hs)
      BY <1>5 DEF PtyCreate, CreateProcess
    <2>2. P \in Proc /\ os[P].st = "none"
      BY <1>1, <1>5 DEF CallStep, CallInv, PtyCreate, CreateProcess, At, EarlyPc, PtyPc
    <2>3. ASSUME NEW hs, Created(hs) PROVE CodeInv'
      BY <1>0, <2>2, <2>3 DEF Created
    <2> QED BY <2>1, <2>3
  <1>6. CASE AssignJob
    BY <1>0, <1>1, <1>6 DEF CallStep, AssignJob
  <1>7. CASE Resume
    BY <1>0, <1>1, <1>7 DEF CallStep, Resume
  <1>8. CASE Terminate
    BY <1>0, <1>1, <1>8 DEF CallStep, Terminate
  <1>9. CASE UNCHANGED os
    BY <1>9
  <1> QED
    BY <1>2, <1>3, <1>4, <1>5, <1>6, <1>7, <1>8, <1>9
    DEF Next, CallStep, PtyPipes, PtyConsole, PtyPseudo, PtyAttr, StdioCreate, Finish,
        WaitEnds, WaitStops, Reap, ExecBegins, WaitBegins, GetExitStatus, Signal,
        Finalizer, PtyClose, ConFinalizers

\* A step changes the status of no process that has ended.
LEMMA EndedForGood ==
  ASSUME TypeOK, CallInv, CodeInv, Next, NEW p \in Proc, os[p].st \in {"dying", "exited"}
  PROVE  os'[p].st \in {"dying", "exited"} /\ os'[p].code = os[p].code
  <1> USE DEF Os
  <1>0. os \in [Proc -> Os]
    BY DEF TypeOK
  <1>1. CallStep => P \in Proc
    BY CallsProcess
  <1>2. ASSUME NEW q \in Proc, NEW code \in ExitCode, Exits(q, code) \/ Gone(q)
        PROVE  os'[p].st \in {"dying", "exited"} /\ os'[p].code = os[p].code
    BY <1>0, <1>2 DEF Exits, Gone
  <1>3. ASSUME NEW q \in Proc, Gone(q)
        PROVE  os'[p].st \in {"dying", "exited"} /\ os'[p].code = os[p].code
    BY <1>0, <1>3 DEF Gone
  <1>4. CASE RDies \/ Unload
    BY <1>0, <1>4 DEF RDies, Unload, JobEnds
  <1>5. CASE PtyCreate \/ CreateProcess
    <2>1. os' = os \/ \E hs : Created(hs)
      BY <1>5 DEF PtyCreate, CreateProcess
    <2>2. P \in Proc /\ P # p
      BY <1>1, <1>5 DEF CallStep, CallInv, PtyCreate, CreateProcess, At, EarlyPc, PtyPc
    <2> QED BY <1>0, <2>1, <2>2 DEF Created
  <1>6. CASE AssignJob
    BY <1>0, <1>1, <1>6 DEF CallStep, AssignJob
  <1>7. CASE Resume
    BY <1>0, <1>1, <1>7 DEF CallStep, Resume
  <1>8. CASE Terminate
    BY <1>0, <1>1, <1>8 DEF CallStep, Terminate
  <1>9. CASE UNCHANGED os
    BY <1>9
  <1> QED
    BY <1>2, <1>3, <1>4, <1>5, <1>6, <1>7, <1>8, <1>9
    DEF Next, CallStep, PtyPipes, PtyConsole, PtyPseudo, PtyAttr, StdioCreate, Finish,
        WaitEnds, WaitStops, Reap, ExecBegins, WaitBegins, GetExitStatus, Signal,
        Finalizer, PtyClose, ConFinalizers

\* A status is only collected when the process has ended, and never changes.
LEMMA CollectedForGood ==
  ASSUME TypeOK, CallInv, CodeInv, Next, NEW p \in Proc, handle'[p].collected
  PROVE  \/ handle[p].collected /\ handle'[p].exitcode = handle[p].exitcode
         \/ os'[p].st \in {"dying", "exited"} /\ handle'[p].exitcode = os'[p].code
  <1> USE DEF Handle
  <1> DEFINE Goal == \/ handle[p].collected /\ handle'[p].exitcode = handle[p].exitcode
                     \/ os'[p].st \in {"dying", "exited"} /\ handle'[p].exitcode = os'[p].code
  <1>0. handle \in [Proc -> Handle] /\ os \in [Proc -> Os]
    BY DEF TypeOK
  <1>1. CallStep => P \in Proc
    BY CallsProcess
  <1>a. ASSUME NEW q \in Proc, handle' = Collected(q, os[q].code), os' = os,
               os[q].code # STILL_ACTIVE \/ os[q].st = "exited"
        PROVE  Goal
    <2>1. os[q].st \in {"dying", "exited"}
      BY <1>0, <1>a DEF CodeInv, Os
    <2> QED BY <1>0, <1>a, <2>1 DEF Collected
  <1>b. ASSUME NEW q \in Proc, Cleared(q) \/ Freed(q) PROVE Goal
    <2>1. CASE Cleared(q)
      BY <1>0, <2>1 DEF Cleared
    <2>2. CASE Freed(q)
      BY <1>0, <2>2 DEF Freed
    <2> QED BY <1>b, <2>1, <2>2
  <1>2. ASSUME NEW q \in Proc, GetExitStatus(q) \/ Signal(q) PROVE Goal
    BY <1>a, <1>2 DEF GetExitStatus, Signal
  <1>3. ASSUME NEW q \in Proc, NEW pty \in BOOLEAN, NEW cleanup \in BOOLEAN,
               ExecBegins(q, pty, cleanup)
        PROVE  Goal
    <2> DEFINE new == [handle[q] EXCEPT !.mem = "live", !.pty = pty, !.cleanup = cleanup]
    <2>1. handle' = [handle EXCEPT ![q] = new]
             \/ handle' = [handle EXCEPT ![q] = [new EXCEPT !.mem = "freed"]]
      BY <1>3 DEF ExecBegins
    <2>2. /\ new \in Handle /\ new.exitcode = handle[q].exitcode
          /\ new.collected <=> handle[q].collected
      BY <1>0
    <2> HIDE DEF new
    <2> QED BY <1>0, <2>1, <2>2
  <1>4. ASSUME NEW q \in Proc, Finalizer(q) \/ PtyClose(q) PROVE Goal
    <2>1. CASE handle' = [handle EXCEPT ![q].ptycon = FALSE]
      BY <1>0, <2>1
    <2> QED BY <1>b, <1>4, <2>1 DEF Finalizer, PtyClose
  <1>5. CASE PtyPipes \/ PtyPseudo \/ PtyAttr
    BY <1>1, <1>b, <1>5 DEF CallStep, PtyPipes, PtyPseudo, PtyAttr
  <1>6. CASE PtyCreate
    <2>1. CASE Cleared(P)
      BY <1>1, <1>b, <1>6, <2>1 DEF CallStep
    <2>2. CASE handle' = [handle EXCEPT ![P] = [@ EXCEPT !.ptycon = TRUE, !.hProcess = TRUE]]
      BY <1>0, <1>1, <1>6, <2>2 DEF CallStep
    <2> QED BY <1>6, <2>1, <2>2 DEF PtyCreate
  <1>7. CASE CreateProcess
    BY <1>0, <1>1, <1>7 DEF CallStep, CreateProcess
  <1>8. CASE AssignJob
    <2>1. CASE UNCHANGED handle
      BY <2>1
    <2>2. CASE handle' = [handle EXCEPT ![P].denied = TRUE]
      BY <1>0, <1>1, <1>8, <2>2 DEF CallStep
    <2> QED BY <1>8, <2>1, <2>2 DEF AssignJob
  <1>9. CASE WaitEnds
    BY <1>1, <1>a, <1>9 DEF CallStep, WaitEnds
  <1>10. CASE Terminate
    <2>1. CASE UNCHANGED handle
      BY <2>1
    <2>2. CASE handle' = Collected(P, 2) /\ os' = [os EXCEPT ![P].st = "dying", ![P].code = 2]
      BY <1>0, <1>1, <1>10, <2>2 DEF CallStep, Collected, Os
    <2> QED BY <1>10, <2>1, <2>2 DEF Terminate
  <1>11. CASE Reap
    <2>1. CASE handle' = [handle EXCEPT ![P].hProcess = FALSE]
      BY <1>0, <1>1, <1>11, <2>1 DEF CallStep
    <2> QED BY <1>1, <1>b, <1>11, <2>1 DEF CallStep, Reap
  <1>12. CASE UNCHANGED handle
    BY <1>12
  <1> QED
    BY <1>2, <1>3, <1>4, <1>5, <1>6, <1>7, <1>8, <1>9, <1>10, <1>11, <1>12
    DEF Next, CallStep, PtyConsole, StdioCreate, Resume, Finish, WaitStops, WaitBegins,
        ConFinalizers, Exits, Gone, rVars, RDies, Unload

\* So a status stays true.
LEMMA StatusNext ==
  ASSUME TypeOK, CallInv, CodeInv, ExitStatusTrue, Next PROVE ExitStatusTrue'
  <1> SUFFICES ASSUME NEW p \in Proc, handle'[p].collected
               PROVE  os'[p].st \in {"dying", "exited"} /\ handle'[p].exitcode = os'[p].code
    BY DEF ExitStatusTrue
  <1> QED BY EndedForGood, CollectedForGood DEF ExitStatusTrue

\* An exec that threw an error stays one.
LEMMA ThrownForGood ==
  ASSUME TypeOK, CallInv, Next, NEW p \in Proc, res[p] = "thrown" PROVE res'[p] = "thrown"
  <1>0. res \in [Proc -> {"none", "ok", "failed", "thrown"}]
    BY DEF TypeOK
  <1>1. CASE CallStep
    BY <1>0, <1>1
    DEF CallStep, PtyPipes, PtyConsole, PtyPseudo, PtyAttr, PtyCreate, StdioCreate,
        CreateProcess, AssignJob, Resume, Finish, WaitEnds, WaitStops, Terminate, Reap,
        Cleared, Thrown, Created, CallInv, At, ExecPc, EarlyPc, PtyPc
  <1>2. ASSUME NEW q \in Proc, NEW pty \in BOOLEAN, NEW cleanup \in BOOLEAN,
               ExecBegins(q, pty, cleanup)
        PROVE  res'[p] = "thrown"
    BY <1>0, <1>2 DEF ExecBegins, CallInv
  <1> QED
    BY <1>1, <1>2
    DEF Next, WaitBegins, GetExitStatus, Signal, Finalizer, PtyClose, ConFinalizers,
        Exits, Gone, rVars, Unload, RDies

\* A handle whose exec has begun keeps its options.
LEMMA OptionsForGood ==
  ASSUME TypeOK, CallInv, Next, NEW p \in Proc, handle[p].mem # "none"
  PROVE  (handle'[p].cleanup <=> handle[p].cleanup) /\ (handle'[p].pty <=> handle[p].pty)
  <1>0. handle \in [Proc -> Handle]
    BY DEF TypeOK
  <1>1. CallStep => P \in Proc
    BY CallsProcess
  <1>a. ASSUME NEW q \in Proc,
               \/ Cleared(q) \/ Freed(q) \/ \E code : handle' = Collected(q, code)
               \/ handle' = [handle EXCEPT ![q] = [@ EXCEPT !.ptycon = TRUE, !.hProcess = TRUE]]
               \/ handle' = [handle EXCEPT ![q].hProcess = TRUE]
               \/ handle' = [handle EXCEPT ![q].hProcess = FALSE]
               \/ handle' = [handle EXCEPT ![q].denied = TRUE]
               \/ handle' = [handle EXCEPT ![q].ptycon = FALSE]
        PROVE  (handle'[p].cleanup <=> handle[p].cleanup) /\ (handle'[p].pty <=> handle[p].pty)
    <2>1. ASSUME NEW h \in Handle
          PROVE  /\ \A code : LET g == [h EXCEPT !.collected = TRUE, !.exitcode = code]
                             IN  (g.cleanup <=> h.cleanup) /\ (g.pty <=> h.pty)
                 /\ LET g == [h EXCEPT !.mem = "freed"]
                    IN  (g.cleanup <=> h.cleanup) /\ (g.pty <=> h.pty)
                 /\ LET g == [h EXCEPT !.mem = "freed", !.hProcess = FALSE, !.ptycon = FALSE]
                    IN  (g.cleanup <=> h.cleanup) /\ (g.pty <=> h.pty)
                 /\ LET g == [h EXCEPT !.ptycon = TRUE, !.hProcess = TRUE]
                    IN  (g.cleanup <=> h.cleanup) /\ (g.pty <=> h.pty)
      BY DEF Handle
    <2>2. CASE Cleared(q)
      BY <1>0, <2>1, <2>2 DEF Cleared
    <2>3. CASE Freed(q)
      BY <1>0, <2>1, <2>3 DEF Freed
    <2>4. ASSUME NEW code, handle' = Collected(q, code)
          PROVE  (handle'[p].cleanup <=> handle[p].cleanup) /\ (handle'[p].pty <=> handle[p].pty)
      BY <1>0, <2>1, <2>4 DEF Collected
    <2>5. CASE handle' = [handle EXCEPT ![q] = [@ EXCEPT !.ptycon = TRUE, !.hProcess = TRUE]]
      BY <1>0, <2>1, <2>5
    <2>6. CASE \/ handle' = [handle EXCEPT ![q].hProcess = TRUE]
               \/ handle' = [handle EXCEPT ![q].hProcess = FALSE]
               \/ handle' = [handle EXCEPT ![q].denied = TRUE]
               \/ handle' = [handle EXCEPT ![q].ptycon = FALSE]
      BY <1>0, <2>6 DEF Handle
    <2> QED BY <1>a, <2>2, <2>3, <2>4, <2>5, <2>6
  <1>2. CASE CallStep
    BY <1>a, <1>1, <1>2
    DEF CallStep, PtyPipes, PtyConsole, PtyPseudo, PtyAttr, PtyCreate, StdioCreate,
        CreateProcess, AssignJob, Resume, Finish, WaitEnds, WaitStops, Terminate, Reap
  <1>3. ASSUME NEW q \in Proc, NEW pty \in BOOLEAN, NEW cleanup \in BOOLEAN,
               ExecBegins(q, pty, cleanup)
        PROVE  handle'[p] = handle[p]
    BY <1>0, <1>3 DEF ExecBegins
  <1>4. ASSUME NEW q \in Proc,
               GetExitStatus(q) \/ Signal(q) \/ Finalizer(q) \/ PtyClose(q)
        PROVE  (handle'[p].cleanup <=> handle[p].cleanup) /\ (handle'[p].pty <=> handle[p].pty)
    BY <1>a, <1>4 DEF GetExitStatus, Signal, Finalizer, PtyClose
  <1> QED
    BY <1>2, <1>3, <1>4 DEF Next, WaitBegins, ConFinalizers, Exits, Gone, rVars, Unload, RDies

\* A step that makes no member of the job and takes no job away keeps MemberInv.
LEMMA MemberKept ==
  ASSUME TypeOK, CallInv, MemberInv, Next, job' = job,
         \A p \in Proc :
             /\ os'[p].job <=> os[p].job
             /\ os'[p].st = "none" => os[p].st = "none"
             /\ os'[p].st \in {"suspended", "running"} =>
                    os[p].st \in {"none", "suspended", "running"}
  PROVE  MemberInv'
  <1>1. ASSUME NEW q \in Proc, res[q] = "thrown", handle[q].cleanup
        PROVE  res'[q] = "thrown" /\ handle'[q].cleanup
    BY <1>1, ThrownForGood, OptionsForGood DEF CallInv, TypeOK
  <1> QED BY <1>1 DEF MemberInv

\* The members of the job, after a step.
LEMMA MemberNext ==
  ASSUME TypeOK, CallInv, MemberInv, Next PROVE MemberInv'
  <1> USE DEF At
  <1>0. /\ os \in [Proc -> Os] /\ handle \in [Proc -> Handle]
        /\ res \in [Proc -> {"none", "ok", "failed", "thrown"}]
        /\ job \in {"none", "bare", "kill"}
    BY DEF TypeOK
  <1>1. CallStep => P \in Proc
    BY CallsProcess
  <1>2. CASE PtyCreate \/ CreateProcess
    <2>1. os' = os \/ \E hs : os' = [os EXCEPT ![P].st = "suspended", ![P].held = hs]
      BY <1>2 DEF PtyCreate, CreateProcess, Created
    <2>2. P \in Proc /\ os[P].st = "none" /\ job' = job
      BY <1>1, <1>2 DEF CallStep, CallInv, PtyCreate, CreateProcess, EarlyPc, PtyPc
    <2>3. \A p \in Proc :
             /\ os'[p].job <=> os[p].job
             /\ os'[p].st = "none" => os[p].st = "none"
             /\ os'[p].st \in {"suspended", "running"} =>
                    os[p].st \in {"none", "suspended", "running"}
      BY <1>0, <2>1, <2>2 DEF Os
    <2> QED BY <2>2, <2>3, MemberKept
  <1>3. CASE AssignJob
    <2>1. P \in Proc /\ os[P].st # "none"
      BY <1>1, <1>3 DEF CallStep, CallInv, AssignJob
    <2>2. CASE os' = os /\ job' = job
      BY <2>2, MemberKept
    <2>3. CASE os' = os /\ job' = "bare" /\ Thrown /\ handle[P].cleanup /\ handle' = handle
      <3>1. res'[P] = "thrown" /\ handle'[P].cleanup
        BY <1>0, <2>1, <2>3 DEF Thrown
      <3> QED BY <2>1, <2>3, <3>1 DEF MemberInv
    <2>4. CASE job' = (IF job = "none" THEN "kill" ELSE job)
               /\ (os' = os \/ os' = [os EXCEPT ![P].job = TRUE])
      <3>1. \A p \in Proc : os'[p].st = os[p].st /\ (os'[p].job => p = P \/ os[p].job)
        BY <1>0, <2>1, <2>4 DEF Os
      <3>2. job' # "none" /\ (job' = "bare" => job = "bare")
        BY <1>0, <2>4
      <3>3. ASSUME NEW q \in Proc, res[q] = "thrown", handle[q].cleanup
            PROVE  res'[q] = "thrown" /\ handle'[q].cleanup
        BY <3>3, ThrownForGood, OptionsForGood DEF CallInv
      <3> QED BY <2>1, <3>1, <3>2, <3>3 DEF MemberInv
    <2> QED BY <1>3, <2>2, <2>3, <2>4 DEF AssignJob
  <1>4. CASE Resume
    <2>1. os' = os \/ os' = [os EXCEPT ![P].st = IF @ = "suspended" THEN "running" ELSE @]
      BY <1>4 DEF Resume
    <2>2. \A p \in Proc :
             /\ os'[p].job <=> os[p].job
             /\ os'[p].st = "none" => os[p].st = "none"
             /\ os'[p].st \in {"suspended", "running"} =>
                    os[p].st \in {"none", "suspended", "running"}
      BY <1>0, <1>1, <1>4, <2>1 DEF CallStep, Os
    <2> QED BY <1>4, <2>2, MemberKept DEF Resume
  <1>5. CASE Terminate
    <2>1. os' = os \/ os' = [os EXCEPT ![P].st = "dying", ![P].code = 2]
      BY <1>5 DEF Terminate
    <2>2. \A p \in Proc :
             /\ os'[p].job <=> os[p].job
             /\ os'[p].st = "none" => os[p].st = "none"
             /\ os'[p].st \in {"suspended", "running"} =>
                    os[p].st \in {"none", "suspended", "running"}
      BY <1>0, <1>1, <1>5, <2>1 DEF CallStep, Os
    <2> QED BY <1>5, <2>2, MemberKept DEF Terminate
  <1>6. ASSUME NEW q \in Proc, Gone(q) \/ \E code \in ExitCode : Exits(q, code)
        PROVE  MemberInv'
    <2>1. \A p \in Proc :
             /\ os'[p].job <=> os[p].job
             /\ os'[p].st = "none" => os[p].st = "none"
             /\ os'[p].st \in {"suspended", "running"} =>
                    os[p].st \in {"none", "suspended", "running"}
      <3>1. CASE Gone(q)
        BY <1>0, <3>1 DEF Gone, Os
      <3>2. CASE \E code \in ExitCode : Exits(q, code)
        BY <1>0, <3>2 DEF Exits, Os
      <3> QED BY <1>6, <3>1, <3>2
    <2> QED BY <1>6, <2>1, MemberKept DEF Gone, Exits, rVars
  <1>7. CASE RDies \/ Unload
    <2>1. handle' = handle /\ res' = res /\ (job' = job \/ (Unload /\ job' = "none"))
      BY <1>7 DEF RDies, Unload
    <2>2. ASSUME NEW p \in Proc
          PROVE  /\ os'[p].job <=> os[p].job
                 /\ os'[p].st = "none" => os[p].st = "none"
                 /\ os'[p].st \in {"suspended", "running"} => os[p].st = os'[p].st
                 /\ Unload /\ os[p].job => os'[p].st \notin {"suspended", "running"}
      <3>1. ASSUME NEW code, JobEnds(code)
            PROVE  os'[p] = IF os[p].job /\ os[p].st \in {"suspended", "running"}
                            THEN [os[p] EXCEPT !.st = "dying", !.code = code] ELSE os[p]
        BY <3>1 DEF JobEnds
      <3>2. CASE Unload \/ (RDies /\ job = "kill")
        <4>1. PICK code : os'[p] = IF os[p].job /\ os[p].st \in {"suspended", "running"}
                            THEN [os[p] EXCEPT !.st = "dying", !.code = code] ELSE os[p]
          BY <3>1, <3>2 DEF Unload, RDies
        <4> QED BY <1>0, <4>1 DEF Os
      <3>3. CASE RDies /\ job # "kill"
        BY <3>3 DEF RDies, Unload
      <3> QED BY <1>7, <3>2, <3>3
    <2> QED BY <2>1, <2>2 DEF MemberInv
  <1>8. CASE UNCHANGED <<os, job>>
    BY <1>8, MemberKept
  <1> QED
    BY <1>2, <1>3, <1>4, <1>5, <1>6, <1>7, <1>8
    DEF Next, CallStep, PtyPipes, PtyConsole, PtyPseudo, PtyAttr, StdioCreate, Finish,
        WaitEnds, WaitStops, Reap, ExecBegins, WaitBegins, GetExitStatus, Signal,
        Finalizer, PtyClose, ConFinalizers

-----------------------------------------------------------------------------
(***************************************************************************)
(* Processes with cleanup = TRUE.                                          *)
(***************************************************************************)
KillInv == HandleInv /\ CleanupKills /\ JobInv

\* It holds in the beginning.
LEMMA KillInit == Init => KillInv
  BY DEF Init, KillInv, HandleInv, CleanupKills, JobInv

\* It is kept by a step that changes only what it does not speak of.
LEMMA KillKept ==
  ASSUME KillInv,
         \A p \in Proc : /\ handle'[p].mem = handle[p].mem
                         /\ handle'[p].hProcess <=> handle[p].hProcess
                         /\ handle'[p].cleanup <=> handle[p].cleanup
                         /\ handle'[p].denied <=> handle[p].denied,
         os' = os, r' = "up",
         pc' # "resume"
  PROVE  KillInv'
  BY DEF KillInv, HandleInv, CleanupKills, JobInv

\* A step of exec keeps it.
LEMMA KillExec ==
  ASSUME TypeOK, CallInv, KillInv,
         \/ PtyPipes \/ PtyConsole \/ PtyPseudo \/ PtyAttr \/ PtyCreate
         \/ StdioCreate \/ CreateProcess \/ AssignJob \/ Resume \/ Finish
  PROVE  KillInv'
  <1> USE DEF At
  <1>0. os \in [Proc -> Os] /\ handle \in [Proc -> Handle] /\ r \in {"up", "gone"}
    BY DEF TypeOK
  <1>1. P \in Proc
    BY CallsProcess DEF CallStep
  <1>2. pc \in EarlyPc => os[P].st = "none" /\ ~handle[P].hProcess
    BY <1>1 DEF CallInv
  <1>a. ASSUME os' = os, r' = "up", handle' = handle, pc' # "resume" PROVE KillInv'
    BY <1>a, KillKept
  <1>b. ASSUME pc \in EarlyPc, Cleared(P), os' = os, r' = "up" PROVE KillInv'
    <2>1. \A p \in Proc \ {P} : handle'[p] = handle[p]
      BY <1>0, <1>b DEF Cleared
    <2>2. handle'[P].mem = "freed" /\ os'[P].st = "none" /\ pc' = "idle"
      BY <1>0, <1>1, <1>2, <1>b DEF Cleared, Return, Handle
    <2> QED BY <1>b, <2>1, <2>2 DEF KillInv, HandleInv, CleanupKills, JobInv
  <1>c. ASSUME NEW hs, pc \in EarlyPc, r = "up", Created(hs), r' = "up",
               \A p \in Proc \ {P} : handle'[p] = handle[p],
               handle'[P].hProcess, handle'[P].mem = "live"
        PROVE  KillInv'
    <2>1. \A p \in Proc \ {P} : os'[p] = os[p]
      BY <1>0, <1>c DEF Created
    <2>2. os'[P].st = "suspended" /\ pc' = "assign"
      BY <1>0, <1>1, <1>c DEF Created, Os
    <2> QED BY <1>c, <2>1, <2>2 DEF KillInv, HandleInv, CleanupKills, JobInv
  <1>3. CASE PtyPipes \/ PtyConsole \/ PtyPseudo \/ PtyAttr
    BY <1>a, <1>b, <1>3
    DEF PtyPipes, PtyConsole, PtyPseudo, PtyAttr, Thrown, Return, EarlyPc, PtyPc
  <1>4. CASE PtyCreate
    <2>1. CASE Cleared(P) /\ UNCHANGED os
      BY <1>b, <1>4, <2>1 DEF PtyCreate, EarlyPc, PtyPc
    <2>2. CASE Created({})
               /\ handle' = [handle EXCEPT ![P] = [@ EXCEPT !.ptycon = TRUE, !.hProcess = TRUE]]
      <3>1. /\ \A p \in Proc \ {P} : handle'[p] = handle[p]
            /\ handle'[P].hProcess /\ handle'[P].mem = handle[P].mem
        BY <1>0, <1>1, <2>2 DEF Handle
      <3>2. handle[P].mem = "live" /\ pc \in EarlyPc /\ r = "up" /\ r' = "up"
        BY <1>4 DEF PtyCreate, EarlyPc, PtyPc, ExecPc, CallInv
      <3> QED BY <1>c, <2>2, <3>1, <3>2
    <2> QED BY <1>4, <2>1, <2>2 DEF PtyCreate
  <1>5. CASE StdioCreate \/ Finish
    BY <1>a, <1>5 DEF StdioCreate, Finish, Thrown, Return
  <1>6. CASE CreateProcess
    <2>1. CASE Thrown /\ UNCHANGED <<os, handle>>
      BY <1>a, <1>6, <2>1 DEF CreateProcess, Thrown, Return
    <2>2. CASE Created(Inheritable) /\ handle' = [handle EXCEPT ![P].hProcess = TRUE]
      <3>1. /\ \A p \in Proc \ {P} : handle'[p] = handle[p]
            /\ handle'[P].hProcess /\ handle'[P].mem = handle[P].mem
        BY <1>0, <1>1, <2>2 DEF Handle
      <3>2. handle[P].mem = "live" /\ pc \in EarlyPc /\ r = "up" /\ r' = "up"
        BY <1>6 DEF CreateProcess, EarlyPc, PtyPc, ExecPc, CallInv
      <3> QED BY <1>c, <2>2, <3>1, <3>2
    <2> QED BY <1>6, <2>1, <2>2 DEF CreateProcess
  <1>7. CASE AssignJob
    <2>1. r' = r /\ r = "up" /\ handle[P].mem = "live"
      BY <1>7 DEF AssignJob, CallInv, ExecPc
    <2>2. CASE ~handle[P].cleanup /\ UNCHANGED <<os, handle, call>> /\ pc' = "resume"
      BY <2>1, <2>2 DEF KillInv, HandleInv, CleanupKills, JobInv, P
    <2>3. CASE os' = [os EXCEPT ![P].job = TRUE] /\ UNCHANGED <<handle, call>>
      <3>1. \A p \in Proc : os'[p].st = os[p].st /\ (os[p].job => os'[p].job)
        BY <1>0, <1>1, <2>3 DEF Os
      <3>2. os'[P].job
        BY <1>0, <1>1, <2>3 DEF Os
      <3> QED BY <2>1, <2>3, <3>1, <3>2 DEF KillInv, HandleInv, CleanupKills, JobInv, P
    <2>4. CASE handle' = [handle EXCEPT ![P].denied = TRUE] /\ UNCHANGED <<os, call>>
      <3>1. /\ \A p \in Proc : /\ handle'[p].mem = handle[p].mem
                               /\ handle'[p].hProcess <=> handle[p].hProcess
                               /\ handle'[p].cleanup <=> handle[p].cleanup
                               /\ handle[p].denied => handle'[p].denied
            /\ handle'[P].denied
        BY <1>0, <1>1, <2>4 DEF Handle
      <3> QED BY <2>1, <2>4, <3>1 DEF KillInv, HandleInv, CleanupKills, JobInv, P
    <2>5. CASE Thrown /\ UNCHANGED <<os, handle>>
      BY <1>a, <2>1, <2>5 DEF Thrown, Return
    <2> QED BY <1>7, <2>2, <2>3, <2>4, <2>5 DEF AssignJob
  <1>8. CASE Resume
    <2>1. CASE Thrown /\ UNCHANGED os
      BY <1>a, <1>8, <2>1 DEF Resume, Thrown, Return
    <2>2. CASE pc' = "finish" 
      <3>1. /\ \A p \in Proc : os'[p].st = os[p].st \/ (p = P /\ os'[p].st = "running")
            /\ \A p \in Proc : os'[p].job <=> os[p].job
            /\ os[P].st # "suspended" => os' = os
        BY <1>0, <1>1, <1>8, <2>2 DEF Resume, Thrown, Return, Os
      <3>2. handle[P].mem = "live" /\ handle[P].hProcess
            /\ (handle[P].cleanup => handle[P].denied \/ os[P].job)
        BY <1>8 DEF Resume, CallInv, ExecPc, KillInv, JobInv
      <3>3. handle' = handle /\ r' = r /\ r = "up"
        BY <1>8 DEF Resume
      <3> QED BY <1>1, <2>2, <3>1, <3>2, <3>3 DEF KillInv, HandleInv, CleanupKills, JobInv
    <2> QED BY <1>8, <2>1, <2>2 DEF Resume
  <1> QED BY <1>3, <1>4, <1>5, <1>6, <1>7, <1>8

\* A step keeps it.
LEMMA KillNext ==
  ASSUME TypeOK, CallInv, CodeInv, ExitStatusTrue, KillInv, MemberInv, Next PROVE KillInv'
  <1> USE DEF At
  <1>0. os \in [Proc -> Os] /\ handle \in [Proc -> Handle] /\ r \in {"up", "gone"}
    BY DEF TypeOK
  <1>1. CallStep => P \in Proc
    BY CallsProcess
  <1>a. ASSUME NEW q \in Proc, NEW code, handle' = Collected(q, code)
        PROVE  \A p \in Proc : /\ handle'[p].mem = handle[p].mem
                               /\ handle'[p].hProcess <=> handle[p].hProcess
                               /\ handle'[p].cleanup <=> handle[p].cleanup
                               /\ handle'[p].denied <=> handle[p].denied
    BY <1>0, <1>a DEF Collected, Handle
  <1>b. ASSUME NEW q \in Proc, Freed(q),
               handle[q].cleanup => os[q].st \in {"none", "dying", "exited"},
               os' = os, r' = "up", pc' = "idle"
        PROVE  KillInv'
    <2>1. \A p \in Proc \ {q} : handle'[p] = handle[p]
      BY <1>0, <1>b DEF Freed
    <2>2. /\ handle'[q].mem = "freed" /\ (handle'[q].cleanup <=> handle[q].cleanup)
          /\ handle'[q].denied <=> handle[q].denied
      BY <1>0, <1>b DEF Freed, Handle
    <2> QED BY <1>b, <2>1, <2>2 DEF KillInv, HandleInv, CleanupKills, JobInv
  <1>2. ASSUME NEW q \in Proc, NEW pty \in BOOLEAN, NEW cleanup \in BOOLEAN,
               ExecBegins(q, pty, cleanup)
        PROVE  KillInv'
    <2>1. os[q].st = "none" /\ os' = os /\ r' = "up" /\ pc' # "resume"
      BY <1>2 DEF ExecBegins, CallInv, Return
    <2>2. \A p \in Proc \ {q} : handle'[p] = handle[p]
      BY <1>0, <1>2 DEF ExecBegins
    <2> QED BY <2>1, <2>2 DEF KillInv, HandleInv, CleanupKills, JobInv
  <1>3. ASSUME NEW q \in Proc, GetExitStatus(q) \/ Signal(q) PROVE KillInv'
    <2>1. os' = os /\ r' = "up" /\ pc' # "resume"
      BY <1>3 DEF GetExitStatus, Signal, Callable
    <2>2. handle' = handle \/ handle' = Collected(q, os[q].code)
      BY <1>3 DEF GetExitStatus, Signal
    <2> QED BY <1>a, <2>1, <2>2, KillKept
  <1>4. ASSUME NEW q \in Proc, Finalizer(q) PROVE KillInv'
    <2>1. CASE UNCHANGED handle
      BY <1>4, <2>1, KillKept DEF Finalizer
    <2>2. CASE Freed(q) /\ ~(handle[q].cleanup /\ ~handle[q].collected)
      <3>1. handle[q].cleanup => os[q].st \in {"none", "dying", "exited"}
        BY <1>0, <2>2 DEF ExitStatusTrue, Handle
      <3>2. os' = os /\ r' = "up" /\ pc' = "idle"
        BY <1>4, <2>2 DEF Finalizer
      <3> QED BY <1>b, <2>2, <3>1, <3>2
    <2> QED BY <1>4, <2>1, <2>2 DEF Finalizer
  <1>5. ASSUME NEW q \in Proc, PtyClose(q) PROVE KillInv'
    <2>1. \A p \in Proc : /\ handle'[p].mem = handle[p].mem
                          /\ handle'[p].hProcess <=> handle[p].hProcess
                          /\ handle'[p].cleanup <=> handle[p].cleanup
                          /\ handle'[p].denied <=> handle[p].denied
      BY <1>0, <1>5 DEF PtyClose, Handle
    <2> QED BY <1>5, <2>1, KillKept DEF PtyClose, Callable
  <1>6. ASSUME NEW q \in Proc, NEW forever \in BOOLEAN, WaitBegins(q, forever) \/ ConFinalizers(q)
        PROVE  KillInv'
    BY <1>6, KillKept DEF WaitBegins, ConFinalizers, Callable
  <1>7. CASE WaitEnds \/ WaitStops
    <2>1. os' = os /\ r' = "up" /\ pc' # "resume" /\ P \in Proc
      BY <1>1, <1>7 DEF WaitEnds, WaitStops, Return, CallStep
    <2>2. handle' = handle \/ handle' = Collected(P, os[P].code)
      BY <1>7 DEF WaitEnds, WaitStops
    <2> QED BY <1>a, <2>1, <2>2, KillKept
  <1>8. CASE Terminate
    <2>1. P \in Proc /\ r' = "up" /\ pc' = "reap"
      BY <1>1, <1>8 DEF Terminate, CallStep
    <2>2. CASE UNCHANGED <<os, handle>>
      BY <2>1, <2>2, KillKept
    <2>3. CASE /\ handle[P].hProcess /\ os' = [os EXCEPT ![P].st = "dying", ![P].code = 2]
               /\ handle' = Collected(P, 2)
      <3>1. /\ \A p \in Proc : os'[p].job <=> os[p].job
            /\ \A p \in Proc \ {P} : os'[p].st = os[p].st
            /\ os'[P].st = "dying"
        BY <1>0, <2>1, <2>3 DEF Os
      <3> QED BY <1>a, <2>1, <2>3, <3>1 DEF KillInv, HandleInv, CleanupKills, JobInv
    <2> QED BY <1>8, <2>2, <2>3 DEF Terminate
  <1>9. CASE Reap
    <2>1. P \in Proc /\ os' = os /\ r' = "up" /\ pc' = "idle" /\ handle[P].mem = "live"
      BY <1>1, <1>9 DEF Reap, CallStep, Return, CallInv
    <2>2. os[P].st \in {"none", "exited"}
      BY <1>9, <2>1 DEF Reap, KillInv, HandleInv
    <2>3. CASE handle' = [handle EXCEPT ![P].hProcess = FALSE]
      <3>1. \A p \in Proc : /\ handle'[p].mem = handle[p].mem
                            /\ handle'[p].cleanup <=> handle[p].cleanup
                            /\ handle'[p].denied <=> handle[p].denied
                            /\ p # P => (handle'[p].hProcess <=> handle[p].hProcess)
        BY <1>0, <2>1, <2>3 DEF Handle
      <3> QED BY <2>1, <2>2, <3>1 DEF KillInv, HandleInv, CleanupKills, JobInv
    <2> QED BY <1>9, <1>b, <2>1, <2>2, <2>3 DEF Reap
  <1>10. ASSUME NEW q \in Proc, Gone(q) \/ \E code \in ExitCode : Exits(q, code)
         PROVE  KillInv'
    <2>1. UNCHANGED rVars
      BY <1>10 DEF Gone, Exits
    <2>2. \A p \in Proc : /\ os'[p].job <=> os[p].job
                          /\ os'[p].st = os[p].st \/ os'[p].st = "exited"
                             \/ (os'[p].st = "dying" /\ os[p].st = "running")
      <3>1. CASE Gone(q)
        BY <1>0, <3>1 DEF Gone, Os
      <3>2. ASSUME NEW code \in ExitCode, Exits(q, code)
            PROVE  \A p \in Proc : /\ os'[p].job <=> os[p].job
                                   /\ \/ os'[p].st = os[p].st
                                      \/ os'[p].st = "dying" /\ os[p].st = "running"
        BY <1>0, <3>2 DEF Exits, Os
      <3> QED BY <1>10, <3>1, <3>2
    <2>3. handle' = handle /\ r' = r /\ pc' = pc /\ P' = P /\ job' = job
      BY <2>1 DEF rVars, P
    <2>4. (pc = "resume" /\ handle[P].cleanup => handle[P].denied \/ os'[P].job)
      BY <1>1, <2>2 DEF KillInv, JobInv, CallInv, P
    <2> QED BY <2>2, <2>3, <2>4 DEF KillInv, HandleInv, CleanupKills, JobInv
  <1>11. CASE RDies \/ Unload
    <2>1. handle' = handle /\ pc' = "idle"
      BY <1>11 DEF RDies, Unload
    <2>2. \A p \in Proc :
             /\ os'[p].job <=> os[p].job
             /\ ~os[p].job => os'[p].st = os[p].st
             /\ os'[p].st = os[p].st \/ (os'[p].st = "dying" /\ os[p].st \in {"suspended", "running"})
             /\ os[p].job /\ os'[p].st = "running" => job' = "bare"
      <3>1. ASSUME NEW code, JobEnds(code), NEW p \in Proc
            PROVE  /\ os'[p].job <=> os[p].job
                   /\ ~os[p].job => os'[p].st = os[p].st
                   /\ \/ os'[p].st = os[p].st
                      \/ os'[p].st = "dying" /\ os[p].st \in {"suspended", "running"}
                   /\ os[p].job => os'[p].st # "running"
        <4>1. os'[p] = IF os[p].job /\ os[p].st \in {"suspended", "running"}
                       THEN [os[p] EXCEPT !.st = "dying", !.code = code] ELSE os[p]
          BY <3>1 DEF JobEnds
        <4> QED BY <1>0, <4>1 DEF Os
      <3>2. CASE Unload \/ (RDies /\ job = "kill")
        BY <3>1, <3>2 DEF Unload, RDies
      <3>3. CASE RDies /\ job # "kill"
        BY <3>3 DEF RDies, MemberInv, TypeOK
      <3> QED BY <1>11, <3>2, <3>3
    <2>3. r = "up" /\ r' \in {"up", "gone"}
      BY <1>11 DEF RDies, Unload
    <2> QED BY <1>0, <2>1, <2>2, <2>3 DEF KillInv, HandleInv, CleanupKills, JobInv
  <1> QED
    BY <1>2, <1>3, <1>4, <1>5, <1>6, <1>7, <1>8, <1>9, <1>10, <1>11, KillExec
    DEF Next, CallStep

\* It implies that a process with cleanup = TRUE outlives neither its handle nor R.
LEMMA KillImplies ==
  ASSUME TypeOK, KillInv, MemberInv PROVE CleanupHolds
  BY DEF TypeOK, KillInv, JobInv, MemberInv, CleanupHolds, JobKills

-----------------------------------------------------------------------------
(***************************************************************************)
(* R's standard handles.                                                   *)
(***************************************************************************)
\* A step keeps them right.
LEMMA StdNext ==
  ASSUME TypeOK, StdInv, Next PROVE StdInv'
  <1> USE DEF StdInv, At, Return
  <1>1. CASE CallStep
    BY <1>1
    DEF CallStep, PtyPipes, PtyConsole, PtyPseudo, PtyAttr, PtyCreate, StdioCreate,
        CreateProcess, AssignJob, Resume, Finish, WaitEnds, WaitStops, Terminate, Reap,
        RestoreAndClose
  <1>2. ASSUME NEW p \in Proc, NEW pty \in BOOLEAN, NEW cleanup \in BOOLEAN,
               ExecBegins(p, pty, cleanup) \/ WaitBegins(p, pty)
        PROVE  StdInv'
    BY <1>2 DEF ExecBegins, WaitBegins, Callable
  <1>3. ASSUME NEW p \in Proc,
               GetExitStatus(p) \/ Signal(p) \/ Finalizer(p) \/ PtyClose(p) \/ ConFinalizers(p)
        PROVE  StdInv'
    BY <1>3 DEF GetExitStatus, Signal, Finalizer, PtyClose, ConFinalizers, Callable
  <1> QED
    BY <1>1, <1>2, <1>3 DEF Next, Exits, Gone, rVars, Unload, RDies

-----------------------------------------------------------------------------
(***************************************************************************)
(* The handles that are open.                                              *)
(***************************************************************************)
\* Which handles Named() stands for.
LEMMA NamedIs ==
  ASSUME NEW p, NEW q, NEW n, NEW i, NEW names
  PROVE  <<q, n, i>> \in Named(p, names) <=> q = p /\ n \in names /\ i = 0
  BY DEF Named

\* The ends that R keeps of the pipes of a process.
LEMMA EndsAre ==
  ASSUME NEW p, NEW e
  PROVE  e \in Ends(p) <=> \/ \E i \in Pipes : e = <<p, "parent", i>>
                           \/ e = <<p, "ptyin_write", 0>> \/ e = <<p, "ptyout_read", 0>>
  BY DEF Ends, Named, ParentEnd

\* All handles of a process.
LEMMA HandlesAre ==
  ASSUME NEW p, NEW h
  PROVE  h \in Handles(p) <=>
             \/ \E i \in Pipes : h = <<p, "parent", i>>
             \/ \E i \in Stream : h = <<p, "child", i>>
             \/ \E n \in PtyName \cup {"process", "thread"} : h = <<p, n, 0>>
  BY DEF Handles, Ends, Named, ParentEnd, ChildEnd, PtyName

\* exec has not begun for p, or it makes a console.
Unconnected(p) == handle[p].mem = "none" \/ (pc \in ExecPc /\ p = P /\ handle[p].pty)

\* No step leads back to there.
LEMMA UnconnectedBefore ==
  ASSUME TypeOK, CallInv, Next, NEW p \in Proc, Unconnected(p)' PROVE Unconnected(p)
  <1> USE DEF At, Unconnected, ExecPc, EarlyPc, PtyPc
  <1>0. handle \in [Proc -> Handle]
    BY DEF TypeOK
  <1>1. CallStep => P \in Proc
    BY CallsProcess
  <1>a. ASSUME NEW q \in Proc, handle[q].mem = "live", pc' = "idle", Cleared(q) \/ Freed(q)
        PROVE  Unconnected(p)
    <2>1. CASE Cleared(q)
      BY <1>0, <1>a, <2>1 DEF Cleared, Handle
    <2>2. CASE Freed(q)
      BY <1>0, <1>a, <2>2 DEF Freed, Handle
    <2> QED BY <1>a, <2>1, <2>2
  <1>b. ASSUME NEW q \in Proc, NEW code, handle' = Collected(q, code), pc' \notin ExecPc
        PROVE  Unconnected(p)
    BY <1>0, <1>b DEF Collected, Handle
  <1>2. ASSUME NEW q \in Proc, NEW pty \in BOOLEAN, NEW cleanup \in BOOLEAN,
               ExecBegins(q, pty, cleanup)
        PROVE  Unconnected(p)
    <2>1. CASE p = q
      BY <1>2, <2>1 DEF ExecBegins
    <2>2. CASE p # q
      <3>1. handle'[p] = handle[p]
        BY <1>0, <1>2, <2>2 DEF ExecBegins
      <3>2. pc' = "idle" \/ P' = q
        BY <1>2 DEF ExecBegins, Return, P, NoCall
      <3> QED BY <2>2, <3>1, <3>2
    <2> QED BY <2>1, <2>2
  <1>3. CASE PtyPipes \/ PtyConsole \/ PtyPseudo \/ PtyAttr
    <2>1. P \in Proc /\ handle[P].mem = "live"
      BY <1>1, <1>3 DEF CallStep, CallInv, PtyPipes, PtyConsole, PtyPseudo, PtyAttr
    <2>2. CASE Cleared(P)
      BY <1>a, <2>1, <2>2 DEF Cleared, Return
    <2>3. CASE UNCHANGED handle
      BY <1>3, <2>3 DEF PtyPipes, PtyConsole, PtyPseudo, PtyAttr, Thrown, Return, P, Cleared
    <2> QED BY <1>3, <2>2, <2>3 DEF PtyPipes, PtyConsole, PtyPseudo, PtyAttr
  <1>4. CASE PtyCreate
    <2>1. P \in Proc /\ handle[P].mem = "live"
      BY <1>1, <1>4 DEF CallStep, CallInv, PtyCreate
    <2>2. CASE Cleared(P)
      BY <1>a, <2>1, <2>2 DEF Cleared, Return
    <2>3. CASE /\ handle' = [handle EXCEPT ![P] = [@ EXCEPT !.ptycon = TRUE, !.hProcess = TRUE]]
               /\ call' = call
      BY <1>0, <1>4, <2>1, <2>3 DEF PtyCreate, Handle, P
    <2> QED BY <1>4, <2>2, <2>3 DEF PtyCreate, Created
  <1>5. CASE StdioCreate \/ Resume \/ Finish
    <2>1. pc \in ExecPc /\ handle' = handle
      BY <1>5 DEF StdioCreate, Resume, Finish
    <2>2. pc' = "idle" \/ P' = P
      BY <1>5 DEF StdioCreate, Resume, Finish, Thrown, Return, P, TypeOK
    <2> QED BY <2>1, <2>2
  <1>6. CASE CreateProcess
    <2>1. CASE UNCHANGED handle
      BY <1>6, <2>1 DEF CreateProcess, Thrown, Created, Return, P
    <2>2. CASE handle' = [handle EXCEPT ![P].hProcess = TRUE] /\ call' = call
      BY <1>0, <1>1, <1>6, <2>2 DEF CallStep, CreateProcess, Handle, P
    <2> QED BY <1>6, <2>1, <2>2 DEF CreateProcess, Created
  <1>7. CASE AssignJob
    <2>1. CASE UNCHANGED handle
      BY <1>7, <2>1 DEF AssignJob, Thrown, Return, P
    <2>2. CASE handle' = [handle EXCEPT ![P].denied = TRUE] /\ call' = call
      BY <1>0, <1>1, <1>7, <2>2 DEF CallStep, AssignJob, Handle, P
    <2> QED BY <1>7, <2>1, <2>2 DEF AssignJob
  <1>8. CASE WaitEnds \/ WaitStops \/ Terminate
    <2>1. P \in Proc /\ pc' \notin ExecPc
      BY <1>1, <1>8 DEF CallStep, WaitEnds, WaitStops, Terminate, Return
    <2> QED BY <1>8, <1>b, <2>1 DEF WaitEnds, WaitStops, Terminate
  <1>9. CASE Reap
    <2>1. P \in Proc /\ handle[P].mem = "live" /\ pc' = "idle"
      BY <1>1, <1>9 DEF CallStep, CallInv, Reap, Return
    <2>2. CASE handle' = [handle EXCEPT ![P].hProcess = FALSE]
      BY <1>0, <2>1, <2>2 DEF Handle
    <2> QED BY <1>9, <1>a, <2>1, <2>2 DEF Reap
  <1>10. ASSUME NEW q \in Proc, NEW forever \in BOOLEAN, WaitBegins(q, forever)
         PROVE  Unconnected(p)
    BY <1>10 DEF WaitBegins
  <1>11. ASSUME NEW q \in Proc, GetExitStatus(q) \/ Signal(q) PROVE Unconnected(p)
    BY <1>b, <1>11 DEF GetExitStatus, Signal, Callable
  <1>12. ASSUME NEW q \in Proc, Finalizer(q) PROVE Unconnected(p)
    BY <1>a, <1>12 DEF Finalizer
  <1>13. ASSUME NEW q \in Proc, PtyClose(q) PROVE Unconnected(p)
    BY <1>0, <1>13 DEF PtyClose, Callable, Handle
  <1> QED
    BY <1>2, <1>3, <1>4, <1>5, <1>6, <1>7, <1>8, <1>9, <1>10, <1>11, <1>12, <1>13
    DEF Next, CallStep, ConFinalizers, Exits, Gone, rVars, Unload, RDies, P

\* No connections in the beginning.
LEMMA ConInit == Init => ConInv
  <1> SUFFICES ASSUME Init, NEW p \in Proc, NEW e \in Ends(p) PROVE con[e] = "none"
    BY DEF ConInv
  <1> QED BY DEF Init

\* Connections are made at the end of exec, or in stdio_create.
LEMMA ConNext ==
  ASSUME TypeOK, CallInv, ConInv, Next PROVE ConInv'
  <1> SUFFICES ASSUME NEW p \in Proc, Unconnected(p)', NEW e \in Ends(p)
               PROVE  con'[e] = "none"
    BY DEF ConInv, Unconnected
  <1>1. Unconnected(p) /\ con[e] = "none"
    BY UnconnectedBefore DEF ConInv, Unconnected
  <1>2. ConType /\ e \in DOMAIN con
    BY DEF TypeOK, ConType
  <1>3. \A q : q # p => e \notin Named(q, {"ptyin_write", "ptyout_read"})
                        /\ \A i : e # ParentEnd(q, i)
    BY EndsAre DEF Named, ParentEnd
  <1>4. CASE StdioCreate
    <2>1. P # p
      BY <1>1, <1>4 DEF StdioCreate, Unconnected, CallInv, At, ExecPc, EarlyPc
    <2> QED BY <1>1, <1>2, <1>3, <1>4, <2>1 DEF StdioCreate
  <1>5. CASE Finish
    <2>1. pc' = "idle" /\ handle' = handle /\ handle[P].mem = "live"
      BY <1>5 DEF Finish, Return, CallInv, At, ExecPc
    <2>2. P # p
      BY <1>1, <2>1 DEF Unconnected, ExecPc, EarlyPc, PtyPc
    <2> QED BY <1>1, <1>2, <1>3, <1>5, <2>2 DEF Finish
  <1>6. ASSUME NEW q \in Proc, ConFinalizers(q) PROVE con'[e] = "none"
    BY <1>1, <1>2, <1>6 DEF ConFinalizers
  <1>7. CASE RDies
    BY <1>2, <1>7 DEF RDies
  <1>8. CASE UNCHANGED con
    BY <1>1, <1>8
  <1> QED
    BY <1>4, <1>5, <1>6, <1>7, <1>8
    DEF Next, CallStep, PtyPipes, PtyConsole, PtyPseudo, PtyAttr, PtyCreate, CreateProcess,
        AssignJob, Resume, WaitEnds, WaitStops, Terminate, Reap, ExecBegins, WaitBegins,
        GetExitStatus, Signal, Finalizer, PtyClose, Exits, Gone, rVars, Unload

\* What OpenInv speaks of is the same for p after a step.
Same(p) ==
    /\ \A n, i : <<p, n, i>> \in open' <=> <<p, n, i>> \in open
    /\ \A e \in Ends(p) : con'[e] = con[e]
    /\ handle'[p].hProcess <=> handle[p].hProcess
    /\ handle'[p].ptycon <=> handle[p].ptycon
    /\ handle'[p].pty <=> handle[p].pty
    /\ \A labels : "idle" \notin labels => (Making(p, labels)' <=> Making(p, labels))
    /\ LeftEarly(p)' <=> LeftEarly(p)
    /\ LeftLate(p)' <=> LeftLate(p)

\* Only exec makes processes and throws errors, for its own process.
LEMMA LeftSame ==
  ASSUME TypeOK, CallInv, Next, NEW p \in Proc, ~(pc \in ExecPc /\ p = P)
  PROVE  (LeftEarly(p)' <=> LeftEarly(p)) /\ (LeftLate(p)' <=> LeftLate(p))
  <1> USE DEF At
  <1>0. /\ os \in [Proc -> Os] /\ res \in [Proc -> {"none", "ok", "failed", "thrown"}]
    BY DEF TypeOK
  <1>1. CallStep => P \in Proc
    BY CallsProcess
  <1>2. res'[p] = "thrown" <=> res[p] = "thrown"
    <2>1. CASE CallStep
      BY <1>0, <1>1, <2>1
      DEF CallStep, PtyPipes, PtyConsole, PtyPseudo, PtyAttr, PtyCreate, StdioCreate,
          CreateProcess, AssignJob, Resume, Finish, WaitEnds, WaitStops, Terminate, Reap,
          Cleared, Thrown, Created, ExecPc, EarlyPc, PtyPc
    <2>2. ASSUME NEW q \in Proc, NEW pty \in BOOLEAN, NEW cleanup \in BOOLEAN,
                 ExecBegins(q, pty, cleanup)
          PROVE  res'[p] = "thrown" <=> res[p] = "thrown"
      BY <1>0, <2>2 DEF ExecBegins, CallInv
    <2> QED
      BY <2>1, <2>2
      DEF Next, WaitBegins, GetExitStatus, Signal, Finalizer, PtyClose, ConFinalizers,
          Exits, Gone, rVars, Unload, RDies
  <1>3. os'[p].st = "none" <=> os[p].st = "none"
    <2>1. CASE PtyCreate \/ CreateProcess
      <3>1. p # P
        BY <2>1 DEF PtyCreate, CreateProcess, ExecPc, EarlyPc, PtyPc
      <3> QED BY <1>0, <2>1, <3>1 DEF PtyCreate, CreateProcess, Created
    <2>2. CASE AssignJob
      BY <1>0, <1>1, <2>2 DEF CallStep, AssignJob, Os
    <2>3. CASE Resume
      BY <1>0, <1>1, <2>3 DEF CallStep, Resume, Os
    <2>4. CASE Terminate
      BY <1>0, <1>1, <2>4 DEF CallStep, Terminate, Os
    <2>5. ASSUME NEW q \in Proc, NEW code \in ExitCode, Gone(q) \/ Exits(q, code)
          PROVE  os'[p].st = "none" <=> os[p].st = "none"
      BY <1>0, <2>5 DEF Gone, Exits, Os
    <2>6. ASSUME NEW q \in Proc, Gone(q)
          PROVE  os'[p].st = "none" <=> os[p].st = "none"
      BY <1>0, <2>6 DEF Gone, Os
    <2>7. CASE RDies \/ Unload
      <3>1. os' = os \/ \E code \in {0, 1} : JobEnds(code)
        BY <2>7 DEF RDies, Unload
      <3>2. ASSUME NEW code \in {0, 1}, JobEnds(code)
            PROVE  os'[p].st = "none" <=> os[p].st = "none"
        <4>1. os'[p] = IF os[p].job /\ os[p].st \in {"suspended", "running"}
                       THEN [os[p] EXCEPT !.st = "dying", !.code = code] ELSE os[p]
          BY <3>2 DEF JobEnds
        <4> QED BY <1>0, <4>1 DEF Os
      <3> QED BY <3>1, <3>2
    <2> QED
      BY <2>1, <2>2, <2>3, <2>4, <2>5, <2>6, <2>7
      DEF Next, CallStep, PtyPipes, PtyConsole, PtyPseudo, PtyAttr, StdioCreate, Finish,
          WaitEnds, WaitStops, Reap, ExecBegins, WaitBegins, GetExitStatus, Signal,
          Finalizer, PtyClose, ConFinalizers
  <1> QED BY <1>2, <1>3 DEF LeftEarly, LeftLate, Left

\* Then so is OpenInv.
LEMMA OpenSame ==
  ASSUME NEW p, OpenInv(p), Same(p) PROVE OpenInv(p)'
  <1>1. \A i \in Pipes : con'[<<p, "parent", i>>] = con[<<p, "parent", i>>]
    BY EndsAre DEF Same
  <1>2. \A n \in {"ptyin_write", "ptyout_read"} : con'[<<p, n, 0>>] = con[<<p, n, 0>>]
    BY EndsAre DEF Same
  <1>3. /\ Making(p, {"stdio", "create", "assign", "resume", "finish"})' <=>
             Making(p, {"stdio", "create", "assign", "resume", "finish"})
        /\ Making(p, {"assign", "resume"})' <=> Making(p, {"assign", "resume"})
        /\ Making(p, {"attr", "ptycreate"})' <=> Making(p, {"attr", "ptycreate"})
        /\ Making(p, {"console", "pseudo"})' <=> Making(p, {"console", "pseudo"})
        /\ Making(p, {"console", "pseudo", "attr", "ptycreate"})' <=>
             Making(p, {"console", "pseudo", "attr", "ptycreate"})
        /\ Making(p, {"assign", "resume", "finish"})' <=> Making(p, {"assign", "resume", "finish"})
        /\ Making(p, {"pseudo", "attr", "ptycreate"})' <=> Making(p, {"pseudo", "attr", "ptycreate"})
    BY DEF Same
  <1>4. \A n, i : <<p, n, i>> \in open' <=> <<p, n, i>> \in open
    BY DEF Same
  <1>5. /\ handle'[p].hProcess <=> handle[p].hProcess
        /\ handle'[p].ptycon <=> handle[p].ptycon
        /\ handle'[p].pty <=> handle[p].pty
    BY DEF Same
  <1>6. /\ LeftEarly(p)' <=> LeftEarly(p)
        /\ LeftLate(p)' <=> LeftLate(p)
        /\ Left(p)' <=> Left(p)
    BY DEF Same, LeftEarly, LeftLate
  <1> QED BY <1>1, <1>2, <1>3, <1>4, <1>5, <1>6 DEF OpenInv, ParentEnd, ChildEnd

\* A step of a call changes nothing of what OpenInv says of other processes.
LEMMA OthersSame ==
  ASSUME TypeOK, CallInv, CallStep, NEW q \in Proc, q # P PROVE Same(q)
  <1> USE DEF CallStep
  <1>0. handle \in [Proc -> Handle] /\ ConType /\ P \in Proc
    BY CallsProcess DEF TypeOK, ConType
  <1>1. handle'[q] = handle[q]
    BY <1>0
    DEF PtyPipes, PtyConsole, PtyPseudo, PtyAttr, PtyCreate, StdioCreate, CreateProcess,
        AssignJob, Resume, Finish, WaitEnds, WaitStops, Terminate, Reap, Cleared, Freed,
        Collected
  <1>2. P' = P \/ pc' = "idle"
    BY DEF PtyPipes, PtyConsole, PtyPseudo, PtyAttr, PtyCreate, StdioCreate, CreateProcess,
        AssignJob, Resume, Finish, WaitEnds, WaitStops, Terminate, Reap, Cleared, Thrown,
        Created, Return, P, TypeOK
  <1>3. \A labels : "idle" \notin labels => (Making(q, labels)' <=> Making(q, labels))
    BY <1>2 DEF Making
  <1>4. ASSUME NEW e \in Ends(q) PROVE con'[e] = con[e]
    <2>1. e \in DOMAIN con
      BY <1>0 DEF ConType
    <2>2. e \notin Named(P, {"ptyin_write", "ptyout_read"}) /\ \A i : e # ParentEnd(P, i)
      BY EndsAre DEF Named, ParentEnd
    <2>3. CASE StdioCreate
      BY <2>1, <2>2, <2>3 DEF StdioCreate
    <2>4. CASE Finish
      BY <2>1, <2>2, <2>4 DEF Finish
    <2> QED BY <2>3, <2>4 
      DEF PtyPipes, PtyConsole, PtyPseudo, PtyAttr, PtyCreate, CreateProcess,
          AssignJob, Resume, WaitEnds, WaitStops, Terminate, Reap
  <1>5. ASSUME NEW n, NEW i PROVE <<q, n, i>> \in open' <=> <<q, n, i>> \in open
    <2>1. \A names : <<q, n, i>> \notin Named(P, names)
      BY NamedIs
    <2>2. \A j : <<q, n, i>> # ParentEnd(P, j) /\ <<q, n, i>> # ChildEnd(P, j)
      BY DEF ParentEnd, ChildEnd
    <2>3. CASE StdioCreate \/ Finish
      BY <2>2, <2>3 DEF StdioCreate, Finish
    <2> QED BY <2>1, <2>3
      DEF PtyPipes, PtyConsole, PtyPseudo, PtyAttr, PtyCreate, CreateProcess,
          AssignJob, Resume, WaitEnds, WaitStops, Terminate, Reap, RestoreAndClose, Freed
  <1>6. (LeftEarly(q)' <=> LeftEarly(q)) /\ (LeftLate(q)' <=> LeftLate(q))
    BY LeftSame DEF Next
  <1> QED BY <1>1, <1>3, <1>4, <1>5, <1>6 DEF Same

\* R has no handle of p open.
Closed(p) ==
    /\ \A i \in Stream : <<p, "child", i>> \notin open
    /\ \A i \in Pipes : <<p, "parent", i>> \notin open
    /\ \A n \in PtyName \cup {"process", "thread"} : <<p, n, 0>> \notin open

\* A step of exec that makes a console keeps OpenInv for its process.
LEMMA OwnConsole ==
  ASSUME TypeOK, CallInv, ConInv, NEW p \in Proc, p = P, OpenInv(p),
         PtyPipes \/ PtyConsole \/ PtyPseudo \/ PtyAttr \/ PtyCreate
  PROVE  OpenInv(p)'
  <1> USE DEF At
  <1>0. handle \in [Proc -> Handle] /\ res \in [Proc -> {"none", "ok", "failed", "thrown"}]
    BY DEF TypeOK
  <1>1. pc \in PtyPc
    BY DEF PtyPipes, PtyConsole, PtyPseudo, PtyAttr, PtyCreate, PtyPc
  <1>2. /\ ~handle[p].hProcess /\ ~handle[p].ptycon /\ handle[p].pty
        /\ os[p].st = "none" /\ ~Left(p)
    BY <1>1 DEF CallInv, EarlyPc, ExecPc, Left
  <1>3. /\ \A i \in Pipes : con[<<p, "parent", i>>] = "none"
        /\ \A n \in {"ptyin_write", "ptyout_read"} : con[<<p, n, 0>>] = "none"
    BY <1>1, <1>2, EndsAre DEF ConInv, ExecPc, EarlyPc
  <1>4. con' = con
    BY DEF PtyPipes, PtyConsole, PtyPseudo, PtyAttr, PtyCreate
  <1>5. \A i \in Stream : <<p, "child", i>> \notin open
    BY <1>2 DEF OpenInv, ChildEnd
  <1>6. \A i \in Pipes : <<p, "parent", i>> \notin open
    BY <1>3 DEF OpenInv, ParentEnd
  <1>a. ASSUME Cleared(P), Closed(p)' PROVE OpenInv(p)'
    <2>1. ~handle'[p].hProcess /\ ~handle'[p].ptycon /\ pc' = "idle"
      BY <1>0, <1>2, <1>a DEF Cleared, Return, Handle
    <2> QED BY <1>3, <1>4, <1>a, <2>1 DEF Closed, OpenInv, Making, ParentEnd, ChildEnd, PtyName
  <1>b. ASSUME handle' = handle, P' = P, pc' \in PtyPc,
               \A i \in Stream : <<p, "child", i>> \notin open',
               \A i \in Pipes : <<p, "parent", i>> \notin open',
               <<p, "process", 0>> \notin open', <<p, "thread", 0>> \notin open',
               <<p, "hpc", 0>> \in open' <=> pc' \in {"attr", "ptycreate"},
               \A n \in {"ptyin_read", "ptyout_child"} :
                   <<p, n, 0>> \in open' => pc' \in {"console", "pseudo"},
               \A n \in {"ptyin_write", "ptyout_read"} :
                   <<p, n, 0>> \in open' <=> pc' # "ptypipe",
               <<p, "conin", 0>> \in open' => pc' \in {"pseudo", "attr", "ptycreate"}
        PROVE  OpenInv(p)'
    BY <1>2, <1>3, <1>4, <1>b DEF OpenInv, Making, ParentEnd, ChildEnd, PtyPc
  <1>7. /\ <<p, "process", 0>> \notin open /\ <<p, "thread", 0>> \notin open
        /\ <<p, "hpc", 0>> \in open <=> pc \in {"attr", "ptycreate"}
        /\ \A n \in {"ptyin_read", "ptyout_child"} :
               <<p, n, 0>> \in open => pc \in {"console", "pseudo"}
        /\ \A n \in {"ptyin_write", "ptyout_read"} : <<p, n, 0>> \in open <=> pc # "ptypipe"
        /\ <<p, "conin", 0>> \in open => pc \in {"pseudo", "attr", "ptycreate"}
    BY <1>1, <1>2, <1>3 DEF OpenInv, Making, PtyPc, LeftEarly, LeftLate
  <1>8. \A n, i, names : <<p, n, i>> \in Named(P, names) <=> n \in names /\ i = 0
    BY NamedIs
  <1>9. CASE PtyPipes
    <2>1. CASE Cleared(P) /\ open' = open
      BY <1>5, <1>6, <1>7, <1>9, <1>a, <2>1 DEF PtyPipes, Closed, PtyName
    <2>2. CASE /\ open' = open \cup Named(P, {"ptyin_read", "ptyin_write", "ptyout_read",
                                             "ptyout_child"})
               /\ pc' = "console" /\ UNCHANGED <<handle, call>>
      BY <1>5, <1>6, <1>7, <1>8, <1>9, <1>b, <2>2 DEF PtyPipes, PtyPc, P
    <2>3. CASE /\ Thrown /\ open' = open \cup Named(P, {"ptyin_read", "ptyin_write"})
               /\ handle' = handle /\ os' = os
      <3>1. LeftEarly(p)' /\ pc' = "idle"
        BY <1>0, <1>2, <2>3 DEF Thrown, Return, LeftEarly, Left
      <3> QED BY <1>2, <1>3, <1>4, <1>5, <1>6, <1>7, <1>8, <1>9, <2>3, <3>1
          DEF PtyPipes, OpenInv, Making, ParentEnd, ChildEnd
    <2> QED BY <1>9, <2>1, <2>2, <2>3 DEF PtyPipes
  <1>10. CASE PtyConsole
    BY <1>5, <1>6, <1>7, <1>8, <1>10, <1>b DEF PtyConsole, PtyPc, P
  <1>11. CASE PtyPseudo
    <2>1. CASE Cleared(P) /\ RestoreAndClose({"ptyin_read", "ptyout_child", "ptyin_write",
                                              "ptyout_read"})
      BY <1>5, <1>6, <1>7, <1>8, <1>11, <1>a, <2>1 DEF PtyPseudo, RestoreAndClose, Closed, PtyName
    <2>2. CASE /\ open' = (open \ Named(P, {"ptyin_read", "ptyout_child"})) \cup Named(P, {"hpc"})
               /\ pc' = "attr" /\ UNCHANGED <<handle, call>>
      BY <1>5, <1>6, <1>7, <1>8, <1>11, <1>b, <2>2 DEF PtyPseudo, PtyPc, P
    <2> QED BY <1>11, <2>1, <2>2 DEF PtyPseudo
  <1>12. CASE PtyAttr
    <2>1. CASE Cleared(P) /\ RestoreAndClose({"hpc", "ptyin_write", "ptyout_read"})
      BY <1>5, <1>6, <1>7, <1>8, <1>12, <1>a, <2>1 DEF PtyAttr, RestoreAndClose, Closed, PtyName
    <2>2. CASE pc' = "ptycreate" /\ UNCHANGED <<open, handle, call>>
      BY <1>5, <1>6, <1>7, <1>12, <1>b, <2>2 DEF PtyAttr, PtyPc, P
    <2> QED BY <1>12, <2>1, <2>2 DEF PtyAttr
  <1>13. CASE PtyCreate
    <2>1. CASE Cleared(P) /\ RestoreAndClose({"hpc", "ptyin_write", "ptyout_read"})
      BY <1>5, <1>6, <1>7, <1>8, <1>13, <1>a, <2>1 DEF PtyCreate, RestoreAndClose, Closed, PtyName
    <2>2. CASE /\ open' = (open \ Named(P, {"conin"})) \cup Named(P, {"process", "thread"})
               /\ handle' = [handle EXCEPT ![P] = [@ EXCEPT !.ptycon = TRUE, !.hProcess = TRUE]]
               /\ pc' = "assign" /\ call' = call
      <3>1. handle'[p].hProcess /\ handle'[p].ptycon /\ handle'[p].pty
        BY <1>0, <1>2, <2>2 DEF Handle
      <3> QED BY <1>3, <1>4, <1>5, <1>6, <1>7, <1>8, <1>13, <2>2, <3>1
          DEF PtyCreate, OpenInv, Making, ParentEnd, ChildEnd, P
    <2> QED BY <1>13, <2>1, <2>2 DEF PtyCreate, Created
  <1> QED BY <1>9, <1>10, <1>11, <1>12, <1>13

\* The other steps of exec keep OpenInv for its process.
LEMMA OwnExec ==
  ASSUME TypeOK, CallInv, ConInv, NEW p \in Proc, p = P, OpenInv(p),
         StdioCreate \/ CreateProcess \/ AssignJob \/ Resume \/ Finish
  PROVE  OpenInv(p)'
  <1> USE DEF At, ParentEnd, ChildEnd
  <1>0. /\ handle \in [Proc -> Handle] /\ ConType
        /\ res \in [Proc -> {"none", "ok", "failed", "thrown"}]
    BY DEF TypeOK, ConType
  <1>1. pc \in ExecPc /\ ~Left(p)
    BY DEF StdioCreate, CreateProcess, AssignJob, Resume, Finish, ExecPc, EarlyPc, CallInv, Left
  <1>a. ASSUME Thrown, open' = open, con' = con, handle' = handle, os' = os,
               pc \in {"stdio", "create", "assign", "resume"},
               pc \in {"assign", "resume"} => os[p].st # "none"
        PROVE  OpenInv(p)'
    <2>1. Left(p)' /\ pc' = "idle"
      BY <1>0, <1>a DEF Thrown, Return, Left
    <2>2. os[p].st # "none" => LeftLate(p)'
      BY <1>a, <2>1 DEF LeftLate, Left
    <2> QED BY <1>1, <1>a, <2>1, <2>2 DEF OpenInv, Making, LeftEarly, LeftLate
  <1>2. \A n, i, names : <<p, n, i>> \in Named(P, names) <=> n \in names /\ i = 0
    BY NamedIs
  <1>3. \A e \in Ends(p) : e \in DOMAIN con
    BY <1>0 DEF ConType
  <1>4. /\ \A i \in Pipes : <<p, "parent", i>> \in DOMAIN con
        /\ \A n \in {"ptyin_write", "ptyout_read"} : <<p, n, 0>> \in DOMAIN con
    BY <1>3, EndsAre
  <1>5. CASE StdioCreate /\ Thrown
    <2>1. pc = "stdio" /\ handle' = handle /\ os' = os
      BY <1>5 DEF StdioCreate
    <2>2. CASE UNCHANGED <<open, con>>
      BY <1>5, <1>a, <2>1, <2>2
    <2>3. CASE ~UNCHANGED <<open, con>>
      <3> DEFINE made == {<<p, "parent", j>> : j \in {j \in Pipes : j < call.i}}
      <3>1. /\ open' = open \ ({<<p, "child", j>> : j \in Stream} \cup made)
            /\ con' = [e \in DOMAIN con |-> IF e \in made THEN "destroyed" ELSE con[e]]
            /\ pc' = "idle"
        BY <1>0, <1>1, <1>5, <2>1, <2>3 DEF StdioCreate, Thrown, Return, Left
      <3>2. \A n, j : <<p, n, j>> \in made => n = "parent"
        OBVIOUS
      <3>3. \A j \in Pipes : con'[<<p, "parent", j>>] =
               IF <<p, "parent", j>> \in made THEN "destroyed" ELSE con[<<p, "parent", j>>]
        BY <1>4, <3>1
      <3>4. \A n \in {"ptyin_write", "ptyout_read"} : con'[<<p, n, 0>>] = con[<<p, n, 0>>]
        BY <1>4, <3>1, <3>2
      <3>5. /\ \A j \in Stream : <<p, "child", j>> \notin open'
            /\ \A n, j : n # "child" =>
                   (<<p, n, j>> \in open' <=> <<p, n, j>> \in open /\ <<p, n, j>> \notin made)
        BY <3>1
      <3> HIDE DEF made
      <3> QED BY <1>1, <2>1, <3>1, <3>2, <3>3, <3>4, <3>5
          DEF OpenInv, Making, LeftEarly, LeftLate
    <2> QED BY <2>2, <2>3
  <1>10. CASE StdioCreate /\ ~Thrown
    <2> DEFINE i == call.i
    <2>1. i \in Stream /\ ~handle[p].pty /\ handle' = handle /\ P' = P
          /\ pc = "stdio" /\ pc' \in {"stdio", "create"}
      BY <1>10 DEF StdioCreate, CallInv, P, TypeOK
    <2>2. open' = open \cup {<<p, "child", i>>}
                       \cup (IF i \in Pipes THEN {<<p, "parent", i>>} ELSE {})
      BY <1>10 DEF StdioCreate
    <2>3. con' = IF i \in Pipes THEN [con EXCEPT ![<<p, "parent", i>>] = "live"] ELSE con
      BY <1>10 DEF StdioCreate
    <2> HIDE DEF i
    <2>4. \A j \in Pipes : con'[<<p, "parent", j>>] =
             IF j = i THEN "live" ELSE con[<<p, "parent", j>>]
      BY <1>4, <2>3
    <2>5. \A n \in {"ptyin_write", "ptyout_read"} : con'[<<p, n, 0>>] = con[<<p, n, 0>>]
      BY <1>4, <2>3
    <2>6. \A j \in Pipes : <<p, "parent", j>> \in open' <=> j = i \/ <<p, "parent", j>> \in open
      BY <2>2
    <2>7. \A n : n \notin {"child", "parent"} => (<<p, n, 0>> \in open' <=> <<p, n, 0>> \in open)
      BY <2>2
    <2> QED BY <1>1, <2>1, <2>4, <2>5, <2>6, <2>7 DEF OpenInv, Making, LeftEarly, LeftLate
  <1>6. CASE CreateProcess /\ ~Thrown
    <2>1. /\ open' = open \cup Named(P, {"process", "thread"})
          /\ handle' = [handle EXCEPT ![P].hProcess = TRUE]
          /\ pc = "create" /\ pc' = "assign" /\ P' = P /\ con' = con
      BY <1>6 DEF CreateProcess, Created, P
    <2>2. handle'[p].hProcess /\ (handle'[p].ptycon <=> handle[p].ptycon)
          /\ (handle'[p].pty <=> handle[p].pty) /\ ~handle[p].pty
      BY <1>0, <2>1 DEF Handle, CallInv
    <2>3. \A n, i : <<p, n, i>> \in open' <=>
             <<p, n, i>> \in open \/ (n \in {"process", "thread"} /\ i = 0)
      BY <1>2, <2>1
    <2> QED BY <1>1, <2>1, <2>2, <2>3 DEF OpenInv, Making, LeftEarly, LeftLate
  <1>7. CASE AssignJob /\ ~Thrown
    <2>1. open' = open /\ con' = con /\ pc = "assign" /\ pc' = "resume" /\ P' = P
      BY <1>7 DEF AssignJob, P
    <2>2. /\ handle'[p].hProcess <=> handle[p].hProcess
          /\ handle'[p].ptycon <=> handle[p].ptycon
          /\ handle'[p].pty <=> handle[p].pty
      <3>1. CASE handle' = handle
        BY <3>1
      <3>2. CASE handle' = [handle EXCEPT ![P].denied = TRUE]
        BY <1>0, <3>2 DEF Handle
      <3> QED BY <1>7, <3>1, <3>2 DEF AssignJob
    <2> QED BY <1>1, <2>1, <2>2 DEF OpenInv, Making, LeftEarly, LeftLate
  <1>8. CASE Resume /\ ~Thrown
    <2>1. /\ open' = open \ Named(P, {"thread"}) /\ con' = con /\ handle' = handle
          /\ pc = "resume" /\ pc' = "finish" /\ P' = P
      BY <1>8 DEF Resume, P
    <2>2. \A n, i : <<p, n, i>> \in open' <=>
             <<p, n, i>> \in open /\ ~(n = "thread" /\ i = 0)
      BY <1>2, <2>1
    <2> QED BY <1>1, <2>1, <2>2 DEF OpenInv, Making, LeftEarly, LeftLate
  <1>11. CASE CreateProcess /\ Thrown
    <2>1. pc = "create" /\ UNCHANGED <<os, open, handle, con>>
      BY <1>0, <1>1, <1>11 DEF CreateProcess, Thrown, Created, Left
    <2> QED BY <1>11, <1>a, <2>1
  <1>12. CASE (AssignJob \/ Resume) /\ Thrown
    <2>1. pc \in {"assign", "resume"} /\ UNCHANGED <<os, open, handle, con>>
      BY <1>0, <1>1, <1>12 DEF AssignJob, Resume, Thrown, Left
    <2>2. os[p].st # "none"
      BY <2>1 DEF CallInv
    <2> QED BY <1>12, <1>a, <2>1, <2>2
  <1>9. CASE Finish
    <2>1. pc = "finish" /\ pc' = "idle" /\ handle' = handle
      BY <1>9 DEF Finish, Return
    <2>2. CASE handle[p].pty
      <3>1. /\ open' = open
            /\ con' = [e \in DOMAIN con |-> IF e \in Named(P, {"ptyin_write", "ptyout_read"})
                                            THEN "live" ELSE con[e]]
        BY <1>9, <2>2 DEF Finish
      <3>2. /\ \A i \in Pipes : con'[<<p, "parent", i>>] = con[<<p, "parent", i>>]
            /\ \A n \in {"ptyin_write", "ptyout_read"} : con'[<<p, n, 0>>] = "live"
        BY <1>2, <1>4, <3>1
      <3> QED BY <1>1, <2>1, <2>2, <3>1, <3>2 DEF OpenInv, Making, LeftEarly, LeftLate
    <2>3. CASE ~handle[p].pty
      <3>1. open' = open \ {<<p, "child", i>> : i \in Stream} /\ con' = con
        BY <1>9, <2>3 DEF Finish
      <3>2. /\ \A i \in Stream : <<p, "child", i>> \notin open'
            /\ \A n, i : n # "child" => (<<p, n, i>> \in open' <=> <<p, n, i>> \in open)
        BY <3>1
      <3> QED BY <1>1, <2>1, <2>3, <3>1, <3>2 DEF OpenInv, Making, LeftEarly, LeftLate
    <2> QED BY <2>2, <2>3
  <1> QED BY <1>5, <1>6, <1>7, <1>8, <1>9, <1>10, <1>11, <1>12

\* Any step that begins a call, and any step of a call that is not exec, keeps OpenInv.
LEMMA OpenCalls ==
  ASSUME TypeOK, CallInv, ConInv, NEW p \in Proc, OpenInv(p), Next, ~RDies,
         pc \notin ExecPc
  PROVE  OpenInv(p)'
  <1> USE DEF At
  <1>0. handle \in [Proc -> Handle] /\ ConType
    BY DEF TypeOK, ConType
  <1>1. \A n, i, q, names : <<p, n, i>> \in Named(q, names) <=> p = q /\ n \in names /\ i = 0
    BY NamedIs
  <1>a. /\ LeftEarly(p)' <=> LeftEarly(p)
        /\ LeftLate(p)' <=> LeftLate(p)
        /\ Left(p)' <=> Left(p)
    BY LeftSame DEF LeftEarly, LeftLate
  <1>f. Left(p) => handle[p].mem # "none"
    BY DEF CallInv, Left
  <1>g. Left(p) => (handle'[p].pty <=> handle[p].pty)
    BY <1>f, OptionsForGood
  <1>2. \A labels : labels \subseteq ExecPc => ~Making(p, labels)
    BY DEF Making
  <1>b. ASSUME pc' \in {"idle", "ptypipe", "stdio"}, open' = open, con' = con,
               handle'[p].hProcess <=> handle[p].hProcess,
               handle'[p].ptycon <=> handle[p].ptycon
        PROVE  OpenInv(p)'
    BY <1>a, <1>g, <1>2, <1>b DEF OpenInv, Making, LeftEarly, LeftLate, ParentEnd, ChildEnd, ExecPc, EarlyPc, PtyPc
  <1>c. ASSUME pc' \notin ExecPc, open' = open, con' = con,
               handle'[p].hProcess <=> handle[p].hProcess,
               handle'[p].ptycon <=> handle[p].ptycon
        PROVE  OpenInv(p)'
    BY <1>a, <1>g, <1>2, <1>c DEF OpenInv, Making, LeftEarly, LeftLate, ParentEnd, ChildEnd, ExecPc, EarlyPc, PtyPc
  <1>d. ASSUME NEW q \in Proc, NEW code, handle' = Collected(q, code)
        PROVE  /\ handle'[p].hProcess <=> handle[p].hProcess
               /\ handle'[p].ptycon <=> handle[p].ptycon
    BY <1>0, <1>d DEF Collected, Handle
  <1>e. ASSUME NEW q \in Proc, Freed(q), con' = con, pc' = "idle" PROVE OpenInv(p)'
    <2>1. CASE p # q
      <3>1. handle'[p] = handle[p] /\ \A n, i : <<p, n, i>> \in open' <=> <<p, n, i>> \in open
        BY <1>0, <1>1, <1>e, <2>1 DEF Freed
      <3>2. pc' \notin ExecPc
        BY <1>e DEF ExecPc, EarlyPc, PtyPc
      <3> QED BY <1>a, <1>e, <1>g, <1>2, <3>1, <3>2
          DEF OpenInv, Making, LeftEarly, LeftLate, ParentEnd, ChildEnd, ExecPc, EarlyPc, PtyPc
    <2>2. CASE p = q
      <3>1. ~handle'[p].hProcess /\ ~handle'[p].ptycon
        BY <1>0, <1>e, <2>2 DEF Freed, Handle
      <3>2. <<p, "hpc", 0>> \in open => handle[p].ptycon
        BY <1>2 DEF OpenInv, ExecPc, EarlyPc, PtyPc
      <3>3. \A n, i : <<p, n, i>> \in open' <=>
               /\ <<p, n, i>> \in open
               /\ ~(n = "process" /\ i = 0)
               /\ ~(n = "hpc" /\ i = 0)
        BY <1>1, <1>e, <2>2, <3>2 DEF Freed
      <3>4. pc' \notin ExecPc
        BY <1>e DEF ExecPc, EarlyPc, PtyPc
      <3> QED BY <1>a, <1>e, <1>g, <1>2, <3>1, <3>3, <3>4
          DEF OpenInv, Making, LeftEarly, LeftLate, ParentEnd, ChildEnd, ExecPc, EarlyPc, PtyPc
    <2> QED BY <2>1, <2>2
  <1>3. ASSUME NEW q \in Proc, NEW pty \in BOOLEAN, NEW cleanup \in BOOLEAN,
               ExecBegins(q, pty, cleanup)
        PROVE  OpenInv(p)'
    <2> DEFINE new == [handle[q] EXCEPT !.mem = "live", !.pty = pty, !.cleanup = cleanup]
    <2>1. handle' = [handle EXCEPT ![q] = new]
             \/ handle' = [handle EXCEPT ![q] = [new EXCEPT !.mem = "freed"]]
      BY <1>3 DEF ExecBegins
    <2>2. /\ new \in Handle
          /\ new.hProcess <=> handle[q].hProcess
          /\ new.ptycon <=> handle[q].ptycon
      BY <1>0 DEF Handle
    <2> HIDE DEF new
    <2>3. /\ handle'[p].hProcess <=> handle[p].hProcess
          /\ handle'[p].ptycon <=> handle[p].ptycon
      BY <1>0, <2>1, <2>2 DEF Handle
    <2> QED BY <1>3, <1>b, <2>3 DEF ExecBegins, Return
  <1>4. ASSUME NEW q \in Proc, GetExitStatus(q) \/ Signal(q) PROVE OpenInv(p)'
    <2>1. handle' = handle \/ handle' = Collected(q, os[q].code)
      BY <1>4 DEF GetExitStatus, Signal
    <2>2. pc' \notin ExecPc /\ open' = open /\ con' = con
      BY <1>4 DEF GetExitStatus, Signal, ExecPc, EarlyPc, PtyPc
    <2> QED BY <1>c, <1>d, <2>1, <2>2
  <1>5. ASSUME NEW q \in Proc, NEW forever \in BOOLEAN, WaitBegins(q, forever)
        PROVE  OpenInv(p)'
    BY <1>5, <1>c DEF WaitBegins, ExecPc, EarlyPc, PtyPc
  <1>6. ASSUME NEW q \in Proc, Finalizer(q) PROVE OpenInv(p)'
    BY <1>6, <1>c, <1>e DEF Finalizer, ExecPc, EarlyPc, PtyPc
  <1>7. ASSUME NEW q \in Proc, PtyClose(q) PROVE OpenInv(p)'
    <2>1. /\ handle' = [handle EXCEPT ![q].ptycon = FALSE] /\ con' = con /\ pc' = "idle"
          /\ open' = open \ Named(q, {"hpc"})
      BY <1>7 DEF PtyClose, Callable
    <2>2. /\ handle'[p].hProcess <=> handle[p].hProcess
          /\ handle'[p].ptycon <=> p # q /\ handle[p].ptycon
      BY <1>0, <2>1 DEF Handle
    <2>3. \A n, i : <<p, n, i>> \in open' <=>
             <<p, n, i>> \in open /\ ~(p = q /\ n = "hpc" /\ i = 0)
      BY <1>1, <2>1
    <2> QED BY <1>a, <1>g, <1>2, <2>1, <2>2, <2>3
        DEF OpenInv, Making, LeftEarly, LeftLate, ParentEnd, ChildEnd, ExecPc, EarlyPc, PtyPc
  <1>8. ASSUME NEW q \in Proc, ConFinalizers(q) PROVE OpenInv(p)'
    <2>1. /\ handle' = handle /\ pc' = "idle"
          /\ open' = open \ {e \in Ends(q) : con[e] = "live"}
          /\ con' = [e \in DOMAIN con |->
                        IF e \in Ends(q) /\ con[e] = "live" THEN "freed"
                        ELSE IF e \in Ends(q) /\ con[e] = "destroyed" THEN "twice" ELSE con[e]]
      BY <1>8 DEF ConFinalizers
    <2>2. \A e \in Ends(p) : e \in DOMAIN con
      BY <1>0 DEF ConType
    <2>3. \A e \in Ends(p) : con'[e] = "live" <=> con[e] = "live" /\ e \notin Ends(q)
      BY <2>1, <2>2
    <2>4. \A n, i : <<p, n, i>> \in Ends(q) => <<p, n, i>> \in Ends(p)
      BY EndsAre
    <2>5. \A n, i : n \notin {"parent", "ptyin_write", "ptyout_read"} => <<p, n, i>> \notin Ends(q)
      BY EndsAre
    <2>6. /\ \A i \in Pipes : <<p, "parent", i>> \in Ends(p)
          /\ <<p, "ptyin_write", 0>> \in Ends(p) /\ <<p, "ptyout_read", 0>> \in Ends(p)
      BY EndsAre
    <2>7. \A n, i : n \notin {"parent", "ptyin_write", "ptyout_read"} =>
             (<<p, n, i>> \in open' <=> <<p, n, i>> \in open)
      BY <2>1, <2>5
    <2>8. /\ \A i \in Pipes : <<p, "parent", i>> \in open' <=> con'[<<p, "parent", i>>] = "live"
          /\ \A n \in {"ptyin_write", "ptyout_read"} :
                /\ con'[<<p, n, 0>>] = "live" => <<p, n, 0>> \in open'
                /\ <<p, n, 0>> \in open' => <<p, n, 0>> \in open
                /\ <<p, n, 0>> \in open' /\ con'[<<p, n, 0>>] # "live" => con[<<p, n, 0>>] # "live"
      <3>1. /\ \A i \in Pipes : <<p, "parent", i>> \in open <=> con[<<p, "parent", i>>] = "live"
            /\ \A n \in {"ptyin_write", "ptyout_read"} :
                  con[<<p, n, 0>>] = "live" => <<p, n, 0>> \in open
        BY DEF OpenInv, ParentEnd
      <3> QED BY <2>1, <2>3, <2>6, <3>1
    <2> QED BY <1>a, <1>g, <1>2, <2>1, <2>7, <2>8
        DEF OpenInv, Making, LeftEarly, LeftLate, ParentEnd, ChildEnd, ExecPc, EarlyPc, PtyPc
  <1>9. CASE WaitEnds \/ WaitStops \/ Terminate
    <2>1. P \in Proc /\ pc' \notin ExecPc /\ open' = open /\ con' = con
      BY <1>9, CallsProcess
      DEF CallStep, WaitEnds, WaitStops, Terminate, Return, ExecPc, EarlyPc, PtyPc
    <2>2. handle' = handle \/ \E code : handle' = Collected(P, code)
      BY <1>9 DEF WaitEnds, WaitStops, Terminate
    <2> QED BY <1>c, <1>d, <2>1, <2>2
  <1>10. CASE Reap
    <2>1. P \in Proc /\ pc' = "idle" /\ con' = con
      BY <1>10, CallsProcess DEF CallStep, Reap, Return
    <2>2. CASE /\ handle' = [handle EXCEPT ![P].hProcess = FALSE]
               /\ open' = open \ Named(P, {"process"})
      <3>1. /\ handle'[p].hProcess <=> p # P /\ handle[p].hProcess
            /\ handle'[p].ptycon <=> handle[p].ptycon
        BY <1>0, <2>1, <2>2 DEF Handle
      <3>2. \A n, i : <<p, n, i>> \in open' <=>
               <<p, n, i>> \in open /\ ~(p = P /\ n = "process" /\ i = 0)
        BY <1>1, <2>2
      <3> QED BY <1>a, <1>g, <1>2, <2>1, <3>1, <3>2
          DEF OpenInv, Making, LeftEarly, LeftLate, ParentEnd, ChildEnd, ExecPc, EarlyPc, PtyPc
    <2> QED BY <1>10, <1>e, <2>1, <2>2 DEF Reap
  <1>11. CASE Unload
    BY <1>11, <1>c DEF Unload
  <1>12. ASSUME NEW q \in Proc, Gone(q) \/ \E code \in ExitCode : Exits(q, code)
         PROVE  OpenInv(p)'
    BY <1>12, <1>c DEF Gone, Exits, rVars
  <1> QED
    BY <1>3, <1>4, <1>5, <1>6, <1>7, <1>8, <1>9, <1>10, <1>11, <1>12
    DEF Next, CallStep, PtyPipes, PtyConsole, PtyPseudo, PtyAttr, PtyCreate, StdioCreate,
        CreateProcess, AssignJob, Resume, Finish, ExecPc, EarlyPc, PtyPc

\* A process inherits only what is open when it is created.
LEMMA HeldNext ==
  ASSUME TypeOK, CallInv, HandlesInv, Next PROVE HeldInv'
  <1> SUFFICES ASSUME NEW p \in Proc, NEW q \in Proc, p # q, NEW i \in Stream,
                      ChildEnd(p, i) \in os'[q].held, res'[p] # "thrown"
               PROVE  FALSE
    BY DEF HeldInv
  <1>0. os \in [Proc -> Os]
    BY DEF TypeOK
  <1>1. res[p] # "thrown"
    BY ThrownForGood
  <1>2. ChildEnd(p, i) \notin os[q].held
    BY <1>1 DEF HandlesInv, HeldInv
  <1>3. os'[q].held # os[q].held
    BY <1>2
  <1>4. CASE CreateProcess
    <2>1. os' = [os EXCEPT ![P].st = "suspended", ![P].held = Inheritable] /\ r = "up"
      BY <1>3, <1>4 DEF CreateProcess, Created, At
    <2>2. q = P /\ os'[q].held = Inheritable
      BY <1>0, <1>3, <2>1 DEF Os
    <2>3. ChildEnd(p, i) \in open
      BY <2>2 DEF Inheritable
    <2>4. OpenInv(p)
      BY <1>1, <2>1 DEF HandlesInv
    <2> QED BY <1>1, <2>2, <2>3, <2>4 DEF OpenInv, Making, Left
  <1>5. CASE PtyCreate
    <2>1. os' = [os EXCEPT ![P].st = "suspended", ![P].held = {}]
      BY <1>3, <1>5 DEF PtyCreate, Created
    <2> QED BY <1>0, <1>3, <2>1 DEF Os
  <1>6. CASE AssignJob
    BY <1>0, <1>3, <1>6 DEF AssignJob, Os
  <1>7. CASE Resume
    BY <1>0, <1>3, <1>7 DEF Resume, Os
  <1>8. CASE Terminate
    BY <1>0, <1>3, <1>8 DEF Terminate, Os
  <1>9. ASSUME NEW o \in Proc, Gone(o) PROVE FALSE
    BY <1>0, <1>3, <1>9 DEF Gone, Os
  <1>10. ASSUME NEW o \in Proc, NEW code \in ExitCode, Exits(o, code) PROVE FALSE
    BY <1>0, <1>3, <1>10 DEF Exits, Os
  <1>11. CASE RDies \/ Unload
    <2>1. PICK code \in {0, 1} : JobEnds(code)
      BY <1>3, <1>11 DEF RDies, Unload
    <2> QED BY <1>0, <1>3, <2>1 DEF JobEnds, Os
  <1> QED
    BY <1>3, <1>4, <1>5, <1>6, <1>7, <1>8, <1>9, <1>10, <1>11
    DEF Next, CallStep, PtyPipes, PtyConsole, PtyPseudo, PtyAttr, StdioCreate, Finish,
        WaitEnds, WaitStops, Reap, ExecBegins, WaitBegins, GetExitStatus, Signal,
        Finalizer, PtyClose, ConFinalizers

\* In the beginning no handle is open.
LEMMA HandlesInit == Init => HandlesInv
  <1> SUFFICES ASSUME Init PROVE HandlesInv
    OBVIOUS
  <1>1. ASSUME NEW p \in Proc PROVE OpenInv(p)
    <2>1. \A e \in Ends(p) : con[e] = "none"
      BY DEF Init
    <2>2. /\ \A i \in Pipes : con[<<p, "parent", i>>] = "none"
          /\ \A n \in {"ptyin_write", "ptyout_read"} : con[<<p, n, 0>>] = "none"
      BY <2>1, EndsAre
    <2> QED BY <2>2 DEF Init, OpenInv, Making, ParentEnd, ChildEnd
  <1>2. HeldInv
    BY DEF Init, HeldInv
  <1> QED BY <1>1, <1>2 DEF Init, HandlesInv

\* A step keeps the handles right.
LEMMA HandlesNext ==
  ASSUME TypeOK, CallInv, ConInv, HandlesInv, Next PROVE HandlesInv'
  <1>1. CASE RDies
    <2>1. r' = "gone" /\ open' = {}
      BY <1>1 DEF RDies
    <2> QED BY <2>1, HeldNext DEF HandlesInv
  <1>2. CASE ~RDies
    <2>1. r' = r
      BY <1>2
      DEF Next, CallStep, PtyPipes, PtyConsole, PtyPseudo, PtyAttr, PtyCreate, StdioCreate,
          CreateProcess, AssignJob, Resume, Finish, WaitEnds, WaitStops, Terminate, Reap,
          ExecBegins, WaitBegins, GetExitStatus, Signal, Finalizer, PtyClose, ConFinalizers,
          Exits, Gone, rVars, Unload
    <2>2. CASE r = "gone"
      <3>1. open' = open
        BY <1>2, <2>2
        DEF Next, CallStep, PtyPipes, PtyConsole, PtyPseudo, PtyAttr, PtyCreate, StdioCreate,
            CreateProcess, AssignJob, Resume, Finish, WaitEnds, WaitStops, Terminate, Reap,
            ExecBegins, WaitBegins, GetExitStatus, Signal, Finalizer, PtyClose, ConFinalizers,
            Exits, Gone, rVars, Unload, At, Callable
      <3> QED BY <2>1, <2>2, <3>1, HeldNext DEF HandlesInv
    <2>3. CASE r = "up"
      <3>1. ASSUME NEW p \in Proc PROVE OpenInv(p)'
        <4>1. OpenInv(p)
          BY <2>3 DEF HandlesInv
        <4>2. CASE pc \notin ExecPc
          BY <1>2, <4>1, <4>2, OpenCalls
        <4>3. CASE CallStep /\ p # P
          BY <4>1, <4>3, OthersSame, OpenSame
        <4>4. CASE CallStep /\ p = P /\ pc \in ExecPc
          BY <3>1, <4>1, <4>4, OwnConsole, OwnExec
          DEF CallStep, WaitEnds, WaitStops, Terminate, Reap, At, ExecPc, EarlyPc, PtyPc
        <4>5. CASE UNCHANGED rVars
          <5>1. (LeftEarly(p)' <=> LeftEarly(p)) /\ (LeftLate(p)' <=> LeftLate(p))
            <6>1. CASE pc \in ExecPc /\ p = P
              BY <4>5, <6>1 DEF rVars, CallInv, LeftEarly, LeftLate, Left
            <6> QED BY <6>1, LeftSame
          <5> QED BY <4>1, <4>5, <5>1, OpenSame DEF rVars, Same, Making, P
        <4> QED BY <1>2, <4>2, <4>3, <4>4, <4>5
            DEF Next, ExecBegins, WaitBegins, GetExitStatus, Signal, Finalizer, PtyClose,
                ConFinalizers, Exits, Gone, Unload, At, Callable, ExecPc, EarlyPc, PtyPc
      <3> QED BY <2>1, <2>3, <3>1, HeldNext DEF HandlesInv
    <2> QED BY <2>2, <2>3 DEF TypeOK
  <1> QED BY <1>1, <1>2

\* The handles are those the properties speak of.
LEMMA HandlesImply ==
  ASSUME TypeOK, CallInv, HandlesInv PROVE NoHandleLeak /\ PipesEnd
  <1>1. NoHandleLeak
    <2> SUFFICES ASSUME At("idle"), NEW p \in Proc
                 PROVE  /\ Owned(p) \subseteq open
                        /\ open \cap Handles(p) \subseteq Owned(p) \cup Strays(p)
      BY DEF NoHandleLeak
    <2>1. OpenInv(p) /\ pc = "idle"
      BY DEF HandlesInv, At
    <2>2. /\ \A i \in Pipes : <<p, "parent", i>> \in open <=> con[<<p, "parent", i>>] = "live"
          /\ \A i \in Stream : <<p, "child", i>> \in open => Left(p) /\ ~handle[p].pty
          /\ \A n \in {"ptyin_write", "ptyout_read"} :
                con[<<p, n, 0>>] = "live" => <<p, n, 0>> \in open
          /\ <<p, "ptyin_write", 0>> \in open =>
                con[<<p, "ptyin_write", 0>>] = "live" \/ (Left(p) /\ handle[p].pty)
          /\ <<p, "ptyout_read", 0>> \in open =>
                con[<<p, "ptyout_read", 0>>] = "live" \/ (LeftLate(p) /\ handle[p].pty)
          /\ <<p, "process", 0>> \in open <=> handle[p].hProcess
          /\ <<p, "hpc", 0>> \in open <=> handle[p].ptycon
          /\ <<p, "thread", 0>> \in open => LeftLate(p)
          /\ <<p, "ptyin_read", 0>> \in open => LeftEarly(p) /\ handle[p].pty
          /\ \A n \in {"ptyout_child", "conin"} : <<p, n, 0>> \notin open
      BY <2>1 DEF OpenInv, Making, ParentEnd, ChildEnd, LeftEarly, LeftLate
    <2>3. \A h : h \in Owned(p) <=>
             \/ h \in Ends(p) /\ con[h] = "live"
             \/ h = <<p, "process", 0>> /\ handle[p].hProcess
             \/ h = <<p, "hpc", 0>> /\ handle[p].ptycon
      BY DEF Named, Owned
    <2>4. /\ LeftLate(p) => <<p, "thread", 0>> \in Strays(p)
          /\ LeftEarly(p) /\ handle[p].pty => <<p, "ptyin_read", 0>> \in Strays(p)
          /\ Left(p) /\ handle[p].pty => <<p, "ptyin_write", 0>> \in Strays(p)
          /\ LeftLate(p) /\ handle[p].pty => <<p, "ptyout_read", 0>> \in Strays(p)
          /\ \A i \in Stream : Left(p) /\ ~handle[p].pty => <<p, "child", i>> \in Strays(p)
      BY NamedIs DEF Strays, LeftEarly, LeftLate, Left, ChildEnd
    <2>5. ASSUME NEW h \in open \cap Handles(p) PROVE h \in Owned(p) \cup Strays(p)
      BY <2>2, <2>3, <2>4, <2>5, HandlesAre, EndsAre DEF PtyName
    <2>6. ASSUME NEW h \in Owned(p) PROVE h \in open
      BY <2>2, <2>3, <2>6, EndsAre
    <2> QED BY <2>5, <2>6
  <1>2. PipesEnd
    <2> SUFFICES ASSUME NEW p \in Proc, res[p] = "ok", NEW i \in Stream
                 PROVE  /\ ChildEnd(p, i) \notin open
                        /\ \A q \in Proc \ {p} : ChildEnd(p, i) \notin os[q].held
      BY DEF PipesEnd
    <2>1. CASE r = "up"
      BY <2>1 DEF HandlesInv, HeldInv, OpenInv, Making, Left, CallInv, ExecPc, EarlyPc
    <2>2. CASE r = "gone"
      BY <2>2 DEF HandlesInv, HeldInv
    <2> QED BY <2>1, <2>2 DEF TypeOK
  <1> QED BY <1>1, <1>2

-----------------------------------------------------------------------------
(***************************************************************************)
(* The theorems.                                                           *)
(***************************************************************************)
\* All of it is inductive, together.
LEMMA Inductive == Spec => []IInv
  <1>1. Init => IInv
    BY TypeInit, CallInit, CodeInit, KillInit, ConInit, HandlesInit
    DEF IInv, KillInv, MemberInv, StdInv, Init
  <1>2. IInv /\ [Next]_vars => IInv'
    <2> SUFFICES ASSUME IInv, [Next]_vars PROVE IInv'
      OBVIOUS
    <2>1. CASE Next
      BY <2>1, TypeNext, CallNext, CodeNext, StatusNext, KillNext, MemberNext,
             StdNext, ConNext, HandlesNext
      DEF IInv, KillInv
    <2>2. CASE UNCHANGED vars
      <3> USE <2>2 DEF vars, IInv
      <3>1. TypeOK'
        BY DEF TypeOK
      <3>2. CallInv'
        BY DEF CallInv, P
      <3>3. CodeInv' /\ ExitStatusTrue' /\ HandleInv' /\ CleanupKills' /\ JobInv'
            /\ MemberInv' /\ StdInv'
        BY DEF CodeInv, ExitStatusTrue, HandleInv, CleanupKills, JobInv, MemberInv, StdInv, P
      <3>4. ConInv'
        BY DEF ConInv, P
      <3>5. \A p \in Proc : OpenInv(p)' <=> OpenInv(p)
        BY DEF OpenInv, Making, LeftEarly, LeftLate, Left, P
      <3>6. HandlesInv'
        BY <3>5 DEF HandlesInv, HeldInv
      <3> QED BY <3>1, <3>2, <3>3, <3>4, <3>6
    <2> QED BY <2>1, <2>2
  <1> QED BY <1>1, <1>2, PTL DEF Spec

\* Whatever processes, streams, exit codes and failures there are: the types are right,
\* R has its own standard handles after every call, no other process keeps a pipe from
\* ending, and the handles are open that somebody will close and no others; an exec call
\* that throws an error at one of the points that do not clean up leaves Strays open,
\* and no more than those (win/processx.c:1043-1417).
THEOREM HandlesAreRight == Spec => []Inv
  <1>1. IInv => Inv
    <2> SUFFICES ASSUME IInv PROVE Inv
      OBVIOUS
    <2>1. StdRestored
      BY DEF IInv, StdInv, StdRestored, At, TypeOK
    <2> QED BY <2>1, HandlesImply DEF IInv, Inv
  <1> QED BY <1>1, Inductive, PTL

\* A status that was collected is the one the process has ended with, for exit codes that
\* are STILL_ACTIVE too, and for a process that exits before TerminateProcess()
\* (win/processx.c:895-923, 1419-1440, 1455-1592).
THEOREM StatusesAreTrue == Spec => []ExitStatusTrue
  <1>1. IInv => ExitStatusTrue
    BY DEF IInv
  <1> QED BY <1>1, Inductive, PTL

\* A process with cleanup = TRUE does not outlive its handle, wherever exec failed; and
\* whenever R dies it outlives R only if AssignProcessToJobObject() was denied, or if the
\* job has no limits because SetInformationJobObject() had failed in an exec call that
\* threw (win/processx.c:90-153, 895-923, 1279-1287, 1385-1403).
THEOREM CleanupIsSure == Spec => []CleanupHolds
  <1>1. IInv => CleanupHolds
    BY KillImplies DEF IInv, KillInv
  <1> QED BY <1>1, Inductive, PTL
=============================================================================
