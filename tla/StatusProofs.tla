------------------------------ MODULE StatusProofs ------------------------------
(***************************************************************************)
(* What R is told about a process is true, its memory and its descriptors  *)
(* are safe, cleanup = TRUE keeps its promise, and signals go to its own   *)
(* processes only: for any number of process objects, pids and             *)
(* descriptors.                                                            *)
(***************************************************************************)
EXTENDS ProcessProofs

USE DEF kernelVars, listVars, statusVars, refVars, heldVars, signalVars, regVars

ExecLocation == {"exec_pipes", "exec_forked", "exec_weakref", "exec_read", "exec_reap"}
KillLocation == {"kill_check", "kill_term", "wait_start", "kill_waited", "kill_kill",
                 "kill_reap", "kill_cleanup"}

\* processx_exec has not returned, possibly because a finalizer interrupts it.
InExec == pc \in ExecLocation \/ (uh # NoNode /\ fh # NoNode)

\* A handle that was not made yet.
BlankInv ==
    \A h \in Handle : ref[h] = "none" =>
        kpid[h] = 0 /\ hpid[h] = 0 /\ ~ collected[h] /\ ~ xptr[h] /\ mem[h] = "none"

\* Which handles the main program works on.
HereInv ==
    /\ uh # NoNode => ref[uh] = "held"
    /\ fh # NoNode => ref[fh] = "finalized" /\ mem[fh] = "live"
    /\ InExec => uh # NoNode /\ hpid[uh] = 0
    /\ pc \in WaitLocation \cup KillLocation => uh # NoNode \/ fh # NoNode
    /\ pc \in {"alive_check", "sig_send", "sig_reap"} => uh # NoNode

\* Whoever can be reached has its memory.
MemInv ==
    /\ \A h \in Handle : ref[h] \in {"held", "garbage"} => mem[h] = "live"
    /\ \A h \in Handle : xptr[h] => mem[h] = "live"
    /\ pc = "fin_destroy" => ~ xptr[fh]

\* When a handle has a process and a pid.
ForkInv ==
    /\ \A h \in Handle : child[h] = "none" <=> kpid[h] = 0
    /\ \A h \in Handle : hpid[h] = 0 \/ hpid[h] = kpid[h]
    /\ \A h \in Handle : Listed(h) => kpid[h] # 0
    /\ pc = "exec_pipes" => kpid[uh] = 0
    /\ InExec /\ pc # "exec_pipes" => kpid[uh] # 0
    /\ pc = "exec_forked" => blocked /\ hptr = 0

HandleInv == BlankInv /\ HereInv /\ MemInv /\ ForkInv

\* The invariant holds when the package is loaded.
LEMMA InitHandles == Init => HandleInv
<1> SUFFICES ASSUME Init PROVE HandleInv
  OBVIOUS
<1>1. \A h \in Handle : ~ Listed(h)
  BY DEF Init, ListInit, Listed
<1>2. BlankInv /\ MemInv
  BY DEF Init, KernelInit, HandleInit, MainInit, BlankInv, MemInv
<1>3. HereInv /\ ForkInv
  BY <1>1 DEF Init, KernelInit, HandleInit, MainInit, SigchldInit, HereInv, ForkInv, InExec,
     ExecLocation, KillLocation, WaitLocation
<1>4. QED
  BY <1>2, <1>3 DEF HandleInv

\* What the lists can do: no node gets onto the list of children but one whose
\* process was just started.
LEMMA ListedNext ==
    ASSUME TypeInv, Next, NEW h \in Handle, Listed(h)'
    PROVE  Listed(h) \/ (h = uh /\ pc = "exec_weakref")
<1> USE DEF TypeInv, TypeOK, ListTypeOK
<1>1. CASE UNCHANGED child_list
  BY <1>1 DEF Listed
<1>2. ASSUME child_list' = <<>> PROVE FALSE
  BY <1>2 DEF Listed
<1>3. CASE ExecLinks
  <2>1. uh \in Handle
    BY <1>3 DEF ExecLinks, At, RegInv, MainTypeOK
  <2>2. /\ Len(child_list') = Len(child_list) + 1 /\ child_list'[1] = uh
        /\ \A i \in 1..Len(child_list) : child_list'[i + 1] = child_list[i]
    BY <1>3, <2>1, ConsSeq DEF ExecLinks, child_add
  <2>3. PICK j \in 1..Len(child_list') : child_list'[j] = h
    BY DEF Listed
  <2>4. Len(child_list) \in Nat
    OBVIOUS
  <2>5. CASE j = 1
    BY <1>3, <2>2, <2>3, <2>5 DEF ExecLinks, At
  <2>6. CASE j # 1
    <3>1. j - 1 \in 1..Len(child_list) /\ (j - 1) + 1 = j
      BY <2>2, <2>4, <2>6
    <3>2. child_list[j - 1] = h
      BY <2>2, <2>3, <3>1
    <3>3. QED
      BY <3>1, <3>2 DEF Listed
  <2>7. QED
    BY <2>5, <2>6
<1>4. CASE CallbackReaps
  <2>1. /\ Len(child_list') = Len(child_list) - 1
        /\ \A j \in 1..(Len(child_list) - 1) :
             child_list'[j] = IF j < hptr THEN child_list[j] ELSE child_list[j + 1]
    BY <1>4, RemoveAtSeq DEF CallbackReaps, unlink
  <2>2. PICK j \in 1..Len(child_list') : child_list'[j] = h
    BY DEF Listed
  <2>3. j \in 1..Len(child_list) /\ j + 1 \in 1..Len(child_list)
    BY <2>1
  <2>4. child_list[j] = h \/ child_list[j + 1] = h
    BY <2>1, <2>2
  <2>5. QED
    BY <2>3, <2>4 DEF Listed
<1>5. QED
  BY <1>1, <1>2, <1>3, <1>4 DEF Next, Children, Signals, Calls, Displaced, Opens, OtherOpens,
     Exec, ExecStarts, ExecFailsEarly, ExecForks, ExecMakesNode, ExecNoMemory, ExecSucceeds,
     ExecReadsErrno, ExecReaps, Wait, wait, WaitBegins, KillWaits, WaitNoPipe, WaitWoken,
     WaitSlice, WaitInterrupted, WaitChecks, WaitEnds, Kill, kill, Blocks, KillChecks,
     KillTerminates, KILL_WITH, KillWaited, KillKills, KillReaps, KillEnds, Finalizer, Drops,
     FinalizerStarts, freelist_free, FinalizerKills, FinalizerClears, FinalizerDestroys, Unload,
     UnloadStarts, UnloadRemoves, UnloadKills, UnloadFrees, UnloadEnds, AliveChecks,
     SignalTooLate, SignalReaps, is_alive, signal, SignalSends, OtherThreadTakes,
     OtherThreadForwards, SignalLost, Callback, CallbackEnters, CallbackKeeps, CallbackReturns

\* What can happen to the process of a handle in a step.
LEMMA ChildNext ==
    ASSUME TypeInv, Next, NEW h \in Handle
    PROVE  \/ child'[h] = child[h]
           \/ child[h] = "zombie" /\ child'[h] = "reaped"
           \/ child[h] \in Alive /\ child'[h] \in {"run", "failing", "zombie"}
           \/ h = uh /\ child'[h] = "init" /\ \E p \in Pid : ExecForks(p)
<1> USE DEF TypeInv, TypeOK, KernelTypeOK, HandleTypeOK
<1>1. CASE UNCHANGED child
  BY <1>1
<1>2. ASSUME NEW p, child' = Reaped(p)
      PROVE  child'[h] = child[h] \/ (child[h] = "zombie" /\ child'[h] = "reaped")
  BY <1>2 DEF Reaped
<1>3. ASSUME ForeignReaps
      PROVE  child'[h] = child[h] \/ (child[h] = "zombie" /\ child'[h] = "reaped")
  BY <1>3 DEF ForeignReaps
<1>4. CASE Children
  BY <1>4 DEF Children, ChildExec, ChildExecFails, ChildEnds, StrangerStarts, Alive
<1>5. ASSUME NEW p \in Pid, ExecForks(p)
      PROVE  child'[h] = child[h] \/ (h = uh /\ child'[h] = "init")
  BY <1>5 DEF ExecForks
<1>6. CASE Calls
  BY <1>1, <1>2, <1>5, <1>6 DEF Calls, Exec, ExecStarts, ExecFailsEarly, ExecMakesNode,
     ExecNoMemory, ExecLinks, ExecSucceeds, ExecReadsErrno, ExecReaps, Wait, wait, WaitBegins,
     KillWaits, WaitNoPipe, WaitWoken, WaitSlice, WaitInterrupted, WaitChecks, WaitEnds, Kill,
     kill, Blocks, KillChecks, KillTerminates, KILL_WITH, KillWaited, KillKills, KillReaps,
     CollectExited, KillEnds, Finalizer, Drops, FinalizerStarts, FinalizerKills,
     FinalizerClears, FinalizerDestroys, Unload, UnloadStarts, UnloadRemoves, UnloadKills,
     UnloadFrees, UnloadEnds, AliveChecks, SignalTooLate, SignalReaps, is_alive, signal,
     SignalSends
<1>7. CASE Signals
  BY <1>1, <1>2, <1>3, <1>7 DEF Signals, OtherThreadTakes, OtherThreadForwards, SignalLost,
     Callback, CallbackEnters, CallbackKeeps, CallbackReaps, CallbackReturns
<1>8. QED
  BY <1>1, <1>4, <1>6, <1>7 DEF Next, Displaced, Opens, OtherOpens

\* The status of h is collected, after waitpid() of pid p.
Collects(h, p) ==
    /\ ~ WaitRunning(p) /\ child' = Reaped(p)
    /\ collect_exit_status(h, IF WaitExited(p) THEN Wstat(p) ELSE NA)
    /\ UNCHANGED <<kpid, hpid, fate, ref, xptr, mem>>

\* Who collects: a call of R, a kill, or the SIGCHLD handler.
Collector(h, p) ==
    \/ /\ pc \in {"alive_check", "sig_reap"} /\ h = uh /\ p = hpid[h] /\ hptr = 0
       /\ owner' = Closed(CollectCloses(h)) /\ UNCHANGED waitpipe
    \/ /\ pc \in {"kill_check", "kill_reap"} /\ h = Cur /\ p = hpid[h] /\ hptr = 0
       /\ owner' = Closed(CollectCloses(h)) /\ UNCHANGED waitpipe
    \/ /\ hptr \in 1..Len(child_list) /\ h = child_list[hptr] /\ p = kpid[h] /\ HandleFound(h)
       /\ owner' = Closed(CollectCloses(h) \cup {waitpipe[h]})
       /\ waitpipe' = [waitpipe EXCEPT ![h] = -1]
       /\ UNCHANGED <<pc, uh, fh>>

\* Nobody else sets the status.
LEMMA StatusNext ==
    ASSUME Next
    PROVE  UNCHANGED <<collected, exitcode>> \/ \E h, p : Collector(h, p) /\ Collects(h, p)
<1>1. CASE AliveChecks
  BY <1>1 DEF AliveChecks, CollectExited, Collects, Collector, At, MainRuns
<1>2. CASE SignalReaps
  BY <1>2 DEF SignalReaps, WaitECHILD, Collects, Collector, At, MainRuns
<1>3. ASSUME NEW g, KillChecks(g)
      PROVE  UNCHANGED <<collected, exitcode>> \/ \E h, p : Collector(h, p) /\ Collects(h, p)
  BY <1>3 DEF KillChecks, WaitECHILD, Collects, Collector, At, MainRuns
<1>4. CASE KillReaps
  BY <1>4 DEF KillReaps, CollectExited, Collects, Collector, At, MainRuns
<1>5. CASE CallbackReaps /\ UNCHANGED <<pc, regVars>>
  BY <1>5 DEF CallbackReaps, Collects, Collector
<1>6. CASE UNCHANGED statusVars
  BY <1>6
<1>7. QED
  BY <1>1, <1>2, <1>3, <1>4, <1>5, <1>6 DEF Next, Children, Signals, Calls, Displaced, Opens,
     Exec, ExecStarts, make_handle, ExecFailsEarly, ExecForks, ExecMakesNode, ExecNoMemory,
     ExecLinks, ExecSucceeds, ExecReadsErrno, ExecReaps, Wait, wait, WaitBegins, KillWaits,
     WaitNoPipe, WaitWoken, WaitSlice, WaitInterrupted, WaitChecks, WaitEnds, Kill, kill,
     Blocks, KillTerminates, KILL_WITH, KillWaited, KillKills, KillEnds, Finalizer, Drops,
     FinalizerStarts, FinalizerKills, FinalizerClears, FinalizerDestroys, Unload, UnloadStarts,
     UnloadRemoves, UnloadKills, UnloadFrees, UnloadEnds, SignalTooLate, is_alive, signal,
     SignalSends, OtherThreadTakes, OtherThreadForwards, SignalLost, Callback, CallbackEnters,
     CallbackKeeps, CallbackReturns

\* What happens to the other fields of the handles.
LEMMA FieldsNext ==
    ASSUME Next
    PROVE  \/ UNCHANGED <<ref, xptr, mem, kpid, hpid>>
           \/ \E h \in Handle, cl \in BOOLEAN : ExecStarts(h, cl)
           \/ ExecFailsEarly \/ ExecSucceeds \/ ExecReaps
           \/ \E p \in Pid : ExecForks(p)
           \/ \E f \in Fd \cup {-1} : ExecNoMemory(f)
           \/ \E h \in Handle : Drops(h) \/ FinalizerStarts(h)
           \/ FinalizerClears \/ FinalizerDestroys \/ UnloadFrees
  BY DEF Next, Children, ChildExec, ChildExecFails, ChildEnds, StrangerStarts, Signals, Calls,
     Displaced, Opens, OtherOpens, Exec, ExecMakesNode, ExecLinks, ExecReadsErrno, Wait, wait,
     WaitBegins, KillWaits, WaitNoPipe, WaitWoken, WaitSlice, WaitInterrupted, WaitChecks,
     WaitEnds, Kill, kill, Blocks, KillChecks, KillReaps, KillTerminates, KILL_WITH, KillWaited,
     KillKills, KillEnds, Finalizer, FinalizerKills, Unload, UnloadStarts, UnloadRemoves,
     UnloadKills, UnloadEnds, AliveChecks, SignalReaps, SignalTooLate, is_alive, signal,
     SignalSends, OtherThreadTakes, OtherThreadForwards, SignalLost, Callback, CallbackEnters,
     CallbackKeeps, CallbackReaps, CallbackReturns

---------------------------------------------------------------------------
(* Handles *)

\* A step that collects collects the status of a handle that was made.
LEMMA CollectorKnown ==
    ASSUME TypeInv, HandleInv, NEW h, NEW p, Collector(h, p)
    PROVE  h \in Handle /\ ref[h] # "none" /\ mem[h] = "live"
<1>1. CASE pc \in {"alive_check", "sig_reap"} /\ h = uh
  BY <1>1 DEF TypeInv, TypeOK, MainTypeOK, HandleInv, HereInv, MemInv
<1>2. CASE pc \in {"kill_check", "kill_reap"} /\ h = Cur
  <2>1. (h = fh /\ fh # NoNode) \/ (h = uh /\ uh # NoNode)
    BY <1>2 DEF Cur, HandleInv, HereInv, KillLocation
  <2>2. QED
    BY <2>1 DEF TypeInv, TypeOK, MainTypeOK, HandleInv, HereInv, MemInv
<1>3. CASE hptr \in 1..Len(child_list) /\ h = child_list[hptr] /\ HandleFound(h)
  <2>1. h \in Handle /\ Listed(h)
    BY <1>3 DEF TypeInv, TypeOK, ListTypeOK, Listed
  <2>2. QED
    BY <1>3, <2>1 DEF HandleInv, ForkInv, BlankInv, MemInv, HandleFound
<1>4. QED
  BY <1>1, <1>2, <1>3 DEF Collector

\* Handles are blank until processx__make_handle.
LEMMA BlankNext == ASSUME TypeInv, CtlInv, HandleInv, Next PROVE BlankInv'
<1> USE DEF TypeInv, TypeOK, HandleTypeOK, KernelTypeOK
<1>1. ASSUME NEW h \in Handle, ref[h] = "none" PROVE ~ collected'[h]
  <2>1. ~ collected[h]
    BY <1>1 DEF HandleInv, BlankInv
  <2>2. ASSUME NEW g, NEW p, Collector(g, p), Collects(g, p) PROVE ~ collected'[h]
    <3>1. g # h
      BY <1>1, <2>2, CollectorKnown
    <3>2. QED
      BY <2>1, <2>2, <3>1 DEF Collects, collect_exit_status
  <2>3. QED
    BY <2>1, <2>2, StatusNext
<1> DEFINE Still(h) == /\ ref[h] = "none" /\ (xptr'[h] => xptr[h])
                      /\ mem'[h] = mem[h] /\ kpid'[h] = kpid[h] /\ hpid'[h] = hpid[h]
<1>2. ASSUME NEW h \in Handle, ref'[h] = "none"
      PROVE  Still(h)
  <2>1. CASE UNCHANGED <<ref, xptr, mem, kpid, hpid>>
    BY <1>2, <2>1
  <2>2. ASSUME NEW g \in Handle, NEW cl \in BOOLEAN, ExecStarts(g, cl)
        PROVE  Still(h)
    BY <1>2, <2>2 DEF ExecStarts, make_handle
  <2>3. CASE ExecFailsEarly \/ ExecReaps \/ \E f \in Fd \cup {-1} : ExecNoMemory(f)
    BY <1>2, <2>3 DEF ExecFailsEarly, ExecReaps, ExecNoMemory, ExecThrows
  <2>4. CASE ExecSucceeds \/ \E p \in Pid : ExecForks(p)
    <3>1. pc \in {"exec_read", "exec_pipes"}
      BY <2>4 DEF ExecSucceeds, ExecForks, At
    <3>2. uh # NoNode /\ ref[uh] = "held" /\ ref'[h] = ref[h]
      BY <2>4, <3>1 DEF HandleInv, HereInv, InExec, ExecLocation, ExecSucceeds, ExecForks
    <3>3. h # uh
      BY <1>2, <3>2
    <3>4. QED
      BY <1>2, <2>4, <3>2, <3>3 DEF ExecSucceeds, ExecForks
  <2>5. ASSUME NEW g \in Handle, Drops(g) \/ FinalizerStarts(g)
        PROVE  Still(h)
    BY <1>2, <2>5 DEF Drops, FinalizerStarts
  <2>6. CASE FinalizerClears \/ FinalizerDestroys
    <3>1. fh # NoNode /\ ref'[h] = ref[h]
      BY <2>6 DEF FinalizerClears, FinalizerDestroys, CtlInv, At
    <3>2. h # fh
      BY <1>2, <3>1 DEF HandleInv, HereInv
    <3>3. QED
      BY <1>2, <2>6, <3>1, <3>2 DEF FinalizerClears, FinalizerDestroys, handle_destroy
  <2>7. CASE UnloadFrees
    BY <1>2, <2>7 DEF UnloadFrees
  <2>8. QED
    BY <2>1, <2>2, <2>3, <2>4, <2>5, <2>6, <2>7, FieldsNext
<1>3. QED
  BY <1>1, <1>2 DEF HandleInv, BlankInv

\* The main program works on handles that exist.
LEMMA HereNext == ASSUME TypeInv, CtlInv, HandleInv, Next PROVE HereInv'
<1> USE DEF TypeInv, TypeOK, HandleTypeOK, KernelTypeOK, HandleInv, HereInv, InExec,
        ExecLocation, KillLocation, WaitLocation, At, Goto, CtlInv, FinLocation, Return
<1>1. CASE UNCHANGED <<ref, mem, hpid, pc, uh, fh>>
  BY <1>1
<1>2. CASE Exec
  <2>1. ASSUME NEW h \in Handle, NEW cl \in BOOLEAN, ExecStarts(h, cl) PROVE HereInv'
    BY <2>1, NoNodeAssumption DEF ExecStarts, make_handle, InR, BlankInv
  <2>2. ASSUME ExecFailsEarly \/ ExecReaps \/ \E f \in Fd \cup {-1} : ExecNoMemory(f)
        PROVE  HereInv'
    BY <2>2 DEF ExecFailsEarly, ExecReaps, ExecNoMemory, ExecOpensPty
  <2>3. ASSUME ExecSucceeds PROVE HereInv'
    BY <2>3 DEF ExecSucceeds
  <2>4. ASSUME \/ \E p \in Pid : ExecForks(p)
               \/ \E f \in Fd \cup {-1} : ExecMakesNode(f)
               \/ ExecLinks \/ ExecReadsErrno
        PROVE HereInv'
    BY <2>4 DEF ExecForks, ExecMakesNode, ExecOpensPty, ExecLinks, ExecReadsErrno
  <2>5. QED
    BY <1>2, <2>1, <2>2, <2>3, <2>4 DEF Exec
<1>3. ASSUME NEW h \in Handle, NEW l, Blocks(h, l),
             l \in {"alive_check", "sig_send", "kill_check"}
      PROVE  HereInv'
  BY <1>3, NoNodeAssumption DEF Blocks, Called, InR
<1>4. CASE Wait
  <2>1. ASSUME NEW h \in Handle, NEW f, NEW t, wait(h, f, t) PROVE HereInv'
    BY <2>1, NoNodeAssumption DEF wait, WaitBegins, Called, InR
  <2>2. ASSUME NEW f, NEW t, KillWaits(f, t) PROVE HereInv'
    BY <2>2 DEF KillWaits, WaitBegins
  <2>3. ASSUME WaitNoPipe PROVE HereInv'
    BY <2>3 DEF WaitNoPipe, Called, InR
  <2>4. ASSUME WaitWoken \/ WaitSlice \/ WaitChecks PROVE HereInv'
    BY <2>4 DEF WaitWoken, WaitSlice, WaitChecks
  <2>5. ASSUME WaitInterrupted \/ WaitEnds PROVE HereInv'
    BY <2>5 DEF WaitInterrupted, WaitEnds
  <2>6. QED
    BY <1>4, <2>1, <2>2, <2>3, <2>4, <2>5 DEF Wait
<1>5. CASE Kill
  <2>1. ASSUME NEW h \in Handle, kill(h) PROVE HereInv'
    BY <2>1, <1>3 DEF kill
  <2>2. ASSUME NEW g, KillChecks(g) PROVE HereInv'
    BY <2>2 DEF KillChecks
  <2>3. ASSUME KillTerminates \/ KillKills PROVE HereInv'
    BY <2>3 DEF KillTerminates, KillKills, KILL_WITH
  <2>4. ASSUME KillWaited \/ KillReaps PROVE HereInv'
    BY <2>4 DEF KillWaited, KillReaps
  <2>5. ASSUME KillEnds PROVE HereInv'
    BY <2>5 DEF KillEnds
  <2>6. QED
    BY <1>5, <2>1, <2>2, <2>3, <2>4, <2>5 DEF Kill
<1>6. CASE Finalizer
  <2>1. ASSUME NEW h \in Handle, Drops(h) PROVE HereInv'
    BY <2>1 DEF Drops, Called, InR
  <2>2. ASSUME NEW h \in Handle, FinalizerStarts(h) PROVE HereInv'
    BY <2>2, NoNodeAssumption DEF FinalizerStarts, MemInv
  <2>3. ASSUME FinalizerKills \/ FinalizerClears PROVE HereInv'
    BY <2>3 DEF FinalizerKills, FinalizerClears
  <2>4. ASSUME FinalizerDestroys PROVE HereInv'
    BY <2>4 DEF FinalizerDestroys
  <2>5. QED
    BY <1>6, <2>1, <2>2, <2>3, <2>4 DEF Finalizer
<1>7. CASE Unload
  BY <1>7 DEF Unload, UnloadStarts, UnloadRemoves, UnloadKills, UnloadFrees, UnloadEnds, InR
<1>8. CASE \/ AliveChecks \/ SignalTooLate \/ SignalReaps
           \/ \E h \in Handle : is_alive(h) \/ signal(h)
           \/ \E sig \in Signal : SignalSends(sig)
  <2>1. ASSUME NEW h \in Handle, is_alive(h) \/ signal(h) PROVE HereInv'
    BY <2>1, <1>3 DEF is_alive, signal
  <2>2. ASSUME AliveChecks \/ SignalTooLate \/ SignalReaps PROVE HereInv'
    BY <2>2 DEF AliveChecks, SignalTooLate, SignalReaps
  <2>3. ASSUME NEW sig, SignalSends(sig) PROVE HereInv'
    BY <2>3 DEF SignalSends
  <2>4. QED
    BY <1>8, <2>1, <2>2, <2>3
<1>9. CASE Children \/ Signals \/ Displaced \/ \E f \in Fd : Opens(f)
  BY <1>1, <1>9 DEF Children, Signals, OtherThreadTakes, OtherThreadForwards, SignalLost,
     Callback, CallbackEnters, CallbackKeeps, CallbackReaps, CallbackReturns, Displaced, Opens
<1>10. QED
  BY <1>2, <1>4, <1>5, <1>6, <1>7, <1>8, <1>9 DEF Next, Calls

\* A handle that the external pointer leads to is not freed.
LEMMA MemNext == ASSUME TypeInv, CtlInv, HandleInv, Next PROVE MemInv'
<1> USE DEF TypeInv, TypeOK, HandleTypeOK, HandleInv, MemInv
<1>0. pc' = "fin_destroy" => FinalizerClears \/ UNCHANGED <<pc, fh>>
  BY DEF Next, Calls, At, Goto, Return, Children, Signals, Displaced, Opens, Exec, ExecStarts,
     ExecFailsEarly, ExecForks, ExecMakesNode, ExecOpensPty, ExecNoMemory, ExecLinks,
     ExecSucceeds, ExecReadsErrno, ExecReaps, Wait, wait, WaitBegins, KillWaits, WaitNoPipe,
     WaitWoken, WaitSlice, WaitInterrupted, WaitChecks, WaitEnds, Kill, kill, Blocks,
     KillChecks, KillTerminates, KILL_WITH, KillWaited, KillKills, KillReaps, KillEnds,
     Finalizer, Drops, FinalizerStarts, FinalizerKills, FinalizerDestroys, Unload,
     UnloadStarts, UnloadRemoves, UnloadKills, UnloadFrees, UnloadEnds, AliveChecks,
     SignalTooLate, SignalReaps, is_alive, signal, SignalSends
<1>1. CASE UNCHANGED <<ref, xptr, mem, kpid, hpid>>
  <2>1. CASE FinalizerClears
    <3>1. fh \in Handle
      BY <2>1 DEF FinalizerClears, CtlInv, At, MainTypeOK
    <3>2. ~ xptr'[fh] /\ fh' = fh
      BY <2>1, <3>1 DEF FinalizerClears
    <3>3. QED
      BY <1>1, <3>2
  <2>2. QED
    BY <1>0, <1>1, <2>1
<1>2. ASSUME NEW h \in Handle, NEW cl \in BOOLEAN, ExecStarts(h, cl) PROVE MemInv'
  BY <1>2 DEF ExecStarts, make_handle, Goto
<1>3. CASE ExecFailsEarly \/ ExecReaps \/ \E f \in Fd \cup {-1} : ExecNoMemory(f)
  <2>1. pc \in ExecLocation /\ pc' = "idle" /\ UNCHANGED <<xptr, mem>>
        /\ ref' = [ref EXCEPT ![uh] = "garbage"]
    BY <1>3 DEF ExecFailsEarly, ExecReaps, ExecNoMemory, ExecOpensPty, ExecThrows, Return, At,
       ExecLocation
  <2>2. mem[uh] = "live" /\ uh \in Handle
    BY <2>1 DEF InExec, HereInv, MainTypeOK
  <2>3. QED
    BY <2>1, <2>2
<1>4. CASE ExecSucceeds \/ \E p \in Pid : ExecForks(p)
  BY <1>4 DEF ExecSucceeds, ExecForks, Return, Goto
<1>5. ASSUME NEW h \in Handle, Drops(h) \/ FinalizerStarts(h) PROVE MemInv'
  BY <1>0, <1>5 DEF Drops, FinalizerStarts, FinalizerClears, Called
<1>6. CASE FinalizerClears
  BY <1>6 DEF FinalizerClears, Goto, CtlInv, At, MainTypeOK
<1>7. CASE FinalizerDestroys
  <2>1. fh \in Handle /\ ref[fh] = "finalized" /\ ~ xptr[fh]
    BY <1>7 DEF FinalizerDestroys, At, CtlInv, HereInv, MainTypeOK
  <2>2. QED
    BY <1>7, <2>1 DEF FinalizerDestroys, handle_destroy, Goto
<1>8. CASE UnloadFrees
  BY <1>8 DEF UnloadFrees, Goto
<1>9. QED
  BY <1>1, <1>2, <1>3, <1>4, <1>5, <1>6, <1>7, <1>8, FieldsNext

\* processx_exec is entered by ExecStarts only, and goes on with the same handle when a
\* finalizer that interrupted it is over.
LEMMA InExecNext ==
    ASSUME TypeInv, CtlInv, HandleInv, Next, InExec',
           ~ \E h \in Handle, cl \in BOOLEAN : ExecStarts(h, cl)
    PROVE  InExec /\ uh' = uh /\ (pc = "exec_pipes" => pc' = "exec_pipes" \/ pc' = "exec_forked")
<1> USE DEF InExec, ExecLocation, CtlInv, FinLocation, WaitLocation, At, Goto, Return
<1>1. CASE UNCHANGED <<pc, uh, fh>>
  BY <1>1
<1>2. CASE Exec
  BY <1>2 DEF Exec, ExecFailsEarly, ExecForks, ExecMakesNode, ExecOpensPty, ExecNoMemory,
     ExecLinks, ExecSucceeds, ExecReadsErrno, ExecReaps
<1>3. ASSUME NEW h, NEW l \in {"alive_check", "sig_send", "kill_check"}, Blocks(h, l)
      PROVE  FALSE
  BY <1>3 DEF Blocks, Called, InR
<1>4. CASE Wait
  BY <1>4 DEF Wait, wait, WaitBegins, KillWaits, WaitNoPipe, WaitWoken, WaitSlice,
     WaitInterrupted, WaitChecks, WaitEnds, Called, InR
<1>5. CASE Kill
  BY <1>3, <1>5 DEF Kill, kill, KillChecks, KillTerminates, KILL_WITH, KillWaited, KillKills,
     KillReaps, KillEnds
<1>6. CASE Finalizer
  BY <1>6, NoNodeAssumption DEF Finalizer, Drops, FinalizerStarts, FinalizerKills,
     FinalizerClears, FinalizerDestroys
<1>7. CASE Unload
  BY <1>7 DEF Unload, UnloadStarts, UnloadRemoves, UnloadKills, UnloadFrees, UnloadEnds, InR
<1>8. CASE \/ AliveChecks \/ SignalTooLate \/ SignalReaps
           \/ \E h \in Handle : is_alive(h) \/ signal(h)
           \/ \E sig \in Signal : SignalSends(sig)
  BY <1>3, <1>8 DEF is_alive, signal, AliveChecks, SignalTooLate, SignalReaps, SignalSends
<1>9. CASE Children \/ Signals \/ Displaced \/ \E f \in Fd : Opens(f)
  BY <1>1, <1>9 DEF Children, Signals, Displaced, Opens
<1>10. QED
  BY <1>2, <1>4, <1>5, <1>6, <1>7, <1>8, <1>9 DEF Next, Calls

\* The locations before and after fork() are reached in one way; after it SIGCHLD is
\* blocked.
LEMMA LocationNext ==
    ASSUME TypeInv, CtlInv, HandleInv, Next, ~ \E p \in Pid : ExecForks(p),
           ~ \E h \in Handle, cl \in BOOLEAN : ExecStarts(h, cl)
    PROVE  /\ pc' = "exec_pipes" => pc = "exec_pipes"
           /\ pc' = "exec_forked" => pc = "exec_forked" /\ blocked' /\ hptr' = 0
<1> USE DEF At, Goto, Return, HandleInv, ForkInv
<1>1. CASE Calls
  BY <1>1 DEF Calls, Exec, ExecFailsEarly, ExecMakesNode, ExecOpensPty, ExecNoMemory, ExecLinks,
     ExecSucceeds, ExecReadsErrno, ExecReaps, Wait, wait, WaitBegins, KillWaits, WaitNoPipe,
     WaitWoken, WaitSlice, WaitInterrupted, WaitChecks, WaitEnds, Kill, kill, Blocks,
     KillChecks, KillTerminates, KILL_WITH, KillWaited, KillKills, KillReaps, KillEnds,
     Finalizer, Drops, FinalizerStarts, FinalizerKills, FinalizerClears, FinalizerDestroys,
     Unload, UnloadStarts, UnloadRemoves, UnloadKills, UnloadFrees, UnloadEnds, AliveChecks,
     SignalTooLate, SignalReaps, is_alive, signal, SignalSends, Called, InR
<1>2. CASE Signals
  BY <1>2 DEF Signals, OtherThreadTakes, OtherThreadForwards, SignalLost, Callback,
     CallbackEnters, CallbackKeeps, CallbackReaps, CallbackReturns, Deliverable
<1>3. CASE Children \/ Displaced \/ \E f \in Fd : Opens(f)
  BY <1>3 DEF Children, Displaced, Opens
<1>4. QED
  BY <1>1, <1>2, <1>3 DEF Next

\* Handles get their process and their pid in processx_exec only.
LEMMA ForkNext == ASSUME TypeInv, CtlInv, HandleInv, Next PROVE ForkInv'
<1> USE DEF TypeInv, TypeOK, HandleTypeOK, KernelTypeOK, HandleInv
<1>1. ASSUME NEW p \in Pid, ExecForks(p) PROVE ForkInv'
  <2>1. uh \in Handle /\ kpid[uh] = 0 /\ pc = "exec_pipes" /\ p # 0 /\ hptr = 0 /\ hpid[uh] = 0
    BY <1>1, PidAssumption DEF ExecForks, At, MainRuns, RegInv, MainTypeOK, ForkInv, HereInv,
       InExec, ExecLocation
  <2>2. \A h \in Handle : Listed(h)' => Listed(h)
    BY <1>1 DEF ExecForks, Listed
  <2>3. fh = NoNode
    BY <2>1 DEF CtlInv, FinLocation, WaitLocation
  <2>4. QED
    BY <1>1, <2>1, <2>2, <2>3 DEF ExecForks, ForkInv, Goto, InExec, ExecLocation
<1>2. ASSUME ~ \E p \in Pid : ExecForks(p)
      PROVE  UNCHANGED kpid /\ \A h \in Handle : child'[h] = "none" <=> child[h] = "none"
  <2>1. UNCHANGED kpid
    BY <1>2, FieldsNext DEF ExecStarts, ExecFailsEarly, ExecSucceeds, ExecReaps, ExecNoMemory,
       Drops, FinalizerStarts, FinalizerClears, FinalizerDestroys, UnloadFrees
  <2>2. QED
    BY <1>2, <2>1, ChildNext DEF Alive
<1>3. ASSUME ~ \E p \in Pid : ExecForks(p)
      PROVE  \/ UNCHANGED hpid
             \/ ExecSucceeds /\ hpid' = [hpid EXCEPT ![uh] = kpid[uh]]
  BY <1>3, FieldsNext DEF ExecStarts, make_handle, ExecFailsEarly, ExecSucceeds, ExecReaps,
     ExecNoMemory, Drops, FinalizerStarts, FinalizerClears, FinalizerDestroys, UnloadFrees
<1>4. ASSUME ~ \E p \in Pid : ExecForks(p)
      PROVE  \A h \in Handle : hpid'[h] = 0 \/ hpid'[h] = kpid'[h]
  BY <1>2, <1>3, <1>4 DEF ForkInv
<1>5. ASSUME ~ \E p \in Pid : ExecForks(p), NEW h \in Handle, Listed(h)' PROVE kpid'[h] # 0
  <2>1. Listed(h) \/ (h = uh /\ pc = "exec_weakref")
    BY <1>5, ListedNext
  <2>2. kpid[h] # 0
    BY <2>1 DEF ForkInv, InExec, ExecLocation
  <2>3. QED
    BY <1>2, <1>5, <2>2
<1>6. ASSUME NEW h \in Handle, NEW cl \in BOOLEAN, ExecStarts(h, cl)
      PROVE  /\ pc' = "exec_pipes" => kpid'[uh'] = 0
             /\ InExec' /\ pc' # "exec_pipes" => kpid'[uh'] # 0
             /\ pc' = "exec_forked" => blocked' /\ hptr' = 0
  <2>1. fh = NoNode /\ kpid[h] = 0 /\ kpid' = kpid /\ uh' = h /\ fh' = fh /\ pc' = "exec_pipes"
    BY <1>6 DEF ExecStarts, InR, At, CtlInv, FinLocation, WaitLocation, BlankInv, Goto
  <2>2. QED
    BY <2>1 DEF InExec, ExecLocation
<1>7. ASSUME ~ \E p \in Pid : ExecForks(p), ~ \E h \in Handle, cl \in BOOLEAN : ExecStarts(h, cl)
      PROVE  /\ pc' = "exec_pipes" => kpid'[uh'] = 0
             /\ InExec' /\ pc' # "exec_pipes" => kpid'[uh'] # 0
             /\ pc' = "exec_forked" => blocked' /\ hptr' = 0
  <2>1. InExec' => InExec /\ uh' = uh
        /\ (pc = "exec_pipes" => pc' = "exec_pipes" \/ pc' = "exec_forked")
    BY <1>7, InExecNext
  <2>2. pc' = "exec_pipes" => pc = "exec_pipes"
    BY <1>7, LocationNext
  <2>3. pc' = "exec_forked" => pc = "exec_forked" /\ blocked' /\ hptr' = 0
    BY <1>7, LocationNext
  <2>4. InExec' /\ pc' # "exec_pipes" => pc # "exec_pipes"
    BY <2>1, <2>3
  <2>5. pc' = "exec_pipes" => InExec'
    BY DEF InExec, ExecLocation
  <2>6. QED
    BY <1>2, <1>7, <2>1, <2>2, <2>3, <2>4, <2>5 DEF ForkInv
<1>8. CASE ~ \E p \in Pid : ExecForks(p)
  <2>1. /\ pc' = "exec_pipes" => kpid'[uh'] = 0
        /\ InExec' /\ pc' # "exec_pipes" => kpid'[uh'] # 0
        /\ pc' = "exec_forked" => blocked' /\ hptr' = 0
    BY <1>6, <1>7, <1>8
  <2>2. \A h \in Handle : child'[h] = "none" <=> kpid'[h] = 0
    BY <1>2, <1>8 DEF ForkInv
  <2>3. QED
    BY <1>4, <1>5, <1>8, <2>1, <2>2 DEF ForkInv
<1>9. QED
  BY <1>1, <1>8

\* All of it.
LEMMA NextHandles == ASSUME TypeInv, CtlInv, HandleInv, [Next]_vars PROVE HandleInv'
<1>1. CASE Next
  BY <1>1, BlankNext, HereNext, MemNext, ForkNext DEF HandleInv
<1>2. CASE UNCHANGED vars
  <2>1. BlankInv' /\ MemInv'
    BY <1>2 DEF vars, HandleInv, BlankInv, MemInv
  <2>2. HereInv' /\ ForkInv'
    BY <1>2 DEF vars, HandleInv, HereInv, ForkInv, InExec, Listed
  <2>3. QED
    BY <2>1, <2>2 DEF HandleInv
<1>3. QED
  BY <1>1, <1>2

\* The SIGCHLD handler never works on a handle that was freed, whatever happens around it:
\* the external pointer is cleared before the memory is freed (processx.c:389-392,
\* sigchld.c:70-75).
THEOREM HandlerIsSafe == Spec => []HandlerUsesLiveHandle
<1> DEFINE I == TypeInv /\ CtlInv /\ HandleInv
<1>1. Init => I
  BY InitTypes, InitControl, InitHandles
<1>2. I /\ [Next]_vars => I'
  BY NextTypes, NextControl, NextHandles
<1>3. I => HandlerUsesLiveHandle
  <2>1. ASSUME I, hptr \in 1..Len(child_list) PROVE child_list[hptr] \in Handle
    BY <2>1 DEF TypeInv, TypeOK, ListTypeOK
  <2>2. QED
    BY <2>1 DEF HandlerUsesLiveHandle, HandleInv, MemInv, HandleFound
<1>4. QED
  BY <1>1, <1>2, <1>3, PTL DEF Spec

---------------------------------------------------------------------------
(* Exit statuses *)

\* If pids are not handed out again, a pid stands for one process.
PidUnique == \A g, h \in Handle : kpid[g] = kpid[h] /\ kpid[g] # 0 => g = h

\* A status is collected when the process is over; also while processx_exec waits for the
\* child, when the handle does not have its pid yet.
EndedInv ==
    /\ \A h \in Handle : collected[h] /\ hpid[h] # 0 => child[h] = "reaped"
    /\ InExec /\ collected[uh] => child[uh] = "reaped"

\* A status that was collected is NA or final.
StatusInv ==
    \A h \in Handle : collected[h] =>
        exitcode[h] = NA \/ (exitcode[h] = fate[h] /\ child[h] \notin Alive)

\* They hold in the beginning.
LEMMA InitStatus == Init => PidUnique /\ EndedInv /\ StatusInv
  BY DEF Init, KernelInit, HandleInit, MainInit, PidUnique, EndedInv, StatusInv, InExec,
     ExecLocation

\* How a process ended is decided once.
LEMMA FateNext ==
    ASSUME TypeInv, Next, NEW h \in Handle
    PROVE  fate'[h] = fate[h] \/ child[h] \in Alive
<1>1. CASE UNCHANGED fate
  BY <1>1
<1>2. ASSUME NEW g \in Handle, NEW s \in ExitCode, ChildEnds(g, s)
      PROVE  fate'[h] = fate[h] \/ child[h] \in Alive
  BY <1>2 DEF ChildEnds, TypeInv, TypeOK, KernelTypeOK
<1>3. QED
  BY <1>1, <1>2 DEF Next, Children, ChildExec, ChildExecFails, StrangerStarts, Signals, Calls,
     Displaced, Opens, OtherOpens, Exec, ExecStarts, ExecFailsEarly, ExecForks, ExecMakesNode,
     ExecNoMemory, ExecLinks, ExecSucceeds, ExecReadsErrno, ExecReaps, Wait, wait, WaitBegins,
     KillWaits, WaitNoPipe, WaitWoken, WaitSlice, WaitInterrupted, WaitChecks, WaitEnds, Kill,
     kill, Blocks, KillChecks, KillTerminates, KILL_WITH, KillWaited, KillKills, KillReaps,
     KillEnds, Finalizer, Drops, FinalizerStarts, FinalizerKills, FinalizerClears,
     FinalizerDestroys, Unload, UnloadStarts, UnloadRemoves, UnloadKills, UnloadFrees,
     UnloadEnds, AliveChecks, SignalTooLate, SignalReaps, is_alive, signal, SignalSends,
     OtherThreadTakes, OtherThreadForwards, SignalLost, Callback, CallbackEnters,
     CallbackKeeps, CallbackReaps, CallbackReturns

\* A process that is over stays over.
LEMMA OverForGood ==
    ASSUME TypeInv, CtlInv, HandleInv, Next, NEW h \in Handle
    PROVE  /\ child[h] = "reaped" => child'[h] = "reaped"
           /\ child[h] \notin Alive /\ kpid[h] # 0 => child'[h] \notin Alive /\ kpid'[h] # 0
           /\ child[h] \notin Alive /\ h # uh => child'[h] \notin Alive
<1> USE DEF HandleInv, ForkInv
<1>1. ASSUME NEW p \in Pid, ExecForks(p) PROVE kpid[uh] = 0 /\ uh \in Handle
  BY <1>1 DEF ExecForks, At, TypeInv, TypeOK, RegInv, MainTypeOK
<1>2. child[h] # "none" /\ h = uh => ~ \E p \in Pid : ExecForks(p)
  BY <1>1
<1>3. child[h] \notin Alive /\ child[h] # "none" => child'[h] \in {"zombie", "reaped"}
  BY <1>2, ChildNext DEF TypeInv, TypeOK, KernelTypeOK, ChildState
<1>4. child[h] = "reaped" => child'[h] = "reaped"
  BY <1>2, ChildNext DEF Alive
<1>5. child[h] = "none" /\ h # uh => child'[h] = "none"
  BY ChildNext DEF Alive
<1>6. ForkInv'
  BY ForkNext
<1>7. child'[h] \in {"zombie", "reaped"} => kpid'[h] # 0
  BY <1>6
<1>8. QED
  BY <1>3, <1>4, <1>5, <1>7 DEF Alive

\* If waitpid() does not say that a process runs, then it is over and was reaped, whoever
\* else has had its pid.
LEMMA NotRunning ==
    ASSUME TypeInv, HandleInv, NEW h \in Handle, kpid[h] # 0, ~ WaitRunning(kpid[h])
    PROVE  child[h] \notin Alive /\ Reaped(kpid[h])[h] = "reaped"
<1>1. child[h] \notin Alive
  BY DEF WaitRunning, Occupant
<1>2. child[h] \in {"zombie", "reaped"}
  BY <1>1 DEF HandleInv, ForkInv, TypeInv, TypeOK, KernelTypeOK, ChildState
<1>3. QED
  BY <1>1, <1>2 DEF Reaped, Occupant

\* The status waitpid() reports for the pid of a handle is the one of its own process.
LEMMA OwnStatus ==
    ASSUME PidUnique, NEW h \in Handle, kpid[h] # 0, WaitExited(kpid[h])
    PROVE  Wstat(kpid[h]) = fate[h]
<1>1. Occupant(kpid[h]) \subseteq {h}
  BY DEF Occupant, PidUnique
<1>2. QED
  BY <1>1 DEF WaitExited, Wstat

\* The pid that a collector asks for is the one of its handle; 0 is a handle without one.
LEMMA CollectorPid ==
    ASSUME TypeInv, HandleInv, NEW h, NEW p, Collector(h, p)
    PROVE  (p = 0 => ~ WaitExited(p) /\ hpid[h] = 0) /\ (p # 0 => p = kpid[h])
<1>1. h \in Handle
  BY CollectorKnown
<1>2. p = 0 => Occupant(p) = {}
  BY DEF Occupant, HandleInv, ForkInv, Alive
<1>3. QED
  BY <1>1, <1>2 DEF Collector, WaitExited, HandleInv, ForkInv

\* Collecting is right about the end of the process.
LEMMA CollectsEnded ==
    ASSUME TypeInv, CtlInv, HandleInv, EndedInv, Next,
           NEW h, NEW p, Collector(h, p), Collects(h, p)
    PROVE  EndedInv'
<1> USE DEF HandleInv, TypeInv, TypeOK, HandleTypeOK
<1>0. h \in Handle /\ ref[h] # "none"
  BY CollectorKnown
<1>1. (\A g \in Handle : g # h => collected'[g] = collected[g]) /\ UNCHANGED hpid
  BY <1>0 DEF Collects, collect_exit_status
<1>2. p # 0 => child'[h] = "reaped"
  BY <1>0, CollectorPid, NotRunning DEF Collects
<1>3. ASSUME NEW g \in Handle, collected'[g], hpid'[g] # 0 PROVE child'[g] = "reaped"
  <2>1. CASE g # h
    BY <1>1, <1>3, <2>1, OverForGood DEF EndedInv
  <2>2. CASE g = h
    BY <1>1, <1>2, <1>3, <2>2, CollectorPid
  <2>3. QED
    BY <2>1, <2>2
<1>4. InExec' /\ collected'[uh'] => child'[uh'] = "reaped"
  <2>1. ~ \E x \in Handle, cl \in BOOLEAN : ExecStarts(x, cl)
    <3>1. ASSUME NEW x \in Handle, NEW cl \in BOOLEAN, ExecStarts(x, cl) PROVE FALSE
      BY <3>1 DEF Collector, ExecStarts, InR, At, MainRuns
    <3>2. QED
      BY <3>1
  <2>2. InExec' => InExec /\ uh' = uh /\ uh \in Handle
    BY <2>1, InExecNext DEF HereInv, MainTypeOK
  <2>3. CASE InExec /\ h = uh
    <3>1. hptr \in 1..Len(child_list) /\ h = child_list[hptr] /\ p = kpid[h]
      BY <2>3, NoNodeAssumption DEF Collector, InExec, ExecLocation, CtlInv, FinLocation,
         WaitLocation,
         HereInv, Cur
    <3>2. Listed(h)
      BY <3>1 DEF Listed
    <3>3. p # 0
      BY <1>0, <3>1, <3>2 DEF ForkInv
    <3>4. QED
      BY <1>2, <2>2, <2>3, <3>3
  <2>4. CASE InExec /\ h # uh
    BY <1>1, <2>2, <2>4, OverForGood DEF EndedInv
  <2>5. QED
    BY <2>2, <2>3, <2>4
<1>5. QED
  BY <1>3, <1>4 DEF EndedInv

\* A step does not say that a process is over too early.
LEMMA NextEnded ==
    ASSUME TypeInv, CtlInv, HandleInv, EndedInv, [Next]_vars PROVE EndedInv'
<1> USE DEF HandleInv, TypeInv, TypeOK, HandleTypeOK, KernelTypeOK
<1>1. CASE UNCHANGED vars
  BY <1>1 DEF vars, EndedInv, InExec
<1>2. CASE Next /\ UNCHANGED <<collected, exitcode>>
  <2>1. ASSUME NEW h \in Handle, collected[h], hpid'[h] # 0 PROVE child'[h] = "reaped"
    <3>1. CASE hpid'[h] = hpid[h]
      BY <1>2, <2>1, <3>1, OverForGood DEF EndedInv
    <3>2. CASE ExecSucceeds /\ h = uh
      <4>1. child[h] = "reaped"
        BY <2>1, <3>2 DEF ExecSucceeds, At, EndedInv, InExec, ExecLocation
      <4>2. QED
        BY <1>2, <4>1, OverForGood
    <3>3. UNCHANGED hpid \/ (ExecSucceeds /\ \A x \in Handle : x # uh => hpid'[x] = hpid[x])
      BY <1>2, FieldsNext DEF ExecStarts, make_handle, ExecFailsEarly, ExecForks, ExecSucceeds,
         ExecReaps, ExecNoMemory, Drops, FinalizerStarts, FinalizerClears,
         FinalizerDestroys, UnloadFrees
    <3>4. QED
      BY <3>1, <3>2, <3>3
  <2>2. InExec' /\ collected'[uh'] => child'[uh'] = "reaped"
    <3>1. ASSUME NEW h \in Handle, NEW cl \in BOOLEAN, ExecStarts(h, cl)
          PROVE  ~ collected'[uh']
      BY <1>2, <3>1 DEF ExecStarts, BlankInv
    <3>2. CASE ~ \E h \in Handle, cl \in BOOLEAN : ExecStarts(h, cl)
      <4>1. InExec' => InExec /\ uh' = uh /\ uh \in Handle
        BY <1>2, <3>2, InExecNext DEF HereInv, MainTypeOK
      <4>2. QED
        BY <1>2, <4>1, OverForGood DEF EndedInv
    <3>3. QED
      BY <3>1, <3>2
  <2>3. QED
    BY <1>2, <2>1, <2>2 DEF EndedInv
<1>3. QED
  BY <1>1, <1>2, StatusNext, CollectsEnded

\* A step keeps the statuses true.
LEMMA NextStatus ==
    ASSUME "reuse" \notin Env, TypeInv, CtlInv, HandleInv, PidUnique, EndedInv, StatusInv,
           [Next]_vars
    PROVE  PidUnique' /\ StatusInv'
<1> USE DEF HandleInv, TypeInv, TypeOK, HandleTypeOK, KernelTypeOK
<1>1. CASE UNCHANGED vars
  BY <1>1 DEF vars, PidUnique, StatusInv
<1>2. CASE Next
  <2>1. PidUnique'
    <3>1. ASSUME NEW p \in Pid, ExecForks(p) PROVE PidUnique'
      BY <3>1 DEF ExecForks, PidFree, PidUnique, RegInv, At
    <3>2. CASE UNCHANGED kpid
      BY <3>2 DEF PidUnique
    <3>3. QED
      BY <1>2, <3>1, <3>2, FieldsNext DEF ExecStarts, ExecFailsEarly, ExecSucceeds, ExecReaps,
         ExecNoMemory, Drops, FinalizerStarts, FinalizerClears, FinalizerDestroys, UnloadFrees
  <2>2. ASSUME NEW h \in Handle, collected[h]
        PROVE  child[h] \notin Alive => child'[h] \notin Alive /\ fate'[h] = fate[h]
    <3>1. h = uh /\ pc = "exec_pipes" => child[h] = "reaped"
      BY <2>2 DEF EndedInv, InExec, ExecLocation
    <3>2. ~ (h = uh /\ \E p \in Pid : ExecForks(p))
      BY <3>1, <2>2 DEF ExecForks, At, ForkInv
    <3>3. child[h] \notin Alive => child'[h] \notin Alive
      BY <1>2, <3>2, ChildNext DEF Alive
    <3>4. QED
      BY <1>2, <3>3, FateNext
  <2>3. CASE UNCHANGED <<collected, exitcode>>
    <3>1. ASSUME NEW h \in Handle, collected[h]
          PROVE  exitcode[h] = NA \/ (exitcode[h] = fate'[h] /\ child'[h] \notin Alive)
      <4>1. exitcode[h] = NA \/ (exitcode[h] = fate[h] /\ child[h] \notin Alive)
        BY <3>1 DEF StatusInv
      <4>2. QED
        BY <2>2, <3>1, <4>1
    <3>2. collected' = collected /\ exitcode' = exitcode
      BY <2>3
    <3>3. QED
      BY <2>1, <3>1, <3>2 DEF StatusInv
  <2>4. ASSUME NEW h, NEW p, Collector(h, p), Collects(h, p) PROVE StatusInv'
    <3>0. h \in Handle
      BY <2>4, CollectorKnown
    <3>1. /\ \A g \in Handle : g # h => collected'[g] = collected[g] /\ exitcode'[g] = exitcode[g]
          /\ collected[h] => exitcode'[h] = exitcode[h]
          /\ ~ collected[h] => exitcode'[h] = IF WaitExited(p) THEN Wstat(p) ELSE NA
          /\ UNCHANGED fate
      BY <2>4, <3>0 DEF Collects, collect_exit_status
    <3>2. WaitExited(p) => p = kpid[h] /\ p # 0
      BY <2>4, CollectorPid
    <3>3. WaitExited(p) => child'[h] \notin Alive /\ Wstat(p) = fate[h]
      BY <2>4, <3>0, <3>2, NotRunning, OwnStatus DEF Collects, Alive
    <3>4. ASSUME NEW g \in Handle, collected'[g]
          PROVE  exitcode'[g] = NA \/ (exitcode'[g] = fate'[g] /\ child'[g] \notin Alive)
      <4>1. CASE g # h \/ collected[h]
        <5>1. collected[g] /\ exitcode'[g] = exitcode[g]
          BY <3>1, <3>4, <4>1
        <5>2. exitcode[g] = NA \/ (exitcode[g] = fate[g] /\ child[g] \notin Alive)
          BY <5>1 DEF StatusInv
        <5>3. QED
          BY <2>2, <3>1, <5>1, <5>2
      <4>2. CASE g = h /\ ~ collected[h]
        BY <3>1, <3>3, <4>2
      <4>3. QED
        BY <4>1, <4>2
    <3>5. QED
      BY <3>4 DEF StatusInv
  <2>5. QED
    BY <1>2, <2>1, <2>3, <2>4, StatusNext
<1>3. QED
  BY <1>1, <1>2

\* If the kernel does not hand out a pid again while R may still use it: every exit status
\* that is reported is the one the process had, or NA, and only when the process is over,
\* whoever collected it, whatever handlers are installed, and whichever step failed
\* (processx.c:655-696, sigchld.c:47-75).
THEOREM StatusesAreTrue == ASSUME "reuse" \notin Env PROVE Spec => []ExitStatusTrue
<1> DEFINE I == TypeInv /\ CtlInv /\ HandleInv /\ PidUnique /\ EndedInv /\ StatusInv
<1>1. Init => I
  BY InitTypes, InitControl, InitHandles, InitStatus
<1>2. I /\ [Next]_vars => I'
  BY NextTypes, NextControl, NextHandles, NextEnded, NextStatus
<1>3. I => ExitStatusTrue
  BY DEF EndedInv, StatusInv, ExitStatusTrue
<1>4. QED
  BY <1>1, <1>2, <1>3, PTL DEF Spec

---------------------------------------------------------------------------
(* Descriptors *)

\* Where the pipe of a wait is open, at most.
PipeLocation == WaitLocation \cup {"kill_waited", "kill_kill", "kill_reap", "kill_cleanup"}

\* The pipe of a wait belongs to the call that is under way.
PipeInv ==
    /\ wfd # -1 => pc \in PipeLocation
    /\ pc \in WaitLocation => wfd # -1
    /\ \A f \in Fd : owner[f] = "wait" => wfd = f

\* The descriptor of a handle for which processx_exec has not opened the pty is still
\* the 0 of memset().
Opening(h) == h = uh /\ pc \in {"exec_pipes", "exec_forked"}

\* Every pty descriptor is in a handle that is alive.
PtyHeld ==
    \A f \in Fd : owner[f] = "pty" =>
        \E h \in Handle : mem[h] = "live" /\ pty_child_fd[h] = f /\ ~ Opening(h)

\* They hold in the beginning.
LEMMA InitFds == Init => PipeInv /\ PtyHeld
  BY DEF Init, KernelInit, MainInit, PipeInv, PtyHeld, PipeLocation, WaitLocation

\* Who opens and closes descriptors, and who sets the fields that hold them.
LEMMA FdsNext ==
    ASSUME Next
    PROVE  \/ UNCHANGED <<owner, pty_child_fd, waitpipe>>
           \/ \E h, p : Collector(h, p) /\ Collects(h, p)
           \/ \E h \in Handle, cl \in BOOLEAN : ExecStarts(h, cl)
           \/ \E f \in Fd \cup {-1} : ExecMakesNode(f) \/ ExecNoMemory(f)
           \/ \E h \in Handle, f \in Fd, t \in -1..MaxSlices : wait(h, f, t)
           \/ \E f \in Fd, t \in 0..MaxSlices : KillWaits(f, t)
           \/ WaitInterrupted \/ WaitEnds \/ KillEnds \/ FinalizerDestroys
           \/ \E f \in Fd : Opens(f)
<1> DEFINE Goal == \/ UNCHANGED <<owner, pty_child_fd, waitpipe>>
                   \/ \E h, p : Collector(h, p) /\ Collects(h, p)
<1>1. CASE AliveChecks
  BY <1>1 DEF AliveChecks, CollectExited, Collects, Collector, At, MainRuns
<1>2. CASE SignalReaps
  BY <1>2 DEF SignalReaps, WaitECHILD, Collects, Collector, At, MainRuns
<1>3. ASSUME NEW g, KillChecks(g) PROVE Goal
  BY <1>3 DEF KillChecks, WaitECHILD, Collects, Collector, At, MainRuns
<1>4. CASE KillReaps
  BY <1>4 DEF KillReaps, CollectExited, Collects, Collector, At, MainRuns
<1>5. CASE CallbackReaps /\ UNCHANGED <<pc, regVars>>
  BY <1>5 DEF CallbackReaps, Collects, Collector
<1> HIDE DEF Goal
<1>6. Goal => \/ UNCHANGED <<owner, pty_child_fd, waitpipe>>
              \/ \E h, p : Collector(h, p) /\ Collects(h, p)
  BY DEF Goal
<1>7. QED
  BY <1>1, <1>2, <1>3, <1>4, <1>5, <1>6 DEF Next, Children, ChildExec, ChildExecFails, ChildEnds,
     StrangerStarts, Signals, Calls, Displaced, Exec, ExecFailsEarly, ExecForks, ExecLinks,
     ExecSucceeds, ExecReadsErrno, ExecReaps, Wait, WaitNoPipe, WaitWoken, WaitSlice,
     WaitChecks, Kill, kill, Blocks, KillTerminates, KILL_WITH, KillWaited, KillKills,
     Finalizer, Drops, FinalizerStarts, FinalizerKills, FinalizerClears, Unload, UnloadStarts,
     UnloadRemoves, UnloadKills, UnloadFrees, UnloadEnds, SignalTooLate, is_alive, signal,
     SignalSends, OtherThreadTakes, OtherThreadForwards, SignalLost, Callback, CallbackEnters,
     CallbackKeeps, CallbackReturns

\* Which step opens the pipe of a wait, and which ones close it.
LEMMA PipeSteps ==
    ASSUME TypeInv, CtlInv, HandleInv, PipeInv, Next
    PROVE  \/ \E h \in Handle, f \in Fd, t \in -1..MaxSlices : wait(h, f, t)
           \/ \E f \in Fd, t \in 0..MaxSlices : KillWaits(f, t)
           \/ WaitInterrupted \/ WaitEnds \/ KillEnds
           \/ /\ UNCHANGED wfd
              /\ pc' \in PipeLocation \/ wfd = -1
              /\ pc' \in WaitLocation => pc \in WaitLocation
<1> USE DEF PipeLocation, WaitLocation, PipeInv, At, Goto, Return
<1>1. CASE Exec
  BY <1>1 DEF Exec, ExecStarts, InR, ExecFailsEarly, ExecForks, ExecMakesNode, ExecOpensPty,
     ExecNoMemory, ExecLinks, ExecSucceeds, ExecReadsErrno, ExecReaps
<1>2. CASE WaitNoPipe \/ WaitWoken \/ WaitSlice \/ WaitChecks
  BY <1>2 DEF WaitNoPipe, WaitWoken, WaitSlice, WaitChecks, Called, InR
<1>3. ASSUME NEW g, KillChecks(g)
      PROVE  UNCHANGED wfd /\ wfd = -1 /\ pc' \notin WaitLocation
  BY <1>3 DEF KillChecks
<1>4. CASE KillTerminates \/ KillKills
  BY <1>4 DEF KillTerminates, KillKills, KILL_WITH
<1>5. CASE KillWaited \/ KillReaps
  BY <1>5 DEF KillWaited, KillReaps
<1>6. ASSUME NEW h, NEW l \in {"alive_check", "sig_send", "kill_check"}, Blocks(h, l)
      PROVE  UNCHANGED wfd /\ wfd = -1 /\ pc' \notin WaitLocation
  BY <1>6 DEF Blocks, Called, InR
<1>7. CASE Finalizer
  BY <1>7 DEF Finalizer, Drops, Called, InR, FinalizerStarts, FinalizerKills, FinalizerClears,
     FinalizerDestroys
<1>8. CASE Unload
  BY <1>8 DEF Unload, UnloadStarts, UnloadRemoves, UnloadKills, UnloadFrees, UnloadEnds, InR
<1>9. CASE \/ AliveChecks \/ SignalTooLate \/ SignalReaps
           \/ \E sig \in Signal : SignalSends(sig)
  BY <1>9 DEF AliveChecks, SignalTooLate, SignalReaps, SignalSends
<1>10. CASE Children \/ Signals \/ Displaced \/ \E f \in Fd : Opens(f)
  BY <1>10 DEF Children, Signals, Displaced, Opens
<1>11. QED
  BY <1>1, <1>2, <1>3, <1>4, <1>5, <1>6, <1>7, <1>8, <1>9, <1>10 DEF Next, Calls, Wait, Kill, kill,
     is_alive, signal

\* A pipe is not lost.
LEMMA PipeNext == ASSUME TypeInv, CtlInv, HandleInv, PipeInv, Next PROVE PipeInv'
<1> USE DEF TypeInv, TypeOK, KernelTypeOK
<1>0. -1 \notin Fd
  BY FdAssumption
<1>1. ASSUME NEW h, NEW f \in Fd, NEW t, WaitBegins(h, f, t), wfd = -1 PROVE PipeInv'
  BY <1>0, <1>1 DEF WaitBegins, PipeInv, PipeLocation, WaitLocation, Goto
<1>2. ASSUME owner' = Closed({wfd}), wfd' = -1, pc' \notin WaitLocation PROVE PipeInv'
  BY <1>2 DEF Closed, PipeInv
<1>3. CASE WaitInterrupted \/ KillEnds
  BY <1>2, <1>3 DEF WaitInterrupted, KillEnds, Return, Goto, WaitLocation
<1>4. CASE WaitEnds
  <2>1. CASE waitret = "user"
    BY <1>2, <1>4, <2>1 DEF WaitEnds, Return, WaitLocation
  <2>2. CASE waitret # "user"
    BY <1>4, <2>2 DEF WaitEnds, PipeInv, PipeLocation, WaitLocation, Goto
  <2>3. QED
    BY <2>1, <2>2
<1>5. ASSUME UNCHANGED wfd, pc' \in PipeLocation \/ wfd = -1,
             pc' \in WaitLocation => pc \in WaitLocation,
             ~ \E h \in Handle, f \in Fd, t \in -1..MaxSlices : wait(h, f, t),
             ~ \E f \in Fd, t \in 0..MaxSlices : KillWaits(f, t)
      PROVE  PipeInv'
  <2>1. \A f \in Fd : owner'[f] = "wait" => owner[f] = "wait"
    <3>1. CASE UNCHANGED owner
      BY <3>1
    <3>2. ASSUME NEW S, owner' = Closed(S), NEW f \in Fd, owner'[f] = "wait"
          PROVE  owner[f] = "wait"
      BY <3>2 DEF Closed
    <3>3. ASSUME NEW f \in Fd \cup {-1}, ExecMakesNode(f) \/ ExecNoMemory(f), NEW g \in Fd,
                 owner'[g] = "wait"
          PROVE  owner[g] = "wait"
      BY <3>3 DEF ExecMakesNode, ExecNoMemory, ExecOpensPty
    <3>4. ASSUME NEW f \in Fd, Opens(f), NEW g \in Fd, owner'[g] = "wait" PROVE owner[g] = "wait"
      BY <3>4 DEF Opens, OtherOpens
    <3>5. QED
      BY <1>5, <3>1, <3>2, <3>3, <3>4, FdsNext
      DEF Collector, ExecStarts, WaitInterrupted, WaitEnds, KillEnds, FinalizerDestroys,
          handle_destroy
  <2>2. QED
    BY <1>5, <2>1 DEF PipeInv
<1>6. ASSUME NEW h \in Handle, NEW f \in Fd, NEW t \in -1..MaxSlices, wait(h, f, t) PROVE PipeInv'
  BY <1>1, <1>6 DEF wait, Called, InR, At, PipeInv, PipeLocation, WaitLocation
<1>7. ASSUME NEW f \in Fd, NEW t \in 0..MaxSlices, KillWaits(f, t) PROVE PipeInv'
  BY <1>1, <1>7 DEF KillWaits, At, PipeInv, PipeLocation, WaitLocation
<1>8. QED
  BY <1>3, <1>4, <1>5, <1>6, <1>7, PipeSteps

\* processx_exec only goes on with a handle that it made.
LEMMA OpeningNext ==
    ASSUME TypeInv, CtlInv, HandleInv, Next, NEW h \in Handle, Opening(h)'
    PROVE  Opening(h) \/ mem[h] = "none"
<1>1. ASSUME NEW g \in Handle, NEW cl \in BOOLEAN, ExecStarts(g, cl) PROVE mem[h] = "none"
  BY <1>1 DEF ExecStarts, Opening, HandleInv, BlankInv
<1>2. ASSUME NEW p \in Pid, ExecForks(p) PROVE Opening(h)
  BY <1>2 DEF ExecForks, At, Opening
<1>3. CASE /\ ~ \E p \in Pid : ExecForks(p)
           /\ ~ \E g \in Handle, cl \in BOOLEAN : ExecStarts(g, cl)
  <2>1. InExec'
    BY DEF Opening, InExec, ExecLocation
  <2>2. uh' = uh
    BY <1>3, <2>1, InExecNext
  <2>3. QED
    BY <1>3, <2>2, LocationNext DEF Opening
<1>4. QED
  BY <1>1, <1>2, <1>3

\* A handle is freed by its finalizer only.
LEMMA LiveNext ==
    ASSUME TypeInv, Next, NEW h \in Handle, mem[h] = "live",
           ~ (FinalizerDestroys /\ h = fh)
    PROVE  mem'[h] = "live"
  BY FieldsNext DEF ExecStarts, make_handle, ExecFailsEarly, ExecThrows, ExecForks, ExecSucceeds,
     ExecReaps, ExecNoMemory, Drops, FinalizerStarts, FinalizerClears, FinalizerDestroys,
     handle_destroy, UnloadFrees, TypeInv, TypeOK, HandleTypeOK

\* A pty descriptor is not lost.
LEMMA HeldNext == ASSUME TypeInv, CtlInv, HandleInv, PtyHeld, Next PROVE PtyHeld'
<1> USE DEF TypeInv, TypeOK, KernelTypeOK, HandleTypeOK
<1> SUFFICES ASSUME NEW f \in Fd, owner'[f] = "pty"
             PROVE  \E h \in Handle : mem'[h] = "live" /\ pty_child_fd'[h] = f /\ ~ Opening(h)'
  BY DEF PtyHeld
<1>1. ASSUME NEW h \in Handle, mem[h] = "live", pty_child_fd'[h] = f, ~ Opening(h),
             ~ (FinalizerDestroys /\ h = fh)
      PROVE  \E g \in Handle : mem'[g] = "live" /\ pty_child_fd'[g] = f /\ ~ Opening(g)'
  <2>1. mem'[h] = "live"
    BY <1>1, LiveNext
  <2>2. ~ Opening(h)'
    BY <1>1, OpeningNext
  <2>3. QED
    BY <1>1, <2>1, <2>2
<1>2. ASSUME owner[f] = "pty"
      PROVE  \E h \in Handle : mem[h] = "live" /\ pty_child_fd[h] = f /\ ~ Opening(h)
  BY <1>2 DEF PtyHeld
<1>3. CASE FinalizerDestroys
  <2>1. owner[f] = "pty" /\ f # pty_child_fd[fh] /\ UNCHANGED pty_child_fd
    BY <1>3 DEF FinalizerDestroys, handle_destroy, Closed
  <2>2. QED
    BY <1>1, <1>2, <2>1
<1>4. CASE owner[f] = "pty" /\ UNCHANGED pty_child_fd /\ ~ FinalizerDestroys
  BY <1>1, <1>2, <1>4
<1>5. ASSUME NEW h, NEW p, Collector(h, p), Collects(h, p), ~ FinalizerDestroys
      PROVE  \E g \in Handle : mem'[g] = "live" /\ pty_child_fd'[g] = f /\ ~ Opening(g)'
  <2>1. h \in Handle
    BY <1>5, CollectorKnown
  <2>2. PICK S : owner' = Closed(CollectCloses(h) \cup S)
    <3>1. CollectCloses(h) \cup {} = CollectCloses(h)
      OBVIOUS
    <3>2. QED
      BY <1>5, <3>1 DEF Collector
  <2>3. owner[f] = "pty" /\ f \notin CollectCloses(h)
    BY <2>2 DEF Closed
  <2>4. PICK g \in Handle : mem[g] = "live" /\ pty_child_fd[g] = f /\ ~ Opening(g)
    BY <1>2, <2>3
  <2>5. pty_child_fd' = [pty_child_fd EXCEPT ![h] = IF collected[h] THEN @ ELSE -1]
    BY <1>5 DEF Collects, collect_exit_status
  <2>6. g = h => collected[h]
    BY <2>3, <2>4 DEF CollectCloses
  <2>7. pty_child_fd'[g] = f
    BY <2>1, <2>4, <2>5, <2>6
  <2>8. QED
    BY <1>1, <1>5, <2>4, <2>7
<1>6. ASSUME NEW h \in Handle, NEW cl \in BOOLEAN, ExecStarts(h, cl)
      PROVE  \E g \in Handle : mem'[g] = "live" /\ pty_child_fd'[g] = f /\ ~ Opening(g)'
  <2>1. owner[f] = "pty" /\ ~ FinalizerDestroys
    BY <1>6 DEF ExecStarts, FinalizerDestroys, At, InR
  <2>2. PICK g \in Handle : mem[g] = "live" /\ pty_child_fd[g] = f /\ ~ Opening(g)
    BY <1>2, <2>1
  <2>3. g # h
    BY <1>6, <2>2 DEF ExecStarts, HandleInv, BlankInv
  <2>4. pty_child_fd'[g] = f
    BY <1>6, <2>2, <2>3 DEF ExecStarts, make_handle
  <2>5. QED
    BY <1>1, <2>1, <2>2, <2>4
<1>7. ASSUME NEW k \in Fd \cup {-1}, ExecMakesNode(k) \/ ExecNoMemory(k)
      PROVE  \E g \in Handle : mem'[g] = "live" /\ pty_child_fd'[g] = f /\ ~ Opening(g)'
  <2>1. /\ pc = "exec_forked" /\ pc' \in {"exec_weakref", "idle"} /\ UNCHANGED mem
        /\ owner' = [g \in Fd |-> IF g = k THEN "pty" ELSE owner[g]]
        /\ pty_child_fd' = [pty_child_fd EXCEPT ![uh] = k]
    BY <1>7 DEF ExecMakesNode, ExecNoMemory, ExecOpensPty, At, Goto, Return, ExecThrows
  <2>2. uh \in Handle /\ mem[uh] = "live"
    BY <2>1 DEF RegInv, MainTypeOK, HandleInv, HereInv, MemInv
  <2>3. \A g : ~ Opening(g)'
    BY <2>1 DEF Opening
  <2>4. CASE f = k
    BY <2>1, <2>2, <2>3, <2>4
  <2>5. CASE f # k
    <3>1. PICK g \in Handle : mem[g] = "live" /\ pty_child_fd[g] = f /\ ~ Opening(g)
      BY <1>2, <2>1, <2>5
    <3>2. g # uh
      BY <2>1, <3>1 DEF Opening
    <3>3. QED
      BY <2>1, <2>3, <3>1, <3>2
  <2>6. QED
    BY <2>4, <2>5
<1>8. ASSUME NEW h, NEW k \in Fd, NEW t, WaitBegins(h, k, t)
      PROVE  owner[f] = "pty" /\ UNCHANGED pty_child_fd
  BY <1>8 DEF WaitBegins
<1>9. CASE WaitInterrupted \/ WaitEnds \/ KillEnds
  <2>1. owner[f] = "pty" /\ UNCHANGED pty_child_fd
    BY <1>9 DEF WaitInterrupted, WaitEnds, KillEnds, Closed
  <2>2. QED
    BY <1>3, <1>4, <2>1
<1>10. ASSUME NEW k \in Fd, Opens(k) PROVE owner[f] = "pty" /\ UNCHANGED pty_child_fd
  BY <1>10 DEF Opens, OtherOpens
<1>11. QED
  BY <1>3, <1>4, <1>5, <1>6, <1>7, <1>8, <1>9, <1>10, FdsNext DEF wait, KillWaits

\* A step leaks nothing.
LEMMA NextFds ==
    ASSUME TypeInv, CtlInv, HandleInv, PipeInv, PtyHeld, [Next]_vars PROVE PipeInv' /\ PtyHeld'
<1>1. CASE UNCHANGED vars
  BY <1>1 DEF vars, PipeInv, PtyHeld, Opening
<1>2. QED
  BY <1>1, PipeNext, HeldNext

\* How R gets and loses a handle.
LEMMA RefNext ==
    ASSUME TypeInv, Next, NEW h \in Handle
    PROVE  \/ ref'[h] = ref[h]
           \/ \E cl \in BOOLEAN : ExecStarts(h, cl)
           \/ /\ h = uh /\ ref'[h] = "garbage"
              /\ ExecFailsEarly \/ ExecReaps \/ \E f \in Fd \cup {-1} : ExecNoMemory(f)
           \/ Drops(h) \/ FinalizerStarts(h)
<1> USE DEF TypeInv, TypeOK, HandleTypeOK
<1>1. ASSUME NEW g \in Handle, NEW cl \in BOOLEAN, ExecStarts(g, cl), g # h PROVE ref'[h] = ref[h]
  BY <1>1 DEF ExecStarts, make_handle
<1>2. ASSUME ExecThrows PROVE ref'[h] = ref[h] \/ (h = uh /\ ref'[h] = "garbage")
  BY <1>2 DEF ExecThrows
<1>3. ASSUME NEW g \in Handle, Drops(g) \/ FinalizerStarts(g), g # h PROVE ref'[h] = ref[h]
  BY <1>3 DEF Drops, FinalizerStarts
<1>4. CASE UNCHANGED ref
  BY <1>4
<1>5. ExecFailsEarly \/ ExecReaps \/ (\E f \in Fd \cup {-1} : ExecNoMemory(f)) => ExecThrows
  BY DEF ExecFailsEarly, ExecReaps, ExecNoMemory
<1>6. ExecSucceeds \/ FinalizerClears \/ FinalizerDestroys \/ UnloadFrees
      \/ (\E p \in Pid : ExecForks(p)) => UNCHANGED ref
  BY DEF ExecSucceeds, FinalizerClears, FinalizerDestroys, UnloadFrees, ExecForks
<1>7. QED
  BY <1>1, <1>2, <1>3, <1>4, <1>5, <1>6, FieldsNext

\* When the finalizer of a handle starts, and when it is over.
LEMMA FinalizedNext ==
    ASSUME Next
    PROVE  \/ fh' = fh
           \/ \E h \in Handle : FinalizerStarts(h)
           \/ FinalizerDestroys
           \/ "pipe" \in Env
  BY DEF Next, Calls, Return, Children, Signals, Displaced, Opens, Exec, ExecStarts,
     ExecFailsEarly, ExecForks, ExecMakesNode, ExecNoMemory, ExecLinks, ExecSucceeds,
     ExecReadsErrno, ExecReaps, Wait, wait, WaitBegins, KillWaits, WaitNoPipe, WaitWoken,
     WaitSlice, WaitInterrupted, WaitChecks, WaitEnds, Kill, kill, Blocks, KillChecks,
     KillTerminates, KILL_WITH, KillWaited, KillKills, KillReaps, KillEnds, Finalizer, Drops,
     FinalizerKills, FinalizerClears, Unload, UnloadStarts, UnloadRemoves, UnloadKills,
     UnloadFrees, UnloadEnds, AliveChecks, SignalTooLate, SignalReaps, is_alive, signal,
     SignalSends

\* Finalizers run to their end, and find their handles.
Destroying == Env \cap {"pipe", "unload"} = {}

\* No handle is left behind: its finalizer is at work, or has yet to run.
DestroyInv == \A h \in Handle : mem[h] = "live" => ToBeDestroyed(h)

\* A step leaves no handle behind.
LEMMA DestroyNext ==
    ASSUME Destroying, TypeInv, CtlInv, HandleInv, DestroyInv, [Next]_vars PROVE DestroyInv'
<1> USE DEF TypeInv, TypeOK, HandleTypeOK, DestroyInv, ToBeDestroyed
<1>1. CASE UNCHANGED vars
  BY <1>1 DEF vars
<1>2. CASE UNCHANGED <<ref, xptr, mem, kpid, hpid>> /\ fh' = fh
  BY <1>2
<1>3. ASSUME NEW g \in Handle, NEW cl \in BOOLEAN, ExecStarts(g, cl) PROVE DestroyInv'
  BY <1>3 DEF ExecStarts, make_handle
<1>4. CASE ExecFailsEarly \/ ExecReaps \/ \E f \in Fd \cup {-1} : ExecNoMemory(f)
  <2>1. UNCHANGED <<xptr, mem, fh>> /\ ref' = [ref EXCEPT ![uh] = "garbage"]
    BY <1>4 DEF ExecFailsEarly, ExecReaps, ExecNoMemory, ExecThrows, Return
  <2>2. QED
    BY <2>1
<1>5. CASE ExecSucceeds \/ \E p \in Pid : ExecForks(p)
  BY <1>5 DEF ExecSucceeds, ExecForks, Return
<1>6. ASSUME NEW g \in Handle, Drops(g) PROVE DestroyInv'
  BY <1>6 DEF Drops
<1>7. ASSUME NEW g \in Handle, FinalizerStarts(g) PROVE DestroyInv'
  <2>1. fh = NoNode /\ xptr[g]
    BY <1>7, NoNodeAssumption DEF FinalizerStarts, At, CtlInv, FinLocation, WaitLocation,
       HandleInv, MemInv
  <2>2. fh' = g /\ UNCHANGED <<xptr, mem>> /\ ref' = [ref EXCEPT ![g] = "finalized"]
    BY <1>7, <2>1 DEF FinalizerStarts
  <2>3. \A h \in Handle : h # fh
    BY <2>1, NoNodeAssumption
  <2>4. QED
    BY <2>2, <2>3
<1>8. CASE FinalizerClears
  <2>1. UNCHANGED <<ref, mem, fh>> /\ xptr' = [xptr EXCEPT ![fh] = FALSE]
    BY <1>8 DEF FinalizerClears
  <2>2. QED
    BY <2>1
<1>9. CASE FinalizerDestroys
  <2>1. fh \in Handle
    BY <1>9 DEF FinalizerDestroys, At, CtlInv, MainTypeOK
  <2>2. UNCHANGED <<ref, xptr>> /\ mem' = [mem EXCEPT ![fh] = "freed"]
    BY <1>9 DEF FinalizerDestroys, handle_destroy
  <2>3. QED
    BY <2>1, <2>2
<1>10. ~ UnloadFrees
  BY DEF UnloadFrees, At, CtlInv, Destroying
<1>11. QED
  BY <1>1, <1>2, <1>3, <1>4, <1>5, <1>6, <1>7, <1>8, <1>9, <1>10, FieldsNext, FinalizedNext
     DEF Destroying

\* No descriptor is leaked, although waits are interrupted, starts of processes fail before
\* and after the fork, and finalizers run in the middle of others: the pipe of a wait lives
\* no longer than the call, and a pty descriptor is in a handle whose finalizer has still to
\* close it (processx.c:413-417, 581-588, 692-695, 751-754, 777-782).  It is assumed that
\* pipe() does not fail in a finalizer that kills, and that the package is not unloaded:
\* both leave handles that nobody destroys any more.
THEOREM NothingLeaks == ASSUME Destroying PROVE Spec => []NoFdLeak
<1> DEFINE I == TypeInv /\ CtlInv /\ HandleInv /\ PipeInv /\ PtyHeld /\ DestroyInv
<1>1. Init => I
  <2>1. Init => DestroyInv
    BY DEF Init, HandleInit, DestroyInv
  <2>2. QED
    BY <2>1, InitTypes, InitControl, InitHandles, InitFds
<1>2. I /\ [Next]_vars => I'
  BY NextTypes, NextControl, NextHandles, NextFds, DestroyNext
<1>3. I => NoFdLeak
  BY DEF PipeInv, PtyHeld, DestroyInv, NoFdLeak
<1>4. QED
  BY <1>1, <1>2, <1>3, PTL DEF Spec

---------------------------------------------------------------------------
(* The answer of wait, and the descriptors of others *)

\* An interrupt leaves handle->waitpipe behind, and a failure before the fork leaves the
\* pty_child_fd of memset(): both are descriptors that may belong to somebody else later.
Uninterrupted == Env \cap {"interrupt", "prefork"} = {}

\* The process of h has run and is over.
Over(h) == child[h] \notin Alive /\ kpid[h] # 0

\* A handle has its pty descriptor for itself.
PtyInv ==
    /\ \A h \in Handle : mem[h] = "live" /\ pty_child_fd[h] # -1 /\ ~ Opening(h) =>
          owner[pty_child_fd[h]] = "pty"
    /\ \A g, h \in Handle :
          /\ mem[g] = "live" /\ mem[h] = "live" /\ ~ Opening(g) /\ ~ Opening(h)
          /\ pty_child_fd[g] = pty_child_fd[h] /\ pty_child_fd[g] # -1
          => g = h

\* The SIGCHLD handler closes the pipe of the wait that is under way, and no other, and
\* then the process is over.
WokenInv ==
    /\ wfd # -1 => owner[wfd] # "pty"
    /\ \A h \in Handle : waitpipe[h] # -1 =>
          pc \in WaitLocation /\ h = Cur /\ waitpipe[h] = wfd
    /\ pc \in WaitLocation => owner[wfd] = "wait" \/ Over(Cur)
    /\ pc \in {"wait_done", "kill_waited"} /\ wres => Over(Cur)

\* They hold in the beginning.
LEMMA InitWoken == Init => PtyInv /\ WokenInv
  BY DEF Init, KernelInit, HandleInit, MainInit, PtyInv, WokenInv, WaitLocation

\* Whoever collects has its own pty descriptor.
LEMMA CollectorFd ==
    ASSUME TypeInv, CtlInv, HandleInv, NEW h, NEW p, Collector(h, p)
    PROVE  ~ Opening(h)
<1>1. h \in Handle
  BY CollectorKnown
<1>2. CASE pc \notin {"exec_pipes", "exec_forked"}
  BY <1>2 DEF Opening
<1>3. CASE hptr \in 1..Len(child_list) /\ h = child_list[hptr]
  <2>1. kpid[h] # 0 /\ hptr # 0
    BY <1>1, <1>3 DEF HandleInv, ForkInv, Listed
  <2>2. QED
    BY <2>1 DEF HandleInv, ForkInv, Opening
<1>4. QED
  BY <1>2, <1>3 DEF Collector

\* processx_exec opens the pty before it does anything else that can be observed.
LEMMA OpeningEnds ==
    ASSUME Uninterrupted, TypeInv, CtlInv, HandleInv, Next, NEW h \in Handle, Opening(h),
           ~ Opening(h)'
    PROVE  \E f \in Fd \cup {-1} : ExecMakesNode(f) \/ ExecNoMemory(f)
<1> USE DEF Opening, CtlInv, FinLocation, WaitLocation, At, Goto
<1>1. CASE Exec
  BY <1>1 DEF Exec, ExecStarts, InR, ExecFailsEarly, Uninterrupted, ExecForks, ExecLinks,
     ExecSucceeds, ExecReadsErrno, ExecReaps
<1>2. CASE Wait \/ Kill
  BY <1>2 DEF Wait, wait, KillWaits, WaitNoPipe, WaitWoken, WaitSlice, WaitInterrupted, WaitChecks,
     WaitEnds, Kill, kill, Blocks, KillChecks, KillTerminates, KillWaited, KillKills, KillReaps,
     KillEnds, Called, InR
<1>3. CASE Finalizer \/ Unload
  BY <1>3 DEF Finalizer, Drops, FinalizerStarts, FinalizerKills, FinalizerClears,
     FinalizerDestroys, Unload, UnloadStarts, UnloadRemoves, UnloadKills, UnloadFrees,
     UnloadEnds, Called, InR
<1>4. CASE \/ AliveChecks \/ SignalTooLate \/ SignalReaps
           \/ \E g \in Handle : is_alive(g) \/ signal(g)
           \/ \E sig \in Signal : SignalSends(sig)
  BY <1>4 DEF is_alive, signal, Blocks, AliveChecks, SignalTooLate, SignalReaps, SignalSends,
     Called, InR
<1>5. CASE Children \/ Signals \/ Displaced \/ \E f \in Fd : Opens(f)
  BY <1>5 DEF Children, Signals, Displaced, Opens
<1>6. QED
  BY <1>1, <1>2, <1>3, <1>4, <1>5 DEF Next, Calls

\* A step that touches neither the pty descriptors of living handles nor their numbers.
LEMMA PtyKept ==
    ASSUME TypeInv, PtyInv,
           \A h \in Handle : mem'[h] = "live" /\ ~ Opening(h)' /\ pty_child_fd'[h] # -1 =>
               /\ mem[h] = "live" /\ ~ Opening(h) /\ pty_child_fd'[h] = pty_child_fd[h]
               /\ owner'[pty_child_fd[h]] = owner[pty_child_fd[h]]
    PROVE  PtyInv'
<1>1. ASSUME NEW h \in Handle, mem'[h] = "live", pty_child_fd'[h] # -1, ~ Opening(h)'
      PROVE  owner'[pty_child_fd'[h]] = "pty"
  BY <1>1 DEF PtyInv
<1>2. ASSUME NEW g \in Handle, NEW h \in Handle, mem'[g] = "live", mem'[h] = "live",
             ~ Opening(g)', ~ Opening(h)', pty_child_fd'[g] = pty_child_fd'[h],
             pty_child_fd'[g] # -1
      PROVE  g = h
  BY <1>2 DEF PtyInv
<1>3. QED
  BY <1>1, <1>2 DEF PtyInv

\* A step keeps the pty descriptors apart.
LEMMA PtyNext ==
    ASSUME Uninterrupted, TypeInv, CtlInv, HandleInv, PipeInv, PtyInv, WokenInv, Next
    PROVE  PtyInv'
<1> USE DEF TypeInv, TypeOK, KernelTypeOK, HandleTypeOK
<1>0. -1 \notin Fd
  BY FdAssumption
<1>1. ASSUME NEW f \in Fd \cup {-1}, ExecMakesNode(f) \/ ExecNoMemory(f) PROVE PtyInv'
  <2>1. /\ pc = "exec_forked" /\ pc' \in {"exec_weakref", "idle"} /\ UNCHANGED mem
        /\ owner' = [g \in Fd |-> IF g = f THEN "pty" ELSE owner[g]]
        /\ pty_child_fd' = [pty_child_fd EXCEPT ![uh] = f]
        /\ f \in Fd => owner[f] = "free"
    BY <1>1 DEF ExecMakesNode, ExecNoMemory, ExecOpensPty, CanOpen, At, Goto, Return, ExecThrows
  <2>2. uh \in Handle
    BY <2>1 DEF RegInv, MainTypeOK
  <2>3. \A g \in Handle : g # uh => ~ Opening(g) /\ pty_child_fd'[g] = pty_child_fd[g]
    BY <2>1, <2>2 DEF Opening
  <2>4. \A g \in Handle : g # uh /\ mem[g] = "live" /\ pty_child_fd[g] # -1 =>
           /\ owner[pty_child_fd[g]] = "pty" /\ pty_child_fd[g] # f
           /\ owner'[pty_child_fd[g]] = "pty"
    BY <2>1, <2>3 DEF PtyInv
  <2>5. pty_child_fd'[uh] = f /\ (f # -1 => owner'[f] = "pty")
    BY <2>1, <2>2
  <2>6. ASSUME NEW g \in Handle, mem'[g] = "live", pty_child_fd'[g] # -1
        PROVE  owner'[pty_child_fd'[g]] = "pty"
    BY <2>1, <2>3, <2>4, <2>5, <2>6
  <2>7. ASSUME NEW g \in Handle, NEW h \in Handle, mem'[g] = "live", mem'[h] = "live",
               pty_child_fd'[g] = pty_child_fd'[h], pty_child_fd'[g] # -1
        PROVE  g = h
    BY <2>1, <2>3, <2>4, <2>5, <2>7 DEF PtyInv
  <2>8. QED
    BY <2>6, <2>7 DEF PtyInv
<1>2. ASSUME ~ \E f \in Fd \cup {-1} : ExecMakesNode(f) \/ ExecNoMemory(f), NEW h \in Handle,
             mem'[h] = "live", ~ Opening(h)'
      PROVE  mem[h] = "live" /\ ~ Opening(h)
  <2>1. ~ Opening(h)
    BY <1>2, OpeningEnds
  <2>2. ASSUME NEW g \in Handle, NEW cl \in BOOLEAN, ExecStarts(g, cl) PROVE mem[h] = "live"
    BY <1>2, <2>2 DEF ExecStarts, make_handle, Opening, Goto
  <2>3. mem[h] = "live"
    BY <1>2, <2>2, FieldsNext DEF ExecFailsEarly, ExecThrows, ExecForks, ExecSucceeds, ExecReaps,
       Drops, FinalizerStarts, FinalizerClears, FinalizerDestroys, handle_destroy, UnloadFrees
  <2>4. QED
    BY <2>1, <2>3
<1>3. ASSUME ~ \E f \in Fd \cup {-1} : ExecMakesNode(f) \/ ExecNoMemory(f), NEW h \in Handle,
             mem'[h] = "live", ~ Opening(h)', pty_child_fd'[h] # -1
      PROVE  /\ mem[h] = "live" /\ ~ Opening(h) /\ pty_child_fd'[h] = pty_child_fd[h]
             /\ owner'[pty_child_fd[h]] = owner[pty_child_fd[h]]
  <2>0. mem[h] = "live" /\ ~ Opening(h)
    BY <1>2, <1>3
  <2>a. pty_child_fd'[h] = pty_child_fd[h] =>
           pty_child_fd[h] \in Fd /\ owner[pty_child_fd[h]] = "pty"
    BY <1>3, <2>0 DEF PtyInv
  <2>b. wfd # pty_child_fd[h] \/ pty_child_fd[h] = -1
    BY <2>0 DEF PtyInv, WokenInv
  <2>1. CASE UNCHANGED <<owner, pty_child_fd>>
    BY <2>0, <2>1
  <2>2. ASSUME NEW g, NEW p, Collector(g, p), Collects(g, p)
        PROVE  /\ pty_child_fd'[h] = pty_child_fd[h]
               /\ owner'[pty_child_fd[h]] = owner[pty_child_fd[h]]
    <3>1. g \in Handle /\ mem[g] = "live" /\ ~ Opening(g)
      BY <2>2, CollectorKnown, CollectorFd
    <3>2. pty_child_fd' = [pty_child_fd EXCEPT ![g] = IF collected[g] THEN @ ELSE -1]
      BY <2>2 DEF Collects, collect_exit_status
    <3>3. pty_child_fd'[h] = pty_child_fd[h] /\ (g = h => collected[g])
      BY <1>3, <3>1, <3>2
    <3>4. pty_child_fd[h] \notin CollectCloses(g)
      BY <1>3, <2>0, <3>1, <3>3 DEF CollectCloses, PtyInv
    <3>5. pty_child_fd[h] # waitpipe[g]
      BY <1>3, <2>b, <3>1, <3>3 DEF WokenInv
    <3>6. QED
      BY <2>2, <2>a, <3>3, <3>4, <3>5 DEF Collector, Closed
  <2>3. ASSUME NEW g \in Handle, NEW cl \in BOOLEAN, ExecStarts(g, cl)
        PROVE  pty_child_fd'[h] = pty_child_fd[h] /\ UNCHANGED owner
    BY <2>0, <2>3 DEF ExecStarts, make_handle, HandleInv, BlankInv
  <2>4. ASSUME NEW g, NEW f \in Fd, NEW t, WaitBegins(g, f, t)
        PROVE  /\ pty_child_fd'[h] = pty_child_fd[h]
               /\ owner'[pty_child_fd[h]] = owner[pty_child_fd[h]]
    BY <2>4, <2>a DEF WaitBegins
  <2>5. ASSUME NEW f \in Fd, Opens(f)
        PROVE  /\ pty_child_fd'[h] = pty_child_fd[h]
               /\ owner'[pty_child_fd[h]] = owner[pty_child_fd[h]]
    BY <2>5, <2>a DEF Opens, OtherOpens, CanOpen
  <2>6. CASE WaitInterrupted \/ WaitEnds \/ KillEnds
    <3>1. UNCHANGED pty_child_fd /\ (UNCHANGED owner \/ owner' = Closed({wfd}))
      BY <2>6 DEF WaitInterrupted, WaitEnds, KillEnds
    <3>2. QED
      BY <1>3, <2>0, <2>a, <2>b, <3>1 DEF Closed
  <2>7. CASE FinalizerDestroys
    <3>1. fh \in Handle /\ mem[fh] = "live" /\ ~ Opening(fh)
      BY <2>7 DEF FinalizerDestroys, At, CtlInv, HandleInv, HereInv, MainTypeOK, Opening
    <3>2. UNCHANGED pty_child_fd /\ owner' = Closed({pty_child_fd[fh]}) /\ fh # h
      BY <1>3, <2>7, <3>1 DEF FinalizerDestroys, handle_destroy
    <3>3. pty_child_fd[fh] # pty_child_fd[h]
      BY <1>3, <2>0, <3>1, <3>2 DEF PtyInv
    <3>4. QED
      BY <2>0, <2>a, <3>2, <3>3 DEF Closed
  <2>8. QED
    BY <1>3, <2>0, <2>1, <2>2, <2>3, <2>4, <2>5, <2>6, <2>7, FdsNext DEF wait, KillWaits
<1>4. QED
  BY <1>1, <1>3, PtyKept

\* What can happen during a wait.
LEMMA WaitSteps ==
    ASSUME Uninterrupted, TypeInv, CtlInv, Next, pc \in WaitLocation \cup {"kill_waited"}
    PROVE  \/ WaitWoken \/ WaitSlice \/ WaitChecks \/ WaitEnds \/ KillWaited
           \/ /\ Children \/ Signals \/ \E f \in Fd : Opens(f)
              /\ UNCHANGED <<pc, regVars>>
<1> USE DEF WaitLocation, At, InR, Called, CtlInv
<1>1. ~ Exec /\ ~ Finalizer /\ ~ Unload
  BY DEF Exec, ExecStarts, ExecFailsEarly, ExecForks, ExecMakesNode, ExecNoMemory, ExecOpensPty,
     ExecLinks, ExecSucceeds, ExecReadsErrno, ExecReaps, Finalizer, Drops, FinalizerStarts,
     FinalizerKills, FinalizerClears, FinalizerDestroys, Unload, UnloadStarts, UnloadRemoves,
     UnloadKills, UnloadFrees, UnloadEnds
<1>2. CASE Wait
  BY <1>2 DEF Wait, wait, KillWaits, WaitNoPipe, WaitInterrupted, Uninterrupted
<1>3. CASE Kill
  BY <1>3 DEF Kill, kill, Blocks, KillChecks, KillTerminates, KillKills, KillReaps, KillEnds
<1>4. ~ (\/ AliveChecks \/ SignalTooLate \/ SignalReaps \/ Displaced
         \/ \E h \in Handle : is_alive(h) \/ signal(h)
         \/ \E sig \in Signal : SignalSends(sig))
  BY DEF AliveChecks, SignalTooLate, SignalReaps, Displaced, is_alive, signal, Blocks, SignalSends
<1>5. CASE Children \/ Signals \/ \E f \in Fd : Opens(f)
  BY <1>5 DEF Children, Signals, Opens
<1>6. QED
  BY <1>1, <1>2, <1>3, <1>4, <1>5 DEF Next, Calls

\* A process that is over when a handle is woken stays over.
LEMMA OverNext ==
    ASSUME TypeInv, CtlInv, HandleInv, Next, NEW h \in Handle, Over(h) PROVE Over(h)'
  BY OverForGood DEF Over

\* The descriptor of the wait, while others run.
LEMMA WokenOthers ==
    ASSUME TypeInv, CtlInv, HandleInv, PipeInv, PtyInv, WokenInv, Next,
           Children \/ Signals \/ \E f \in Fd : Opens(f),
           UNCHANGED <<pc, regVars>>
    PROVE  WokenInv'
<1> USE DEF TypeInv, TypeOK, KernelTypeOK, HandleTypeOK
<1>0. -1 \notin Fd /\ Cur' = Cur
  BY FdAssumption DEF Cur
<1>a. pc \in WaitLocation \cup {"kill_waited"} => Cur \in Handle
  BY DEF HandleInv, HereInv, KillLocation, WaitLocation, Cur, MainTypeOK
<1>b. pc \in WaitLocation \cup {"kill_waited"} /\ Over(Cur) => Over(Cur)'
  BY <1>0, <1>a, OverNext DEF Over
<1>c. pc \in {"wait_done", "kill_waited"} /\ wres => Over(Cur)'
  BY <1>b DEF WokenInv, WaitLocation
<1>1. CASE UNCHANGED <<owner, waitpipe>>
  BY <1>0, <1>1, <1>b, <1>c DEF WokenInv
<1>2. ASSUME NEW f \in Fd, Opens(f) PROVE WokenInv'
  <2>1. owner[f] = "free" /\ owner' = [owner EXCEPT ![f] = "other"] /\ UNCHANGED waitpipe
    BY <1>2 DEF Opens, OtherOpens, CanOpen
  <2>2. \A g \in Fd : owner'[g] = "pty" => owner[g] = "pty"
    BY <2>1
  <2>3. \A g \in Fd : owner[g] = "wait" => owner'[g] = "wait"
    BY <2>1
  <2>4. wfd # -1 => wfd \in Fd
    BY DEF MainTypeOK
  <2>5. QED
    BY <1>0, <1>b, <1>c, <2>1, <2>2, <2>3, <2>4 DEF WokenInv, PipeInv
<1>3. CASE CallbackReaps
  <2> DEFINE h == child_list[hptr]
  <2>1. h \in Handle /\ Listed(h) /\ hptr # 0
    BY <1>3 DEF CallbackReaps, ListTypeOK, Listed
  <2>2. kpid[h] # 0
    BY <2>1 DEF HandleInv, ForkInv
  <2>3. Over(h)
    BY <1>3, <2>1, <2>2 DEF CallbackReaps, WaitRunning, Occupant, Over
  <2>4. ~ Opening(h)
    BY <2>1, <2>2 DEF Opening, HandleInv, ForkInv
  <2>5. CASE ~ HandleFound(h)
    BY <1>1, <1>3, <2>5 DEF CallbackReaps
  <2>6. CASE HandleFound(h)
    <3>1. /\ owner' = Closed(CollectCloses(h) \cup {waitpipe[h]})
          /\ waitpipe' = [waitpipe EXCEPT ![h] = -1]
      BY <1>3, <2>6 DEF CallbackReaps
    <3> HIDE DEF h
    <3>2. mem[h] = "live"
      BY <2>1, <2>6 DEF HandleFound, HandleInv, MemInv
    <3>3. wfd # -1 => wfd \in Fd /\ owner'[wfd] # "pty"
      BY <3>1 DEF Closed, MainTypeOK, WokenInv
    <3>4. \A g \in Handle : waitpipe'[g] # -1 => waitpipe'[g] = waitpipe[g]
      BY <2>1, <3>1
    <3>5. \A g \in Handle : waitpipe'[g] # -1 =>
             pc' \in WaitLocation /\ g = Cur' /\ waitpipe'[g] = wfd'
      BY <1>0, <3>4 DEF WokenInv
    <3>6. ASSUME pc \in WaitLocation, owner[wfd] = "wait", h # Cur PROVE owner'[wfd] = "wait"
      <4>1. wfd \in Fd
        BY <3>3, <3>6 DEF PipeInv
      <4>2. wfd # pty_child_fd[h]
        BY <1>0, <2>1, <2>4, <3>2, <3>6, <4>1 DEF PtyInv
      <4>3. wfd # waitpipe[h]
        BY <1>0, <2>1, <3>6, <4>1 DEF WokenInv
      <4>4. QED
        BY <3>1, <3>6, <4>1, <4>2, <4>3 DEF Closed, CollectCloses
    <3>7. pc \in WaitLocation => owner'[wfd] = "wait" \/ Over(Cur)'
      BY <1>b, <2>3, <3>6 DEF WokenInv
    <3>8. QED
      BY <1>c, <3>3, <3>5, <3>7 DEF WokenInv
  <2>7. QED
    BY <2>5, <2>6
<1>4. QED
  BY <1>1, <1>2, <1>3 DEF Children, ChildExec, ChildExecFails, ChildEnds, StrangerStarts, Signals,
     OtherThreadTakes, OtherThreadForwards, SignalLost, Callback, CallbackEnters,
     CallbackKeeps, CallbackReturns

\* A wait begins.
LEMMA WokenBegins ==
    ASSUME TypeInv, HandleInv, PipeInv, WokenInv, NEW h \in Handle, NEW f \in Fd, NEW t,
           WaitBegins(h, f, t), pc \notin WaitLocation, h = Cur'
    PROVE  WokenInv'
<1> USE DEF TypeInv, TypeOK, KernelTypeOK, HandleTypeOK
<1>1. /\ owner' = [owner EXCEPT ![f] = "wait"] /\ waitpipe' = [waitpipe EXCEPT ![h] = f]
      /\ wfd' = f /\ pc' = "wait_poll"
  BY DEF WaitBegins, Goto
<1>2. \A g \in Handle : g # h => waitpipe'[g] = -1
  BY <1>1 DEF WokenInv
<1>3. owner'[wfd'] = "wait" /\ waitpipe'[h] = wfd'
  BY <1>1
<1>4. QED
  BY <1>1, <1>2, <1>3 DEF WokenInv, WaitLocation

\* A step keeps it.
LEMMA WokenNext ==
    ASSUME Uninterrupted, TypeInv, CtlInv, HandleInv, PipeInv, PtyInv, WokenInv, Next
    PROVE  WokenInv'
<1> USE DEF TypeInv, TypeOK, KernelTypeOK, HandleTypeOK
<1>1. CASE pc \in WaitLocation \cup {"kill_waited"}
  <2>0. Cur \in Handle
    BY <1>1 DEF HandleInv, HereInv, KillLocation, WaitLocation, Cur, MainTypeOK
  <2>1. CASE Children \/ Signals \/ \E f \in Fd : Opens(f)
    BY <2>1, WokenOthers DEF Children, Signals, Opens
  <2>2. CASE WaitWoken \/ WaitSlice
    <3>1. /\ UNCHANGED <<owner, waitpipe, child, kpid, uh, fh, wfd>> /\ pc = "wait_poll"
          /\ pc' \in WaitLocation /\ (wres' => owner[wfd] # "wait")
      BY <2>2 DEF WaitWoken, WaitSlice, At, Goto, WaitLocation
    <3>2. Cur' = Cur /\ (Over(Cur) => Over(Cur)')
      BY <3>1 DEF Cur, Over
    <3>3. QED
      BY <3>1, <3>2 DEF WokenInv, WaitLocation
  <2>3. CASE WaitChecks
    <3>1. /\ UNCHANGED <<owner, waitpipe, child, kpid, uh, fh, wfd>> /\ pc = "wait_check"
          /\ pc' \in {"wait_poll", "wait_done"}
          /\ pc' = "wait_done" => ~ Exists(hpid[Cur])
      BY <2>3 DEF WaitChecks, At, Goto
    <3>2. Cur' = Cur /\ (Over(Cur) => Over(Cur)')
      BY <3>1 DEF Cur, Over
    <3>3. ~ Exists(hpid[Cur]) => Over(Cur)
      BY <2>0 DEF Exists, Occupant, Over, HandleInv, ForkInv
    <3>4. QED
      BY <3>1, <3>2, <3>3 DEF WokenInv, WaitLocation
  <2>4. CASE WaitEnds
    <3>1. waitpipe' = [waitpipe EXCEPT ![Cur] = -1] /\ UNCHANGED <<child, kpid>> /\ pc = "wait_done"
      BY <2>4 DEF WaitEnds, At
    <3>2. \A g \in Handle : waitpipe'[g] = -1
      BY <2>0, <3>1 DEF WokenInv
    <3>3. CASE waitret = "user"
      BY <2>4, <3>2, <3>3 DEF WaitEnds, Return, WokenInv, WaitLocation
    <3>4. CASE waitret # "user"
      <4>1. pc' = "kill_waited" /\ UNCHANGED <<owner, uh, fh, wfd, wres>>
        BY <2>4, <3>4 DEF WaitEnds, Goto
      <4>2. Cur' = Cur /\ (Over(Cur) => Over(Cur)')
        BY <3>1, <4>1 DEF Cur, Over
      <4>3. QED
        BY <3>1, <3>2, <4>1, <4>2 DEF WokenInv, WaitLocation
    <3>5. QED
      BY <3>3, <3>4
  <2>5. CASE KillWaited
    BY <2>5 DEF KillWaited, At, Goto, WokenInv, WaitLocation
  <2>6. QED
    BY <1>1, <2>1, <2>2, <2>3, <2>4, <2>5, WaitSteps
<1>2. CASE pc \notin WaitLocation \cup {"kill_waited"}
  <2>0. \A h \in Handle : waitpipe[h] = -1
    BY <1>2 DEF WokenInv
  <2>1. ASSUME NEW h \in Handle, NEW f \in Fd, NEW t \in -1..MaxSlices, wait(h, f, t)
        PROVE  WokenInv'
    <3>1. h = Cur' /\ WaitBegins(h, f, t)
      BY <2>1 DEF wait, Called, InR, At, CtlInv, FinLocation, WaitLocation, Cur, WaitBegins
    <3>2. QED
      BY <1>2, <3>1, WokenBegins
  <2>2. ASSUME NEW f \in Fd, NEW t \in 0..MaxSlices, KillWaits(f, t) PROVE WokenInv'
    <3>1. Cur' = Cur /\ WaitBegins(Cur, f, t)
      BY <2>2 DEF KillWaits, WaitBegins, Cur
    <3>2. Cur \in Handle
      BY <2>2 DEF KillWaits, At, HandleInv, HereInv, KillLocation, Cur, MainTypeOK
    <3>3. QED
      BY <1>2, <3>1, <3>2, WokenBegins
  <2>3. CASE KillEnds
    <3>1. wfd' = -1 /\ UNCHANGED waitpipe /\ pc' \in {"idle", "fin_clear"}
      BY <2>3 DEF KillEnds, Return, Goto
    <3>2. QED
      BY <2>0, <3>1 DEF WokenInv, WaitLocation
  <2>4. CASE /\ UNCHANGED wfd /\ (pc' \in PipeLocation \/ wfd = -1)
             /\ pc' \in WaitLocation => pc \in WaitLocation
             /\ ~ \E h \in Handle, f \in Fd, t \in -1..MaxSlices : wait(h, f, t)
             /\ ~ \E f \in Fd, t \in 0..MaxSlices : KillWaits(f, t)
             /\ ~ WaitEnds /\ ~ KillEnds
    <3>1. pc' \notin WaitLocation \cup {"kill_waited"}
      <4>1. pc' = "kill_waited" => pc = "kill_waited"
        BY <2>4 DEF Next, Calls, At, Goto, Return, Children, Signals, Displaced, Opens, Exec,
           ExecStarts,
           ExecFailsEarly, ExecForks, ExecMakesNode, ExecNoMemory, ExecLinks,
           ExecSucceeds, ExecReadsErrno, ExecReaps, Wait, WaitNoPipe,
           WaitWoken, WaitSlice, WaitInterrupted, WaitChecks, Kill, kill, Blocks,
           KillChecks, KillTerminates, KILL_WITH, KillWaited, KillKills, KillReaps,
           Finalizer, Drops, FinalizerStarts, FinalizerKills, FinalizerClears, FinalizerDestroys,
           Unload, UnloadStarts, UnloadRemoves, UnloadKills, UnloadFrees, UnloadEnds, AliveChecks,
           SignalTooLate, SignalReaps, is_alive, signal, SignalSends
      <4>2. QED
        BY <1>2, <2>4, <4>1
    <3>2. \A h \in Handle : waitpipe'[h] = -1
      <4>1. ASSUME NEW h \in Handle, NEW cl \in BOOLEAN, ExecStarts(h, cl), NEW g \in Handle
            PROVE  waitpipe'[g] = -1
        BY <2>0, <4>1 DEF ExecStarts, make_handle
      <4>2. ASSUME NEW h, NEW p, Collector(h, p), NEW g \in Handle PROVE waitpipe'[g] = -1
        BY <2>0, <4>2 DEF Collector
      <4>3. QED
        BY <2>0, <2>4, <4>1, <4>2, FdsNext DEF ExecMakesNode, ExecNoMemory, WaitInterrupted,
           FinalizerDestroys, Opens, Uninterrupted
    <3>3. wfd # -1 => wfd \in Fd /\ owner'[wfd] # "pty"
      <4>1. \A f \in Fd \cup {-1} : ExecMakesNode(f) \/ ExecNoMemory(f) => wfd = -1
        BY DEF ExecMakesNode, ExecNoMemory, ExecOpensPty, At, PipeInv, PipeLocation, WaitLocation
      <4>2. ASSUME NEW S, owner' = Closed(S), wfd # -1 PROVE wfd \in Fd /\ owner'[wfd] # "pty"
        BY <4>2 DEF Closed, WokenInv, MainTypeOK
      <4>3. ASSUME NEW f \in Fd, Opens(f), wfd # -1 PROVE wfd \in Fd /\ owner'[wfd] # "pty"
        BY <4>3 DEF Opens, OtherOpens, WokenInv, MainTypeOK
      <4>4. UNCHANGED owner /\ wfd # -1 => wfd \in Fd /\ owner'[wfd] # "pty"
        BY DEF WokenInv, MainTypeOK
      <4>5. QED
        BY <2>4, <4>1, <4>2, <4>3, <4>4, FdsNext DEF Collector, ExecStarts, WaitInterrupted,
           FinalizerDestroys, handle_destroy
    <3>4. QED
      BY <2>4, <3>1, <3>2, <3>3 DEF WokenInv, WaitLocation
  <2>5. ~ WaitEnds /\ ~ WaitInterrupted
    BY <1>2 DEF WaitEnds, WaitInterrupted, At, WaitLocation
  <2>6. QED
    BY <2>1, <2>2, <2>3, <2>4, <2>5, PipeSteps
<1>3. QED
  BY <1>1, <1>2

\* Both.
LEMMA NextWoken ==
    ASSUME Uninterrupted, TypeInv, CtlInv, HandleInv, PipeInv, PtyInv, WokenInv, [Next]_vars
    PROVE  PtyInv' /\ WokenInv'
<1>1. CASE UNCHANGED vars
  BY <1>1 DEF vars, PtyInv, WokenInv, Opening, Over, Cur
<1>2. QED
  BY <1>1, PtyNext, WokenNext

\* What R is told is true: exit statuses, and the answer of wait() and of the wait of a
\* gracious kill.  The assumptions are the ones of StatusesAreTrue and WokenInv
\* (processx.c:655-696, 805-838, sigchld.c:47-87).
THEOREM AnswersAreTrue ==
    ASSUME Uninterrupted, "reuse" \notin Env PROVE Spec => []AnswersTrue
<1> DEFINE I == /\ TypeInv /\ CtlInv /\ HandleInv /\ PipeInv /\ PtyHeld
                /\ PidUnique /\ EndedInv /\ StatusInv /\ PtyInv /\ WokenInv
<1>1. Init => I
  BY InitTypes, InitControl, InitHandles, InitFds, InitStatus, InitWoken
<1>2. I /\ [Next]_vars => I'
  BY NextTypes, NextControl, NextHandles, NextFds, NextEnded, NextStatus, NextWoken
<1>3. I => AnswersTrue
  BY DEF EndedInv, StatusInv, WokenInv, Over, AnswersTrue, ExitStatusTrue, WaitIsRight
<1>4. QED
  BY <1>1, <1>2, <1>3, PTL DEF Spec

\* The pipe of a wait does not become the descriptor of somebody else.
OwnInv == wfd # -1 => owner[wfd] # "other"

\* What a step does to the descriptors of others, and to the pipe of a wait.
LEMMA OthersNext ==
    ASSUME Uninterrupted, "threads" \notin Env, TypeInv, CtlInv, HandleInv, PipeInv, PtyInv,
           WokenInv, OwnInv, Next
    PROVE  OwnInv' /\ \A f \in Fd : owner[f] = "other" => owner'[f] = "other"
<1> USE DEF TypeInv, TypeOK, KernelTypeOK, HandleTypeOK
<1>0. -1 \notin Fd
  BY FdAssumption
<1>1. ASSUME NEW h, NEW f \in Fd, NEW t, WaitBegins(h, f, t)
      PROVE  OwnInv' /\ \A g \in Fd : owner[g] = "other" => owner'[g] = "other"
  BY <1>1 DEF WaitBegins, OwnInv
<1>2. CASE WaitInterrupted \/ WaitEnds \/ KillEnds
  <2>1. \A f \in Fd : owner[f] = "other" => owner'[f] = "other"
    <3>1. UNCHANGED owner \/ owner' = Closed({wfd})
      BY <1>2 DEF WaitInterrupted, WaitEnds, KillEnds
    <3>2. QED
      BY <1>0, <3>1 DEF Closed, OwnInv
  <2>2. OwnInv'
    <3>1. wfd' = -1 \/ UNCHANGED <<owner, wfd>>
      BY <1>2 DEF WaitInterrupted, WaitEnds, KillEnds
    <3>2. QED
      BY <3>1 DEF OwnInv
  <2>3. QED
    BY <2>1, <2>2
<1>3. ASSUME UNCHANGED wfd, UNCHANGED owner
      PROVE  OwnInv' /\ \A f \in Fd : owner[f] = "other" => owner'[f] = "other"
  BY <1>3 DEF OwnInv
<1>4. ASSUME UNCHANGED wfd, NEW S, owner' = Closed(S),
             \A f \in Fd : owner[f] = "other" => f \notin S
      PROVE  OwnInv' /\ \A f \in Fd : owner[f] = "other" => owner'[f] = "other"
  BY <1>4 DEF OwnInv, Closed, MainTypeOK
<1>5. ASSUME UNCHANGED wfd, NEW h, NEW p, Collector(h, p)
      PROVE  OwnInv' /\ \A f \in Fd : owner[f] = "other" => owner'[f] = "other"
  <2>1. h \in Handle /\ mem[h] = "live" /\ ~ Opening(h)
    BY <1>5, CollectorKnown, CollectorFd
  <2>2. \A f \in Fd : owner[f] = "other" => f \notin CollectCloses(h)
    BY <1>0, <2>1 DEF CollectCloses, PtyInv
  <2>3. \A f \in Fd : owner[f] = "other" => f \notin CollectCloses(h) \cup {waitpipe[h]}
    BY <1>0, <2>1, <2>2 DEF WokenInv, OwnInv
  <2>4. QED
    BY <1>4, <1>5, <2>2, <2>3 DEF Collector
<1>6. CASE UNCHANGED wfd /\ FinalizerDestroys
  <2>1. fh \in Handle /\ mem[fh] = "live" /\ ~ Opening(fh)
    BY <1>6 DEF FinalizerDestroys, At, CtlInv, HandleInv, HereInv, MainTypeOK, Opening
  <2>2. \A f \in Fd : owner[f] = "other" => f \notin {pty_child_fd[fh]}
    BY <1>0, <2>1 DEF PtyInv
  <2>3. QED
    BY <1>4, <1>6, <2>2 DEF FinalizerDestroys, handle_destroy
<1>7. ASSUME UNCHANGED wfd, NEW k \in Fd \cup {-1}, ExecMakesNode(k) \/ ExecNoMemory(k)
      PROVE  OwnInv' /\ \A f \in Fd : owner[f] = "other" => owner'[f] = "other"
  <2>1. /\ owner' = [g \in Fd |-> IF g = k THEN "pty" ELSE owner[g]]
        /\ k \in Fd => owner[k] = "free"
    BY <1>7 DEF ExecMakesNode, ExecNoMemory, ExecOpensPty, CanOpen
  <2>2. QED
    BY <1>7, <2>1 DEF OwnInv, MainTypeOK
<1>8. ASSUME UNCHANGED wfd, NEW f \in Fd, Opens(f)
      PROVE  OwnInv' /\ \A g \in Fd : owner[g] = "other" => owner'[g] = "other"
  <2>1. wfd = -1
    BY <1>8 DEF Opens, InR, At, PipeInv, PipeLocation, WaitLocation
  <2>2. QED
    BY <1>8, <2>1 DEF OwnInv, Opens, OtherOpens
<1>9. QED
  BY <1>1, <1>2, <1>3, <1>5, <1>6, <1>7, <1>8, PipeSteps, FdsNext DEF wait, KillWaits, ExecStarts

\* processx closes no descriptor that belongs to other code: not with a pty descriptor or
\* the end of a wait pipe that a handle still has after it was closed, and not with the 0 of
\* memset() (processx.c:401-415, 692-695, sigchld.c:84-87).  The assumptions: R runs
\* nothing that opens files while a wait is under way (R code cannot, other threads can),
\* and the ones of WokenInv.
THEOREM OthersAreKept ==
    ASSUME Uninterrupted, "threads" \notin Env PROVE Spec => OtherFdsKept
<1> DEFINE I == /\ TypeInv /\ CtlInv /\ HandleInv /\ PipeInv /\ PtyHeld
                /\ PtyInv /\ WokenInv /\ OwnInv
<1>1. Init => I
  BY InitTypes, InitControl, InitHandles, InitFds, InitWoken DEF Init, MainInit, OwnInv
<1>2. I /\ [Next]_vars => I' /\ [\A f \in Fd : owner[f] = "other" => owner'[f] = "other"]_vars
  <2>1. CASE UNCHANGED vars
    BY <2>1, NextTypes, NextControl, NextHandles, NextFds, NextWoken DEF vars, OwnInv
  <2>2. QED
    BY <2>1, NextTypes, NextControl, NextHandles, NextFds, NextWoken, OthersNext
<1>3. QED
  BY <1>1, <1>2, PTL DEF Spec, OtherFdsKept

---------------------------------------------------------------------------
(* cleanup = TRUE *)

\* A handle whose start failed has no running process, and every other handle that R can
\* call processx with has its pid.
StartedInv ==
    /\ \A h \in Handle : ref[h] \in {"garbage", "finalized"} /\ hpid[h] = 0 =>
          child[h] \notin Alive
    /\ \A h \in Handle : ref[h] = "held" /\ ~ (h = uh /\ InExec) => hpid[h] # 0

\* The finalizer of a handle that has to be cleaned up gets past its kill only when the
\* process is over.
CleanInv ==
    /\ fh # NoNode /\ pc \in {"kill_cleanup", "fin_clear", "fin_destroy"} /\ cleanup[fh] =>
          child[fh] \notin Alive
    /\ CleanupKills

\* They hold in the beginning.
LEMMA InitClean == Init => StartedInv /\ CleanInv
  BY DEF Init, KernelInit, HandleInit, MainInit, StartedInv, CleanInv, CleanupKills

\* How processx_exec ends.
LEMMA InExecEnds ==
    ASSUME TypeInv, CtlInv, HandleInv, Next, InExec, ~ (InExec' /\ uh' = uh)
    PROVE  \/ ExecFailsEarly \/ ExecSucceeds \/ ExecReaps
           \/ \E f \in Fd \cup {-1} : ExecNoMemory(f)
<1> USE DEF InExec, ExecLocation, CtlInv, FinLocation, WaitLocation, At, Goto, Return
<1>1. CASE UNCHANGED <<pc, uh, fh>>
  BY <1>1
<1>2. CASE Exec
  BY <1>2 DEF Exec, ExecStarts, InR, ExecForks, ExecMakesNode, ExecOpensPty, ExecLinks,
     ExecReadsErrno
<1>3. ASSUME NEW h, NEW l \in {"alive_check", "sig_send", "kill_check"}, Blocks(h, l)
      PROVE  FALSE
  BY <1>3 DEF Blocks, Called, InR
<1>4. CASE Wait
  BY <1>4 DEF Wait, wait, WaitBegins, KillWaits, WaitNoPipe, WaitWoken, WaitSlice,
     WaitInterrupted, WaitChecks, WaitEnds, Called, InR
<1>5. CASE Kill
  BY <1>3, <1>5 DEF Kill, kill, KillChecks, KillTerminates, KILL_WITH, KillWaited, KillKills,
     KillReaps, KillEnds
<1>6. CASE Finalizer
  <2>1. ASSUME NEW h \in Handle, FinalizerStarts(h) PROVE FALSE
    <3>1. pc = "exec_weakref" /\ uh # NoNode /\ UNCHANGED uh
      BY <2>1 DEF FinalizerStarts, TypeInv, RegInv
    <3>2. (fh' = h /\ h # NoNode) \/ UNCHANGED <<fh, pc>>
      BY <2>1, NoNodeAssumption DEF FinalizerStarts
    <3>3. QED
      BY <3>1, <3>2
  <2>2. CASE FinalizerDestroys
    BY <2>2 DEF FinalizerDestroys
  <2>3. QED
    BY <1>6, <2>1, <2>2 DEF Finalizer, Drops, Called, InR, FinalizerKills, FinalizerClears
<1>7. CASE Unload
  BY <1>7 DEF Unload, UnloadStarts, UnloadRemoves, UnloadKills, UnloadFrees, UnloadEnds, InR
<1>8. CASE \/ AliveChecks \/ SignalTooLate \/ SignalReaps
           \/ \E h \in Handle : is_alive(h) \/ signal(h)
           \/ \E sig \in Signal : SignalSends(sig)
  BY <1>3, <1>8, NoNodeAssumption DEF is_alive, signal, AliveChecks, SignalTooLate,
     SignalReaps, SignalSends
<1>9. CASE Children \/ Signals \/ Displaced \/ \E f \in Fd : Opens(f)
  BY <1>1, <1>9 DEF Children, Signals, Displaced, Opens
<1>10. QED
  BY <1>2, <1>4, <1>5, <1>6, <1>7, <1>8, <1>9 DEF Next, Calls

\* Nobody changes handle->cleanup once the handle was made.
LEMMA CleanupNext ==
    ASSUME TypeInv, Next, NEW h \in Handle, ref[h] # "none" PROVE cleanup'[h] = cleanup[h]
<1>1. ASSUME NEW g \in Handle, NEW cl \in BOOLEAN, ExecStarts(g, cl) PROVE cleanup'[h] = cleanup[h]
  BY <1>1 DEF ExecStarts, make_handle, TypeInv, TypeOK, HandleTypeOK
<1>2. CASE UNCHANGED cleanup
  BY <1>2
<1>3. QED
  BY <1>1, <1>2 DEF Next, Children, Signals, Calls, Displaced, Opens,
     Exec, ExecFailsEarly, ExecThrows, ExecForks, ExecMakesNode, ExecNoMemory,
     ExecLinks, ExecSucceeds, ExecReadsErrno, ExecReaps, Wait, wait, WaitBegins, KillWaits,
     WaitNoPipe, WaitWoken, WaitSlice, WaitInterrupted, WaitChecks, WaitEnds, Kill, kill,
     Blocks, KillChecks, KillTerminates, KILL_WITH, KillWaited, KillKills, KillReaps, KillEnds,
     Finalizer, Drops, FinalizerStarts, FinalizerKills, FinalizerClears, FinalizerDestroys,
     Unload, UnloadStarts, UnloadRemoves, UnloadKills, UnloadFrees, UnloadEnds, AliveChecks,
     SignalTooLate, SignalReaps, is_alive, signal, SignalSends, OtherThreadTakes,
     OtherThreadForwards, SignalLost, Callback, CallbackEnters, CallbackKeeps, CallbackReaps,
     CallbackReturns

\* Handles that R cannot reach any more, and handles without a pid.
LEMMA StartedNext ==
    ASSUME "oom" \notin Env, TypeInv, CtlInv, HandleInv, StartedInv, Next
    PROVE  StartedInv'
<1> USE DEF HandleInv, TypeInv, TypeOK, HandleTypeOK, KernelTypeOK
<1>1. \A h \in Handle : hpid[h] # 0 => hpid'[h] # 0
  BY FieldsNext DEF ExecStarts, make_handle, ExecFailsEarly, ExecForks, ExecSucceeds, HereInv,
     InExec, ExecLocation, At, ExecReaps, ExecNoMemory, Drops, FinalizerStarts, FinalizerClears,
     FinalizerDestroys, UnloadFrees
<1>2. ASSUME NEW h \in Handle, ref'[h] \in {"garbage", "finalized"}, hpid'[h] = 0
      PROVE  child'[h] \notin Alive
  <2>1. CASE ref[h] \in {"garbage", "finalized"}
    <3>1. h # uh
      BY <2>1, NoNodeAssumption DEF HereInv
    <3>2. QED
      BY <1>1, <1>2, <2>1, <3>1, OverForGood DEF StartedInv
  <2>2. CASE ref[h] \notin {"garbage", "finalized"} /\ ExecReaps
    <3>1. h = uh
      BY <1>2, <2>2 DEF ExecReaps, ExecThrows
    <3>2. kpid[h] # 0
      BY <2>2, <3>1 DEF ExecReaps, At, ForkInv, InExec, ExecLocation
    <3>3. child'[h] = "reaped"
      BY <2>2, <3>1, <3>2, NotRunning DEF ExecReaps
    <3>4. QED
      BY <3>3 DEF Alive
  <2>3. CASE ref[h] \notin {"garbage", "finalized"} /\ ExecFailsEarly
    <3>1. h = uh
      BY <1>2, <2>3 DEF ExecFailsEarly, ExecThrows
    <3>2. child'[h] = "none"
      BY <2>3, <3>1 DEF ExecFailsEarly, At, ForkInv
    <3>3. QED
      BY <3>2 DEF Alive
  <2>4. ASSUME NEW g \in Handle, Drops(g), ref[h] \notin {"garbage", "finalized"} PROVE FALSE
    <3>1. h = g /\ ref[h] = "held" /\ pc = "idle"
      BY <1>2, <2>4 DEF Drops, Called, InR, At
    <3>2. ~ InExec
      BY <3>1 DEF InExec, ExecLocation, CtlInv
    <3>3. QED
      BY <1>1, <1>2, <3>1, <3>2 DEF StartedInv
  <2>5. CASE ref[h] \notin {"garbage", "finalized"} /\ ref'[h] = ref[h]
    BY <1>2, <2>5
  <2>6. QED
    <3>1. ASSUME NEW cl \in BOOLEAN, ExecStarts(h, cl) PROVE FALSE
      BY <1>2, <3>1 DEF ExecStarts, make_handle
    <3>2. FinalizerStarts(h) => ref[h] = "garbage"
      BY DEF FinalizerStarts
    <3>3. \A f \in Fd \cup {-1} : ~ ExecNoMemory(f)
      BY DEF ExecNoMemory
    <3>4. QED
      BY <1>2, <2>1, <2>2, <2>3, <2>4, <2>5, <3>1, <3>2, <3>3, RefNext
<1>3. ASSUME NEW h \in Handle, ref'[h] = "held", ~ (h = uh' /\ InExec') PROVE hpid'[h] # 0
  <2>1. CASE ref[h] # "held"
    <3>1. PICK cl \in BOOLEAN : ExecStarts(h, cl)
      BY <1>3, <2>1, RefNext DEF Drops, FinalizerStarts
    <3>2. uh' = h /\ pc' = "exec_pipes"
      BY <3>1 DEF ExecStarts, Goto
    <3>3. QED
      BY <1>3, <3>2 DEF InExec, ExecLocation
  <2>2. CASE ref[h] = "held" /\ ~ (h = uh /\ InExec)
    BY <1>1, <2>2 DEF StartedInv
  <2>3. CASE h = uh /\ InExec
    <3>1. \/ ExecFailsEarly \/ ExecSucceeds \/ ExecReaps
          \/ \E f \in Fd \cup {-1} : ExecNoMemory(f)
      BY <1>3, <2>3, InExecEnds
    <3>2. ExecSucceeds
      BY <1>3, <2>3, <3>1 DEF ExecFailsEarly, ExecReaps, ExecNoMemory, ExecThrows
    <3>3. kpid[h] # 0
      BY <2>3, <3>2 DEF ExecSucceeds, At, ForkInv
    <3>4. QED
      BY <2>3, <3>2, <3>3 DEF ExecSucceeds
  <2>4. QED
    BY <2>1, <2>2, <2>3
<1>4. QED
  BY <1>2, <1>3 DEF StartedInv

\* The end of the kill of a finalizer.
LEMMA KilledNext ==
    ASSUME TypeInv, CtlInv, HandleInv, EndedInv, WokenInv, StartedInv, Next, fh # NoNode,
           fh' = fh, pc \notin {"kill_cleanup", "fin_clear", "fin_destroy"},
           pc' \in {"kill_cleanup", "fin_clear", "fin_destroy"}
    PROVE  child[fh] \notin Alive
<1> USE DEF TypeInv, TypeOK, HandleTypeOK, KernelTypeOK
<1>0. Cur = fh /\ fh \in Handle /\ ref[fh] = "finalized"
  BY DEF Cur, HandleInv, HereInv, MainTypeOK
<1>1. ~ WaitRunning(hpid[fh]) => child[fh] \notin Alive
  BY <1>0, NotRunning DEF StartedInv, HandleInv, ForkInv
<1>2. ASSUME NEW g, KillChecks(g) PROVE child[fh] \notin Alive
  <2>1. collected[fh] => child[fh] \notin Alive
    BY <1>0 DEF EndedInv, StartedInv, Alive
  <2>2. ~ collected[fh] => ~ WaitRunning(hpid[fh])
    BY <1>0, <1>2 DEF KillChecks, Goto
  <2>3. QED
    BY <1>1, <2>1, <2>2
<1>3. CASE KillTerminates \/ KillKills
  <2>1. hpid[fh] # 0 /\ Occupant(hpid[fh]) = {}
    BY <1>0, <1>3 DEF KillTerminates, KillKills, KILL_WITH, Goto
  <2>2. QED
    BY <1>0, <2>1 DEF Occupant, HandleInv, ForkInv
<1>4. CASE KillWaited
  BY <1>0, <1>4 DEF KillWaited, At, Goto, WokenInv, Over
<1>5. CASE KillReaps
  BY <1>0, <1>1, <1>5 DEF KillReaps
<1>6. CASE Exec \/ Wait \/ Unload \/ AliveChecks \/ SignalTooLate \/ SignalReaps \/ KillEnds
  BY <1>6 DEF Exec, ExecStarts, ExecFailsEarly, ExecForks, ExecMakesNode, ExecNoMemory,
     ExecLinks, ExecSucceeds, ExecReadsErrno, ExecReaps, Wait, wait, WaitBegins, KillWaits,
     WaitNoPipe, WaitWoken, WaitSlice, WaitInterrupted, WaitChecks, WaitEnds, Unload,
     UnloadStarts, UnloadRemoves, UnloadKills, UnloadFrees, UnloadEnds, AliveChecks,
     SignalTooLate, SignalReaps, KillEnds, At, Goto, Return
<1>7. CASE \/ \E h \in Handle : is_alive(h) \/ signal(h) \/ kill(h)
           \/ \E sig \in Signal : SignalSends(sig)
  BY <1>7 DEF is_alive, signal, kill, Blocks, SignalSends, Goto
<1>8. CASE Finalizer
  BY <1>8 DEF Finalizer, Drops, FinalizerStarts, FinalizerKills, FinalizerClears,
     FinalizerDestroys, At, Goto, CtlInv, FinLocation, WaitLocation
<1>9. CASE Children \/ Signals \/ Displaced \/ \E f \in Fd : Opens(f)
  BY <1>9 DEF Children, Signals, Displaced, Opens
<1>10. QED
  BY <1>2, <1>3, <1>4, <1>5, <1>6, <1>7, <1>8, <1>9 DEF Next, Calls, Kill

\* A finalizer begins.
LEMMA FinalizerNext ==
    ASSUME TypeInv, CtlInv, HandleInv, Next, fh' # NoNode, fh' # fh
    PROVE  /\ fh' \in Handle /\ ref[fh'] = "garbage" /\ FinalizerStarts(fh')
           /\ pc' = "fin_kill" \/ (pc' = "fin_clear" /\ ~ cleanup[fh'])
<1>1. ASSUME NEW h \in Handle, FinalizerStarts(h)
      PROVE  /\ fh' \in Handle /\ ref[fh'] = "garbage" /\ FinalizerStarts(fh')
             /\ pc' = "fin_kill" \/ (pc' = "fin_clear" /\ ~ cleanup[fh'])
  BY <1>1 DEF FinalizerStarts, Goto
<1>2. QED
  BY <1>1 DEF Next, Children, Signals, Calls, Displaced, Opens, Return,
     Exec, ExecStarts, ExecFailsEarly, ExecForks, ExecMakesNode, ExecNoMemory,
     ExecLinks, ExecSucceeds, ExecReadsErrno, ExecReaps, Wait, wait, WaitBegins, KillWaits,
     WaitNoPipe, WaitWoken, WaitSlice, WaitInterrupted, WaitChecks, WaitEnds, Kill, kill,
     Blocks, KillChecks, KillTerminates, KILL_WITH, KillWaited, KillKills, KillReaps, KillEnds,
     Finalizer, Drops, FinalizerKills, FinalizerClears, FinalizerDestroys,
     Unload, UnloadStarts, UnloadRemoves, UnloadKills, UnloadFrees, UnloadEnds, AliveChecks,
     SignalTooLate, SignalReaps, is_alive, signal, SignalSends

\* A step keeps the promise of cleanup.
LEMMA NextClean ==
    ASSUME "oom" \notin Env, TypeInv, CtlInv, HandleInv, EndedInv, WokenInv, StartedInv, CleanInv,
           [Next]_vars
    PROVE  StartedInv' /\ CleanInv'
<1> USE DEF HandleInv, TypeInv, TypeOK, HandleTypeOK, KernelTypeOK
<1>1. CASE UNCHANGED vars
  BY <1>1 DEF vars, StartedInv, CleanInv, CleanupKills, InExec
<1>2. CASE Next
  <2>0. fh # NoNode => fh \in Handle /\ ref[fh] = "finalized" /\ fh # uh
    BY NoNodeAssumption DEF HereInv, MainTypeOK
  <2>1. ASSUME fh' # NoNode, pc' \in {"kill_cleanup", "fin_clear", "fin_destroy"}, cleanup'[fh']
        PROVE  child'[fh'] \notin Alive
    <3>1. fh' = fh
      BY <1>2, <2>1, FinalizerNext, CleanupNext
    <3>2. cleanup[fh]
      BY <1>2, <2>0, <2>1, <3>1, CleanupNext
    <3>3. child[fh] \notin Alive
      BY <1>2, <2>1, <3>1, <3>2, KilledNext DEF CleanInv
    <3>4. QED
      BY <1>2, <2>0, <2>1, <3>1, <3>3, OverForGood
  <2>2. ASSUME NEW h \in Handle, mem'[h] = "freed", cleanup'[h] PROVE child'[h] \notin Alive
    <3>1. CASE mem[h] = "freed"
      <4>1. h # uh /\ ref[h] # "none"
        BY <3>1, NoNodeAssumption DEF HereInv, MemInv, BlankInv
      <4>2. QED
        BY <1>2, <2>2, <3>1, <4>1, CleanupNext, OverForGood DEF CleanInv, CleanupKills
    <3>2. CASE mem[h] # "freed"
      <4>1. FinalizerDestroys /\ h = fh
        <5>1. ASSUME NEW g \in Handle, NEW cl \in BOOLEAN, ExecStarts(g, cl) PROVE FALSE
          BY <2>2, <3>2, <5>1 DEF ExecStarts, make_handle
        <5>2. UNCHANGED mem \/ FinalizerDestroys
          BY <1>2, <5>1, FieldsNext DEF ExecFailsEarly, ExecThrows, ExecForks, ExecSucceeds,
             ExecReaps, ExecNoMemory, Drops, FinalizerStarts, FinalizerClears, UnloadFrees
        <5>3. QED
          BY <2>2, <3>2, <5>2 DEF FinalizerDestroys, handle_destroy
      <4>2. QED
        BY <2>2, <4>1, <2>0 DEF FinalizerDestroys, At, CtlInv, CleanInv
    <3>3. QED
      BY <3>1, <3>2
  <2>3. QED
    BY <1>2, <2>1, <2>2, StartedNext DEF CleanInv, CleanupKills
<1>3. QED
  BY <1>1, <1>2

\* When a process object that was created with cleanup = TRUE is finalized, its process is
\* over: whether the kill was gracious or not, whoever reaped the process before, and
\* although pids are handed out again (processx.c:364-393, 1045-1119).  The assumptions: the
\* ones of WokenInv, without which the grace period can end before the process does; and
\* child_add has memory for the node, as its error leaves a process without a pid
\* (processx.c:594-602).
THEOREM CleanupIsKept ==
    ASSUME Uninterrupted, "oom" \notin Env PROVE Spec => []CleanupKills
<1> DEFINE I == /\ TypeInv /\ CtlInv /\ HandleInv /\ PipeInv /\ PtyHeld /\ EndedInv
                /\ PtyInv /\ WokenInv /\ StartedInv /\ CleanInv
<1>1. Init => I
  BY InitTypes, InitControl, InitHandles, InitFds, InitStatus, InitWoken, InitClean
<1>2. I /\ [Next]_vars => I'
  BY NextTypes, NextControl, NextHandles, NextFds, NextEnded, NextWoken, NextClean
<1>3. I => CleanupKills
  BY DEF CleanInv
<1>4. QED
  BY <1>1, <1>2, <1>3, PTL DEF Spec

-----------------------------------------------------------------------------
(***************************************************************************)
(* Signals.  No signal goes to a process that only has the pid of a child: *)
(* for any number of process objects, and although the kernel hands out    *)
(* the pid of every reaped child again at once, to another child of R or   *)
(* to a process that has nothing to do with R.                             *)
(***************************************************************************)
\* What the theorem assumes besides Undisturbed: SIGCHLD is not taken by another thread,
\* R has no other children in its process group, which waitpid(0) would report for a
\* handle without a pid, and kill() has no grace period, during which the handler may reap.
Protected == Env \cap {"threads", "siblings"} = {} /\ "grace" \notin Ops

\* Where the main program has blocked SIGCHLD, besides processx_exec.
Blocking ==
    { "alive_check", "sig_send", "sig_reap", "kill_check", "kill_kill", "kill_reap",
      "kill_cleanup" }

\* When SIGCHLD is blocked.
BlockInv ==
    /\ blocked => hptr = 0 /\ pc \in Blocking \cup {"exec_forked", "exec_weakref"}
    /\ pc \in Blocking => blocked
    /\ pc \notin {"kill_term", "wait_start", "kill_waited"} /\ waitret = "user" /\ ~ wmask
    /\ ~ forwarding /\ disposition # "foreign" /\ old_handler = "default"

\* The pid of a child that was not reaped belongs to nobody else.
StrangerInv ==
    /\ \A g \in Unreaped : kpid[g] \notin stranger
    /\ Forked => uh \in Unreaped

Alone(h) == \A g \in Unreaped : kpid[g] = kpid[h] => g = h

\* When a call has reaped a child that the handler did not see, then the handler runs
\* before anything else does that could make use of the pid.
LateInv ==
    \A h \in Handle : Listed(h) /\ child[h] = "reaped" =>
        /\ pending \/ (hptr # 0 /\ \E i \in hptr..Len(child_list) : child_list[i] = h)
        /\ blocked => pc = "kill_cleanup"
        /\ Alone(h)

\* The handler finds the handle of every object that R did not forget, and so it collects
\* whatever the calls have reaped and not collected.
FoundInv ==
    /\ \A h \in Handle : ref[h] \in {"held", "garbage"} => xptr[h]
    /\ \A h \in Handle : ref[h] \in {"held", "garbage"} /\ Listed(h) => wkey[h]
    /\ pc = "exec_weakref" => wkey[uh]
    /\ \A h \in Handle :
          /\ ref[h] = "held" \/ (ref[h] = "garbage" /\ hpid[h] # 0)
          /\ child[h] = "reaped" /\ ~ collected[h]
          => Listed(h)

\* Whom kill and signal are about to signal.
TargetInv ==
    /\ pc \in {"fin_kill", "kill_check"} /\ fh # NoNode /\ ~ collected[fh] /\ hpid[fh] # 0 =>
          Alone(fh)
    /\ pc \in {"kill_kill", "kill_reap"} => Cur \in Unreaped /\ hpid[Cur] # 0

Base == TypeInv /\ CtlInv /\ HandleInv /\ StartedInv /\ ZombieInv /\ NodesInv
SignalInv ==
    BlockInv /\ StrangerInv /\ LateInv /\ FoundInv /\ TargetInv /\ OnlyOwnChildSignalled

\* The invariant holds in the beginning.
LEMMA InitSignals == Init => SignalInv
<1> SUFFICES ASSUME Init PROVE SignalInv
  OBVIOUS
<1>1. \A h \in Handle : child[h] = "none" /\ ~ Listed(h)
  BY DEF Init, KernelInit, ListInit, Listed
<1>2. BlockInv /\ OnlyOwnChildSignalled
  BY DEF Init, KernelInit, SigchldInit, MainInit, BlockInv, Blocking, OnlyOwnChildSignalled
<1>3. StrangerInv /\ LateInv /\ TargetInv
  BY <1>1 DEF Init, KernelInit, MainInit, StrangerInv, LateInv, TargetInv, Forked
<1>4. FoundInv
  BY <1>1 DEF Init, HandleInit, MainInit, FoundInv
<1>5. QED
  BY <1>2, <1>3, <1>4 DEF SignalInv

\* The main program only runs while the handler does not, and leaves it alone.
LEMMA CallsRun == ASSUME Calls PROVE MainRuns /\ UNCHANGED <<pending, hptr, forwarding>>
<1> USE DEF At, InR, Called, setup_sigchld
<1>1. CASE Exec
  BY <1>1 DEF Exec, ExecStarts, ExecFailsEarly, ExecForks, ExecMakesNode, ExecOpensPty,
     ExecNoMemory, ExecLinks, ExecSucceeds, ExecReadsErrno, ExecReaps
<1>2. CASE Wait
  BY <1>2 DEF Wait, wait, WaitBegins, KillWaits, WaitNoPipe, WaitWoken, WaitSlice,
     WaitInterrupted, WaitChecks, WaitEnds
<1>3. CASE Kill
  BY <1>3 DEF Kill, kill, Blocks, KillChecks, KillTerminates, KILL_WITH, KillWaited, KillKills,
     KillReaps, KillEnds
<1>4. CASE Finalizer
  BY <1>4 DEF Finalizer, Drops, FinalizerStarts, FinalizerKills, FinalizerClears,
     FinalizerDestroys
<1>5. CASE Unload
  BY <1>5 DEF Unload, UnloadStarts, UnloadRemoves, remove_sigchld, UnloadKills, UnloadFrees,
     UnloadEnds
<1>6. CASE \/ AliveChecks \/ SignalTooLate \/ SignalReaps
           \/ \E h \in Handle : is_alive(h) \/ signal(h)
           \/ \E sig \in Signal : SignalSends(sig)
  BY <1>6 DEF AliveChecks, SignalTooLate, SignalReaps, is_alive, signal, Blocks, SignalSends
<1>7. QED
  BY <1>1, <1>2, <1>3, <1>4, <1>5, <1>6 DEF Calls

\* SIGCHLD is blocked where it should be.
LEMMA BlockNext ==
    ASSUME Undisturbed, Protected, Base, BlockInv, Next PROVE BlockInv'
<1> USE DEF At, MainRuns, Goto, Return, WaitForgets, BlockInv, Blocking, setup_sigchld, Undisturbed,
        Protected
<1>0. /\ pc \notin {"unload_remove", "unload_loop", "unload_reap"}
      /\ fh # NoNode => uh = NoNode
      /\ fh # NoNode => pc \in FinLocation
      /\ disposition \in {"processx", "foreign", "default"}
  BY DEF Base, CtlInv, ZombieInv, NoNesting, TypeInv, TypeOK, SigchldTypeOK
<1>1. CASE Exec
  <2>1. ASSUME NEW h \in Handle, NEW cl \in BOOLEAN, ExecStarts(h, cl) PROVE BlockInv'
    BY <1>0, <2>1 DEF ExecStarts, InR
  <2>2. CASE ExecFailsEarly \/ ExecSucceeds \/ ExecReadsErrno \/ ExecReaps
    <3>1. /\ pc \in {"exec_pipes", "exec_read", "exec_reap"} /\ pc' \in {"exec_reap", "idle"}
          /\ blocked' = blocked \/ blocked' = FALSE
          /\ waitret' = "user" /\ (wmask' = FALSE \/ wmask' = wmask)
          /\ UNCHANGED <<hptr, forwarding, disposition, old_handler>>
      BY <2>2 DEF ExecFailsEarly, ExecSucceeds, ExecReadsErrno, ExecReaps
    <3>2. QED
      BY <3>1
  <2>3. ASSUME NEW p \in Pid, ExecForks(p) PROVE BlockInv'
    BY <2>3 DEF ExecForks
  <2>4. ASSUME NEW f, ExecMakesNode(f) \/ ExecNoMemory(f) PROVE BlockInv'
    BY <2>4 DEF ExecMakesNode, ExecNoMemory, ExecOpensPty
  <2>5. CASE ExecLinks
    BY <2>5 DEF ExecLinks
  <2>6. QED
    BY <1>1, <2>1, <2>2, <2>3, <2>4, <2>5 DEF Exec
<1>2. ASSUME NEW h, NEW f, NEW t, wait(h, f, t) PROVE BlockInv'
  BY <1>0, <1>2 DEF wait, WaitBegins, Called, InR
<1>3. CASE \/ WaitNoPipe \/ WaitWoken \/ WaitSlice \/ WaitInterrupted \/ WaitChecks \/ WaitEnds
           \/ \E f \in Fd, t \in 0..MaxSlices : KillWaits(f, t)
  BY <1>0, <1>3 DEF WaitNoPipe, WaitWoken, WaitSlice, WaitInterrupted, WaitChecks, WaitEnds,
     KillWaits, Called, InR
<1>4. ASSUME NEW g \in BOOLEAN, KillChecks(g) PROVE BlockInv'
  BY <1>4 DEF KillChecks
<1>5. CASE KillTerminates \/ KillWaited \/ KillKills \/ KillReaps
  BY <1>5 DEF KillTerminates, KILL_WITH, KillWaited, KillKills, KillReaps
<1>6. CASE KillEnds
  BY <1>6 DEF KillEnds
<1>7. ASSUME NEW h, NEW l \in {"alive_check", "sig_send", "kill_check"}, Blocks(h, l)
      PROVE  BlockInv'
  BY <1>7 DEF Blocks, Called, InR
<1>8. CASE Finalizer
  <2>1. ASSUME NEW h \in Handle, Drops(h) \/ FinalizerStarts(h) PROVE BlockInv'
    BY <2>1 DEF Drops, FinalizerStarts, Called, InR
  <2>2. CASE FinalizerKills \/ FinalizerClears \/ FinalizerDestroys
    BY <1>0, <2>2 DEF FinalizerKills, FinalizerClears, FinalizerDestroys, CtlInv, Base
  <2>3. QED
    BY <1>8, <2>1, <2>2 DEF Finalizer
<1>9. CASE Unload
  BY <1>0, <1>9 DEF Unload, UnloadStarts, UnloadRemoves, UnloadKills, UnloadFrees, UnloadEnds
<1>10. CASE \/ AliveChecks \/ SignalTooLate \/ SignalReaps
            \/ \E sig \in Signal : SignalSends(sig)
  BY <1>10 DEF AliveChecks, SignalTooLate, SignalReaps, SignalSends
<1>11. CASE Children \/ Displaced \/ \E f \in Fd : Opens(f)
  BY <1>11 DEF Children, Displaced, Opens
<1>12. CASE Signals
  BY <1>12 DEF Signals, OtherThreadTakes, OtherThreadForwards, SignalLost, Callback,
     CallbackEnters, CallbackKeeps, CallbackReaps, CallbackReturns, Deliverable
<1>13. QED
  BY <1>1, <1>2, <1>3, <1>4, <1>5, <1>6, <1>7, <1>8, <1>9, <1>10, <1>11, <1>12 DEF Next, Calls,
     Wait, Kill, kill, is_alive, signal

---------------------------------------------------------------------------
(* Children that are reaped *)

\* Pids are given by fork() only.
LEMMA PidsNext ==
    ASSUME Next, ~ \E p \in Pid : ExecForks(p) PROVE UNCHANGED kpid
  BY FieldsNext DEF ExecStarts, ExecFailsEarly, ExecSucceeds, ExecReaps, ExecNoMemory, Drops,
     FinalizerStarts, FinalizerClears, FinalizerDestroys, UnloadFrees

\* Children come from fork() only.
LEMMA UnreapedNext ==
    ASSUME TypeInv, Next, NEW h \in Handle
    PROVE  /\ h \in Unreaped' => h \in Unreaped \/ (h = uh /\ \E p \in Pid : ExecForks(p))
           /\ h \in Unreaped => h \in Unreaped' \/ (child[h] = "zombie" /\ child'[h] = "reaped")
  BY ChildNext DEF Unreaped, Alive

\* Without a fork(), nobody gets the pid of h.
LEMMA AloneNext ==
    ASSUME TypeInv, Next, ~ (\E p \in Pid : ExecForks(p)), NEW h \in Handle, Alone(h)
    PROVE  Alone(h)'
<1>1. UNCHANGED kpid
  BY PidsNext
<1>2. \A g \in Unreaped' : g \in Unreaped
  BY UnreapedNext DEF Unreaped
<1>3. QED
  BY <1>1, <1>2 DEF Alone

\* A child that was not reaped is alone.
LEMMA UnreapedAlone ==
    ASSUME ZombieInv, NEW h \in Unreaped PROVE Alone(h)
  BY DEF ZombieInv, PidsUnique, Alone

\* Nor does anybody have the pid of a child whose node is listed.
LEMMA ListedAlone ==
    ASSUME Base, LateInv, NEW h \in Handle, Listed(h) PROVE Alone(h)
<1>1. child[h] \in Alive \cup {"zombie"} \/ child[h] = "reaped"
  BY DEF Base, TypeInv, TypeOK, KernelTypeOK, ChildState, HandleInv, ForkInv
<1>2. QED
  BY <1>1, UnreapedAlone DEF Base, Unreaped, LateInv

\* Before the main program goes on, the handler has seen everything that was reaped.
LEMMA Settled ==
    ASSUME BlockInv, LateInv, MainRuns, pc # "kill_cleanup", NEW h \in Handle, Listed(h)
    PROVE  child[h] # "reaped"
  BY DEF LateInv, MainRuns, Deliverable

\* So whoever was not collected was not reaped.
LEMMA SettledOwn ==
    ASSUME Base, SignalInv, MainRuns, pc # "kill_cleanup", NEW h \in Handle,
           ref[h] = "held" \/ (ref[h] = "garbage" /\ hpid[h] # 0), kpid[h] # 0, ~ collected[h]
    PROVE  h \in Unreaped
<1>1. child[h] # "reaped"
  BY Settled DEF SignalInv, FoundInv
<1>2. child[h] \in ChildState /\ child[h] # "none"
  BY DEF Base, TypeInv, TypeOK, KernelTypeOK, HandleInv, ForkInv
<1>3. QED
  BY <1>1, <1>2 DEF Unreaped, ChildState

\* The main program reaps children whose SIGCHLD is pending, and then it unblocks SIGCHLD
\* at once or in its next step.
LEMMA CallsReap ==
    ASSUME Undisturbed, Protected, Base, SignalInv, Calls, NEW h \in Handle,
           child[h] = "zombie", child'[h] = "reaped"
    PROVE  /\ pending' /\ ~ Forked /\ UNCHANGED <<child_list, ref, hpid>>
           /\ blocked' => pc' = "kill_cleanup"
<1> USE DEF At, Goto
<1>1. MainRuns /\ pending /\ blocked /\ pending' /\ hptr = 0
  BY CallsRun DEF Base, ZombieInv, NoLostZombie, SignalInv, BlockInv, MainRuns, Deliverable
<1>2. h \in Unreaped
  BY DEF Unreaped
<1>3. CASE AliveChecks
  BY <1>1, <1>3 DEF AliveChecks, Forked
<1>4. CASE SignalReaps
  BY <1>1, <1>4 DEF SignalReaps, Forked
<1>5. ASSUME NEW g \in BOOLEAN, KillChecks(g)
      PROVE  /\ pending' /\ ~ Forked /\ UNCHANGED <<child_list, ref, hpid>>
             /\ blocked' => pc' = "kill_cleanup"
  <2>1. child' = Reaped(hpid[Cur]) /\ ~ collected[Cur]
    BY <1>5 DEF KillChecks
  <2>2. kpid[h] = hpid[Cur] /\ kpid[h] # 0
    BY <2>1 DEF Reaped, Occupant, Base, HandleInv, ForkInv
  <2>3. ~ WaitRunning(hpid[Cur])
    <3>1. ASSUME NEW c \in Occupant(hpid[Cur]), child[c] \in Alive PROVE FALSE
      <4>1. c \in Unreaped /\ kpid[c] = kpid[h]
        BY <2>2, <3>1 DEF Occupant, Unreaped
      <4>2. c = h
        BY <1>2, <4>1 DEF Base, ZombieInv, PidsUnique
      <4>3. QED
        BY <3>1, <4>2 DEF Alive
    <3>2. QED
      BY <2>2, <3>1 DEF WaitRunning
  <2>4. QED
    BY <1>1, <1>5, <2>1, <2>3 DEF KillChecks, Forked
<1>6. CASE KillReaps
  BY <1>1, <1>6 DEF KillReaps, Forked
<1>7. ~ ExecReaps
  BY <1>1 DEF ExecReaps, SignalInv, BlockInv, Blocking
<1>8. ~ UnloadFrees
  BY DEF UnloadFrees, Base, CtlInv, Undisturbed
<1>9. ~ UNCHANGED child
  OBVIOUS
<1>10. \A p \in Pid : ~ ExecForks(p)
  BY DEF ExecForks, Base, TypeInv, TypeOK, KernelTypeOK
<1>11. QED
  BY <1>3, <1>4, <1>5, <1>6, <1>7, <1>8, <1>9, <1>10 DEF Calls, Exec, ExecStarts, ExecFailsEarly,
     ExecMakesNode, ExecNoMemory, ExecLinks, ExecSucceeds, ExecReadsErrno, Wait, wait,
     WaitBegins, KillWaits, WaitNoPipe, WaitWoken, WaitSlice, WaitInterrupted, WaitChecks,
     WaitEnds, Kill, kill, Blocks, KillTerminates, KILL_WITH, KillWaited, KillKills, KillEnds,
     Finalizer, Drops, FinalizerStarts, FinalizerKills, FinalizerClears, FinalizerDestroys,
     Unload, UnloadStarts, UnloadRemoves, UnloadKills, UnloadEnds, SignalTooLate, is_alive,
     signal, SignalSends

\* While SIGCHLD is blocked or the handler does not run, only the main program reaps.
LEMMA OthersReap ==
    ASSUME Undisturbed, Protected, Base, SignalInv, Next, ~ Calls, NEW h \in Handle,
           child[h] = "zombie", child'[h] = "reaped"
    PROVE  CallbackReaps /\ ~ blocked /\ UNCHANGED <<pc, regVars>>
<1>1. CASE Signals
  <2>1. CASE OtherThreadTakes \/ OtherThreadForwards
    BY <2>1 DEF OtherThreadTakes, OtherThreadForwards
  <2>2. CASE SignalLost
    BY <2>2 DEF SignalLost, Base, ZombieInv, Installed
  <2>3. CASE Callback
    BY <1>1, <2>3 DEF Signals, Callback, CallbackEnters, CallbackKeeps, CallbackReaps,
       CallbackReturns, SignalInv, BlockInv
  <2>4. QED
    BY <1>1, <2>1, <2>2, <2>3 DEF Signals
<1>2. CASE Children
  BY <1>2 DEF Children, ChildExec, ChildExecFails, ChildEnds, StrangerStarts, Alive, Base, TypeInv,
     TypeOK, KernelTypeOK
<1>3. CASE Displaced \/ \E f \in Fd : Opens(f)
  BY <1>3 DEF Displaced, Opens, OtherOpens
<1>4. QED
  BY <1>1, <1>2, <1>3 DEF Next

\* processx_exec gets to the linking of the node by a fork() only.
LEMMA ForkedNext ==
    ASSUME Base, Next, Forked', ~ \E p \in Pid : ExecForks(p) PROVE Forked /\ UNCHANGED uh
<1>1. /\ fh # NoNode => uh = NoNode
      /\ pc \in {"idle", "unload_remove", "unload_loop", "unload_reap"} => uh = NoNode
  BY DEF Base, CtlInv, ZombieInv, NoNesting
<1>2. InExec'
  BY DEF Forked, InExec, ExecLocation
<1>3. ~ \E h \in Handle, cl \in BOOLEAN : ExecStarts(h, cl)
  BY DEF ExecStarts, Goto, Forked
<1>4. InExec /\ UNCHANGED uh /\ pc # "exec_pipes"
  BY <1>2, <1>3, InExecNext, LocationNext DEF Base, Forked
<1>5. pc \in {"exec_forked", "exec_weakref", "exec_read", "exec_reap"}
  BY <1>1, <1>4 DEF InExec, ExecLocation
<1>6. pc \notin {"exec_read", "exec_reap"}
  BY <1>2, <1>5 DEF Forked, Next, Calls, At, Goto, Return, Children, Signals, Displaced, Opens,
     Exec, ExecStarts,
     ExecFailsEarly, ExecForks, ExecMakesNode, ExecOpensPty, ExecNoMemory, ExecLinks,
     ExecSucceeds, ExecReadsErrno, ExecReaps, Wait, wait, KillWaits, WaitNoPipe,
     WaitWoken, WaitSlice, WaitInterrupted, WaitChecks, WaitEnds, Kill, kill, Blocks,
     KillChecks, KillTerminates, KillWaited, KillKills, KillReaps, KillEnds,
     Finalizer, Drops, FinalizerStarts, FinalizerKills, FinalizerClears, FinalizerDestroys,
     Unload, UnloadStarts, UnloadRemoves, UnloadKills, UnloadFrees, UnloadEnds, AliveChecks,
     SignalTooLate, SignalReaps, is_alive, signal, SignalSends, InR, Called
<1>7. QED
  BY <1>4, <1>5, <1>6 DEF Forked

\* Nobody else gets the pid of a child that was not reaped.
LEMMA StrangerNext ==
    ASSUME Undisturbed, Protected, Base, SignalInv, Next PROVE StrangerInv'
<1> USE DEF SignalInv
<1>0. TypeInv
  BY DEF Base
<1>1. \A g \in Unreaped' : kpid'[g] \notin stranger'
  <2>1. ASSUME NEW p \in Pid, ExecForks(p) PROVE \A g \in Unreaped' : kpid'[g] \notin stranger'
    <3>1. /\ UNCHANGED stranger /\ p \notin stranger
          /\ kpid' = [kpid EXCEPT ![uh] = p] /\ uh \in Handle
      BY <1>0, <2>1 DEF ExecForks, PidFree, At, TypeInv, TypeOK, RegInv, MainTypeOK
    <3>2. \A g \in Unreaped' : g \in Handle /\ (g = uh \/ g \in Unreaped)
      BY <1>0, UnreapedNext DEF Unreaped
    <3>3. QED
      BY <1>0, <3>1, <3>2 DEF StrangerInv, TypeInv, TypeOK, KernelTypeOK
  <2>2. CASE ~ \E p \in Pid : ExecForks(p)
    <3>1. UNCHANGED kpid /\ \A g \in Unreaped' : g \in Unreaped
      BY <1>0, <2>2, PidsNext, UnreapedNext DEF Unreaped
    <3>2. ASSUME NEW p \in Pid, StrangerStarts(p), NEW g \in Unreaped PROVE kpid[g] \notin stranger'
      BY <3>2 DEF StrangerStarts, PidFree, Occupant, StrangerInv, Unreaped
    <3>3. UNCHANGED stranger \/ \E p \in Pid : StrangerStarts(p)
      BY DEF Next, Children, ChildExec, ChildExecFails, ChildEnds, Signals, Calls,
         Displaced, Opens, OtherOpens, Exec, ExecStarts, ExecFailsEarly, ExecForks, ExecMakesNode,
         ExecNoMemory, ExecLinks, ExecSucceeds, ExecReadsErrno, ExecReaps, Wait, wait, WaitBegins,
         KillWaits, WaitNoPipe, WaitWoken, WaitSlice, WaitInterrupted, WaitChecks, WaitEnds, Kill,
         kill, Blocks, KillChecks, KillTerminates, KILL_WITH, KillWaited, KillKills, KillReaps,
         KillEnds, Finalizer, Drops, FinalizerStarts, FinalizerKills, FinalizerClears,
         FinalizerDestroys, Unload, UnloadStarts, UnloadRemoves, UnloadKills, UnloadFrees,
         UnloadEnds, AliveChecks, SignalTooLate, SignalReaps, is_alive, signal, SignalSends,
         OtherThreadTakes, OtherThreadForwards, SignalLost, Callback, CallbackEnters,
         CallbackKeeps, CallbackReaps, CallbackReturns
    <3>4. QED
      BY <3>1, <3>2, <3>3 DEF StrangerInv
  <2>3. QED
    BY <2>1, <2>2
<1>2. ASSUME Forked' PROVE uh' \in Unreaped'
  <2>0. uh' \in Handle
    BY <1>0, <1>2, NextTypes DEF Forked, TypeInv, TypeOK, RegInv, MainTypeOK
  <2>1. ASSUME NEW p \in Pid, ExecForks(p) PROVE uh' \in Unreaped'
    BY <1>0, <2>0, <2>1 DEF ExecForks, Unreaped, Alive, TypeInv, TypeOK, KernelTypeOK
  <2>2. ASSUME Forked, UNCHANGED uh PROVE uh' \in Unreaped'
    <3>1. uh \in Unreaped /\ blocked /\ pc # "kill_cleanup"
      BY <2>2 DEF StrangerInv, Forked, Base, ZombieInv, NodeLinked
    <3>2. CASE Calls
      BY <1>0, <2>0, <2>2, <3>1, <3>2, UnreapedNext, CallsReap
    <3>3. CASE ~ Calls
      BY <1>0, <2>0, <2>2, <3>1, <3>3, UnreapedNext, OthersReap
    <3>4. QED
      BY <3>2, <3>3
  <2>3. ASSUME ~ \E p \in Pid : ExecForks(p) PROVE Forked /\ UNCHANGED uh
    BY <1>2, <2>3, ForkedNext
  <2>4. QED
    BY <2>1, <2>2, <2>3
<1>3. QED
  BY <1>1, <1>2 DEF StrangerInv

\* The last step of kill.
LEMMA CleanupStep == ASSUME Calls, pc = "kill_cleanup" PROVE KillEnds
<1> USE DEF At, InR, Called
<1>1. ~ Exec /\ ~ Finalizer /\ ~ Unload
  BY DEF Exec, ExecStarts, ExecFailsEarly, ExecForks, ExecMakesNode, ExecNoMemory, ExecOpensPty,
     ExecLinks, ExecSucceeds, ExecReadsErrno, ExecReaps, Finalizer, Drops, FinalizerStarts,
     FinalizerKills, FinalizerClears, FinalizerDestroys, Unload, UnloadStarts, UnloadRemoves,
     UnloadKills, UnloadFrees, UnloadEnds
<1>2. ~ Wait
  BY DEF Wait, wait, KillWaits, WaitNoPipe, WaitWoken, WaitSlice, WaitInterrupted, WaitChecks,
     WaitEnds
<1>3. ~ (\/ AliveChecks \/ SignalTooLate \/ SignalReaps
         \/ \E h \in Handle : is_alive(h) \/ signal(h)
         \/ \E sig \in Signal : SignalSends(sig))
  BY DEF AliveChecks, SignalTooLate, SignalReaps, is_alive, signal, Blocks, SignalSends
<1>4. CASE Kill
  BY <1>4 DEF Kill, kill, Blocks, KillChecks, KillTerminates, KillWaited, KillKills, KillReaps
<1>5. QED
  BY <1>1, <1>2, <1>3, <1>4 DEF Calls

\* A call does not leave a reaped child behind without a SIGCHLD to come.
LEMMA CallsLate ==
    ASSUME Undisturbed, Protected, Base, SignalInv, Next, Calls PROVE LateInv'
<1> USE DEF Base, SignalInv
<1>1. CASE pc = "kill_cleanup"
  <2>1. /\ UNCHANGED <<child, kpid, child_list, hptr, pending>>
        /\ blocked' = FALSE
    BY <1>1, CleanupStep DEF KillEnds
  <2>2. \A h : Alone(h) => Alone(h)'
    BY <2>1 DEF Alone, Unreaped
  <2>3. \A h : Listed(h)' => Listed(h)
    BY <2>1 DEF Listed
  <2>4. QED
    BY <2>1, <2>2, <2>3 DEF LateInv
<1>2. ASSUME pc # "kill_cleanup", NEW h \in Handle, Listed(h)', child'[h] = "reaped"
      PROVE  pending' /\ (blocked' => pc' = "kill_cleanup") /\ Alone(h)'
  <2>1. child[h] # "reaped"
    <3>1. Listed(h) => child[h] # "reaped"
      BY <1>2, CallsRun, Settled
    <3>2. h = uh /\ pc = "exec_weakref" => h \in Unreaped
      BY DEF StrangerInv, Forked
    <3>3. QED
      BY <1>2, <3>1, <3>2, ListedNext DEF Unreaped, Alive
  <2>2. child[h] = "zombie"
    BY <1>2, <2>1, ChildNext DEF Alive
  <2>3. ~ \E p \in Pid : ExecForks(p)
    BY <1>2, <2>1 DEF ExecForks, TypeInv, TypeOK, KernelTypeOK
  <2>4. Alone(h)'
    <3>1. h \in Unreaped
      BY <2>2 DEF Unreaped
    <3>2. QED
      BY <2>3, <3>1, UnreapedAlone, AloneNext
  <2>5. QED
    BY <1>2, <2>2, <2>4, CallsReap
<1>3. QED
  BY <1>1, <1>2 DEF LateInv

\* The handler does not overlook what the calls have reaped.
LEMMA SignalsLate ==
    ASSUME Undisturbed, Protected, Base, SignalInv, Next, Signals PROVE LateInv'
<1> USE DEF Base, SignalInv
<1>1. Len(child_list) \in Nat /\ hptr \in Nat
  BY DEF TypeInv, TypeOK, ListTypeOK, SigchldTypeOK
<1>2. ASSUME UNCHANGED <<child, child_list>>,
             \A h \in Handle : Listed(h) /\ child[h] = "reaped" =>
                 pending' \/ (hptr' # 0 /\ \E i \in hptr'..Len(child_list) : child_list[i] = h)
      PROVE  LateInv'
  <2>1. UNCHANGED <<pc, blocked, kpid>>
    BY DEF Signals, OtherThreadTakes, OtherThreadForwards, SignalLost, Callback, CallbackEnters,
       CallbackKeeps, CallbackReaps, CallbackReturns
  <2>2. \A h : (Alone(h) => Alone(h)') /\ (Listed(h)' => Listed(h))
    BY <1>2, <2>1 DEF Alone, Unreaped, Listed
  <2>3. QED
    BY <1>2, <2>1, <2>2 DEF LateInv
<1>3. CASE OtherThreadTakes \/ OtherThreadForwards
  BY <1>3 DEF OtherThreadTakes, OtherThreadForwards, Protected, BlockInv
<1>4. CASE SignalLost
  <2>1. \A h \in Handle : child[h] = "none"
    BY <1>4 DEF SignalLost, ZombieInv, Installed
  <2>2. \A h \in Handle : child'[h] = "none"
    BY <1>4, <2>1 DEF SignalLost, ForeignReaps
  <2>3. QED
    BY <2>2 DEF LateInv
<1>5. CASE CallbackEnters
  BY <1>2, <1>5 DEF CallbackEnters, Listed
<1>6. CASE CallbackKeeps
  <2> DEFINE n == child_list[hptr]
  <2>1. /\ hptr \in 1..Len(child_list) /\ WaitRunning(kpid[n]) /\ hptr' = hptr + 1
        /\ UNCHANGED <<child, child_list, pending>>
    BY <1>6 DEF CallbackKeeps
  <2>2. n \in Handle /\ Listed(n)
    BY <2>1 DEF TypeInv, TypeOK, ListTypeOK, Listed
  <2> HIDE DEF n
  <2>3. child[n] # "reaped"
    <3>1. SUFFICES ASSUME child[n] = "reaped" PROVE FALSE
      OBVIOUS
    <3>2. Alone(n) /\ kpid[n] # 0
      BY <2>2, <3>1 DEF LateInv, HandleInv, ForkInv
    <3>3. PICK g \in Occupant(kpid[n]) : child[g] \in Alive
      BY <2>1, <3>2 DEF WaitRunning
    <3>4. g = n
      BY <3>2, <3>3 DEF Occupant, Unreaped, Alone
    <3>5. QED
      BY <3>1, <3>3, <3>4 DEF Alive
  <2>4. ASSUME NEW h \in Handle, Listed(h), child[h] = "reaped", ~ pending
        PROVE  \E i \in hptr'..Len(child_list) : child_list[i] = h
    <3>1. PICK i \in hptr..Len(child_list) : child_list[i] = h
      BY <2>4 DEF LateInv
    <3>2. i # hptr
      BY <2>3, <2>4, <3>1 DEF n
    <3>3. i \in hptr'..Len(child_list)
      BY <1>1, <2>1, <3>1, <3>2
    <3>4. QED
      BY <3>1, <3>3
  <2>5. hptr' # 0
    BY <1>1, <2>1
  <2>6. QED
    BY <1>2, <2>1, <2>4, <2>5
<1>7. CASE CallbackReturns
  <2>1. hptr = Len(child_list) + 1 /\ UNCHANGED <<child, child_list, pending>>
    BY <1>7 DEF CallbackReturns, BlockInv
  <2>2. \A h \in Handle : Listed(h) /\ child[h] = "reaped" => pending
    BY <1>1, <2>1 DEF LateInv
  <2>3. QED
    BY <1>2, <2>1, <2>2
<1>8. CASE CallbackReaps
  <2> DEFINE n == child_list[hptr]
  <2>1. /\ hptr \in 1..Len(child_list) /\ ~ WaitRunning(kpid[n]) /\ child' = Reaped(kpid[n])
        /\ child_list' = RemoveAt(child_list, hptr)
        /\ UNCHANGED <<hptr, pending, blocked, pc, kpid>>
    BY <1>8 DEF CallbackReaps, unlink, Signals
  <2>2. n \in Handle /\ Listed(n) /\ kpid[n] # 0 /\ hptr # 0
    BY <2>1 DEF TypeInv, TypeOK, ListTypeOK, Listed, HandleInv, ForkInv
  <2>3. /\ Len(child_list') = Len(child_list) - 1
        /\ \A j \in 1..(Len(child_list) - 1) :
              child_list'[j] = IF j < hptr THEN child_list[j] ELSE child_list[j + 1]
    BY <2>1, RemoveAtSeq DEF TypeInv, TypeOK, ListTypeOK
  <2>4. Alone(n)
    BY <2>2, ListedAlone
  <2> HIDE DEF n
  <2>5. ASSUME NEW h \in Handle, Listed(h)' PROVE h # n /\ Listed(h)
    <3>1. PICK j \in 1..Len(child_list') : child_list'[j] = h
      BY <2>5 DEF Listed
    <3>2. PICK i \in 1..Len(child_list) : child_list[i] = h /\ i # hptr
      <4>1. /\ j \in 1..(Len(child_list) - 1)
            /\ j \in 1..Len(child_list) /\ j + 1 \in 1..Len(child_list)
        BY <1>1, <2>3, <3>1
      <4>2. CASE j < hptr
        BY <1>1, <2>3, <3>1, <4>1, <4>2
      <4>3. CASE ~ (j < hptr)
        <5>1. j + 1 # hptr
          BY <1>1, <4>1, <4>3
        <5>2. child_list[j + 1] = h
          BY <2>3, <3>1, <4>1, <4>3
        <5>3. QED
          BY <4>1, <5>1, <5>2
      <4>4. QED
        BY <4>2, <4>3
    <3>3. h # n
      BY <2>1, <3>2 DEF n, NodesInv, NodesSafe
    <3>4. QED
      BY <3>2, <3>3 DEF Listed
  <2>6. ASSUME NEW h \in Handle, Listed(h)', child'[h] = "reaped"
        PROVE  child[h] = "reaped"
    <3>1. child[h] = "zombie" /\ kpid[h] = kpid[n] => h \in Unreaped
      BY DEF Unreaped
    <3>2. QED
      BY <2>1, <2>4, <2>5, <2>6, <3>1 DEF Reaped, Occupant, Alone
  <2>7. ASSUME NEW h \in Handle, Listed(h)', child'[h] = "reaped", ~ pending
        PROVE  \E j \in hptr..Len(child_list') : child_list'[j] = h
    <3>1. PICK i \in hptr..Len(child_list) : child_list[i] = h
      BY <2>5, <2>6, <2>7 DEF LateInv
    <3>2. i # hptr
      BY <2>5, <2>7, <3>1 DEF n
    <3>3. /\ i - 1 \in 1..(Len(child_list) - 1) /\ ~ (i - 1 < hptr) /\ (i - 1) + 1 = i
          /\ i - 1 \in hptr..(Len(child_list) - 1)
      BY <1>1, <2>1, <3>1, <3>2
    <3>4. child_list'[i - 1] = h
      BY <2>3, <3>1, <3>3
    <3>5. QED
      BY <2>3, <3>3, <3>4
  <2>8. ASSUME NEW h \in Handle, Alone(h) PROVE Alone(h)'
    <3>1. \A g \in Unreaped' : g \in Unreaped
      BY UnreapedNext, <2>1 DEF Unreaped, Reaped, Alive
    <3>2. QED
      BY <2>1, <2>8, <3>1 DEF Alone
  <2>9. QED
    BY <2>1, <2>2, <2>5, <2>6, <2>7, <2>8 DEF LateInv
<1>9. QED
  BY <1>3, <1>4, <1>5, <1>6, <1>7, <1>8 DEF Signals, Callback

\* A step keeps it.
LEMMA LateNext ==
    ASSUME Undisturbed, Protected, Base, SignalInv, Next PROVE LateInv'
<1> USE DEF Base, SignalInv
<1>1. CASE Children
  <2>1. /\ UNCHANGED <<child_list, blocked, hptr, pc, kpid>> /\ (pending => pending')
        /\ \A h \in Handle : \/ child'[h] = child[h]
                             \/ child[h] \in Alive /\ child'[h] \in Alive \cup {"zombie"}
    BY <1>1 DEF Children, ChildExec, ChildExecFails, ChildEnds, StrangerStarts, Alive, TypeInv,
       TypeOK, KernelTypeOK
  <2>2. \A h \in Handle : child'[h] = "reaped" => child[h] = "reaped"
    BY <2>1 DEF Alive
  <2>3. \A g \in Unreaped' : g \in Unreaped
    BY <2>1 DEF Unreaped
  <2>4. \A h : (Alone(h) => Alone(h)') /\ (Listed(h)' => Listed(h))
    BY <2>1, <2>3 DEF Alone, Listed
  <2>5. QED
    BY <2>1, <2>2, <2>4 DEF LateInv
<1>2. CASE \E f \in Fd : Opens(f)
  BY <1>2 DEF Opens, OtherOpens, LateInv, Listed, Alone, Unreaped
<1>3. ~ Displaced
  BY DEF Displaced, Undisturbed
<1>4. QED
  BY <1>1, <1>2, <1>3, CallsLate, SignalsLate DEF Next

---------------------------------------------------------------------------
(* Handles that the handler finds *)

\* What was collected stays so.
LEMMA CollectedNext ==
    ASSUME TypeInv, Next, NEW h \in Handle, collected[h] PROVE collected'[h]
  BY StatusNext DEF Collects, collect_exit_status, TypeInv, TypeOK, HandleTypeOK

\* Handles get their pid at the end of processx_exec.
LEMMA HpidNext == ASSUME Next, ~ ExecSucceeds PROVE UNCHANGED hpid
  BY FieldsNext DEF ExecStarts, make_handle, ExecFailsEarly, ExecForks, ExecReaps, ExecNoMemory,
     Drops, FinalizerStarts, FinalizerClears, FinalizerDestroys, UnloadFrees

\* The handler takes a node from the list, and nobody else does.
LEMMA UnlistedNext ==
    ASSUME TypeInv, CtlInv, "unload" \notin Env, Next, NEW h \in Handle, Listed(h), ~ Listed(h)'
    PROVE  CallbackReaps /\ h = child_list[hptr]
<1> USE DEF TypeInv, TypeOK, ListTypeOK
<1>0. PICK i \in 1..Len(child_list) : child_list[i] = h
  BY DEF Listed
<1>1. ~ UNCHANGED child_list
  BY DEF Listed
<1>2. CASE ExecLinks
  <2>1. uh \in Handle /\ Len(child_list) \in Nat
    BY <1>2 DEF ExecLinks, At, RegInv, MainTypeOK
  <2>2. /\ Len(child_list') = Len(child_list) + 1
        /\ \A j \in 1..Len(child_list) : child_list'[j + 1] = child_list[j]
    BY <1>2, <2>1, ConsSeq DEF ExecLinks, child_add
  <2>3. i + 1 \in 1..Len(child_list') /\ child_list'[i + 1] = h
    BY <1>0, <2>1, <2>2
  <2>4. QED
    BY <2>3 DEF Listed
<1>3. CASE CallbackReaps
  <2>0. hptr \in 1..Len(child_list) /\ child_list' = RemoveAt(child_list, hptr)
    BY <1>3 DEF CallbackReaps, unlink
  <2>a. child_list \in Seq(Handle) /\ Len(child_list) \in Nat
    OBVIOUS
  <2>b. /\ Len(child_list') = Len(child_list) - 1
        /\ \A j \in 1..(Len(child_list) - 1) :
             child_list'[j] = IF j < hptr THEN child_list[j] ELSE child_list[j + 1]
    BY <2>0, <2>a, RemoveAtSeq
  <2>1. /\ hptr \in 1..Len(child_list) /\ Len(child_list) \in Nat
        /\ Len(child_list') = Len(child_list) - 1
        /\ \A j \in 1..(Len(child_list) - 1) :
             child_list'[j] = IF j < hptr THEN child_list[j] ELSE child_list[j + 1]
    BY <2>0, <2>a, <2>b
  <2>2. CASE i < hptr
    <3>1. i \in 1..(Len(child_list) - 1)
      BY <2>1, <2>2
    <3>2. QED
      BY <1>0, <2>1, <2>2, <3>1 DEF Listed
  <2>3. CASE i > hptr
    <3>1. i - 1 \in 1..(Len(child_list) - 1) /\ ~ (i - 1 < hptr) /\ (i - 1) + 1 = i
      BY <2>1, <2>3
    <3>2. child_list'[i - 1] = h
      BY <1>0, <2>1, <3>1
    <3>3. QED
      BY <2>1, <3>1, <3>2 DEF Listed
  <2>4. i = hptr \/ i < hptr \/ i > hptr
    BY <2>1
  <2>5. QED
    BY <1>0, <1>3, <2>2, <2>3, <2>4
<1>4. ~ UnloadEnds
  BY DEF UnloadEnds, At, CtlInv
<1>5. QED
  BY <1>1, <1>2, <1>3, <1>4 DEF Next, Children, ChildExec, ChildExecFails, ChildEnds,
     StrangerStarts, Signals, Calls, Displaced, Opens, OtherOpens,
     Exec, ExecStarts, ExecFailsEarly, ExecForks, ExecMakesNode, ExecNoMemory, ExecSucceeds,
     ExecReadsErrno, ExecReaps, Wait, wait, WaitBegins, KillWaits, WaitNoPipe, WaitWoken,
     WaitSlice, WaitInterrupted, WaitChecks, WaitEnds, Kill, kill, Blocks, KillChecks,
     KillTerminates, KILL_WITH, KillWaited, KillKills, KillReaps, KillEnds, Finalizer, Drops,
     FinalizerStarts, freelist_free, FinalizerKills, FinalizerClears, FinalizerDestroys, Unload,
     UnloadStarts, UnloadRemoves, UnloadKills, UnloadFrees, AliveChecks,
     SignalTooLate, SignalReaps, is_alive, signal, SignalSends, OtherThreadTakes,
     OtherThreadForwards, SignalLost, Callback, CallbackEnters, CallbackKeeps, CallbackReturns

\* An object that R can still reach was so before, or is new.
LEMMA ReachedNext ==
    ASSUME Base, Next, NEW h \in Handle, ref'[h] \in {"held", "garbage"}
    PROVE  \/ ref[h] \in {"held", "garbage"} /\ (ref'[h] = "held" => ref[h] = "held")
           \/ ref[h] = "none" /\ \E cl \in BOOLEAN : ExecStarts(h, cl)
<1> USE DEF Base, TypeInv, TypeOK, HandleTypeOK
<1>1. CASE ref'[h] = ref[h]
  BY <1>1
<1>2. ASSUME NEW cl \in BOOLEAN, ExecStarts(h, cl) PROVE ref[h] = "none"
  BY <1>2 DEF ExecStarts
<1>3. CASE h = uh /\ ref'[h] = "garbage"
  BY <1>3, NoNodeAssumption DEF HandleInv, HereInv
<1>4. CASE Drops(h)
  BY <1>4 DEF Drops, Called
<1>5. ~ FinalizerStarts(h)
  BY DEF FinalizerStarts
<1>6. QED
  BY <1>1, <1>2, <1>3, <1>4, <1>5, RefNext

\* The external pointer and the weak reference of such an object are intact.
LEMMA FoundFields ==
    ASSUME Undisturbed, Base, Next, NEW h \in Handle
    PROVE  /\ xptr[h] /\ ref[h] \in {"held", "garbage"} => xptr'[h]
           /\ wkey[h] /\ ref'[h] \in {"held", "garbage"} => wkey'[h]
<1> USE DEF Base, TypeInv, TypeOK, HandleTypeOK
<1>1. xptr[h] /\ ref[h] \in {"held", "garbage"} => xptr'[h]
  <2>1. ASSUME FinalizerClears, ref[h] \in {"held", "garbage"} PROVE xptr'[h] = xptr[h]
    <3>1. h # fh
      BY <2>1 DEF FinalizerClears, At, CtlInv, HandleInv, HereInv
    <3>2. QED
      BY <2>1, <3>1 DEF FinalizerClears
  <2>2. ~ UnloadFrees
    BY DEF UnloadFrees, At, CtlInv, Undisturbed
  <2>3. QED
    BY <2>1, <2>2, FieldsNext DEF ExecStarts, make_handle, ExecFailsEarly, ExecThrows, ExecForks,
       ExecSucceeds, ExecReaps, ExecNoMemory, Drops, FinalizerStarts, FinalizerDestroys
<1>2. ASSUME wkey[h], ref'[h] \in {"held", "garbage"} PROVE wkey'[h]
  <2>1. ASSUME NEW g \in Handle, FinalizerStarts(g) PROVE wkey'[h]
    <3>1. g # h
      BY <1>2, <2>1 DEF FinalizerStarts
    <3>2. QED
      BY <1>2, <2>1, <3>1 DEF FinalizerStarts
  <2>2. ASSUME NEW f, ExecMakesNode(f) PROVE wkey'[h]
    BY <1>2, <2>2 DEF ExecMakesNode
  <2>3. CASE UNCHANGED wkey
    BY <1>2, <2>3
  <2>4. QED
    BY <2>1, <2>2, <2>3 DEF Next, Children, Signals, Calls, Displaced, Opens, Exec, ExecStarts,
       make_handle, ExecFailsEarly, ExecThrows, ExecForks, ExecNoMemory, ExecLinks, ExecSucceeds,
       ExecReadsErrno, ExecReaps, Wait, wait, WaitBegins, KillWaits, WaitNoPipe, WaitWoken,
       WaitSlice, WaitInterrupted, WaitChecks, WaitEnds, Kill, kill, Blocks, KillChecks,
       KillTerminates, KILL_WITH, KillWaited, KillKills, KillReaps, KillEnds, Finalizer, Drops,
       FinalizerKills, FinalizerClears, FinalizerDestroys, Unload, UnloadStarts, UnloadRemoves,
       UnloadKills, UnloadFrees, UnloadEnds, AliveChecks, SignalTooLate, SignalReaps, is_alive,
       signal, SignalSends, OtherThreadTakes, OtherThreadForwards, SignalLost, Callback,
       CallbackEnters, CallbackKeeps, CallbackReaps, CallbackReturns
<1>3. QED
  BY <1>1, <1>2

\* A child that is reaped in this step is collected in it, or its node is still listed.
LEMMA ReapedNext ==
    ASSUME Undisturbed, Protected, Base, SignalInv, Next, NEW h \in Handle,
           ref[h] \in {"held", "garbage"}, child[h] = "zombie", child'[h] = "reaped"
    PROVE  collected'[h] \/ Listed(h)'
<1> USE DEF Base, SignalInv
<1>1. h \in Unreaped /\ (Listed(h) \/ (uh = h /\ Forked))
  BY DEF Unreaped, ZombieInv, NodeLinked
<1>2. CASE Calls
  BY <1>1, <1>2, CallsReap DEF Listed
<1>3. CASE ~ Calls
  <2> DEFINE n == child_list[hptr]
  <2>1. CallbackReaps
    BY <1>3, OthersReap
  <2>2. hptr \in 1..Len(child_list) /\ child' = Reaped(kpid[n])
    BY <2>1 DEF CallbackReaps
  <2>3. n \in Handle /\ Listed(n)
    BY <2>2 DEF TypeInv, TypeOK, ListTypeOK, Listed
  <2> HIDE DEF n
  <2>4. h = n
    BY <1>1, <2>2, <2>3, ListedAlone DEF Reaped, Occupant, Alone
  <2>5. HandleFound(n)
    BY <2>3, <2>4 DEF FoundInv, HandleFound
  <2>6. collected' = [collected EXCEPT ![n] = TRUE]
    BY <2>1, <2>5 DEF CallbackReaps, collect_exit_status, n
  <2>7. QED
    BY <2>4, <2>6 DEF TypeInv, TypeOK, HandleTypeOK
<1>4. QED
  BY <1>2, <1>3

\* A step keeps the invariant of what the handler finds.
LEMMA FoundNext ==
    ASSUME Undisturbed, Protected, Base, SignalInv, Next PROVE FoundInv'
<1> USE DEF Base, SignalInv
<1>1. ASSUME NEW h \in Handle, ref'[h] \in {"held", "garbage"} PROVE xptr'[h]
  <2>1. ASSUME NEW cl \in BOOLEAN, ExecStarts(h, cl) PROVE xptr'[h]
    BY <2>1 DEF ExecStarts, make_handle, TypeInv, TypeOK, HandleTypeOK
  <2>2. CASE ref[h] \in {"held", "garbage"}
    BY <2>2, FoundFields DEF FoundInv
  <2>3. QED
    BY <1>1, <2>1, <2>2, ReachedNext
<1>2. ASSUME NEW h \in Handle, ref'[h] \in {"held", "garbage"}, Listed(h)' PROVE wkey'[h]
  <2>1. CASE Listed(h)
    <3>1. kpid[h] # 0 /\ ref[h] # "none"
      BY <2>1 DEF HandleInv, ForkInv, BlankInv
    <3>2. QED
      BY <1>2, <2>1, <3>1, ReachedNext, FoundFields DEF FoundInv
  <2>2. CASE h = uh /\ pc = "exec_weakref"
    BY <1>2, <2>2, FoundFields DEF FoundInv
  <2>3. QED
    BY <1>2, <2>1, <2>2, ListedNext
<1>3. ASSUME pc' = "exec_weakref" PROVE wkey'[uh']
  <2>1. ~ \E p \in Pid : ExecForks(p)
    BY <1>3 DEF ExecForks, Goto
  <2>2. Forked /\ UNCHANGED uh /\ uh \in Handle
    BY <1>3, <2>1, ForkedNext DEF Forked, TypeInv, TypeOK, RegInv, MainTypeOK
  <2>3. CASE pc = "exec_weakref"
    <3>1. ref'[uh] \in {"held", "garbage"}
      <4>1. ref[uh] = "held"
        BY <2>2, NoNodeAssumption DEF HandleInv, HereInv
      <4>2. ~ FinalizerStarts(uh)
        BY <4>1 DEF FinalizerStarts
      <4>3. ~ Drops(uh) /\ ~ \E cl \in BOOLEAN : ExecStarts(uh, cl)
        BY <2>3 DEF Drops, ExecStarts, Called, InR, At
      <4>4. QED
        BY <2>2, <4>1, <4>2, <4>3, RefNext
    <3>2. QED
      BY <2>2, <2>3, <3>1, FoundFields DEF FoundInv
  <2>4. CASE pc = "exec_forked"
    <3>1. ASSUME NEW f, ExecMakesNode(f) PROVE wkey'[uh']
      BY <2>2, <3>1 DEF ExecMakesNode, TypeInv, TypeOK, HandleTypeOK
    <3>2. \E f : ExecMakesNode(f)
      BY <1>3, <2>4 DEF Next, Calls, At, Goto, Return, Children, Signals, Displaced, Opens,
         Exec, ExecStarts, ExecFailsEarly, ExecForks, ExecNoMemory, ExecLinks, ExecSucceeds,
         ExecReadsErrno, ExecReaps, Wait, wait, KillWaits, WaitNoPipe, WaitWoken, WaitSlice,
         WaitInterrupted, WaitChecks, WaitEnds, Kill, kill, Blocks, KillChecks, KillTerminates,
         KillWaited, KillKills, KillReaps, KillEnds, Finalizer, Drops, FinalizerStarts,
         FinalizerKills, FinalizerClears, FinalizerDestroys, Unload, UnloadStarts,
         UnloadRemoves, UnloadKills, UnloadFrees, UnloadEnds, AliveChecks, SignalTooLate,
         SignalReaps, is_alive, signal, SignalSends, InR, Called
    <3>3. QED
      BY <3>1, <3>2
  <2>5. QED
    BY <2>2, <2>3, <2>4 DEF Forked
<1>4. ASSUME NEW h \in Handle, ref'[h] = "held" \/ (ref'[h] = "garbage" /\ hpid'[h] # 0),
             child'[h] = "reaped", ~ collected'[h]
      PROVE  Listed(h)'
  <2>1. child[h] = "reaped" \/ child[h] = "zombie"
    BY <1>4, ChildNext DEF Alive
  <2>2. ref[h] # "none" /\ ~ collected[h]
    BY <1>4, <2>1, CollectedNext DEF HandleInv, BlankInv, ForkInv
  <2>3. ref[h] \in {"held", "garbage"} /\ (ref'[h] = "held" => ref[h] = "held")
    BY <1>4, <2>2, ReachedNext
  <2>4. CASE child[h] = "zombie"
    BY <1>4, <2>3, <2>4, ReapedNext
  <2>5. CASE child[h] = "reaped"
    <3>1. ref[h] = "garbage" => hpid[h] # 0
      <4>1. CASE ExecSucceeds
        <5>1. uh # NoNode /\ ref[uh] = "held"
          BY <4>1 DEF ExecSucceeds, At, HandleInv, HereInv, InExec, ExecLocation
        <5>2. ref[h] = "garbage" => hpid'[h] = hpid[h]
          BY <4>1, <5>1 DEF ExecSucceeds, TypeInv, TypeOK, HandleTypeOK
        <5>3. QED
          BY <1>4, <2>3, <5>2
      <4>2. CASE ~ ExecSucceeds
        BY <1>4, <2>3, <4>2, HpidNext
      <4>3. QED
        BY <4>1, <4>2
    <3>2. Listed(h)
      BY <2>2, <2>3, <2>5, <3>1 DEF FoundInv
    <3>3. ASSUME CallbackReaps, h = child_list[hptr] PROVE collected'[h]
      <4>1. HandleFound(h)
        BY <2>3, <3>2 DEF FoundInv, HandleFound
      <4>2. collected' = [collected EXCEPT ![h] = TRUE]
        BY <3>3, <4>1 DEF CallbackReaps, collect_exit_status
      <4>3. QED
        BY <4>2 DEF TypeInv, TypeOK, HandleTypeOK
    <3>4. QED
      BY <1>4, <3>2, <3>3, UnlistedNext DEF Undisturbed
  <2>6. QED
    BY <2>1, <2>4, <2>5
<1>5. QED
  BY <1>1, <1>2, <1>3, <1>4 DEF FoundInv

---------------------------------------------------------------------------
(* Whom the signals are for *)

\* The steps that get to the kill of a finalizer, and to a kill.
LEMMA TargetSteps ==
    ASSUME Base, BlockInv, Next
    PROVE  /\ fh # NoNode /\ fh' = fh /\ pc' \in {"fin_kill", "kill_check"} =>
                 pc \in {"fin_kill", "kill_check"}
           /\ pc' \in {"kill_kill", "kill_reap"} =>
                 \/ \E g \in BOOLEAN : KillChecks(g)
                 \/ KillKills
                 \/ ~ Calls /\ UNCHANGED <<pc, regVars>>
<1> USE DEF At, Goto, Return, InR, Called
<1>0. pc = "idle" => fh = NoNode
  BY DEF Base, CtlInv, FinLocation, WaitLocation
<1>1. CASE Calls
  <2>1. CASE Exec
    BY <2>1 DEF Exec, ExecStarts, ExecFailsEarly, ExecForks, ExecMakesNode, ExecNoMemory,
       ExecOpensPty, ExecLinks, ExecSucceeds, ExecReadsErrno, ExecReaps
  <2>2. CASE Wait
    BY <2>2 DEF Wait, wait, WaitBegins, KillWaits, WaitNoPipe, WaitWoken, WaitSlice,
       WaitInterrupted, WaitChecks, WaitEnds
  <2>3. CASE Kill
    BY <1>0, <2>3 DEF Kill, kill, Blocks, KillChecks, KillTerminates, KILL_WITH, KillWaited,
       KillReaps, KillKills, KillEnds, BlockInv
  <2>4. CASE Finalizer \/ Unload
    BY <1>0, <2>4, NoNodeAssumption DEF Finalizer, Drops, FinalizerStarts, FinalizerKills,
       FinalizerClears, FinalizerDestroys, Unload, UnloadStarts, UnloadRemoves, UnloadKills,
       UnloadFrees, UnloadEnds, Base, CtlInv, FinLocation, WaitLocation
  <2>5. CASE \/ AliveChecks \/ SignalTooLate \/ SignalReaps
             \/ \E h \in Handle : is_alive(h) \/ signal(h)
             \/ \E sig \in Signal : SignalSends(sig)
    BY <2>5 DEF AliveChecks, SignalTooLate, SignalReaps, is_alive, signal, Blocks, SignalSends
  <2>6. QED
    BY <1>1, <2>1, <2>2, <2>3, <2>4, <2>5 DEF Calls
<1>2. CASE ~ Calls
  <2>1. UNCHANGED <<pc, regVars>>
    BY <1>2 DEF Next, Children, Signals, Displaced, Opens
  <2>2. QED
    BY <1>2, <2>1
<1>3. QED
  BY <1>1, <1>2

\* Nobody has the pid of the child that a finalizer kills.
LEMMA FinalizerTarget ==
    ASSUME Base, SignalInv, Next, fh' # NoNode, pc' \in {"fin_kill", "kill_check"},
           ~ collected'[fh'], hpid'[fh'] # 0
    PROVE  Alone(fh)'
<1> USE DEF Base, SignalInv
<1>0. (~ \E p \in Pid : ExecForks(p)) /\ UNCHANGED hpid
  BY HpidNext DEF ExecForks, ExecSucceeds, Return, Goto
<1>1. CASE fh' # fh
  <2> DEFINE f == fh'
  <2>1. f \in Handle /\ ref[f] = "garbage" /\ FinalizerStarts(f)
    BY <1>1, FinalizerNext
  <2> HIDE DEF f
  <2>2. MainRuns /\ pc # "kill_cleanup" /\ UNCHANGED collected
    BY <2>1 DEF FinalizerStarts, At
  <2>3. hpid[f] # 0 /\ ~ collected[f]
    BY <1>0, <2>2 DEF f
  <2>4. kpid[f] # 0
    BY <2>1, <2>3 DEF HandleInv, ForkInv
  <2>5. f \in Unreaped
    BY <2>1, <2>2, <2>3, <2>4, SettledOwn
  <2>6. Alone(f)
    BY <2>5, UnreapedAlone
  <2>7. \A h \in Handle : Alone(h) => Alone(h)'
    BY <1>0, AloneNext
  <2>8. \A g \in Unreaped' : kpid'[g] = kpid'[f] => g = f
    BY <2>1, <2>6, <2>7 DEF Alone
  <2>9. QED
    BY <2>8 DEF Alone, f
<1>2. CASE fh' = fh
  <2>1. fh \in Handle /\ pc \in {"fin_kill", "kill_check"} /\ hpid[fh] # 0
    BY <1>0, <1>2, TargetSteps DEF TypeInv, TypeOK, MainTypeOK
  <2>2. ~ collected[fh]
    BY <1>2, <2>1, CollectedNext
  <2>3. Alone(fh)
    BY <1>2, <2>1, <2>2 DEF TargetInv
  <2>4. UNCHANGED kpid /\ \A g \in Unreaped' : g \in Unreaped
    BY <1>0, PidsNext, UnreapedNext DEF Unreaped
  <2>5. QED
    BY <1>2, <2>3, <2>4 DEF Alone
<1>3. QED
  BY <1>1, <1>2

\* The child that is about to be killed was not reaped.
LEMMA KillTarget ==
    ASSUME Undisturbed, Protected, Base, SignalInv, Next, pc' \in {"kill_kill", "kill_reap"}
    PROVE  Cur' \in Unreaped' /\ hpid'[Cur'] # 0
<1> USE DEF Base, SignalInv
<1>1. ASSUME NEW g \in BOOLEAN, KillChecks(g) PROVE Cur' \in Unreaped' /\ hpid'[Cur'] # 0
  <2>1. /\ MainRuns /\ pc = "kill_check" /\ ~ collected[Cur] /\ WaitRunning(hpid[Cur])
        /\ child' = Reaped(hpid[Cur]) /\ UNCHANGED <<hpid, kpid, regVars>>
    BY <1>1 DEF KillChecks, At, Goto
  <2>2. PICK c \in Occupant(hpid[Cur]) : child[c] \in Alive
    BY <2>1 DEF WaitRunning, Protected
  <2>3. c \in Unreaped /\ kpid[c] = hpid[Cur] /\ kpid[c] # 0 /\ c \in Handle
    BY <2>2 DEF Occupant, Unreaped, Alive, HandleInv, ForkInv
  <2>4. Cur \in Handle
    BY <2>1 DEF Cur, TypeInv, TypeOK, MainTypeOK, HandleInv, HereInv, KillLocation
  <2>5. kpid[Cur] = hpid[Cur] /\ hpid[Cur] # 0
    BY <2>3, <2>4 DEF HandleInv, ForkInv
  <2>6. Alone(Cur)
    <3>1. CASE fh # NoNode
      BY <2>1, <2>5, <3>1 DEF Cur, TargetInv
    <3>2. CASE fh = NoNode
      <4>1. Cur = uh /\ ref[uh] = "held"
        BY <2>4, <3>2, NoNodeAssumption DEF Cur, HandleInv, HereInv
      <4>2. Cur \in Unreaped
        BY <2>1, <2>3, <2>4, <2>5, <4>1, SettledOwn
      <4>3. QED
        BY <4>2, UnreapedAlone
    <3>3. QED
      BY <3>1, <3>2
  <2>7. c = Cur
    BY <2>3, <2>5, <2>6 DEF Alone
  <2>8. child'[Cur] \in Alive
    BY <2>1, <2>2, <2>4, <2>7 DEF Reaped, Alive
  <2>9. Cur' = Cur
    BY <2>1 DEF Cur
  <2>10. QED
    BY <2>1, <2>4, <2>5, <2>8, <2>9 DEF Unreaped
<1>2. CASE KillKills
  <2>1. pc \in {"kill_kill", "kill_reap"} /\ UNCHANGED <<child, hpid, regVars>>
    BY <1>2 DEF KillKills, KILL_WITH, At
  <2>2. QED
    BY <2>1 DEF TargetInv, Cur, Unreaped
<1>3. CASE ~ Calls /\ UNCHANGED <<pc, regVars>>
  <2>1. Cur \in Unreaped /\ hpid[Cur] # 0 /\ Cur \in Handle /\ Cur' = Cur /\ blocked
    BY <1>3 DEF TargetInv, Cur, Unreaped, BlockInv, Blocking
  <2>2. UNCHANGED hpid
    BY <1>3, HpidNext DEF Calls, Exec
  <2>3. Cur \in Unreaped'
    BY <1>3, <2>1, UnreapedNext, OthersReap
  <2>4. QED
    BY <2>1, <2>2, <2>3
<1>4. QED
  BY <1>1, <1>2, <1>3, TargetSteps

\* A step keeps them.
LEMMA TargetNext ==
    ASSUME Undisturbed, Protected, Base, SignalInv, Next PROVE TargetInv'
  BY FinalizerTarget, KillTarget DEF TargetInv

\* kill() with the pid of a child that was not reaped reaches nobody else.
LEMMA Reaches ==
    ASSUME Base, SignalInv, NEW h \in Unreaped, NEW sig, Delivered(h, kpid[h], sig) PROVE ~ misfire'
<1>1. kpid[h] # 0 /\ kpid[h] \notin stranger
  BY DEF Base, HandleInv, ForkInv, SignalInv, StrangerInv, Unreaped, Alive
<1>2. Occupant(kpid[h]) \ {h} = {}
  BY DEF Occupant, Base, ZombieInv, PidsUnique, Unreaped
<1>3. QED
  BY <1>1, <1>2 DEF Delivered, SignalInv, OnlyOwnChildSignalled

\* Nothing but the own child is signalled.
LEMMA OwnNext ==
    ASSUME Undisturbed, Protected, Base, SignalInv, Next PROVE OnlyOwnChildSignalled'
<1> USE DEF Base, SignalInv
<1>1. ASSUME NEW sig \in Signal, SignalSends(sig) PROVE ~ misfire'
  <2>1. /\ MainRuns /\ pc = "sig_send" /\ ~ collected[uh] /\ Delivered(uh, hpid[uh], sig)
    BY <1>1 DEF SignalSends, At
  <2>2. uh \in Handle /\ ref[uh] = "held" /\ ~ InExec
    BY <2>1 DEF TypeInv, TypeOK, MainTypeOK, HandleInv, HereInv, InExec, ExecLocation, CtlInv,
       FinLocation, WaitLocation
  <2>3. hpid[uh] # 0 /\ hpid[uh] = kpid[uh]
    BY <2>2 DEF StartedInv, HandleInv, ForkInv
  <2>4. uh \in Unreaped
    BY <2>1, <2>2, <2>3, SettledOwn
  <2>5. QED
    BY <2>1, <2>3, <2>4, Reaches
<1>2. CASE KillKills
  <2>1. Delivered(Cur, hpid[Cur], SIGKILL) \/ UNCHANGED misfire
    BY <1>2 DEF KillKills, KILL_WITH
  <2>2. Cur \in Unreaped /\ hpid[Cur] # 0
    BY <1>2 DEF KillKills, At, TargetInv
  <2>3. hpid[Cur] = kpid[Cur]
    BY <2>2 DEF Unreaped, HandleInv, ForkInv
  <2>4. QED
    BY <2>1, <2>2, <2>3, Reaches DEF OnlyOwnChildSignalled
<1>3. ~ KillTerminates /\ ~ UnloadKills
  BY DEF KillTerminates, UnloadKills, At, BlockInv, CtlInv, Undisturbed
<1>4. CASE UNCHANGED misfire
  BY <1>4 DEF OnlyOwnChildSignalled
<1>5. QED
  BY <1>1, <1>2, <1>3, <1>4 DEF OnlyOwnChildSignalled, Next, Children, ChildExec, ChildExecFails,
     ChildEnds, StrangerStarts, Signals, Calls, Displaced, Opens, OtherOpens, Exec, ExecStarts,
     ExecFailsEarly, ExecForks, ExecMakesNode, ExecNoMemory, ExecLinks, ExecSucceeds,
     ExecReadsErrno, ExecReaps, Wait, wait, WaitBegins, KillWaits, WaitNoPipe, WaitWoken,
     WaitSlice, WaitInterrupted, WaitChecks, WaitEnds, Kill, kill, Blocks, KillChecks, KillWaited,
     KillReaps, KillEnds, Finalizer, Drops, FinalizerStarts, FinalizerKills, FinalizerClears,
     FinalizerDestroys, Unload, UnloadStarts, UnloadRemoves, UnloadFrees, UnloadEnds,
     AliveChecks, SignalTooLate, SignalReaps, is_alive, signal, OtherThreadTakes,
     OtherThreadForwards, SignalLost, Callback, CallbackEnters, CallbackKeeps, CallbackReaps,
     CallbackReturns

\* A step keeps the invariant.
LEMMA NextSignals ==
    ASSUME Undisturbed, Protected, Base, SignalInv, [Next]_vars PROVE Base' /\ SignalInv'
<1>1. Base'
  <2>1. StartedInv'
    <3>1. CASE UNCHANGED vars
      BY <3>1 DEF vars, Base, StartedInv, InExec
    <3>2. QED
      BY <3>1, StartedNext DEF Base, Undisturbed
  <2>2. QED
    BY <2>1, NextTypes, NextControl, NextHandles, NextZombie, NextNodes DEF Base, Undisturbed
<1>2. CASE UNCHANGED vars
  BY <1>1, <1>2 DEF vars, SignalInv, BlockInv, StrangerInv, LateInv, FoundInv, TargetInv, Alone,
     Unreaped, Forked, Listed, Cur, OnlyOwnChildSignalled
<1>3. CASE Next
  BY <1>1, <1>3, BlockNext, StrangerNext, LateNext, FoundNext, TargetNext, OwnNext DEF SignalInv
<1>4. QED
  BY <1>1, <1>2, <1>3

\* Nobody but the child it is meant for gets a signal of signal(), of kill() or of a finalizer
\* (processx.c:974-993, 1051-1101), although pids are used again as soon as a child was
\* reaped: SIGCHLD is blocked from the look at handle->collected to the kill(), and before
\* that the handler has marked as collected whatever any call has reaped.
THEOREM OnlyOwnSignalled ==
    ASSUME Undisturbed, Protected PROVE Spec => []OnlyOwnChildSignalled
<1> DEFINE I == Base /\ SignalInv
<1>1. Init => I
  BY InitTypes, InitControl, InitHandles, InitClean, InitZombie, InitNodes, InitSignals DEF Base
<1>2. I /\ [Next]_vars => I'
  BY NextSignals
<1>3. I => OnlyOwnChildSignalled
  BY DEF SignalInv
<1>4. QED
  BY <1>1, <1>2, <1>3, PTL DEF Spec
=============================================================================
