----------------------------- MODULE ProcessProofs -----------------------------
(***************************************************************************)
(* Proofs about module Process.                                            *)
(***************************************************************************)
EXTENDS Process, SequenceTheorems, TLAPS

\* A sequence with one more element in front, as child_add and freelist_add
\* make it.
LEMMA ConsSeq ==
    ASSUME NEW S, NEW s \in Seq(S), NEW e \in S
    PROVE  /\ <<e>> \o s \in Seq(S)
           /\ Len(<<e>> \o s) = Len(s) + 1
           /\ (<<e>> \o s)[1] = e
           /\ \A i \in 1..Len(s) : (<<e>> \o s)[i + 1] = s[i]
<1>1. <<e>> \in Seq(S) /\ Len(<<e>>) = 1 /\ <<e>>[1] = e
  OBVIOUS
<1>2. QED
  BY <1>1, ConcatProperties

\* A sequence without its i-th element, as the SIGCHLD handler leaves the list.
LEMMA RemoveAtSeq ==
    ASSUME NEW S, NEW s \in Seq(S), NEW i \in 1..Len(s)
    PROVE  /\ RemoveAt(s, i) \in Seq(S)
           /\ Len(RemoveAt(s, i)) = Len(s) - 1
           /\ \A j \in 1..(Len(s) - 1) :
                RemoveAt(s, i)[j] = IF j < i THEN s[j] ELSE s[j + 1]
<1> DEFINE a == SubSeq(s, 1, i - 1)
           b == SubSeq(s, i + 1, Len(s))
<1>1. a \in Seq(S) /\ Len(a) = i - 1 /\ \A j \in 1..(i - 1) : a[j] = s[j]
  OBVIOUS
<1>2. b \in Seq(S) /\ Len(b) = Len(s) - i /\ \A j \in 1..(Len(s) - i) : b[j] = s[i + j]
  OBVIOUS
<1>3. RemoveAt(s, i) = a \o b
  BY DEF RemoveAt
<1> HIDE DEF a, b
<1>4. /\ a \o b \in Seq(S)
      /\ Len(a \o b) = Len(a) + Len(b)
      /\ \A j \in 1..(Len(a) + Len(b)) :
            (a \o b)[j] = IF j <= Len(a) THEN a[j] ELSE b[j - Len(a)]
  BY <1>1, <1>2, ConcatProperties
<1>5. Len(s) \in Nat /\ i \in Nat
  OBVIOUS
<1>6. ASSUME NEW j \in 1..(Len(s) - 1)
      PROVE  (a \o b)[j] = IF j < i THEN s[j] ELSE s[j + 1]
  <2>1. CASE j < i
    BY <2>1, <1>1, <1>2, <1>4, <1>5
  <2>2. CASE j >= i
    <3>1. (a \o b)[j] = b[j - (i - 1)]
      BY <2>2, <1>1, <1>2, <1>4, <1>5
    <3>2. j - (i - 1) \in 1..(Len(s) - i) /\ i + (j - (i - 1)) = j + 1
      BY <2>2, <1>5
    <3>3. QED
      BY <2>2, <3>1, <3>2, <1>2
  <2>3. j < i \/ j >= i
    BY <1>5
  <2>4. QED
    BY <2>1, <2>2, <2>3
<1>7. QED
  BY <1>1, <1>2, <1>3, <1>4, <1>5, <1>6

---------------------------------------------------------------------------
(* Types *)

\* The registers that a step relies on have values: the handle of a
\* processx_exec that has not linked its node yet, and the node at which
\* processx__unload_cleanup is.
RegInv ==
    /\ pc \in {"exec_pipes", "exec_forked", "exec_weakref"} => uh # NoNode
    /\ pc = "unload_reap" => uptr # NoNode
    /\ pc \in {"unload_remove", "unload_loop", "unload_reap"} /\ uptr # NoNode =>
          Listed(uptr) \/ FreeListed(uptr)

TypeInv == TypeOK /\ RegInv

USE DEF kernelVars, listVars, statusVars, refVars, heldVars, signalVars, regVars

\* The initial state is typed: R_init_processx_unix leaves empty lists.
LEMMA InitTypes == Init => TypeInv
<1> SUFFICES ASSUME Init PROVE TypeInv
  OBVIOUS
<1>1. KernelTypeOK
  BY FdAssumption DEF Init, KernelInit, KernelTypeOK, ChildState
<1>2. ListTypeOK
  BY DEF Init, ListInit, ListTypeOK
<1>3. HandleTypeOK
  BY DEF Init, HandleInit, HandleTypeOK, ExitCode
<1>4. SigchldTypeOK
  BY DEF Init, SigchldInit, SigchldTypeOK
<1>5. MainTypeOK
  <2>1. 0 \in -1..MaxSlices
    BY MaxSlicesAssumption
  <2>2. QED
    BY <2>1 DEF Init, MainInit, MainTypeOK, Location
<1>6. RegInv
  BY DEF Init, MainInit, RegInv
<1>7. QED
  BY <1>1, <1>2, <1>3, <1>4, <1>5, <1>6 DEF TypeInv, TypeOK

\* The steps of the children: execvp(), a failed start, an exit.
LEMMA ChildrenTypes == ASSUME TypeInv, Children PROVE TypeInv'
<1> USE DEF TypeInv, TypeOK, RegInv, KernelTypeOK, ListTypeOK, HandleTypeOK, SigchldTypeOK,
            MainTypeOK, ChildState, Alive, Listed, FreeListed
<1>1. ASSUME NEW h \in Handle, ChildExec(h) \/ ChildExecFails(h)
      PROVE  KernelTypeOK'
  BY <1>1 DEF ChildExec, ChildExecFails
<1>2. ASSUME NEW h \in Handle, NEW s \in ExitCode, ChildEnds(h, s)
      PROVE  KernelTypeOK'
  BY <1>2 DEF ChildEnds
<1>3. ASSUME NEW p \in Pid, StrangerStarts(p)
      PROVE  KernelTypeOK'
  BY <1>3 DEF StrangerStarts
<1>4. KernelTypeOK'
  BY <1>1, <1>2, <1>3 DEF Children
<1>5. QED
  BY <1>4 DEF Children

\* The return of a processx call to R.
LEMMA ReturnTypes ==
    ASSUME MainTypeOK, Return, wfd' \in Fd \cup {-1} PROVE MainTypeOK' /\ RegInv'
<1>1. 0 \in -1..MaxSlices
  BY MaxSlicesAssumption
<1>2. QED
  BY <1>1 DEF MainTypeOK, Return, WaitForgets, Location, RegInv

\* The steps of processx_exec.
LEMMA ExecTypes == ASSUME TypeInv, Exec PROVE TypeInv'
<1> USE DEF TypeInv, TypeOK, Goto
<1>1. ASSUME NEW h \in Handle, NEW cl \in BOOLEAN, ExecStarts(h, cl) PROVE TypeInv'
  <2>1. HandleTypeOK'
    BY <1>1, FdAssumption DEF ExecStarts, make_handle, HandleTypeOK
  <2>2. SigchldTypeOK'
    BY <1>1 DEF ExecStarts, setup_sigchld, SigchldTypeOK
  <2>3. KernelTypeOK' /\ ListTypeOK'
    BY <1>1 DEF ExecStarts, KernelTypeOK, ListTypeOK
  <2>4. MainTypeOK'
    BY <1>1 DEF ExecStarts, MainTypeOK, Location
  <2>5. RegInv'
    BY <1>1, NoNodeAssumption DEF ExecStarts, RegInv
  <2>6. QED
    BY <2>1, <2>2, <2>3, <2>4, <2>5
<1>2. ASSUME ExecFailsEarly PROVE TypeInv'
  BY <1>2, ReturnTypes DEF ExecFailsEarly, ExecThrows, KernelTypeOK, ListTypeOK, HandleTypeOK,
     SigchldTypeOK, MainTypeOK
<1>3. ASSUME NEW p \in Pid, ExecForks(p) PROVE TypeInv'
  BY <1>3 DEF ExecForks, ChildState, Alive, At, KernelTypeOK, ListTypeOK, HandleTypeOK,
     SigchldTypeOK, MainTypeOK, Location, RegInv
<1>4. ASSUME NEW f \in Fd \cup {-1}, ExecMakesNode(f) PROVE TypeInv'
  BY <1>4 DEF ExecMakesNode, ExecOpensPty, At, KernelTypeOK, ListTypeOK, HandleTypeOK,
     SigchldTypeOK, MainTypeOK, Location, RegInv
<1>5. ASSUME NEW f \in Fd \cup {-1}, ExecNoMemory(f) PROVE TypeInv'
  BY <1>5, ReturnTypes DEF ExecNoMemory, ExecOpensPty, ExecThrows, KernelTypeOK, ListTypeOK,
     HandleTypeOK, SigchldTypeOK, MainTypeOK
<1>6. ASSUME ExecLinks PROVE TypeInv'
  <2>1. uh \in Handle /\ child_list \in Seq(Handle)
    BY <1>6 DEF ExecLinks, At, RegInv, MainTypeOK, ListTypeOK
  <2>2. <<uh>> \o child_list \in Seq(Handle)
    BY <2>1, ConsSeq
  <2>3. ListTypeOK'
    BY <1>6, <2>2 DEF ExecLinks, child_add, ListTypeOK
  <2>4. KernelTypeOK' /\ HandleTypeOK'
    BY <1>6 DEF ExecLinks, KernelTypeOK, HandleTypeOK
  <2>5. SigchldTypeOK' /\ MainTypeOK'
    BY <1>6 DEF ExecLinks, SigchldTypeOK, MainTypeOK, Location
  <2>6. RegInv'
    BY <1>6 DEF ExecLinks, RegInv
  <2>7. QED
    BY <2>3, <2>4, <2>5, <2>6
<1>7. ASSUME ExecSucceeds PROVE TypeInv'
  BY <1>7, ReturnTypes DEF ExecSucceeds, KernelTypeOK, ListTypeOK, HandleTypeOK,
     SigchldTypeOK, MainTypeOK
<1>8. ASSUME ExecReadsErrno PROVE TypeInv'
  BY <1>8 DEF ExecReadsErrno, KernelTypeOK, ListTypeOK, HandleTypeOK, SigchldTypeOK,
     MainTypeOK, Location, RegInv
<1>9. ASSUME ExecReaps PROVE TypeInv'
  BY <1>9, ReturnTypes DEF ExecReaps, Reaped, ChildState, ExecThrows, KernelTypeOK,
     ListTypeOK, HandleTypeOK, SigchldTypeOK, MainTypeOK
<1>10. QED
  BY <1>1, <1>2, <1>3, <1>4, <1>5, <1>6, <1>7, <1>8, <1>9 DEF Exec

\* A process id that waitpid() reports an exit for has a known fate.
LEMMA WstatType ==
    ASSUME KernelTypeOK, NEW p, WaitExited(p) PROVE Wstat(p) \in ExitCode \cup {NA}
  BY DEF KernelTypeOK, WaitExited, Wstat, Occupant

\* Reaping and collecting.
LEMMA CollectTypes ==
    ASSUME KernelTypeOK, HandleTypeOK, NEW h,
           NEW code \in ExitCode \cup {NA}, collect_exit_status(h, code)
    PROVE  /\ collected' \in [Handle -> BOOLEAN]
           /\ exitcode' \in [Handle -> ExitCode \cup {NA}]
           /\ pty_child_fd' \in [Handle -> Fd \cup {-1}]
<1>1. exitcode' \in [Handle -> ExitCode \cup {NA}]
  BY DEF HandleTypeOK, collect_exit_status
<1>2. collected' \in [Handle -> BOOLEAN]
  BY DEF HandleTypeOK, collect_exit_status
<1>3. pty_child_fd' \in [Handle -> Fd \cup {-1}]
  BY DEF HandleTypeOK, collect_exit_status
<1>4. QED
  BY <1>1, <1>2, <1>3

\* The descriptor table after close(), the process table after waitpid().
LEMMA TableTypes ==
    ASSUME KernelTypeOK, NEW S, NEW p
    PROVE  /\ Closed(S) \in [Fd -> {"free", "other", "wait", "pty"}]
           /\ Reaped(p) \in [Handle -> ChildState]
  BY DEF KernelTypeOK, Closed, Reaped, ChildState

\* waitpid() and processx__collect_exit_status together.
LEMMA ExitedTypes ==
    ASSUME KernelTypeOK, HandleTypeOK, NEW h, NEW p, CollectExited(h, p)
    PROVE  /\ collected' \in [Handle -> BOOLEAN]
           /\ exitcode' \in [Handle -> ExitCode \cup {NA}]
           /\ pty_child_fd' \in [Handle -> Fd \cup {-1}]
           /\ owner' \in [Fd -> {"free", "other", "wait", "pty"}]
           /\ child' \in [Handle -> ChildState]
<1>1. (IF WaitExited(p) THEN Wstat(p) ELSE NA) \in ExitCode \cup {NA}
  BY WstatType
<1>2. QED
  BY <1>1, CollectTypes, TableTypes DEF CollectExited

\* The handler.
LEMMA SignalsTypes == ASSUME TypeInv, Signals PROVE TypeInv'
<1> USE DEF TypeInv, TypeOK
<1>1. MainTypeOK'
  BY DEF Signals, MainTypeOK
<1>2. ASSUME OtherThreadTakes \/ OtherThreadForwards PROVE TypeInv'
  BY <1>2, <1>1 DEF Signals, OtherThreadTakes, OtherThreadForwards, KernelTypeOK, ListTypeOK,
     HandleTypeOK, SigchldTypeOK, RegInv, Listed, FreeListed
<1>3. ASSUME ForeignReaps \/ child' = child PROVE child' \in [Handle -> ChildState]
  BY <1>3 DEF ForeignReaps, KernelTypeOK, ChildState
<1>4. ASSUME SignalLost PROVE TypeInv'
  BY <1>4, <1>1, <1>3 DEF Signals, SignalLost, KernelTypeOK, ListTypeOK,
     HandleTypeOK, SigchldTypeOK, RegInv, Listed, FreeListed
<1>5. ASSUME CallbackEnters \/ CallbackKeeps PROVE TypeInv'
  <2>1. SigchldTypeOK'
    BY <1>5 DEF CallbackEnters, CallbackKeeps, SigchldTypeOK
  <2>2. KernelTypeOK' /\ ListTypeOK' /\ HandleTypeOK'
    BY <1>5 DEF CallbackEnters, CallbackKeeps, KernelTypeOK, ListTypeOK, HandleTypeOK
  <2>3. RegInv'
    BY <1>5 DEF Signals, CallbackEnters, CallbackKeeps, RegInv, Listed, FreeListed
  <2>4. QED
    BY <1>1, <2>1, <2>2, <2>3
<1>6. ASSUME CallbackReturns PROVE TypeInv'
  BY <1>6, <1>1, <1>3 DEF Signals, CallbackReturns, KernelTypeOK, ListTypeOK,
     HandleTypeOK, SigchldTypeOK, RegInv, Listed, FreeListed
<1>7. ASSUME CallbackReaps PROVE TypeInv'
  <2> DEFINE h == child_list[hptr]
  <2>1. h \in Handle /\ hptr \in 1..Len(child_list)
    BY <1>7 DEF CallbackReaps, ListTypeOK
  <2>2. ListTypeOK' /\ (RegInv')
    <3>1. /\ RemoveAt(child_list, hptr) \in Seq(Handle)
          /\ Len(RemoveAt(child_list, hptr)) = Len(child_list) - 1
          /\ \A j \in 1..(Len(child_list) - 1) :
                RemoveAt(child_list, hptr)[j] = IF j < hptr THEN child_list[j] ELSE child_list[j + 1]
      BY <2>1, RemoveAtSeq DEF ListTypeOK
    <3>2. /\ <<h>> \o child_free_list \in Seq(Handle)
          /\ Len(<<h>> \o child_free_list) = Len(child_free_list) + 1
          /\ (<<h>> \o child_free_list)[1] = h
          /\ \A i \in 1..Len(child_free_list) :
                (<<h>> \o child_free_list)[i + 1] = child_free_list[i]
      BY <2>1, ConsSeq DEF ListTypeOK
    <3>3. child_list' = RemoveAt(child_list, hptr) /\ child_free_list' = <<h>> \o child_free_list
          /\ nfree' = nfree
      BY <1>7 DEF CallbackReaps, unlink
    <3>4. ListTypeOK'
      BY <3>1, <3>2, <3>3 DEF ListTypeOK
    <3> HIDE DEF h
    <3>5. ASSUME NEW x, Listed(x) \/ FreeListed(x) PROVE Listed(x)' \/ FreeListed(x)'
      <4>1. Len(child_list) \in Nat /\ Len(child_free_list) \in Nat
        BY DEF ListTypeOK
      <4>2. CASE FreeListed(x)
        <5>1. PICK i \in 1..Len(child_free_list) : child_free_list[i] = x
          BY <4>2 DEF FreeListed
        <5>2. i + 1 \in 1..Len(child_free_list')
          BY <4>1, <5>1, <3>2, <3>3
        <5>3. QED
          BY <5>1, <5>2, <3>2, <3>3 DEF FreeListed
      <4>3. CASE Listed(x)
        <5>1. PICK i \in 1..Len(child_list) : child_list[i] = x
          BY <4>3 DEF Listed
        <5>2. CASE i = hptr
          <6>1. 1 \in 1..Len(child_free_list')
            BY <4>1, <3>2, <3>3
          <6>2. QED
            BY <5>1, <5>2, <6>1, <3>2, <3>3 DEF FreeListed, h
        <5>3. CASE i < hptr
          <6>1. i \in 1..(Len(child_list) - 1)
            BY <4>1, <5>1, <5>3, <2>1
          <6>2. QED
            BY <5>1, <5>3, <6>1, <3>1, <3>3 DEF Listed
        <5>4. CASE i > hptr
          <6>1. i - 1 \in 1..(Len(child_list) - 1) /\ ~ (i - 1 < hptr) /\ (i - 1) + 1 = i
            BY <4>1, <5>1, <5>4, <2>1
          <6>2. RemoveAt(child_list, hptr)[i - 1] = child_list[i]
            BY <6>1, <3>1
          <6>3. QED
            BY <5>1, <6>1, <6>2, <3>1, <3>3 DEF Listed
        <5>5. QED
          BY <5>1, <5>2, <5>3, <5>4, <4>1, <2>1
      <4>4. QED
        BY <3>5, <4>2, <4>3
    <3>6. RegInv'
      BY <3>5 DEF Signals, RegInv
    <3>7. QED
      BY <3>4, <3>6
  <2>3. KernelTypeOK' /\ HandleTypeOK'
    <3>1. (IF WaitExited(kpid[h]) THEN Wstat(kpid[h]) ELSE NA) \in ExitCode \cup {NA}
      BY WstatType
    <3>2. child' = Reaped(kpid[h]) /\ child' \in [Handle -> ChildState]
      BY <1>7, TableTypes DEF CallbackReaps
    <3>3. CASE HandleFound(h)
      <4>1. owner' \in [Fd -> {"free", "other", "wait", "pty"}]
        BY <1>7, <3>3, TableTypes DEF CallbackReaps
      <4>2. /\ collected' \in [Handle -> BOOLEAN]
            /\ exitcode' \in [Handle -> ExitCode \cup {NA}]
            /\ pty_child_fd' \in [Handle -> Fd \cup {-1}]
        BY <1>7, <2>1, <3>1, <3>3, CollectTypes DEF CallbackReaps
      <4>3. waitpipe' \in [Handle -> Fd \cup {-1}]
        BY <1>7, <3>3 DEF CallbackReaps, HandleTypeOK
      <4> HIDE DEF h
      <4>4. QED
        BY <1>7, <3>2, <4>1, <4>2, <4>3 DEF CallbackReaps, KernelTypeOK, HandleTypeOK
    <3>4. CASE ~ HandleFound(h)
      BY <1>7, <3>2, <3>4 DEF CallbackReaps, KernelTypeOK, HandleTypeOK
    <3>5. QED
      BY <3>3, <3>4
  <2>4. SigchldTypeOK'
    BY <1>7 DEF CallbackReaps, SigchldTypeOK
  <2>5. QED
    BY <2>2, <2>3, <2>4, <1>1
<1>8. QED
  BY <1>2, <1>4, <1>5, <1>6, <1>7 DEF Signals, Callback

\* The steps of c_processx_wait.
LEMMA WaitTypes == ASSUME TypeInv, Wait PROVE TypeInv'
<1> USE DEF TypeInv, TypeOK, Goto
<1>1. ASSUME NEW h, NEW f \in Fd, NEW t \in -1..MaxSlices, WaitBegins(h, f, t),
             uh' \in Handle \cup {NoNode}, waitret' \in {"user", "kill"}
      PROVE  TypeInv'
  <2>1. KernelTypeOK' /\ ListTypeOK'
    BY <1>1 DEF WaitBegins, KernelTypeOK, ListTypeOK
  <2>2. HandleTypeOK'
    BY <1>1 DEF WaitBegins, HandleTypeOK
  <2>3. SigchldTypeOK'
    BY <1>1 DEF WaitBegins, setup_sigchld, SigchldTypeOK
  <2>4. MainTypeOK'
    BY <1>1 DEF WaitBegins, MainTypeOK, SigchldTypeOK, Location
  <2>5. RegInv'
    BY <1>1 DEF WaitBegins, RegInv
  <2>6. QED
    BY <2>1, <2>2, <2>3, <2>4, <2>5
<1>2. ASSUME NEW h \in Handle, NEW f \in Fd, NEW t \in -1..MaxSlices, wait(h, f, t)
      PROVE  TypeInv'
  BY <1>1, <1>2 DEF wait
<1>3. ASSUME NEW f \in Fd, NEW t \in 0..MaxSlices, KillWaits(f, t) PROVE TypeInv'
  <2>1. t \in -1..MaxSlices
    BY MaxSlicesAssumption
  <2>2. QED
    BY <1>1, <1>3, <2>1 DEF KillWaits, MainTypeOK
<1>4. ASSUME WaitNoPipe PROVE TypeInv'
  <2>1. KernelTypeOK' /\ ListTypeOK' /\ HandleTypeOK'
    BY <1>4 DEF WaitNoPipe, KernelTypeOK, ListTypeOK, HandleTypeOK
  <2>2. SigchldTypeOK'
    BY <1>4 DEF WaitNoPipe, setup_sigchld, SigchldTypeOK
  <2>3. MainTypeOK' /\ RegInv'
    BY <1>4 DEF WaitNoPipe, MainTypeOK, Location, RegInv
  <2>4. QED
    BY <2>1, <2>2, <2>3
<1>5. ASSUME WaitWoken \/ WaitSlice PROVE TypeInv'
  <2>1. KernelTypeOK' /\ ListTypeOK' /\ HandleTypeOK' /\ SigchldTypeOK'
    BY <1>5 DEF WaitWoken, WaitSlice, KernelTypeOK, ListTypeOK, HandleTypeOK, SigchldTypeOK
  <2>2. MainTypeOK'
    BY <1>5 DEF WaitWoken, WaitSlice, MainTypeOK, Location
  <2>3. RegInv'
    BY <1>5 DEF WaitWoken, WaitSlice, RegInv
  <2>4. QED
    BY <2>1, <2>2, <2>3
<1>6. ASSUME WaitInterrupted PROVE TypeInv'
  <2>1. KernelTypeOK'
    BY <1>6, TableTypes DEF WaitInterrupted, KernelTypeOK
  <2>2. ListTypeOK' /\ HandleTypeOK' /\ SigchldTypeOK'
    BY <1>6 DEF WaitInterrupted, ListTypeOK, HandleTypeOK, SigchldTypeOK
  <2>3. MainTypeOK' /\ RegInv'
    BY <1>6, ReturnTypes DEF WaitInterrupted
  <2>4. QED
    BY <2>1, <2>2, <2>3
<1>7. ASSUME WaitChecks PROVE TypeInv'
  <2>1. KernelTypeOK' /\ ListTypeOK' /\ HandleTypeOK' /\ SigchldTypeOK'
    BY <1>7 DEF WaitChecks, KernelTypeOK, ListTypeOK, HandleTypeOK, SigchldTypeOK
  <2>2. wleft' \in -1..MaxSlices
    BY <1>7, MaxSlicesAssumption DEF WaitChecks, MainTypeOK
  <2>3. MainTypeOK'
    BY <1>7, <2>2 DEF WaitChecks, MainTypeOK, Location
  <2>4. RegInv'
    BY <1>7 DEF WaitChecks, RegInv
  <2>5. QED
    BY <2>1, <2>3, <2>4
<1>8. ASSUME WaitEnds PROVE TypeInv'
  <2>1. KernelTypeOK'
    BY <1>8, TableTypes DEF WaitEnds, KernelTypeOK
  <2>2. ListTypeOK' /\ HandleTypeOK'
    BY <1>8 DEF WaitEnds, ListTypeOK, HandleTypeOK
  <2>3. SigchldTypeOK'
    BY <1>8 DEF WaitEnds, SigchldTypeOK, MainTypeOK
  <2>4. CASE Return /\ wfd' = -1
    BY <2>4, ReturnTypes, <2>1, <2>2, <2>3
  <2>5. CASE pc' = "kill_waited" /\ UNCHANGED regVars
    BY <2>5, <2>1, <2>2, <2>3 DEF MainTypeOK, Location, RegInv
  <2>6. QED
    BY <1>8, <2>4, <2>5 DEF WaitEnds
<1>9. QED
  BY <1>2, <1>3, <1>4, <1>5, <1>6, <1>7, <1>8 DEF Wait

\* Entering a call that blocks SIGCHLD first.
LEMMA BlocksTypes ==
    ASSUME TypeInv, NEW h \in Handle, NEW l \in Location \ {"exec_pipes", "exec_forked",
               "exec_weakref", "unload_remove", "unload_loop", "unload_reap"},
           Blocks(h, l)
    PROVE  TypeInv'
<1> USE DEF TypeInv, TypeOK, Goto
<1>1. KernelTypeOK' /\ ListTypeOK' /\ HandleTypeOK'
  BY DEF Blocks, KernelTypeOK, ListTypeOK, HandleTypeOK
<1>2. SigchldTypeOK'
  BY DEF Blocks, SigchldTypeOK
<1>3. MainTypeOK'
  BY DEF Blocks, MainTypeOK
<1>4. RegInv'
  BY DEF Blocks, RegInv
<1>5. QED
  BY <1>1, <1>2, <1>3, <1>4

\* A signal changes what the children have got.
LEMMA DeliveredTypes ==
    ASSUME KernelTypeOK, NEW h, NEW p, NEW sig \in Signal, Delivered(h, p, sig)
    PROVE  sigs' \in [Handle -> SUBSET Signal] /\ misfire' \in BOOLEAN
<1>1. sigs' \in [Handle -> SUBSET Signal]
  BY DEF KernelTypeOK, Delivered
<1>2. misfire' \in BOOLEAN
  BY DEF KernelTypeOK, Delivered
<1>3. QED
  BY <1>1, <1>2

\* The steps of c_processx_kill.
LEMMA KillTypes == ASSUME TypeInv, Kill PROVE TypeInv'
<1> USE DEF TypeInv, TypeOK, Goto
<1>1. ASSUME NEW h \in Handle, kill(h) PROVE TypeInv'
  <2>1. "kill_check" \in Location
    BY DEF Location
  <2>2. QED
    BY <1>1, <2>1, BlocksTypes DEF kill
<1>2. ASSUME NEW g \in BOOLEAN, KillChecks(g) PROVE TypeInv'
  <2> DEFINE p == hpid[Cur]
  <2>1. KernelTypeOK' /\ HandleTypeOK'
    <3>1. CASE UNCHANGED <<statusVars, pty_child_fd, owner>> /\ child' \in {child, Reaped(p)}
      BY <1>2, <3>1, TableTypes DEF KillChecks, KernelTypeOK, HandleTypeOK
    <3>2. CASE child' = Reaped(p) /\ collect_exit_status(Cur, NA) /\ owner' = Closed(CollectCloses(Cur))
      <4>1. /\ collected' \in [Handle -> BOOLEAN]
            /\ exitcode' \in [Handle -> ExitCode \cup {NA}]
            /\ pty_child_fd' \in [Handle -> Fd \cup {-1}]
        BY <3>2, CollectTypes
      <4>2. QED
        BY <1>2, <3>2, <4>1, TableTypes DEF KillChecks, KernelTypeOK, HandleTypeOK
    <3>3. QED
      BY <1>2, <3>1, <3>2 DEF KillChecks
  <2>2. ListTypeOK' /\ SigchldTypeOK'
    BY <1>2 DEF KillChecks, ListTypeOK, SigchldTypeOK
  <2>3. pc' \in {"kill_cleanup", "kill_term", "kill_kill"}
    BY <1>2 DEF KillChecks
  <2>4. MainTypeOK' /\ RegInv'
    BY <1>2, <2>3 DEF KillChecks, MainTypeOK, Location, RegInv
  <2>5. QED
    BY <2>1, <2>2, <2>4
<1>3. ASSUME NEW sig \in Signal, NEW l \in {"wait_start", "kill_reap"}, KILL_WITH(sig, l)
      PROVE  TypeInv'
  <2>1. KernelTypeOK'
    BY <1>3, DeliveredTypes DEF KILL_WITH, KernelTypeOK
  <2>2. ListTypeOK' /\ HandleTypeOK' /\ SigchldTypeOK'
    BY <1>3 DEF KILL_WITH, ListTypeOK, HandleTypeOK, SigchldTypeOK
  <2>3. MainTypeOK' /\ RegInv'
    BY <1>3 DEF KILL_WITH, MainTypeOK, Location, RegInv
  <2>4. QED
    BY <2>1, <2>2, <2>3
<1>4. ASSUME KillTerminates \/ KillKills PROVE TypeInv'
  <2>1. SIGTERM \in Signal /\ SIGKILL \in Signal
    BY DEF Signal
  <2>2. QED
    BY <1>3, <1>4, <2>1 DEF KillTerminates, KillKills
<1>5. ASSUME KillWaited PROVE TypeInv'
  BY <1>5 DEF KillWaited, KernelTypeOK, ListTypeOK, HandleTypeOK, SigchldTypeOK, MainTypeOK,
     Location, RegInv
<1>6. ASSUME KillReaps PROVE TypeInv'
  <2>1. KernelTypeOK' /\ HandleTypeOK'
    BY <1>6, ExitedTypes DEF KillReaps, KernelTypeOK, HandleTypeOK
  <2>2. ListTypeOK' /\ SigchldTypeOK' /\ MainTypeOK' /\ RegInv'
    BY <1>6 DEF KillReaps, ListTypeOK, SigchldTypeOK, MainTypeOK, Location, RegInv
  <2>3. QED
    BY <2>1, <2>2
<1>7. ASSUME KillEnds PROVE TypeInv'
  <2>1. KernelTypeOK'
    BY <1>7, TableTypes DEF KillEnds, KernelTypeOK
  <2>2. ListTypeOK' /\ HandleTypeOK'
    BY <1>7 DEF KillEnds, ListTypeOK, HandleTypeOK
  <2>3. SigchldTypeOK'
    BY <1>7 DEF KillEnds, SigchldTypeOK
  <2>4. CASE fh = NoNode
    BY <1>7, <2>1, <2>2, <2>3, <2>4, ReturnTypes DEF KillEnds
  <2>5. CASE fh # NoNode
    <3>1. 0 \in -1..MaxSlices
      BY MaxSlicesAssumption
    <3>2. MainTypeOK' /\ RegInv'
      BY <1>7, <2>5, <3>1 DEF KillEnds, WaitForgets, MainTypeOK, Location, RegInv
    <3>3. QED
      BY <2>1, <2>2, <2>3, <3>2
  <2>6. QED
    BY <2>4, <2>5
<1>8. QED
  BY <1>1, <1>2, <1>4, <1>5, <1>6, <1>7 DEF Kill

\* The steps of processx__finalizer.
LEMMA FinalizerTypes == ASSUME TypeInv, Finalizer PROVE TypeInv'
<1> USE DEF TypeInv, TypeOK, Goto
<1>1. ASSUME NEW h \in Handle, Drops(h) PROVE TypeInv'
  BY <1>1 DEF Drops, KernelTypeOK, ListTypeOK, HandleTypeOK, SigchldTypeOK, MainTypeOK, RegInv,
     Listed, FreeListed
<1>2. ASSUME NEW h \in Handle, FinalizerStarts(h) PROVE TypeInv'
  <2>1. KernelTypeOK'
    BY <1>2 DEF FinalizerStarts, KernelTypeOK
  <2>2. nfree' \in [Handle -> Nat]
    BY <1>2 DEF FinalizerStarts, freelist_free, ListTypeOK
  <2>3. ListTypeOK'
    BY <1>2, <2>2 DEF FinalizerStarts, freelist_free, ListTypeOK
  <2>4. HandleTypeOK'
    BY <1>2 DEF FinalizerStarts, HandleTypeOK
  <2>5. SigchldTypeOK'
    BY <1>2 DEF FinalizerStarts, SigchldTypeOK
  <2>6. MainTypeOK'
    BY <1>2 DEF FinalizerStarts, MainTypeOK, Location
  <2>7. RegInv'
    BY <1>2 DEF FinalizerStarts, RegInv, At
  <2>8. QED
    BY <2>1, <2>3, <2>4, <2>5, <2>6, <2>7
<1>3. ASSUME FinalizerKills PROVE TypeInv'
  <2>1. KernelTypeOK' /\ ListTypeOK' /\ HandleTypeOK'
    BY <1>3 DEF FinalizerKills, KernelTypeOK, ListTypeOK, HandleTypeOK
  <2>2. SigchldTypeOK' /\ MainTypeOK' /\ RegInv'
    BY <1>3 DEF FinalizerKills, SigchldTypeOK, MainTypeOK, Location, RegInv
  <2>3. QED
    BY <2>1, <2>2
<1>4. ASSUME FinalizerClears PROVE TypeInv'
  <2>1. HandleTypeOK'
    BY <1>4 DEF FinalizerClears, HandleTypeOK
  <2>2. KernelTypeOK' /\ ListTypeOK' /\ SigchldTypeOK'
    BY <1>4 DEF FinalizerClears, KernelTypeOK, ListTypeOK, SigchldTypeOK
  <2>3. MainTypeOK' /\ RegInv'
    BY <1>4 DEF FinalizerClears, MainTypeOK, Location, RegInv
  <2>4. QED
    BY <2>1, <2>2, <2>3
<1>5. ASSUME FinalizerDestroys PROVE TypeInv'
  <2>1. KernelTypeOK'
    BY <1>5, TableTypes DEF FinalizerDestroys, handle_destroy, KernelTypeOK
  <2>2. HandleTypeOK'
    BY <1>5 DEF FinalizerDestroys, handle_destroy, HandleTypeOK
  <2>3. ListTypeOK' /\ SigchldTypeOK' /\ MainTypeOK'
    BY <1>5 DEF FinalizerDestroys, ListTypeOK, SigchldTypeOK, MainTypeOK, Location
  <2>4. RegInv'
    BY <1>5 DEF FinalizerDestroys, RegInv
  <2>5. QED
    BY <2>1, <2>2, <2>3, <2>4
<1>6. QED
  BY <1>1, <1>2, <1>3, <1>4, <1>5 DEF Finalizer

\* The node after a linked node.
LEMMA AfterLinked ==
    ASSUME NEW s \in Seq(Handle), NEW h, \E i \in 1..Len(s) : s[i] = h
    PROVE  \/ After(s, h) = NoNode
           \/ After(s, h) \in Handle /\ \E i \in 1..Len(s) : s[i] = After(s, h)
<1> DEFINE k == CHOOSE i \in 1..Len(s) : s[i] = h
<1>1. k \in 1..Len(s)
  OBVIOUS
<1>2. After(s, h) = IF k = Len(s) THEN NoNode ELSE s[k + 1]
  BY DEF After
<1> HIDE DEF k
<1>3. CASE k = Len(s)
  BY <1>2, <1>3
<1>4. CASE k # Len(s)
  <2>1. k + 1 \in 1..Len(s)
    BY <1>1, <1>4
  <2>2. QED
    BY <1>2, <1>4, <2>1
<1>5. QED
  BY <1>3, <1>4

\* The steps of processx__unload_cleanup.
LEMMA UnloadTypes == ASSUME TypeInv, Unload PROVE TypeInv'
<1> USE DEF TypeInv, TypeOK, Goto
<1>1. ASSUME UnloadStarts PROVE TypeInv'
  <2>1. KernelTypeOK' /\ ListTypeOK' /\ HandleTypeOK' /\ SigchldTypeOK'
    BY <1>1 DEF UnloadStarts, KernelTypeOK, ListTypeOK, HandleTypeOK, SigchldTypeOK
  <2>2. child_list # <<>> => 1 \in 1..Len(child_list) /\ child_list[1] \in Handle
    BY DEF ListTypeOK
  <2>3. MainTypeOK'
    BY <1>1, <2>2 DEF UnloadStarts, First, MainTypeOK, Location
  <2>4. RegInv'
    BY <1>1, <2>2 DEF UnloadStarts, First, RegInv, Listed
  <2>5. QED
    BY <2>1, <2>3, <2>4
<1>2. ASSUME UnloadRemoves PROVE TypeInv'
  <2>1. KernelTypeOK' /\ ListTypeOK' /\ HandleTypeOK'
    BY <1>2 DEF UnloadRemoves, KernelTypeOK, ListTypeOK, HandleTypeOK
  <2>2. SigchldTypeOK' /\ MainTypeOK'
    BY <1>2 DEF UnloadRemoves, remove_sigchld, SigchldTypeOK, MainTypeOK, Location
  <2>3. RegInv'
    BY <1>2 DEF UnloadRemoves, At, RegInv, Listed, FreeListed
  <2>4. QED
    BY <2>1, <2>2, <2>3
<1>3. ASSUME UnloadKills PROVE TypeInv'
  <2>1. KernelTypeOK'
    <3>1. SIGKILL \in Signal
      BY DEF Signal
    <3>2. QED
      BY <1>3, <3>1, DeliveredTypes DEF UnloadKills, KernelTypeOK
  <2>2. ListTypeOK' /\ HandleTypeOK' /\ SigchldTypeOK' /\ MainTypeOK'
    BY <1>3 DEF UnloadKills, ListTypeOK, HandleTypeOK, SigchldTypeOK, MainTypeOK, Location
  <2>3. RegInv'
    BY <1>3 DEF UnloadKills, At, RegInv, Listed, FreeListed
  <2>4. QED
    BY <2>1, <2>2, <2>3
<1>4. ASSUME UnloadFrees PROVE TypeInv'
  <2>1. uptr \in Handle /\ (Listed(uptr) \/ FreeListed(uptr))
    BY <1>4 DEF UnloadFrees, At, RegInv, MainTypeOK
  <2>2. \/ next(uptr) = NoNode
        \/ next(uptr) \in Handle /\ (Listed(next(uptr)) \/ FreeListed(next(uptr)))
    <3>1. CASE Listed(uptr)
      BY <3>1, AfterLinked DEF next, Listed, ListTypeOK
    <3>2. CASE ~ Listed(uptr)
      BY <2>1, <3>2, AfterLinked DEF next, FreeListed, ListTypeOK
    <3>3. QED
      BY <3>1, <3>2
  <2>3. KernelTypeOK'
    <3>1. child' \in [Handle -> ChildState]
      BY <1>4, TableTypes DEF UnloadFrees, KernelTypeOK
    <3>2. QED
      BY <1>4, <3>1 DEF UnloadFrees, KernelTypeOK
  <2>4. HandleTypeOK'
    BY <1>4 DEF UnloadFrees, HandleTypeOK
  <2>5. ListTypeOK'
    <3>1. nfree' = [nfree EXCEPT ![uptr] = @ + 1] /\ nfree[uptr] + 1 \in Nat
      BY <1>4, <2>1 DEF UnloadFrees, ListTypeOK
    <3>2. QED
      BY <1>4, <3>1 DEF UnloadFrees, ListTypeOK
  <2>6. SigchldTypeOK' /\ MainTypeOK'
    BY <1>4, <2>2 DEF UnloadFrees, SigchldTypeOK, MainTypeOK, Location
  <2>7. RegInv'
    BY <1>4, <2>2 DEF UnloadFrees, RegInv, Listed, FreeListed
  <2>8. QED
    BY <2>3, <2>4, <2>5, <2>6, <2>7
<1>5. ASSUME UnloadEnds PROVE TypeInv'
  <2>1. nfree' \in [Handle -> Nat]
    BY <1>5 DEF UnloadEnds, ListTypeOK
  <2>2. ListTypeOK'
    BY <1>5, <2>1 DEF UnloadEnds, ListTypeOK
  <2>3. KernelTypeOK' /\ HandleTypeOK' /\ SigchldTypeOK' /\ MainTypeOK'
    BY <1>5 DEF UnloadEnds, KernelTypeOK, HandleTypeOK, SigchldTypeOK, MainTypeOK, Location
  <2>4. RegInv'
    BY <1>5 DEF UnloadEnds, RegInv
  <2>5. QED
    BY <2>2, <2>3, <2>4
<1>6. QED
  BY <1>1, <1>2, <1>3, <1>4, <1>5 DEF Unload

\* The steps of processx_is_alive and processx_signal.
LEMMA QueryTypes ==
    ASSUME TypeInv,
           \/ AliveChecks \/ SignalTooLate \/ SignalReaps
           \/ \E h \in Handle : is_alive(h) \/ signal(h)
           \/ \E sig \in Signal : SignalSends(sig)
    PROVE  TypeInv'
<1> USE DEF TypeInv, TypeOK, Goto
<1>1. ASSUME NEW h \in Handle, is_alive(h) \/ signal(h) PROVE TypeInv'
  <2>1. "alive_check" \in Location /\ "sig_send" \in Location
    BY DEF Location
  <2>2. QED
    BY <1>1, <2>1, BlocksTypes DEF is_alive, signal
<1>2. ASSUME AliveChecks PROVE TypeInv'
  <2>1. KernelTypeOK' /\ HandleTypeOK'
    BY <1>2, ExitedTypes DEF AliveChecks, KernelTypeOK, HandleTypeOK
  <2>2. ListTypeOK' /\ SigchldTypeOK'
    BY <1>2 DEF AliveChecks, ListTypeOK, SigchldTypeOK
  <2>3. MainTypeOK' /\ RegInv'
    BY <1>2, ReturnTypes DEF AliveChecks, MainTypeOK
  <2>4. QED
    BY <2>1, <2>2, <2>3
<1>3. ASSUME SignalTooLate PROVE TypeInv'
  <2>1. KernelTypeOK' /\ HandleTypeOK' /\ ListTypeOK' /\ SigchldTypeOK'
    BY <1>3 DEF SignalTooLate, KernelTypeOK, HandleTypeOK, ListTypeOK, SigchldTypeOK
  <2>2. MainTypeOK' /\ RegInv'
    BY <1>3, ReturnTypes DEF SignalTooLate, MainTypeOK
  <2>3. QED
    BY <2>1, <2>2
<1>4. ASSUME SignalReaps PROVE TypeInv'
  <2>1. KernelTypeOK' /\ HandleTypeOK'
    <3>1. CASE WaitECHILD(hpid[uh])
      <4>1. /\ collected' \in [Handle -> BOOLEAN]
            /\ exitcode' \in [Handle -> ExitCode \cup {NA}]
            /\ pty_child_fd' \in [Handle -> Fd \cup {-1}]
        BY <1>4, <3>1, CollectTypes DEF SignalReaps
      <4>2. QED
        BY <1>4, <3>1, <4>1, TableTypes DEF SignalReaps, KernelTypeOK, HandleTypeOK
    <3>2. CASE ~ WaitECHILD(hpid[uh])
      BY <1>4, <3>2, TableTypes DEF SignalReaps, KernelTypeOK, HandleTypeOK
    <3>3. QED
      BY <3>1, <3>2
  <2>2. ListTypeOK' /\ SigchldTypeOK'
    BY <1>4 DEF SignalReaps, ListTypeOK, SigchldTypeOK
  <2>3. MainTypeOK' /\ RegInv'
    BY <1>4, ReturnTypes DEF SignalReaps, MainTypeOK
  <2>4. QED
    BY <2>1, <2>2, <2>3
<1>5. ASSUME NEW sig \in Signal, SignalSends(sig) PROVE TypeInv'
  <2>1. KernelTypeOK'
    BY <1>5, DeliveredTypes DEF SignalSends, KernelTypeOK
  <2>2. ListTypeOK' /\ HandleTypeOK' /\ SigchldTypeOK'
    BY <1>5 DEF SignalSends, ListTypeOK, HandleTypeOK, SigchldTypeOK
  <2>3. MainTypeOK' /\ RegInv'
    BY <1>5 DEF SignalSends, MainTypeOK, Location, RegInv
  <2>4. QED
    BY <2>1, <2>2, <2>3
<1>6. QED
  BY <1>1, <1>2, <1>3, <1>4, <1>5

\* Every step keeps the types.
LEMMA NextTypes == ASSUME TypeInv, [Next]_vars PROVE TypeInv'
<1> USE DEF TypeInv, TypeOK
<1>1. ASSUME Displaced PROVE TypeInv'
  <2>1. KernelTypeOK' /\ ListTypeOK' /\ HandleTypeOK' /\ SigchldTypeOK'
    BY <1>1 DEF Displaced, KernelTypeOK, ListTypeOK, HandleTypeOK, SigchldTypeOK
  <2>2. MainTypeOK' /\ RegInv'
    BY <1>1 DEF Displaced, MainTypeOK, RegInv, Listed, FreeListed
  <2>3. QED
    BY <2>1, <2>2
<1>2. ASSUME NEW f \in Fd, Opens(f) PROVE TypeInv'
  <2>1. KernelTypeOK'
    BY <1>2 DEF Opens, OtherOpens, KernelTypeOK
  <2>2. ListTypeOK' /\ HandleTypeOK' /\ SigchldTypeOK'
    BY <1>2 DEF Opens, ListTypeOK, HandleTypeOK, SigchldTypeOK
  <2>3. MainTypeOK' /\ RegInv'
    BY <1>2 DEF Opens, MainTypeOK, RegInv, Listed, FreeListed
  <2>4. QED
    BY <2>1, <2>2, <2>3
<1>3. ASSUME UNCHANGED vars PROVE TypeInv'
  <2>1. KernelTypeOK' /\ ListTypeOK' /\ HandleTypeOK' /\ SigchldTypeOK'
    BY <1>3 DEF vars, KernelTypeOK, ListTypeOK, HandleTypeOK, SigchldTypeOK
  <2>2. MainTypeOK' /\ RegInv'
    BY <1>3 DEF vars, MainTypeOK, RegInv, Listed, FreeListed
  <2>3. QED
    BY <2>1, <2>2
<1>4. ASSUME Calls PROVE TypeInv'
  BY <1>4, ExecTypes, WaitTypes, KillTypes, FinalizerTypes, UnloadTypes, QueryTypes DEF Calls
<1>5. QED
  BY <1>1, <1>2, <1>3, <1>4, ChildrenTypes, SignalsTypes DEF Next

\* Every variable keeps its type, however many handles, pids and descriptors
\* there are and whatever happens around processx.
THEOREM TypeCorrect == Spec => []TypeOK
<1>1. TypeInv => TypeOK
  BY DEF TypeInv
<1>2. QED
  BY InitTypes, NextTypes, <1>1, PTL DEF Spec

---------------------------------------------------------------------------
(***************************************************************************)
(* Where the main program can be while a process object is finalized, and  *)
(* which of its registers are in use then.  Facts that the proofs of the   *)
(* safety properties rest on.                                              *)
(***************************************************************************)
\* The locations of c_processx_wait, and those a finalizer can be at.
WaitLocation == {"wait_poll", "wait_check", "wait_done"}
FinLocation ==
    WaitLocation \cup
    { "fin_kill", "fin_clear", "fin_destroy", "kill_check", "kill_term", "wait_start",
      "kill_waited", "kill_kill", "kill_reap", "kill_cleanup" }

CtlInv ==
    /\ pc \in {"idle", "unload_remove", "unload_loop", "unload_reap"} => uh = NoNode
    /\ pc \in {"unload_remove", "unload_loop", "unload_reap"} => "unload" \in Env
    /\ fh # NoNode => pc \in FinLocation
    /\ pc \in {"fin_kill", "fin_clear", "fin_destroy"} => fh # NoNode
    /\ waitret = "user" /\ pc \in WaitLocation => fh = NoNode

ctlVars == <<pc, uh, fh, waitret>>

\* CtlInv holds when the package is loaded.
LEMMA InitControl == Init => CtlInv
  BY DEF Init, MainInit, CtlInv, WaitLocation

\* No step of the main program, of the handler or of a child invalidates CtlInv.
LEMMA NextControl == ASSUME TypeInv, CtlInv, [Next]_vars PROVE CtlInv'
<1> USE DEF CtlInv, WaitLocation, FinLocation, Goto, At
<1>1. ASSUME UNCHANGED ctlVars PROVE CtlInv'
  BY <1>1 DEF ctlVars
<1>2. ASSUME Return, pc \notin FinLocation \/ fh = NoNode PROVE CtlInv'
  BY <1>2 DEF Return, WaitForgets
<1>3. ASSUME NEW h, NEW l, Blocks(h, l), 
             l \in {"alive_check", "sig_send", "kill_check"}
      PROVE  CtlInv'
  BY <1>3 DEF Blocks, Called, InR
<1>4. ASSUME Exec PROVE CtlInv'
  <2>1. ASSUME NEW h, NEW cl, ExecStarts(h, cl) PROVE CtlInv'
    BY <2>1 DEF ExecStarts, InR
  <2>2. ASSUME ExecFailsEarly \/ ExecSucceeds \/ ExecReaps \/ \E f \in Fd \cup {-1} : ExecNoMemory(f)
        PROVE  CtlInv'
    <3>1. Return /\ pc \notin FinLocation
      BY <2>2 DEF ExecFailsEarly, ExecSucceeds, ExecReaps, ExecNoMemory, ExecOpensPty
    <3>2. QED
      BY <1>2, <3>1
  <2>3. ASSUME \/ \E p \in Pid : ExecForks(p)
               \/ \E f \in Fd \cup {-1} : ExecMakesNode(f)
               \/ ExecLinks \/ ExecReadsErrno
        PROVE  CtlInv'
    BY <2>3 DEF ExecForks, ExecMakesNode, ExecOpensPty, ExecLinks, ExecReadsErrno
  <2>4. QED
    BY <1>4, <2>1, <2>2, <2>3 DEF Exec
<1>5. ASSUME Wait PROVE CtlInv'
  <2>1. ASSUME NEW h, NEW f, NEW t, wait(h, f, t) PROVE CtlInv'
    BY <2>1 DEF wait, WaitBegins, Called, InR
  <2>2. ASSUME NEW f, NEW t, KillWaits(f, t) PROVE CtlInv'
    BY <2>2 DEF KillWaits, WaitBegins
  <2>3. ASSUME WaitNoPipe PROVE CtlInv'
    BY <2>3 DEF WaitNoPipe
  <2>4. ASSUME WaitWoken \/ WaitSlice \/ WaitChecks PROVE CtlInv'
    BY <2>4 DEF WaitWoken, WaitSlice, WaitChecks
  <2>5. ASSUME WaitInterrupted PROVE CtlInv'
    BY <2>5, <1>2 DEF WaitInterrupted
  <2>6. ASSUME WaitEnds PROVE CtlInv'
    BY <2>6, <1>2 DEF WaitEnds
  <2>7. QED
    BY <1>5, <2>1, <2>2, <2>3, <2>4, <2>5, <2>6 DEF Wait
<1>6. ASSUME Kill PROVE CtlInv'
  <2>1. ASSUME NEW h, kill(h) PROVE CtlInv'
    BY <2>1, <1>3 DEF kill
  <2>2. ASSUME NEW g, KillChecks(g) PROVE CtlInv'
    <3>1. pc = "kill_check" /\ pc' \in {"kill_cleanup", "kill_term", "kill_kill"}
      BY <2>2 DEF KillChecks
    <3>2. UNCHANGED <<uh, fh, waitret>>
      BY <2>2 DEF KillChecks
    <3>3. QED
      BY <3>1, <3>2
  <2>3. ASSUME KillTerminates \/ KillKills PROVE CtlInv'
    BY <2>3 DEF KillTerminates, KillKills, KILL_WITH
  <2>4. ASSUME KillWaited \/ KillReaps PROVE CtlInv'
    BY <2>4 DEF KillWaited, KillReaps
  <2>5. ASSUME KillEnds PROVE CtlInv'
    <3>1. CASE fh = NoNode
      BY <2>5, <3>1, <1>2 DEF KillEnds
    <3>2. CASE fh # NoNode
      BY <2>5, <3>2 DEF KillEnds, WaitForgets
    <3>3. QED
      BY <3>1, <3>2
  <2>6. QED
    BY <1>6, <2>1, <2>2, <2>3, <2>4, <2>5 DEF Kill
<1>7. ASSUME Finalizer PROVE CtlInv'
  <2>1. ASSUME NEW h, Drops(h) PROVE CtlInv'
    BY <2>1, <1>1 DEF Drops, ctlVars
  <2>2. ASSUME NEW h \in Handle, FinalizerStarts(h) PROVE CtlInv'
    BY <2>2, NoNodeAssumption DEF FinalizerStarts
  <2>3. ASSUME FinalizerKills \/ FinalizerClears PROVE CtlInv'
    BY <2>3 DEF FinalizerKills, FinalizerClears
  <2>4. ASSUME FinalizerDestroys PROVE CtlInv'
    BY <2>4 DEF FinalizerDestroys
  <2>5. QED
    BY <1>7, <2>1, <2>2, <2>3, <2>4 DEF Finalizer
<1>8. ASSUME Unload PROVE CtlInv'
  BY <1>8 DEF Unload, UnloadStarts, UnloadRemoves, UnloadKills, UnloadFrees, UnloadEnds, InR
<1>9. ASSUME \/ AliveChecks \/ SignalTooLate \/ SignalReaps
             \/ \E h \in Handle : is_alive(h) \/ signal(h)
             \/ \E sig \in Signal : SignalSends(sig)
      PROVE  CtlInv'
  <2>1. ASSUME NEW h, is_alive(h) \/ signal(h) PROVE CtlInv'
    BY <2>1, <1>3 DEF is_alive, signal
  <2>2. ASSUME AliveChecks \/ SignalTooLate \/ SignalReaps PROVE CtlInv'
    BY <2>2, <1>2 DEF AliveChecks, SignalTooLate, SignalReaps
  <2>3. ASSUME NEW sig, SignalSends(sig) PROVE CtlInv'
    BY <2>3 DEF SignalSends
  <2>4. QED
    BY <1>9, <2>1, <2>2, <2>3
<1>10. ASSUME Children \/ Signals \/ Displaced \/ UNCHANGED vars \/ \E f \in Fd : Opens(f)
       PROVE  CtlInv'
  BY <1>10, <1>1 DEF Children, Signals, Displaced, Opens, vars, ctlVars
<1>11. QED
  BY <1>4, <1>5, <1>6, <1>7, <1>8, <1>9, <1>10 DEF Next, Calls

-----------------------------------------------------------------------------
(***************************************************************************)
(* The list of children, for any number of process objects.  No exit of a  *)
(* child is overlooked: NoLostZombie is an invariant, unless the handler   *)
(* is replaced or removed, or the finalizer of another object runs between *)
(* fork() and the linking of the list node, or there is no memory for that *)
(* node.  And the nodes are safe: NodesSafe is an invariant, also if       *)
(* finalizers run in the middle of processx_exec, as long as the package   *)
(* is not unloaded.                                                        *)
(***************************************************************************)
\* What the theorem assumes of the environment.
Undisturbed == Env \cap {"displace", "gc", "oom", "unload"} = {}

Unreaped == {h \in Handle : child[h] \in Alive \cup {"zombie"}}

\* Without a garbage collection inside child_add, a finalizer never runs while
\* processx_exec does.
NoNesting == fh # NoNode => uh = NoNode

\* The handler is installed before the first fork(), and stays.
Installed ==
    /\ pc \in {"exec_pipes", "exec_forked", "exec_weakref"} => disposition = "processx"
    /\ \A h \in Handle : child[h] # "none" => disposition = "processx" /\ kpid[h] # 0

\* A process that R has not reaped has its pid for itself.
PidsUnique == \A g, h \in Unreaped : kpid[g] = kpid[h] => g = h

\* The node of a child that was not reaped is linked, or is about to be while
\* SIGCHLD is blocked.
Forked == pc \in {"exec_forked", "exec_weakref"}
NodeLinked ==
    /\ \A h \in Unreaped : Listed(h) \/ (uh = h /\ Forked)
    /\ Forked => blocked /\ hptr = 0 /\ child[uh] # "none"
    /\ \A h \in Handle : Listed(h) => child[h] # "none"

ZombieInv == NoNesting /\ Installed /\ PidsUnique /\ NodeLinked /\ NoLostZombie

\* The invariant holds in the beginning.
LEMMA InitZombie == Init => ZombieInv
<1> SUFFICES ASSUME Init PROVE ZombieInv
  OBVIOUS
<1>1. \A h \in Handle : child[h] = "none" /\ ~ Listed(h)
  BY DEF Init, KernelInit, ListInit, Listed
<1>2. fh = NoNode /\ pc = "idle"
  BY DEF Init, MainInit
<1>3. QED
  BY <1>1, <1>2 DEF ZombieInv, NoNesting, Installed, PidsUnique, NodeLinked, NoLostZombie,
     Unreaped, Alive, Forked

\* A step of the main program that starts no process, links no node, and
\* removes no handler, and after which the program is not about to link one.
LEMMA QuietStep ==
    ASSUME TypeInv, ZombieInv,
           hptr = 0, hptr' = hptr, forwarding' = forwarding, pending' = pending, kpid' = kpid,
           child_list' = child_list,
           disposition' \in {disposition, "processx"},
           ~ Forked \/ (UNCHANGED <<pc, uh, child, blocked>>),
           \/ pc' \notin {"exec_pipes", "exec_forked", "exec_weakref"}
           \/ UNCHANGED <<pc, uh, child, blocked>>,
           \A h \in Handle : child'[h] = child[h] \/ (child[h] = "zombie" /\ child'[h] = "reaped"),
           fh' # NoNode => uh' = NoNode
    PROVE  ZombieInv'
<1> USE DEF ZombieInv
<1>1. NoNesting'
  BY DEF NoNesting
<1>2. Installed'
  BY DEF Installed
<1>3. PidsUnique'
  BY DEF PidsUnique, Unreaped, Alive
<1>4. NodeLinked'
  BY DEF NodeLinked, Unreaped, Alive, Forked, Listed
<1>5. NoLostZombie'
  BY DEF NoLostZombie
<1>6. QED
  BY <1>1, <1>2, <1>3, <1>4, <1>5

\* waitpid() only turns zombies into reaped children.
LEMMA ReapedOnlyZombies ==
    ASSUME TypeInv, NEW p, NEW h \in Handle
    PROVE  Reaped(p)[h] = child[h] \/ (child[h] = "zombie" /\ Reaped(p)[h] = "reaped")
  BY DEF Reaped

\* The steps of processx_exec.
LEMMA ExecZombie == ASSUME Undisturbed, TypeInv, CtlInv, ZombieInv, Exec PROVE ZombieInv'
<1> USE DEF At, MainRuns, Goto
<1>0. \/ fh = NoNode
      \/ pc \notin {"idle", "exec_pipes", "exec_forked", "exec_weakref", "exec_read", "exec_reap"}
  BY DEF CtlInv, FinLocation, WaitLocation
<1>1. ASSUME NEW h \in Handle, NEW cl \in BOOLEAN, ExecStarts(h, cl) PROVE ZombieInv'
  <2>1. /\ hptr = 0 /\ hptr' = 0 /\ pc = "idle" /\ pc' = "exec_pipes" /\ fh' = NoNode
        /\ UNCHANGED <<child, kpid, pending, forwarding, child_list>>
        /\ disposition' = "processx"
    BY <1>0, <1>1 DEF ExecStarts, InR, setup_sigchld
  <2>2. QED
    BY <2>1 DEF ZombieInv, NoNesting, Installed, PidsUnique, NodeLinked, NoLostZombie, Unreaped,
       Forked, Listed
<1>2. ASSUME ExecFailsEarly \/ ExecSucceeds PROVE ZombieInv'
  BY <1>0, <1>2, QuietStep DEF ExecFailsEarly, ExecSucceeds, Return, Forked
<1>3. ASSUME NEW p \in Pid, ExecForks(p) PROVE ZombieInv'
  <2>1. /\ hptr = 0 /\ hptr' = 0 /\ pc = "exec_pipes" /\ pc' = "exec_forked" /\ blocked' = TRUE
        /\ UNCHANGED <<pending, forwarding, child_list, disposition, uh, fh>>
        /\ child' = [child EXCEPT ![uh] = "init"] /\ kpid' = [kpid EXCEPT ![uh] = p]
        /\ PidFree(p)
    BY <1>3 DEF ExecForks
  <2>2. /\ child \in [Handle -> ChildState] /\ kpid \in [Handle -> Pid \cup {0}] /\ uh \in Handle
        /\ disposition = "processx" /\ p # 0
    BY <2>1, PidAssumption
       DEF TypeInv, TypeOK, KernelTypeOK, MainTypeOK, RegInv, ZombieInv, Installed
  <2>3. NoNesting' /\ Installed'
    BY <2>1, <2>2 DEF ZombieInv, NoNesting, Installed
  <2>4. PidsUnique'
    <3>1. \A h \in Unreaped : kpid[h] # p
      BY <2>1 DEF PidFree, Occupant, Unreaped
    <3>2. QED
      BY <2>1, <2>2, <3>1 DEF ZombieInv, PidsUnique, Unreaped
  <2>5. NodeLinked'
    BY <2>1, <2>2 DEF ZombieInv, NodeLinked, Unreaped, Forked, Listed
  <2>6. NoLostZombie'
    BY <2>1, <2>2 DEF ZombieInv, NoLostZombie
  <2>7. QED
    BY <2>3, <2>4, <2>5, <2>6 DEF ZombieInv
<1>4. ASSUME NEW f \in Fd \cup {-1}, ExecMakesNode(f) PROVE ZombieInv'
  <2>1. /\ hptr = 0 /\ pc = "exec_forked" /\ pc' = "exec_weakref"
        /\ UNCHANGED <<hptr, pending, forwarding, child_list, disposition, uh, fh, child, kpid,
                       blocked>>
    BY <1>4 DEF ExecMakesNode, ExecOpensPty
  <2>2. QED
    BY <2>1 DEF ZombieInv, NoNesting, Installed, PidsUnique, NodeLinked, NoLostZombie, Unreaped,
       Forked, Listed
<1>5. ASSUME NEW f \in Fd \cup {-1}, ExecNoMemory(f) PROVE ZombieInv'
  BY <1>5 DEF ExecNoMemory, Undisturbed
<1>6. ASSUME ExecLinks PROVE ZombieInv'
  <2>1. /\ hptr = 0 /\ hptr' = 0 /\ pc = "exec_weakref" /\ pc' = "exec_read"
        /\ UNCHANGED <<pending, forwarding, disposition, uh, fh, child, kpid>>
        /\ child_list' = <<uh>> \o child_list
    BY <1>6 DEF ExecLinks, child_add
  <2>2. uh \in Handle /\ child_list \in Seq(Handle)
    BY <2>1 DEF TypeInv, TypeOK, MainTypeOK, RegInv, ListTypeOK
  <2>3. \A x : (Listed(x) \/ x = uh => Listed(x)') /\ (Listed(x)' => Listed(x) \/ x = uh)
    <3>1. /\ Len(child_list') = Len(child_list) + 1 /\ Len(child_list) \in Nat
          /\ child_list'[1] = uh
          /\ \A i \in 1..Len(child_list) : child_list'[i + 1] = child_list[i]
      BY <2>1, <2>2, ConsSeq
    <3>2. ASSUME NEW x, Listed(x) PROVE Listed(x)'
      <4>1. PICK i \in 1..Len(child_list) : child_list[i] = x
        BY <3>2 DEF Listed
      <4>2. i + 1 \in 1..Len(child_list')
        BY <3>1, <4>1
      <4>3. QED
        BY <3>1, <4>1, <4>2 DEF Listed
    <3>3. Listed(uh)'
      <4>1. 1 \in 1..Len(child_list')
        BY <3>1
      <4>2. QED
        BY <3>1, <4>1, <2>1 DEF Listed
    <3>4. ASSUME NEW x, Listed(x)', x # uh PROVE Listed(x)
      <4>1. PICK i \in 1..Len(child_list') : child_list'[i] = x
        BY <3>4 DEF Listed
      <4>2. i # 1
        BY <3>1, <3>4, <4>1
      <4>3. i - 1 \in 1..Len(child_list) /\ (i - 1) + 1 = i
        BY <3>1, <4>1, <4>2
      <4>4. child_list[i - 1] = x
        BY <3>1, <4>1, <4>3
      <4>5. QED
        BY <4>3, <4>4 DEF Listed
    <3>5. QED
      BY <2>1, <3>2, <3>3, <3>4 DEF Listed
  <2>4. NoNesting' /\ Installed' /\ PidsUnique' /\ NoLostZombie'
    BY <2>1 DEF ZombieInv, NoNesting, Installed, PidsUnique, NoLostZombie, Unreaped
  <2>5. NodeLinked'
    BY <2>1, <2>2, <2>3 DEF ZombieInv, NodeLinked, Unreaped, Forked
  <2>6. QED
    BY <2>4, <2>5 DEF ZombieInv
<1>7. ASSUME ExecReadsErrno PROVE ZombieInv'
  BY <1>0, <1>7, QuietStep DEF ExecReadsErrno, Forked
<1>8. ASSUME ExecReaps PROVE ZombieInv'
  BY <1>0, <1>8, QuietStep, ReapedOnlyZombies DEF ExecReaps, Return, Forked
<1>9. QED
  BY <1>1, <1>2, <1>3, <1>4, <1>5, <1>6, <1>7, <1>8 DEF Exec

\* The other steps of the main program.
LEMMA CallsZombie == ASSUME Undisturbed, TypeInv, CtlInv, ZombieInv, Calls PROVE ZombieInv'
<1> USE DEF At, MainRuns, Goto, Called, InR
<1>0. /\ pc \notin FinLocation => fh = NoNode
      /\ fh # NoNode => uh = NoNode
      /\ pc = "idle" => uh = NoNode
      /\ waitret = "user" /\ pc \in WaitLocation => fh = NoNode
  BY DEF CtlInv, ZombieInv, NoNesting
<1>1. ASSUME NEW h \in Handle, NEW l, Blocks(h, l),
             l \in {"alive_check", "sig_send", "kill_check"}
      PROVE  ZombieInv'
  BY <1>0, <1>1, QuietStep DEF Blocks, Forked, FinLocation, WaitLocation
<1>2. ASSUME NEW h \in Handle, is_alive(h) \/ signal(h) \/ kill(h) PROVE ZombieInv'
  BY <1>1, <1>2 DEF is_alive, signal, kill
<1>3. ASSUME AliveChecks PROVE ZombieInv'
  BY <1>0, <1>3, QuietStep, ReapedOnlyZombies
     DEF AliveChecks, CollectExited, Return, Forked, FinLocation, WaitLocation
<1>4. ASSUME SignalTooLate \/ SignalReaps PROVE ZombieInv'
  BY <1>0, <1>4, QuietStep, ReapedOnlyZombies
     DEF SignalTooLate, SignalReaps, Return, Forked, FinLocation, WaitLocation
<1>5. ASSUME NEW sig \in Signal, SignalSends(sig) PROVE ZombieInv'
  BY <1>0, <1>5, QuietStep DEF SignalSends, Forked
<1>6. ASSUME Wait PROVE ZombieInv'
  <2>1. ASSUME NEW h \in Handle, NEW f, NEW t, wait(h, f, t) PROVE ZombieInv'
    BY <1>0, <2>1, QuietStep DEF wait, WaitBegins, setup_sigchld, Forked, FinLocation, WaitLocation
  <2>2. ASSUME NEW f, NEW t, KillWaits(f, t) PROVE ZombieInv'
    BY <1>0, <2>2, QuietStep DEF KillWaits, WaitBegins, setup_sigchld, Forked
  <2>3. ASSUME WaitNoPipe PROVE ZombieInv'
    BY <1>0, <2>3, QuietStep DEF WaitNoPipe, setup_sigchld, Forked
  <2>4. ASSUME WaitWoken \/ WaitSlice \/ WaitChecks PROVE ZombieInv'
    BY <1>0, <2>4, QuietStep DEF WaitWoken, WaitSlice, WaitChecks, Forked
  <2>5. ASSUME WaitInterrupted PROVE ZombieInv'
    BY <1>0, <2>5, QuietStep DEF WaitInterrupted, Return, Forked
  <2>6. ASSUME WaitEnds PROVE ZombieInv'
    BY <1>0, <2>6, QuietStep DEF WaitEnds, Return, Forked, WaitLocation
  <2>7. QED
    BY <1>6, <2>1, <2>2, <2>3, <2>4, <2>5, <2>6 DEF Wait
<1>7. ASSUME Kill PROVE ZombieInv'
  <2>1. ASSUME NEW g \in BOOLEAN, KillChecks(g) PROVE ZombieInv'
    <3>1. pc = "kill_check" /\ pc' \in {"kill_cleanup", "kill_term", "kill_kill"} /\ hptr = 0
      BY <2>1 DEF KillChecks
    <3>2. child' = child \/ child' = Reaped(hpid[Cur])
      BY <2>1 DEF KillChecks
    <3>3. UNCHANGED <<kpid, pending, child_list, disposition, forwarding, hptr, uh, fh>>
      BY <2>1 DEF KillChecks
    <3>4. QED
      BY <1>0, <3>1, <3>2, <3>3, QuietStep, ReapedOnlyZombies DEF Forked
  <2>2. ASSUME KillTerminates \/ KillKills PROVE ZombieInv'
    BY <1>0, <2>2, QuietStep DEF KillTerminates, KillKills, KILL_WITH, Forked
  <2>3. ASSUME KillWaited PROVE ZombieInv'
    BY <1>0, <2>3, QuietStep DEF KillWaited, Forked
  <2>4. ASSUME KillReaps PROVE ZombieInv'
    BY <1>0, <2>4, QuietStep, ReapedOnlyZombies DEF KillReaps, CollectExited, Forked
  <2>5. ASSUME KillEnds PROVE ZombieInv'
    BY <1>0, <2>5, QuietStep DEF KillEnds, Return, Forked
  <2>6. QED
    BY <1>2, <1>7, <2>1, <2>2, <2>3, <2>4, <2>5 DEF Kill
<1>8. ASSUME Finalizer PROVE ZombieInv'
  <2>1. ASSUME NEW h \in Handle, Drops(h) PROVE ZombieInv'
    BY <1>0, <2>1, QuietStep DEF Drops, Forked
  <2>2. ASSUME NEW h \in Handle, FinalizerStarts(h) PROVE ZombieInv'
    <3>1. pc = "idle" /\ hptr = 0
      BY <2>2 DEF FinalizerStarts, Undisturbed
    <3>2. pc' \in {"idle", "fin_kill", "fin_clear"} /\ uh' = NoNode
      BY <1>0, <2>2, <3>1 DEF FinalizerStarts
    <3>3. UNCHANGED <<child, kpid, pending, child_list, disposition, forwarding, hptr>>
      BY <2>2 DEF FinalizerStarts, freelist_free
    <3>4. QED
      BY <3>1, <3>2, <3>3, QuietStep DEF Forked
  <2>3. ASSUME FinalizerKills \/ FinalizerClears PROVE ZombieInv'
    BY <1>0, <2>3, QuietStep DEF FinalizerKills, FinalizerClears, Forked
  <2>4. ASSUME FinalizerDestroys PROVE ZombieInv'
    <3>1. uh = NoNode
      BY <1>0, <2>4 DEF FinalizerDestroys, CtlInv
    <3>2. QED
      BY <2>4, <3>1, QuietStep DEF FinalizerDestroys, Forked
  <2>5. QED
    BY <1>8, <2>1, <2>2, <2>3, <2>4 DEF Finalizer
<1>9. ASSUME Unload PROVE ZombieInv'
  BY <1>9 DEF Unload, UnloadStarts, UnloadRemoves, UnloadKills, UnloadFrees, UnloadEnds, CtlInv,
     Undisturbed
<1>10. QED
  BY <1>2, <1>3, <1>4, <1>5, <1>6, <1>7, <1>8, <1>9, ExecZombie DEF Calls

\* The children go their way: a new zombie comes with a SIGCHLD.
LEMMA ChildrenZombie == ASSUME TypeInv, ZombieInv, Children PROVE ZombieInv'
<1> USE DEF ZombieInv, TypeInv, TypeOK, KernelTypeOK
<1>1. /\ UNCHANGED <<child_list, disposition, forwarding, hptr, blocked, pc, uh, fh, kpid>>
      /\ pending' = pending \/ pending' = TRUE
      /\ \A h \in Handle :
            \/ child'[h] = child[h]
            \/ child[h] \in Alive /\ child'[h] \in Alive
            \/ child[h] \in Alive /\ child'[h] = "zombie" /\ pending' = TRUE
  BY DEF Children, ChildExec, ChildExecFails, ChildEnds, StrangerStarts, Alive
<1>2. NoNesting' /\ Installed'
  BY <1>1 DEF NoNesting, Installed, Alive
<1>3. PidsUnique'
  BY <1>1 DEF PidsUnique, Unreaped
<1>4. NodeLinked'
  <2>1. \A h \in Unreaped' : h \in Unreaped
    BY <1>1 DEF Unreaped
  <2>2. \A x : Listed(x)' <=> Listed(x)
    BY <1>1 DEF Listed
  <2>3. Forked => child'[uh] # "none"
    <3>1. uh \in Handle \/ ~ Forked
      BY DEF Forked, RegInv, MainTypeOK
    <3>2. QED
      BY <1>1, <3>1 DEF NodeLinked, Alive
  <2>4. \A h \in Handle : child[h] # "none" => child'[h] # "none"
    BY <1>1 DEF Alive
  <2>5. QED
    BY <1>1, <2>1, <2>2, <2>3, <2>4 DEF NodeLinked, Forked
<1>5. NoLostZombie'
  <2>1. \A h \in Handle : child'[h] = "zombie" => child[h] = "zombie" \/ pending'
    BY <1>1 DEF Alive
  <2>2. pending => pending'
    BY <1>1
  <2>3. QED
    BY <1>1, <2>1, <2>2 DEF NoLostZombie
<1>6. QED
  BY <1>2, <1>3, <1>4, <1>5

\* The handler: a zombie that it passes by would have been running when it
\* looked, and then SIGCHLD is pending again; a node that it unlinks belongs to
\* a child that is reaped.
LEMMA SignalsZombie == ASSUME Undisturbed, TypeInv, ZombieInv, Signals PROVE ZombieInv'
<1> USE DEF ZombieInv
<1>0. UNCHANGED <<pc, uh, fh, kpid, blocked, disposition>>
  BY DEF Signals, OtherThreadTakes, OtherThreadForwards, SignalLost, Callback, CallbackEnters,
     CallbackKeeps, CallbackReaps, CallbackReturns
<1>1. ASSUME child' = child, child_list' = child_list, hptr' = hptr \/ ~ Forked
      PROVE  NoNesting' /\ Installed' /\ PidsUnique' /\ NodeLinked'
  BY <1>0, <1>1 DEF NoNesting, Installed, PidsUnique, NodeLinked, Unreaped, Forked, Listed
<1>2. ASSUME OtherThreadTakes \/ OtherThreadForwards PROVE ZombieInv'
  <2>1. NoLostZombie'
    BY <1>2 DEF OtherThreadTakes, OtherThreadForwards, NoLostZombie
  <2>2. QED
    BY <1>1, <1>2, <2>1 DEF OtherThreadTakes, OtherThreadForwards
<1>3. ASSUME SignalLost PROVE ZombieInv'
  <2>1. \A h \in Handle : child[h] = "none"
    BY <1>3 DEF SignalLost, Installed
  <2>2. child' = child
    <3>1. child \in [Handle -> ChildState]
      BY DEF TypeInv, TypeOK, KernelTypeOK
    <3>2. QED
      BY <1>3, <2>1, <3>1 DEF SignalLost, ForeignReaps
  <2>3. NoLostZombie'
    BY <2>1, <2>2 DEF NoLostZombie
  <2>4. QED
    BY <1>1, <1>3, <2>2, <2>3 DEF SignalLost
<1>4. ASSUME CallbackEnters PROVE ZombieInv'
  <2>1. ~ Forked /\ hptr' = 1 /\ child' = child /\ child_list' = child_list
    BY <1>4 DEF CallbackEnters, Deliverable, NodeLinked
  <2>2. \A h \in Handle : child[h] = "zombie" => Listed(h)
    BY <2>1 DEF NodeLinked, Unreaped
  <2>3. NoLostZombie'
    BY <2>1, <2>2 DEF NoLostZombie, Listed
  <2>4. QED
    BY <1>1, <2>1, <2>3
<1>5. ASSUME CallbackKeeps PROVE ZombieInv'
  <2> DEFINE n == child_list[hptr]
  <2>1. /\ hptr \in 1..Len(child_list) /\ WaitRunning(kpid[n]) /\ hptr' = hptr + 1
        /\ UNCHANGED <<child, child_list, pending, forwarding>>
    BY <1>5 DEF CallbackKeeps
  <2>2. hptr \in Nat /\ Len(child_list) \in Nat /\ n \in Handle
    BY <2>1 DEF TypeInv, TypeOK, ListTypeOK, SigchldTypeOK
  <2>3. ~ Forked
    BY <2>1, <2>2 DEF NodeLinked
  <2> HIDE DEF n
  <2>4. child[n] # "zombie"
    <3>1. Listed(n) /\ kpid[n] # 0
      <4>1. Listed(n)
        BY <2>1 DEF Listed, n
      <4>2. QED
        BY <2>2, <4>1 DEF NodeLinked, Installed
    <3>2. PICK g \in Occupant(kpid[n]) : child[g] \in Alive
      BY <2>1, <3>1 DEF WaitRunning
    <3>3. SUFFICES ASSUME child[n] = "zombie" PROVE FALSE
      OBVIOUS
    <3>4. g \in Unreaped /\ n \in Unreaped /\ kpid[g] = kpid[n]
      BY <2>2, <3>2, <3>3 DEF Occupant, Unreaped
    <3>5. g = n
      BY <3>4 DEF PidsUnique
    <3>6. QED
      BY <3>2, <3>3, <3>5 DEF Alive
  <2>5. ASSUME NEW h \in Handle, child[h] = "zombie", ~ pending, ~ forwarding
        PROVE  \E i \in hptr'..Len(child_list) : child_list[i] = h
    <3>1. PICK i \in hptr..Len(child_list) : child_list[i] = h
      BY <2>5 DEF NoLostZombie
    <3>2. i # hptr
      BY <2>4, <2>5, <3>1 DEF n
    <3>3. i \in hptr'..Len(child_list)
      BY <2>1, <2>2, <3>1, <3>2
    <3>4. QED
      BY <3>1, <3>3
  <2>6. NoLostZombie'
    <3>1. hptr' # 0
      BY <2>1, <2>2
    <3>2. QED
      BY <2>1, <2>5, <3>1 DEF NoLostZombie
  <2>7. QED
    BY <1>1, <2>1, <2>3, <2>6
<1>6. ASSUME CallbackReturns PROVE ZombieInv'
  <2>1. /\ hptr = Len(child_list) + 1 /\ hptr' = 0
        /\ UNCHANGED <<child_list, pending, forwarding>>
        /\ \A h \in Handle : child'[h] = child[h] \/ (child[h] = "zombie" /\ child'[h] = "reaped")
    BY <1>6 DEF CallbackReturns, ForeignReaps
  <2>2. Len(child_list) \in Nat
    BY DEF TypeInv, TypeOK, ListTypeOK
  <2>3. ~ Forked
    BY <2>1, <2>2 DEF NodeLinked
  <2>4. NoNesting' /\ Installed' /\ PidsUnique' /\ NodeLinked'
    BY <1>0, <2>1, <2>3 DEF NoNesting, Installed, PidsUnique, NodeLinked, Unreaped, Alive, Forked,
       Listed
  <2>5. \A h \in Handle : child[h] = "zombie" => pending \/ forwarding
    BY <2>1, <2>2 DEF NoLostZombie
  <2>6. NoLostZombie'
    BY <2>1, <2>5 DEF NoLostZombie
  <2>7. QED
    BY <2>4, <2>6
<1>7. ASSUME CallbackReaps PROVE ZombieInv'
  <2> DEFINE n == child_list[hptr]
  <2>1. /\ hptr \in 1..Len(child_list) /\ ~ WaitRunning(kpid[n]) /\ child' = Reaped(kpid[n])
        /\ child_list' = RemoveAt(child_list, hptr)
        /\ UNCHANGED <<hptr, pending, forwarding>>
    BY <1>7 DEF CallbackReaps, unlink
  <2>2. hptr \in Nat /\ Len(child_list) \in Nat /\ n \in Handle
    BY <2>1 DEF TypeInv, TypeOK, ListTypeOK, SigchldTypeOK
  <2>3. ~ Forked
    BY <2>1, <2>2 DEF NodeLinked
  <2>4. /\ Len(child_list') = Len(child_list) - 1
        /\ \A j \in 1..(Len(child_list) - 1) :
              child_list'[j] = IF j < hptr THEN child_list[j] ELSE child_list[j + 1]
    BY <2>1, RemoveAtSeq DEF TypeInv, TypeOK, ListTypeOK
  <2>5. \A h \in Handle : child'[h] = child[h] \/ (child[h] = "zombie" /\ child'[h] = "reaped")
    BY <2>1, ReapedOnlyZombies
  <2> HIDE DEF n
  <2>6. child'[n] \notin Alive \cup {"zombie"}
    <3>1. CASE child[n] \in Alive
      BY <2>1, <2>2, <3>1 DEF WaitRunning, Occupant
    <3>2. CASE child[n] = "zombie"
      BY <2>1, <2>2, <3>2 DEF Reaped, Occupant, Alive
    <3>3. CASE child[n] \notin Alive \cup {"zombie"}
      BY <2>2, <2>5, <3>3 DEF Alive
    <3>4. QED
      BY <3>1, <3>2, <3>3
  <2>7. \A i \in 1..Len(child_list) : i # hptr =>
           \E j \in 1..Len(child_list') : child_list'[j] = child_list[i] /\ (hptr <= i => hptr <= j)
    <3> SUFFICES ASSUME NEW i \in 1..Len(child_list), i # hptr
                 PROVE  \E j \in 1..Len(child_list') :
                            child_list'[j] = child_list[i] /\ (hptr <= i => hptr <= j)
      OBVIOUS
    <3>1. CASE i < hptr
      <4>1. i \in 1..(Len(child_list) - 1)
        BY <2>1, <2>2, <3>1
      <4>2. child_list'[i] = child_list[i]
        BY <2>4, <3>1, <4>1
      <4>3. ~ (hptr <= i)
        BY <2>2, <3>1
      <4>4. QED
        BY <2>4, <4>1, <4>2, <4>3
    <3>2. CASE i > hptr
      <4>1. /\ i - 1 \in 1..(Len(child_list) - 1) /\ ~ (i - 1 < hptr) /\ (i - 1) + 1 = i
            /\ hptr <= i - 1
        BY <2>1, <2>2, <3>2
      <4>2. child_list'[i - 1] = child_list[i]
        BY <2>4, <4>1
      <4>3. QED
        BY <2>4, <4>1, <4>2
    <3>3. QED
      BY <2>2, <3>1, <3>2
  <2>8. ASSUME NEW h, Listed(h)' PROVE Listed(h)
    <3>1. PICK j \in 1..Len(child_list') : child_list'[j] = h
      BY <2>8 DEF Listed
    <3>2. j \in 1..(Len(child_list) - 1)
      BY <2>4, <3>1
    <3>3. j \in 1..Len(child_list) /\ j + 1 \in 1..Len(child_list)
      BY <2>2, <3>2
    <3>4. h = child_list[j] \/ h = child_list[j + 1]
      BY <2>4, <3>1, <3>2
    <3>5. QED
      BY <3>3, <3>4 DEF Listed
  <2>9. NoNesting' /\ Installed' /\ PidsUnique'
    BY <1>0, <2>5 DEF NoNesting, Installed, PidsUnique, Unreaped, Alive
  <2>10. NodeLinked'
    <3>1. ASSUME NEW h \in Unreaped' PROVE Listed(h)'
      <4>1. h \in Unreaped /\ h # n
        BY <2>5, <2>6, <3>1 DEF Unreaped, Alive
      <4>2. PICK i \in 1..Len(child_list) : child_list[i] = h
        BY <2>3, <4>1 DEF NodeLinked, Listed
      <4>3. i # hptr
        BY <4>1, <4>2 DEF n
      <4>4. QED
        BY <2>7, <4>2, <4>3 DEF Listed
    <3>2. ASSUME NEW h \in Handle, Listed(h)' PROVE child'[h] # "none"
      BY <2>5, <2>8, <3>2 DEF NodeLinked
    <3>3. ~ Forked'
      BY <1>0, <2>3 DEF Forked
    <3>4. QED
      BY <3>1, <3>2, <3>3 DEF NodeLinked
  <2>11. NoLostZombie'
    <3>1. SUFFICES ASSUME NEW h \in Handle, child'[h] = "zombie", ~ pending, ~ forwarding
                   PROVE  \E j \in hptr..Len(child_list') : child_list'[j] = h
      BY <2>1, <2>2 DEF NoLostZombie
    <3>2. child[h] = "zombie" /\ h # n
      BY <2>5, <2>6, <3>1
    <3>3. PICK i \in hptr..Len(child_list) : child_list[i] = h
      BY <3>1, <3>2 DEF NoLostZombie
    <3>4. i \in 1..Len(child_list) /\ i # hptr /\ hptr <= i
      BY <2>1, <2>2, <3>2, <3>3 DEF n
    <3>5. PICK j \in 1..Len(child_list') : child_list'[j] = h /\ hptr <= j
      BY <2>7, <3>3, <3>4
    <3>6. j \in hptr..Len(child_list')
      BY <2>2, <2>4, <3>5
    <3>7. QED
      BY <3>5, <3>6
  <2>12. QED
    BY <2>9, <2>10, <2>11
<1>8. QED
  BY <1>2, <1>3, <1>4, <1>5, <1>6, <1>7 DEF Signals, Callback

\* No step invalidates the invariant.
LEMMA NextZombie ==
    ASSUME Undisturbed, TypeInv, CtlInv, ZombieInv, [Next]_vars PROVE ZombieInv'
<1>1. ASSUME Displaced PROVE ZombieInv'
  BY <1>1 DEF Displaced, Undisturbed
<1>2. ASSUME UNCHANGED vars \/ \E f \in Fd : Opens(f) PROVE ZombieInv'
  <2>1. UNCHANGED <<child, kpid, pending, child_list, blocked, disposition, forwarding, hptr, pc,
                    uh, fh>>
    BY <1>2 DEF vars, Opens, OtherOpens
  <2>2. QED
    BY <2>1 DEF ZombieInv, NoNesting, Installed, PidsUnique, NodeLinked, NoLostZombie, Unreaped,
       Forked, Listed
<1>3. QED
  BY <1>1, <1>2, CallsZombie, ChildrenZombie, SignalsZombie DEF Next

\* As long as some child is a zombie, SIGCHLD is still on its way to the handler,
\* or the handler is running and will come to its node, for any number of
\* processes, and whatever calls R makes: processx_exec, wait, kill, signal,
\* is_alive and the finalizer between them keep the node of every child that is
\* not reaped in the list.
THEOREM NoZombieIsLost == ASSUME Undisturbed PROVE Spec => []NoLostZombie
<1> DEFINE I == TypeInv /\ CtlInv /\ ZombieInv
<1>1. Init => I
  BY InitTypes, InitControl, InitZombie
<1>2. I /\ [Next]_vars => I'
  BY NextTypes, NextControl, NextZombie
<1>3. I => NoLostZombie
  BY DEF ZombieInv
<1> HIDE DEF I
<1>4. QED
  BY <1>1, <1>2, <1>3, PTL DEF Spec

---------------------------------------------------------------------------
(* The nodes *)

\* A node that was never linked, or does not exist yet.
Fresh(h) == ~ Listed(h) /\ ~ FreeListed(h) /\ nfree[h] = 0

\* processx_exec has not linked the node of uh yet, possibly because it was
\* interrupted by a finalizer.
Prelink == {"exec_pipes", "exec_forked", "exec_weakref"}
Unlinked == uh # NoNode /\ (pc \in Prelink \/ fh # NoNode)

NodesInv ==
    /\ NodesSafe
    /\ \A h \in Handle : ref[h] = "none" => Fresh(h)
    /\ Unlinked => Fresh(uh) /\ ref[uh] # "none"

\* The invariant holds in the beginning.
LEMMA InitNodes == Init => NodesInv
<1> SUFFICES ASSUME Init PROVE NodesInv
  OBVIOUS
<1>1. \A h \in Handle : Fresh(h)
  BY DEF Init, ListInit, Fresh, Listed, FreeListed
<1>2. NodesSafe
  BY <1>1 DEF Init, ListInit, NodesSafe, Fresh
<1>3. QED
  BY <1>1, <1>2 DEF Init, MainInit, NodesInv, Unlinked

\* A step that leaves the lists alone.
LEMMA ListsKept ==
    ASSUME NodesInv, UNCHANGED listVars,
           \A h \in Handle : ref'[h] = "none" => ref[h] = "none",
           Unlinked' => Unlinked /\ uh' = uh /\ ref'[uh] # "none"
    PROVE  NodesInv'
<1>1. \A h : Fresh(h) => Fresh(h)'
  BY DEF Fresh, Listed, FreeListed
<1>2. NodesSafe'
  BY DEF NodesInv, NodesSafe, Listed, FreeListed
<1>3. Unlinked' => Fresh(uh)'
  BY DEF NodesInv, Fresh, Listed, FreeListed
<1>4. QED
  BY <1>1, <1>2, <1>3 DEF NodesInv

\* processx__child_add of a fresh node.
LEMMA AddNodes ==
    ASSUME ListTypeOK, NodesSafe, NEW h \in Handle, Fresh(h), child_add(h)
    PROVE  /\ NodesSafe'
           /\ \A x \in Handle : x # h /\ Fresh(x) => Fresh(x)'
<1>1. /\ child_list' = <<h>> \o child_list /\ UNCHANGED <<child_free_list, nfree>>
      /\ Len(child_list) \in Nat /\ Len(child_list') = Len(child_list) + 1
      /\ child_list'[1] = h
      /\ \A i \in 1..Len(child_list) : child_list'[i + 1] = child_list[i]
  BY ConsSeq DEF ListTypeOK, child_add
<1>2. \A j \in 1..Len(child_list') :
         \/ j = 1
         \/ j - 1 \in 1..Len(child_list) /\ child_list'[j] = child_list[j - 1]
  <2> SUFFICES ASSUME NEW j \in 1..Len(child_list'), j # 1
               PROVE  j - 1 \in 1..Len(child_list) /\ child_list'[j] = child_list[j - 1]
    OBVIOUS
  <2>1. j - 1 \in 1..Len(child_list) /\ (j - 1) + 1 = j
    BY <1>1
  <2>2. QED
    BY <1>1, <2>1
<1>3. \A x : Listed(x)' => x = h \/ Listed(x)
  BY <1>1, <1>2 DEF Listed
<1>4. \A x : FreeListed(x)' => FreeListed(x)
  BY <1>1 DEF FreeListed
<1>5. \A i, j \in 1..Len(child_list') : child_list'[i] = child_list'[j] => i = j
  <2> SUFFICES ASSUME NEW i \in 1..Len(child_list'), NEW j \in 1..Len(child_list'),
                      child_list'[i] = child_list'[j]
               PROVE  i = j
    OBVIOUS
  <2>1. \A k \in 1..Len(child_list) : child_list[k] # h
    BY DEF Fresh, Listed
  <2>2. CASE i = 1 \/ j = 1
    BY <1>1, <1>2, <2>1, <2>2
  <2>3. CASE i # 1 /\ j # 1
    <3>1. i - 1 \in 1..Len(child_list) /\ j - 1 \in 1..Len(child_list)
          /\ child_list[i - 1] = child_list[j - 1]
      BY <1>2, <2>3
    <3>2. i - 1 = j - 1
      BY <3>1 DEF NodesSafe
    <3>3. QED
      BY <3>2, <1>1
  <2>4. QED
    BY <2>2, <2>3
<1>6. NodesSafe'
  <2>1. \A x \in Handle : /\ ~ (Listed(x)' /\ FreeListed(x)')
                          /\ nfree'[x] <= 1
                          /\ nfree'[x] = 1 => ~ Listed(x)' /\ ~ FreeListed(x)'
    BY <1>1, <1>3, <1>4 DEF NodesSafe, Fresh
  <2>2. QED
    BY <1>1, <1>5, <2>1 DEF NodesSafe
<1>7. \A x \in Handle : x # h /\ Fresh(x) => Fresh(x)'
  BY <1>1, <1>3, <1>4 DEF Fresh
<1>8. QED
  BY <1>6, <1>7

\* The SIGCHLD handler moves a node to the free list.
LEMMA UnlinkNodes ==
    ASSUME ListTypeOK, NodesSafe, NEW k \in 1..Len(child_list), unlink(k)
    PROVE  /\ NodesSafe'
           /\ \A x \in Handle : Fresh(x) => Fresh(x)'
<1> DEFINE n == child_list[k]
<1>1. n \in Handle /\ Len(child_list) \in Nat /\ Len(child_free_list) \in Nat /\ k \in Nat
  BY DEF ListTypeOK
<1>2. /\ child_list' = RemoveAt(child_list, k) /\ child_free_list' = <<n>> \o child_free_list
      /\ nfree' = nfree
  BY DEF unlink
<1>3. /\ Len(child_list') = Len(child_list) - 1
      /\ \A j \in 1..(Len(child_list) - 1) :
            child_list'[j] = IF j < k THEN child_list[j] ELSE child_list[j + 1]
  BY <1>2, RemoveAtSeq DEF ListTypeOK
<1>4. /\ Len(child_free_list') = Len(child_free_list) + 1
      /\ child_free_list'[1] = n
      /\ \A i \in 1..Len(child_free_list) : child_free_list'[i + 1] = child_free_list[i]
  BY <1>1, <1>2, ConsSeq DEF ListTypeOK
<1>5. Listed(n)
  BY DEF Listed
<1> HIDE DEF n
\* Where the elements of the new lists come from.
<1> DEFINE src(j) == IF j < k THEN j ELSE j + 1
<1>6. \A j \in 1..Len(child_list') :
         src(j) \in 1..Len(child_list) /\ src(j) # k /\ child_list'[j] = child_list[src(j)]
  <2> SUFFICES ASSUME NEW j \in 1..Len(child_list')
               PROVE  /\ src(j) \in 1..Len(child_list) /\ src(j) # k
                       /\ child_list'[j] = child_list[src(j)]
    OBVIOUS
  <2>1. j \in 1..(Len(child_list) - 1)
    BY <1>3
  <2>2. src(j) \in 1..Len(child_list) /\ src(j) # k
    BY <1>1, <2>1
  <2>3. child_list'[j] = child_list[src(j)]
    BY <1>3, <2>1
  <2>4. QED
    BY <2>2, <2>3
<1>7. \A i, j \in 1..Len(child_list') : src(i) = src(j) => i = j
  BY <1>1, <1>3
<1> HIDE DEF src
<1>8. \A j \in 1..Len(child_free_list') :
         \/ j = 1
         \/ j - 1 \in 1..Len(child_free_list) /\ child_free_list'[j] = child_free_list[j - 1]
  <2> SUFFICES ASSUME NEW j \in 1..Len(child_free_list'), j # 1
               PROVE  /\ j - 1 \in 1..Len(child_free_list)
                       /\ child_free_list'[j] = child_free_list[j - 1]
    OBVIOUS
  <2>1. j - 1 \in 1..Len(child_free_list) /\ (j - 1) + 1 = j
    BY <1>1, <1>4
  <2>2. QED
    BY <1>4, <2>1
<1>9. \A x : Listed(x)' => Listed(x) /\ x # n
  <2> SUFFICES ASSUME NEW x, Listed(x)' PROVE Listed(x) /\ x # n
    OBVIOUS
  <2>1. PICK j \in 1..Len(child_list') : child_list'[j] = x
    BY DEF Listed
  <2>2. x = child_list[src(j)] /\ src(j) \in 1..Len(child_list) /\ src(j) # k
    BY <1>6, <2>1
  <2>3. x # n
    BY <2>2 DEF NodesSafe, n
  <2>4. QED
    BY <2>2, <2>3 DEF Listed
<1>10. \A x : FreeListed(x)' => FreeListed(x) \/ x = n
  BY <1>4, <1>8 DEF FreeListed
<1>11. \A i, j \in 1..Len(child_list') : child_list'[i] = child_list'[j] => i = j
  BY <1>6, <1>7 DEF NodesSafe
<1>12. \A i, j \in 1..Len(child_free_list') : child_free_list'[i] = child_free_list'[j] => i = j
  <2> SUFFICES ASSUME NEW i \in 1..Len(child_free_list'), NEW j \in 1..Len(child_free_list'),
                      child_free_list'[i] = child_free_list'[j]
               PROVE  i = j
    OBVIOUS
  <2>1. \A m \in 1..Len(child_free_list) : child_free_list[m] # n
    BY <1>1, <1>5 DEF NodesSafe, FreeListed
  <2>2. CASE i = 1 \/ j = 1
    BY <1>4, <1>8, <2>1, <2>2
  <2>3. CASE i # 1 /\ j # 1
    <3>1. i - 1 \in 1..Len(child_free_list) /\ j - 1 \in 1..Len(child_free_list)
          /\ child_free_list[i - 1] = child_free_list[j - 1]
      BY <1>8, <2>3
    <3>2. i - 1 = j - 1
      BY <3>1 DEF NodesSafe
    <3>3. QED
      BY <3>2, <1>1, <1>4
  <2>4. QED
    BY <2>2, <2>3
<1>13. \A x \in Handle : /\ ~ (Listed(x)' /\ FreeListed(x)')
                         /\ nfree'[x] <= 1
                         /\ nfree'[x] = 1 => ~ Listed(x)' /\ ~ FreeListed(x)'
  BY <1>2, <1>5, <1>9, <1>10 DEF NodesSafe
<1>14. NodesSafe'
  BY <1>11, <1>12, <1>13 DEF NodesSafe
<1>15. \A x \in Handle : Fresh(x) => Fresh(x)'
  BY <1>2, <1>5, <1>9, <1>10 DEF Fresh
<1>16. QED
  BY <1>14, <1>15

\* processx__freelist_free.
LEMMA FreeNodes ==
    ASSUME ListTypeOK, NodesSafe, freelist_free
    PROVE  /\ NodesSafe'
           /\ \A x \in Handle : Fresh(x) => Fresh(x)'
<1>1. /\ \A h \in Handle : nfree'[h] = IF FreeListed(h) THEN nfree[h] + 1 ELSE nfree[h]
      /\ child_free_list' = <<>> /\ child_list' = child_list
  BY DEF freelist_free
<1>2. \A x : ~ FreeListed(x)'
  BY <1>1 DEF FreeListed
<1>3. \A x : Listed(x)' => Listed(x)
  BY <1>1 DEF Listed
<1>4. \A h \in Handle : nfree[h] \in Nat
  BY DEF ListTypeOK
<1>5. \A x \in Handle : /\ nfree'[x] <= 1
                        /\ nfree'[x] = 1 => ~ Listed(x)'
  <2> SUFFICES ASSUME NEW x \in Handle
               PROVE  nfree'[x] <= 1 /\ (nfree'[x] = 1 => ~ Listed(x)')
    OBVIOUS
  <2>1. CASE FreeListed(x)
    <3>1. nfree[x] = 0 /\ ~ Listed(x)
      BY <1>4, <2>1 DEF NodesSafe
    <3>2. QED
      BY <1>1, <1>3, <2>1, <3>1
  <2>2. CASE ~ FreeListed(x)
    BY <1>1, <1>3, <2>2 DEF NodesSafe
  <2>3. QED
    BY <2>1, <2>2
<1>6. NodesSafe'
  BY <1>1, <1>2, <1>5 DEF NodesSafe
<1>7. \A x \in Handle : Fresh(x) => Fresh(x)'
  BY <1>1, <1>2, <1>3 DEF Fresh
<1>8. QED
  BY <1>6, <1>7

\* The steps of the main program.
LEMMA CallsNodes ==
    ASSUME "unload" \notin Env, TypeInv, CtlInv, NodesInv, Calls PROVE NodesInv'
<1> USE DEF At, Goto, Called, InR, Unlinked, Prelink
<1>0. /\ pc \notin FinLocation => fh = NoNode
      /\ pc = "idle" => uh = NoNode
      /\ waitret = "user" /\ pc \in WaitLocation => fh = NoNode
  BY DEF CtlInv
<1>1. /\ ref \in [Handle -> {"none", "held", "garbage", "finalized"}]
      /\ uh \in Handle \cup {NoNode}
      /\ pc \in Prelink => uh \in Handle
  BY DEF TypeInv, TypeOK, HandleTypeOK, MainTypeOK, RegInv
<1>2. Unlinked => uh \in Handle /\ Fresh(uh) /\ ref[uh] # "none"
  BY <1>1 DEF NodesInv
<1>3. ASSUME Return, UNCHANGED listVars, ref' = ref, fh' = NoNode \/ pc \notin FinLocation
      PROVE  NodesInv'
  BY <1>0, <1>3, ListsKept DEF Return
<1>4. ASSUME NEW h \in Handle, NEW l, Blocks(h, l),
             l \in {"alive_check", "sig_send", "kill_check"}
      PROVE  NodesInv'
  BY <1>0, <1>4, ListsKept DEF Blocks, FinLocation, WaitLocation
<1>5. ASSUME Exec PROVE NodesInv'
  <2>1. ASSUME NEW h \in Handle, NEW cl \in BOOLEAN, ExecStarts(h, cl) PROVE NodesInv'
    <3>1. /\ ref[h] = "none" /\ uh' = h /\ UNCHANGED listVars
          /\ ref' = [ref EXCEPT ![h] = "held"]
      BY <2>1 DEF ExecStarts, make_handle
    <3>2. Fresh(h)
      BY <3>1 DEF NodesInv
    <3>3. \A x : Fresh(x) => Fresh(x)'
      BY <3>1 DEF Fresh, Listed, FreeListed
    <3>4. NodesSafe'
      BY <3>1 DEF NodesInv, NodesSafe, Listed, FreeListed
    <3>5. Fresh(uh)' /\ ref'[uh'] # "none"
      BY <1>1, <3>1, <3>2 DEF Fresh, Listed, FreeListed
    <3>6. QED
      BY <1>1, <3>1, <3>3, <3>4, <3>5 DEF NodesInv
  <2>2. ASSUME ExecFailsEarly \/ ExecReaps \/ \E f \in Fd \cup {-1} : ExecNoMemory(f)
        PROVE  NodesInv'
    <3>1. Return /\ UNCHANGED listVars /\ pc \notin FinLocation
      BY <2>2 DEF ExecFailsEarly, ExecReaps, ExecNoMemory, ExecOpensPty, FinLocation, WaitLocation
    <3>2. \A h \in Handle : ref'[h] = "none" => ref[h] = "none"
      BY <1>1, <2>2 DEF ExecFailsEarly, ExecReaps, ExecNoMemory, ExecThrows
    <3>3. QED
      BY <1>0, <3>1, <3>2, ListsKept DEF Return
  <2>3. ASSUME ExecSucceeds PROVE NodesInv'
    BY <1>3, <2>3 DEF ExecSucceeds, FinLocation, WaitLocation
  <2>4. ASSUME \/ \E p \in Pid : ExecForks(p)
               \/ \E f \in Fd \cup {-1} : ExecMakesNode(f)
               \/ ExecReadsErrno
        PROVE  NodesInv'
    BY <1>0, <1>1, <1>2, <2>4, NoNodeAssumption, ListsKept
       DEF ExecForks, ExecMakesNode, ExecOpensPty, ExecReadsErrno, FinLocation, WaitLocation
  <2>5. ASSUME ExecLinks PROVE NodesInv'
    <3>1. /\ pc = "exec_weakref" /\ pc' = "exec_read" /\ child_add(uh) /\ ref' = ref
          /\ fh' = fh
      BY <2>5 DEF ExecLinks
    <3>2. uh \in Handle /\ Fresh(uh) /\ ref[uh] # "none" /\ fh = NoNode
      BY <1>0, <1>1, <1>2, <3>1, NoNodeAssumption DEF FinLocation, WaitLocation
    <3>3. NodesSafe' /\ \A x \in Handle : x # uh /\ Fresh(x) => Fresh(x)'
      BY <3>1, <3>2, AddNodes DEF NodesInv, TypeInv, TypeOK
    <3>4. QED
      BY <3>1, <3>2, <3>3 DEF NodesInv
  <2>6. QED
    BY <1>5, <2>1, <2>2, <2>3, <2>4, <2>5 DEF Exec
<1>6. ASSUME Wait PROVE NodesInv'
  <2>1. ASSUME NEW h \in Handle, NEW f, NEW t, wait(h, f, t) PROVE NodesInv'
    BY <1>0, <2>1, ListsKept DEF wait, WaitBegins, FinLocation, WaitLocation
  <2>2. ASSUME NEW f, NEW t, KillWaits(f, t) PROVE NodesInv'
    BY <1>2, <2>2, ListsKept DEF KillWaits, WaitBegins
  <2>3. ASSUME WaitNoPipe PROVE NodesInv'
    BY <1>0, <1>2, <2>3, ListsKept DEF WaitNoPipe
  <2>4. ASSUME WaitWoken \/ WaitSlice \/ WaitChecks PROVE NodesInv'
    BY <1>2, <2>4, ListsKept DEF WaitWoken, WaitSlice, WaitChecks
  <2>5. ASSUME WaitInterrupted \/ (WaitEnds /\ waitret = "user") PROVE NodesInv'
    BY <1>0, <1>3, <2>5 DEF WaitInterrupted, WaitEnds, Return, WaitLocation
  <2>6. ASSUME WaitEnds, waitret = "kill" PROVE NodesInv'
    BY <1>2, <2>6, ListsKept DEF WaitEnds
  <2>7. QED
    BY <1>6, <2>1, <2>2, <2>3, <2>4, <2>5, <2>6 DEF Wait, WaitEnds
<1>7. ASSUME Kill PROVE NodesInv'
  <2>1. ASSUME NEW h \in Handle, kill(h) PROVE NodesInv'
    BY <1>4, <2>1 DEF kill
  <2>2. ASSUME NEW g \in BOOLEAN, KillChecks(g) PROVE NodesInv'
    <3>1. /\ pc = "kill_check" /\ pc' \in {"kill_cleanup", "kill_term", "kill_kill"}
          /\ UNCHANGED <<listVars, ref, uh, fh>>
      BY <2>2 DEF KillChecks
    <3>2. QED
      BY <1>2, <3>1, ListsKept
  <2>3. ASSUME KillTerminates \/ KillKills \/ KillWaited \/ KillReaps PROVE NodesInv'
    BY <1>2, <2>3, ListsKept DEF KillTerminates, KillKills, KILL_WITH, KillWaited, KillReaps
  <2>4. ASSUME KillEnds PROVE NodesInv'
    <3>1. CASE fh = NoNode
      BY <1>3, <2>4, <3>1 DEF KillEnds, Return
    <3>2. CASE fh # NoNode
      BY <1>2, <2>4, <3>2, ListsKept DEF KillEnds
    <3>3. QED
      BY <3>1, <3>2
  <2>5. QED
    BY <1>7, <2>1, <2>2, <2>3, <2>4 DEF Kill
<1>8. ASSUME Finalizer PROVE NodesInv'
  <2>1. ASSUME NEW h \in Handle, Drops(h) PROVE NodesInv'
    BY <1>0, <1>1, <2>1, ListsKept DEF Drops
  <2>2. ASSUME NEW h \in Handle, FinalizerStarts(h) PROVE NodesInv'
    <3>1. /\ pc = "idle" \/ pc = "exec_weakref"
          /\ ref' = [ref EXCEPT ![h] = "finalized"] /\ freelist_free /\ uh' = uh
      BY <2>2 DEF FinalizerStarts
    <3>2. NodesSafe' /\ \A x \in Handle : Fresh(x) => Fresh(x)'
      BY <3>1, FreeNodes DEF NodesInv, TypeInv, TypeOK
    <3>3. \A x \in Handle : ref'[x] = "none" => ref[x] = "none"
      BY <1>1, <3>1
    <3>4. uh # NoNode => Unlinked
      BY <1>0, <3>1
    <3>5. Unlinked' => Fresh(uh)' /\ ref'[uh'] # "none"
      <4>1. ASSUME Unlinked' PROVE uh \in Handle /\ Fresh(uh) /\ ref[uh] # "none"
        BY <1>2, <3>1, <3>4, <4>1
      <4>2. ASSUME uh \in Handle, Fresh(uh) PROVE Fresh(uh)'
        <5>1. \A x \in Handle : x = uh' /\ Fresh(x) => Fresh(uh)'
          BY <3>2 DEF Fresh, Listed, FreeListed
        <5>2. QED
          BY <3>1, <4>2, <5>1
      <4>3. QED
        BY <1>1, <3>1, <4>1, <4>2
    <3>6. QED
      BY <3>2, <3>3, <3>5 DEF NodesInv
  <2>3. ASSUME FinalizerKills \/ FinalizerClears PROVE NodesInv'
    BY <1>2, <2>3, ListsKept DEF FinalizerKills, FinalizerClears
  <2>4. ASSUME FinalizerDestroys PROVE NodesInv'
    <3>1. fh # NoNode
      BY <2>4 DEF FinalizerDestroys, CtlInv
    <3>2. QED
      BY <1>2, <2>4, <3>1, ListsKept DEF FinalizerDestroys
  <2>5. QED
    BY <1>8, <2>1, <2>2, <2>3, <2>4 DEF Finalizer
<1>9. ASSUME Unload PROVE NodesInv'
  BY <1>9 DEF Unload, UnloadStarts, UnloadRemoves, UnloadKills, UnloadFrees, UnloadEnds, CtlInv
<1>10. ASSUME \/ AliveChecks \/ SignalTooLate \/ SignalReaps
              \/ \E h \in Handle : is_alive(h) \/ signal(h)
              \/ \E sig \in Signal : SignalSends(sig)
       PROVE  NodesInv'
  <2>1. ASSUME AliveChecks \/ SignalTooLate \/ SignalReaps PROVE NodesInv'
    BY <1>3, <2>1 DEF AliveChecks, SignalTooLate, SignalReaps, FinLocation, WaitLocation
  <2>2. ASSUME NEW h \in Handle, is_alive(h) \/ signal(h) PROVE NodesInv'
    BY <1>4, <2>2 DEF is_alive, signal
  <2>3. ASSUME NEW sig \in Signal, SignalSends(sig) PROVE NodesInv'
    BY <1>0, <1>2, <2>3, ListsKept DEF SignalSends, FinLocation, WaitLocation
  <2>4. QED
    BY <1>10, <2>1, <2>2, <2>3
<1>11. QED
  BY <1>5, <1>6, <1>7, <1>8, <1>9, <1>10 DEF Calls

\* No step invalidates the invariant.
LEMMA NextNodes ==
    ASSUME "unload" \notin Env, TypeInv, CtlInv, NodesInv, [Next]_vars PROVE NodesInv'
<1>1. ASSUME CallbackReaps, UNCHANGED <<pc, regVars>> PROVE NodesInv'
  <2>1. /\ hptr \in 1..Len(child_list) /\ unlink(hptr) /\ UNCHANGED <<ref, uh, fh, pc>>
    BY <1>1 DEF CallbackReaps
  <2>2. NodesSafe' /\ \A x \in Handle : Fresh(x) => Fresh(x)'
    BY <2>1, UnlinkNodes DEF NodesInv, TypeInv, TypeOK
  <2>3. Unlinked => uh \in Handle
    BY DEF TypeInv, TypeOK, MainTypeOK, Unlinked
  <2>4. ASSUME uh \in Handle, Fresh(uh) PROVE Fresh(uh)'
    <3>1. \A x \in Handle : x = uh' /\ Fresh(x) => Fresh(uh)'
      BY <2>2 DEF Fresh, Listed, FreeListed
    <3>2. QED
      BY <2>1, <2>4, <3>1
  <2>5. QED
    BY <2>1, <2>2, <2>3, <2>4 DEF NodesInv, Unlinked
<1>2. ASSUME UNCHANGED <<listVars, ref, uh, fh, pc>> PROVE NodesInv'
  BY <1>2, ListsKept DEF Unlinked, NodesInv
<1>3. ASSUME Signals PROVE NodesInv'
  BY <1>1, <1>2, <1>3 DEF Signals, OtherThreadTakes, OtherThreadForwards, SignalLost, Callback,
     CallbackEnters, CallbackKeeps, CallbackReturns
<1>4. ASSUME Children \/ Displaced \/ UNCHANGED vars \/ \E f \in Fd : Opens(f) PROVE NodesInv'
  BY <1>2, <1>4 DEF Children, Displaced, Opens, vars
<1>5. QED
  BY <1>3, <1>4, CallsNodes DEF Next

\* A list node is in one list at most, once at most, and never after free(), and
\* is never freed twice, for any number of process objects: the SIGCHLD handler
\* unlinks nodes at any point where SIGCHLD is not blocked, and finalizers free
\* them between any two calls and in the middle of processx_exec.
THEOREM NodesAreSafe == ASSUME "unload" \notin Env PROVE Spec => []NodesSafe
<1> DEFINE I == TypeInv /\ CtlInv /\ NodesInv
<1>1. Init => I
  BY InitTypes, InitControl, InitNodes
<1>2. I /\ [Next]_vars => I'
  BY NextTypes, NextControl, NextNodes
<1>3. I => NodesSafe
  BY DEF NodesInv
<1> HIDE DEF I
<1>4. QED
  BY <1>1, <1>2, <1>3, PTL DEF Spec
=============================================================================
