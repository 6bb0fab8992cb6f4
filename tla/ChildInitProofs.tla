---------------------------- MODULE ChildInitProofs ----------------------------
(***************************************************************************)
(* The descriptors of processx_exec and processx__child_init are right for *)
(* any number of descriptors and of connections that are passed on, and    *)
(* whatever R has open: the streams do not get mixed up when they are      *)
(* moved over each other, nothing else is inherited, and R learns whether  *)
(* the program was started.                                                *)
(***************************************************************************)
EXTENDS ChildInit, FiniteSetTheorems, TLAPS

Before == {"signal_pipe", "pty_main", "streams", "fork", "error"}
Working == {"setup", "move", "wire", "close", "exec"}

\* The streams for which R has a descriptor.
Direct(i) == req[i][1] \in {"pipe", "inherit", "conn"}

\* What R can be asked for.
ReqInv ==
    /\ 0..2 \subseteq ropen
    /\ \A i \in DOMAIN req : req[i][1] = "conn" => req[i][2] \in ropen
    /\ \A i \in DOMAIN req : i >= 3 => req[i][1] \in {"conn", "closed"}
    /\ req[0][1] # "2>&1" /\ req[1][1] # "2>&1"
    /\ pty => \A i \in 0..2 : req[i][1] = "null"

\* The descriptor table of R: its own files, and which of the others there are.
TableInv ==
    /\ \A f \in ropen : ptab[f] = <<"R", f>>
    /\ \A f \in Fd \ ropen : ptab[f] \in {Nothing, SigR, SigW, PtyMain, PtySub}
                                         \cup {"parent", "child"} \X (0..2)
    /\ \A f \in Fd : ptab[f] = SigR => f = signal_pipe[1] /\ pc # "done"
    /\ \A f \in Fd : ptab[f] = SigW => f = signal_pipe[2] /\ pc \in Before \cup {"pty_child"}
    /\ \A f \in Fd, i \in 0..2 : ptab[f] = <<"child", i>> =>
          f = use[i] /\ parent_end[i] >= 0 /\ pc # "done"
    /\ signal_pipe[1] \notin ropen /\ signal_pipe[2] \notin ropen /\ pty_main_fd \notin ropen
    /\ \A i \in DOMAIN req : parent_end[i] >= 0 => use[i] \notin ropen

\* What R has prepared for stream i.
Prepared(i) ==
    /\ use[i] >= 0 <=> Direct(i)
    /\ use[i] >= 0 => ptab[use[i]] = Wanted(i)
    /\ req[i][1] = "conn" => use[i] = req[i][2]
    /\ parent_end[i] >= 0 => i < 3 /\ req[i][1] = "pipe" /\ ptab[parent_end[i]] = <<"parent", i>>

\* What R has prepared for the child.
PlanInv ==
    /\ pc \in {"signal_pipe", "pty_main"} => fd = 0
    /\ pc = "signal_pipe" => signal_pipe = <<-1, -1>> /\ pty_main_fd = -1
    /\ pc = "fork" => fd = stdio_count
    /\ pc \in {"signal_pipe", "pty_main", "streams"} =>
          \A i \in DOMAIN req : i >= fd => parent_end[i] = -1 /\ use[i] = -1
    /\ pc \in {"pty_main", "streams", "fork"} =>
          error_fd \in Fd /\ ptab[error_fd] = SigW /\ error_fd \in pcx
    /\ pc \in {"streams", "fork"} =>
          /\ pty_main_fd >= 0 => ptab[pty_main_fd] = PtyMain
          /\ \A i \in DOMAIN req : i < fd => Prepared(i)
    /\ cpc = "none" <=> pc \in Before
    /\ sig = "errno" => cpc = "dead"
    /\ verdict # "none" => pc \in {"finish", "done"}

\* The signal pipe in the child.
PipeInv ==
    cpc \in Working =>
        /\ error_fd \in Fd /\ ctab[error_fd] = SigW /\ error_fd \in cx
        /\ \A i \in DOMAIN req : cuse[i] # error_fd /\ parent_end[i] # error_fd
        /\ \A i \in DOMAIN req : cuse[i] >= 0 <=> Direct(i)
        /\ fd >= min_fd

Needed(i) == i < 3 \/ req[i][1] = "conn"
Placed(i) == ctab[i] = Wanted(i) /\ i \notin cx
Ready(i) == cuse[i] >= i /\ ctab[cuse[i]] = Wanted(i)

\* The streams of the child.
StreamInv ==
    /\ cpc \in {"setup", "move"} =>
          /\ \A i \in DOMAIN req : cuse[i] >= 0 => ctab[cuse[i]] = Wanted(i)
          /\ \A i \in DOMAIN req : parent_end[i] >= 0 => ctab[parent_end[i]] = <<"parent", i>>
    /\ cpc = "setup" /\ pty =>
          \A i \in DOMAIN req : (cuse[i] >= 0 => cuse[i] > 2) /\ parent_end[i] = -1
    /\ cpc = "setup" => fd = min_fd
    /\ cpc = "move" => \A i \in min_fd..(fd - 1) : cuse[i] >= 0 => cuse[i] >= i
    /\ cpc = "wire" =>
          /\ \A i \in fd..(stdio_count - 1) : cuse[i] >= 0 => Ready(i)
          /\ \A i \in min_fd..(fd - 1) : Needed(i) => Placed(i)
          /\ \A i, j \in DOMAIN req : cuse[i] >= 0 => cuse[i] # parent_end[j]
    /\ pty /\ cpc \in {"move", "wire"} => \A i \in 0..2 : Placed(i)
    /\ cpc \in {"close", "exec"} => \A i \in DOMAIN req : Needed(i) => Placed(i)
    /\ cpc = "exec" =>
          \A f \in stdio_count..MaxFd : f <= CloseLimit /\ f # error_fd => ctab[f] = Nothing

\* What R knows of the child.
NewsInv ==
    /\ cpc = "dead" => sig = "errno"
    /\ verdict = "started" => cpc = "running"
    /\ verdict = "failed" => cpc = "dead"

ChildInv == Clear => PipeInv /\ StreamInv /\ Wired /\ NoStrayFd /\ NewsInv
IInv == ReqInv /\ TableInv /\ PlanInv /\ ChildInv

---------------------------------------------------------------------------
(* Inputs and files *)

\* The streams are numbered from 0.
LEMMA Count ==
    ASSUME TypeOK
    PROVE  /\ stdio_count \in Nat /\ stdio_count >= 3 /\ DOMAIN req = 0..(stdio_count - 1)
           /\ \A i \in DOMAIN req : req[i] \in Request
           /\ min_fd \in {0, 3} /\ fd \in Nat /\ fd <= stdio_count
<1>1. PICK n \in 0..MaxExtra : req \in [0..(2 + n) -> Request]
  BY DEF TypeOK
<1>2. n \in Nat /\ DOMAIN req = 0..(2 + n)
  BY <1>1, LimitAssumption
<1>3. Cardinality(0..(2 + n)) = n + 3
  BY <1>2, FS_Interval
<1>4. stdio_count = n + 3
  BY <1>2, <1>3 DEF stdio_count
<1>5. QED
  BY <1>1, <1>2, <1>4 DEF TypeOK, min_fd

\* Nobody changes what was asked for.
LEMMA Fixed ==
    ASSUME Next
    PROVE  /\ UNCHANGED <<ropen, req, pty, stdio_count, min_fd>>
           /\ \A i : Wanted(i)' = Wanted(i)
           /\ \A i : Direct(i)' <=> Direct(i)
           /\ \A i : Needed(i)' <=> Needed(i)
<1>1. UNCHANGED inputVars
  BY DEF Next, Parent, Child, SignalPipe, StreamPipe, PtyMainOpens, PtyChildOpens, StreamOther,
     ExecFails, StreamsEnd, Fork, ReadSignalPipe, Finish, ChildFails, Setup, WireUse, WireSkips,
     CloseRest, Execvp, LoopEnds, WireOpen, Moved
<1>2. UNCHANGED <<ropen, req, pty>>
  BY <1>1 DEF inputVars
<1>3. QED
  BY <1>2 DEF stdio_count, min_fd, Wanted, Direct, Needed

\* The kinds of files are different.
LEMMA Kind ==
    ASSUME NEW x, NEW y
    PROVE  /\ Nothing # SigR /\ Nothing # SigW /\ Nothing # PtyMain /\ Nothing # PtySub
           /\ SigW # SigR /\ SigW # PtyMain /\ SigW # PtySub /\ PtyMain # SigR /\ PtySub # SigR
           /\ PtyMain # PtySub
           /\ <<"R", x>> \notin {Nothing, SigR, SigW, PtyMain, PtySub}
           /\ <<"child", x>> \notin {Nothing, SigR, SigW, PtyMain, PtySub}
           /\ <<"parent", x>> \notin {Nothing, SigR, SigW, PtyMain, PtySub}
           /\ <<"parent", x>> # <<"R", y>> /\ <<"parent", x>> # <<"child", y>>
           /\ <<"child", x>> # <<"R", y>>
           /\ <<"child", x>> = <<"child", y>> => x = y
  BY DEF Nothing, SigR, SigW, PtyMain, PtySub

\* What is asked for is not a file that only processx_exec needs.
LEMMA WantedFile ==
    ASSUME NEW i
    PROVE  /\ Wanted(i) \notin {Nothing, SigR, SigW, PtyMain}
           /\ \A j : Wanted(i) # <<"parent", j>>
<1>1. \/ Wanted(i) = PtySub
      \/ \E k \in {"child", "R", "file", "null"} : \E j : Wanted(i) = <<k, j>>
  BY DEF Wanted, Opened
<1>2. QED
  BY <1>1 DEF Nothing, SigR, SigW, PtyMain, PtySub

\* What is asked for, where R has a descriptor for it.
LEMMA WantedDirect ==
    ASSUME ReqInv, TypeOK, NEW i \in DOMAIN req, Direct(i)
    PROVE  Wanted(i) = CASE req[i][1] = "pipe"    -> <<"child", i>>
                         [] req[i][1] = "inherit" -> <<"R", i>>
                         [] OTHER                 -> <<"R", req[i][2]>>
<1>1. ~ (pty /\ i < 3)
  BY Count DEF ReqInv, Direct
<1>2. req[i][1] # "2>&1"
  BY DEF Direct
<1>3. QED
  BY <1>1, <1>2 DEF Wanted, Direct, Opened

\* The two lowest descriptors are free and different.
LEMMA Pairs ==
    ASSUME TypeOK, NEW f \in Fd, NEW g \in Fd, NEW a \in File, NEW b \in File, OpenPair(f, g, a, b),
           a # Nothing
    PROVE  /\ ptab[f] = Nothing /\ ptab[g] = Nothing /\ f # g
           /\ ptab' \in [Fd -> File] /\ ptab'[f] = a /\ ptab'[g] = b
           /\ \A h \in Fd : h # f /\ h # g => ptab'[h] = ptab[h]
           /\ pcx' = pcx \cup {f, g}
  BY DEF OpenPair, Lowest, TypeOK

\* The files of processx_exec are files.
LEMMA IsFile ==
    /\ {Nothing, SigR, SigW, PtyMain, PtySub} \subseteq File
    /\ \A i \in 0..2 : {<<"parent", i>>, <<"child", i>>, <<"file", i>>, <<"null", i>>} \subseteq File
  BY DEF File

---------------------------------------------------------------------------
(* Types *)

\* The types of the variables that change.
Types ==
    /\ ptab \in [Fd -> File] /\ ctab \in [Fd -> File]
    /\ pcx \in SUBSET Fd /\ cx \in SUBSET Fd
    /\ parent_end \in [DOMAIN req -> Fd \cup {-1}]
    /\ use \in [DOMAIN req -> Fd \cup {-1}] /\ cuse \in [DOMAIN req -> Fd \cup {-1}]
    /\ signal_pipe \in (Fd \cup {-1}) \X (Fd \cup {-1})
    /\ pty_main_fd \in Fd \cup {-1}
    /\ pc \in {"signal_pipe", "pty_main", "streams", "fork", "pty_child", "read", "finish",
               "done", "error"}
    /\ cpc \in {"none", "setup", "move", "wire", "close", "exec", "running", "dead"}
    /\ fd \in 0..stdio_count
    /\ sig \in {"empty", "errno"}
    /\ verdict \in {"none", "started", "failed"}

\* Closing descriptors leaves a table.
LEMMA Closes ==
    ASSUME NEW t \in [Fd -> File], NEW S
    PROVE  /\ Close(t, S) \in [Fd -> File]
           /\ \A f \in Fd : Close(t, S)[f] = IF f \in S THEN Nothing ELSE t[f]
  BY IsFile DEF Close

\* The steps of R keep the types.
LEMMA ParentTypes == ASSUME ReqInv, TypeOK, Next, Parent PROVE Types'
<1> USE DEF TypeOK, Types, planVars, childVars
<1>1. /\ UNCHANGED <<req, stdio_count>> /\ stdio_count \in Nat /\ fd \in Nat
      /\ DOMAIN req = 0..(stdio_count - 1) /\ \A i \in DOMAIN req : req[i] \in Request
      /\ stdio_count >= 3 /\ min_fd \in {0, 3}
  BY Fixed, Count
<1>2. ASSUME NEW f \in Fd, NEW g \in Fd, SignalPipe(f, g) PROVE Types'
  <2>0. OpenPair(f, g, SigR, SigW) /\ SigR \in File /\ SigW \in File /\ SigR # Nothing
    BY <1>2, Kind, IsFile DEF SignalPipe
  <2>1. ptab' \in [Fd -> File] /\ pcx' \in SUBSET Fd
    BY <2>0, Pairs
  <2>2. QED
    BY <1>1, <1>2, <2>1 DEF SignalPipe
<1>3. ASSUME NEW f \in Fd, NEW g \in Fd, StreamPipe(f, g) PROVE Types'
  <2>0. fd \in DOMAIN req /\ fd + 1 \in 0..stdio_count
    BY <1>1, <1>3 DEF StreamPipe
  <2>1. fd \in 0..2
    <3>1. ~ (fd >= 3)
      BY <1>3, <2>0 DEF StreamPipe, ReqInv
    <3>2. QED
      BY <1>1, <3>1
  <2>a. /\ OpenPair(f, g, <<"parent", fd>>, <<"child", fd>>) /\ <<"parent", fd>> \in File
        /\ <<"child", fd>> \in File /\ <<"parent", fd>> # Nothing
    BY <1>3, <2>1, Kind, IsFile DEF StreamPipe, Opened
  <2>2. ptab' \in [Fd -> File] /\ pcx' \in SUBSET Fd
    BY <2>a, Pairs
  <2>3. QED
    BY <1>1, <1>3, <2>0, <2>2 DEF StreamPipe
<1>4. ASSUME NEW f \in Fd, PtyMainOpens(f) PROVE Types'
  BY <1>1, <1>4, IsFile DEF PtyMainOpens
<1>5. ASSUME NEW f \in Fd \cup {-1}, PtyChildOpens(f) PROVE Types'
  <2>1. [g \in Fd |-> IF g = f THEN PtySub ELSE ptab[g]] \in [Fd -> File]
    BY IsFile
  <2>2. ptab' \in [Fd -> File]
    BY <1>5, <2>1, Closes DEF PtyChildOpens
  <2>3. QED
    BY <1>1, <1>5, <2>2 DEF PtyChildOpens
<1>6. CASE StreamOther
  <2>1. fd \in DOMAIN req /\ fd + 1 \in 0..stdio_count
    BY <1>1, <1>6 DEF StreamOther
  <2>2. req[fd][1] = "inherit" => fd \in Fd
    <3>1. req[fd][1] = "inherit" => ~ (fd >= 3)
      BY <2>1 DEF ReqInv
    <3>2. QED
      BY <1>1, <3>1, LimitAssumption DEF Fd
  <2>3. req[fd][1] = "conn" => req[fd][2] \in Fd
    BY <2>1 DEF ReqInv
  <2>4. use' \in [DOMAIN req -> Fd \cup {-1}]
    BY <1>6, <2>1, <2>2, <2>3 DEF StreamOther
  <2>5. QED
    BY <1>1, <1>6, <2>1, <2>4 DEF StreamOther
<1>7. CASE ExecFails
  <2>1. ptab' \in [Fd -> File]
    BY <1>7, Closes DEF ExecFails
  <2>2. QED
    BY <1>1, <1>7, <2>1 DEF ExecFails
<1>8. CASE Fork
  <2>1. ptab' \in [Fd -> File] /\ ctab' \in [Fd -> File]
    BY <1>8, Closes DEF Fork
  <2>2. fd' \in 0..stdio_count
    BY <1>1, <1>8 DEF Fork
  <2>3. QED
    BY <1>1, <1>8, <2>1, <2>2 DEF Fork
<1>9. CASE StreamsEnd \/ ReadSignalPipe
  BY <1>1, <1>9 DEF StreamsEnd, ReadSignalPipe
<1>10. CASE Finish
  <2>1. ptab' \in [Fd -> File]
    BY <1>10, Closes DEF Finish
  <2>2. QED
    BY <1>1, <1>10, <2>1 DEF Finish
<1>11. QED
  BY <1>2, <1>3, <1>4, <1>5, <1>6, <1>7, <1>8, <1>9, <1>10 DEF Parent

\* So do the steps of the child.
LEMMA ChildTypes == ASSUME ReqInv, TypeOK, Next, Child PROVE Types'
<1> USE DEF TypeOK, Types, parentVars, planVars
<1>1. /\ UNCHANGED <<req, stdio_count>> /\ stdio_count \in Nat /\ fd \in Nat
      /\ DOMAIN req = 0..(stdio_count - 1) /\ stdio_count >= 3 /\ min_fd \in {0, 3}
  BY Fixed, Count
<1>2. fd < stdio_count => fd \in DOMAIN req /\ fd + 1 \in 0..stdio_count
  BY <1>1
<1>3. CASE ChildFails
  BY <1>1, <1>3, IsFile DEF ChildFails
<1>4. CASE Setup
  <2>1. ctab' \in [Fd -> File] /\ cx' \in SUBSET Fd
    BY <1>4, IsFile DEF Setup
  <2>2. QED
    BY <1>1, <1>4, <2>1 DEF Setup
<1>5. CASE WireSkips \/ LoopEnds("move", "wire") \/ LoopEnds("wire", "close")
  BY <1>1, <1>2, <1>5 DEF WireSkips, LoopEnds
<1>6. CASE CloseRest \/ Execvp
  <2>1. ctab' \in [Fd -> File]
    BY <1>6, Closes DEF CloseRest, Execvp
  <2>2. QED
    BY <1>1, <1>6, <2>1 DEF CloseRest, Execvp
<1>7. CASE WireUse
  <2> DEFINE use_fd == IF Same THEN 1 ELSE cuse[fd]
  <2>1. use_fd \in Fd
    BY <1>1, <1>2, <1>7, LimitAssumption DEF WireUse, Same, Fd
  <2>2. Dup2(ctab, use_fd, fd) \in [Fd -> File]
    BY <2>1 DEF Dup2
  <2>3. ctab' \in [Fd -> File]
    BY <1>7, <2>2, Closes DEF WireUse
  <2>4. QED
    BY <1>1, <1>2, <1>7, <2>3 DEF WireUse
<1>8. ASSUME NEW f \in Fd, WireOpen(f) PROVE Types'
  <2> DEFINE file == Opened(fd, IF req[fd][1] = "file" THEN "file" ELSE "null")
         t == [ctab EXCEPT ![f] = file, ![fd] = file]
  <2>1. file \in File
    <3>1. fd \in 0..2
      BY <1>1, <1>8 DEF WireOpen
    <3>2. file = <<"file", fd>> \/ file = <<"null", fd>>
      BY DEF Opened
    <3>3. QED
      BY <3>1, <3>2, IsFile
  <2>2. t \in [Fd -> File] /\ ctab' = Close(t, {f} \cap stdio_count..MaxFd)
    BY <1>8, <2>1 DEF WireOpen
  <2> HIDE DEF t
  <2>3. ctab' \in [Fd -> File]
    BY <2>2, Closes
  <2>4. QED
    BY <1>1, <1>2, <1>8, <2>3 DEF WireOpen
<1>9. ASSUME NEW f \in Fd \cup {-1}, Moved(f) PROVE Types'
  <2>1. CASE cuse[fd] \in 0..(fd - 1)
    <3>1. f \in Fd /\ cuse[fd] \in Fd
      BY <1>2, <1>9, <2>1 DEF Moved
    <3>2. ctab' \in [Fd -> File] /\ cx' \in SUBSET Fd /\ cuse' \in [DOMAIN req -> Fd \cup {-1}]
      BY <1>9, <2>1, <3>1 DEF Moved, Dup2
    <3>3. QED
      BY <1>1, <1>2, <1>9, <3>2 DEF Moved
  <2>2. CASE cuse[fd] \notin 0..(fd - 1)
    BY <1>1, <1>2, <1>9, <2>2 DEF Moved
  <2>3. QED
    BY <2>1, <2>2
<1>10. QED
  BY <1>3, <1>4, <1>5, <1>6, <1>7, <1>8, <1>9 DEF Child

\* Every step keeps the types and the inputs.
LEMMA NextTypes == ASSUME ReqInv, TypeOK, [Next]_vars PROVE TypeOK' /\ ReqInv'
<1>1. CASE Next
  <2>1. UNCHANGED <<ropen, req, pty>> /\ Types'
    BY <1>1, Fixed, ParentTypes, ChildTypes DEF Next
  <2>2. QED
    BY <2>1 DEF TypeOK, Types, ReqInv
<1>2. CASE UNCHANGED vars
  <2>1. UNCHANGED <<ropen, req, pty, stdio_count>>
    BY <1>2 DEF vars, inputVars, stdio_count
  <2>2. QED
    BY <1>2, <2>1 DEF vars, parentVars, planVars, childVars, TypeOK, ReqInv
<1>3. QED
  BY <1>1, <1>2

---------------------------------------------------------------------------
(* The descriptor table of R *)

\* A step that opens nothing and closes only what is not R's own keeps the invariant.
LEMMA TableCloses ==
    ASSUME TypeOK, TableInv, NEW S, S \cap ropen = {}, ptab' = Close(ptab, S),
           UNCHANGED <<ropen, req, signal_pipe, use, parent_end, pty_main_fd>>,
           pc' \notin Before \cup {"pty_child"} => S = {} \/ error_fd \in S,
           pc' = "done" => signal_pipe[1] \in S /\ \A i \in 0..2 : parent_end[i] >= 0 => use[i] \in S,
           pc' \notin Before \cup {"pty_child"} /\ S = {} => pc \notin Before \cup {"pty_child"}
    PROVE  TableInv'
<1>0. ptab \in [Fd -> File] /\ ropen \subseteq Fd
  BY DEF TypeOK
<1>1. \A f \in Fd : ptab'[f] = IF f \in S THEN Nothing ELSE ptab[f]
  BY <1>0, Closes
<1>2. \A f \in ropen : ptab'[f] = <<"R", f>>
  BY <1>0, <1>1 DEF TableInv
<1>3. \A f \in Fd \ ropen : ptab'[f] \in {Nothing, SigR, SigW, PtyMain, PtySub}
                                          \cup {"parent", "child"} \X (0..2)
  BY <1>1 DEF TableInv
<1>4. \A f \in Fd : ptab'[f] = SigR => f = signal_pipe[1] /\ pc' # "done"
  BY <1>1, Kind DEF TableInv
<1>5. \A f \in Fd : ptab'[f] = SigW => f = signal_pipe[2] /\ pc' \in Before \cup {"pty_child"}
  <2> SUFFICES ASSUME NEW f \in Fd, ptab'[f] = SigW
               PROVE  f = signal_pipe[2] /\ pc' \in Before \cup {"pty_child"}
    OBVIOUS
  <2>1. SigW # Nothing
    BY Kind
  <2>2. f \notin S /\ ptab[f] = SigW
    BY <1>1, <2>1
  <2>3. f = signal_pipe[2] /\ pc \in Before \cup {"pty_child"}
    BY <2>2 DEF TableInv
  <2>4. QED
    BY <2>2, <2>3 DEF error_fd
<1>6. \A f \in Fd, i \in 0..2 : ptab'[f] = <<"child", i>> =>
         f = use[i] /\ parent_end[i] >= 0 /\ pc' # "done"
  <2> SUFFICES ASSUME NEW f \in Fd, NEW i \in 0..2, ptab'[f] = <<"child", i>>
               PROVE  f = use[i] /\ parent_end[i] >= 0 /\ pc' # "done"
    OBVIOUS
  <2>1. <<"child", i>> # Nothing
    BY Kind
  <2>2. f \notin S /\ ptab[f] = <<"child", i>>
    BY <1>1, <2>1
  <2>3. f = use[i] /\ parent_end[i] >= 0
    BY <2>2 DEF TableInv
  <2>4. QED
    BY <2>2, <2>3
<1>7. QED
  BY <1>2, <1>3, <1>4, <1>5, <1>6 DEF TableInv

\* A step that opens a free descriptor, or two.
LEMMA TableOpens ==
    ASSUME TypeOK, TableInv, NEW S \in SUBSET Fd, \A f \in S : ptab[f] = Nothing,
           UNCHANGED <<ropen, req>>, pc \in {"signal_pipe", "pty_main", "streams"},
           pc' \in {"pty_main", "streams"},
           \A f \in Fd \ S : ptab'[f] = ptab[f]
    PROVE  /\ S \cap ropen = {}
           /\ \A f \in ropen : ptab'[f] = <<"R", f>>
           /\ \A f \in Fd \ S : ptab'[f] = SigR => f = signal_pipe[1]
           /\ \A f \in Fd \ S : ptab'[f] = SigW => f = signal_pipe[2]
           /\ \A f \in Fd \ S : f \in ropen \/ ptab'[f] \in
                 {Nothing, SigR, SigW, PtyMain, PtySub} \cup {"parent", "child"} \X (0..2)
           /\ \A f \in Fd \ S, i \in 0..2 : ptab'[f] = <<"child", i>> =>
                 f = use[i] /\ parent_end[i] >= 0
<1>1. S \cap ropen = {}
  <2>1. \A f \in ropen : ptab[f] # Nothing
    BY Kind DEF TableInv
  <2>2. QED
    BY <2>1
<1>2. ropen \subseteq Fd
  BY DEF TypeOK
<1>3. \A f \in ropen : f \in Fd \ S
  BY <1>1, <1>2
<1>4. \A f \in ropen : ptab'[f] = <<"R", f>>
  BY <1>3 DEF TableInv
<1>5. \A f \in Fd \ S : ptab'[f] = SigR => f = signal_pipe[1]
  BY DEF TableInv
<1>6. \A f \in Fd \ S : ptab'[f] = SigW => f = signal_pipe[2]
  BY DEF TableInv
<1>7. \A f \in Fd \ S : f \in ropen \/ ptab'[f] \in
         {Nothing, SigR, SigW, PtyMain, PtySub} \cup {"parent", "child"} \X (0..2)
  BY DEF TableInv
<1>8. \A f \in Fd \ S, i \in 0..2 : ptab'[f] = <<"child", i>> =>
         f = use[i] /\ parent_end[i] >= 0
  BY DEF TableInv
<1>9. QED
  BY <1>1, <1>4, <1>5, <1>6, <1>7, <1>8

\* Every step keeps the table of R right.
LEMMA TableNext == ASSUME TypeOK, ReqInv, TableInv, PlanInv, Next PROVE TableInv'
<1> USE DEF planVars
<1>1. /\ UNCHANGED <<ropen, req>> /\ stdio_count \in Nat /\ fd \in Nat
      /\ DOMAIN req = 0..(stdio_count - 1) /\ stdio_count >= 3
      /\ ropen \subseteq Fd /\ -1 \notin Fd /\ 0..2 \subseteq DOMAIN req
  <2>1. UNCHANGED <<ropen, req>> /\ ropen \subseteq Fd
    BY Fixed DEF TypeOK
  <2>2. -1 \notin Fd
    BY LimitAssumption DEF Fd
  <2>3. QED
    BY <2>1, <2>2, Count
<1>2. ASSUME NEW f \in Fd, NEW g \in Fd, SignalPipe(f, g) PROVE TableInv'
  <2>1. OpenPair(f, g, SigR, SigW) /\ SigR \in File /\ SigW \in File /\ SigR # Nothing
    BY <1>2, Kind, IsFile DEF SignalPipe
  <2>2. /\ ptab[f] = Nothing /\ ptab[g] = Nothing /\ f # g /\ ptab'[f] = SigR /\ ptab'[g] = SigW
        /\ \A h \in Fd \ {f, g} : ptab'[h] = ptab[h]
    BY <2>1, Pairs
  <2>3. /\ pc = "signal_pipe" /\ pc' \in {"pty_main", "streams"} /\ signal_pipe' = <<f, g>>
        /\ UNCHANGED <<use, parent_end, pty_main_fd>>
    BY <1>2 DEF SignalPipe
  <2>4. \A h \in Fd : ptab[h] \notin {SigR, SigW}
    <3>1. signal_pipe = <<-1, -1>>
      BY <2>3 DEF PlanInv
    <3>2. signal_pipe[1] \notin Fd /\ signal_pipe[2] \notin Fd
      BY <1>1, <3>1
    <3>3. QED
      BY <3>2 DEF TableInv
  <2>5. /\ {f, g} \cap ropen = {}
        /\ \A h \in ropen : ptab'[h] = <<"R", h>>
        /\ \A h \in Fd \ {f, g} : h \in ropen \/ ptab'[h] \in
              {Nothing, SigR, SigW, PtyMain, PtySub} \cup {"parent", "child"} \X (0..2)
        /\ \A h \in Fd \ {f, g}, i \in 0..2 : ptab'[h] = <<"child", i>> =>
              h = use[i] /\ parent_end[i] >= 0
    <3>1. /\ {f, g} \in SUBSET Fd /\ \A h \in {f, g} : ptab[h] = Nothing
          /\ pc \in {"signal_pipe", "pty_main", "streams"}
          /\ \A h \in Fd \ {f, g} : ptab'[h] = ptab[h]
      BY <2>2, <2>3
    <3>2. QED
      BY <1>1, <2>3, <3>1, TableOpens, Zenon
  <2>6. SigR # SigW /\ \A i : <<"child", i>> # SigR /\ <<"child", i>> # SigW
    BY Kind
  <2>7. QED
    BY <1>1, <2>2, <2>3, <2>4, <2>5, <2>6 DEF TableInv, Before
<1>3. ASSUME NEW f \in Fd, NEW g \in Fd, StreamPipe(f, g) PROVE TableInv'
  <2>1. fd \in DOMAIN req /\ fd \in 0..2
    <3>1. fd \in DOMAIN req
      BY <1>1, <1>3 DEF StreamPipe
    <3>2. ~ (fd >= 3)
      BY <1>3, <3>1 DEF StreamPipe, ReqInv
    <3>3. QED
      BY <1>1, <3>1, <3>2
  <2>2. /\ OpenPair(f, g, <<"parent", fd>>, <<"child", fd>>) /\ <<"parent", fd>> \in File
        /\ <<"child", fd>> \in File /\ <<"parent", fd>> # Nothing
    BY <1>3, <2>1, Kind, IsFile DEF StreamPipe, Opened
  <2>3. /\ ptab[f] = Nothing /\ ptab[g] = Nothing /\ f # g
        /\ ptab'[f] = <<"parent", fd>> /\ ptab'[g] = <<"child", fd>>
        /\ \A h \in Fd \ {f, g} : ptab'[h] = ptab[h]
    BY <2>2, Pairs
  <2>4. /\ pc = "streams" /\ pc' = "streams" /\ UNCHANGED <<signal_pipe, pty_main_fd>>
        /\ parent_end' = [parent_end EXCEPT ![fd] = f] /\ use' = [use EXCEPT ![fd] = g]
        /\ parent_end \in [DOMAIN req -> Fd \cup {-1}] /\ use \in [DOMAIN req -> Fd \cup {-1}]
    BY <1>3 DEF StreamPipe, TypeOK
  <2>5. /\ {f, g} \cap ropen = {}
        /\ \A h \in ropen : ptab'[h] = <<"R", h>>
        /\ \A h \in Fd \ {f, g} : ptab'[h] = SigR => h = signal_pipe[1]
        /\ \A h \in Fd \ {f, g} : ptab'[h] = SigW => h = signal_pipe[2]
        /\ \A h \in Fd \ {f, g} : h \in ropen \/ ptab'[h] \in
              {Nothing, SigR, SigW, PtyMain, PtySub} \cup {"parent", "child"} \X (0..2)
        /\ \A h \in Fd \ {f, g}, i \in 0..2 : ptab'[h] = <<"child", i>> =>
              h = use[i] /\ parent_end[i] >= 0
    <3>1. /\ {f, g} \in SUBSET Fd /\ \A h \in {f, g} : ptab[h] = Nothing
          /\ pc \in {"signal_pipe", "pty_main", "streams"} /\ pc' \in {"pty_main", "streams"}
          /\ \A h \in Fd \ {f, g} : ptab'[h] = ptab[h]
      BY <2>3, <2>4
    <3>2. QED
      BY <1>1, <3>1, TableOpens, Zenon
  <2>6. parent_end[fd] = -1
    BY <1>1, <2>1, <2>4 DEF PlanInv
  <2>7. f >= 0 /\ g >= 0
    BY LimitAssumption DEF Fd
  <2>8. \A h \in Fd, i \in 0..2 : ptab'[h] = <<"child", i>> => h = use'[i] /\ parent_end'[i] >= 0
    <3> SUFFICES ASSUME NEW h \in Fd, NEW i \in 0..2, ptab'[h] = <<"child", i>>
                 PROVE  h = use'[i] /\ parent_end'[i] >= 0
      OBVIOUS
    <3>1. h # f
      BY <2>3, Kind
    <3>2. CASE h = g
      BY <1>1, <2>1, <2>3, <2>4, <2>7, <3>2, Kind
    <3>3. CASE h # g
      <4>1. h = use[i] /\ parent_end[i] >= 0
        BY <2>5, <3>1, <3>3
      <4>2. i # fd
        BY <2>6, <4>1
      <4>3. QED
        BY <1>1, <2>4, <4>1, <4>2
    <3>4. QED
      BY <3>2, <3>3
  <2>9. \A h \in {f, g} : ptab'[h] \notin {SigR, SigW}
    BY <2>3, Kind
  <2>10. \A i \in DOMAIN req : parent_end'[i] >= 0 => use'[i] \notin ropen
    BY <1>1, <2>4, <2>5 DEF TableInv
  <2>11. \A h \in Fd \ ropen : ptab'[h] \in {Nothing, SigR, SigW, PtyMain, PtySub}
                                            \cup {"parent", "child"} \X (0..2)
    BY <2>1, <2>3, <2>5
  <2>12. QED
    BY <1>1, <2>4, <2>5, <2>8, <2>9, <2>10, <2>11 DEF TableInv, Before
<1>4. ASSUME NEW f \in Fd, PtyMainOpens(f) PROVE TableInv'
  <2>1. /\ ptab[f] = Nothing /\ ptab'[f] = PtyMain /\ \A h \in Fd \ {f} : ptab'[h] = ptab[h]
        /\ pc = "pty_main" /\ pc' = "streams" /\ UNCHANGED <<signal_pipe, use, parent_end>>
        /\ pty_main_fd' = f
    BY <1>4 DEF PtyMainOpens, Lowest, TypeOK
  <2>2. /\ {f} \cap ropen = {}
        /\ \A h \in ropen : ptab'[h] = <<"R", h>>
        /\ \A h \in Fd \ {f} : ptab'[h] = SigR => h = signal_pipe[1]
        /\ \A h \in Fd \ {f} : ptab'[h] = SigW => h = signal_pipe[2]
        /\ \A h \in Fd \ {f} : h \in ropen \/ ptab'[h] \in
              {Nothing, SigR, SigW, PtyMain, PtySub} \cup {"parent", "child"} \X (0..2)
        /\ \A h \in Fd \ {f}, i \in 0..2 : ptab'[h] = <<"child", i>> =>
              h = use[i] /\ parent_end[i] >= 0
    <3>1. /\ {f} \in SUBSET Fd /\ \A h \in {f} : ptab[h] = Nothing
          /\ pc \in {"signal_pipe", "pty_main", "streams"} /\ pc' \in {"pty_main", "streams"}
          /\ \A h \in Fd \ {f} : ptab'[h] = ptab[h]
      BY <2>1
    <3>2. QED
      BY <1>1, <3>1, TableOpens, Zenon
  <2>3. PtyMain # SigR /\ PtyMain # SigW /\ \A i : <<"child", i>> # PtyMain
    BY Kind
  <2>4. \A h \in Fd \ ropen : ptab'[h] \in {Nothing, SigR, SigW, PtyMain, PtySub}
                                           \cup {"parent", "child"} \X (0..2)
    BY <2>1, <2>2
  <2>5. \A h \in Fd : (ptab'[h] = SigR => h = signal_pipe[1])
                     /\ (ptab'[h] = SigW => h = signal_pipe[2])
    BY <2>1, <2>2, <2>3
  <2>6. \A h \in Fd, i \in 0..2 : ptab'[h] = <<"child", i>> => h = use[i] /\ parent_end[i] >= 0
    BY <2>1, <2>2, <2>3
  <2>7. QED
    BY <1>1, <2>1, <2>2, <2>4, <2>5, <2>6 DEF TableInv, Before
<1>5. ASSUME NEW f \in Fd \cup {-1}, PtyChildOpens(f) PROVE TableInv'
  <2> DEFINE t == [g \in Fd |-> IF g = f THEN PtySub ELSE ptab[g]]
  <2>1. /\ t \in [Fd -> File] /\ ptab' = Close(t, {error_fd}) /\ pc = "pty_child" /\ pc' = "read"
        /\ f \in Fd => ptab[f] = Nothing
        /\ UNCHANGED <<signal_pipe, use, parent_end, pty_main_fd>>
    BY <1>5, IsFile DEF PtyChildOpens, Lowest, TypeOK
  <2>2. f \notin ropen
    <3>1. \A h \in ropen : ptab[h] # Nothing
      BY Kind DEF TableInv
    <3>2. QED
      BY <1>1, <2>1, <3>1
  <2>3. \A h \in Fd : ptab'[h] = IF h = error_fd THEN Nothing ELSE IF h = f THEN PtySub ELSE ptab[h]
    BY <2>1, Closes
  <2> HIDE DEF t
  <2>4. error_fd \notin ropen /\ error_fd = signal_pipe[2]
    BY DEF TableInv, error_fd
  <2>5. /\ SigR # Nothing /\ SigW # Nothing /\ PtySub # SigR /\ PtySub # SigW
        /\ \A i : <<"child", i>> # Nothing /\ <<"child", i>> # PtySub
    BY Kind
  <2>6. \A h \in ropen : ptab'[h] = <<"R", h>>
    BY <1>1, <2>2, <2>3, <2>4 DEF TableInv
  <2>7. \A h \in Fd : ptab'[h] # SigW
    BY <2>3, <2>4, <2>5 DEF TableInv
  <2>8. QED
    BY <1>1, <2>1, <2>3, <2>5, <2>6, <2>7 DEF TableInv
<1>6. CASE StreamOther
  <2>1. /\ UNCHANGED <<ptab, pc, parent_end, signal_pipe, pty_main_fd>> /\ fd \in DOMAIN req
        /\ \A i \in DOMAIN req : i # fd => use'[i] = use[i]
        /\ pc = "streams"
    BY <1>1, <1>6 DEF StreamOther, TypeOK
  <2>2. parent_end[fd] = -1
    BY <1>1, <2>1 DEF PlanInv
  <2>3. \A i \in DOMAIN req : parent_end[i] >= 0 => use'[i] = use[i]
    BY <2>1, <2>2
  <2>4. QED
    BY <1>1, <2>1, <2>3 DEF TableInv
<1>7. CASE ExecFails
  <2>1. /\ UNCHANGED <<ropen, req, signal_pipe, use, parent_end, pty_main_fd>> /\ pc' = "error"
        /\ ptab' = ptab \/ ptab' = Close(ptab, {signal_pipe[1], signal_pipe[2], pty_main_fd})
    BY <1>1, <1>7 DEF ExecFails
  <2>2. CASE ptab' = ptab
    BY <2>1, <2>2 DEF TableInv, Before
  <2>3. CASE ptab' = Close(ptab, {signal_pipe[1], signal_pipe[2], pty_main_fd})
    <3>1. {signal_pipe[1], signal_pipe[2], pty_main_fd} \cap ropen = {}
      BY DEF TableInv
    <3>2. pc' \in Before \cup {"pty_child"} /\ pc' # "done"
      BY <2>1 DEF Before
    <3>3. QED
      BY <2>1, <2>3, <3>1, <3>2, TableCloses
  <2>4. QED
    BY <2>1, <2>2, <2>3
<1>8. CASE Fork
  <2>1. /\ UNCHANGED <<ropen, req, signal_pipe, use, parent_end, pty_main_fd>> /\ pc = "fork"
        /\ pc' \in {"pty_child", "read"}
        /\ pc' = "read" => ptab' = Close(ptab, {error_fd})
        /\ pc' = "pty_child" => ptab' = ptab
    BY <1>1, <1>8 DEF Fork
  <2>2. CASE pc' = "pty_child"
    BY <2>1, <2>2 DEF TableInv
  <2>3. CASE pc' = "read"
    <3>1. {error_fd} \cap ropen = {} /\ error_fd \in {error_fd} /\ {error_fd} # {}
      BY DEF TableInv, error_fd
    <3>2. QED
      BY <2>1, <2>3, <3>1, TableCloses
  <2>4. QED
    BY <2>1, <2>2, <2>3
<1>9. CASE StreamsEnd \/ ReadSignalPipe
  BY <1>1, <1>9 DEF StreamsEnd, ReadSignalPipe, TableInv, Before
<1>10. CASE Finish
  <2> DEFINE paired == {i \in 0..2 : use[i] >= 0 /\ parent_end[i] >= 0}
             S == {signal_pipe[1]} \cup {use[i] : i \in paired}
  <2>1. /\ UNCHANGED <<ropen, req, signal_pipe, use, parent_end, pty_main_fd>> /\ pc = "finish"
        /\ pc' = "done" /\ ptab' = Close(ptab, S)
    BY <1>1, <1>10 DEF Finish
  <2>2. S \cap ropen = {}
    BY <1>1 DEF TableInv
  <2>3. ptab \in [Fd -> File]
    BY DEF TypeOK
  <2> HIDE DEF S
  <2>4. \A f \in Fd : ptab'[f] = IF f \in S THEN Nothing ELSE ptab[f]
    BY <2>1, <2>3, Closes
  <2>5. \A f \in Fd : ptab[f] = SigR => f \in S
    BY DEF TableInv, S
  <2>6. \A f \in Fd, i \in 0..2 : ptab[f] = <<"child", i>> => f \in S
    BY LimitAssumption DEF TableInv, S, Fd
  <2>7. \A f \in Fd : ptab[f] # SigW
    BY <2>1 DEF TableInv, Before
  <2>8. /\ SigR # Nothing /\ SigW # Nothing /\ \A i : <<"child", i>> # Nothing
    BY Kind
  <2>9. \A f \in Fd : ptab'[f] # SigR /\ ptab'[f] # SigW /\ \A i \in 0..2 : ptab'[f] # <<"child", i>>
    BY <2>4, <2>5, <2>6, <2>7, <2>8
  <2>10. \A h \in ropen : ptab'[h] = <<"R", h>>
    BY <1>1, <2>2, <2>4 DEF TableInv
  <2>11. \A h \in Fd \ ropen : ptab'[h] \in {Nothing, SigR, SigW, PtyMain, PtySub}
                                            \cup {"parent", "child"} \X (0..2)
    BY <2>4 DEF TableInv
  <2>12. QED
    BY <2>1, <2>9, <2>10, <2>11 DEF TableInv
<1>11. CASE Child
  <2>1. UNCHANGED parentVars
    BY <1>11 DEF Child, ChildFails, Setup, WireUse, WireSkips, CloseRest, Execvp, LoopEnds,
       WireOpen, Moved
  <2>2. QED
    BY <1>1, <2>1 DEF parentVars, TableInv
<1>12. QED
  BY <1>2, <1>3, <1>4, <1>5, <1>6, <1>7, <1>8, <1>9, <1>10, <1>11 DEF Next, Parent

---------------------------------------------------------------------------
(* The plan *)

\* What is prepared stays prepared while R opens more files.
LEMMA PreparedKept ==
    ASSUME TypeOK, Next, NEW i \in DOMAIN req, Prepared(i),
           use'[i] = use[i], parent_end'[i] = parent_end[i],
           \A h \in Fd : ptab[h] # Nothing => ptab'[h] = ptab[h]
    PROVE  Prepared(i)'
<1>1. /\ Wanted(i)' = Wanted(i) /\ (Direct(i)' <=> Direct(i)) /\ req' = req
  BY Fixed
<1>2. /\ use[i] \in Fd \cup {-1} /\ parent_end[i] \in Fd \cup {-1}
  BY DEF TypeOK
<1>3. use[i] >= 0 => ptab'[use[i]] = Wanted(i)
  <2>1. Wanted(i) # Nothing
    BY WantedFile
  <2>2. QED
    BY <1>2, <2>1 DEF Prepared
<1>4. parent_end[i] >= 0 => ptab'[parent_end[i]] = <<"parent", i>>
  <2>1. <<"parent", i>> # Nothing
    BY Kind
  <2>2. QED
    BY <1>2, <2>1 DEF Prepared
<1>5. QED
  BY <1>1, <1>3, <1>4 DEF Prepared

\* Every step keeps the plan right.
LEMMA PlanNext == ASSUME TypeOK, ReqInv, TableInv, PlanInv, Next PROVE PlanInv'
<1>1. /\ UNCHANGED <<ropen, req, stdio_count>> /\ stdio_count \in Nat /\ fd \in Nat
      /\ DOMAIN req = 0..(stdio_count - 1) /\ stdio_count >= 3
      /\ ropen \subseteq Fd /\ fd <= stdio_count
  <2>1. UNCHANGED <<ropen, req, stdio_count>> /\ ropen \subseteq Fd
    BY Fixed DEF TypeOK
  <2>2. QED
    BY <2>1, Count
<1>2. -1 \notin Fd /\ \A h \in Fd : h >= 0
  BY LimitAssumption DEF Fd
<1>3. ASSUME NEW f \in Fd, NEW g \in Fd, SignalPipe(f, g) PROVE PlanInv'
  <2>1. OpenPair(f, g, SigR, SigW) /\ SigR \in File /\ SigW \in File /\ SigR # Nothing
    BY <1>3, Kind, IsFile DEF SignalPipe
  <2>2. ptab'[g] = SigW /\ g \in pcx'
    BY <2>1, Pairs
  <2>3. /\ pc = "signal_pipe" /\ pc' \in {"pty_main", "streams"} /\ signal_pipe' = <<f, g>>
        /\ UNCHANGED <<use, parent_end, pty_main_fd, cpc, fd, sig, verdict>>
    BY <1>3 DEF SignalPipe, childVars
  <2>4. error_fd' = g
    BY <2>3 DEF error_fd
  <2>5. fd = 0 /\ cpc = "none" /\ sig # "errno" /\ verdict = "none"
    BY <2>3 DEF PlanInv, Before
  <2>6. pty_main_fd = -1
    BY <2>3 DEF PlanInv
  <2>7. \A i \in DOMAIN req : i >= fd => parent_end[i] = -1 /\ use[i] = -1
    BY <2>3 DEF PlanInv
  <2>8. \A i \in DOMAIN req : ~ (i < fd)
    BY <1>1, <2>5
  <2>9. QED
    BY <1>1, <2>2, <2>3, <2>4, <2>5, <2>6, <2>7, <2>8 DEF PlanInv, Before
<1>4. ASSUME NEW f \in Fd, PtyMainOpens(f) PROVE PlanInv'
  <2>1. /\ ptab[f] = Nothing /\ ptab'[f] = PtyMain /\ \A h \in Fd \ {f} : ptab'[h] = ptab[h]
        /\ pc = "pty_main" /\ pc' = "streams" /\ UNCHANGED <<signal_pipe, use, parent_end>>
        /\ pty_main_fd' = f /\ UNCHANGED <<cpc, fd, sig, verdict>> /\ pcx' = pcx \ {f}
    BY <1>4 DEF PtyMainOpens, Lowest, TypeOK, childVars
  <2>2. fd = 0 /\ cpc = "none" /\ sig # "errno" /\ verdict = "none"
    BY <2>1 DEF PlanInv, Before
  <2>3. error_fd \in Fd /\ ptab[error_fd] = SigW /\ error_fd \in pcx /\ error_fd' = error_fd
    BY <2>1 DEF PlanInv, error_fd
  <2>4. error_fd # f
    BY <2>1, <2>3, Kind
  <2>5. \A i \in DOMAIN req : ~ (i < fd)
    BY <1>1, <2>2
  <2>6. \A i \in DOMAIN req : i >= fd => parent_end[i] = -1 /\ use[i] = -1
    BY <2>1 DEF PlanInv
  <2>7. QED
    BY <1>1, <2>1, <2>2, <2>3, <2>4, <2>5, <2>6 DEF PlanInv, Before
<1>5. ASSUME NEW f \in Fd, NEW g \in Fd, StreamPipe(f, g) PROVE PlanInv'
  <2>1. fd \in DOMAIN req /\ fd \in 0..2 /\ fd' = fd + 1 /\ req[fd][1] = "pipe"
    <3>1. fd \in DOMAIN req
      BY <1>1, <1>5 DEF StreamPipe
    <3>2. ~ (fd >= 3)
      BY <1>5, <3>1 DEF StreamPipe, ReqInv
    <3>3. QED
      BY <1>1, <1>5, <3>1, <3>2 DEF StreamPipe
  <2>2. /\ OpenPair(f, g, <<"parent", fd>>, <<"child", fd>>) /\ <<"parent", fd>> \in File
        /\ <<"child", fd>> \in File /\ <<"parent", fd>> # Nothing
    BY <1>5, <2>1, Kind, IsFile DEF StreamPipe, Opened
  <2>3. /\ ptab[f] = Nothing /\ ptab[g] = Nothing /\ f # g
        /\ ptab'[f] = <<"parent", fd>> /\ ptab'[g] = <<"child", fd>>
        /\ \A h \in Fd : ptab[h] # Nothing => ptab'[h] = ptab[h]
        /\ pcx' = pcx \cup {f, g}
    BY <2>2, Pairs
  <2>4. /\ pc = "streams" /\ pc' = "streams"
        /\ UNCHANGED <<signal_pipe, pty_main_fd, cpc, sig, verdict>>
        /\ parent_end' = [parent_end EXCEPT ![fd] = f] /\ use' = [use EXCEPT ![fd] = g]
        /\ parent_end \in [DOMAIN req -> Fd \cup {-1}] /\ use \in [DOMAIN req -> Fd \cup {-1}]
        /\ pty_main_fd \in Fd \cup {-1}
    BY <1>5 DEF StreamPipe, TypeOK, childVars
  <2>5. /\ error_fd \in Fd /\ ptab[error_fd] = SigW /\ error_fd \in pcx
        /\ pty_main_fd >= 0 => ptab[pty_main_fd] = PtyMain
        /\ \A i \in DOMAIN req : i < fd => Prepared(i)
        /\ \A i \in DOMAIN req : i >= fd => parent_end[i] = -1 /\ use[i] = -1
        /\ error_fd' = error_fd
    BY <2>4 DEF PlanInv, error_fd
  <2>6. SigW # Nothing /\ PtyMain # Nothing
    BY Kind
  <2>7. /\ ptab'[error_fd] = SigW /\ error_fd \in pcx'
        /\ pty_main_fd >= 0 => ptab'[pty_main_fd] = PtyMain
    BY <2>3, <2>4, <2>5, <2>6
  <2>9. \A i \in DOMAIN req : i < fd' => Prepared(i)'
    <3> SUFFICES ASSUME NEW i \in DOMAIN req, i < fd' PROVE Prepared(i)'
      BY <1>1
    <3>1. CASE i < fd
      <4>1. use'[i] = use[i] /\ parent_end'[i] = parent_end[i] /\ Prepared(i)
        BY <1>1, <2>1, <2>4, <2>5, <3>1
      <4>2. QED
        BY <2>3, <4>1, PreparedKept
    <3>2. CASE i = fd
      <4>1. use'[i] = g /\ parent_end'[i] = f
        BY <2>1, <2>4, <3>2
      <4>2. Direct(i) /\ (Direct(i)' <=> Direct(i)) /\ Wanted(i)' = Wanted(i)
        BY <2>1, <3>2, Fixed DEF Direct
      <4>3. Wanted(i) = <<"child", i>>
        BY <2>1, <3>2, <4>2, WantedDirect
      <4>4. g >= 0 /\ f >= 0 /\ i < 3 /\ req'[i][1] = "pipe"
        BY <1>1, <1>2, <2>1, <3>2
      <4>5. QED
        BY <2>3, <3>2, <4>1, <4>2, <4>3, <4>4 DEF Prepared
    <3>3. QED
      BY <1>1, <2>1, <3>1, <3>2
  <2>10. \A i \in DOMAIN req : i >= fd' => parent_end'[i] = -1 /\ use'[i] = -1
    BY <1>1, <2>1, <2>4, <2>5
  <2>11. cpc = "none" /\ sig # "errno" /\ verdict = "none"
    BY <2>4 DEF PlanInv, Before
  <2>12. QED
    BY <1>1, <2>4, <2>5, <2>7, <2>9, <2>10, <2>11 DEF PlanInv, Before
<1>6. CASE StreamOther
  <2>1. /\ fd \in DOMAIN req /\ fd' = fd + 1 /\ req[fd][1] # "pipe" /\ pc = "streams"
        /\ UNCHANGED <<ptab, pcx, parent_end, signal_pipe, pty_main_fd, pc, verdict, cpc, sig>>
    BY <1>1, <1>6 DEF StreamOther, childVars
  <2>2. /\ use'[fd] = CASE req[fd][1] = "inherit" -> fd
                        [] req[fd][1] = "conn"    -> req[fd][2]
                        [] OTHER                  -> -1
        /\ \A i \in DOMAIN req : i # fd => use'[i] = use[i]
    BY <1>6, <2>1 DEF StreamOther, TypeOK
  <2>3. /\ error_fd \in Fd /\ ptab[error_fd] = SigW /\ error_fd \in pcx
        /\ pty_main_fd >= 0 => ptab[pty_main_fd] = PtyMain
        /\ \A i \in DOMAIN req : i < fd => Prepared(i)
        /\ \A i \in DOMAIN req : i >= fd => parent_end[i] = -1 /\ use[i] = -1
        /\ error_fd' = error_fd
    BY <2>1 DEF PlanInv, error_fd
  <2>4. parent_end[fd] = -1
    BY <1>1, <2>1, <2>3
  <2>5. ASSUME NEW i \in DOMAIN req, i = fd PROVE Prepared(i)'
    <3>0. (Direct(i)' <=> Direct(i)) /\ Wanted(i)' = Wanted(i) /\ parent_end'[i] = -1
      BY <2>1, <2>4, <2>5, Fixed
    <3>1. CASE req[i][1] = "inherit"
      <4>1. Direct(i) /\ Wanted(i) = <<"R", i>>
        BY <3>1, WantedDirect DEF Direct
      <4>2. i \in ropen
        <5>1. ~ (i >= 3)
          BY <3>1 DEF ReqInv
        <5>2. i \in 0..2
          BY <1>1, <5>1
        <5>3. QED
          BY <5>2 DEF ReqInv
      <4>3. ptab[i] = <<"R", i>> /\ use'[i] = i /\ i >= 0
        BY <1>1, <2>2, <2>5, <3>1, <4>2 DEF TableInv
      <4>4. QED
        BY <1>1, <2>1, <3>0, <3>1, <4>1, <4>3 DEF Prepared
    <3>2. CASE req[i][1] = "conn"
      <4>1. Direct(i) /\ Wanted(i) = <<"R", req[i][2]>>
        BY <3>2, WantedDirect DEF Direct
      <4>2. req[i][2] \in ropen
        BY <3>2 DEF ReqInv
      <4>3. ptab[req[i][2]] = <<"R", req[i][2]>> /\ use'[i] = req[i][2] /\ req[i][2] >= 0
        BY <1>1, <1>2, <2>2, <2>5, <3>2, <4>2 DEF TableInv
      <4>4. QED
        BY <1>1, <2>1, <3>0, <3>2, <4>1, <4>3 DEF Prepared
    <3>3. CASE req[i][1] \notin {"inherit", "conn"}
      <4>1. ~ Direct(i) /\ use'[i] = -1 /\ ~ (use'[i] >= 0)
        BY <2>1, <2>2, <2>5, <3>3 DEF Direct
      <4>2. QED
        BY <1>1, <2>1, <3>0, <3>3, <4>1 DEF Prepared
    <3>4. QED
      BY <3>1, <3>2, <3>3
  <2>7. \A i \in DOMAIN req : i < fd' => Prepared(i)'
    <3> SUFFICES ASSUME NEW i \in DOMAIN req, i < fd' PROVE Prepared(i)'
      BY <1>1
    <3>1. CASE i < fd
      <4>1. use'[i] = use[i] /\ parent_end'[i] = parent_end[i] /\ Prepared(i) /\ ptab' = ptab
        BY <1>1, <2>1, <2>2, <2>3, <3>1
      <4>2. QED
        BY <4>1, PreparedKept
    <3>2. CASE i = fd
      BY <2>5, <3>2
    <3>3. QED
      BY <1>1, <2>1, <3>1, <3>2
  <2>8. \A i \in DOMAIN req : i >= fd' => parent_end'[i] = -1 /\ use'[i] = -1
    BY <1>1, <2>1, <2>2, <2>3
  <2>9. cpc = "none" /\ sig # "errno" /\ verdict = "none"
    BY <2>1 DEF PlanInv, Before
  <2>10. QED
    BY <1>1, <2>1, <2>3, <2>7, <2>8, <2>9 DEF PlanInv, Before
<1>7. CASE StreamsEnd
  <2>1. /\ pc = "streams" /\ pc' = "fork" /\ fd = stdio_count
        /\ UNCHANGED <<ptab, pcx, planVars, verdict, childVars, fd, sig>>
    BY <1>7 DEF StreamsEnd
  <2>2. \A i \in DOMAIN req : i < fd => Prepared(i)'
    <3> SUFFICES ASSUME NEW i \in DOMAIN req, i < fd PROVE Prepared(i)'
      OBVIOUS
    <3>1. use'[i] = use[i] /\ parent_end'[i] = parent_end[i] /\ Prepared(i) /\ ptab' = ptab
      BY <2>1 DEF PlanInv, planVars
    <3>2. QED
      BY <3>1, PreparedKept
  <2>3. error_fd' = error_fd
    BY <2>1 DEF error_fd, planVars
  <2>4. QED
    BY <1>1, <2>1, <2>2, <2>3 DEF PlanInv, Before, planVars, childVars
<1>8. CASE ExecFails \/ Fork \/ ReadSignalPipe \/ Finish \/ \E f \in Fd \cup {-1} : PtyChildOpens(f)
  <2>1. /\ pc' \in {"error", "pty_child", "read", "finish", "done"} /\ sig' = sig
        /\ pc' = "error" => pc \in Before /\ UNCHANGED <<cpc, verdict>>
        /\ cpc' = "none" => cpc = "none"
        /\ pc' # "error" => cpc' # "none" \/ (pc \notin Before /\ cpc' = cpc)
        /\ cpc' = cpc \/ cpc = "none"
        /\ cpc' = "none" \/ pc' # "error"
        /\ verdict' = verdict \/ pc' = "finish"
        /\ pc \in {"finish", "done"} => pc' \in {"finish", "done"}
    BY <1>8 DEF ExecFails, Fork, ReadSignalPipe, Finish, PtyChildOpens, PlanInv, Before, childVars
  <2>2. QED
    BY <2>1 DEF PlanInv, Before
<1>9. CASE Child
  <2>1. /\ UNCHANGED parentVars /\ cpc \in Working /\ cpc' # "none"
        /\ sig' = sig \/ cpc' = "dead"
    BY <1>9 DEF Child, ChildFails, Setup, WireUse, WireSkips, CloseRest, Execvp, LoopEnds,
       WireOpen, Moved, Working
  <2>2. UNCHANGED <<pc, verdict>>
    BY <2>1 DEF parentVars
  <2>3. pc \notin Before /\ sig # "errno"
    BY <2>1 DEF PlanInv, Working
  <2>4. QED
    BY <2>1, <2>2, <2>3 DEF PlanInv, Before
<1>10. QED
  BY <1>3, <1>4, <1>5, <1>6, <1>7, <1>8, <1>9 DEF Next, Parent

---------------------------------------------------------------------------
(* The child *)

\* Until there is a child, there is nothing to be shown of it.
LEMMA NoChild == ASSUME PlanInv', cpc' = "none" PROVE ChildInv'
<1>1. verdict' = "none"
  BY DEF PlanInv, Before
<1>2. QED
  BY <1>1 DEF ChildInv, PipeInv, StreamInv, Wired, NoStrayFd, NewsInv, Working

\* Only R makes the signal pipe, before the fork.
LEMMA ClearKept ==
    ASSUME Next, cpc' # "none", PlanInv, TypeOK
    PROVE  (Clear' <=> Clear) /\ UNCHANGED <<error_fd, signal_pipe, parent_end>>
<1>1. UNCHANGED <<req, pty, stdio_count>>
  BY Fixed
<1>2. UNCHANGED <<signal_pipe, parent_end>>
  BY DEF Next, Parent, Child, SignalPipe, StreamPipe, PtyMainOpens, PtyChildOpens, StreamOther,
     ExecFails, StreamsEnd, Fork, ReadSignalPipe, Finish, ChildFails, Setup, WireUse, WireSkips,
     CloseRest, Execvp, LoopEnds, WireOpen, Moved, planVars, childVars, parentVars, PlanInv, Before
<1>3. QED
  BY <1>1, <1>2 DEF Clear, error_fd

\* fork(): the child gets the descriptors that R has prepared.
LEMMA ForkGives ==
    ASSUME TypeOK, ReqInv, PlanInv, Next, Fork, Clear
    PROVE  PipeInv' /\ StreamInv'
<1>1. /\ stdio_count \in Nat /\ DOMAIN req = 0..(stdio_count - 1) /\ stdio_count >= 3
      /\ min_fd \in {0, 3}
  BY Count
<1>2. UNCHANGED <<req, pty, stdio_count, min_fd, parent_end, error_fd>>
  BY Fixed DEF Fork, planVars, error_fd
<1>3. /\ ctab' = Close(ptab, {pty_main_fd}) /\ cx' = pcx /\ cuse' = use /\ cpc' = "setup"
      /\ fd' = min_fd /\ ptab \in [Fd -> File]
  BY DEF Fork, TypeOK
<1>4. \A h \in Fd : ctab'[h] = IF h = pty_main_fd THEN Nothing ELSE ptab[h]
  BY <1>3, Closes
<1>5. /\ error_fd \in Fd /\ ptab[error_fd] = SigW /\ error_fd \in pcx
      /\ pty_main_fd >= 0 => ptab[pty_main_fd] = PtyMain
      /\ \A i \in DOMAIN req : Prepared(i)
  BY <1>1 DEF Fork, PlanInv
<1>6. /\ \A h \in Fd : h >= 0
      /\ \A i \in DOMAIN req : use[i] \in Fd \cup {-1} /\ parent_end[i] \in Fd \cup {-1}
      /\ pty_main_fd \in Fd \cup {-1}
  BY LimitAssumption DEF TypeOK, Fd
<1>7. \A h \in Fd : ptab[h] # PtyMain => ctab'[h] = ptab[h]
  BY <1>4, <1>5, <1>6
<1>8. ctab'[error_fd] = SigW
  <2>1. SigW # PtyMain
    BY Kind
  <2>2. QED
    BY <1>5, <1>7, <2>1
<1>9. ASSUME NEW i \in DOMAIN req
      PROVE  /\ use[i] >= 0 => ctab'[use[i]] = Wanted(i) /\ use[i] # error_fd
             /\ parent_end[i] >= 0 => ctab'[parent_end[i]] = <<"parent", i>>
                                      /\ parent_end[i] # error_fd
             /\ use[i] >= 0 <=> Direct(i)
             /\ pty => (use[i] >= 0 => use[i] > 2) /\ parent_end[i] = -1
  <2>1. Wanted(i) # PtyMain /\ Wanted(i) # SigW
    BY WantedFile
  <2>2. <<"parent", i>> # PtyMain /\ <<"parent", i>> # SigW
    BY Kind
  <2>3. use[i] >= 0 => use[i] \in Fd /\ ptab[use[i]] = Wanted(i)
    BY <1>5, <1>6 DEF Prepared
  <2>4. parent_end[i] >= 0 => parent_end[i] \in Fd /\ ptab[parent_end[i]] = <<"parent", i>>
    BY <1>5, <1>6 DEF Prepared
  <2>5. pty => (use[i] >= 0 => use[i] > 2) /\ parent_end[i] = -1
    <3> SUFFICES ASSUME pty PROVE (use[i] >= 0 => use[i] > 2) /\ parent_end[i] = -1
      OBVIOUS
    <3>1. i < 3 => req[i][1] = "null"
      BY <1>1 DEF ReqInv
    <3>2. parent_end[i] = -1
      BY <1>5, <1>6, <3>1 DEF Prepared
    <3>3. Direct(i) => req[i][1] = "conn"
      BY <1>1, <3>1 DEF ReqInv, Direct
    <3>4. QED
      BY <1>5, <3>2, <3>3 DEF Prepared, Clear
  <2>6. QED
    BY <1>5, <1>7, <1>8, <2>1, <2>2, <2>3, <2>4, <2>5 DEF Prepared
<1>10. \A i : (Wanted(i)' = Wanted(i)) /\ (Direct(i)' <=> Direct(i))
  BY Fixed
<1>11. \A i \in DOMAIN req : cuse'[i] # error_fd /\ parent_end[i] # error_fd
  BY <1>3, <1>5, <1>6, <1>9
<1>12. PipeInv'
  <2>1. \A i \in DOMAIN req : (cuse'[i] >= 0) <=> Direct(i)'
    BY <1>3, <1>9, <1>10
  <2>2. fd' >= min_fd'
    BY <1>1, <1>2, <1>3
  <2>3. error_fd' \in Fd /\ ctab'[error_fd'] = SigW /\ error_fd' \in cx'
    BY <1>2, <1>3, <1>5, <1>8
  <2>4. QED
    BY <1>2, <1>11, <2>1, <2>2, <2>3 DEF PipeInv
<1>13. StreamInv'
  <2>1. \A i \in DOMAIN req : cuse'[i] >= 0 => ctab'[cuse'[i]] = Wanted(i)'
    BY <1>3, <1>9, <1>10
  <2>2. \A i \in DOMAIN req : parent_end[i] >= 0 => ctab'[parent_end[i]] = <<"parent", i>>
    BY <1>9
  <2>3. pty => \A i \in DOMAIN req : (cuse'[i] >= 0 => cuse'[i] > 2) /\ parent_end[i] = -1
    BY <1>3, <1>9
  <2>4. QED
    BY <1>2, <1>3, <2>1, <2>2, <2>3 DEF StreamInv
<1>14. QED
  BY <1>12, <1>13

\* A step of R with a child leaves the child alone, and read() tells the truth.
LEMMA ParentChild ==
    ASSUME TypeOK, ReqInv, PlanInv, PlanInv', ChildInv, Next, Parent
    PROVE  ChildInv'
<1>1. CASE cpc' = "none"
  BY <1>1, NoChild
<1>2. CASE cpc' # "none"
  <2> SUFFICES ASSUME Clear' PROVE PipeInv' /\ StreamInv' /\ Wired' /\ NoStrayFd' /\ NewsInv'
    BY DEF ChildInv
  <2>1. Clear
    BY <1>2, ClearKept
  <2>2. CASE Fork
    <3>1. cpc' = "setup" /\ verdict' = verdict /\ verdict = "none"
      BY <2>2 DEF Fork, PlanInv
    <3>2. QED
      BY <2>1, <2>2, <3>1, ForkGives DEF Wired, NoStrayFd, NewsInv
  <2>3. CASE ~ Fork
    <3>1. /\ UNCHANGED <<childVars, sig>>
          /\ fd' = fd \/ cpc = "none"
          /\ verdict' = verdict \/ ReadSignalPipe
      BY <2>3 DEF Parent, SignalPipe, StreamPipe, PtyMainOpens, PtyChildOpens, StreamOther,
         ExecFails, StreamsEnd, ReadSignalPipe, Finish, PlanInv, Before
    <3>2. fd' = fd /\ UNCHANGED <<ctab, cx, cuse, cpc, sig>>
      BY <1>2, <3>1 DEF childVars
    <3>3. UNCHANGED <<req, pty, stdio_count, min_fd, error_fd, parent_end>>
      BY <1>2, Fixed, ClearKept
    <3>4. \A i : Wanted(i)' = Wanted(i) /\ (Direct(i)' <=> Direct(i)) /\ (Needed(i)' <=> Needed(i))
      BY Fixed
    <3>5. PipeInv /\ StreamInv /\ Wired /\ NoStrayFd /\ NewsInv
      BY <2>1 DEF ChildInv
    <3>6. PipeInv'
      BY <3>2, <3>3, <3>4, <3>5 DEF PipeInv
    <3>7. StreamInv'
      <4>1. \A i : (Placed(i)' <=> Placed(i)) /\ (Ready(i)' <=> Ready(i))
        BY <3>2, <3>4 DEF Placed, Ready
      <4>2. QED
        BY <3>2, <3>3, <3>4, <3>5, <4>1 DEF StreamInv
    <3>8. Wired' /\ NoStrayFd'
      BY <2>1, <3>2, <3>3, <3>4, <3>5 DEF Wired, NoStrayFd
    <3>9. NewsInv'
      <4>1. CASE ReadSignalPipe
        <5>1. /\ verdict' = "failed" => sig = "errno"
              /\ verdict' = "started" => sig # "errno" /\ ~ HasSigW(ctab)
              /\ pc = "read"
          BY <4>1 DEF ReadSignalPipe
        <5>2. verdict' = "started" => cpc \notin Working
          BY <3>5, <5>1 DEF PipeInv, HasSigW
        <5>3. verdict' = "started" => cpc # "dead"
          BY <3>5, <5>1 DEF NewsInv
        <5>4. verdict' = "started" => cpc = "running"
          BY <1>2, <3>2, <5>2, <5>3 DEF TypeOK, Working
        <5>5. verdict' = "failed" => cpc = "dead"
          BY <5>1 DEF PlanInv
        <5>6. QED
          BY <3>2, <3>5, <5>4, <5>5 DEF NewsInv
      <4>2. CASE verdict' = verdict
        BY <3>2, <3>5, <4>2 DEF NewsInv
      <4>3. QED
        BY <3>1, <4>1, <4>2
    <3>10. QED
      BY <3>6, <3>7, <3>8, <3>9
  <2>4. QED
    BY <2>2, <2>3
<1>3. QED
  BY <1>1, <1>2

\* A working child: the numbers of the streams are descriptors below error_fd.
LEMMA ChildFacts ==
    ASSUME TypeOK, Clear, PipeInv, cpc \in Working
    PROVE  /\ stdio_count \in Nat /\ stdio_count >= 3 /\ DOMAIN req = 0..(stdio_count - 1)
           /\ min_fd \in {0, 3} /\ fd \in Nat /\ fd <= stdio_count /\ fd >= min_fd
           /\ MaxFd \in Nat /\ Fd = 0..MaxFd /\ error_fd \in Nat /\ error_fd <= MaxFd
           /\ stdio_count <= error_fd
           /\ ctab[error_fd] = SigW /\ error_fd \in cx
           /\ \A i \in DOMAIN req :
                 i \in Fd /\ cuse[i] \in Fd \cup {-1} /\ parent_end[i] \in Fd \cup {-1}
           /\ \A i \in DOMAIN req : cuse[i] # error_fd /\ parent_end[i] # error_fd
           /\ \A i \in DOMAIN req : cuse[i] >= 0 <=> Direct(i)
           /\ ctab \in [Fd -> File] /\ cx \subseteq Fd
<1>1. /\ stdio_count \in Nat /\ stdio_count >= 3 /\ DOMAIN req = 0..(stdio_count - 1)
      /\ min_fd \in {0, 3} /\ fd \in Nat /\ fd <= stdio_count
  BY Count
<1>2. /\ error_fd \in Fd /\ ctab[error_fd] = SigW /\ error_fd \in cx /\ fd >= min_fd
      /\ \A i \in DOMAIN req : cuse[i] # error_fd /\ parent_end[i] # error_fd
      /\ \A i \in DOMAIN req : cuse[i] >= 0 <=> Direct(i)
  BY DEF PipeInv
<1>3. MaxFd \in Nat /\ Fd = 0..MaxFd
  BY LimitAssumption DEF Fd
<1>4. error_fd \in Nat /\ error_fd <= MaxFd /\ stdio_count <= error_fd
  BY <1>1, <1>2, <1>3 DEF Clear
<1>5. \A i \in DOMAIN req : i \in Fd /\ cuse[i] \in Fd \cup {-1} /\ parent_end[i] \in Fd \cup {-1}
  BY <1>1, <1>3, <1>4 DEF TypeOK
<1>6. QED
  BY <1>1, <1>2, <1>3, <1>4, <1>5 DEF TypeOK

\* A step that leaves error_fd alone, and the descriptors to be used.
LEMMA PipeKept ==
    ASSUME TypeOK, PlanInv, Next, Clear, PipeInv, cpc \in Working, cpc' # "none",
           cuse' = cuse, ctab'[error_fd] = SigW, error_fd \in cx', fd' >= min_fd
    PROVE  PipeInv'
<1>1. UNCHANGED <<req, min_fd, error_fd, parent_end>> /\ \A i : Direct(i)' <=> Direct(i)
  BY Fixed, ClearKept
<1>2. QED
  BY <1>1 DEF PipeInv

\* setsid() and the pty.
LEMMA SetupStep ==
    ASSUME TypeOK, ReqInv, PlanInv, Next, Clear, PipeInv, StreamInv, Setup
    PROVE  PipeInv' /\ StreamInv'
<1>1. /\ cpc = "setup" /\ cpc' = "move" /\ UNCHANGED <<cuse, fd>> /\ cpc \in Working /\ cpc' # "none"
  BY DEF Setup, Working
<1>2. /\ stdio_count \in Nat /\ stdio_count >= 3 /\ DOMAIN req = 0..(stdio_count - 1)
      /\ min_fd \in {0, 3} /\ fd >= min_fd /\ Fd = 0..MaxFd /\ stdio_count <= error_fd
      /\ error_fd \in Nat /\ error_fd \in Fd /\ ctab[error_fd] = SigW /\ error_fd \in cx
      /\ \A i \in DOMAIN req : i \in Fd /\ cuse[i] \in Fd \cup {-1} /\ parent_end[i] \in Fd \cup {-1}
  BY <1>1, ChildFacts
<1>3. UNCHANGED <<req, pty, stdio_count, min_fd, error_fd, parent_end>>
  BY <1>1, Fixed, ClearKept
<1>4. \A i : Wanted(i)' = Wanted(i)
  BY Fixed
<1>5. /\ \A i \in DOMAIN req : cuse[i] >= 0 => ctab[cuse[i]] = Wanted(i)
      /\ \A i \in DOMAIN req : parent_end[i] >= 0 => ctab[parent_end[i]] = <<"parent", i>>
      /\ pty => \A i \in DOMAIN req : (cuse[i] >= 0 => cuse[i] > 2) /\ parent_end[i] = -1
      /\ fd = min_fd
  BY <1>1 DEF StreamInv
<1>6. CASE pty
  <2>1. ctab' = [g \in Fd |-> IF g \in 0..2 THEN PtySub ELSE ctab[g]] /\ cx' = cx \ 0..2
    BY <1>6 DEF Setup
  <2>2. ctab'[error_fd] = SigW /\ error_fd \in cx'
    BY <1>2, <2>1
  <2>3. PipeInv'
    BY <1>1, <1>2, <2>2, PipeKept
  <2>4. \A i \in DOMAIN req : cuse[i] >= 0 => ctab'[cuse[i]] = Wanted(i)
    <3> SUFFICES ASSUME NEW i \in DOMAIN req, cuse[i] >= 0 PROVE ctab'[cuse[i]] = Wanted(i)
      OBVIOUS
    <3>1. cuse[i] \in Fd /\ cuse[i] \notin 0..2
      BY <1>2, <1>5, <1>6
    <3>2. QED
      BY <1>5, <2>1, <3>1
  <2>5. \A i \in DOMAIN req : ~ (parent_end[i] >= 0)
    BY <1>5, <1>6
  <2>6. \A i \in 0..2 : Placed(i)'
    <3> SUFFICES ASSUME NEW i \in 0..2 PROVE Placed(i)'
      OBVIOUS
    <3>1. i \in DOMAIN req /\ i \in Fd /\ i < 3
      BY <1>2
    <3>2. req[i][1] = "null"
      BY <1>6 DEF ReqInv
    <3>3. Wanted(i) = PtySub
      BY <1>6, <3>1, <3>2 DEF Wanted
    <3>4. ctab'[i] = PtySub /\ i \notin cx'
      BY <2>1, <3>1
    <3>5. QED
      BY <1>4, <3>3, <3>4 DEF Placed
  <2>7. min_fd..(fd - 1) = {}
    BY <1>2, <1>5
  <2>8. StreamInv'
    BY <1>1, <1>3, <1>4, <2>4, <2>5, <2>6, <2>7 DEF StreamInv
  <2>9. QED
    BY <2>3, <2>8
<1>7. CASE ~ pty
  <2>1. UNCHANGED <<ctab, cx>>
    BY <1>7 DEF Setup
  <2>2. PipeInv'
    BY <1>1, <1>2, <2>1, PipeKept
  <2>3. min_fd..(fd - 1) = {}
    BY <1>2, <1>5
  <2>4. StreamInv'
    BY <1>1, <1>3, <1>4, <1>5, <1>7, <2>1, <2>3 DEF StreamInv
  <2>5. QED
    BY <2>2, <2>4
<1>8. QED
  BY <1>6, <1>7

\* The first loop: what is moved goes to a free descriptor above all streams.
LEMMA MovedStep ==
    ASSUME TypeOK, ReqInv, PlanInv, Next, Clear, PipeInv, StreamInv,
           NEW f \in Fd \cup {-1}, Moved(f)
    PROVE  PipeInv' /\ StreamInv'
<1>1. /\ cpc = "move" /\ cpc' = "move" /\ fd' = fd + 1 /\ fd < stdio_count
      /\ cpc \in Working /\ cpc' # "none"
  BY DEF Moved, Working
<1>2. /\ stdio_count \in Nat /\ stdio_count >= 3 /\ DOMAIN req = 0..(stdio_count - 1)
      /\ min_fd \in {0, 3} /\ fd \in Nat /\ fd >= min_fd /\ Fd = 0..MaxFd /\ stdio_count <= error_fd
      /\ error_fd \in Fd /\ ctab[error_fd] = SigW /\ error_fd \in cx
      /\ \A i \in DOMAIN req : i \in Fd /\ cuse[i] \in Fd \cup {-1} /\ parent_end[i] \in Fd \cup {-1}
      /\ \A i \in DOMAIN req : cuse[i] # error_fd /\ parent_end[i] # error_fd
      /\ \A i \in DOMAIN req : cuse[i] >= 0 <=> Direct(i)
      /\ ctab \in [Fd -> File]
  BY <1>1, ChildFacts
<1>3. UNCHANGED <<req, pty, stdio_count, min_fd, error_fd, parent_end>>
  BY <1>1, Fixed, ClearKept
<1>4. \A i : Wanted(i)' = Wanted(i) /\ (Direct(i)' <=> Direct(i))
  BY Fixed
<1>5. /\ \A i \in DOMAIN req : cuse[i] >= 0 => ctab[cuse[i]] = Wanted(i)
      /\ \A i \in DOMAIN req : parent_end[i] >= 0 => ctab[parent_end[i]] = <<"parent", i>>
      /\ \A i \in min_fd..(fd - 1) : cuse[i] >= 0 => cuse[i] >= i
      /\ pty => \A i \in 0..2 : Placed(i)
  BY <1>1 DEF StreamInv
<1>6. fd \in DOMAIN req /\ min_fd..(fd' - 1) \subseteq DOMAIN req
  BY <1>1, <1>2
<1>7. CASE cuse[fd] \in 0..(fd - 1)
  <2>1. /\ f \in Fd /\ ctab[f] = Nothing /\ f >= stdio_count /\ cx' = cx \ {f}
        /\ ctab' = [ctab EXCEPT ![f] = ctab[cuse[fd]]]
        /\ cuse' = [cuse EXCEPT ![fd] = f] /\ cuse \in [DOMAIN req -> Fd \cup {-1}]
        /\ cuse[fd] >= 0
    BY <1>2, <1>6, <1>7 DEF Moved, Lowest, Dup2, TypeOK
  <2>2. /\ ctab'[f] = Wanted(fd) /\ \A h \in Fd : h # f => ctab'[h] = ctab[h]
        /\ cuse'[fd] = f /\ \A i \in DOMAIN req : i # fd => cuse'[i] = cuse[i]
    BY <1>2, <1>5, <1>6, <2>1
  <2>3. f # error_fd
    BY <1>2, <2>1, Kind
  <2>4. ctab'[error_fd] = SigW /\ error_fd \in cx'
    BY <1>2, <2>1, <2>2, <2>3
  <2>5. \A i \in DOMAIN req : cuse'[i] >= 0 => ctab'[cuse'[i]] = Wanted(i)
    <3> SUFFICES ASSUME NEW i \in DOMAIN req, cuse'[i] >= 0 PROVE ctab'[cuse'[i]] = Wanted(i)
      OBVIOUS
    <3>1. CASE i = fd
      BY <2>2, <3>1
    <3>2. CASE i # fd
      <4>1. cuse'[i] = cuse[i] /\ cuse[i] \in Fd /\ ctab[cuse[i]] = Wanted(i)
        BY <1>2, <1>5, <2>2, <3>2
      <4>2. Wanted(i) # Nothing
        BY WantedFile
      <4>3. QED
        BY <2>1, <2>2, <4>1, <4>2
    <3>3. QED
      BY <3>1, <3>2
  <2>6. \A i \in DOMAIN req : parent_end[i] >= 0 => ctab'[parent_end[i]] = <<"parent", i>>
    <3> SUFFICES ASSUME NEW i \in DOMAIN req, parent_end[i] >= 0
                 PROVE  ctab'[parent_end[i]] = <<"parent", i>>
      OBVIOUS
    <3>1. parent_end[i] \in Fd /\ ctab[parent_end[i]] = <<"parent", i>>
      BY <1>2, <1>5
    <3>2. <<"parent", i>> # Nothing
      BY Kind
    <3>3. QED
      BY <2>1, <2>2, <3>1, <3>2
  <2>7. \A i \in min_fd..(fd' - 1) : cuse'[i] >= 0 => cuse'[i] >= i
    <3> SUFFICES ASSUME NEW i \in min_fd..(fd' - 1), cuse'[i] >= 0 PROVE cuse'[i] >= i
      OBVIOUS
    <3>1. CASE i = fd
      BY <1>1, <1>2, <2>1, <2>2, <3>1
    <3>2. CASE i # fd
      <4>1. i \in min_fd..(fd - 1) /\ i \in DOMAIN req
        BY <1>1, <1>2, <1>6, <3>2
      <4>2. QED
        BY <1>5, <2>2, <3>2, <4>1
    <3>3. QED
      BY <3>1, <3>2
  <2>8. pty => \A i \in 0..2 : Placed(i)'
    <3> SUFFICES ASSUME pty, NEW i \in 0..2 PROVE Placed(i)'
      OBVIOUS
    <3>1. i \in DOMAIN req /\ f \in Nat
      BY <1>2, <2>1, LimitAssumption DEF Fd
    <3>2. i \in Fd /\ i # f
      <4>1. i \in Fd
        BY <1>2, <3>1
      <4>2. f >= stdio_count /\ stdio_count >= 3 /\ stdio_count \in Nat
        BY <1>2, <2>1
      <4>3. QED
        BY <3>1, <4>1, <4>2
    <3>3. Placed(i)
      BY <1>5
    <3>4. QED
      BY <1>4, <2>1, <2>2, <3>2, <3>3 DEF Placed
  <2>9. PipeInv'
    <3>1. \A i \in DOMAIN req : cuse'[i] # error_fd /\ ((cuse'[i] >= 0) <=> Direct(i))
      BY <1>2, <2>1, <2>2, <2>3
    <3>2. fd' >= min_fd
      BY <1>1, <1>2
    <3>3. QED
      BY <1>2, <1>3, <1>4, <2>4, <3>1, <3>2 DEF PipeInv
  <2>10. StreamInv'
    BY <1>1, <1>3, <1>4, <2>5, <2>6, <2>7, <2>8 DEF StreamInv
  <2>11. QED
    BY <2>9, <2>10
<1>8. CASE cuse[fd] \notin 0..(fd - 1)
  <2>1. UNCHANGED <<ctab, cx, cuse>>
    BY <1>8 DEF Moved
  <2>2. fd' >= min_fd
    BY <1>1, <1>2
  <2>3. PipeInv'
    BY <1>1, <1>2, <2>1, <2>2, PipeKept
  <2>4. \A i \in min_fd..(fd' - 1) : cuse[i] >= 0 => cuse[i] >= i
    <3> SUFFICES ASSUME NEW i \in min_fd..(fd' - 1), cuse[i] >= 0 PROVE cuse[i] >= i
      OBVIOUS
    <3>1. CASE i = fd
      BY <1>2, <1>6, <1>8, <3>1
    <3>2. CASE i # fd
      <4>1. i \in min_fd..(fd - 1)
        BY <1>1, <1>2, <1>6, <3>2
      <4>2. QED
        BY <1>5, <4>1
    <3>3. QED
      BY <3>1, <3>2
  <2>5. \A i : Placed(i)' <=> Placed(i)
    BY <1>4, <2>1 DEF Placed
  <2>6. StreamInv'
    BY <1>1, <1>3, <1>4, <1>5, <2>1, <2>4, <2>5 DEF StreamInv
  <2>7. QED
    BY <2>3, <2>6
<1>9. QED
  BY <1>7, <1>8

\* The first loop ends: what is R's end of a pipe is not what a stream uses.
LEMMA MoveEnds ==
    ASSUME TypeOK, ReqInv, PlanInv, Next, Clear, PipeInv, StreamInv, LoopEnds("move", "wire")
    PROVE  PipeInv' /\ StreamInv'
<1>1. /\ cpc = "move" /\ cpc' = "wire" /\ fd' = min_fd /\ fd = stdio_count
      /\ UNCHANGED <<ctab, cx, cuse>> /\ cpc \in Working /\ cpc' # "none"
  BY DEF LoopEnds, Working
<1>2. /\ stdio_count \in Nat /\ DOMAIN req = 0..(stdio_count - 1) /\ min_fd \in {0, 3}
      /\ ctab[error_fd] = SigW /\ error_fd \in cx
  BY <1>1, ChildFacts
<1>3. UNCHANGED <<req, pty, stdio_count, min_fd, error_fd, parent_end>>
  BY <1>1, Fixed, ClearKept
<1>4. \A i : Wanted(i)' = Wanted(i) /\ (Placed(i)' <=> Placed(i)) /\ (Ready(i)' <=> Ready(i))
  BY <1>1, Fixed DEF Placed, Ready
<1>5. /\ \A i \in DOMAIN req : cuse[i] >= 0 => ctab[cuse[i]] = Wanted(i)
      /\ \A i \in DOMAIN req : parent_end[i] >= 0 => ctab[parent_end[i]] = <<"parent", i>>
      /\ \A i \in min_fd..(stdio_count - 1) : cuse[i] >= 0 => cuse[i] >= i
      /\ pty => \A i \in 0..2 : Placed(i)
  BY <1>1 DEF StreamInv
<1>6. PipeInv'
  <2>1. fd' >= min_fd
    BY <1>1, <1>2
  <2>2. QED
    BY <1>1, <1>2, <2>1, PipeKept
<1>7. \A i \in min_fd..(stdio_count - 1) : cuse[i] >= 0 => Ready(i)
  BY <1>2, <1>5 DEF Ready
<1>8. \A i, j \in DOMAIN req : cuse[i] >= 0 => cuse[i] # parent_end[j]
  <2> SUFFICES ASSUME NEW i \in DOMAIN req, NEW j \in DOMAIN req, cuse[i] >= 0
               PROVE  cuse[i] # parent_end[j]
    OBVIOUS
  <2>1. Wanted(i) # <<"parent", j>>
    BY WantedFile
  <2>2. QED
    BY <1>5, <2>1
<1>9. min_fd..(min_fd - 1) = {}
  BY <1>2
<1>10. StreamInv'
  BY <1>1, <1>3, <1>4, <1>5, <1>7, <1>8, <1>9 DEF StreamInv
<1>11. QED
  BY <1>6, <1>10

\* A round of the second loop: the stream gets its place, and neither a stream
\* that has its place nor what another one is going to use is touched.
LEMMA WireRound ==
    ASSUME TypeOK, PlanInv, Next, Clear, PipeInv, StreamInv, cpc = "wire", cpc' = "wire",
           fd < stdio_count, fd' = fd + 1, cuse' = cuse,
           ctab'[error_fd] = SigW, error_fd \in cx',
           Needed(fd) => ctab'[fd] = Wanted(fd) /\ fd \notin cx',
           \A i \in 0..(fd - 1) : Placed(i) => ctab'[i] = ctab[i] /\ i \notin cx',
           \A i \in (fd + 1)..(stdio_count - 1) : Ready(i) => ctab'[cuse[i]] = ctab[cuse[i]]
    PROVE  PipeInv' /\ StreamInv'
<1>1. cpc \in Working /\ cpc' # "none"
  BY DEF Working
<1>2. /\ stdio_count \in Nat /\ DOMAIN req = 0..(stdio_count - 1) /\ min_fd \in {0, 3}
      /\ fd \in Nat /\ fd >= min_fd
  BY <1>1, ChildFacts
<1>3. UNCHANGED <<req, pty, stdio_count, min_fd, error_fd, parent_end>>
  BY <1>1, Fixed, ClearKept
<1>4. \A i : Wanted(i)' = Wanted(i) /\ (Needed(i)' <=> Needed(i))
  BY Fixed
<1>5. PipeInv'
  <2>1. fd' >= min_fd
    BY <1>2
  <2>2. QED
    BY <1>1, <2>1, PipeKept
<1>6. /\ \A i \in fd..(stdio_count - 1) : cuse[i] >= 0 => Ready(i)
      /\ \A i \in min_fd..(fd - 1) : Needed(i) => Placed(i)
      /\ \A i, j \in DOMAIN req : cuse[i] >= 0 => cuse[i] # parent_end[j]
      /\ pty => \A i \in 0..2 : Placed(i)
  BY DEF StreamInv
<1>7. ASSUME NEW i \in 0..(fd - 1), Placed(i) PROVE Placed(i)'
  BY <1>4, <1>7 DEF Placed
<1>8. \A i \in fd'..(stdio_count - 1) : cuse[i] >= 0 => Ready(i)'
  <2> SUFFICES ASSUME NEW i \in fd'..(stdio_count - 1), cuse[i] >= 0 PROVE Ready(i)'
    OBVIOUS
  <2>1. i \in (fd + 1)..(stdio_count - 1) /\ i \in fd..(stdio_count - 1)
    BY <1>2
  <2>2. Ready(i)
    BY <1>6, <2>1
  <2>3. ctab'[cuse[i]] = ctab[cuse[i]]
    BY <2>1, <2>2
  <2>4. QED
    BY <1>4, <2>2, <2>3 DEF Ready
<1>9. \A i \in min_fd..(fd' - 1) : Needed(i) => Placed(i)'
  <2> SUFFICES ASSUME NEW i \in min_fd..(fd' - 1), Needed(i) PROVE Placed(i)'
    OBVIOUS
  <2>1. CASE i = fd
    BY <1>4, <2>1 DEF Placed
  <2>2. CASE i # fd
    <3>1. i \in min_fd..(fd - 1) /\ i \in 0..(fd - 1)
      BY <1>2, <2>2
    <3>2. Placed(i)
      BY <1>6, <3>1
    <3>3. QED
      BY <1>7, <3>1, <3>2
  <2>3. QED
    BY <2>1, <2>2
<1>10. pty => \A i \in 0..2 : Placed(i)'
  <2> SUFFICES ASSUME pty, NEW i \in 0..2 PROVE Placed(i)'
    OBVIOUS
  <2>1. min_fd = 3
    BY DEF min_fd
  <2>2. i \in 0..(fd - 1)
    BY <1>2, <2>1
  <2>3. QED
    BY <1>6, <1>7, <2>2
<1>11. StreamInv'
  BY <1>3, <1>4, <1>6, <1>8, <1>9, <1>10 DEF StreamInv
<1>12. QED
  BY <1>5, <1>11

\* dup2() in the second loop.
LEMMA WireUseStep ==
    ASSUME TypeOK, ReqInv, PlanInv, Next, Clear, PipeInv, StreamInv, WireUse
    PROVE  PipeInv' /\ StreamInv'
<1> DEFINE use_fd == IF Same THEN 1 ELSE cuse[fd]
           t == Dup2(ctab, use_fd, fd)
           S == {parent_end[fd]} \cap stdio_count..MaxFd
<1>1. /\ cpc = "wire" /\ cpc' = "wire" /\ fd' = fd + 1 /\ fd < stdio_count /\ cuse' = cuse
      /\ cx' = cx \ {fd} /\ ctab' = Close(t, S)
      /\ cuse[fd] >= 0 \/ Same
      /\ cpc \in Working
  BY DEF WireUse, Working
<1>2. /\ stdio_count \in Nat /\ stdio_count >= 3 /\ DOMAIN req = 0..(stdio_count - 1)
      /\ min_fd \in {0, 3} /\ fd \in Nat /\ fd >= min_fd /\ Fd = 0..MaxFd /\ stdio_count <= error_fd
      /\ error_fd \in Fd /\ error_fd \in Nat /\ ctab[error_fd] = SigW /\ error_fd \in cx
      /\ \A i \in DOMAIN req : i \in Fd /\ cuse[i] \in Fd \cup {-1} /\ parent_end[i] \in Fd \cup {-1}
      /\ \A i \in DOMAIN req : cuse[i] # error_fd /\ parent_end[i] # error_fd
      /\ ctab \in [Fd -> File]
  BY <1>1, ChildFacts
<1>3. /\ \A i \in fd..(stdio_count - 1) : cuse[i] >= 0 => Ready(i)
      /\ \A i \in min_fd..(fd - 1) : Needed(i) => Placed(i)
      /\ \A i, j \in DOMAIN req : cuse[i] >= 0 => cuse[i] # parent_end[j]
  BY <1>1 DEF StreamInv
<1>4. fd \in DOMAIN req /\ fd \in Fd /\ fd \in fd..(stdio_count - 1) /\ fd \notin S
  <2>1. fd \in DOMAIN req /\ fd \in fd..(stdio_count - 1) /\ fd \notin stdio_count..MaxFd
    BY <1>1, <1>2
  <2>2. QED
    BY <1>2, <2>1
<1>5. use_fd \in Fd /\ ctab[use_fd] = Wanted(fd)
  <2>1. CASE Same
    <3>1. fd = 2 /\ req[2][1] = "2>&1" /\ use_fd = 1
      BY <2>1 DEF Same
    <3>2. ~ pty
      BY <3>1 DEF ReqInv
    <3>3. min_fd = 0
      BY <3>2 DEF min_fd
    <3>4. 1 \in min_fd..(fd - 1) /\ 1 \in DOMAIN req /\ Needed(1)
      BY <1>2, <3>1, <3>3 DEF Needed
    <3>5. ctab[1] = Wanted(1) /\ 1 \in Fd
      BY <1>2, <1>3, <3>4 DEF Placed
    <3>6. Wanted(2) = Wanted(1)
      BY <3>1, <3>2 DEF Wanted, ReqInv
    <3>7. QED
      BY <3>1, <3>5, <3>6
  <2>2. CASE ~ Same
    <3>1. use_fd = cuse[fd] /\ cuse[fd] >= 0
      BY <1>1, <2>2
    <3>2. Ready(fd) /\ cuse[fd] \in Fd
      BY <1>2, <1>3, <1>4, <3>1
    <3>3. QED
      BY <3>1, <3>2 DEF Ready
  <2>3. QED
    BY <2>1, <2>2
<1> HIDE DEF use_fd
<1>6. t \in [Fd -> File] /\ \A h \in Fd : t[h] = IF h = fd THEN Wanted(fd) ELSE ctab[h]
  BY <1>2, <1>4, <1>5 DEF Dup2
<1> HIDE DEF t
<1>7. \A h \in Fd : ctab'[h] = IF h \in S THEN Nothing ELSE IF h = fd THEN Wanted(fd) ELSE ctab[h]
  BY <1>1, <1>6, Closes
<1>8. ctab'[error_fd] = SigW /\ error_fd \in cx'
  <2>1. error_fd # fd /\ error_fd \notin S
    BY <1>1, <1>2, <1>4
  <2>2. QED
    BY <1>1, <1>2, <1>7, <2>1
<1>9. ctab'[fd] = Wanted(fd) /\ fd \notin cx'
  BY <1>1, <1>4, <1>7
<1>10. \A i \in 0..(fd - 1) : Placed(i) => ctab'[i] = ctab[i] /\ i \notin cx'
  <2> SUFFICES ASSUME NEW i \in 0..(fd - 1), Placed(i) PROVE ctab'[i] = ctab[i] /\ i \notin cx'
    OBVIOUS
  <2>1. i \in DOMAIN req /\ i # fd /\ i \notin S
    BY <1>1, <1>2
  <2>2. i \in Fd /\ i \notin cx
    BY <1>2, <2>1 DEF Placed
  <2>3. QED
    BY <1>1, <1>7, <2>1, <2>2
<1>11. \A i \in (fd + 1)..(stdio_count - 1) : Ready(i) => ctab'[cuse[i]] = ctab[cuse[i]]
  <2> SUFFICES ASSUME NEW i \in (fd + 1)..(stdio_count - 1), Ready(i)
               PROVE  ctab'[cuse[i]] = ctab[cuse[i]]
    OBVIOUS
  <2>1. i \in DOMAIN req /\ i > fd
    BY <1>1, <1>2
  <2>2. cuse[i] \in Fd /\ cuse[i] > fd /\ cuse[i] >= 0
    BY <1>2, <2>1 DEF Ready
  <2>3. cuse[i] # parent_end[fd]
    BY <1>3, <1>4, <2>1, <2>2
  <2>4. cuse[i] \notin S /\ cuse[i] # fd
    BY <1>2, <2>2, <2>3
  <2>5. QED
    BY <1>7, <2>2, <2>4
<1>12. QED
  BY <1>1, <1>8, <1>9, <1>10, <1>11, WireRound

\* open() in the second loop.
LEMMA WireOpenStep ==
    ASSUME TypeOK, ReqInv, PlanInv, Next, Clear, PipeInv, StreamInv, NEW f \in Fd, WireOpen(f)
    PROVE  PipeInv' /\ StreamInv'
<1> DEFINE file == Opened(fd, IF req[fd][1] = "file" THEN "file" ELSE "null")
           t == [ctab EXCEPT ![f] = file, ![fd] = file]
           S == {f} \cap stdio_count..MaxFd
<1>1. /\ cpc = "wire" /\ cpc' = "wire" /\ fd' = fd + 1 /\ fd < stdio_count /\ cuse' = cuse
      /\ cx' = cx \ {f, fd} /\ ctab' = Close(t, S) /\ fd < 3 /\ cuse[fd] = -1 /\ ~ Same
      /\ ctab[f] = Nothing
      /\ cpc \in Working
  BY DEF WireOpen, Working, Lowest
<1>2. /\ stdio_count \in Nat /\ stdio_count >= 3 /\ DOMAIN req = 0..(stdio_count - 1)
      /\ min_fd \in {0, 3} /\ fd \in Nat /\ fd >= min_fd /\ Fd = 0..MaxFd /\ stdio_count <= error_fd
      /\ error_fd \in Fd /\ error_fd \in Nat /\ ctab[error_fd] = SigW /\ error_fd \in cx
      /\ \A i \in DOMAIN req : i \in Fd /\ cuse[i] \in Fd \cup {-1}
      /\ \A i \in DOMAIN req : cuse[i] >= 0 <=> Direct(i)
      /\ ctab \in [Fd -> File]
  BY <1>1, ChildFacts
<1>3. fd \in DOMAIN req /\ fd \in Fd /\ fd \notin S /\ fd \in 0..2
  BY <1>1, <1>2
<1>4. ~ pty
  BY <1>1, <1>2 DEF min_fd
<1>5. file = Wanted(fd)
  <2>1. ~ Direct(fd)
    BY <1>1, <1>2, <1>3
  <2>2. req[fd][1] # "2>&1"
    <3>1. fd = 0 \/ fd = 1 \/ fd = 2
      BY <1>3
    <3>2. QED
      BY <1>1, <3>1 DEF ReqInv, Same
  <2>3. QED
    BY <1>4, <2>1, <2>2 DEF Wanted, Direct
<1>6. file \in File
  <2>1. file = <<"file", fd>> \/ file = <<"null", fd>>
    BY DEF Opened
  <2>2. QED
    BY <1>3, <2>1, IsFile
<1> HIDE DEF file
<1>7. t \in [Fd -> File] /\ \A h \in Fd : t[h] = IF h = f \/ h = fd THEN file ELSE ctab[h]
  BY <1>2, <1>3, <1>6
<1> HIDE DEF t
<1>8. \A h \in Fd : ctab'[h] = IF h \in S THEN Nothing
                               ELSE IF h = f \/ h = fd THEN file ELSE ctab[h]
  BY <1>1, <1>7, Closes
<1>9. ctab'[error_fd] = SigW /\ error_fd \in cx'
  <2>1. SigW # Nothing
    BY Kind
  <2>2. error_fd # fd /\ error_fd # f
    BY <1>1, <1>2, <2>1
  <2>3. error_fd \notin S
    BY <2>2
  <2>4. QED
    BY <1>1, <1>2, <1>8, <2>2, <2>3
<1>10. ctab'[fd] = Wanted(fd) /\ fd \notin cx'
  BY <1>1, <1>3, <1>5, <1>8
<1>11. \A i \in 0..(fd - 1) : Placed(i) => ctab'[i] = ctab[i] /\ i \notin cx'
  <2> SUFFICES ASSUME NEW i \in 0..(fd - 1), Placed(i) PROVE ctab'[i] = ctab[i] /\ i \notin cx'
    OBVIOUS
  <2>1. i \in DOMAIN req /\ i # fd
    BY <1>1, <1>2
  <2>2. i \in Fd /\ i \notin cx /\ ctab[i] = Wanted(i)
    BY <1>2, <2>1 DEF Placed
  <2>3. Wanted(i) # Nothing
    BY WantedFile
  <2>4. i # f /\ i \notin S
    BY <1>1, <2>2, <2>3
  <2>5. QED
    BY <1>1, <1>8, <2>1, <2>2, <2>4
<1>12. \A i \in (fd + 1)..(stdio_count - 1) : Ready(i) => ctab'[cuse[i]] = ctab[cuse[i]]
  <2> SUFFICES ASSUME NEW i \in (fd + 1)..(stdio_count - 1), Ready(i)
               PROVE  ctab'[cuse[i]] = ctab[cuse[i]]
    OBVIOUS
  <2>1. i \in DOMAIN req /\ i > fd
    BY <1>1, <1>2
  <2>2. cuse[i] \in Fd /\ cuse[i] > fd /\ ctab[cuse[i]] = Wanted(i)
    BY <1>2, <2>1 DEF Ready
  <2>3. Wanted(i) # Nothing
    BY WantedFile
  <2>4. cuse[i] # f /\ cuse[i] # fd /\ cuse[i] \notin S
    BY <1>1, <1>2, <2>2, <2>3
  <2>5. QED
    BY <1>8, <2>2, <2>4
<1>13. QED
  BY <1>1, <1>9, <1>10, <1>11, <1>12, WireRound

\* An extra connection that was closed needs no place.
LEMMA WireSkipsStep ==
    ASSUME TypeOK, ReqInv, PlanInv, Next, Clear, PipeInv, StreamInv, WireSkips
    PROVE  PipeInv' /\ StreamInv'
<1>1. /\ cpc = "wire" /\ cpc' = "wire" /\ fd' = fd + 1 /\ fd < stdio_count /\ fd >= 3
      /\ cuse[fd] = -1 /\ UNCHANGED <<ctab, cx, cuse>> /\ cpc \in Working
  BY DEF WireSkips, Working
<1>2. /\ stdio_count \in Nat /\ DOMAIN req = 0..(stdio_count - 1) /\ fd \in Nat
      /\ ctab[error_fd] = SigW /\ error_fd \in cx
      /\ \A i \in DOMAIN req : cuse[i] >= 0 <=> Direct(i)
  BY <1>1, ChildFacts
<1>3. fd \in DOMAIN req
  BY <1>1, <1>2
<1>4. ~ Direct(fd)
  BY <1>1, <1>2, <1>3
<1>5. ~ Needed(fd)
  BY <1>1, <1>2, <1>4 DEF Direct, Needed
<1>6. \A i \in 0..(fd - 1) : Placed(i) => ctab'[i] = ctab[i] /\ i \notin cx'
  BY <1>1 DEF Placed
<1>7. \A i \in (fd + 1)..(stdio_count - 1) : Ready(i) => ctab'[cuse[i]] = ctab[cuse[i]]
  BY <1>1
<1>8. ctab'[error_fd] = SigW /\ error_fd \in cx'
  BY <1>1, <1>2
<1>9. QED
  BY <1>1, <1>5, <1>6, <1>7, <1>8, WireRound

\* The second loop ends: all streams have their places.
LEMMA WireEnds ==
    ASSUME TypeOK, ReqInv, PlanInv, Next, Clear, PipeInv, StreamInv, LoopEnds("wire", "close")
    PROVE  PipeInv' /\ StreamInv'
<1>1. /\ cpc = "wire" /\ cpc' = "close" /\ fd' = min_fd /\ fd = stdio_count
      /\ UNCHANGED <<ctab, cx, cuse>> /\ cpc \in Working /\ cpc' # "none"
  BY DEF LoopEnds, Working
<1>2. /\ stdio_count \in Nat /\ DOMAIN req = 0..(stdio_count - 1) /\ min_fd \in {0, 3}
      /\ ctab[error_fd] = SigW /\ error_fd \in cx
  BY <1>1, ChildFacts
<1>3. UNCHANGED <<req, pty, stdio_count, min_fd, error_fd, parent_end>>
  BY <1>1, Fixed, ClearKept
<1>4. \A i : (Placed(i)' <=> Placed(i)) /\ (Needed(i)' <=> Needed(i))
  BY <1>1, Fixed DEF Placed
<1>5. PipeInv'
  <2>1. fd' >= min_fd
    BY <1>1, <1>2
  <2>2. QED
    BY <1>1, <1>2, <2>1, PipeKept
<1>6. ASSUME NEW i \in DOMAIN req, Needed(i) PROVE Placed(i)
  <2>1. CASE i \in min_fd..(stdio_count - 1)
    BY <1>1, <1>6, <2>1 DEF StreamInv
  <2>2. CASE i \notin min_fd..(stdio_count - 1)
    <3>1. min_fd = 3 /\ i \in 0..2
      BY <1>2, <2>2
    <3>2. pty
      BY <3>1 DEF min_fd
    <3>3. QED
      BY <1>1, <3>1, <3>2 DEF StreamInv
  <2>3. QED
    BY <2>1, <2>2
<1>7. StreamInv'
  BY <1>1, <1>3, <1>4, <1>6 DEF StreamInv
<1>8. QED
  BY <1>5, <1>7

\* The closing loops spare the streams and error_fd, and nothing else that is
\* not above the limit.
LEMMA CloseRestStep ==
    ASSUME TypeOK, ReqInv, PlanInv, Next, Clear, PipeInv, StreamInv, CloseRest
    PROVE  PipeInv' /\ StreamInv'
<1> DEFINE used == {cuse[i] : i \in DOMAIN req \ 0..(min_fd - 1)} \cap stdio_count..MaxFd
           below == stdio_count..(error_fd - 1)
           above == {f \in Fd : f > error_fd /\ ~ Gap(Close(ctab, used \cup below), f)}
           S == used \cup below \cup above
<1>1. /\ cpc = "close" /\ cpc' = "exec" /\ ctab' = Close(ctab, S) /\ UNCHANGED <<cx, cuse, fd>>
      /\ cpc \in Working /\ cpc' # "none"
  BY DEF CloseRest, Working
<1>2. /\ stdio_count \in Nat /\ DOMAIN req = 0..(stdio_count - 1)
      /\ fd >= min_fd /\ Fd = 0..MaxFd /\ MaxFd \in Nat /\ stdio_count <= error_fd
      /\ error_fd \in Fd /\ error_fd \in Nat /\ ctab[error_fd] = SigW /\ error_fd \in cx
      /\ \A i \in DOMAIN req : i \in Fd
      /\ \A i \in DOMAIN req : cuse[i] # error_fd
      /\ ctab \in [Fd -> File]
  BY <1>1, ChildFacts
<1>3. UNCHANGED <<req, pty, stdio_count, min_fd, error_fd, parent_end>>
  BY <1>1, Fixed, ClearKept
<1>4. \A i : Wanted(i)' = Wanted(i) /\ (Needed(i)' <=> Needed(i))
  BY Fixed
<1>5. error_fd \notin S /\ \A i \in DOMAIN req : i \notin S
  <2>1. error_fd \notin used
    BY <1>2
  <2>2. error_fd \notin below \cup above
    BY <1>2
  <2>3. \A i \in DOMAIN req : i \notin stdio_count..MaxFd /\ i \notin below /\ ~ (i > error_fd)
    BY <1>2
  <2>4. QED
    BY <2>1, <2>2, <2>3
<1>6. \A f \in stdio_count..MaxFd : f <= CloseLimit /\ f # error_fd => f \in S /\ f \in Fd
  <2> SUFFICES ASSUME NEW f \in stdio_count..MaxFd, f <= CloseLimit, f # error_fd
               PROVE  f \in S /\ f \in Fd
    OBVIOUS
  <2>1. f \in Fd
    BY <1>2
  <2>2. CASE f < error_fd
    BY <1>2, <2>1, <2>2
  <2>3. CASE f > error_fd
    <3> DEFINE tab == Close(ctab, used \cup below)
    <3> HIDE DEF tab
    <3>1. ~ Gap(tab, f)
      BY <1>2, <2>1, LimitAssumption DEF Gap
    <3>2. QED
      BY <2>1, <2>3, <3>1 DEF tab
  <2>4. QED
    BY <1>2, <2>1, <2>2, <2>3
<1> HIDE DEF S
<1>7. \A h \in Fd : ctab'[h] = IF h \in S THEN Nothing ELSE ctab[h]
  <2>1. ctab' = Close(ctab, S) /\ ctab \in [Fd -> File]
    BY <1>1, <1>2
  <2>2. QED
    BY <2>1, Closes
<1>8. PipeInv'
  <2>1. ctab'[error_fd] = SigW
    BY <1>2, <1>5, <1>7
  <2>2. QED
    BY <1>1, <1>2, <2>1, PipeKept
<1>9. \A i \in DOMAIN req : Needed(i) => Placed(i)'
  <2> SUFFICES ASSUME NEW i \in DOMAIN req, Needed(i) PROVE Placed(i)'
    OBVIOUS
  <2>1. Placed(i)
    BY <1>1 DEF StreamInv
  <2>2. ctab'[i] = ctab[i]
    BY <1>2, <1>5, <1>7
  <2>3. QED
    BY <1>1, <1>4, <2>1, <2>2 DEF Placed
<1>10. \A f \in stdio_count..MaxFd : f <= CloseLimit /\ f # error_fd => ctab'[f] = Nothing
  BY <1>6, <1>7
<1>11. StreamInv'
  BY <1>1, <1>3, <1>4, <1>9, <1>10 DEF StreamInv
<1>12. QED
  BY <1>8, <1>11

\* execvp() closes error_fd, and none of the streams.
LEMMA ExecvpStep ==
    ASSUME TypeOK, PlanInv, Next, Clear, PipeInv, StreamInv, Execvp
    PROVE  Wired' /\ NoStrayFd'
<1>1. /\ cpc = "exec" /\ cpc' = "running" /\ ctab' = Close(ctab, cx) /\ cpc \in Working
  BY DEF Execvp, Working
<1>2. /\ Fd = 0..MaxFd /\ error_fd \in cx /\ stdio_count \in Nat
      /\ \A i \in DOMAIN req : i \in Fd
      /\ ctab \in [Fd -> File]
  BY <1>1, ChildFacts
<1>3. UNCHANGED <<req, stdio_count>> /\ \A i : Wanted(i)' = Wanted(i)
  BY Fixed
<1>4. \A h \in Fd : ctab'[h] = IF h \in cx THEN Nothing ELSE ctab[h]
  <2>1. ctab' = Close(ctab, cx) /\ ctab \in [Fd -> File]
    BY <1>1, <1>2
  <2>2. QED
    BY <2>1, Closes
<1>5. Wired'
  <2>1. ASSUME NEW i \in DOMAIN req, i < 3 \/ req[i][1] = "conn" PROVE ctab'[i] = Wanted(i)
    <3>1. Placed(i)
      BY <1>1, <2>1 DEF StreamInv, Needed
    <3>2. QED
      BY <1>2, <1>4, <3>1 DEF Placed
  <2>2. QED
    BY <1>3, <2>1 DEF Wired
<1>6. NoStrayFd'
  <2>1. ASSUME NEW f \in stdio_count..MaxFd, f <= CloseLimit PROVE ctab'[f] = Nothing
    <3>1. f \in Fd
      BY <1>2, LimitAssumption
    <3>2. f # error_fd => ctab[f] = Nothing
      BY <1>1, <2>1 DEF StreamInv
    <3>3. QED
      BY <1>2, <1>4, <3>1, <3>2
  <2>2. QED
    BY <1>3, <2>1 DEF NoStrayFd
<1>7. QED
  BY <1>5, <1>6

\* Every step of the child keeps what is said of it.
LEMMA ChildChild ==
    ASSUME TypeOK, ReqInv, PlanInv, ChildInv, Next, Child
    PROVE  ChildInv'
<1>1. /\ UNCHANGED parentVars /\ cpc \in Working /\ cpc' # "none"
  BY DEF Child, ChildFails, Setup, WireUse, WireSkips, CloseRest, Execvp, LoopEnds,
     WireOpen, Moved, Working
<1>2. SUFFICES ASSUME Clear' PROVE PipeInv' /\ StreamInv' /\ Wired' /\ NoStrayFd' /\ NewsInv'
  BY DEF ChildInv
<1>3. Clear
  BY <1>1, <1>2, ClearKept
<1>4. PipeInv /\ StreamInv /\ NewsInv
  BY <1>3 DEF ChildInv
<1>5. verdict' = verdict /\ verdict # "started" /\ verdict # "failed"
  BY <1>1, <1>4 DEF parentVars, NewsInv, Working
<1>6. CASE ChildFails
  <2>1. cpc' = "dead" /\ sig' = "errno"
    BY <1>1, <1>4, <1>6 DEF ChildFails, PipeInv
  <2>2. QED
    BY <1>5, <2>1 DEF PipeInv, StreamInv, Wired, NoStrayFd, NewsInv, Working
<1>7. CASE Execvp
  <2>1. cpc' = "running"
    BY <1>7 DEF Execvp
  <2>2. Wired' /\ NoStrayFd'
    BY <1>3, <1>4, <1>7, ExecvpStep
  <2>3. QED
    BY <1>5, <2>1, <2>2 DEF PipeInv, StreamInv, NewsInv, Working
<1>8. ASSUME PipeInv' /\ StreamInv', cpc' \in Working
      PROVE  PipeInv' /\ StreamInv' /\ Wired' /\ NoStrayFd' /\ NewsInv'
  BY <1>5, <1>8 DEF Wired, NoStrayFd, NewsInv, Working
<1>9. CASE Setup
  <2>1. cpc' \in Working
    BY <1>9 DEF Setup, Working
  <2>2. QED
    BY <1>3, <1>4, <1>8, <1>9, <2>1, SetupStep
<1>10. CASE LoopEnds("move", "wire")
  <2>1. cpc' \in Working
    BY <1>10 DEF LoopEnds, Working
  <2>2. QED
    BY <1>3, <1>4, <1>8, <1>10, <2>1, MoveEnds
<1>11. CASE LoopEnds("wire", "close")
  <2>1. cpc' \in Working
    BY <1>11 DEF LoopEnds, Working
  <2>2. QED
    BY <1>3, <1>4, <1>8, <1>11, <2>1, WireEnds
<1>12. CASE WireUse
  <2>1. cpc' \in Working
    BY <1>12 DEF WireUse, Working
  <2>2. QED
    BY <1>3, <1>4, <1>8, <1>12, <2>1, WireUseStep
<1>13. CASE WireSkips
  <2>1. cpc' \in Working
    BY <1>13 DEF WireSkips, Working
  <2>2. QED
    BY <1>3, <1>4, <1>8, <1>13, <2>1, WireSkipsStep
<1>14. CASE CloseRest
  <2>1. cpc' \in Working
    BY <1>14 DEF CloseRest, Working
  <2>2. QED
    BY <1>3, <1>4, <1>8, <1>14, <2>1, CloseRestStep
<1>15. ASSUME NEW f \in Fd, WireOpen(f)
       PROVE  PipeInv' /\ StreamInv' /\ Wired' /\ NoStrayFd' /\ NewsInv'
  <2>1. cpc' \in Working
    BY <1>15 DEF WireOpen, Working
  <2>2. QED
    BY <1>3, <1>4, <1>8, <1>15, <2>1, WireOpenStep
<1>16. ASSUME NEW f \in Fd \cup {-1}, Moved(f)
       PROVE  PipeInv' /\ StreamInv' /\ Wired' /\ NoStrayFd' /\ NewsInv'
  <2>1. cpc' \in Working
    BY <1>16 DEF Moved, Working
  <2>2. QED
    BY <1>3, <1>4, <1>8, <1>16, <2>1, MovedStep
<1>17. QED
  BY <1>6, <1>7, <1>9, <1>10, <1>11, <1>12, <1>13, <1>14, <1>15, <1>16 DEF Child

---------------------------------------------------------------------------
(* The theorems *)

\* The initial states.
LEMMA InitTypes == ASSUME Init PROVE TypeOK /\ ReqInv
<1>1. PICK T \in RTables : ropen = 0..2 \cup T
  BY DEF Init
<1>2. ropen \subseteq Fd /\ 0..2 \subseteq ropen
  BY <1>1, LimitAssumption, RTablesAssumption DEF Fd
<1>3. PICK n \in 0..MaxExtra :
         \E std \in [0..2 -> StdRequest], extra \in [3..(2 + n) -> ExtraRequest] :
         req = [i \in 0..(2 + n) |-> IF i \in 0..2 THEN std[i] ELSE extra[i]]
  BY DEF Init
<1>4. PICK std \in [0..2 -> StdRequest], extra \in [3..(2 + n) -> ExtraRequest] :
         req = [i \in 0..(2 + n) |-> IF i \in 0..2 THEN std[i] ELSE extra[i]]
  BY <1>3
<1>5. /\ n \in Nat /\ DOMAIN req = 0..(2 + n)
      /\ \A i \in DOMAIN req : req[i] \in StdRequest \cup ExtraRequest
      /\ \A i \in DOMAIN req : i >= 3 => req[i] \in ExtraRequest
  <2>1. n \in Nat /\ DOMAIN req = 0..(2 + n)
    BY <1>4, LimitAssumption
  <2>2. ASSUME NEW i \in DOMAIN req
        PROVE  /\ req[i] \in StdRequest \cup ExtraRequest
               /\ i >= 3 => req[i] \in ExtraRequest
    <3>1. CASE i \in 0..2
      BY <1>4, <2>1, <3>1
    <3>2. CASE i \notin 0..2
      <4>1. i \in 3..(2 + n)
        BY <2>1, <3>2
      <4>2. QED
        BY <1>4, <2>1, <3>2, <4>1
    <3>3. QED
      BY <3>1, <3>2
  <2>3. QED
    BY <2>1, <2>2
<1>6. ASSUME NEW i \in DOMAIN req
      PROVE  /\ req[i] \in Request
             /\ req[i][1] = "conn" => req[i][2] \in ropen
             /\ i >= 3 => req[i][1] \in {"conn", "closed"}
  <2>1. req[i] \in StdRequest \cup ExtraRequest
    BY <1>5
  <2>2. CASE req[i] \in (Kinds \ {"conn", "pty"}) \X {0} \cup (Kinds \cap {"closed"}) \X {0}
    <3>1. req[i] \in (Kinds \ {"conn", "pty"}) \X {0}
      BY <2>2
    <3>2. req[i][1] # "conn" /\ req[i] \in Request
      BY <3>1 DEF Request
    <3>3. i >= 3 => req[i][1] \in {"conn", "closed"}
      BY <1>5, <3>2 DEF ExtraRequest, Passed
    <3>4. QED
      BY <3>2, <3>3
  <2>3. CASE \E f \in ropen : req[i] = <<"conn", f>>
    BY <1>2, <2>3 DEF Request
  <2>4. QED
    BY <2>1, <2>2, <2>3 DEF StdRequest, ExtraRequest, Passed
<1>7. req \in [0..(2 + n) -> Request]
  BY <1>4, <1>5, <1>6
<1>8. stdio_count \in Nat
  <2>1. IsFiniteSet(0..(2 + n))
    BY <1>5, FS_Interval
  <2>2. QED
    BY <1>5, <2>1, FS_CardinalityType DEF stdio_count
<1>9. ptab \in [Fd -> File] /\ ctab \in [Fd -> File] /\ pcx \in SUBSET Fd /\ cx \in SUBSET Fd
  <2>1. ptab \in [Fd -> File]
    BY <1>2 DEF Init, File
  <2>2. ctab \in [Fd -> File]
    BY IsFile DEF Init
  <2>3. QED
    BY <1>2, <2>1, <2>2 DEF Init
<1>10. TypeOK
  <2>1. parent_end \in [DOMAIN req -> Fd \cup {-1}] /\ use = parent_end /\ cuse = parent_end
    BY DEF Init
  <2>2. signal_pipe \in (Fd \cup {-1}) \X (Fd \cup {-1}) /\ pty_main_fd \in Fd \cup {-1}
    BY DEF Init
  <2>3. pc = "signal_pipe" /\ cpc = "none" /\ sig = "empty" /\ verdict = "none" /\ pty \in BOOLEAN
    BY DEF Init
  <2>4. fd \in 0..stdio_count
    BY <1>8 DEF Init
  <2>5. QED
    BY <1>2, <1>7, <1>9, <2>1, <2>2, <2>3, <2>4 DEF TypeOK
<1>11. ReqInv
  <2>1. req[0][1] # "2>&1" /\ req[1][1] # "2>&1" /\ (pty => \A i \in 0..2 : req[i] = <<"null", 0>>)
    BY DEF Init
  <2>2. QED
    BY <1>2, <1>6, <2>1 DEF ReqInv
<1>12. QED
  BY <1>10, <1>11

LEMMA InitInv == ASSUME Init PROVE TypeOK /\ IInv
<1>1. TypeOK /\ ReqInv
  BY InitTypes
<1>2. /\ ptab = [f \in Fd |-> IF f \in ropen THEN <<"R", f>> ELSE Nothing] /\ ropen \subseteq Fd
      /\ parent_end = [i \in DOMAIN req |-> -1] /\ use = parent_end
      /\ signal_pipe = <<-1, -1>> /\ pty_main_fd = -1 /\ pc = "signal_pipe" /\ cpc = "none"
      /\ fd = 0 /\ sig = "empty" /\ verdict = "none"
  BY <1>1 DEF Init, TypeOK
<1>3. -1 \notin Fd /\ stdio_count \in Nat
  BY <1>1, Count, LimitAssumption DEF Fd
<1>4. TableInv
  <2>1. /\ \A f \in ropen : ptab[f] = <<"R", f>>
        /\ \A f \in Fd \ ropen : ptab[f] = Nothing
    BY <1>2
  <2>2. \A f : <<"R", f>> \notin {SigR, SigW} /\ \A i : <<"R", f>> # <<"child", i>>
    BY Kind
  <2>3. Nothing \notin {SigR, SigW} /\ \A i : Nothing # <<"child", i>>
    BY Kind
  <2>4. \A f \in Fd : ptab[f] # SigR /\ ptab[f] # SigW /\ \A i \in 0..2 : ptab[f] # <<"child", i>>
    BY <2>1, <2>2, <2>3
  <2>5. signal_pipe[1] \notin ropen /\ signal_pipe[2] \notin ropen /\ pty_main_fd \notin ropen
    BY <1>2, <1>3
  <2>6. \A i \in DOMAIN req : ~ (parent_end[i] >= 0)
    BY <1>2
  <2>7. QED
    BY <2>1, <2>4, <2>5, <2>6 DEF TableInv
<1>5. PlanInv
  BY <1>2 DEF PlanInv, Before
<1>6. ChildInv
  BY <1>2 DEF ChildInv, PipeInv, StreamInv, Wired, NoStrayFd, NewsInv, Working
<1>7. QED
  BY <1>1, <1>4, <1>5, <1>6 DEF IInv

\* Every step keeps the invariant.
LEMMA NextInv == ASSUME TypeOK, IInv, [Next]_vars PROVE TypeOK' /\ IInv'
<1>1. TypeOK' /\ ReqInv'
  BY NextTypes DEF IInv
<1>2. CASE Next
  <2>1. TableInv' /\ PlanInv'
    BY <1>2, TableNext, PlanNext DEF IInv
  <2>2. ChildInv'
    <3>1. CASE Parent
      BY <1>2, <2>1, <3>1, ParentChild DEF IInv
    <3>2. CASE Child
      BY <1>2, <3>2, ChildChild DEF IInv
    <3>3. QED
      BY <1>2, <3>1, <3>2 DEF Next
  <2>3. QED
    BY <1>1, <2>1, <2>2 DEF IInv
<1>3. CASE UNCHANGED vars
  <2>1. /\ UNCHANGED <<ropen, req, pty, ptab, pcx, parent_end, use, signal_pipe, pty_main_fd>>
        /\ UNCHANGED <<pc, verdict, ctab, cx, cuse, cpc, fd, sig>>
    BY <1>3 DEF vars, inputVars, parentVars, planVars, childVars
  <2>2. /\ UNCHANGED <<stdio_count, min_fd, error_fd>>
        /\ \A i : /\ Wanted(i)' = Wanted(i) /\ (Direct(i)' <=> Direct(i))
                  /\ (Needed(i)' <=> Needed(i))
    BY <2>1 DEF stdio_count, min_fd, error_fd, Wanted, Direct, Needed
  <2>3. \A i : /\ (Placed(i)' <=> Placed(i)) /\ (Ready(i)' <=> Ready(i))
               /\ (Prepared(i)' <=> Prepared(i))
    BY <2>1, <2>2 DEF Placed, Ready, Prepared
  <2>4. TableInv' /\ PlanInv'
    BY <2>1, <2>2, <2>3 DEF IInv, TableInv, PlanInv
  <2>5. Clear' <=> Clear
    BY <2>1, <2>2 DEF Clear
  <2>6. (PipeInv' <=> PipeInv) /\ (StreamInv' <=> StreamInv)
    BY <2>1, <2>2, <2>3 DEF PipeInv, StreamInv
  <2>7. (Wired' <=> Wired) /\ (NoStrayFd' <=> NoStrayFd) /\ (NewsInv' <=> NewsInv)
    BY <2>1, <2>2, <2>5 DEF Wired, NoStrayFd, NewsInv
  <2>8. QED
    BY <1>1, <2>4, <2>5, <2>6, <2>7 DEF IInv, ChildInv
<1>4. QED
  BY <1>2, <1>3

LEMMA Always == Spec => [](TypeOK /\ IInv)
<1>1. Init => TypeOK /\ IInv
  BY InitInv
<1>2. TypeOK /\ IInv /\ [Next]_vars => (TypeOK /\ IInv)'
  BY NextInv
<1>3. QED
  BY <1>1, <1>2, PTL DEF Spec

\* Whatever descriptors R has open, and whichever of its steps fails, the
\* variables of processx_exec keep their types, and once it is done
\* (processx.c:630-645) R has all of its own files, and of the new ones only its own ends.
THEOREM TablesAreRight == Spec => []Inv
<1>1. TypeOK /\ IInv => Inv
  <2> SUFFICES ASSUME TypeOK, TableInv, pc = "done", NEW f \in Fd
               PROVE  IF f \in ropen THEN ptab[f] = <<"R", f>>
                      ELSE ptab[f] \in {Nothing, PtyMain, PtySub} \cup {"parent"} \X (0..2)
    BY DEF Inv, IInv, RTableKept
  <2>1. CASE f \in ropen
    BY <2>1 DEF TableInv
  <2>2. CASE f \notin ropen
    <3>1. /\ ptab[f] \in {Nothing, SigR, SigW, PtyMain, PtySub} \cup {"parent", "child"} \X (0..2)
          /\ ptab[f] # SigR
      BY <2>2 DEF TableInv
    <3>2. ptab[f] # SigW
      BY DEF TableInv, Before
    <3>3. \A i \in 0..2 : ptab[f] # <<"child", i>>
      BY DEF TableInv
    <3>4. QED
      BY <2>2, <3>1, <3>2, <3>3
  <2>3. QED
    BY <2>1, <2>2
<1>2. QED
  BY <1>1, Always, PTL

\* With any number of connections passed on, whatever their descriptors are, the
\* two loops of processx__child_init put every stream in its place, and none is
\* overwritten before it was used, closed after it, or left close-on-exec, as long as
\* the signal pipe is above the streams (processx.c:236-333).
THEOREM StreamsAreWired == Spec => []Wired
<1>1. IInv => Wired
  BY DEF IInv, ChildInv, Wired
<1>2. QED
  BY <1>1, Always, PTL

\* The closing loops and close-on-exec leave the program no other descriptor up
\* to the limit: not the signal pipe, and not R's ends of the pipes (processx.c:252-332).
THEOREM NothingStrays == Spec => []NoStrayFd
<1>1. IInv => NoStrayFd
  BY DEF IInv, ChildInv, NoStrayFd
<1>2. QED
  BY <1>1, Always, PTL

\* What R reads from the signal pipe is true: end of file only after execvp(),
\* an errno only from a child that is gone (processx.c:132-136, 345-347, 604-628).
THEOREM StartsAreTrue == Spec => []StartIsTrue
<1>1. IInv => StartIsTrue
  BY DEF IInv, ChildInv, StartIsTrue, NewsInv
<1>2. QED
  BY <1>1, Always, PTL
=============================================================================
