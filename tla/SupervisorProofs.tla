--------------------------- MODULE SupervisorProofs ---------------------------
(***************************************************************************)
(* The supervisor never loses a running process from its array, signals    *)
(* only processes it was asked to watch, and leaves none running when it   *)
(* exits: for any number of processes, messages and polls, and any size of *)
(* the array.                                                              *)
(***************************************************************************)
EXTENDS Supervisor, FiniteSetTheorems, TLAPS

\* The process of R's call to the supervisor.
CallInv == r.call \in {"start", "write"} => r.pid \in Pid /\ proc[r.pid] # "new"

\* The supervisor only hears of processes that were started.
StartedInv ==
    /\ \A i \in 1..Len(fifo) : fifo[i].op = "watch" => proc[fifo[i].pid] # "new"
    /\ \A p \in tracked : proc[p] # "new"

\* The array holds no process twice, and only processes that are tracked.
TableInv ==
    /\ \A i, j \in 1..Len(table) : table[i] = table[j] => i = j
    /\ \A i \in 1..Len(table) : table[i] \in tracked

\* A running process that is tracked is in the array, until the supervisor stops.
LiveInv ==
    ~SupStopped => \A p \in tracked : proc[p] = "run" => \E i \in 1..Len(table) : table[i] = p

\* How far kill_children() has come.
KillInv ==
    /\ sup.pc \notin {"term", "check", "hard", "exited", "dead"} => termed = {}
    /\ SupAt("term") => \A j \in 1..Len(table) : j < sup.i => table[j] \in termed
    /\ sup.pc \in {"check", "hard"} => \A j \in 1..Len(table) : table[j] \in termed
    /\ SupAt("hard") => \A j \in 1..Len(table) : j < sup.i => proc[table[j]] # "run"
    /\ OnlyTrackedSignalled

IInv == TypeOK /\ CallInv /\ StartedInv /\ TableInv /\ LiveInv /\ KillInv /\ ExitKillsAll

-----------------------------------------------------------------------------
(***************************************************************************)
(* remove_element().                                                       *)
(***************************************************************************)
\* It takes one element away; the last one takes its place.
LEMMA RemoveElement ==
  ASSUME NEW S, NEW t \in Seq(S), NEW idx \in 1..Len(t)
  PROVE  /\ remove_element(t, idx) \in Seq(S)
         /\ Len(remove_element(t, idx)) = Len(t) - 1
         /\ \A j \in 1..(Len(t) - 1) :
                remove_element(t, idx)[j] = IF j = idx THEN t[Len(t)] ELSE t[j]
  <1> DEFINE u == [t EXCEPT ![idx] = Last(t)]
  <1>1. Len(t) \in Nat /\ Len(t) >= 1 /\ t[Len(t)] \in S
    OBVIOUS
  <1>2. u \in Seq(S) /\ Len(u) = Len(t)
    BY <1>1 DEF Last
  <1>3. \A j \in 1..Len(t) : u[j] = IF j = idx THEN t[Len(t)] ELSE t[j]
    BY DEF Last
  <1>4. remove_element(t, idx) = SubSeq(u, 1, Len(u) - 1)
    BY DEF remove_element, Front
  <1> HIDE DEF u
  <1> QED BY <1>1, <1>2, <1>3, <1>4

\* In an array without duplicates only that one is missing afterwards.
LEMMA RemoveOne ==
  ASSUME NEW S, NEW t \in Seq(S), NEW idx \in 1..Len(t), NEW u,
         u = remove_element(t, idx),
         \A i, j \in 1..Len(t) : t[i] = t[j] => i = j
  PROVE  /\ \A i, j \in 1..Len(u) : u[i] = u[j] => i = j
         /\ \A j \in 1..Len(u) : u[j] # t[idx] /\ \E i \in 1..Len(t) : u[j] = t[i]
  <1>0. u \in Seq(S) /\ Len(u) = Len(t) - 1 /\ Len(t) \in Nat
    BY RemoveElement
  <1>1. /\ u \in Seq(S) /\ Len(u) = Len(t) - 1 /\ Len(t) \in Nat
        /\ \A j \in 1..(Len(t) - 1) : u[j] = IF j = idx THEN t[Len(t)] ELSE t[j]
    BY <1>0, RemoveElement, Zenon
  <1>2. ASSUME NEW i \in 1..Len(u), NEW j \in 1..Len(u), u[i] = u[j] PROVE i = j
    <2> DEFINE at(k) == IF k = idx THEN Len(t) ELSE k
    <2>1. at(i) \in 1..Len(t) /\ at(j) \in 1..Len(t) /\ u[i] = t[at(i)] /\ u[j] = t[at(j)]
      BY <1>1
    <2>2. at(i) = at(j)
      BY <1>2, <2>1
    <2> QED BY <1>1, <2>2
  <1>3. ASSUME NEW j \in 1..Len(u)
        PROVE  u[j] # t[idx] /\ \E i \in 1..Len(t) : u[j] = t[i]
    <2>1. CASE j = idx
      <3>1. u[j] = t[Len(t)] /\ Len(t) \in 1..Len(t) /\ Len(t) # idx
        BY <1>1, <2>1
      <3> QED BY <3>1
    <2>2. CASE j # idx
      <3>1. u[j] = t[j] /\ j \in 1..Len(t)
        BY <1>1, <2>2
      <3> QED BY <2>2, <3>1
    <2> QED BY <2>1, <2>2
  <1> QED BY <1>2, <1>3

\* Every other element is still there.
LEMMA OthersStay ==
  ASSUME NEW S, NEW t \in Seq(S), NEW idx \in 1..Len(t), NEW i \in 1..Len(t), i # idx
  PROVE  \E j \in 1..Len(remove_element(t, idx)) : remove_element(t, idx)[j] = t[i]
  <1> DEFINE u == remove_element(t, idx)
  <1>0. u \in Seq(S) /\ Len(u) = Len(t) - 1 /\ Len(t) \in Nat
    BY RemoveElement
  <1>1. \A j \in 1..(Len(t) - 1) : u[j] = IF j = idx THEN t[Len(t)] ELSE t[j]
    BY RemoveElement
  <1> HIDE DEF u
  <1>2. CASE i = Len(t)
    <2>1. idx \in 1..Len(u) /\ u[idx] = t[i]
      BY <1>0, <1>1, <1>2
    <2> QED BY <2>1 DEF u
  <1>3. CASE i # Len(t)
    <2>1. i \in 1..Len(u) /\ u[i] = t[i]
      BY <1>0, <1>1, <1>3
    <2> QED BY <2>1 DEF u
  <1> QED BY <1>2, <1>3

-----------------------------------------------------------------------------
(***************************************************************************)
(* Types.                                                                  *)
(***************************************************************************)
BuildType == platform \in Platforms /\ limit \in Limits
RType == r \in RState /\ supervised \subseteq Pid
FifoType == fifo \in Seq(Message) /\ Len(fifo) <= MaxMessages
ProcType == proc \in [Pid -> ProcState]
SupType == sup \in SupState
TableType == table \in Seq(Pid) /\ Len(table) <= limit
HistType == tracked \subseteq Pid /\ termed \subseteq Pid /\ killed \subseteq Pid

\* The parts make up the type invariant.
LEMMA TypeParts ==
  TypeOK <=> /\ BuildType /\ RType /\ FifoType /\ ProcType /\ SupType /\ TableType /\ HistType
  BY DEF TypeOK, BuildType, RType, FifoType, ProcType, SupType, TableType, HistType

\* The types hold in the beginning.
LEMMA TypeInit == Init => TypeOK
  <1> SUFFICES ASSUME Init PROVE TypeOK
    OBVIOUS
  <1>1. BuildType
    BY DEF Init, BuildType
  <1>2. limit \in Nat \ {0} /\ Grace \in Nat /\ MaxMessages \in Nat
    BY <1>1, BoundsAssumption DEF BuildType
  <1>3. RType
    BY DEF Init, RType, RState
  <1>4. FifoType /\ TableType
    BY <1>2 DEF Init, FifoType, TableType
  <1>5. SupType
    BY <1>2 DEF Init, SupType, SupState, SupPc
  <1>6. ProcType /\ HistType
    BY DEF Init, ProcType, ProcState, HistType
  <1> QED BY <1>1, <1>3, <1>4, <1>5, <1>6, TypeParts

\* The two that never change.
LEMMA BuildNext == ASSUME Next PROVE UNCHANGED build
  BY DEF Next, RStep, SupStep, ProcessNew, WatchPid, UnwatchPid, SeesReady, StartFails,
         WatchWrites, FlushReturns, SupervisorKill, RDies, RReaped, Opens, Registers,
         ChecksSignals, ReadsLine, InputEnds, PrunesOne, PruneEnds, ChecksParent, TermsOne,
         TermEnds, ChecksOne, CheckEnds, KillsOne, KillEnds, SigHandler, Crashes,
         ChildExits, ChildReaped

\* R and its call.
LEMMA RTypeNext ==
  ASSUME TypeOK, CallInv, Next PROVE RType'
  <1> USE DEF RType, RState
  <1>0. RType
    BY TypeParts
  <1>1. ASSUME NEW p \in Pid, WatchPid(p) PROVE RType'
    BY <1>0, <1>1 DEF WatchPid
  <1>2. ASSUME NEW p \in Pid, UnwatchPid(p) PROVE RType'
    BY <1>0, <1>2 DEF UnwatchPid, Writes
  <1>3. CASE SeesReady \/ StartFails \/ RDies \/ RReaped
    BY <1>0, <1>3 DEF SeesReady, StartFails, RDies, RReaped
  <1>4. CASE WatchWrites
    BY <1>0, <1>4 DEF WatchWrites, Writes, CallInv
  <1>5. CASE FlushReturns
    BY <1>0, <1>5 DEF FlushReturns
  <1>6. CASE SupervisorKill
    BY <1>0, <1>6 DEF SupervisorKill
  <1>7. CASE UNCHANGED rVars
    BY <1>0, <1>7 DEF rVars
  <1> QED
    BY <1>1, <1>2, <1>3, <1>4, <1>5, <1>6, <1>7
    DEF Next, RStep, SupStep, ProcessNew, Opens, Registers, ChecksSignals, ReadsLine,
        InputEnds, PrunesOne, PruneEnds, ChecksParent, TermsOne, TermEnds, ChecksOne,
        CheckEnds, KillsOne, KillEnds, SigHandler, Crashes, ChildExits, ChildReaped

\* The messages.
LEMMA FifoTypeNext ==
  ASSUME TypeOK, CallInv, Next PROVE FifoType'
  <1>0. FifoType /\ MaxMessages \in Nat
    BY TypeParts, BoundsAssumption
  <1>a. ASSUME NEW m \in Message, Len(fifo) < MaxMessages, fifo' = Append(fifo, m)
        PROVE  FifoType'
    BY <1>0, <1>a DEF FifoType
  <1>1. ASSUME NEW p \in Pid, UnwatchPid(p) PROVE FifoType'
    <2>1. [op |-> "unwatch", pid |-> p] \in Message
      BY DEF Message
    <2> QED BY <1>1, <1>a, <2>1 DEF UnwatchPid, Writes
  <1>2. CASE WatchWrites
    <2>1. r.pid \in Pid
      BY <1>2 DEF WatchWrites, CallInv
    <2>2. [op |-> "watch", pid |-> r.pid] \in Message
      BY <2>1 DEF Message
    <2> QED BY <1>0, <1>2, <1>a, <2>2 DEF WatchWrites, Writes, FifoType
  <1>3. CASE SupervisorKill
    <2>1. [op |-> "kill", pid |-> NoPid] \in Message
      BY DEF Message
    <2> QED BY <1>0, <1>3, <1>a, <2>1 DEF SupervisorKill, FifoType
  <1>4. CASE ReadsLine
    BY <1>0, <1>4 DEF ReadsLine, FifoType
  <1>5. CASE UNCHANGED fifo
    BY <1>0, <1>5 DEF FifoType
  <1> QED
    BY <1>1, <1>2, <1>3, <1>4, <1>5
    DEF Next, RStep, SupStep, ProcessNew, WatchPid, SeesReady, StartFails, FlushReturns,
        RDies, RReaped, Opens, Registers, ChecksSignals, InputEnds, PrunesOne, PruneEnds,
        ChecksParent, TermsOne, TermEnds, ChecksOne, CheckEnds, KillsOne, KillEnds,
        SigHandler, Crashes, ChildExits, ChildReaped

\* The processes.
LEMMA ProcTypeNext ==
  ASSUME TypeOK, Next PROVE ProcType'
  <1> USE DEF ProcType, ProcState
  <1>0. ProcType /\ TableType /\ SupType
    BY TypeParts
  <1>1. ASSUME NEW p \in Pid, ProcessNew(p) \/ ChildExits(p) \/ ChildReaped(p) PROVE ProcType'
    BY <1>0, <1>1 DEF ProcessNew, ChildExits, ChildReaped
  <1>2. CASE KillsOne
    BY <1>0, <1>2 DEF KillsOne
  <1>3. CASE UNCHANGED proc
    BY <1>0, <1>3
  <1> QED
    BY <1>1, <1>2, <1>3
    DEF Next, RStep, SupStep, WatchPid, UnwatchPid, SeesReady, StartFails, WatchWrites,
        FlushReturns, SupervisorKill, RDies, RReaped, Opens, Registers, ChecksSignals,
        ReadsLine, InputEnds, PrunesOne, PruneEnds, ChecksParent, TermsOne, TermEnds,
        ChecksOne, CheckEnds, KillEnds, SigHandler, Crashes

\* The supervisor.  The index of a loop is at most one past the end of the array.
LEMMA SupTypeNext ==
  ASSUME TypeOK, Next PROVE SupType'
  <1>0. SupType /\ TableType /\ limit \in Nat \ {0} /\ Grace \in Nat \ {0} /\ limit' = limit
    BY TypeParts, BoundsAssumption, BuildNext DEF BuildType, build
  <1>a. ASSUME NEW label \in SupPc, SupGoto(label) PROVE SupType'
    <2>1. 1 \in 1..(limit + 1)
      BY <1>0
    <2> QED BY <1>0, <1>a, <2>1 DEF SupGoto, SupType, SupState
  <1> USE DEF SupType, SupState, SupPc
  <1>b. ASSUME KillChildren PROVE SupType'
    BY <1>a, <1>b DEF KillChildren
  <1>c. ASSUME sup.i <= Len(table), sup' = [sup EXCEPT !.i = @ + 1] PROVE SupType'
    <2>1. sup.i \in Nat /\ sup.i >= 1 /\ Len(table) <= limit /\ Len(table) \in Nat
      BY <1>0 DEF TableType
    <2>2. sup.i + 1 \in 1..(limit + 1)
      BY <1>0, <1>c, <2>1
    <2> QED BY <1>0, <1>c, <2>2
  <1>1. ASSUME NEW p \in Pid, WatchPid(p) PROVE SupType'
    BY <1>0, <1>1, <1>a DEF WatchPid
  <1>2. CASE Opens \/ Registers \/ ChecksSignals
    BY <1>2, <1>a, <1>b DEF Opens, Registers, ChecksSignals
  <1>3. CASE ReadsLine
    BY <1>0, <1>3, <1>b DEF ReadsLine, AddsPid, DropsPid
  <1>4. CASE InputEnds \/ PruneEnds \/ ChecksParent \/ KillEnds \/ Crashes
    BY <1>4, <1>a, <1>b DEF InputEnds, PruneEnds, ChecksParent, KillEnds, Crashes
  <1>5. CASE PrunesOne \/ TermsOne \/ ChecksOne \/ KillsOne
    BY <1>5, <1>c DEF PrunesOne, TermsOne, ChecksOne, KillsOne, Forgets
  <1>6. CASE TermEnds
    <2>1. 1 \in 1..(limit + 1) /\ Grace \in 0..Grace
      BY <1>0
    <2>2. sup' = [sup EXCEPT !.pc = "check", !.i = 1, !.left = Grace]
      BY <1>6 DEF TermEnds
    <2> QED BY <1>0, <2>1, <2>2
  <1>7. CASE CheckEnds
    <2>1. CASE sup.left > 1 /\ sup' = [sup EXCEPT !.i = 1, !.left = @ - 1]
      <3>1. 1 \in 1..(limit + 1) /\ sup.left - 1 \in 0..Grace
        BY <1>0, <2>1
      <3> QED BY <1>0, <2>1, <3>1
    <2> QED BY <1>7, <1>a, <2>1 DEF CheckEnds
  <1>8. CASE SigHandler
    <2>1. CASE sup' = [sup EXCEPT !.sig = TRUE]
      BY <1>0, <2>1
    <2> QED BY <1>8, <1>a, <2>1 DEF SigHandler
  <1>9. CASE UNCHANGED sup
    BY <1>0, <1>9
  <1> QED
    BY <1>1, <1>2, <1>3, <1>4, <1>5, <1>6, <1>7, <1>8, <1>9
    DEF Next, RStep, SupStep, ProcessNew, UnwatchPid, SeesReady, StartFails, WatchWrites,
        FlushReturns, SupervisorKill, RDies, RReaped, supVars, ChildExits, ChildReaped

\* Where kill_children() and the loops take processes off the array.
LEMMA ForgetsType ==
  ASSUME TableType, sup.i \in Nat \ {0}, Forgets
  PROVE  table' \in Seq(Pid) /\ Len(table') <= Len(table)
  <1>1. CASE table' = table
    BY <1>1 DEF TableType
  <1>2. CASE table' = remove_element(table, sup.i)
    <2>1. table \in Seq(Pid) /\ sup.i \in 1..Len(table)
      BY DEF TableType, Forgets
    <2> QED BY <1>2, <2>1, RemoveElement
  <1> QED BY <1>1, <1>2 DEF Forgets

\* The place that a line with a negative number empties.
LEMMA DropsPlace ==
  ASSUME TableType, TableInv, NEW p \in Pid, DropsPid(p), Contains(table, p)
  PROVE  \E i \in 1..Len(table) : table[i] = p /\ table' = remove_element(table, i)
  <1> DEFINE First(i) == table[i] = p /\ \A j \in 1..(i - 1) : table[j] # p
  <1>1. PICK i \in 1..Len(table) : table[i] = p
    BY DEF Contains
  <1>2. \A j \in 1..(i - 1) : j \in 1..Len(table) /\ j # i
    BY DEF TableType
  <1>3. First(i)
    BY <1>1, <1>2 DEF TableInv
  <1>4. First(CHOOSE k \in 1..Len(table) : First(k))
        /\ (CHOOSE k \in 1..Len(table) : First(k)) \in 1..Len(table)
    BY <1>3
  <1>5. table' = remove_element(table, CHOOSE k \in 1..Len(table) : First(k))
    BY DEF DropsPid
  <1> QED BY <1>4, <1>5

\* The array.
LEMMA TableTypeNext ==
  ASSUME TypeOK, TableInv, Next PROVE TableType'
  <1>0. FifoType /\ SupType /\ TableType /\ limit \in Nat \ {0} /\ limit' = limit
    BY TypeParts, BoundsAssumption, BuildNext DEF BuildType, build
  <1>1. CASE ReadsLine
    <2> DEFINE m == Head(fifo)
    <2>1. m \in Message
      BY <1>0, <1>1 DEF ReadsLine, FifoType
    <2>2. CASE m.op = "kill" /\ UNCHANGED table
      BY <1>0, <2>2 DEF TableType
    <2>3. CASE m.op = "watch" /\ AddsPid(m.pid)
      <3>1. m.pid \in Pid
        BY <2>1, <2>3 DEF Message
      <3> QED BY <1>0, <2>3, <3>1 DEF AddsPid, TableType
    <2>4. CASE m.op = "unwatch" /\ DropsPid(m.pid)
      <3>1. m.pid \in Pid
        BY <2>1, <2>4 DEF Message
      <3>2. CASE ~Contains(table, m.pid)
        BY <1>0, <2>4, <3>2 DEF DropsPid, TableType
      <3>3. CASE Contains(table, m.pid)
        BY <1>0, <2>4, <3>1, <3>3, DropsPlace, RemoveElement DEF TableType
      <3> QED BY <3>2, <3>3
    <2> QED BY <1>1, <2>2, <2>3, <2>4 DEF ReadsLine
  <1>2. CASE PrunesOne \/ ChecksOne
    <2>1. sup.i \in Nat \ {0}
      BY <1>0 DEF SupType, SupState
    <2> QED BY <1>0, <1>2, <2>1, ForgetsType DEF PrunesOne, ChecksOne, TableType
  <1>3. CASE UNCHANGED table
    BY <1>0, <1>3 DEF TableType
  <1> QED
    BY <1>1, <1>2, <1>3
    DEF Next, RStep, SupStep, ProcessNew, WatchPid, UnwatchPid, SeesReady, StartFails,
        WatchWrites, FlushReturns, SupervisorKill, RDies, RReaped, Opens, Registers,
        ChecksSignals, InputEnds, PruneEnds, ChecksParent, TermsOne, TermEnds, CheckEnds,
        KillsOne, KillEnds, SigHandler, Crashes, ChildExits, ChildReaped, supVars

\* The history.
LEMMA HistTypeNext ==
  ASSUME TypeOK, TableType', Next PROVE HistType'
  <1>0. HistType /\ TableType /\ SupType
    BY TypeParts
  <1>1. CASE ReadsLine
    <2> DEFINE m == Head(fifo)
    <2>1. CASE UNCHANGED tracked
      BY <1>0, <1>1, <2>1 DEF ReadsLine, histVars, HistType
    <2>2. CASE AddsPid(m.pid)
      BY <1>0, <1>1, <2>2 DEF ReadsLine, AddsPid, histVars, HistType, TableType, ToSet
    <2>3. CASE DropsPid(m.pid)
      BY <1>0, <1>1, <2>3 DEF ReadsLine, DropsPid, histVars, HistType
    <2> QED BY <1>1, <2>1, <2>2, <2>3 DEF ReadsLine
  <1>2. CASE TermsOne \/ KillsOne
    <2>1. table[sup.i] \in Pid
      BY <1>0, <1>2 DEF TermsOne, KillsOne, SupType, SupState, TableType
    <2> QED BY <1>0, <1>2, <2>1 DEF TermsOne, KillsOne, HistType
  <1>3. CASE UNCHANGED <<tracked, histVars>>
    BY <1>0, <1>3 DEF HistType, histVars
  <1> QED
    BY <1>1, <1>2, <1>3
    DEF Next, RStep, SupStep, ProcessNew, WatchPid, UnwatchPid, SeesReady, StartFails,
        WatchWrites, FlushReturns, SupervisorKill, RDies, RReaped, Opens, Registers,
        ChecksSignals, InputEnds, PrunesOne, PruneEnds, ChecksParent, TermEnds, ChecksOne,
        CheckEnds, KillEnds, SigHandler, Crashes, ChildExits, ChildReaped, supVars

\* A step keeps the types.
LEMMA TypeNext ==
  ASSUME TypeOK, CallInv, TableInv, Next PROVE TypeOK'
  <1>1. BuildType'
    BY TypeParts, BuildNext DEF BuildType, build
  <1>2. RType' /\ FifoType' /\ ProcType' /\ SupType' /\ TableType'
    BY RTypeNext, FifoTypeNext, ProcTypeNext, SupTypeNext, TableTypeNext
  <1>3. HistType'
    BY <1>2, HistTypeNext
  <1>4. TypeOK' <=> /\ BuildType' /\ RType' /\ FifoType' /\ ProcType' /\ SupType'
                    /\ TableType' /\ HistType'
    BY TypeParts, PTL
  <1> QED BY <1>1, <1>2, <1>3, <1>4

-----------------------------------------------------------------------------
(***************************************************************************)
(* Processes that were started.                                            *)
(***************************************************************************)
\* It holds in the beginning.
LEMMA StartedInit == Init => CallInv /\ StartedInv
  BY DEF Init, CallInv, StartedInv

\* A process that was started stays so.
LEMMA StartedForGood ==
  ASSUME TypeOK, Next, NEW p \in Pid, proc[p] # "new" PROVE proc'[p] # "new"
  <1>0. proc \in [Pid -> ProcState]
    BY DEF TypeOK
  <1>1. ASSUME NEW q \in Pid, ProcessNew(q) \/ ChildExits(q) \/ ChildReaped(q)
        PROVE  proc'[p] # "new"
    BY <1>0, <1>1 DEF ProcessNew, ChildExits, ChildReaped
  <1>2. CASE KillsOne
    BY <1>0, <1>2 DEF KillsOne
  <1>3. CASE UNCHANGED proc
    BY <1>3
  <1> QED
    BY <1>1, <1>2, <1>3
    DEF Next, RStep, SupStep, WatchPid, UnwatchPid, SeesReady, StartFails, WatchWrites,
        FlushReturns, SupervisorKill, RDies, RReaped, Opens, Registers, ChecksSignals,
        ReadsLine, InputEnds, PrunesOne, PruneEnds, ChecksParent, TermsOne, TermEnds,
        ChecksOne, CheckEnds, KillEnds, SigHandler, Crashes

\* And one that does not run is not started again.
LEMMA StoppedForGood ==
  ASSUME TypeOK, Next, NEW p \in Pid, proc[p] \notin {"new", "run"} PROVE proc'[p] # "run"
  <1>0. proc \in [Pid -> ProcState]
    BY DEF TypeOK
  <1>1. ASSUME NEW q \in Pid, ProcessNew(q) \/ ChildExits(q) \/ ChildReaped(q)
        PROVE  proc'[p] # "run"
    BY <1>0, <1>1 DEF ProcessNew, ChildExits, ChildReaped
  <1>2. CASE KillsOne
    BY <1>0, <1>2 DEF KillsOne
  <1>3. CASE UNCHANGED proc
    BY <1>3
  <1> QED
    BY <1>1, <1>2, <1>3
    DEF Next, RStep, SupStep, WatchPid, UnwatchPid, SeesReady, StartFails, WatchWrites,
        FlushReturns, SupervisorKill, RDies, RReaped, Opens, Registers, ChecksSignals,
        ReadsLine, InputEnds, PrunesOne, PruneEnds, ChecksParent, TermsOne, TermEnds,
        ChecksOne, CheckEnds, KillEnds, SigHandler, Crashes

\* The call of R is about a process that was started.
LEMMA CallNext ==
  ASSUME TypeOK, CallInv, Next PROVE CallInv'
  <1> SUFFICES ASSUME r'.call \in {"start", "write"}
               PROVE  r'.pid \in Pid /\ proc'[r'.pid] # "new"
    BY DEF CallInv
  <1>0. r \in RState
    BY DEF TypeOK
  <1>1. ASSUME NEW p \in Pid, WatchPid(p) PROVE r'.pid \in Pid /\ proc'[r'.pid] # "new"
    <2>1. r'.pid = p /\ proc' = proc /\ proc[p] # "new"
      BY <1>0, <1>1 DEF WatchPid, RState
    <2> QED BY <2>1
  <1>2. CASE r'.pid = r.pid /\ r.call \in {"start", "write"}
    BY <1>2, StartedForGood DEF CallInv
  <1>3. CASE SeesReady \/ RDies \/ RReaped \/ UNCHANGED r
    <2>1. r'.pid = r.pid /\ r.call \in {"start", "write"}
      BY <1>0, <1>3 DEF SeesReady, RDies, RReaped, RState
    <2> QED BY <1>2, <2>1
  <1>4. ~StartFails /\ ~WatchWrites /\ ~FlushReturns
    BY <1>0 DEF StartFails, WatchWrites, Writes, FlushReturns, RState
  <1>5. CASE SupervisorKill
    BY <1>0, <1>5 DEF SupervisorKill, InR, RState
  <1>6. ASSUME NEW p \in Pid, UnwatchPid(p) PROVE UNCHANGED r
    BY <1>0, <1>6 DEF UnwatchPid, Writes, RState
  <1> QED
    BY <1>1, <1>3, <1>4, <1>5, <1>6
    DEF Next, RStep, SupStep, ProcessNew, Opens, Registers, ChecksSignals, ReadsLine,
        InputEnds, PrunesOne, PruneEnds, ChecksParent, TermsOne, TermEnds, ChecksOne,
        CheckEnds, KillsOne, KillEnds, SigHandler, Crashes, ChildExits, ChildReaped, rVars

\* A message to watch, and so every process that is tracked, too.
LEMMA StartedNext ==
  ASSUME TypeOK, CallInv, StartedInv, TableInv, Next PROVE StartedInv'
  <1>0. fifo \in Seq(Message) /\ tracked \subseteq Pid /\ table \in Seq(Pid)
    BY DEF TypeOK
  <1>1. \A i \in 1..Len(fifo) : fifo[i].op = "watch" => fifo[i].pid \in Pid
    BY <1>0 DEF Message
  <1>2. \A i \in 1..Len(fifo) : fifo[i].op = "watch" => proc'[fifo[i].pid] # "new"
    BY <1>1, StartedForGood DEF StartedInv
  <1>3. \A p \in tracked : proc'[p] # "new"
    BY <1>0, StartedForGood DEF StartedInv
  <1>a. ASSUME NEW m \in Message, fifo' = Append(fifo, m), tracked' = tracked,
               m.op = "watch" => proc'[m.pid] # "new"
        PROVE  StartedInv'
    <2>1. Len(fifo') = Len(fifo) + 1 /\ fifo'[Len(fifo) + 1] = m
      BY <1>0, <1>a
    <2>2. \A i \in 1..Len(fifo) : fifo'[i] = fifo[i]
      BY <1>0, <1>a
    <2>3. ASSUME NEW i \in 1..Len(fifo') PROVE i \in 1..Len(fifo) \/ i = Len(fifo) + 1
      BY <1>0, <2>1
    <2> QED BY <1>2, <1>3, <1>a, <2>1, <2>2, <2>3 DEF StartedInv
  <1>b. ASSUME UNCHANGED <<fifo, tracked>> PROVE StartedInv'
    BY <1>2, <1>3, <1>b DEF StartedInv
  <1>4. ASSUME NEW p \in Pid, UnwatchPid(p) PROVE StartedInv'
    <2> DEFINE m == [op |-> "unwatch", pid |-> p]
    <2>1. m \in Message /\ m.op # "watch"
      BY DEF Message
    <2> QED BY <1>4, <1>a, <2>1 DEF UnwatchPid, Writes, supVars
  <1>5. CASE WatchWrites
    <2>1. CASE PipeBroken
      BY <1>5, <1>b, <2>1 DEF WatchWrites, supVars
    <2>2. CASE ~PipeBroken
      <3> DEFINE m == [op |-> "watch", pid |-> r.pid]
      <3>1. r.pid \in Pid /\ proc'[r.pid] # "new"
        BY <1>5, StartedForGood DEF WatchWrites, CallInv
      <3>2. m \in Message /\ proc'[m.pid] # "new"
        BY <3>1 DEF Message
      <3>3. fifo' = Append(fifo, m) /\ tracked' = tracked
        BY <1>5, <2>2 DEF WatchWrites, Writes, supVars
      <3> HIDE DEF m
      <3> QED BY <1>a, <3>2, <3>3
    <2> QED BY <2>1, <2>2
  <1>6. CASE SupervisorKill
    <2> DEFINE m == [op |-> "kill", pid |-> NoPid]
    <2>1. m \in Message /\ m.op # "watch"
      BY DEF Message
    <2> QED BY <1>6, <1>a, <1>b, <2>1 DEF SupervisorKill, supVars
  <1>7. CASE ReadsLine
    <2> DEFINE m == Head(fifo)
    <2>1. /\ fifo' = Tail(fifo) /\ Len(fifo) > 0 /\ proc' = proc /\ m = fifo[1]
          /\ Len(fifo) \in Nat /\ Len(fifo') = Len(fifo) - 1
      BY <1>0, <1>7 DEF ReadsLine
    <2>2. \A i \in 1..Len(fifo') : fifo'[i] = fifo[i + 1]
      BY <1>0, <2>1
    <2>3. \A i \in 1..Len(fifo') : fifo'[i].op = "watch" => proc'[fifo'[i].pid] # "new"
      BY <1>2, <2>1, <2>2
    <2>4. \A p \in tracked' : p \in tracked \/ (m.op = "watch" /\ p = m.pid)
      <3>1. CASE UNCHANGED tracked
        BY <3>1
      <3>2. CASE DropsPid(m.pid)
        BY <3>2 DEF DropsPid
      <3>3. CASE m.op = "watch" /\ AddsPid(m.pid)
        <4>1. CASE table' = table
          BY <1>0, <3>3, <4>1 DEF AddsPid, ToSet, TableInv
        <4>2. CASE table' = Append(table, m.pid)
          <5>1. \A i \in 1..Len(table') : table'[i] = m.pid \/ table'[i] \in tracked
            BY <1>0, <4>2 DEF TableInv
          <5>2. DOMAIN table' = 1..Len(table')
            BY <1>0, <4>2
          <5> QED BY <3>3, <5>1, <5>2 DEF AddsPid, ToSet
        <4> QED BY <3>3, <4>1, <4>2 DEF AddsPid
      <3> QED BY <1>7, <3>1, <3>2, <3>3 DEF ReadsLine
    <2>5. 1 \in 1..Len(fifo)
      BY <2>1
    <2>6. m.op = "watch" => proc'[m.pid] # "new"
      BY <1>2, <2>1, <2>5
    <2> QED BY <1>3, <2>3, <2>4, <2>6 DEF StartedInv
  <1> QED
    BY <1>b, <1>4, <1>5, <1>6, <1>7
    DEF Next, RStep, SupStep, ProcessNew, WatchPid, SeesReady, StartFails, FlushReturns,
        RDies, RReaped, Opens, Registers, ChecksSignals, InputEnds, PrunesOne, PruneEnds,
        ChecksParent, TermsOne, TermEnds, ChecksOne, CheckEnds, KillsOne, KillEnds,
        SigHandler, Crashes, ChildExits, ChildReaped, supVars

-----------------------------------------------------------------------------
(***************************************************************************)
(* The array.                                                              *)
(***************************************************************************)
\* What a step may do to the array and to the processes that are tracked.
TableStep ==
    \/ UNCHANGED <<table, tracked>>
    \/ \E i \in 1..Len(table) :
        /\ table' = remove_element(table, i)
        /\ \/ tracked' = tracked /\ proc' = proc /\ proc[table[i]] # "run"
           \/ tracked' = tracked \ {table[i]}
    \/ \E p \in Pid : ~Contains(table, p) /\ table' = table /\ tracked' = tracked \ {p}
    \/ \E p \in Pid :
        /\ ~Contains(table, p) /\ table' = Append(table, p)
        /\ tracked' = tracked \cup {p}

\* It does nothing else.
LEMMA TableSteps ==
  ASSUME TypeOK, TableInv, Next PROVE TableStep
  <1>0. /\ TableType /\ SupType /\ fifo \in Seq(Message)
        /\ table \in Seq(Pid) /\ sup \in SupState
    BY TypeParts DEF TypeOK
  <1>1. CASE ReadsLine
    <2> DEFINE m == Head(fifo)
    <2>1. m \in Message
      BY <1>0, <1>1 DEF ReadsLine
    <2>2. CASE UNCHANGED <<table, tracked>>
      BY <2>2 DEF TableStep
    <2>3. CASE m.op = "watch" /\ AddsPid(m.pid)
      <3>1. m.pid \in Pid
        BY <2>1, <2>3 DEF Message
      <3>2. CASE table' = table
        <4>1. tracked' = tracked
          BY <1>0, <2>3, <3>2 DEF AddsPid, ToSet, TableInv
        <4> QED BY <3>2, <4>1 DEF TableStep
      <3>3. CASE ~Contains(table, m.pid) /\ table' = Append(table, m.pid)
        <4>1. DOMAIN table' = 1..(Len(table) + 1) /\ Len(table) \in Nat
          BY <1>0, <3>3
        <4>2. /\ table'[Len(table) + 1] = m.pid
              /\ \A i \in 1..Len(table) : table'[i] = table[i]
          BY <1>0, <3>3
        <4>3. tracked' = tracked \cup {table'[i] : i \in DOMAIN table'}
          BY <2>3 DEF AddsPid, ToSet
        <4>4. tracked' = tracked \cup {m.pid}
          <5>1. \A i \in 1..(Len(table) + 1) : i \in 1..Len(table) \/ i = Len(table) + 1
            BY <4>1
          <5>2. \A i \in DOMAIN table' : table'[i] \in tracked \cup {m.pid}
            BY <4>1, <4>2, <5>1 DEF TableInv
          <5>3. Len(table) + 1 \in DOMAIN table'
            BY <4>1
          <5> QED BY <4>2, <4>3, <5>2, <5>3
        <4> QED BY <3>1, <3>3, <4>4 DEF TableStep
      <3> QED BY <2>3, <3>2, <3>3 DEF AddsPid
    <2>4. CASE m.op = "unwatch" /\ DropsPid(m.pid)
      <3>1. m.pid \in Pid /\ tracked' = tracked \ {m.pid}
        BY <2>1, <2>4 DEF Message, DropsPid
      <3>2. CASE ~Contains(table, m.pid)
        BY <2>4, <3>1, <3>2 DEF DropsPid, TableStep
      <3>3. CASE Contains(table, m.pid)
        BY <1>0, <2>4, <3>1, <3>3, DropsPlace DEF TableStep
      <3> QED BY <3>2, <3>3
    <2> QED BY <1>1, <2>2, <2>3, <2>4 DEF ReadsLine
  <1>2. CASE PrunesOne \/ ChecksOne
    <2>1. Forgets /\ tracked' = tracked /\ proc' = proc
      BY <1>2 DEF PrunesOne, ChecksOne
    <2>2. CASE table' = table
      BY <2>1, <2>2 DEF TableStep
    <2>3. CASE table' = remove_element(table, sup.i) /\ ~Running(proc[table[sup.i]])
      <3>1. sup.i \in 1..Len(table)
        BY <1>0, <2>1 DEF Forgets, SupState
      <3>2. proc[table[sup.i]] # "run"
        BY <2>3 DEF Running
      <3> QED BY <2>1, <2>3, <3>1, <3>2 DEF TableStep
    <2> QED BY <2>1, <2>2, <2>3 DEF Forgets
  <1>3. CASE UNCHANGED <<table, tracked>>
    BY <1>3 DEF TableStep
  <1> QED
    BY <1>1, <1>2, <1>3
    DEF Next, RStep, SupStep, ProcessNew, WatchPid, UnwatchPid, SeesReady, StartFails,
        WatchWrites, FlushReturns, SupervisorKill, RDies, RReaped, Opens, Registers,
        ChecksSignals, InputEnds, PruneEnds, ChecksParent, TermsOne, TermEnds, CheckEnds,
        KillsOne, KillEnds, SigHandler, Crashes, ChildExits, ChildReaped, supVars

\* No duplicates, and nothing that is not tracked.
LEMMA TableNext ==
  ASSUME TypeOK, TableInv, Next PROVE TableInv'
  <1>0. table \in Seq(Pid) /\ Len(table) \in Nat
    BY DEF TypeOK
  <1>1. CASE UNCHANGED <<table, tracked>>
    BY <1>1 DEF TableInv
  <1>2. ASSUME NEW i \in 1..Len(table), table' = remove_element(table, i),
               tracked \ {table[i]} \subseteq tracked'
        PROVE  TableInv'
    <2>1. /\ \A k, j \in 1..Len(table') : table'[k] = table'[j] => k = j
          /\ \A j \in 1..Len(table') :
                 table'[j] # table[i] /\ \E k \in 1..Len(table) : table'[j] = table[k]
      <3>1. \A k, j \in 1..Len(table) : table[k] = table[j] => k = j
        BY DEF TableInv
      <3> QED BY <1>0, <1>2, <3>1, RemoveOne
    <2> QED BY <1>2, <2>1 DEF TableInv
  <1>3. ASSUME NEW p \in Pid, ~Contains(table, p), table' = table, tracked' = tracked \ {p}
        PROVE  TableInv'
    BY <1>3 DEF TableInv, Contains
  <1>4. ASSUME NEW p \in Pid, ~Contains(table, p), table' = Append(table, p),
               tracked' = tracked \cup {p}
        PROVE  TableInv'
    <2>1. Len(table') = Len(table) + 1 /\ table'[Len(table) + 1] = p
      BY <1>0, <1>4
    <2>2. \A i \in 1..Len(table) : table'[i] = table[i] /\ table[i] # p
      BY <1>0, <1>4 DEF Contains
    <2>3. \A i \in 1..Len(table') : i \in 1..Len(table) \/ i = Len(table) + 1
      BY <1>0, <2>1
    <2> QED BY <1>4, <2>1, <2>2, <2>3 DEF TableInv
  <1> QED BY <1>1, <1>2, <1>3, <1>4, TableSteps DEF TableStep

\* A running process that is tracked stays in the array.
LEMMA LiveNext ==
  ASSUME TypeOK, StartedInv, TableInv, LiveInv, Next PROVE LiveInv'
  <1> SUFFICES ASSUME ~SupStopped', NEW p \in tracked', proc'[p] = "run"
               PROVE  \E j \in 1..Len(table') : table'[j] = p
    BY DEF LiveInv
  <1>0. table \in Seq(Pid) /\ Len(table) \in Nat /\ tracked \subseteq Pid
    BY DEF TypeOK
  <1>1. ~SupStopped
    BY DEF SupStopped, Next, RStep, SupStep, ProcessNew, WatchPid, UnwatchPid, SeesReady,
        StartFails, WatchWrites, FlushReturns, SupervisorKill, RDies, RReaped, Opens,
        Registers, ChecksSignals, ReadsLine, InputEnds, PrunesOne, PruneEnds, ChecksParent,
        TermsOne, TermEnds, ChecksOne, CheckEnds, KillsOne, KillEnds, SigHandler, Crashes,
        ChildExits, ChildReaped, supVars, SupAt
  <1>2. ASSUME p \in tracked PROVE \E i \in 1..Len(table) : table[i] = p
    <2>1. proc[p] = "run"
      BY <1>0, <1>2, StoppedForGood DEF StartedInv
    <2> QED BY <1>1, <1>2, <2>1 DEF LiveInv
  <1>3. CASE UNCHANGED <<table, tracked>>
    BY <1>2, <1>3
  <1>4. ASSUME NEW i \in 1..Len(table), table' = remove_element(table, i),
               \/ tracked' = tracked /\ proc' = proc /\ proc[table[i]] # "run"
               \/ tracked' = tracked \ {table[i]}
        PROVE  \E j \in 1..Len(table') : table'[j] = p
    <2>1. p \in tracked /\ p # table[i]
      BY <1>4
    <2>2. PICK k \in 1..Len(table) : table[k] = p
      BY <1>2, <2>1
    <2>3. k # i
      BY <2>1, <2>2
    <2>4. \E j \in 1..Len(remove_element(table, i)) : remove_element(table, i)[j] = table[k]
      BY <1>0, <2>3, OthersStay
    <2> QED BY <1>4, <2>2, <2>4
  <1>5. ASSUME NEW q \in Pid, ~Contains(table, q), table' = table, tracked' = tracked \ {q}
        PROVE  \E j \in 1..Len(table') : table'[j] = p
    BY <1>2, <1>5
  <1>6. ASSUME NEW q \in Pid, table' = Append(table, q), tracked' = tracked \cup {q}
        PROVE  \E j \in 1..Len(table') : table'[j] = p
    <2>1. Len(table') = Len(table) + 1 /\ table'[Len(table) + 1] = q
          /\ Len(table) + 1 \in 1..Len(table')
      BY <1>0, <1>6
    <2>2. \A i \in 1..Len(table) : table'[i] = table[i] /\ i \in 1..Len(table')
      BY <1>0, <1>6
    <2> QED BY <1>2, <1>6, <2>1, <2>2
  <1> QED BY <1>3, <1>4, <1>5, <1>6, TableSteps DEF TableStep

-----------------------------------------------------------------------------
(***************************************************************************)
(* kill_children().                                                        *)
(***************************************************************************)
\* A step that leaves table, tracked and the signals alone, and does not start
\* kill_children() half-way.
LEMMA KillKept ==
  ASSUME TypeOK, KillInv, StartedInv, TableInv, Next, UNCHANGED <<table, tracked, histVars>>,
         sup'.pc = sup.pc /\ sup'.i = sup.i
  PROVE  KillInv'
  <1>0. table \in Seq(Pid) /\ tracked \subseteq Pid
    BY DEF TypeOK
  <1>1. \A j \in 1..Len(table) : proc[table[j]] # "new" /\ table[j] \in Pid
    BY <1>0 DEF TableInv, StartedInv
  <1>2. \A j \in 1..Len(table) : proc[table[j]] # "run" => proc'[table[j]] # "run"
    BY <1>1, StoppedForGood
  <1> QED BY <1>2 DEF KillInv, OnlyTrackedSignalled, SupAt, histVars

\* The supervisor goes to a label where nothing is known of its loops.
LEMMA KillGoto ==
  ASSUME TypeOK, KillInv, NEW label \in SupPc, SupGoto(label),
         UNCHANGED <<table, tracked, histVars>>,
         \/ label \notin {"check", "hard", "exited", "dead"} /\ termed = {}
         \/ label \in {"exited", "dead"}
         \/ label = "hard" /\ SupAt("check")
  PROVE  KillInv'
  <1>1. sup'.pc = label /\ sup'.i = 1
    BY DEF SupGoto, TypeOK, SupState
  <1>2. table \in Seq(Pid) /\ \A j \in 1..Len(table) : ~(j < 1)
    BY DEF TypeOK
  <1> QED BY <1>1, <1>2 DEF KillInv, OnlyTrackedSignalled, SupAt, histVars

\* A step keeps it.
LEMMA KillNext ==
  ASSUME TypeOK, StartedInv, TableInv, KillInv, Next PROVE KillInv'
  <1> USE DEF SupAt
  <1>0. /\ table \in Seq(Pid) /\ tracked \subseteq Pid /\ sup \in SupState
        /\ Len(table) \in Nat /\ sup.i \in Nat \ {0}
    BY DEF TypeOK, SupState
  <1>a. ASSUME KillChildren, UNCHANGED <<table, tracked, histVars>>,
               sup.pc \in {"signals", "input", "parent"}
        PROVE  KillInv'
    BY <1>a, KillGoto DEF KillChildren, KillInv, SupPc
  <1>1. CASE RStep
    <2>1. CASE UNCHANGED <<sup, table, tracked, histVars>>
      BY <2>1, KillKept
    <2>2. ASSUME NEW p \in Pid, WatchPid(p), SupAt("none"), SupGoto("starting") PROVE KillInv'
      BY <2>2, KillGoto DEF WatchPid, KillInv, SupPc
    <2> QED BY <1>1, <2>1, <2>2
        DEF RStep, ProcessNew, WatchPid, UnwatchPid, SeesReady, StartFails, WatchWrites,
            FlushReturns, SupervisorKill, RDies, RReaped, supVars
  <1>2. ASSUME NEW p \in Pid, ChildExits(p) \/ ChildReaped(p) PROVE KillInv'
    BY <1>2, KillKept DEF ChildExits, ChildReaped, supVars
  <1>3. CASE Opens
    BY <1>3, KillGoto DEF Opens, KillInv, SupPc
  <1>4. CASE Registers \/ InputEnds \/ PruneEnds
    BY <1>4, KillGoto DEF Registers, InputEnds, PruneEnds, KillInv, SupPc
  <1>5. CASE ChecksSignals \/ ChecksParent
    BY <1>5, <1>a, KillGoto DEF ChecksSignals, ChecksParent, KillInv, SupPc
  <1>6. CASE Crashes
    BY <1>6, KillGoto DEF Crashes, SupPc
  <1>7. CASE SigHandler
    <2>1. CASE sup' = [sup EXCEPT !.sig = TRUE]
      <3>1. sup'.pc = sup.pc /\ sup'.i = sup.i
        BY <1>0, <2>1 DEF SupState
      <3> QED BY <1>7, <3>1, KillKept DEF SigHandler
    <2> QED BY <1>7, <2>1, KillGoto DEF SigHandler, SupPc
  <1>8. CASE ReadsLine
    <2>1. termed = {} /\ killed = {} /\ UNCHANGED histVars
      BY <1>8 DEF ReadsLine, KillInv, OnlyTrackedSignalled
    <2>2. CASE UNCHANGED sup
      BY <1>8, <2>1, <2>2 DEF ReadsLine, KillInv, OnlyTrackedSignalled, histVars
    <2>3. CASE KillChildren /\ UNCHANGED <<table, tracked>>
      BY <1>8, <1>a, <2>1, <2>3 DEF ReadsLine
    <2> QED BY <1>8, <2>2, <2>3 DEF ReadsLine, AddsPid, DropsPid
  <1>9. CASE PrunesOne
    <2>1. termed = {} /\ UNCHANGED <<tracked, histVars>> /\ sup'.pc = "prune"
      BY <1>0, <1>9 DEF PrunesOne, Forgets, KillInv, SupState
    <2> QED BY <2>1 DEF KillInv, OnlyTrackedSignalled, histVars
  <1>10. CASE TermsOne
    <2>1. sup'.pc = "term" /\ sup'.i = sup.i + 1 /\ sup.i \in 1..Len(table)
          /\ termed' = termed \cup {table[sup.i]}
          /\ UNCHANGED <<table, tracked, killed>>
      BY <1>0, <1>10 DEF TermsOne, SupState
    <2>2. \A j \in 1..Len(table) : j < sup.i + 1 => j < sup.i \/ j = sup.i
      BY <1>0
    <2>3. \A j \in 1..Len(table) : j < sup.i + 1 => table[j] \in termed'
      BY <1>10, <2>1, <2>2 DEF TermsOne, KillInv
    <2> QED BY <2>1, <2>3 DEF KillInv, OnlyTrackedSignalled, TableInv
  <1>11. CASE TermEnds
    <2>1. sup'.pc = "check" /\ UNCHANGED <<table, tracked, termed, killed>>
          /\ \A j \in 1..Len(table) : j < sup.i
      BY <1>0, <1>11 DEF TermEnds, SupState, histVars
    <2> QED BY <1>11, <2>1 DEF TermEnds, KillInv, OnlyTrackedSignalled
  <1>12. CASE ChecksOne
    <2>1. sup'.pc = "check" /\ UNCHANGED <<tracked, termed, killed>>
      BY <1>0, <1>12 DEF ChecksOne, Forgets, SupState, histVars
    <2>2. \A j \in 1..Len(table') : \E i \in 1..Len(table) : table'[j] = table[i]
      <3>1. CASE table' = table
        BY <3>1
      <3>2. CASE table' = remove_element(table, sup.i) /\ sup.i \in 1..Len(table)
        <4>1. \A i, j \in 1..Len(table) : table[i] = table[j] => i = j
          BY DEF TableInv
        <4>2. \A j \in 1..Len(table') :
                 table'[j] # table[sup.i] /\ \E i \in 1..Len(table) : table'[j] = table[i]
          BY <1>0, <3>2, <4>1, RemoveOne
        <4> QED BY <4>2
      <3>3. sup.i \in 1..Len(table) /\ (table' = table \/ table' = remove_element(table, sup.i))
        BY <1>0, <1>12 DEF ChecksOne, Forgets
      <3> QED BY <3>1, <3>2, <3>3
    <2> QED BY <1>12, <2>1, <2>2 DEF ChecksOne, KillInv, OnlyTrackedSignalled
  <1>13. CASE CheckEnds
    <2>1. CASE sup' = [sup EXCEPT !.i = 1, !.left = @ - 1]
      <3>1. sup'.pc = "check" /\ UNCHANGED <<table, tracked, termed, killed>>
        BY <1>0, <1>13, <2>1 DEF CheckEnds, SupState, histVars
      <3> QED BY <1>13, <3>1 DEF CheckEnds, KillInv, OnlyTrackedSignalled
    <2> QED BY <1>13, <2>1, KillGoto DEF CheckEnds, SupPc
  <1>14. CASE KillsOne
    <2> DEFINE p == table[sup.i]
    <2>1. sup'.pc = "hard" /\ sup'.i = sup.i + 1 /\ sup.i \in 1..Len(table)
          /\ UNCHANGED <<table, tracked, termed>>
      BY <1>0, <1>14 DEF KillsOne, SupState
    <2>2. p \in termed /\ killed' \subseteq killed \cup {p}
      BY <1>14, <2>1 DEF KillsOne, KillInv
    <2>3. \A j \in 1..Len(table) : proc[table[j]] # "new" /\ table[j] \in Pid
      BY <1>0 DEF TableInv, StartedInv
    <2>4. \A j \in 1..Len(table) : proc[table[j]] # "run" => proc'[table[j]] # "run"
      BY <2>3, StoppedForGood
    <2>5. proc'[p] # "run"
      <3>1. p \in Pid /\ proc \in [Pid -> ProcState]
        BY <2>1, <2>3 DEF TypeOK
      <3>2. CASE proc[p] = "run"
        BY <1>14, <3>1, <3>2 DEF KillsOne, Running
      <3>3. CASE proc[p] # "run"
        BY <2>1, <2>4, <3>3
      <3> QED BY <3>2, <3>3
    <2>6. \A j \in 1..Len(table) : j < sup.i + 1 => j < sup.i \/ j = sup.i
      BY <1>0
    <2>7. \A j \in 1..Len(table) : j < sup.i + 1 => proc'[table[j]] # "run"
      BY <1>14, <2>4, <2>5, <2>6 DEF KillsOne, KillInv
    <2> QED BY <1>14, <2>1, <2>2, <2>7 DEF KillsOne, KillInv, OnlyTrackedSignalled
  <1>15. CASE KillEnds
    BY <1>15, KillGoto DEF KillEnds, SupPc
  <1> QED
    BY <1>1, <1>2, <1>3, <1>4, <1>5, <1>6, <1>7, <1>8, <1>9, <1>10, <1>11, <1>12, <1>13,
       <1>14, <1>15
    DEF Next, SupStep

\* When the supervisor exits by itself no process that is tracked runs.
LEMMA ExitNext ==
  ASSUME TypeOK, StartedInv, TableInv, LiveInv, KillInv, ExitKillsAll, Next
  PROVE  ExitKillsAll'
  <1> USE DEF SupAt
  <1> SUFFICES ASSUME sup'.pc = "exited", NEW p \in tracked', proc'[p] = "run" PROVE FALSE
    BY DEF ExitKillsAll
  <1>0. sup \in SupState /\ tracked \subseteq Pid /\ table \in Seq(Pid) /\ sup.i \in Nat
    BY DEF TypeOK, SupState
  <1>1. CASE sup.pc = "exited"
    <2>1. tracked' = tracked
      BY <1>1
      DEF Next, RStep, SupStep, ProcessNew, WatchPid, UnwatchPid, SeesReady, StartFails,
          WatchWrites, FlushReturns, SupervisorKill, RDies, RReaped, Opens, Registers,
          ChecksSignals, ReadsLine, InputEnds, PrunesOne, PruneEnds, ChecksParent, TermsOne,
          TermEnds, ChecksOne, CheckEnds, KillsOne, KillEnds, SigHandler, Crashes,
          ChildExits, ChildReaped, supVars
    <2> QED BY <1>0, <1>1, <2>1, StoppedForGood DEF ExitKillsAll, StartedInv
  <1>2. CASE sup.pc # "exited"
    <2>a. \A label : SupGoto(label) => sup'.pc = label
      BY <1>0 DEF SupGoto, SupState
    <2>b. KillChildren => table = <<>>
      BY <2>a DEF KillChildren
    <2>c. ~(sup'.pc = sup.pc)
      BY <1>2
    <2>d. ASSUME ChecksSignals \/ ChecksParent \/ ReadsLine
          PROVE  UNCHANGED <<table, tracked, proc>> /\ table = <<>> /\ ~SupStopped
      BY <2>a, <2>b, <2>c, <2>d
      DEF ChecksSignals, ChecksParent, ReadsLine, AddsPid, DropsPid, SupStopped
    <2>e. ASSUME CheckEnds
          PROVE  UNCHANGED <<table, tracked, proc>> /\ table = <<>> /\ ~SupStopped
      <3>1. sup' = [sup EXCEPT !.i = 1, !.left = @ - 1] => sup'.pc = sup.pc
        BY <1>0 DEF SupState
      <3> QED BY <2>a, <2>c, <2>e, <3>1 DEF CheckEnds, SupStopped
    <2>f. ASSUME KillEnds
          PROVE  UNCHANGED <<table, tracked, proc>> /\ sup.pc = "hard" /\ sup.i > Len(table)
      BY <2>f DEF KillEnds
    <2>g. ASSUME \/ Opens \/ Registers \/ InputEnds \/ PruneEnds \/ Crashes
                 \/ \E q \in Pid : WatchPid(q)
          PROVE  FALSE
      BY <2>a, <2>c, <2>g DEF Opens, Registers, InputEnds, PruneEnds, Crashes, WatchPid
    <2>h. ASSUME PrunesOne \/ ChecksOne \/ TermsOne \/ KillsOne
          PROVE  FALSE
      <3>1. sup' = [sup EXCEPT !.i = @ + 1]
        BY <2>h DEF PrunesOne, ChecksOne, TermsOne, KillsOne, Forgets
      <3> QED BY <1>0, <2>c, <3>1 DEF SupState
    <2>i. ASSUME TermEnds \/ SigHandler PROVE FALSE
      <3>1. CASE TermEnds
        BY <1>0, <3>1 DEF TermEnds, SupState
      <3>2. CASE SigHandler
        <4>1. sup' = [sup EXCEPT !.sig = TRUE] => sup'.pc = sup.pc
          BY <1>0 DEF SupState
        <4> QED BY <2>a, <2>c, <3>2, <4>1 DEF SigHandler
      <3> QED BY <2>i, <3>1, <3>2
    <2>j. ASSUME UNCHANGED sup PROVE FALSE
      BY <2>c, <2>j
    <2>1. /\ UNCHANGED <<table, tracked, proc>>
          /\ (table = <<>> /\ ~SupStopped) \/ (sup.pc = "hard" /\ sup.i > Len(table))
      BY <2>d, <2>e, <2>f, <2>g, <2>h, <2>i, <2>j
      DEF Next, RStep, SupStep, ProcessNew, UnwatchPid, SeesReady, StartFails, WatchWrites,
          FlushReturns, SupervisorKill, RDies, RReaped, ChildExits, ChildReaped, supVars
    <2>2. PICK i \in 1..Len(table) : table[i] = p
      BY <2>1 DEF LiveInv, SupStopped
    <2>3. sup.pc = "hard" /\ i < sup.i
      BY <1>0, <2>1, <2>2
    <2> QED BY <2>1, <2>2, <2>3 DEF KillInv
  <1> QED BY <1>1, <1>2

-----------------------------------------------------------------------------
(***************************************************************************)
(* The theorems.                                                           *)
(***************************************************************************)
\* An array without duplicates holds a process once or not at all.
LEMMA OnceInTable ==
  ASSUME TypeOK, TableInv, LiveInv PROVE LiveChildrenTracked
  <1> SUFFICES ASSUME ~SupStopped, NEW p \in tracked, proc[p] = "run"
               PROVE  Cardinality({i \in 1..Len(table) : table[i] = p}) = 1
    BY DEF LiveChildrenTracked
  <1>1. PICK i \in 1..Len(table) : table[i] = p
    BY DEF LiveInv
  <1>2. {j \in 1..Len(table) : table[j] = p} = {i}
    BY <1>1 DEF TableInv
  <1> QED BY <1>2, FS_Singleton

\* All of it is inductive, together.
LEMMA Inductive == Spec => []IInv
  <1>1. Init => IInv
    <2> SUFFICES ASSUME Init PROVE IInv
      OBVIOUS
    <2>1. TableInv /\ LiveInv
      BY DEF Init, TableInv, LiveInv
    <2>2. KillInv /\ ExitKillsAll
      BY DEF Init, KillInv, ExitKillsAll, OnlyTrackedSignalled, SupAt
    <2> QED BY <2>1, <2>2, TypeInit, StartedInit DEF IInv
  <1>2. IInv /\ [Next]_vars => IInv'
    <2> SUFFICES ASSUME IInv, [Next]_vars PROVE IInv'
      OBVIOUS
    <2>1. CASE Next
      BY <2>1, TypeNext, CallNext, StartedNext, TableNext, LiveNext, KillNext, ExitNext DEF IInv
    <2>2. CASE UNCHANGED vars
      <3>1. UNCHANGED <<platform, limit, r, supervised, fifo, proc, sup, table, tracked,
                        termed, killed>>
        BY <2>2 DEF vars, build, rVars, supVars, histVars
      <3>2. TypeOK'
        BY <3>1 DEF IInv, TypeOK, SupState
      <3>3. CallInv' /\ StartedInv' /\ TableInv'
        BY <3>1 DEF IInv, CallInv, StartedInv, TableInv
      <3>4. LiveInv' /\ ExitKillsAll'
        BY <3>1 DEF IInv, LiveInv, ExitKillsAll, SupStopped, SupAt
      <3>5. KillInv'
        BY <3>1 DEF IInv, KillInv, OnlyTrackedSignalled, SupAt
      <3> QED BY <3>2, <3>3, <3>4, <3>5 DEF IInv
    <2> QED BY <2>1, <2>2
  <1> QED BY <1>1, <1>2, PTL DEF Spec

\* However many processes, messages and polls there are, and however large the array is:
\* no running process is lost from it, none is in it twice, and only processes that are
\* tracked get signals, SIGTERM before SIGKILL (supervisor.c:141-202, 395-440,
\* utils.c:33-36).
THEOREM ArrayIsRight == Spec => []Inv
  <1>1. IInv => Inv
    BY OnceInTable DEF IInv, KillInv, Inv
  <1> QED BY <1>1, Inductive, PTL

\* Whatever made the supervisor exit, no process it had taken up runs
\* (supervisor.c:141-202).
THEOREM ExitIsClean == Spec => []ExitKillsAll
  <1>1. IInv => ExitKillsAll
    BY DEF IInv
  <1> QED BY <1>1, Inductive, PTL
=============================================================================
