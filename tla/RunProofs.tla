------------------------------- MODULE RunProofs -------------------------------
(***************************************************************************)
(* run() returns all of the output and leaves no process behind, and the   *)
(* line callbacks get the lines of the output that a newline ends, for any *)
(* amount of output and however the reads cut it into chunks.              *)
(***************************************************************************)
EXTENDS Run, SequenceTheorems, FiniteSetTheorems, WellFoundedInduction, TLAPS

Output == Stream \cup {"poll"}
Location == {"alive", "time", "feed", "poll", "wait", "left", "break", "done", "error",
             "interrupted"} \cup Stream
Child == [st : {"run", "dead"}, code : {0, SIGTERM, SIGKILL}, op : Stream \cup {"free"}]

\* The variables that are Boolean.
FlagType ==
    /\ late \in BOOLEAN /\ drain \in BOOLEAN /\ ok \in BOOLEAN
    /\ timeout \in BOOLEAN /\ lost \in BOOLEAN /\ spoiled \in BOOLEAN

\* The other types, with texts of any length.
RunType ==
    /\ mode \in Modes
    /\ child \in Child
    /\ holds \in [Output -> SUBSET {"child", "other"}]
    /\ con \in [Output -> [eof : BOOLEAN, closed : BOOLEAN]]
    /\ pipe \in [Stream -> Seq(Char)] /\ written \in [Stream -> Seq(Char)]
    /\ buf \in [Stream -> Seq(Char)] /\ pushback \in [Stream -> Seq(Char)]
    /\ lines \in [Stream -> Seq(Seq(Char))]
    /\ tty \in 0..TtySize
    /\ feed \in [left : 0..MaxIn, eof : BOOLEAN]
    /\ pc \in Location
    /\ cleanup \in {"no", "kill", "tree"}

\* What was written is what run() has and what is in the pipe, unless a callback has
\* thrown.  Who writes has the stream open, and nobody has it open when its end was
\* read.
PipeInv ==
    /\ \A s \in Stream : Len(pipe[s]) <= PipeSize
    /\ pc # "error" => \A s \in Stream : written[s] = buf[s] \o pipe[s]
    /\ child.op # "free" => Running /\ "child" \in holds[child.op]
    /\ \A s \in Stream : con[s].eof => pipe[s] = <<>> /\ holds[s] = {}

\* The bounds of the texts.
SizeInv ==
    /\ Amount <= MaxOut
    /\ \A s \in Stream : /\ Len(buf[s]) + Len(pipe[s]) <= Len(written[s])
                         /\ Len(pushback[s]) <= Len(buf[s])

\* The second loop begins when the process is over.
LoopInv ==
    /\ pc \in {"alive", "time", "feed", "wait"} => ~drain
    /\ pc \in {"left", "break", "done"} => drain
    /\ drain \/ Over => ~Running
    /\ pc = "break" => spoiled
    /\ pc = "done" /\ ~spoiled => \A s \in Piped : con[s].eof

\* Nobody survives the end of the tree.
TreeInv == cleanup = "tree" => \A c \in Output : holds[c] = {}

\* What has become of the process.
KillInv ==
    /\ Running => child.code = 0 /\ ~lost
    /\ timeout => /\ drain \/ pc \in {"wait", "interrupted"}
                  /\ ~Running /\ late /\ ~lost /\ child.code # 0
    /\ lost => late \/ spoiled \/ pc \in {"error", "interrupted"}
    /\ child.code # 0 => timeout \/ spoiled \/ pc \in {"error", "interrupted"}

\* The callbacks were called with the first of the lines that are in the buffer: with
\* all of them, and what comes after the last is remembered, as long as there was no
\* error and no interrupt.
Begins(a, b) == Len(a) <= Len(b) /\ a = SubSeq(b, 1, Len(a))
LineInv ==
    /\ \A s \in Stream : Begins(lines[s], Lines(buf[s]))
    /\ pc \notin {"interrupted", "error"} =>
          \A s \in Stream : lines[s] = Lines(buf[s]) /\ pushback[s] = Rest(buf[s])

IInv ==
    /\ FlagType /\ RunType
    /\ PipeInv /\ SizeInv /\ LoopInv /\ TreeInv /\ KillInv /\ LineInv

-----------------------------------------------------------------------------
(***************************************************************************)
(* Counting newlines.                                                      *)
(***************************************************************************)
\* A set of numbers has a least element.
LEMMA LeastNumber ==
    ASSUME NEW T, T \subseteq Nat, T # {}
    PROVE  \E m \in T : \A k \in T : m <= k
<1> DEFINE R == OpToRel(<, Nat)
<1>1. IsWellFoundedOn(R, Nat)
  BY NatLessThanWellFounded
<1> HIDE DEF R
<1>2. PICK x \in T : \A y \in T : ~ (<<y, x>> \in R)
  BY <1>1, WFMin
<1>3. \A y \in T : y < x => <<y, x>> \in R
  BY DEF R, OpToRel
<1>4. \A y \in T : y \in Nat
  OBVIOUS
<1>5. ASSUME NEW y \in T PROVE x <= y
  <2>1. x \in Nat /\ y \in Nat /\ ~ (y < x)
    BY <1>2, <1>3, <1>4
  <2>2. QED
    BY <2>1
<1>6. QED
  BY <1>5

\* A set that contains 0, and with each number below n also the next one.
LEMMA UpTo ==
    ASSUME NEW n \in Nat, NEW T, 0 \in T, \A i \in 0..(n - 1) : i \in T => i + 1 \in T
    PROVE  \A i \in 0..n : i \in T
<1> DEFINE Bad == {i \in 0..n : i \notin T}
<1>1. SUFFICES ASSUME Bad # {} PROVE FALSE
  OBVIOUS
<1>2. PICK m \in Bad : \A k \in Bad : m <= k
  <2>1. Bad \subseteq Nat
    OBVIOUS
  <2> HIDE DEF Bad
  <2>2. QED
    BY <1>1, <2>1, LeastNumber
<1>3. m # 0 /\ m - 1 \in 0..(n - 1)
  OBVIOUS
<1>4. m - 1 \in T
  BY <1>2, <1>3
<1>5. QED
  BY <1>3, <1>4

\* Newlines are counted one by one.
LEMMA Count ==
    ASSUME NEW s, NEW i \in Nat
    PROVE  /\ NewlinesTo(s, i) \in Nat
           /\ NewlinesTo(s, 0) = 0
           /\ s[i + 1] = "n" => NewlinesTo(s, i + 1) = NewlinesTo(s, i) + 1
           /\ s[i + 1] # "n" => NewlinesTo(s, i + 1) = NewlinesTo(s, i)
<1> DEFINE S(k) == {j \in 1..k : s[j] = "n"}
<1>1. S(0) = {}
  OBVIOUS
<1>2. IsFiniteSet(S(i))
  <2>1. IsFiniteSet(1..i)
    BY FS_Interval
  <2>2. S(i) \in SUBSET (1..i)
    OBVIOUS
  <2> HIDE DEF S
  <2>3. QED
    BY <2>1, <2>2, FS_Subset
<1>3. s[i + 1] = "n" => S(i + 1) = S(i) \cup {i + 1}
  OBVIOUS
<1>4. s[i + 1] # "n" => S(i + 1) = S(i)
  OBVIOUS
<1>5. i + 1 \notin S(i)
  OBVIOUS
<1>6. \A k : NewlinesTo(s, k) = Cardinality(S(k))
  BY DEF NewlinesTo
<1> HIDE DEF S
<1>7. Cardinality(S(i)) \in Nat
  BY <1>2, FS_CardinalityType
<1>8. Cardinality(S(i) \cup {i + 1}) = Cardinality(S(i)) + 1
  BY <1>2, <1>5, FS_AddElement
<1>9. QED
  BY <1>1, <1>3, <1>4, <1>6, <1>7, <1>8, FS_EmptySet

\* The count only grows, and grows at a newline.
LEMMA CountGrows ==
    ASSUME NEW s, NEW j \in Nat, NEW i \in 0..j
    PROVE  /\ NewlinesTo(s, i) <= NewlinesTo(s, j)
           /\ i < j /\ s[j] = "n" => NewlinesTo(s, i) < NewlinesTo(s, j)
<1> DEFINE T == {k \in Nat : i <= k => NewlinesTo(s, i) <= NewlinesTo(s, k)}
<1>0. NewlinesTo(s, i) \in Nat /\ NewlinesTo(s, j) \in Nat
  BY Count
<1>1. 0 \in T
  BY <1>0
<1>2. ASSUME NEW k \in 0..(j - 1), k \in T PROVE k + 1 \in T
  <2>1. CASE i = k + 1
    BY <2>1, <1>0
  <2>2. CASE i # k + 1
    <3>1. /\ NewlinesTo(s, k) \in Nat
          /\ NewlinesTo(s, k + 1) = NewlinesTo(s, k) + 1 \/ NewlinesTo(s, k + 1) = NewlinesTo(s, k)
      BY Count
    <3>2. i <= k + 1 => NewlinesTo(s, i) <= NewlinesTo(s, k)
      BY <1>2, <2>2
    <3>3. QED
      BY <3>1, <3>2, <1>0
  <2>3. QED
    BY <2>1, <2>2
<1>3. \A k \in 0..j : i <= k => NewlinesTo(s, i) <= NewlinesTo(s, k)
  <2> HIDE DEF T
  <2>1. \A k \in 0..j : k \in T
    BY <1>1, <1>2, UpTo
  <2>2. QED
    BY <2>1 DEF T
<1>4. ASSUME i < j, s[j] = "n" PROVE NewlinesTo(s, i) < NewlinesTo(s, j)
  <2>1. j - 1 \in Nat /\ (j - 1) + 1 = j
    BY <1>4
  <2>2. NewlinesTo(s, j) = NewlinesTo(s, j - 1) + 1 /\ NewlinesTo(s, j - 1) \in Nat
    BY <1>4, <2>1, Count
  <2>3. NewlinesTo(s, i) <= NewlinesTo(s, j - 1)
    BY <1>3, <1>4, <2>1
  <2>4. QED
    BY <2>2, <2>3, <1>0
<1>5. QED
  BY <1>3, <1>4

\* The newlines of two sequences together.
LEMMA CountConcat ==
    ASSUME NEW C, NEW a \in Seq(C), NEW b \in Seq(C)
    PROVE  /\ \A i \in 0..Len(a) : NewlinesTo(a \o b, i) = NewlinesTo(a, i)
           /\ \A j \in 0..Len(b) :
                 NewlinesTo(a \o b, Len(a) + j) = NewlinesTo(a, Len(a)) + NewlinesTo(b, j)
<1>1. /\ \A i \in 1..Len(a) : (a \o b)[i] = a[i]
      /\ \A j \in 1..Len(b) : (a \o b)[Len(a) + j] = b[j]
      /\ Len(a) \in Nat /\ Len(b) \in Nat
  OBVIOUS
<1> DEFINE c == a \o b
<1> HIDE DEF c
<1>2. \A i \in 0..Len(a) : NewlinesTo(c, i) = NewlinesTo(a, i)
  <2> DEFINE T == {i \in Nat : NewlinesTo(c, i) = NewlinesTo(a, i)}
  <2>1. 0 \in T
    BY Count
  <2>2. ASSUME NEW i \in 0..(Len(a) - 1), i \in T PROVE i + 1 \in T
    <3>1. c[i + 1] = a[i + 1] /\ i \in Nat /\ i + 1 \in Nat
      BY <1>1 DEF c
    <3>2. NewlinesTo(c, i + 1) = NewlinesTo(a, i + 1)
      <4>1. CASE a[i + 1] = "n"
        BY <4>1, <2>2, <3>1, Count
      <4>2. CASE a[i + 1] # "n"
        BY <4>2, <2>2, <3>1, Count
      <4>3. QED
        BY <4>1, <4>2
    <3>3. QED
      BY <3>1, <3>2
  <2> HIDE DEF T
  <2>3. \A i \in 0..Len(a) : i \in T
    BY <1>1, <2>1, <2>2, UpTo
  <2>4. QED
    BY <2>3 DEF T
<1>3. \A j \in 0..Len(b) : NewlinesTo(c, Len(a) + j) = NewlinesTo(a, Len(a)) + NewlinesTo(b, j)
  <2> DEFINE n == NewlinesTo(a, Len(a))
             T == {j \in Nat : NewlinesTo(c, Len(a) + j) = n + NewlinesTo(b, j)}
  <2>0. n \in Nat
    BY <1>1, Count
  <2>1. 0 \in T
    <3>1. NewlinesTo(b, 0) = 0 /\ Len(a) + 0 = Len(a) /\ Len(a) \in 0..Len(a)
      BY <1>1, Count
    <3>2. QED
      BY <3>1, <2>0, <1>2
  <2>2. ASSUME NEW j \in 0..(Len(b) - 1), j \in T PROVE j + 1 \in T
    <3>1. /\ c[(Len(a) + j) + 1] = b[j + 1] /\ j \in Nat /\ Len(a) + j \in Nat
          /\ Len(a) + (j + 1) = (Len(a) + j) + 1 /\ j + 1 \in Nat
      BY <1>1 DEF c
    <3>2. NewlinesTo(b, j) \in Nat /\ NewlinesTo(c, Len(a) + j) = n + NewlinesTo(b, j)
      BY <2>2, Count
    <3>3. NewlinesTo(c, (Len(a) + j) + 1) = n + NewlinesTo(b, j + 1)
      <4> HIDE DEF n
      <4>1. CASE b[j + 1] = "n"
        <5>1. NewlinesTo(c, (Len(a) + j) + 1) = NewlinesTo(c, Len(a) + j) + 1
          BY <4>1, <3>1, Count
        <5>2. NewlinesTo(b, j + 1) = NewlinesTo(b, j) + 1
          BY <4>1, <3>1, Count
        <5>3. QED
          BY <5>1, <5>2, <3>2, <2>0
      <4>2. CASE b[j + 1] # "n"
        <5>1. NewlinesTo(c, (Len(a) + j) + 1) = NewlinesTo(c, Len(a) + j)
          BY <4>2, <3>1, Count
        <5>2. NewlinesTo(b, j + 1) = NewlinesTo(b, j)
          BY <4>2, <3>1, Count
        <5>3. QED
          BY <5>1, <5>2, <3>2, <2>0
      <4>3. QED
        BY <4>1, <4>2
    <3>4. QED
      BY <3>1, <3>3
  <2> HIDE DEF T
  <2>3. \A j \in 0..Len(b) : j \in T
    BY <1>1, <2>1, <2>2, UpTo
  <2>4. QED
    BY <2>3 DEF T, n
<1>4. QED
  BY <1>2, <1>3 DEF c

-----------------------------------------------------------------------------
(***************************************************************************)
(* The ends of lines.                                                      *)
(***************************************************************************)
All(s) == NewlinesTo(s, Len(s))

\* Every line has one end.
LEMMA EolExists ==
    ASSUME NEW C, NEW s \in Seq(C), NEW l \in 1..All(s)
    PROVE  \E i \in DOMAIN s : s[i] = "n" /\ NewlinesTo(s, i) = l
<1>0. Len(s) \in Nat /\ DOMAIN s = 1..Len(s) /\ All(s) \in Nat
  BY Count DEF All
<1> DEFINE T == {i \in 0..Len(s) : NewlinesTo(s, i) >= l}
<1>1. PICK m \in T : \A k \in T : m <= k
  <2>1. T \subseteq Nat /\ Len(s) \in T
    BY <1>0 DEF All
  <2> HIDE DEF T
  <2>2. QED
    BY <2>1, LeastNumber
<1>2. m \in 1..Len(s) /\ m - 1 \in Nat /\ m - 1 \in 0..Len(s) /\ (m - 1) + 1 = m
  <2>1. NewlinesTo(s, 0) = 0
    BY Count
  <2>2. QED
    BY <1>0, <1>1, <2>1
<1>3. ~ (NewlinesTo(s, m - 1) >= l)
  BY <1>1, <1>2
<1>4. /\ NewlinesTo(s, m - 1) \in Nat
      /\ s[m] = "n" => NewlinesTo(s, m) = NewlinesTo(s, m - 1) + 1
      /\ s[m] # "n" => NewlinesTo(s, m) = NewlinesTo(s, m - 1)
  BY <1>2, Count
<1>5. NewlinesTo(s, m) >= l
  BY <1>1
<1>6. s[m] = "n" /\ NewlinesTo(s, m) = l
  BY <1>3, <1>4, <1>5
<1>7. QED
  BY <1>0, <1>2, <1>6

\* Two ends are ends of different lines.
LEMMA EolUnique ==
    ASSUME NEW C, NEW s \in Seq(C), NEW i \in DOMAIN s, NEW j \in DOMAIN s,
           s[i] = "n", s[j] = "n", NewlinesTo(s, i) = NewlinesTo(s, j)
    PROVE  i = j
<1>1. i \in Nat /\ j \in Nat /\ NewlinesTo(s, i) \in Nat
  <2>1. i \in Nat /\ j \in Nat
    OBVIOUS
  <2>2. QED
    BY <2>1, Count
<1>2. CASE i < j
  BY <1>1, <1>2, CountGrows
<1>3. CASE j < i
  BY <1>1, <1>3, CountGrows
<1>4. QED
  BY <1>1, <1>2, <1>3

\* What Eol is, and that it is the only one.
LEMMA EolOf ==
    ASSUME NEW C, NEW s \in Seq(C), NEW l \in 1..All(s)
    PROVE  /\ Eol(s, l) \in 1..Len(s)
           /\ s[Eol(s, l)] = "n" /\ NewlinesTo(s, Eol(s, l)) = l
           /\ \A i \in 1..Len(s) : s[i] = "n" /\ NewlinesTo(s, i) = l => Eol(s, l) = i
<1>1. l # 0 /\ DOMAIN s = 1..Len(s)
  OBVIOUS
<1> DEFINE P(i) == s[i] = "n" /\ NewlinesTo(s, i) = l
<1>2. \E i \in DOMAIN s : P(i)
  BY EolExists
<1>3. Eol(s, l) = CHOOSE i \in DOMAIN s : P(i)
  BY <1>1 DEF Eol
<1>4. Eol(s, l) \in DOMAIN s /\ P(Eol(s, l))
  <2> HIDE DEF P
  <2>1. QED
    BY <1>2, <1>3
<1>5. QED
  BY <1>1, <1>4, EolUnique

\* The end of line 0 is 0.
LEMMA EolZero == ASSUME NEW s PROVE Eol(s, 0) = 0
  BY DEF Eol

\* Ends are in order.
LEMMA EolRange ==
    ASSUME NEW C, NEW s \in Seq(C), NEW l \in 0..All(s)
    PROVE  /\ Eol(s, l) \in 0..Len(s) /\ NewlinesTo(s, Eol(s, l)) = l
           /\ l > 0 => Eol(s, l - 1) < Eol(s, l)
<1>0. Len(s) \in Nat /\ All(s) \in Nat /\ NewlinesTo(s, 0) = 0
  BY Count DEF All
<1>1. ASSUME NEW k \in 0..All(s)
      PROVE  Eol(s, k) \in 0..Len(s) /\ NewlinesTo(s, Eol(s, k)) = k
  <2>1. CASE k = 0
    BY <2>1, <1>0, EolZero
  <2>2. CASE k # 0
    <3>1. k \in 1..All(s)
      BY <2>2, <1>0
    <3>2. QED
      BY <3>1, <1>0, EolOf
  <2>3. QED
    BY <2>1, <2>2
<1>2. ASSUME l > 0 PROVE Eol(s, l - 1) < Eol(s, l)
  <2>1. l - 1 \in 0..All(s) /\ l \in Nat
    BY <1>0, <1>2
  <2>2. Eol(s, l - 1) \in 0..Len(s) /\ NewlinesTo(s, Eol(s, l - 1)) = l - 1
    BY <1>1, <2>1
  <2>3. Eol(s, l) \in 0..Len(s) /\ NewlinesTo(s, Eol(s, l)) = l
    BY <1>1
  <2>4. ASSUME Eol(s, l) <= Eol(s, l - 1) PROVE FALSE
    <3>1. Eol(s, l) \in 0..Eol(s, l - 1) /\ Eol(s, l - 1) \in Nat
      BY <2>2, <2>3, <2>4
    <3>2. NewlinesTo(s, Eol(s, l)) <= NewlinesTo(s, Eol(s, l - 1))
      BY <3>1, CountGrows
    <3>3. QED
      BY <3>2, <2>1, <2>2, <2>3
  <2>5. QED
    BY <2>2, <2>3, <2>4
<1>3. QED
  BY <1>1, <1>2

\* The ends of the lines of two sequences together.
LEMMA EolConcat ==
    ASSUME NEW C, NEW a \in Seq(C), NEW b \in Seq(C)
    PROVE  /\ All(a \o b) = All(a) + All(b) /\ All(a) \in Nat /\ All(b) \in Nat
           /\ \A l \in 0..All(a) : Eol(a \o b, l) = Eol(a, l)
           /\ \A l \in 1..All(b) : Eol(a \o b, All(a) + l) = Len(a) + Eol(b, l)
<1> DEFINE c == a \o b
<1>0. /\ c \in Seq(C) /\ Len(c) = Len(a) + Len(b) /\ Len(a) \in Nat /\ Len(b) \in Nat
      /\ \A i \in 1..Len(a) : c[i] = a[i]
      /\ \A j \in 1..Len(b) : c[Len(a) + j] = b[j]
  OBVIOUS
<1>1. /\ \A i \in 0..Len(a) : NewlinesTo(c, i) = NewlinesTo(a, i)
      /\ \A j \in 0..Len(b) : NewlinesTo(c, Len(a) + j) = All(a) + NewlinesTo(b, j)
  BY CountConcat DEF All
<1> HIDE DEF c
<1>2. All(c) = All(a) + All(b) /\ All(a) \in Nat /\ All(b) \in Nat
  BY <1>0, <1>1, Count DEF All
<1>3. ASSUME NEW l \in 0..All(a) PROVE Eol(c, l) = Eol(a, l)
  <2>1. CASE l = 0
    BY <2>1, EolZero
  <2>2. CASE l # 0
    <3>1. l \in 1..All(a) /\ l \in 1..All(c)
      BY <2>2, <1>2
    <3>2. Eol(a, l) \in 1..Len(a) /\ a[Eol(a, l)] = "n" /\ NewlinesTo(a, Eol(a, l)) = l
      BY <3>1, EolOf
    <3>3. Eol(a, l) \in 1..Len(c) /\ c[Eol(a, l)] = "n" /\ NewlinesTo(c, Eol(a, l)) = l
      BY <3>2, <1>0, <1>1
    <3>4. QED
      BY <3>1, <3>3, <1>0, EolOf
  <2>3. QED
    BY <2>1, <2>2
<1>4. ASSUME NEW l \in 1..All(b) PROVE Eol(c, All(a) + l) = Len(a) + Eol(b, l)
  <2>1. All(a) + l \in 1..All(c)
    BY <1>2
  <2>2. Eol(b, l) \in 1..Len(b) /\ b[Eol(b, l)] = "n" /\ NewlinesTo(b, Eol(b, l)) = l
    BY EolOf
  <2>3. /\ Len(a) + Eol(b, l) \in 1..Len(c) /\ c[Len(a) + Eol(b, l)] = "n"
        /\ NewlinesTo(c, Len(a) + Eol(b, l)) = All(a) + l
    BY <2>2, <1>0, <1>1
  <2>4. QED
    BY <2>1, <2>3, <1>0, EolOf
<1>5. QED
  BY <1>2, <1>3, <1>4 DEF c

-----------------------------------------------------------------------------
(***************************************************************************)
(* Lines and what is left behind them.                                     *)
(***************************************************************************)
\* A part of one of two sequences is a part of both together.
LEMMA SubConcat ==
    ASSUME NEW C, NEW a \in Seq(C), NEW b \in Seq(C), NEW i \in Nat \ {0}, NEW j \in Int
    PROVE  /\ j <= Len(a) => SubSeq(a \o b, i, j) = SubSeq(a, i, j)
           /\ j <= Len(b) => SubSeq(a \o b, Len(a) + i, Len(a) + j) = SubSeq(b, i, j)
<1> DEFINE c == a \o b
<1>0. /\ Len(a) \in Nat /\ Len(b) \in Nat
      /\ \A k \in 1..Len(a) : c[k] = a[k] /\ a[k] \in C
      /\ \A k \in 1..Len(b) : c[Len(a) + k] = b[k] /\ b[k] \in C
  OBVIOUS
<1> HIDE DEF c
<1>1. ASSUME j <= Len(a) PROVE SubSeq(c, i, j) = SubSeq(a, i, j)
  <2>1. \A k \in i..j : k \in 1..Len(a)
    BY <1>0, <1>1
  <2>2. \A k \in i..j : c[k] \in C /\ a[k] \in C
    BY <2>1, <1>0
  <2>3. /\ SubSeq(c, i, j) \in Seq(C) /\ SubSeq(a, i, j) \in Seq(C)
        /\ Len(SubSeq(c, i, j)) = (IF i <= j THEN j - i + 1 ELSE 0)
        /\ Len(SubSeq(a, i, j)) = (IF i <= j THEN j - i + 1 ELSE 0)
        /\ \A k \in 1..(j - i + 1) : SubSeq(c, i, j)[k] = c[i + k - 1]
        /\ \A k \in 1..(j - i + 1) : SubSeq(a, i, j)[k] = a[i + k - 1]
    BY <2>2, SubSeqProperties
  <2>4. \A k \in 1..(j - i + 1) : i + k - 1 \in i..j
    OBVIOUS
  <2>5. \A k \in 1..(j - i + 1) : c[i + k - 1] = a[i + k - 1]
    BY <2>1, <2>4, <1>0
  <2>6. \A k \in 1..Len(SubSeq(c, i, j)) : SubSeq(c, i, j)[k] = SubSeq(a, i, j)[k]
    BY <2>3, <2>5
  <2>7. QED
    BY <2>3, <2>6, SeqEqual
<1>2. ASSUME j <= Len(b) PROVE SubSeq(c, Len(a) + i, Len(a) + j) = SubSeq(b, i, j)
  <2> DEFINE m == Len(a) + i
             n == Len(a) + j
  <2>1. \A k \in i..j : k \in 1..Len(b)
    BY <1>0, <1>2
  <2>2. \A k \in m..n : c[k] \in C
    <3>1. \A k \in m..n : k - Len(a) \in i..j /\ Len(a) + (k - Len(a)) = k
      BY <1>0
    <3>2. QED
      BY <3>1, <2>1, <1>0
  <2>3. \A k \in i..j : b[k] \in C
    BY <2>1, <1>0
  <2>4. m \in Int /\ n \in Int /\ n - m = j - i /\ (m <= n <=> i <= j)
    BY <1>0
  <2> HIDE DEF m, n
  <2>5. /\ SubSeq(c, m, n) \in Seq(C) /\ SubSeq(b, i, j) \in Seq(C)
        /\ Len(SubSeq(c, m, n)) = (IF m <= n THEN n - m + 1 ELSE 0)
        /\ Len(SubSeq(b, i, j)) = (IF i <= j THEN j - i + 1 ELSE 0)
        /\ \A k \in 1..(n - m + 1) : SubSeq(c, m, n)[k] = c[m + k - 1]
        /\ \A k \in 1..(j - i + 1) : SubSeq(b, i, j)[k] = b[i + k - 1]
    BY <2>2, <2>3, <2>4, SubSeqProperties
  <2>6. ASSUME NEW k \in 1..(j - i + 1) PROVE c[m + k - 1] = b[i + k - 1]
    <3>1. i + k - 1 \in 1..Len(b) /\ m + k - 1 = Len(a) + (i + k - 1)
      BY <1>0, <1>2 DEF m
    <3>2. QED
      BY <3>1, <1>0
  <2>7. \A k \in 1..Len(SubSeq(c, m, n)) : SubSeq(c, m, n)[k] = SubSeq(b, i, j)[k]
    BY <2>4, <2>5, <2>6
  <2>8. SubSeq(c, m, n) = SubSeq(b, i, j)
    <3>1. Len(SubSeq(c, m, n)) = Len(SubSeq(b, i, j))
      BY <2>4, <2>5
    <3>2. QED
      BY <3>1, <2>5, <2>7, SeqEqual
  <2>9. QED
    BY <2>8 DEF m, n
<1>3. QED
  BY <1>1, <1>2 DEF c

\* Where the text of line l ends: before its newline, or before the carriage return.
End(s, l) == IF Eol(s, l) > 1 /\ s[Eol(s, l) - 1] = "r" THEN Eol(s, l) - 2 ELSE Eol(s, l) - 1
Line(s, l) == SubSeq(s, Eol(s, l - 1) + 1, End(s, l))

\* The definitions, by these names.
LEMMA LinesOf ==
    ASSUME NEW s
    PROVE  /\ Lines(s) = [l \in 1..All(s) |-> Line(s, l)]
           /\ Rest(s) = SubSeq(s, Eol(s, All(s)) + 1, Len(s))
  BY DEF Lines, Line, End, Rest, Drop, All

\* They are sequences of characters, none longer than the whole.
LEMMA LineTypes ==
    ASSUME NEW C, NEW s \in Seq(C)
    PROVE  /\ Lines(s) \in Seq(Seq(C)) /\ Len(Lines(s)) = All(s)
           /\ \A l \in 1..All(s) : Len(Lines(s)[l]) <= Len(s)
           /\ Rest(s) \in Seq(C) /\ Len(Rest(s)) <= Len(s)
<1>0. /\ Len(s) \in Nat /\ All(s) \in Nat
      /\ \A i \in 1..Len(s) : s[i] \in C
  BY Count DEF All
<1>1. ASSUME NEW m \in Nat \ {0}, NEW n \in Int, n <= Len(s)
      PROVE  SubSeq(s, m, n) \in Seq(C) /\ Len(SubSeq(s, m, n)) <= Len(s)
  <2>1. \A i \in m..n : s[i] \in C
    BY <1>0, <1>1
  <2>2. /\ SubSeq(s, m, n) \in Seq(C)
        /\ Len(SubSeq(s, m, n)) = (IF m <= n THEN n - m + 1 ELSE 0)
    BY <2>1, SubSeqProperties
  <2>3. QED
    BY <2>2, <1>0, <1>1
<1>2. ASSUME NEW l \in 1..All(s) PROVE Line(s, l) \in Seq(C) /\ Len(Line(s, l)) <= Len(s)
  <2>1. l - 1 \in 0..All(s) /\ l \in 0..All(s)
    BY <1>0
  <2>2. Eol(s, l - 1) \in 0..Len(s) /\ Eol(s, l) \in 0..Len(s)
    BY <2>1, EolRange
  <2>3. Eol(s, l - 1) + 1 \in Nat \ {0} /\ End(s, l) \in Int /\ End(s, l) <= Len(s)
    BY <2>2, <1>0 DEF End
  <2>4. QED
    BY <2>3, <1>1 DEF Line
<1>3. Rest(s) \in Seq(C) /\ Len(Rest(s)) <= Len(s)
  <2>1. Eol(s, All(s)) \in 0..Len(s)
    BY <1>0, EolRange
  <2>2. Eol(s, All(s)) + 1 \in Nat \ {0} /\ Len(s) \in Int /\ Len(s) <= Len(s)
    BY <2>1, <1>0
  <2>3. SubSeq(s, Eol(s, All(s)) + 1, Len(s)) \in Seq(C)
        /\ Len(SubSeq(s, Eol(s, All(s)) + 1, Len(s))) <= Len(s)
    BY <2>2, <1>1
  <2>4. QED
    BY <2>3, LinesOf
<1>4. Lines(s) \in Seq(Seq(C)) /\ Len(Lines(s)) = All(s)
  <2>1. Lines(s) \in [1..All(s) -> Seq(C)]
    BY <1>2, LinesOf
  <2>2. QED
    BY <2>1, <1>0
<1>5. QED
  BY <1>2, <1>3, <1>4, LinesOf

\* Whole lines and another text.
LEMMA LinesConcat ==
    ASSUME NEW C, NEW p \in Seq(C), NEW d \in Seq(C), p = <<>> \/ p[Len(p)] = "n"
    PROVE  Lines(p \o d) = Lines(p) \o Lines(d) /\ Rest(p \o d) = Rest(d)
<1> DEFINE c == p \o d
           n == All(p)
<1>0. /\ c \in Seq(C) /\ Len(c) = Len(p) + Len(d) /\ Len(p) \in Nat /\ Len(d) \in Nat
      /\ \A i \in 1..Len(p) : c[i] = p[i]
      /\ \A j \in 1..Len(d) : c[Len(p) + j] = d[j]
  OBVIOUS
<1>a. \A i \in Nat \ {0}, j \in Int :
         /\ j <= Len(p) => SubSeq(c, i, j) = SubSeq(p, i, j)
         /\ j <= Len(d) => SubSeq(c, Len(p) + i, Len(p) + j) = SubSeq(d, i, j)
  BY SubConcat
<1>1. /\ All(c) = n + All(d) /\ n \in Nat /\ All(d) \in Nat
      /\ \A l \in 0..n : Eol(c, l) = Eol(p, l)
      /\ \A l \in 1..All(d) : Eol(c, n + l) = Len(p) + Eol(d, l)
  BY EolConcat
<1>2. Eol(p, n) = Len(p)
  <2>1. CASE p = <<>>
    <3>1. Len(p) = 0 /\ n = 0
      BY <2>1, Count DEF All
    <3>2. QED
      BY <3>1, EolZero
  <2>2. CASE p # <<>> /\ p[Len(p)] = "n"
    <3>1. Len(p) \in 1..Len(p) /\ (Len(p) - 1) + 1 = Len(p) /\ Len(p) - 1 \in Nat
      BY <2>2, <1>0, EmptySeq
    <3>2. n = NewlinesTo(p, Len(p) - 1) + 1 /\ NewlinesTo(p, Len(p) - 1) \in Nat
      BY <2>2, <3>1, Count DEF All
    <3>3. n \in 1..All(p) /\ NewlinesTo(p, Len(p)) = n
      BY <3>2, <1>1 DEF All
    <3>4. QED
      BY <2>2, <3>1, <3>3, EolOf
  <2>3. QED
    BY <2>1, <2>2
<1>3. \A l \in 0..All(d) : Eol(c, n + l) = Len(p) + Eol(d, l)
  <2>1. Eol(c, n + 0) = Len(p) + Eol(d, 0)
    <3>1. n \in 0..n /\ n + 0 = n
      BY <1>1
    <3>2. QED
      BY <3>1, <1>0, <1>1, <1>2, EolZero
  <2>2. \A l \in 0..All(d) : l = 0 \/ l \in 1..All(d)
    BY <1>1
  <2>3. QED
    BY <2>1, <2>2, <1>1
<1> HIDE DEF c, n
<1>4. ASSUME NEW l \in 1..n PROVE Line(c, l) = Line(p, l)
  <2>1. l \in 0..n /\ l - 1 \in 0..n /\ l - 1 \in Nat
    BY <1>1
  <2>2. Eol(c, l) = Eol(p, l) /\ Eol(c, l - 1) = Eol(p, l - 1)
    BY <2>1, <1>1
  <2>3. Eol(p, l) \in 0..Len(p) /\ Eol(p, l - 1) \in 0..Len(p)
    BY <2>1, EolRange DEF n
  <2>4. Eol(p, l) > 1 => c[Eol(p, l) - 1] = p[Eol(p, l) - 1]
    <3>1. Eol(p, l) > 1 => Eol(p, l) - 1 \in 1..Len(p)
      BY <2>3, <1>0
    <3>2. QED
      BY <3>1, <1>0
  <2>5. End(c, l) = End(p, l)
    BY <2>2, <2>4 DEF End
  <2>6. Eol(p, l - 1) + 1 \in Nat \ {0} /\ End(p, l) \in Int /\ End(p, l) <= Len(p)
    BY <2>3, <1>0 DEF End
  <2>7. SubSeq(c, Eol(p, l - 1) + 1, End(p, l)) = SubSeq(p, Eol(p, l - 1) + 1, End(p, l))
    BY <2>6, <1>a
  <2>8. QED
    BY <2>2, <2>5, <2>7 DEF Line
<1>5. ASSUME NEW l \in 1..All(d) PROVE Line(c, n + l) = Line(d, l)
  <2>1. l \in 0..All(d) /\ l - 1 \in 0..All(d) /\ (n + l) - 1 = n + (l - 1)
    BY <1>1
  <2>2. Eol(c, n + l) = Len(p) + Eol(d, l) /\ Eol(c, (n + l) - 1) = Len(p) + Eol(d, l - 1)
    BY <2>1, <1>3
  <2>3. Eol(d, l) \in 1..Len(d) /\ Eol(d, l - 1) \in 0..Len(d)
    BY <2>1, EolRange, EolOf
  <2>4. /\ Eol(d, l) > 1 => c[(Len(p) + Eol(d, l)) - 1] = d[Eol(d, l) - 1]
        /\ Eol(d, l) = 1 /\ Len(p) > 0 => c[(Len(p) + Eol(d, l)) - 1] = "n"
    <3>1. ASSUME Eol(d, l) > 1
          PROVE  c[(Len(p) + Eol(d, l)) - 1] = d[Eol(d, l) - 1]
      <4>1. Eol(d, l) - 1 \in 1..Len(d)
        BY <3>1, <2>3, <1>0
      <4>2. Len(p) + (Eol(d, l) - 1) = (Len(p) + Eol(d, l)) - 1
        BY <2>3, <1>0
      <4>3. QED
        BY <4>1, <4>2, <1>0
    <3>2. ASSUME Len(p) > 0, Eol(d, l) = 1
          PROVE  c[(Len(p) + Eol(d, l)) - 1] = "n"
      <4>1. p # <<>> /\ Len(p) \in 1..Len(p) /\ (Len(p) + Eol(d, l)) - 1 = Len(p)
        BY <1>0, <3>2
      <4>2. QED
        BY <4>1, <1>0
    <3>3. QED
      BY <3>1, <3>2
  <2>5. End(c, n + l) = Len(p) + End(d, l)
    <3>1. CASE Eol(d, l) > 1
      <4>1. Len(p) + Eol(d, l) > 1 /\ Eol(d, l) \in Nat /\ Len(p) \in Nat
        BY <3>1, <2>3, <1>0
      <4>2. CASE d[Eol(d, l) - 1] = "r"
        BY <3>1, <4>1, <4>2, <2>2, <2>4 DEF End
      <4>3. CASE d[Eol(d, l) - 1] # "r"
        BY <3>1, <4>1, <4>3, <2>2, <2>4 DEF End
      <4>4. QED
        BY <4>2, <4>3
    <3>2. CASE Eol(d, l) = 1
      <4>1. ~ (Len(p) + 1 > 1 /\ c[(Len(p) + 1) - 1] = "r") /\ Len(p) \in Nat
        BY <3>2, <2>4, <1>0
      <4>2. QED
        BY <3>2, <4>1, <2>2 DEF End
    <3>3. QED
      BY <3>1, <3>2, <2>3
  <2>6. Eol(d, l - 1) + 1 \in Nat \ {0} /\ End(d, l) \in Int /\ End(d, l) <= Len(d)
    BY <2>3, <1>0 DEF End
  <2>7. SubSeq(c, Len(p) + (Eol(d, l - 1) + 1), Len(p) + End(d, l))
          = SubSeq(d, Eol(d, l - 1) + 1, End(d, l))
    BY <2>6, <1>a
  <2>8. Eol(c, (n + l) - 1) + 1 = Len(p) + (Eol(d, l - 1) + 1)
    BY <2>2, <2>3, <1>0
  <2>9. QED
    BY <2>5, <2>7, <2>8 DEF Line
<1>6. Lines(c) = Lines(p) \o Lines(d)
  <2>1. /\ Lines(c) \in Seq(Seq(C)) /\ Len(Lines(c)) = n + All(d)
        /\ Lines(p) \in Seq(Seq(C)) /\ Len(Lines(p)) = n
        /\ Lines(d) \in Seq(Seq(C)) /\ Len(Lines(d)) = All(d)
    BY <1>0, <1>1, LineTypes DEF n
  <2>2. /\ \A l \in 1..(n + All(d)) : Lines(c)[l] = Line(c, l)
        /\ \A l \in 1..n : Lines(p)[l] = Line(p, l)
        /\ \A l \in 1..All(d) : Lines(d)[l] = Line(d, l)
    BY <1>1, LinesOf DEF n
  <2>3. ASSUME NEW l \in 1..(n + All(d)) PROVE Lines(c)[l] = (Lines(p) \o Lines(d))[l]
    <3>1. CASE l \in 1..n
      BY <3>1, <2>1, <2>2, <1>1, <1>4
    <3>2. CASE l \notin 1..n
      <4>1. l - n \in 1..All(d) /\ n + (l - n) = l
        BY <3>2, <1>1
      <4>2. Line(c, l) = Line(d, l - n)
        BY <4>1, <1>5
      <4>3. (Lines(p) \o Lines(d))[l] = Lines(d)[l - n]
        <5>1. l \in 1..(Len(Lines(p)) + Len(Lines(d))) /\ ~ (l <= Len(Lines(p)))
          BY <3>2, <2>1, <1>1
        <5>2. QED
          BY <5>1, <2>1, ConcatProperties
      <4>4. QED
        BY <4>1, <4>2, <4>3, <2>2
    <3>3. QED
      BY <3>1, <3>2
  <2>4. Lines(p) \o Lines(d) \in Seq(Seq(C)) /\ Len(Lines(p) \o Lines(d)) = n + All(d)
    BY <2>1, ConcatProperties
  <2>5. QED
    BY <2>1, <2>3, <2>4, SeqEqual
<1>7. Rest(c) = Rest(d)
  <2>1. All(d) \in 0..All(d)
    BY <1>1
  <2>2. Eol(c, All(c)) = Len(p) + Eol(d, All(d)) /\ Eol(d, All(d)) \in 0..Len(d)
    BY <2>1, <1>1, <1>3, EolRange
  <2>3. Eol(d, All(d)) + 1 \in Nat \ {0} /\ Len(d) \in Int /\ Len(d) <= Len(d)
    BY <2>2, <1>0
  <2>4. SubSeq(c, Len(p) + (Eol(d, All(d)) + 1), Len(p) + Len(d))
          = SubSeq(d, Eol(d, All(d)) + 1, Len(d))
    BY <2>3, <1>a
  <2>5. Eol(c, All(c)) + 1 = Len(p) + (Eol(d, All(d)) + 1)
    BY <2>2, <1>0
  <2>6. QED
    BY <2>4, <2>5, <1>0, LinesOf
<1>8. QED
  BY <1>6, <1>7 DEF c

\* A text is its lines, and the rest, in which there is no newline.
LEMMA CutAtRest ==
    ASSUME NEW C, NEW s \in Seq(C)
    PROVE  \E p \in Seq(C) : /\ s = p \o Rest(s) /\ (p = <<>> \/ p[Len(p)] = "n")
                             /\ Lines(Rest(s)) = <<>>
<1> DEFINE e == Eol(s, All(s))
           p == SubSeq(s, 1, e)
           r == Rest(s)
<1>0. Len(s) \in Nat /\ All(s) \in Nat
  BY Count DEF All
<1>1. e \in 0..Len(s) /\ NewlinesTo(s, e) = All(s)
  BY <1>0, EolRange
<1>2. e = 0 \/ s[e] = "n"
  <2>1. CASE All(s) = 0
    BY <2>1, EolZero
  <2>2. CASE All(s) # 0
    <3>1. All(s) \in 1..All(s)
      BY <2>2, <1>0
    <3>2. QED
      BY <3>1, EolOf
  <2>3. QED
    BY <2>1, <2>2
<1>3. r = SubSeq(s, e + 1, Len(s))
  BY LinesOf
<1> HIDE DEF e, r
<1>4. p \in Seq(C) /\ r \in Seq(C) /\ Len(p) = e /\ (e # 0 => p[e] = s[e]) /\ (e = 0 => p = <<>>)
  BY <1>0, <1>1, <1>3
<1>5. p \o r = s
  <2>1. SubSeq(s, 1, e) \o SubSeq(s, e + 1, Len(s)) = SubSeq(s, 1, Len(s))
    <3>1. 1 \in 1..(Len(s) + 1) /\ e \in (1 - 1)..Len(s) /\ Len(s) \in e..Len(s)
      BY <1>0, <1>1
    <3>2. QED
      BY <3>1, ConcatAdjacentSubSeq
  <2>2. QED
    BY <2>1, <1>3, SubSeqFull
<1> HIDE DEF p
<1>6. All(r) = 0
  <2>1. All(s) = All(p) + All(r) /\ All(p) \in Nat /\ All(r) \in Nat
    BY <1>4, <1>5, EolConcat
  <2>2. NewlinesTo(s, e) = NewlinesTo(p, e)
    <3>1. e \in 0..Len(p)
      BY <1>1, <1>4
    <3>2. QED
      BY <3>1, <1>4, <1>5, CountConcat
  <2>3. All(p) = NewlinesTo(p, e)
    BY <1>4 DEF All
  <2>4. QED
    BY <2>1, <2>2, <2>3, <1>1
<1>7. Lines(r) = <<>>
  <2>1. Lines(r) \in Seq(Seq(C)) /\ Len(Lines(r)) = 0
    BY <1>4, <1>6, LineTypes
  <2>2. QED
    BY <2>1, EmptySeq
<1>8. QED
  BY <1>2, <1>4, <1>5, <1>7 DEF r

\* However a text is cut in two: the lines of the first part, and then those of what
\* was left of it together with the second part.
LEMMA LinesJoined ==
    ASSUME NEW C, NEW a \in Seq(C), NEW b \in Seq(C)
    PROVE  /\ Lines(a \o b) = Lines(a) \o Lines(Rest(a) \o b)
           /\ Rest(a \o b) = Rest(Rest(a) \o b)
<1> DEFINE r == Rest(a)
<1>1. PICK p \in Seq(C) : /\ a = p \o r /\ (p = <<>> \/ p[Len(p)] = "n")
                          /\ Lines(r) = <<>>
  BY CutAtRest
<1>2. r \in Seq(C)
  BY LineTypes
<1> HIDE DEF r
<1>3. a \o b = p \o (r \o b) /\ r \o b \in Seq(C)
  BY <1>1, <1>2, ConcatAssociative, ConcatProperties
<1>4. Lines(a \o b) = Lines(p) \o Lines(r \o b) /\ Rest(a \o b) = Rest(r \o b)
  <2> DEFINE t == r \o b
  <2>1. t \in Seq(C) /\ a \o b = p \o t
    BY <1>3
  <2> HIDE DEF t
  <2>2. Lines(p \o t) = Lines(p) \o Lines(t) /\ Rest(p \o t) = Rest(t)
    BY <1>1, <2>1, LinesConcat
  <2>3. QED
    BY <2>1, <2>2 DEF t
<1>5. Lines(a) = Lines(p)
  <2>1. Lines(a) = Lines(p) \o Lines(r)
    BY <1>1, <1>2, LinesConcat
  <2>2. Lines(p) \in Seq(Seq(C))
    BY LineTypes
  <2>3. QED
    BY <2>1, <2>2, <1>1, ConcatEmptySeq
<1>6. QED
  BY <1>4, <1>5 DEF r

-----------------------------------------------------------------------------
(***************************************************************************)
(* Types.                                                                  *)
(***************************************************************************)
USE DEF kernVars, bufVars, endVars

\* What a kill leaves.
LEMMA Killing ==
    ASSUME FlagType, RunType, NEW o \in Outcome, Kill(o)
    PROVE  /\ child' \in Child /\ child'.st = "dead"
           /\ (child.op # "free" => Running) => child'.op = "free"
           /\ ~Running => child' = child /\ (lost' <=> lost)
           /\ lost' \in BOOLEAN /\ (lost' <=> lost \/ (Running /\ o = "raced"))
           /\ Running => (child'.code # 0 <=> o \in {"term", "kill"})
           /\ holds' \in [Output -> SUBSET {"child", "other"}]
           /\ \A c \in Output : holds'[c] \subseteq holds[c]
<1>1. /\ child' \in Child /\ child'.st = "dead"
      /\ (child.op # "free" => Running) => child'.op = "free"
      /\ ~Running => child' = child
      /\ Running => (child'.code # 0 <=> o \in {"term", "kill"})
  BY DEF Kill, Outcome, Running, Dead, RunType, Child, SIGTERM, SIGKILL
<1>2. (lost' <=> lost \/ (Running /\ o = "raced")) /\ lost' \in BOOLEAN
  BY DEF Kill, FlagType
<1>3. PICK who : holds' = Without(who)
  BY DEF Kill
<1>4. holds' \in [Output -> SUBSET {"child", "other"}]
      /\ \A c \in Output : holds'[c] \subseteq holds[c]
  BY <1>3 DEF Without, RunType
<1>5. QED
  BY <1>1, <1>2, <1>4

\* Closing changes nothing else of a connection.
LEMMA Closing ==
    ASSUME RunType
    PROVE  /\ Closed \in [Output -> [eof : BOOLEAN, closed : BOOLEAN]]
           /\ \A c \in Output : Closed[c].eof = con[c].eof
  BY DEF Closed, RunType

\* The same, with the connections, when run() is left.
LEMMA Leaving ==
    ASSUME FlagType, RunType, Leaves
    PROVE  /\ child' \in Child /\ child'.st = "dead"
           /\ (child.op # "free" => Running) => child'.op = "free"
           /\ ~Running => child' = child /\ (lost' <=> lost)
           /\ lost' \in BOOLEAN
           /\ holds' \in [Output -> SUBSET {"child", "other"}]
           /\ \A c \in Output : holds'[c] \subseteq holds[c]
           /\ con' \in [Output -> [eof : BOOLEAN, closed : BOOLEAN]]
           /\ \A c \in Output : con'[c].eof = con[c].eof
           /\ cleanup' \in {"no", "kill", "tree"}
           /\ cleanup' = "tree" => \A c \in Output : holds'[c] = {}
<1>1. ASSUME KillTree
      PROVE  /\ child' \in Child /\ child'.st = "dead"
             /\ (child.op # "free" => Running) => child'.op = "free"
             /\ ~Running => child' = child /\ (lost' <=> lost)
             /\ lost' \in BOOLEAN
             /\ holds' \in [Output -> SUBSET {"child", "other"}]
             /\ \A c \in Output : holds'[c] \subseteq holds[c]
  <2>1. /\ child' \in Child /\ child'.st = "dead"
        /\ (child.op # "free" => Running) => child'.op = "free"
        /\ ~Running => child' = child
    BY <1>1 DEF KillTree, Running, Dead, RunType, Child, SIGKILL
  <2>2. holds' \in [Output -> SUBSET {"child", "other"}]
        /\ \A c \in Output : holds'[c] \subseteq holds[c]
    BY <1>1 DEF KillTree, Without, RunType
  <2>3. QED
    BY <1>1, <2>1, <2>2 DEF KillTree, FlagType
<1>2. /\ con' \in [Output -> [eof : BOOLEAN, closed : BOOLEAN]]
      /\ \A c \in Output : con'[c].eof = con[c].eof
  BY DEF Leaves, Closed, RunType
<1>3. /\ cleanup' \in {"no", "kill", "tree"}
      /\ cleanup' = "tree" => \A c \in Output : holds'[c] = {}
  <2>1. CASE cleanup' = "kill"
    BY <2>1
  <2>2. CASE KillTree /\ cleanup' = "tree"
    BY <2>2 DEF KillTree, Without, RunType
  <2>3. QED
    BY <2>1, <2>2 DEF Leaves
<1>4. /\ child' \in Child /\ child'.st = "dead"
      /\ (child.op # "free" => Running) => child'.op = "free"
      /\ ~Running => child' = child /\ (lost' <=> lost)
      /\ lost' \in BOOLEAN
      /\ holds' \in [Output -> SUBSET {"child", "other"}]
      /\ \A c \in Output : holds'[c] \subseteq holds[c]
  <2>1. (\E o \in Outcome : Kill(o)) \/ KillTree
    BY DEF Leaves
  <2>2. CASE \E o \in Outcome : Kill(o)
    BY <2>2, Killing
  <2>3. QED
    BY <1>1, <2>1, <2>2
<1>5. QED
  BY <1>2, <1>3, <1>4

\* What a read of k characters does.
LEMMA Reading ==
    ASSUME RunType, NEW s \in Stream, NEW k \in Nat, k <= Len(pipe[s])
    PROVE  /\ SubSeq(pipe[s], 1, k) \in Seq(Char) /\ Drop(pipe[s], k) \in Seq(Char)
           /\ pipe[s] = SubSeq(pipe[s], 1, k) \o Drop(pipe[s], k)
           /\ Len(SubSeq(pipe[s], 1, k)) = k /\ Len(Drop(pipe[s], k)) = Len(pipe[s]) - k
<1>1. pipe[s] \in Seq(Char) /\ Len(pipe[s]) \in Nat
  BY DEF RunType
<1>2. SubSeq(pipe[s], 1, k) \o SubSeq(pipe[s], k + 1, Len(pipe[s])) = pipe[s]
  <2>1. 1 \in 1..(Len(pipe[s]) + 1) /\ k \in (1 - 1)..Len(pipe[s])
        /\ Len(pipe[s]) \in k..Len(pipe[s])
    BY <1>1
  <2>2. SubSeq(pipe[s], 1, k) \o SubSeq(pipe[s], k + 1, Len(pipe[s]))
          = SubSeq(pipe[s], 1, Len(pipe[s]))
    BY <1>1, <2>1, ConcatAdjacentSubSeq
  <2>3. QED
    BY <1>1, <2>2, SubSeqFull
<1>3. /\ SubSeq(pipe[s], 1, k) \in Seq(Char) /\ Len(SubSeq(pipe[s], 1, k)) = k
      /\ SubSeq(pipe[s], k + 1, Len(pipe[s])) \in Seq(Char)
      /\ Len(SubSeq(pipe[s], k + 1, Len(pipe[s]))) = Len(pipe[s]) - k
  <2>1. \A i \in 1..Len(pipe[s]) : pipe[s][i] \in Char
    BY <1>1
  <2>2. /\ \A i \in 1..k : pipe[s][i] \in Char
        /\ \A i \in (k + 1)..Len(pipe[s]) : pipe[s][i] \in Char
    BY <1>1, <2>1
  <2>3. SubSeq(pipe[s], 1, k) \in Seq(Char) /\ Len(SubSeq(pipe[s], 1, k)) = k
    BY <2>2, SubSeqProperties
  <2>4. /\ SubSeq(pipe[s], k + 1, Len(pipe[s])) \in Seq(Char)
        /\ Len(SubSeq(pipe[s], k + 1, Len(pipe[s])))
              = IF k + 1 <= Len(pipe[s]) THEN Len(pipe[s]) - (k + 1) + 1 ELSE 0
    BY <1>1, <2>2, SubSeqProperties
  <2>5. QED
    BY <1>1, <2>3, <2>4
<1>4. QED
  BY <1>2, <1>3 DEF Drop

\* What becomes of the buffers when a callback throws.
Thrown(s, data) ==
    \/ UNCHANGED <<buf, pushback, lines>>
    \/ buf' = [buf EXCEPT ![s] = @ \o data] /\ UNCHANGED <<pushback, lines>>
    \/ /\ buf' = [buf EXCEPT ![s] = @ \o data]
       /\ pushback' = [pushback EXCEPT ![s] = Rest(Joined(s, data))]
       /\ \E n \in DOMAIN Lines(Joined(s, data)) :
             lines' = [lines EXCEPT ![s] = @ \o SubSeq(Lines(Joined(s, data)), 1, n)]

\* This is what ReadThrows does to them.
LEMMA Throwing ==
    ASSUME NEW s \in Stream, ReadThrows(s)
    PROVE  \E k \in 1..Least(Chunk, Len(pipe[s])) :
               /\ pipe' = [pipe EXCEPT ![s] = Drop(@, k)]
               /\ Thrown(s, SubSeq(pipe[s], 1, k))
  BY DEF ReadThrows, Thrown

\* The first elements of a sequence.
LEMMA FrontPart ==
    ASSUME NEW C, NEW a \in Seq(C), NEW n \in 0..Len(a)
    PROVE  /\ SubSeq(a, 1, n) \in Seq(C) /\ Len(SubSeq(a, 1, n)) = n
           /\ \A i \in 1..n : SubSeq(a, 1, n)[i] = a[i]
<1>1. Len(a) \in Nat /\ \A i \in 1..n : a[i] \in C
  OBVIOUS
<1>2. /\ SubSeq(a, 1, n) \in Seq(C) /\ Len(SubSeq(a, 1, n)) = (IF 1 <= n THEN n - 1 + 1 ELSE 0)
      /\ \A i \in 1..(n - 1 + 1) : SubSeq(a, 1, n)[i] = a[1 + i - 1]
  BY <1>1, SubSeqProperties
<1>3. QED
  BY <1>1, <1>2

\* A sequence begins with itself, and what it begins with may be followed by the first
\* elements of another.
LEMMA Beginning ==
    ASSUME NEW C, NEW a \in Seq(C), NEW b \in Seq(C), NEW n \in 0..Len(b)
    PROVE  Begins(a \o SubSeq(b, 1, n), a \o b) /\ Begins(a, a \o b) /\ Begins(a, a)
<1> DEFINE c == a \o SubSeq(b, 1, n)
           d == a \o b
<1>0. Len(a) \in Nat /\ Len(b) \in Nat /\ SubSeq(b, 1, n) \in Seq(C) /\ Len(SubSeq(b, 1, n)) = n
  BY FrontPart
<1>1. /\ d \in Seq(C) /\ Len(d) = Len(a) + Len(b)
      /\ c \in Seq(C) /\ Len(c) = Len(a) + n
  BY <1>0, ConcatProperties
<1>2. ASSUME NEW i \in 1..Len(c) PROVE c[i] = d[i]
  <2>1. CASE i <= Len(a)
    BY <2>1, <1>0, <1>1
  <2>2. CASE ~ (i <= Len(a))
    <3>1. i - Len(a) \in 1..n /\ i \in 1..Len(d)
      BY <2>2, <1>0, <1>1
    <3>2. c[i] = SubSeq(b, 1, n)[i - Len(a)] /\ d[i] = b[i - Len(a)]
      BY <2>2, <3>1, <1>0, <1>1, ConcatProperties
    <3>3. QED
      BY <3>1, <3>2, FrontPart
  <2>3. QED
    BY <2>1, <2>2
<1>3. \A i \in 1..Len(a) : a[i] = d[i]
  BY <1>0, <1>1
<1> HIDE DEF c, d
<1>4. ASSUME NEW e \in Seq(C), Len(e) <= Len(d), \A i \in 1..Len(e) : e[i] = d[i]
      PROVE  Begins(e, d)
  <2>1. Len(e) \in 0..Len(d)
    BY <1>0, <1>1, <1>4, LenProperties
  <2>2. /\ SubSeq(d, 1, Len(e)) \in Seq(C) /\ Len(SubSeq(d, 1, Len(e))) = Len(e)
        /\ \A i \in 1..Len(e) : SubSeq(d, 1, Len(e))[i] = d[i]
    BY <1>1, <2>1, FrontPart
  <2>3. e = SubSeq(d, 1, Len(e))
    BY <1>4, <2>2, SeqEqual
  <2>4. QED
    BY <1>4, <2>3 DEF Begins
<1>5. Begins(c, d) /\ Begins(a, d)
  BY <1>0, <1>1, <1>2, <1>3, <1>4
<1>6. Begins(a, a)
  BY <1>0, SubSeqFull DEF Begins
<1>7. QED
  BY <1>5, <1>6 DEF c, d

\* Where do_output() goes on.
LEMMA Afterwards ==
    ASSUME NEW s \in Stream, NEW good
    PROVE  /\ After(s, good) \in {"stderr", "alive", "left", "break"}
           /\ After(s, good) = "alive" => ~drain
           /\ After(s, good) \in {"left", "break"} => drain
           /\ After(s, good) = "break" => ~good
  BY DEF After, Stream

\* The Boolean variables.
LEMMA FlagNext == ASSUME FlagType, RunType, [Next]_vars PROVE FlagType'
<1>1. CASE UNCHANGED vars
  BY <1>1 DEF vars, FlagType
<1>2. CASE ChildStep \/ OtherStep \/ TimePasses
  BY <1>2 DEF FlagType, ChildStep, ChildWrites, ChildReads, ChildExits, ChildBlocks, ChildCloses,
     OtherStep, OtherEnds, OtherWrites, TimePasses
<1>3. CASE \/ LoopChecks \/ InTime \/ FeedWrites \/ PollReady \/ PollTimesOut \/ PollNothing
           \/ Waits \/ LeftChecks
           \/ \E s \in Stream : ReadsNothing(s) \/ ReadFails(s)
  BY <1>3 DEF FlagType, LoopChecks, InTime, FeedWrites, PollReady, PollTimesOut, PollNothing,
     Waits, LeftChecks, ReadsNothing, ReadFails
<1>4. CASE Expires
  <2>1. PICK o \in Outcome : Kill(o) /\ timeout' = Killed(o)
    BY <1>4 DEF Expires
  <2>2. lost' \in BOOLEAN
    BY <2>1, Killing
  <2>3. timeout' \in BOOLEAN
    BY <2>1 DEF Killed
  <2>4. QED
    BY <1>4, <2>2, <2>3 DEF Expires, FlagType
<1>5. CASE FeedFails \/ Returns \/ Interrupted
  <2>1. lost' \in BOOLEAN
    BY <1>5, Leaving DEF FeedFails, Returns, Interrupted
  <2>2. QED
    BY <1>5, <2>1 DEF FeedFails, Returns, Interrupted, FlagType
<1>6. ASSUME NEW s \in Stream, ReadsData(s) PROVE FlagType'
  <2>1. lost' \in BOOLEAN
    <3>1. UNCHANGED lost \/ (\E o \in Outcome : Kill(o))
      BY <1>6 DEF ReadsData
    <3>2. QED
      BY <3>1, Killing DEF FlagType
  <2>2. spoiled' \in BOOLEAN
    BY <1>6 DEF ReadsData, FlagType
  <2>3. QED
    BY <1>6, <2>1, <2>2 DEF ReadsData, FlagType
<1>7. ASSUME NEW s \in Stream, ReadThrows(s) PROVE FlagType'
  <2>1. lost' \in BOOLEAN
    BY <1>7, Leaving DEF ReadThrows
  <2>2. QED
    BY <1>7, <2>1 DEF ReadThrows, FlagType
<1>8. QED
  BY <1>1, <1>2, <1>3, <1>4, <1>5, <1>6, <1>7 DEF Next, RunStep

\* The other types.
LEMMA TypeNext == ASSUME FlagType, RunType, [Next]_vars PROVE RunType'
<1>0. /\ Piped \subseteq Stream /\ Stream \subseteq Output
      /\ \A s \in Stream : pipe[s] \in Seq(Char) /\ written[s] \in Seq(Char)
                           /\ buf[s] \in Seq(Char) /\ pushback[s] \in Seq(Char)
                           /\ lines[s] \in Seq(Seq(Char))
      /\ TtySize \in Nat /\ MaxIn \in Nat
  BY SizeAssumption DEF Piped, Stream, Output, RunType
<1>1. CASE UNCHANGED vars
  BY <1>1 DEF vars, RunType
<1>2. ASSUME NEW s \in Piped, ChildBlocks(s) \/ ChildCloses(s) PROVE RunType'
  <2>1. CASE ChildBlocks(s)
    BY <1>0, <2>1 DEF ChildBlocks, RunType, Child
  <2>2. CASE ChildCloses(s)
    BY <1>0, <2>2 DEF ChildCloses, RunType
  <2>3. QED
    BY <1>2, <2>1, <2>2
<1>3. ASSUME NEW s \in Stream, NEW c \in Char, Writes(s, c)
      PROVE  pipe' \in [Stream -> Seq(Char)] /\ written' \in [Stream -> Seq(Char)]
  BY <1>0, <1>3 DEF Writes, RunType
<1>4. CASE ChildWrites
  <2>1. child.op \in Stream /\ \E c \in Char : Writes(child.op, c)
    BY <1>4 DEF ChildWrites, RunType, Child
  <2>2. child' \in Child
    BY <1>4 DEF ChildWrites, RunType, Child
  <2>3. QED
    BY <1>3, <1>4, <2>1, <2>2 DEF ChildWrites, RunType
<1>5. CASE ChildReads
  BY <1>0, <1>5 DEF ChildReads, RunType
<1>6. CASE ChildExits
  BY <1>6 DEF ChildExits, RunType, Child, Dead, Without, SIGTERM, SIGKILL
<1>7. CASE OtherStep
  <2>1. CASE OtherEnds
    BY <2>1 DEF OtherEnds, Without, RunType
  <2>2. ASSUME NEW s \in Piped, OtherWrites(s) PROVE RunType'
    BY <1>0, <1>3, <2>2 DEF OtherWrites, RunType
  <2>3. QED
    BY <1>7, <2>1, <2>2 DEF OtherStep
<1>8. CASE TimePasses \/ LoopChecks \/ PollReady \/ PollTimesOut \/ PollNothing
           \/ Waits \/ LeftChecks \/ InTime
  BY <1>8 DEF TimePasses, LoopChecks, PollReady, PollTimesOut, PollNothing, Waits, LeftChecks,
     InTime, RunType, Location, Stream
<1>9. CASE Expires
  BY <1>9, Killing DEF Expires, RunType, Location
<1>10. CASE FeedWrites
  <2> DEFINE n == Least(feed.left, TtySize - tty)
  <2>1. feed.left \in 0..MaxIn /\ tty \in 0..TtySize
    BY DEF RunType
  <2>2. n \in Nat /\ n <= feed.left /\ n <= TtySize - tty
    BY <2>1, <1>0 DEF Least
  <2>3. tty' = (IF n = feed.left THEN Least(tty + n + 2, TtySize) ELSE tty + n)
        /\ feed' = [left |-> feed.left - n, eof |-> n = feed.left]
    BY <1>10 DEF FeedWrites
  <2> HIDE DEF n
  <2>4. tty' \in 0..TtySize
    BY <2>1, <2>2, <2>3, <1>0 DEF Least
  <2>5. feed.left - n \in 0..MaxIn
    BY <2>1, <2>2, <1>0
  <2>6. feed' \in [left : 0..MaxIn, eof : BOOLEAN]
    BY <2>3, <2>5
  <2>7. QED
    BY <1>10, <2>4, <2>6 DEF FeedWrites, RunType, Location
<1>11. CASE FeedFails \/ Returns
  BY <1>11, Leaving DEF FeedFails, Returns, RunType, Location
<1>12. CASE Interrupted
  <2>1. PICK k \in [Stream -> 0..PipeSize] :
            /\ \A s \in Stream : k[s] <= Len(pipe[s])
            /\ buf' = [s \in Stream |-> buf[s] \o SubSeq(pipe[s], 1, k[s])]
            /\ pipe' = [s \in Stream |-> Drop(pipe[s], k[s])]
    BY <1>12 DEF Interrupted
  <2>2. ASSUME NEW s \in Stream
        PROVE  SubSeq(pipe[s], 1, k[s]) \in Seq(Char) /\ Drop(pipe[s], k[s]) \in Seq(Char)
    BY <2>1, Reading, SizeAssumption
  <2>3. pipe' \in [Stream -> Seq(Char)] /\ buf' \in [Stream -> Seq(Char)]
    BY <1>0, <2>1, <2>2
  <2>4. QED
    BY <1>12, <2>3, Leaving DEF Interrupted, RunType, Location
<1>13. ASSUME NEW s \in Stream, ReadsData(s) PROVE RunType'
  <2>1. PICK k \in 1..Least(Chunk, Len(pipe[s])) :
          /\ pipe' = [pipe EXCEPT ![s] = Drop(@, k)]
          /\ buf' = [buf EXCEPT ![s] = @ \o SubSeq(pipe[s], 1, k)]
          /\ lines' = [lines EXCEPT ![s] = @ \o Lines(Joined(s, SubSeq(pipe[s], 1, k)))]
          /\ pushback' = [pushback EXCEPT ![s] = Rest(Joined(s, SubSeq(pipe[s], 1, k)))]
    BY <1>13 DEF ReadsData
  <2>2. k \in Nat /\ k <= Len(pipe[s])
    BY <1>0, SizeAssumption DEF Least
  <2> DEFINE data == SubSeq(pipe[s], 1, k)
  <2>3. data \in Seq(Char) /\ Drop(pipe[s], k) \in Seq(Char)
    BY <2>2, Reading
  <2>4. Joined(s, data) \in Seq(Char)
    BY <1>0, <2>3, ConcatProperties DEF Joined
  <2>5. Lines(Joined(s, data)) \in Seq(Seq(Char)) /\ Rest(Joined(s, data)) \in Seq(Char)
    BY <2>4, LineTypes
  <2> HIDE DEF data
  <2>6. /\ buf[s] \o data \in Seq(Char)
        /\ lines[s] \o Lines(Joined(s, data)) \in Seq(Seq(Char))
    BY <1>0, <2>3, <2>5, ConcatProperties
  <2>7. /\ pipe' \in [Stream -> Seq(Char)] /\ buf' \in [Stream -> Seq(Char)]
        /\ pushback' \in [Stream -> Seq(Char)] /\ lines' \in [Stream -> Seq(Seq(Char))]
    BY <2>1, <2>3, <2>5, <2>6 DEF RunType, data
  <2>8. /\ child' \in Child /\ holds' \in [Output -> SUBSET {"child", "other"}]
        /\ con' \in [Output -> [eof : BOOLEAN, closed : BOOLEAN]]
    <3>1. \/ UNCHANGED <<child, holds, con>>
          \/ (\E o \in Outcome : Kill(o)) /\ con' = Closed
      BY <1>13 DEF ReadsData
    <3>2. QED
      BY <3>1, Closing, Killing DEF RunType
  <2>9. pc' \in Location
    BY <1>13, Afterwards DEF ReadsData, Location, Stream
  <2>10. QED
    BY <1>13, <2>7, <2>8, <2>9 DEF ReadsData, RunType
<1>14. ASSUME NEW s \in Stream, ReadsNothing(s) \/ ReadFails(s) PROVE RunType'
  <2>1. pc' \in Location
    BY <1>14, Afterwards DEF ReadsNothing, ReadFails, Location, Stream
  <2>2. con' \in [Output -> [eof : BOOLEAN, closed : BOOLEAN]]
    <3>1. CASE UNCHANGED con
      BY <3>1 DEF RunType
    <3>2. CASE con' = [con EXCEPT ![s].eof = @ \/ holds[s] = {}]
      <4> DEFINE e == con[s].eof \/ holds[s] = {}
      <4>1. e \in BOOLEAN
        OBVIOUS
      <4>2. con' = [con EXCEPT ![s].eof = e]
        BY <3>2
      <4> HIDE DEF e
      <4>3. QED
        BY <1>0, <4>1, <4>2 DEF RunType
    <3>3. QED
      BY <1>14, <3>1, <3>2 DEF ReadsNothing, ReadFails
  <2>3. QED
    BY <1>14, <2>1, <2>2 DEF ReadsNothing, ReadFails, RunType
<1>15. ASSUME NEW s \in Stream, ReadThrows(s) PROVE RunType'
  <2>1. PICK k \in 1..Least(Chunk, Len(pipe[s])) :
          /\ pipe' = [pipe EXCEPT ![s] = Drop(@, k)]
          /\ Thrown(s, SubSeq(pipe[s], 1, k))
    BY <1>15, Throwing
  <2>2. k \in Nat /\ k <= Len(pipe[s])
    BY <1>0, SizeAssumption DEF Least
  <2> DEFINE data == SubSeq(pipe[s], 1, k)
             text == Lines(Joined(s, data))
  <2>3. data \in Seq(Char) /\ Drop(pipe[s], k) \in Seq(Char)
    BY <2>2, Reading
  <2>4. Joined(s, data) \in Seq(Char)
    BY <1>0, <2>3, ConcatProperties DEF Joined
  <2>5. text \in Seq(Seq(Char)) /\ Rest(Joined(s, data)) \in Seq(Char)
    BY <2>4, LineTypes
  <2>6. pipe' \in [Stream -> Seq(Char)] /\ buf[s] \o data \in Seq(Char)
    BY <1>0, <2>1, <2>3, ConcatProperties DEF RunType
  <2>7. ASSUME NEW n \in DOMAIN text PROVE lines[s] \o SubSeq(text, 1, n) \in Seq(Seq(Char))
    <3> HIDE DEF text
    <3>1. n \in 0..Len(text)
      BY <2>5
    <3>2. SubSeq(text, 1, n) \in Seq(Seq(Char))
      BY <2>5, <3>1, FrontPart
    <3>3. QED
      BY <1>0, <3>2, ConcatProperties
  <2>8. /\ buf' \in [Stream -> Seq(Char)]
        /\ pushback' \in [Stream -> Seq(Char)] /\ lines' \in [Stream -> Seq(Seq(Char))]
    <3>1. CASE UNCHANGED <<buf, pushback, lines>>
      BY <3>1 DEF RunType
    <3>2. CASE buf' = [buf EXCEPT ![s] = @ \o data] /\ UNCHANGED <<pushback, lines>>
      BY <2>6, <3>2 DEF RunType
    <3>3. CASE /\ buf' = [buf EXCEPT ![s] = @ \o data]
               /\ pushback' = [pushback EXCEPT ![s] = Rest(Joined(s, data))]
               /\ \E n \in DOMAIN text : lines' = [lines EXCEPT ![s] = @ \o SubSeq(text, 1, n)]
      <4>1. PICK n \in DOMAIN text : lines' = [lines EXCEPT ![s] = @ \o SubSeq(text, 1, n)]
        BY <3>3
      <4>2. lines[s] \o SubSeq(text, 1, n) \in Seq(Seq(Char))
        BY <2>7
      <4> HIDE DEF data, text
      <4>3. lines' \in [Stream -> Seq(Seq(Char))]
        BY <4>1, <4>2 DEF RunType
      <4>4. QED
        BY <2>5, <2>6, <3>3, <4>3 DEF RunType
    <3>4. QED
      BY <2>1, <3>1, <3>2, <3>3 DEF Thrown
  <2>9. QED
    BY <1>15, <2>6, <2>8, Leaving DEF ReadThrows, RunType, Location
<1>16. QED
  BY <1>1, <1>2, <1>4, <1>5, <1>6, <1>7, <1>8, <1>9, <1>10, <1>11, <1>12, <1>13, <1>14, <1>15
     DEF Next, RunStep, ChildStep

\* The process does not come back, and the other things that only happen once.
LEMMA Onwards ==
    ASSUME FlagType, RunType, [Next]_vars
    PROVE  /\ ~Running => child' = child
           /\ (spoiled => spoiled') /\ (late => late') /\ mode' = mode
           /\ Over => pc' = pc /\ UNCHANGED <<con, drain, timeout, lost, spoiled, buf, lines, pushback>>
<1>1. CASE UNCHANGED vars
  BY <1>1 DEF vars
<1>2. CASE ChildStep \/ OtherStep \/ TimePasses
  BY <1>2 DEF ChildStep, ChildWrites, ChildReads, ChildExits, ChildBlocks, ChildCloses,
     OtherStep, OtherEnds, OtherWrites, TimePasses
<1>3. CASE \/ LoopChecks \/ InTime \/ FeedWrites \/ PollReady \/ PollTimesOut \/ PollNothing
           \/ Waits \/ LeftChecks
  BY <1>3 DEF LoopChecks, InTime, FeedWrites, PollReady, PollTimesOut, PollNothing,
     Waits, LeftChecks, Over
<1>4. CASE Expires
  BY <1>4, Killing DEF Expires, Over
<1>5. CASE FeedFails \/ Returns \/ Interrupted
  BY <1>5, Leaving DEF FeedFails, Returns, Interrupted, Over
<1>6. \A s \in Stream : pc = s => ~Over
  BY DEF Stream, Over
<1>7. ASSUME NEW s \in Stream, ReadsNothing(s) \/ ReadFails(s)
      PROVE  child' = child /\ (spoiled => spoiled') /\ (late => late') /\ mode' = mode /\ ~Over
  <2>1. pc = s /\ UNCHANGED <<child, late, mode>>
    BY <1>7 DEF ReadsNothing, ReadFails
  <2>2. spoiled => spoiled'
    BY <1>7 DEF ReadsNothing, ReadFails
  <2>3. QED
    BY <1>6, <2>1, <2>2
<1>8. ASSUME NEW s \in Stream, ReadsData(s)
      PROVE  (~Running => child' = child) /\ (spoiled => spoiled') /\ (late => late')
             /\ mode' = mode /\ ~Over
  <2>1. UNCHANGED child \/ (\E o \in Outcome : Kill(o))
    BY <1>8 DEF ReadsData
  <2>2. ~Running => child' = child
    BY <2>1, Killing
  <2>3. pc = s /\ UNCHANGED <<late, mode>>
    BY <1>8 DEF ReadsData
  <2>4. spoiled => spoiled'
    BY <1>8 DEF ReadsData
  <2>5. QED
    BY <1>6, <2>2, <2>3, <2>4
<1>9. ASSUME NEW s \in Stream, ReadThrows(s)
      PROVE  (~Running => child' = child) /\ (spoiled => spoiled') /\ (late => late')
             /\ mode' = mode /\ ~Over
  <2>1. ~Running => child' = child
    BY <1>9, Leaving DEF ReadThrows
  <2>2. pc = s /\ UNCHANGED <<late, mode, spoiled>>
    BY <1>9 DEF ReadThrows
  <2>3. QED
    BY <1>6, <2>1, <2>2
<1>10. QED
  BY <1>1, <1>2, <1>3, <1>4, <1>5, <1>7, <1>8, <1>9 DEF Next, RunStep

-----------------------------------------------------------------------------
(***************************************************************************)
(* The pipes.                                                              *)
(***************************************************************************)
\* Brackets do not matter.
LEMMA Brackets ==
    ASSUME NEW a \in Seq(Char), NEW b \in Seq(Char), NEW c \in Seq(Char)
    PROVE  (a \o b) \o c = a \o (b \o c)
  BY ConcatAssociative

\* A step that only takes holders of the streams away.
LEMMA PipeKept ==
    ASSUME PipeInv, UNCHANGED <<written, buf, pipe>>, pc = "error" => pc' = "error",
           child'.op = "free" \/ (UNCHANGED child /\ \A s \in Stream : "child" \in holds[s] => "child" \in holds'[s]),
           child.op \in Stream \cup {"free"},
           \A s \in Stream : holds'[s] \subseteq holds[s] /\ con'[s].eof = con[s].eof
    PROVE  PipeInv'
  BY DEF PipeInv, Running

\* PipeInv is kept by every step.
LEMMA PipeNext == ASSUME FlagType, RunType, PipeInv, [Next]_vars PROVE PipeInv'
<1>0. /\ Piped \subseteq Stream /\ Stream \subseteq Output
      /\ child.op \in Stream \cup {"free"}
      /\ \A s \in Stream : pipe[s] \in Seq(Char) /\ written[s] \in Seq(Char) /\ buf[s] \in Seq(Char)
      /\ PipeSize \in Nat
      /\ pc = "error" => pc' = "error"
  <2>1. pc = "error" => pc' = "error"
    BY Onwards DEF Over
  <2>2. QED
    BY <2>1, SizeAssumption DEF Piped, Stream, Output, RunType, Child
<1>1. CASE UNCHANGED vars
  BY <1>1, <1>0, PipeKept DEF vars
<1>2. ASSUME NEW s \in Stream, NEW c \in Char, Writes(s, c), holds[s] # {},
             UNCHANGED <<holds, buf, con>>, UNCHANGED child \/ child'.op = "free"
      PROVE  PipeInv'
  <2>1. /\ pipe' = [pipe EXCEPT ![s] = Append(@, c)] /\ Len(pipe[s]) < PipeSize
        /\ written' = [written EXCEPT ![s] = Append(@, c)]
    BY <1>2 DEF Writes
  <2>2. ASSUME pc # "error" PROVE Append(written[s], c) = buf[s] \o Append(pipe[s], c)
    <3>1. written[s] = buf[s] \o pipe[s]
      BY <2>2 DEF PipeInv
    <3>2. <<c>> \in Seq(Char)
      OBVIOUS
    <3>3. Append(written[s], c) = written[s] \o <<c>> /\ Append(pipe[s], c) = pipe[s] \o <<c>>
      BY <1>0, AppendIsConcat
    <3>4. (buf[s] \o pipe[s]) \o <<c>> = buf[s] \o (pipe[s] \o <<c>>)
      BY <1>0, <3>2, Brackets, Zenon
    <3>5. QED
      BY <3>1, <3>3, <3>4
  <2>3. Len(Append(pipe[s], c)) <= PipeSize
    BY <2>1, <1>0
  <2>4. ~con[s].eof
    BY <1>2 DEF PipeInv
  <2>5. \A t \in Stream : /\ written'[t] = IF t = s THEN Append(written[t], c) ELSE written[t]
                          /\ pipe'[t] = IF t = s THEN Append(pipe[t], c) ELSE pipe[t]
    BY <2>1 DEF RunType
  <2>6. QED
    BY <1>0, <1>2, <2>2, <2>3, <2>4, <2>5 DEF PipeInv, Running
<1>3. CASE ChildWrites
  <2>1. child.op \in Stream /\ holds[child.op] # {}
    BY <1>0, <1>3 DEF ChildWrites, PipeInv
  <2>2. child'.op = "free"
    BY <1>3 DEF ChildWrites, RunType, Child
  <2>3. QED
    BY <1>2, <1>3, <2>1, <2>2 DEF ChildWrites
<1>4. ASSUME NEW s \in Piped, OtherWrites(s) PROVE PipeInv'
  BY <1>0, <1>2, <1>4 DEF OtherWrites
<1>5. ASSUME NEW s \in Piped, ChildBlocks(s) PROVE PipeInv'
  <2>1. child' = [child EXCEPT !.op = s] /\ "child" \in holds[s] /\ Running
        /\ UNCHANGED <<holds, pipe, written, buf, con>>
    BY <1>5 DEF ChildBlocks
  <2>2. child'.op = s /\ child'.st = child.st
    BY <2>1 DEF RunType, Child
  <2>3. QED
    BY <1>0, <2>1, <2>2 DEF PipeInv, Running
<1>6. ASSUME NEW s \in Piped, ChildCloses(s) PROVE PipeInv'
  <2>1. \A t \in Stream : holds'[t] \subseteq holds[t]
    BY <1>0, <1>6 DEF ChildCloses, RunType
  <2>2. QED
    BY <1>0, <1>6, <2>1, PipeKept DEF ChildCloses
<1>7. CASE ChildExits
  <2>1. \A t \in Stream : holds'[t] \subseteq holds[t]
    BY <1>0, <1>7 DEF ChildExits, Without, RunType
  <2>2. QED
    BY <1>0, <1>7, <2>1, PipeKept DEF ChildExits, Dead
<1>8. CASE OtherEnds
  <2>1. \A t \in Stream : holds'[t] \subseteq holds[t] /\ ("child" \in holds[t] => "child" \in holds'[t])
    BY <1>0, <1>8 DEF OtherEnds, Without, RunType
  <2>2. QED
    BY <1>0, <1>8, <2>1, PipeKept DEF OtherEnds
<1>9. CASE \/ ChildReads \/ TimePasses \/ LoopChecks \/ PollReady \/ PollTimesOut \/ PollNothing
           \/ Waits \/ LeftChecks \/ InTime \/ FeedWrites
           \/ \E s \in Stream : ReadFails(s)
  BY <1>0, <1>9, PipeKept DEF ChildReads, TimePasses, LoopChecks, PollReady, PollTimesOut,
     PollNothing, Waits, LeftChecks, InTime, FeedWrites, ReadFails
<1>10. child.op # "free" => Running
  BY DEF PipeInv
<1>11. CASE Expires
  <2>1. child'.op = "free" /\ \A c \in Output : holds'[c] \subseteq holds[c]
    BY <1>10, <1>11, Killing DEF Expires
  <2>2. QED
    BY <1>0, <1>11, <2>1, PipeKept DEF Expires
<1>12. CASE FeedFails \/ Returns
  <2>1. child'.op = "free" /\ \A c \in Output : holds'[c] \subseteq holds[c] /\ con'[c].eof = con[c].eof
    BY <1>10, <1>12, Leaving DEF FeedFails, Returns
  <2>2. QED
    BY <1>0, <1>12, <2>1, PipeKept DEF FeedFails, Returns
<1>13. ASSUME NEW k \in [Stream -> Nat], \A s \in Stream : k[s] <= Len(pipe[s]),
              \A s \in Stream : /\ pipe'[s] = Drop(pipe[s], k[s])
                                /\ buf'[s] = buf[s] \o SubSeq(pipe[s], 1, k[s]),
              UNCHANGED written,
              child'.op = "free" \/ UNCHANGED <<child, holds>>,
              \A s \in Stream : holds'[s] \subseteq holds[s] /\ con'[s].eof = con[s].eof
       PROVE  PipeInv'
  <2>1. ASSUME NEW s \in Stream
        PROVE  /\ pc # "error" => written[s] = buf'[s] \o pipe'[s]
               /\ Len(pipe'[s]) <= PipeSize
               /\ pipe[s] = <<>> => pipe'[s] = <<>>
    <3>1. /\ SubSeq(pipe[s], 1, k[s]) \in Seq(Char) /\ Drop(pipe[s], k[s]) \in Seq(Char)
          /\ pipe[s] = SubSeq(pipe[s], 1, k[s]) \o Drop(pipe[s], k[s])
          /\ Len(Drop(pipe[s], k[s])) = Len(pipe[s]) - k[s]
      BY <1>13, Reading
    <3>2. (pc # "error" => written[s] = buf[s] \o pipe[s]) /\ Len(pipe[s]) <= PipeSize
      BY DEF PipeInv
    <3>3. ASSUME pc # "error" PROVE written[s] = buf'[s] \o pipe'[s]
      <4> DEFINE d == SubSeq(pipe[s], 1, k[s])
                 r == Drop(pipe[s], k[s])
      <4>1. d \in Seq(Char) /\ r \in Seq(Char) /\ pipe[s] = d \o r /\ buf[s] \in Seq(Char)
            /\ buf'[s] = buf[s] \o d /\ pipe'[s] = r
        BY <1>0, <1>13, <3>1
      <4> HIDE DEF d, r
      <4>2. (buf[s] \o d) \o r = buf[s] \o (d \o r)
        BY <4>1, Brackets, Zenon
      <4>3. QED
        BY <4>1, <4>2, <3>2, <3>3
    <3>4. Len(pipe'[s]) <= PipeSize
      BY <1>0, <1>13, <3>1, <3>2
    <3>5. ASSUME pipe[s] = <<>> PROVE pipe'[s] = <<>>
      <4>1. Len(pipe'[s]) = 0 /\ pipe'[s] \in Seq(Char)
        BY <1>0, <1>13, <3>1, <3>5
      <4>2. QED
        BY <4>1, EmptySeq
    <3>6. QED
      BY <3>3, <3>4, <3>5
  <2>2. QED
    BY <1>0, <1>13, <2>1 DEF PipeInv, Running
<1>14. CASE Interrupted
  <2>1. PICK k \in [Stream -> 0..PipeSize] :
            /\ \A s \in Stream : k[s] <= Len(pipe[s])
            /\ buf' = [s \in Stream |-> buf[s] \o SubSeq(pipe[s], 1, k[s])]
            /\ pipe' = [s \in Stream |-> Drop(pipe[s], k[s])]
    BY <1>14 DEF Interrupted
  <2>2. k \in [Stream -> Nat]
    BY <1>0
  <2>3. child'.op = "free" /\ \A c \in Output : holds'[c] \subseteq holds[c] /\ con'[c].eof = con[c].eof
    BY <1>10, <1>14, Leaving DEF Interrupted
  <2>4. QED
    BY <1>0, <1>13, <1>14, <2>1, <2>2, <2>3 DEF Interrupted
<1>15. ASSUME NEW s \in Stream, ReadsData(s) PROVE PipeInv'
  <2>1. PICK n \in 1..Least(Chunk, Len(pipe[s])) :
          /\ pipe' = [pipe EXCEPT ![s] = Drop(@, n)]
          /\ buf' = [buf EXCEPT ![s] = @ \o SubSeq(pipe[s], 1, n)]
    BY <1>15 DEF ReadsData
  <2>2. n \in Nat /\ n <= Len(pipe[s])
    BY <1>0, SizeAssumption DEF Least
  <2> DEFINE k == [t \in Stream |-> IF t = s THEN n ELSE 0]
  <2>3. k \in [Stream -> Nat] /\ \A t \in Stream : k[t] <= Len(pipe[t])
    BY <1>0, <2>2
  <2>4. ASSUME NEW t \in Stream, t # s
        PROVE  pipe[t] = Drop(pipe[t], 0) /\ buf[t] = buf[t] \o SubSeq(pipe[t], 1, 0)
    <3>1. SubSeq(pipe[t], 1, 0) = <<>>
      BY SubSeqEmpty
    <3>2. Drop(pipe[t], 0) = pipe[t]
      BY <1>0, SubSeqFull DEF Drop
    <3>3. QED
      BY <1>0, <3>1, <3>2, ConcatEmptySeq
  <2>5. \A t \in Stream : /\ pipe'[t] = Drop(pipe[t], k[t])
                          /\ buf'[t] = buf[t] \o SubSeq(pipe[t], 1, k[t])
    BY <2>1, <2>4 DEF RunType
  <2>6. child'.op = "free" \/ UNCHANGED <<child, holds>>
    <3>1. UNCHANGED <<child, holds>> \/ (\E o \in Outcome : Kill(o))
      BY <1>15 DEF ReadsData
    <3>2. QED
      BY <3>1, <1>10, Killing
  <2>7. \A t \in Stream : holds'[t] \subseteq holds[t] /\ con'[t].eof = con[t].eof
    <3>1. \/ UNCHANGED <<child, holds, con>>
          \/ (\E o \in Outcome : Kill(o)) /\ con' = Closed
      BY <1>15 DEF ReadsData
    <3>2. QED
      BY <3>1, <1>0, Closing, Killing
  <2> HIDE DEF k
  <2>8. QED
    BY <1>13, <1>15, <2>3, <2>5, <2>6, <2>7 DEF ReadsData
<1>16. ASSUME NEW s \in Stream, ReadsNothing(s) PROVE PipeInv'
  <2>1. \A t \in Stream : con'[t].eof => con[t].eof \/ (t = s /\ holds[s] = {})
    BY <1>0, <1>16 DEF ReadsNothing, RunType
  <2>2. QED
    BY <1>0, <1>16, <2>1 DEF ReadsNothing, PipeInv, Running
<1>17. ASSUME NEW s \in Stream, ReadThrows(s) PROVE PipeInv'
  <2>1. PICK k \in 1..Least(Chunk, Len(pipe[s])) : pipe' = [pipe EXCEPT ![s] = Drop(@, k)]
    BY <1>17, Throwing
  <2>2. k \in Nat /\ k <= Len(pipe[s]) /\ k > 0
    BY <1>0, SizeAssumption DEF Least
  <2>3. Len(Drop(pipe[s], k)) = Len(pipe[s]) - k
    BY <2>2, Reading
  <2>4. Len(pipe[s]) \in Nat /\ pipe[s] # <<>>
    BY <1>0, <2>2
  <2>5. \A t \in Stream : pipe'[t] = IF t = s THEN Drop(pipe[s], k) ELSE pipe[t]
    BY <2>1 DEF RunType
  <2>6. \A t \in Stream : Len(pipe'[t]) <= PipeSize
    BY <1>0, <2>2, <2>3, <2>4, <2>5 DEF PipeInv
  <2>7. \A t \in Stream : holds'[t] \subseteq holds[t] /\ con'[t].eof = con[t].eof
    BY <1>0, <1>17, Leaving DEF ReadThrows
  <2>8. ASSUME NEW t \in Stream, con'[t].eof PROVE pipe'[t] = <<>> /\ holds'[t] = {}
    <3>1. pipe[t] = <<>> /\ holds[t] = {}
      BY <2>7, <2>8 DEF PipeInv
    <3>2. QED
      BY <2>4, <2>5, <2>7, <3>1
  <2>9. child'.op = "free" /\ pc' = "error"
    BY <1>10, <1>17, Leaving DEF ReadThrows
  <2>10. QED
    BY <2>6, <2>8, <2>9 DEF PipeInv
<1>18. QED
  BY <1>1, <1>3, <1>4, <1>5, <1>6, <1>7, <1>8, <1>9, <1>11, <1>12, <1>14, <1>15, <1>16, <1>17
     DEF Next, RunStep, ChildStep, OtherStep

-----------------------------------------------------------------------------
(***************************************************************************)
(* The sizes of the texts.                                                 *)
(***************************************************************************)
\* The amount of output is bounded.
LEMMA AmountNext == ASSUME FlagType, RunType, PipeInv, Amount <= MaxOut, [Next]_vars
                    PROVE  (Amount <= MaxOut)'
<1>0. /\ Len(written["stdout"]) \in Nat /\ Len(written["stderr"]) \in Nat
      /\ written["stdout"] \in Seq(Char) /\ written["stderr"] \in Seq(Char)
      /\ Piped \subseteq Stream /\ Stream = {"stdout", "stderr"} /\ MaxOut \in Nat
      /\ child.op \in Stream \cup {"free"}
  BY SizeAssumption DEF Piped, Stream, RunType, Child
<1> DEFINE a == Len(written["stdout"])
           b == Len(written["stderr"])
           out == a + b
           one == IF child.op = "free" THEN 0 ELSE 1
<1>1. /\ out \in Nat
      /\ (child.op = "free" => one = 0) /\ (child.op # "free" => one = 1)
      /\ (child'.op = "free" => one' = 0) /\ (child'.op # "free" => one' = 1)
  <2>1. a \in Nat /\ b \in Nat
    BY <1>0
  <2>2. out \in Nat
    <3> HIDE DEF a, b
    <3>1. QED
      BY <2>1
  <2>3. QED
    BY <2>2
<1>2. Amount = out + one /\ Amount' = out' + one'
  BY DEF Amount
<1>3. MaxOut' = MaxOut
  OBVIOUS
<1>4. ASSUME UNCHANGED written, child'.op = "free" \/ child'.op = child.op
      PROVE  (Amount <= MaxOut)'
  <2>1. out' = out
    BY <1>4
  <2> HIDE DEF out, one
  <2>2. QED
    <3>1. CASE child'.op = "free"
      BY <1>0, <1>1, <1>2, <2>1, <3>1
    <3>2. CASE child'.op = child.op
      BY <1>0, <1>1, <1>2, <2>1, <3>2
    <3>3. QED
      BY <1>4, <3>1, <3>2
<1>5. ASSUME NEW s \in Stream, NEW c \in Char, Writes(s, c)
      PROVE  out' = out + 1
  <2>1. written' = [written EXCEPT ![s] = Append(@, c)]
    BY <1>5 DEF Writes
  <2>2. \A t \in Stream : written'[t] = IF t = s THEN Append(written[t], c) ELSE written[t]
    BY <2>1 DEF RunType
  <2>3. /\ Len(Append(written["stdout"], c)) = Len(written["stdout"]) + 1
        /\ Len(Append(written["stderr"], c)) = Len(written["stderr"]) + 1
    BY <1>0
  <2>4. CASE s = "stdout"
    <3>1. written'["stdout"] = Append(written["stdout"], c) /\ written'["stderr"] = written["stderr"]
      BY <1>0, <2>2, <2>4
    <3>2. a' = a + 1 /\ b' = b /\ a \in Nat /\ b \in Nat
      BY <1>0, <2>3, <3>1
    <3> HIDE DEF a, b
    <3>3. QED
      BY <3>2
  <2>5. CASE s = "stderr"
    <3>1. written'["stderr"] = Append(written["stderr"], c) /\ written'["stdout"] = written["stdout"]
      BY <1>0, <2>2, <2>5
    <3>2. b' = b + 1 /\ a' = a /\ a \in Nat /\ b \in Nat
      BY <1>0, <2>3, <3>1
    <3> HIDE DEF a, b
    <3>3. QED
      BY <3>2
  <2>6. QED
    BY <1>0, <2>4, <2>5
<1>6. CASE UNCHANGED vars
  BY <1>4, <1>6 DEF vars
<1>7. CASE ChildWrites
  <2>1. child.op # "free" /\ child.op \in Stream /\ \E c \in Char : Writes(child.op, c)
    BY <1>0, <1>7 DEF ChildWrites
  <2>2. child'.op = "free"
    BY <1>7 DEF ChildWrites, RunType, Child
  <2>3. out' = out + 1 /\ one = 1 /\ one' = 0
    BY <1>1, <1>5, <2>1, <2>2
  <2> HIDE DEF out, one
  <2>4. QED
    BY <1>0, <1>1, <1>2, <2>3
<1>8. ASSUME NEW s \in Piped, OtherWrites(s) PROVE (Amount <= MaxOut)'
  <2>1. Amount < MaxOut /\ UNCHANGED child /\ \E c \in Char : Writes(s, c)
    BY <1>8 DEF OtherWrites
  <2>2. out' = out + 1 /\ one' = one
    BY <1>0, <1>1, <1>5, <2>1
  <2> HIDE DEF out, one
  <2>3. QED
    BY <1>0, <1>1, <1>2, <2>1, <2>2
<1>9. ASSUME NEW s \in Piped, ChildBlocks(s) PROVE (Amount <= MaxOut)'
  <2>1. Amount < MaxOut /\ child.op = "free" /\ UNCHANGED written
    BY <1>9 DEF ChildBlocks
  <2>2. out' = out /\ one = 0 /\ (one' = 0 \/ one' = 1)
    BY <1>1, <2>1
  <2> HIDE DEF out, one
  <2>3. QED
    BY <1>0, <1>1, <1>2, <2>1, <2>2
<1>10. CASE \/ ChildReads \/ ChildExits \/ OtherEnds \/ TimePasses \/ LoopChecks \/ PollReady
            \/ PollTimesOut \/ PollNothing \/ Waits \/ LeftChecks \/ InTime \/ FeedWrites
            \/ (\E s \in Piped : ChildCloses(s))
            \/ (\E s \in Stream : ReadFails(s) \/ ReadsNothing(s))
  <2> HIDE DEF out, one
  <2>1. UNCHANGED written /\ (child' = Dead(0) \/ UNCHANGED child)
    BY <1>10 DEF ChildReads, ChildExits, OtherEnds, TimePasses, LoopChecks, PollReady,
       PollTimesOut, PollNothing, Waits, LeftChecks, InTime, FeedWrites, ChildCloses, ReadFails,
       ReadsNothing
  <2>2. child'.op = "free" \/ child'.op = child.op
    BY <2>1 DEF Dead
  <2>3. QED
    BY <1>4, <2>1, <2>2
<1>11. CASE Expires \/ FeedFails \/ Returns \/ Interrupted
            \/ \E s \in Stream : ReadsData(s) \/ ReadThrows(s)
  <2> HIDE DEF out, one
  <2>1. UNCHANGED written /\ (UNCHANGED child \/ (\E o \in Outcome : Kill(o)) \/ Leaves)
    BY <1>11 DEF Expires, FeedFails, Returns, Interrupted, ReadsData, ReadThrows
  <2>2. child.op # "free" => Running
    BY DEF PipeInv
  <2>3. child'.op = "free" \/ child'.op = child.op
    BY <2>1, <2>2, Killing, Leaving
  <2>4. QED
    BY <1>4, <2>1, <2>3
<1>12. QED
  BY <1>6, <1>7, <1>8, <1>9, <1>10, <1>11 DEF Next, RunStep, ChildStep, OtherStep

\* Nothing is read twice.
LEMMA FitNext ==
    ASSUME FlagType, RunType, PipeInv, SizeInv, [Next]_vars, RunType', PipeInv'
    PROVE  \A s \in Stream : Len(buf'[s]) + Len(pipe'[s]) <= Len(written'[s])
<1>0. \A s \in Stream : /\ pipe[s] \in Seq(Char) /\ buf[s] \in Seq(Char) /\ written[s] \in Seq(Char)
                        /\ pipe'[s] \in Seq(Char) /\ buf'[s] \in Seq(Char)
                        /\ Len(pipe[s]) \in Nat /\ Len(buf[s]) \in Nat /\ Len(written[s]) \in Nat
                        /\ Len(buf[s]) + Len(pipe[s]) <= Len(written[s])
  BY DEF RunType, SizeInv
<1>1. CASE pc' # "error"
  <2>1. \A s \in Stream : written'[s] = buf'[s] \o pipe'[s]
    BY <1>1 DEF PipeInv
  <2>2. ASSUME NEW s \in Stream PROVE Len(buf'[s]) + Len(pipe'[s]) <= Len(written'[s])
    <3> DEFINE a == buf'[s]
               b == pipe'[s]
    <3>1. a \in Seq(Char) /\ b \in Seq(Char) /\ written'[s] = a \o b
      BY <1>0, <2>1
    <3> HIDE DEF a, b
    <3>2. Len(a \o b) = Len(a) + Len(b) /\ Len(a) + Len(b) <= Len(a \o b)
      BY <3>1
    <3>3. QED
      BY <3>1, <3>2 DEF a, b
  <2>3. QED
    BY <2>2
<1>2. CASE UNCHANGED <<buf, pipe, written>>
  BY <1>0, <1>2
<1>3. ASSUME NEW s \in Stream, NEW c \in Char, Writes(s, c), UNCHANGED buf
      PROVE  \A t \in Stream : Len(buf'[t]) + Len(pipe'[t]) <= Len(written'[t])
  <2>1. \A t \in Stream : /\ written'[t] = IF t = s THEN Append(written[t], c) ELSE written[t]
                          /\ pipe'[t] = IF t = s THEN Append(pipe[t], c) ELSE pipe[t]
    BY <1>3 DEF Writes, RunType
  <2>2. Len(Append(written[s], c)) = Len(written[s]) + 1 /\ Len(Append(pipe[s], c)) = Len(pipe[s]) + 1
    BY <1>0
  <2>3. ASSUME NEW t \in Stream PROVE Len(buf'[t]) + Len(pipe'[t]) <= Len(written'[t])
    <3>1. CASE t = s
      <4>1. /\ Len(written'[t]) = Len(written[t]) + 1 /\ Len(pipe'[t]) = Len(pipe[t]) + 1
            /\ Len(buf'[t]) = Len(buf[t])
        BY <1>3, <2>1, <2>2, <3>1
      <4>2. \A x, y, z \in Nat : x + y <= z => x + (y + 1) <= z + 1
        OBVIOUS
      <4>3. QED
        BY <1>0, <4>1, <4>2
    <3>2. CASE t # s
      BY <1>0, <1>3, <2>1, <3>2
    <3>3. QED
      BY <3>1, <3>2
  <2>4. QED
    BY <2>3
<1>4. ASSUME NEW s \in Stream, ReadThrows(s)
      PROVE  \A t \in Stream : Len(buf'[t]) + Len(pipe'[t]) <= Len(written'[t])
  <2>1. PICK k \in 1..Least(Chunk, Len(pipe[s])) :
          pipe' = [pipe EXCEPT ![s] = Drop(@, k)] /\ Thrown(s, SubSeq(pipe[s], 1, k))
    BY <1>4, Throwing
  <2>2. k \in Nat /\ k <= Len(pipe[s])
    BY <1>0, SizeAssumption DEF Least
  <2>3. /\ Len(Drop(pipe[s], k)) = Len(pipe[s]) - k /\ Len(SubSeq(pipe[s], 1, k)) = k
        /\ SubSeq(pipe[s], 1, k) \in Seq(Char)
    BY <2>2, Reading
  <2>4. Len(buf[s] \o SubSeq(pipe[s], 1, k)) = Len(buf[s]) + k
    BY <1>0, <2>3, ConcatProperties
  <2>5. Len(buf'[s]) = Len(buf[s]) \/ Len(buf'[s]) = Len(buf[s]) + k
    BY <2>1, <2>4 DEF Thrown, RunType
  <2>6. Len(pipe'[s]) = Len(pipe[s]) - k /\ UNCHANGED written
    BY <1>4, <2>1, <2>3 DEF ReadThrows, RunType
  <2>7. \A t \in Stream : t # s => buf'[t] = buf[t] /\ pipe'[t] = pipe[t]
    BY <2>1 DEF Thrown, RunType
  <2>8. Len(buf'[s]) + Len(pipe'[s]) <= Len(written'[s])
    <3>1. \A x, y, z, i \in Nat : x + y <= z => x + (y - i) <= z /\ (x + i) + (y - i) <= z
      OBVIOUS
    <3>2. QED
      BY <1>0, <2>2, <2>5, <2>6, <3>1
  <2>9. QED
    BY <1>0, <2>6, <2>7, <2>8
<1>5. CASE ChildWrites
  <2>1. child.op \in Stream /\ (\E c \in Char : Writes(child.op, c)) /\ UNCHANGED buf
    BY <1>5 DEF ChildWrites, RunType, Child
  <2>2. QED
    BY <1>3, <2>1
<1>6. ASSUME NEW s \in Piped, OtherWrites(s)
      PROVE  \A t \in Stream : Len(buf'[t]) + Len(pipe'[t]) <= Len(written'[t])
  <2>1. s \in Stream /\ (\E c \in Char : Writes(s, c)) /\ UNCHANGED buf
    BY <1>6 DEF OtherWrites, Piped, Stream
  <2>2. QED
    BY <1>3, <2>1
<1>7. ASSUME NEW s \in Stream, ReadsData(s) PROVE pc' # "error"
  BY <1>7, Afterwards DEF ReadsData
<1>8. Interrupted => pc' # "error"
  BY DEF Interrupted
<1>9. [Next]_vars => \/ UNCHANGED <<buf, pipe, written>> \/ Interrupted \/ ChildWrites
                     \/ (\E s \in Piped : OtherWrites(s))
                     \/ \E s \in Stream : ReadsData(s) \/ ReadThrows(s)
  BY DEF vars, Next, RunStep, ChildStep, OtherStep, ChildReads, ChildExits, ChildBlocks,
     ChildCloses, OtherEnds, TimePasses, LoopChecks, Expires, InTime, FeedWrites,
     FeedFails, PollReady, PollTimesOut, PollNothing, ReadsNothing, ReadFails, Waits, LeftChecks,
     Returns
<1>10. QED
  BY <1>1, <1>2, <1>4, <1>5, <1>6, <1>7, <1>8, <1>9

\* What is remembered is not longer than the output.
LEMMA SizeNext ==
    ASSUME FlagType, RunType, PipeInv, SizeInv, [Next]_vars, RunType', PipeInv'
    PROVE  SizeInv'
<1>0. \A s \in Stream : /\ pipe[s] \in Seq(Char) /\ buf[s] \in Seq(Char) /\ pushback[s] \in Seq(Char)
                        /\ Len(pipe[s]) \in Nat /\ Len(buf[s]) \in Nat /\ Len(pushback[s]) \in Nat
                        /\ Len(pushback[s]) <= Len(buf[s])
  BY DEF RunType, SizeInv
<1>1. (Amount <= MaxOut)' /\ \A s \in Stream : Len(buf'[s]) + Len(pipe'[s]) <= Len(written'[s])
  BY AmountNext, FitNext DEF SizeInv
<1>2. SUFFICES \A s \in Stream : Len(pushback'[s]) <= Len(buf'[s])
  BY <1>1 DEF SizeInv
<1>3. CASE UNCHANGED <<buf, pushback>>
  BY <1>0, <1>3
<1>4. ASSUME NEW s \in Stream, NEW k \in Nat, k <= Len(pipe[s])
      PROVE  LET data == SubSeq(pipe[s], 1, k)
             IN  /\ Len(pushback[s]) <= Len(buf[s] \o data)
                 /\ Len(Rest(Joined(s, data))) <= Len(buf[s] \o data)
  <2> DEFINE data == SubSeq(pipe[s], 1, k)
             text == Joined(s, data)
  <2>1. data \in Seq(Char)
    BY <1>4, Reading
  <2>2. /\ text \in Seq(Char) /\ Len(text) = Len(pushback[s]) + Len(data)
        /\ Len(buf[s] \o data) = Len(buf[s]) + Len(data) /\ Len(data) \in Nat
    BY <1>0, <2>1, ConcatProperties, LenProperties DEF Joined
  <2> HIDE DEF data, text
  <2>3. Rest(text) \in Seq(Char) /\ Len(Rest(text)) <= Len(text) /\ Len(Rest(text)) \in Nat
    BY <2>2, LineTypes, LenProperties
  <2>4. Len(pushback[s]) <= Len(buf[s] \o data) /\ Len(Rest(text)) <= Len(buf[s] \o data)
    BY <1>0, <2>2, <2>3
  <2>5. QED
    BY <2>4 DEF data, text
<1>5. CASE Interrupted
  <2>1. PICK k \in [Stream -> 0..PipeSize] :
            /\ \A s \in Stream : k[s] <= Len(pipe[s])
            /\ buf' = [s \in Stream |-> buf[s] \o SubSeq(pipe[s], 1, k[s])]
    BY <1>5 DEF Interrupted
  <2>2. \A s \in Stream : k[s] \in Nat /\ k[s] <= Len(pipe[s])
    BY <2>1, SizeAssumption
  <2>3. \A s \in Stream : buf'[s] = buf[s] \o SubSeq(pipe[s], 1, k[s]) /\ pushback'[s] = pushback[s]
    BY <1>5, <2>1 DEF Interrupted
  <2>4. QED
    BY <1>4, <2>2, <2>3
<1>6. ASSUME NEW s \in Stream, NEW k \in 1..Least(Chunk, Len(pipe[s])),
             buf' = [buf EXCEPT ![s] = @ \o SubSeq(pipe[s], 1, k)],
             \/ UNCHANGED pushback
             \/ pushback' = [pushback EXCEPT ![s] = Rest(Joined(s, SubSeq(pipe[s], 1, k)))]
      PROVE  \A t \in Stream : Len(pushback'[t]) <= Len(buf'[t])
  <2>1. k \in Nat /\ k <= Len(pipe[s])
    BY <1>0, SizeAssumption DEF Least
  <2>2. \A t \in Stream : t # s => buf'[t] = buf[t] /\ pushback'[t] = pushback[t]
    BY <1>6 DEF RunType
  <2>3. /\ buf'[s] = buf[s] \o SubSeq(pipe[s], 1, k)
        /\ pushback'[s] = pushback[s] \/ pushback'[s] = Rest(Joined(s, SubSeq(pipe[s], 1, k)))
    BY <1>6 DEF RunType
  <2>4. Len(pushback'[s]) <= Len(buf'[s])
    BY <1>4, <2>1, <2>3
  <2>5. QED
    BY <1>0, <2>2, <2>4
<1>7. ASSUME NEW s \in Stream, ReadsData(s) PROVE \A t \in Stream : Len(pushback'[t]) <= Len(buf'[t])
  BY <1>6, <1>7 DEF ReadsData
<1>8. ASSUME NEW s \in Stream, ReadThrows(s) PROVE \A t \in Stream : Len(pushback'[t]) <= Len(buf'[t])
  <2>1. PICK k \in 1..Least(Chunk, Len(pipe[s])) : Thrown(s, SubSeq(pipe[s], 1, k))
    BY <1>8, Throwing
  <2>2. QED
    BY <1>3, <1>6, <2>1 DEF Thrown
<1>9. [Next]_vars => \/ UNCHANGED <<buf, pushback>> \/ Interrupted
                     \/ \E s \in Stream : ReadsData(s) \/ ReadThrows(s)
  BY DEF vars, Next, RunStep, ChildStep, OtherStep, ChildWrites, ChildReads, ChildExits, ChildBlocks,
     ChildCloses, OtherEnds, OtherWrites, TimePasses, LoopChecks, Expires, InTime, FeedWrites,
     FeedFails, PollReady, PollTimesOut, PollNothing, ReadsNothing, ReadFails, Waits, LeftChecks,
     Returns
<1>10. QED
  BY <1>3, <1>5, <1>7, <1>8, <1>9

-----------------------------------------------------------------------------
(***************************************************************************)
(* The loops and the ends of run().                                        *)
(***************************************************************************)
\* LoopInv is kept by every step.
LEMMA LoopNext == ASSUME FlagType, RunType, LoopInv, [Next]_vars PROVE LoopInv'
<1>0. /\ ~Running => ~Running'
      /\ (spoiled => spoiled') /\ mode' = mode /\ Piped' = Piped /\ Piped \subseteq Output
  BY Onwards DEF Running, Piped, Stream, Output
<1>1. CASE UNCHANGED <<pc, drain, con, spoiled>>
  BY <1>0, <1>1 DEF LoopInv, Over
<1>2. CASE ChildStep \/ OtherStep \/ TimePasses
  BY <1>1, <1>2 DEF ChildStep, ChildWrites, ChildReads, ChildExits, ChildBlocks, ChildCloses,
     OtherStep, OtherEnds, OtherWrites, TimePasses
<1>3. CASE \/ LoopChecks \/ InTime \/ FeedWrites \/ PollReady \/ PollTimesOut \/ PollNothing
           \/ Waits \/ LeftChecks
  BY <1>0, <1>3 DEF LoopInv, LoopChecks, InTime, FeedWrites, PollReady, PollTimesOut, PollNothing,
     Waits, LeftChecks, Over
<1>4. CASE Expires
  BY <1>0, <1>4 DEF Expires, LoopInv, Over
<1>5. CASE FeedFails \/ Interrupted
  <2>1. ~Running'
    BY <1>5, Leaving DEF FeedFails, Interrupted, Running
  <2>2. QED
    BY <1>5, <2>1 DEF FeedFails, Interrupted, LoopInv
<1>6. CASE Returns
  <2>1. ~Running' /\ \A c \in Output : con'[c].eof = con[c].eof
    BY <1>6, Leaving DEF Returns, Running
  <2>2. spoiled \/ \A s \in Piped : con[s].eof
    BY <1>6 DEF Returns, LoopInv, Incomplete
  <2>3. pc' = "done" /\ UNCHANGED <<drain, spoiled>> /\ drain
    BY <1>6 DEF Returns, LoopInv
  <2>4. QED
    BY <1>0, <2>1, <2>2, <2>3 DEF LoopInv
<1>7. ASSUME NEW s \in Stream, ReadsNothing(s) \/ ReadFails(s) PROVE LoopInv'
  <2>1. CASE ReadsNothing(s)
    <3>1. pc' = After(s, TRUE) /\ UNCHANGED <<drain, child>>
      BY <2>1 DEF ReadsNothing
    <3>2. QED
      BY <1>0, <3>1, Afterwards DEF LoopInv, Over
  <2>2. CASE ReadFails(s)
    <3>1. pc' = After(s, ok) /\ spoiled' /\ UNCHANGED <<drain, child>>
      BY <2>2 DEF ReadFails
    <3>2. QED
      BY <1>0, <3>1, Afterwards DEF LoopInv, Over
  <2>3. QED
    BY <1>7, <2>1, <2>2
<1>8. ASSUME NEW s \in Stream, ReadsData(s) PROVE LoopInv'
  <2>1. pc' = After(s, TRUE) /\ UNCHANGED drain
    BY <1>8 DEF ReadsData
  <2>2. QED
    BY <1>0, <2>1, Afterwards DEF LoopInv, Over
<1>9. ASSUME NEW s \in Stream, ReadThrows(s) PROVE LoopInv'
  <2>1. pc' = "error" /\ ~Running'
    BY <1>9, Leaving DEF ReadThrows, Running
  <2>2. QED
    BY <2>1 DEF LoopInv
<1>10. QED
  BY <1>1, <1>2, <1>3, <1>4, <1>5, <1>6, <1>7, <1>8, <1>9 DEF Next, RunStep, vars

\* TreeInv is kept by every step: nobody opens a stream.
LEMMA TreeNext == ASSUME FlagType, RunType, TreeInv, [Next]_vars PROVE TreeInv'
<1>1. CASE UNCHANGED <<holds, cleanup>>
  BY <1>1 DEF TreeInv
<1>2. ASSUME UNCHANGED cleanup, \A c \in Output : holds'[c] \subseteq holds[c] PROVE TreeInv'
  BY <1>2 DEF TreeInv
<1>3. CASE Leaves
  BY <1>3, Leaving DEF TreeInv
<1>4. CASE (\E o \in Outcome : Kill(o)) /\ UNCHANGED cleanup
  BY <1>2, <1>4, Killing
<1>5. CASE ChildExits \/ OtherEnds \/ \E s \in Piped : ChildCloses(s)
  <2>1. CASE ChildExits \/ OtherEnds
    <3>1. UNCHANGED cleanup /\ \A c \in Output : holds'[c] \subseteq holds[c]
      BY <2>1 DEF ChildExits, OtherEnds, Without, RunType
    <3>2. QED
      BY <1>2, <3>1
  <2>2. ASSUME NEW s \in Piped, ChildCloses(s) PROVE TreeInv'
    <3>1. UNCHANGED cleanup /\ \A c \in Output : holds'[c] \subseteq holds[c]
      BY <2>2 DEF ChildCloses, RunType
    <3>2. QED
      BY <1>2, <3>1
  <2>3. QED
    BY <1>5, <2>1, <2>2
<1>6. [Next]_vars => \/ UNCHANGED <<holds, cleanup>>
                     \/ ChildExits \/ OtherEnds \/ \E s \in Piped : ChildCloses(s)
                     \/ Leaves \/ ((\E o \in Outcome : Kill(o)) /\ UNCHANGED cleanup)
  BY DEF vars, Next, RunStep, ChildStep, OtherStep, ChildWrites, ChildReads, ChildBlocks,
     OtherWrites, TimePasses, LoopChecks, Expires, InTime, FeedWrites, FeedFails, PollReady,
     PollTimesOut, PollNothing, ReadsData, ReadThrows, ReadsNothing, ReadFails, Waits, LeftChecks,
     Returns, Interrupted
<1>7. QED
  BY <1>1, <1>3, <1>4, <1>5, <1>6

\* KillInv is kept by every step.
LEMMA KillNext == ASSUME FlagType, RunType, LoopInv, KillInv, [Next]_vars PROVE KillInv'
<1>0. /\ ~Running => child' = child
      /\ (spoiled => spoiled') /\ (late => late')
  BY Onwards
<1>1. CASE UNCHANGED <<pc, drain, child, timeout, lost>>
  BY <1>0, <1>1 DEF KillInv, Running
<1>2. CASE ChildExits
  BY <1>2 DEF ChildExits, KillInv, Running, Dead
<1>3. CASE ChildWrites \/ \E s \in Piped : ChildBlocks(s)
  <2>1. child'.st = child.st /\ child'.code = child.code /\ UNCHANGED <<pc, drain, timeout, lost, late, spoiled>>
    BY <1>3 DEF ChildWrites, ChildBlocks, RunType, Child
  <2>2. QED
    BY <2>1 DEF KillInv, Running
<1>4. CASE ChildReads \/ OtherStep \/ TimePasses \/ \E s \in Piped : ChildCloses(s)
  BY <1>1, <1>4 DEF ChildReads, ChildCloses, OtherStep, OtherEnds, OtherWrites, TimePasses
<1>5. CASE \/ LoopChecks \/ InTime \/ FeedWrites \/ PollReady \/ PollTimesOut \/ PollNothing
           \/ Waits \/ LeftChecks
  <2>1. UNCHANGED <<child, timeout, lost, spoiled, late>>
    BY <1>5 DEF LoopChecks, InTime, FeedWrites, PollReady, PollTimesOut, PollNothing, Waits,
       LeftChecks
  <2>2. pc \notin {"error", "interrupted"} /\ (drain => drain')
        /\ (pc = "wait" => drain')
    BY <1>5 DEF LoopChecks, InTime, FeedWrites, PollReady, PollTimesOut, PollNothing, Waits,
       LeftChecks
  <2>3. QED
    BY <2>1, <2>2 DEF KillInv, Running
<1>6. CASE Expires
  <2>1. PICK o \in Outcome : Kill(o) /\ timeout' = Killed(o)
    BY <1>6 DEF Expires
  <2>2. pc = "time" /\ pc' = "wait" /\ late /\ UNCHANGED <<late, drain, spoiled>>
    BY <1>6 DEF Expires
  <2>3. ~drain /\ ~timeout
    BY <2>2 DEF LoopInv, KillInv
  <2>4. /\ child'.st = "dead" /\ (~Running => child' = child /\ (lost' <=> lost))
        /\ (lost' <=> lost \/ (Running /\ o = "raced"))
        /\ Running => (child'.code # 0 <=> o \in {"term", "kill"})
    BY <2>1, Killing
  <2>5. CASE Running
    BY <2>1, <2>2, <2>3, <2>4, <2>5 DEF KillInv, Running, Killed
  <2>6. CASE ~Running
    BY <2>1, <2>2, <2>3, <2>4, <2>6 DEF KillInv, Running, Killed
  <2>7. QED
    BY <2>5, <2>6
<1>7. CASE FeedFails \/ Returns
  <2>1. ~Running
    BY <1>7 DEF FeedFails, Hungup, Returns, LoopInv
  <2>2. child' = child /\ (lost' <=> lost)
    BY <1>7, <2>1, Leaving DEF FeedFails, Returns
  <2>3. UNCHANGED <<timeout, late, drain, spoiled>>
    BY <1>7 DEF FeedFails, Returns
  <2>4. /\ pc \notin {"wait", "error", "interrupted"}
        /\ FeedFails => pc' = "error" /\ ~drain
    BY <1>7 DEF FeedFails, Returns, LoopInv
  <2>5. ~Running'
    BY <2>1, <2>2 DEF Running
  <2>6. timeout => drain
    BY <2>4 DEF KillInv
  <2>7. QED
    BY <2>2, <2>3, <2>4, <2>5, <2>6 DEF KillInv
<1>8. CASE Interrupted
  <2>1. pc' = "interrupted" /\ UNCHANGED <<timeout, late>>
    BY <1>8 DEF Interrupted
  <2>2. child'.st = "dead" /\ (~Running => child' = child /\ (lost' <=> lost))
    BY <1>8, Leaving DEF Interrupted
  <2>3. QED
    BY <2>1, <2>2 DEF KillInv, Running
<1>9. ASSUME NEW s \in Stream, ReadsNothing(s) \/ ReadFails(s) PROVE KillInv'
  <2>1. pc = s /\ UNCHANGED <<child, timeout, lost, drain>>
    BY <1>9 DEF ReadsNothing, ReadFails
  <2>2. pc \notin {"wait", "error", "interrupted"}
    BY <2>1 DEF Stream
  <2>3. QED
    BY <1>0, <2>1, <2>2 DEF KillInv, Running
<1>10. ASSUME NEW s \in Stream, ReadsData(s) PROVE KillInv'
  <2>1. pc = s /\ UNCHANGED <<timeout, drain, late>>
    BY <1>10 DEF ReadsData
  <2>2. pc \notin {"wait", "error", "interrupted"}
    BY <2>1 DEF Stream
  <2>3. CASE UNCHANGED <<child, lost>>
    BY <1>0, <2>1, <2>2, <2>3 DEF KillInv, Running
  <2>4. CASE (\E o \in Outcome : Kill(o)) /\ spoiled'
    <3>1. child'.st = "dead" /\ (~Running => child' = child /\ (lost' <=> lost))
      BY <2>4, Killing
    <3>2. QED
      BY <2>1, <2>2, <2>4, <3>1 DEF KillInv, Running
  <2>5. QED
    BY <1>10, <2>3, <2>4 DEF ReadsData
<1>11. ASSUME NEW s \in Stream, ReadThrows(s) PROVE KillInv'
  <2>1. pc = s /\ pc' = "error" /\ UNCHANGED <<timeout, drain, late>>
    BY <1>11 DEF ReadThrows
  <2>2. pc \notin {"wait", "error", "interrupted"}
    BY <2>1 DEF Stream
  <2>3. child'.st = "dead" /\ (~Running => child' = child /\ (lost' <=> lost))
    BY <1>11, Leaving DEF ReadThrows
  <2>4. QED
    BY <2>1, <2>2, <2>3 DEF KillInv, Running
<1>12. QED
  BY <1>1, <1>2, <1>3, <1>4, <1>5, <1>6, <1>7, <1>8, <1>9, <1>10, <1>11
     DEF Next, RunStep, ChildStep, vars

\* LineInv is kept by every step: a chunk adds the lines that it completes.
LEMMA LineNext == ASSUME FlagType, RunType, LineInv, [Next]_vars PROVE LineInv'
<1>0. /\ \A s \in Stream : /\ pipe[s] \in Seq(Char) /\ buf[s] \in Seq(Char)
                           /\ lines[s] \in Seq(Seq(Char)) /\ Len(pipe[s]) \in Nat
      /\ pc \in {"interrupted", "error"} => pc' = pc
  BY Onwards DEF RunType, Over
<1>1. CASE UNCHANGED <<buf, lines, pushback>>
  BY <1>0, <1>1 DEF LineInv
<1>2. ASSUME NEW s \in Stream, NEW k \in Nat, k <= Len(pipe[s]), pc \notin {"interrupted", "error"}
      PROVE  LET data == SubSeq(pipe[s], 1, k)
                 new == Lines(Joined(s, data))
             IN  /\ new \in Seq(Seq(Char))
                 /\ lines[s] \o new = Lines(buf[s] \o data)
                 /\ Rest(Joined(s, data)) = Rest(buf[s] \o data)
  <2> DEFINE data == SubSeq(pipe[s], 1, k)
             new == Lines(Joined(s, data))
  <2>1. data \in Seq(Char)
    BY <1>2, Reading
  <2>2. lines[s] = Lines(buf[s]) /\ pushback[s] = Rest(buf[s])
    BY <1>2 DEF LineInv
  <2> HIDE DEF data
  <2>3. /\ Lines(buf[s] \o data) = Lines(buf[s]) \o Lines(Rest(buf[s]) \o data)
        /\ Rest(buf[s] \o data) = Rest(Rest(buf[s]) \o data)
    BY <1>0, <2>1, LinesJoined
  <2>4. Rest(buf[s]) \o data \in Seq(Char)
    BY <1>0, <2>1, LineTypes, ConcatProperties
  <2>5. new \in Seq(Seq(Char))
    BY <2>2, <2>4, LineTypes DEF Joined
  <2>6. QED
    BY <2>2, <2>3, <2>5 DEF Joined, data
<1>3. ASSUME NEW s \in Stream, ReadsData(s) PROVE LineInv'
  <2>0. pc \notin {"interrupted", "error"}
    <3>1. pc = s
      BY <1>3 DEF ReadsData
    <3>2. QED
      BY <3>1 DEF Stream
  <2>1. PICK k \in 1..Least(Chunk, Len(pipe[s])) :
          /\ buf' = [buf EXCEPT ![s] = @ \o SubSeq(pipe[s], 1, k)]
          /\ lines' = [lines EXCEPT ![s] = @ \o Lines(Joined(s, SubSeq(pipe[s], 1, k)))]
          /\ pushback' = [pushback EXCEPT ![s] = Rest(Joined(s, SubSeq(pipe[s], 1, k)))]
    BY <1>3 DEF ReadsData
  <2>2. k \in Nat /\ k <= Len(pipe[s])
    BY <1>0, SizeAssumption DEF Least
  <2>3. /\ buf'[s] = buf[s] \o SubSeq(pipe[s], 1, k)
        /\ lines'[s] = lines[s] \o Lines(Joined(s, SubSeq(pipe[s], 1, k)))
        /\ pushback'[s] = Rest(Joined(s, SubSeq(pipe[s], 1, k)))
        /\ \A t \in Stream : t # s =>
              buf'[t] = buf[t] /\ lines'[t] = lines[t] /\ pushback'[t] = pushback[t]
    BY <2>1 DEF RunType
  <2>4. lines'[s] = Lines(buf'[s]) /\ pushback'[s] = Rest(buf'[s])
    BY <1>2, <2>0, <2>2, <2>3
  <2>5. Begins(lines'[s], Lines(buf'[s]))
    <3>1. Lines(Joined(s, SubSeq(pipe[s], 1, k))) \in Seq(Seq(Char))
      BY <1>2, <2>0, <2>2
    <3>2. lines'[s] \in Seq(Seq(Char)) /\ <<>> \in Seq(Seq(Char)) /\ 0 \in 0..Len(<<>>)
      BY <1>0, <2>3, <3>1, ConcatProperties
    <3>3. Begins(lines'[s], lines'[s])
      BY <3>2, Beginning
    <3>4. QED
      BY <3>3, <2>4
  <2>6. QED
    BY <2>0, <2>3, <2>4, <2>5 DEF LineInv
<1>4. CASE Interrupted
  <2>0. pc \notin {"interrupted", "error"} /\ pc' = "interrupted"
    BY <1>4 DEF Interrupted
  <2>1. PICK k \in [Stream -> 0..PipeSize] :
            /\ \A s \in Stream : k[s] <= Len(pipe[s])
            /\ buf' = [s \in Stream |-> buf[s] \o SubSeq(pipe[s], 1, k[s])]
    BY <1>4 DEF Interrupted
  <2>2. ASSUME NEW s \in Stream PROVE Begins(lines'[s], Lines(buf'[s]))
    <3>1. k[s] \in Nat /\ k[s] <= Len(pipe[s])
      BY <2>1, SizeAssumption
    <3> DEFINE new == Lines(Joined(s, SubSeq(pipe[s], 1, k[s])))
    <3>2. new \in Seq(Seq(Char)) /\ lines[s] \o new = Lines(buf[s] \o SubSeq(pipe[s], 1, k[s]))
      BY <1>2, <2>0, <3>1
    <3>3. buf'[s] = buf[s] \o SubSeq(pipe[s], 1, k[s]) /\ lines'[s] = lines[s]
      BY <1>4, <2>1 DEF Interrupted
    <3> HIDE DEF new
    <3>4. 0 \in 0..Len(new)
      BY <3>2, LenProperties
    <3>5. Begins(lines[s], lines[s] \o new)
      BY <1>0, <3>2, <3>4, Beginning
    <3>6. QED
      BY <3>2, <3>3, <3>5
  <2>3. QED
    BY <2>0, <2>2 DEF LineInv
<1>5. ASSUME NEW s \in Stream, ReadThrows(s) PROVE LineInv'
  <2>0. pc \notin {"interrupted", "error"} /\ pc' = "error"
    <3>1. pc = s /\ pc' = "error"
      BY <1>5 DEF ReadThrows
    <3>2. QED
      BY <3>1 DEF Stream
  <2>1. PICK k \in 1..Least(Chunk, Len(pipe[s])) : Thrown(s, SubSeq(pipe[s], 1, k))
    BY <1>5, Throwing
  <2>2. k \in Nat /\ k <= Len(pipe[s])
    BY <1>0, SizeAssumption DEF Least
  <2> DEFINE data == SubSeq(pipe[s], 1, k)
             new == Lines(Joined(s, data))
  <2>3. new \in Seq(Seq(Char)) /\ lines[s] \o new = Lines(buf[s] \o data)
    BY <1>2, <2>0, <2>2
  <2>4. \A t \in Stream : t # s => buf'[t] = buf[t] /\ lines'[t] = lines[t]
    BY <2>1 DEF Thrown, RunType
  <2>5. Begins(lines'[s], Lines(buf'[s]))
    <3>1. CASE UNCHANGED <<buf, lines>>
      BY <3>1 DEF LineInv
    <3>2. CASE buf' = [buf EXCEPT ![s] = @ \o data] /\ UNCHANGED lines
      <4>1. buf'[s] = buf[s] \o data /\ lines'[s] = lines[s]
        BY <3>2 DEF RunType
      <4> HIDE DEF data, new
      <4>2. 0 \in 0..Len(new)
        BY <2>3, LenProperties
      <4>3. Begins(lines[s], lines[s] \o new)
        BY <1>0, <2>3, <4>2, Beginning
      <4>4. QED
        BY <2>3, <4>1, <4>3
    <3>3. CASE /\ buf' = [buf EXCEPT ![s] = @ \o data]
               /\ \E n \in DOMAIN new : lines' = [lines EXCEPT ![s] = @ \o SubSeq(new, 1, n)]
      <4>1. PICK n \in DOMAIN new : lines' = [lines EXCEPT ![s] = @ \o SubSeq(new, 1, n)]
        BY <3>3
      <4>2. buf'[s] = buf[s] \o data /\ lines'[s] = lines[s] \o SubSeq(new, 1, n)
        BY <3>3, <4>1 DEF RunType
      <4> HIDE DEF data, new
      <4>3. n \in 0..Len(new)
        BY <2>3, LenProperties
      <4>4. Begins(lines[s] \o SubSeq(new, 1, n), lines[s] \o new)
        BY <1>0, <2>3, <4>3, Beginning
      <4>5. QED
        BY <2>3, <4>2, <4>4
    <3>4. QED
      BY <2>1, <3>1, <3>2, <3>3 DEF Thrown
  <2>6. QED
    BY <2>0, <2>4, <2>5 DEF LineInv
<1>6. [Next]_vars => \/ UNCHANGED <<buf, pushback, lines>> \/ Interrupted
                     \/ \E s \in Stream : ReadsData(s) \/ ReadThrows(s)
  BY DEF vars, Next, RunStep, ChildStep, OtherStep, ChildWrites, ChildReads, ChildExits,
     ChildBlocks, ChildCloses, OtherEnds, OtherWrites, TimePasses, LoopChecks, Expires, InTime,
     FeedWrites, FeedFails, PollReady, PollTimesOut, PollNothing, ReadsNothing, ReadFails,
     Waits, LeftChecks, Returns
<1>7. QED
  BY <1>1, <1>3, <1>4, <1>5, <1>6

-----------------------------------------------------------------------------
(***************************************************************************)
(* The theorems.                                                           *)
(***************************************************************************)
\* In the beginning nothing was written and nothing was read.
LEMMA InitIInv == Init => IInv
<1> SUFFICES ASSUME Init PROVE IInv
  OBVIOUS
<1>1. FlagType
  BY DEF Init, FlagType
<1>2. /\ pipe = [s \in Stream |-> <<>>] /\ written = [s \in Stream |-> <<>>]
      /\ buf = [s \in Stream |-> <<>>] /\ pushback = [s \in Stream |-> <<>>]
      /\ lines = [s \in Stream |-> <<>>]
      /\ child = [st |-> "run", code |-> 0, op |-> "free"] /\ pc = "alive" /\ ~drain
      /\ con = [c \in Stream \cup {"poll"} |-> [eof |-> FALSE, closed |-> FALSE]]
      /\ ~timeout /\ ~lost /\ ~spoiled /\ cleanup = "no"
  BY DEF Init
<1>3. <<>> \in Seq(Char) /\ <<>> \in Seq(Seq(Char)) /\ Len(<<>>) = 0 /\ DOMAIN <<>> = {}
  <2>1. <<>> \in Seq(Char) /\ <<>> \in Seq(Seq(Char)) /\ Len(<<>>) = 0
    OBVIOUS
  <2>2. DOMAIN <<>> = 1..0
    BY <2>1, LenProperties
  <2>3. QED
    BY <2>1, <2>2
<1>4. RunType
  <2>1. holds \in [Output -> SUBSET {"child", "other"}]
    BY DEF Init, Output
  <2>2. feed \in [left : 0..MaxIn, eof : BOOLEAN] /\ tty \in 0..TtySize
    <3>1. MaxIn \in 0..MaxIn /\ 0 \in 0..MaxIn /\ 0 \in 0..TtySize
      BY SizeAssumption
    <3>2. \/ feed = [left |-> 0, eof |-> TRUE]
          \/ \E n \in {0, MaxIn} : feed = [left |-> n, eof |-> FALSE]
      BY DEF Init
    <3>3. feed \in [left : 0..MaxIn, eof : BOOLEAN]
      <4>1. \E n \in 0..MaxIn, e \in BOOLEAN : feed = [left |-> n, eof |-> e]
        BY <3>1, <3>2, Zenon
      <4>2. QED
        BY <4>1
    <3>4. QED
      BY <3>1, <3>3 DEF Init
  <2>3. mode \in Modes
    BY DEF Init
  <2>4. QED
    BY <1>2, <1>3, <2>1, <2>2, <2>3 DEF RunType, Output, Location, Child, SIGTERM, SIGKILL
<1>5. PipeInv
  BY <1>2, <1>3, SizeAssumption, ConcatEmptySeq DEF PipeInv, Running, Stream
<1>6. SizeInv
  <2>1. Amount <= MaxOut
    BY <1>2, <1>3, SizeAssumption DEF Amount, Stream
  <2>2. QED
    BY <1>2, <1>3, <2>1 DEF SizeInv
<1>7. LoopInv /\ TreeInv /\ KillInv
  BY <1>2 DEF LoopInv, TreeInv, KillInv, Running, Over
<1>8. LineInv
  <2>1. Lines(<<>>) = <<>> /\ Rest(<<>>) = <<>>
    <3>1. All(<<>>) = 0
      BY <1>3, Count DEF All
    <3>2. Lines(<<>>) \in Seq(Seq(Char)) /\ Len(Lines(<<>>)) = 0
          /\ Rest(<<>>) \in Seq(Char) /\ Len(Rest(<<>>)) <= 0
      BY <1>3, <3>1, LineTypes
    <3>3. Len(Rest(<<>>)) = 0
      BY <3>2, LenProperties
    <3>4. QED
      BY <3>2, <3>3, EmptySeq
  <2>2. Begins(<<>>, <<>>)
    <3>1. 0 \in 0..Len(<<>>)
      BY <1>3
    <3>2. QED
      BY <1>3, <3>1, Beginning
  <2>3. QED
    BY <1>2, <2>1, <2>2 DEF LineInv
<1>9. QED
  BY <1>1, <1>4, <1>5, <1>6, <1>7, <1>8 DEF IInv

\* Every step keeps the invariant.
LEMMA NextIInv == IInv /\ [Next]_vars => IInv'
<1> SUFFICES ASSUME IInv, [Next]_vars PROVE IInv'
  OBVIOUS
<1>0. FlagType /\ RunType /\ PipeInv /\ SizeInv /\ LoopInv /\ TreeInv /\ KillInv /\ LineInv
  BY DEF IInv
<1>1. FlagType' /\ RunType' /\ PipeInv'
  BY <1>0, FlagNext, TypeNext, PipeNext
<1>2. SizeInv' /\ LoopInv' /\ TreeInv' /\ KillInv' /\ LineInv'
  BY <1>0, <1>1, SizeNext, LoopNext, TreeNext, KillNext, LineNext
<1>3. QED
  BY <1>1, <1>2 DEF IInv

\* The bounds make texts of sequences.
LEMMA TextOf ==
    ASSUME NEW s \in Seq(Char), Len(s) <= MaxOut
    PROVE  s \in Text
<1>1. Len(s) \in 0..MaxOut /\ s \in [1..Len(s) -> Char]
  BY SizeAssumption, LenProperties
<1>2. QED
  BY <1>1 DEF Text

\* The types of the run are part of the invariant.
LEMMA InvTypes == IInv => TypeOK
<1> SUFFICES ASSUME IInv PROVE TypeOK
  OBVIOUS
<1>0. FlagType /\ RunType /\ PipeInv /\ SizeInv /\ LineInv
  BY DEF IInv
<1>1. ASSUME NEW s \in Stream
      PROVE  /\ pipe[s] \in Text /\ Len(pipe[s]) <= PipeSize
             /\ written[s] \in Text /\ buf[s] \in Text /\ pushback[s] \in Text
             /\ \A l \in DOMAIN lines[s] : lines[s][l] \in Text
  <2>1. /\ pipe[s] \in Seq(Char) /\ written[s] \in Seq(Char) /\ buf[s] \in Seq(Char)
        /\ pushback[s] \in Seq(Char) /\ lines[s] \in Seq(Seq(Char))
    BY <1>0 DEF RunType
  <2>2. /\ Len(pipe[s]) \in Nat /\ Len(written[s]) \in Nat /\ Len(buf[s]) \in Nat
        /\ Len(pushback[s]) \in Nat /\ MaxOut \in Nat
    BY <2>1, LenProperties, SizeAssumption
  <2>3. Len(written[s]) <= MaxOut
    <3> DEFINE a == Len(written["stdout"])
               b == Len(written["stderr"])
    <3>1. a \in Nat /\ b \in Nat
      BY <1>0, LenProperties DEF RunType, Stream
    <3>2. a + b + (IF child.op = "free" THEN 0 ELSE 1) <= MaxOut
      BY <1>0 DEF SizeInv, Amount
    <3>3. Len(written[s]) = a \/ Len(written[s]) = b
      BY DEF Stream
    <3> HIDE DEF a, b
    <3>4. QED
      BY <2>2, <3>1, <3>2, <3>3
  <2>4. Len(pipe[s]) <= PipeSize
    BY <1>0 DEF PipeInv
  <2>5. Len(buf[s]) + Len(pipe[s]) <= Len(written[s])
    BY <1>0 DEF SizeInv
  <2>6. Len(pipe[s]) <= MaxOut /\ Len(buf[s]) <= MaxOut
    <3>1. \A m, n, k \in Nat : m + n <= k /\ k <= MaxOut => m <= MaxOut /\ n <= MaxOut
      BY <2>2
    <3>2. QED
      BY <2>2, <2>3, <2>5, <3>1, Zenon
  <2>7. Len(pushback[s]) <= Len(buf[s])
    BY <1>0 DEF SizeInv
  <2>8. Len(pushback[s]) <= MaxOut
    BY <2>2, <2>6, <2>7
  <2>9. ASSUME NEW l \in DOMAIN lines[s] PROVE lines[s][l] \in Text
    <3>1. lines[s][l] \in Seq(Char)
      BY <2>1
    <3>2. Len(lines[s][l]) <= Len(buf[s]) /\ Len(lines[s][l]) \in Nat
      <4> DEFINE b == Lines(buf[s])
                 n == Len(lines[s])
      <4>1. b \in Seq(Seq(Char)) /\ \A i \in 1..Len(b) : Len(b[i]) <= Len(buf[s])
        BY <2>1, LineTypes
      <4>2. n <= Len(b) /\ lines[s] = SubSeq(b, 1, n) /\ n \in Nat /\ l \in 1..n
        BY <1>0, <2>1, LenProperties DEF LineInv, Begins
      <4> HIDE DEF b, n
      <4>3. n \in 0..Len(b) /\ l \in 1..Len(b)
        BY <4>1, <4>2, LenProperties
      <4>4. lines[s][l] = b[l]
        BY <4>1, <4>2, <4>3, FrontPart
      <4>5. QED
        BY <3>1, <4>1, <4>3, <4>4, LenProperties
    <3>3. QED
      BY <2>2, <2>6, <3>1, <3>2, TextOf
  <2>10. QED
    BY <2>1, <2>3, <2>4, <2>6, <2>8, <2>9, TextOf
<1>2. {late, drain, ok, timeout, lost, spoiled} \subseteq BOOLEAN
  BY <1>0 DEF FlagType
<1>3. QED
  BY <1>0, <1>1, <1>2 DEF RunType, TypeOK, Child, Location, Output

\* However run() ends, it does not leave the process behind, nor with cleanup_tree any
\* that the process has started, its result says what has become of the process, and
\* all variables keep their types: for any amount of output, and whatever the process,
\* the callbacks and the user do.
THEOREM ResultIsTrue == Spec => []Inv
<1>1. IInv => ResultTrue /\ NothingLeft
  <2> SUFFICES ASSUME IInv PROVE ResultTrue /\ NothingLeft
    OBVIOUS
  <2>1. RunType /\ LoopInv /\ TreeInv /\ KillInv
    BY DEF IInv
  <2>2. NothingLeft
    <3>1. Conns \subseteq Output
      BY DEF Conns, Output, Stream
    <3>2. QED
      BY <2>1, <3>1 DEF LoopInv, TreeInv, NothingLeft
  <2>3. child.code # 0 => child.code \in {SIGTERM, SIGKILL}
    BY <2>1 DEF RunType, Child
  <2>4. ResultTrue
    BY <2>1, <2>3 DEF LoopInv, KillInv, ResultTrue, Over
  <2>5. QED
    BY <2>2, <2>4
<1>2. IInv => Inv
  BY <1>1, InvTypes DEF Inv
<1>3. QED
  BY <1>2, InitIInv, NextIInv, PTL DEF Spec

\* What run() returns has all of the output, also that of a process left behind, if it
\* could be read; and the line callbacks are called with the lines of the output that
\* a newline ends, from the first one on, none of them twice, cut or left out before
\* another, and with all of them unless there is an error or an interrupt.  A last line
\* without a newline is not among them.  For any output and any sizes of pipes and
\* chunks.
THEOREM OutputIsTrue == Spec => []OutputTrue
<1>1. IInv => OutputTrue
  <2> SUFFICES ASSUME IInv PROVE OutputTrue
    OBVIOUS
  <2>1. RunType /\ PipeInv /\ LoopInv /\ LineInv
    BY DEF IInv
  <2>2. LinesTrue
    BY <2>1 DEF LineInv, Begins, LinesTrue
  <2>3. ASSUME pc = "done", ~spoiled, NEW s \in Piped PROVE buf[s] = written[s] /\ holds[s] = {}
    <3>1. s \in Stream /\ con[s].eof
      BY <2>1, <2>3 DEF LoopInv, Piped, Stream
    <3>2. pipe[s] = <<>> /\ holds[s] = {} /\ written[s] = buf[s] \o pipe[s]
      BY <2>1, <2>3, <3>1 DEF PipeInv
    <3>3. buf[s] \in Seq(Char)
      BY <2>1, <3>1 DEF RunType
    <3>4. QED
      BY <3>2, <3>3, ConcatEmptySeq
  <2>4. QED
    BY <2>2, <2>3 DEF OutputTrue, OutputComplete
<1>2. QED
  BY <1>1, InitIInv, NextIInv, PTL DEF Spec
=============================================================================
