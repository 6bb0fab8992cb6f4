----------------------------- MODULE WinIOProofs -----------------------------
(***************************************************************************)
(* Theorems about connections on Windows, for any number of connections of *)
(* any kind, and any sizes of the buffers and amounts of output.           *)
(*                                                                         *)
(* What matters about the completion port is, for every connection, if it  *)
(* has a packet in the port, and the data in it: Has(c) and InPort(c).     *)
(* KernelInv relates these, what the kernel does and what R believes, one  *)
(* connection at a time; Inv follows.  StreamInv adds where the bytes are  *)
(* and what the end of file flags stand for; StreamTrue follows.           *)
(***************************************************************************)
EXTENDS WinIO, FiniteSetTheorems, SequenceTheorems, TLAPS

USE ConAssumption, SizeAssumption DEF kernVars, peerVars

-----------------------------------------------------------------------------
(***************************************************************************)
(* Sequences.                                                              *)
(***************************************************************************)
\* A sequence that is cut in two.
LEMMA Cut ==
  ASSUME NEW T, NEW s \in Seq(T), NEW n \in 0..Len(s)
  PROVE  /\ SubSeq(s, 1, n) \in Seq(T) /\ Len(SubSeq(s, 1, n)) = n
         /\ SubSeq(s, n + 1, Len(s)) \in Seq(T) /\ Len(SubSeq(s, n + 1, Len(s))) = Len(s) - n
         /\ SubSeq(s, 1, n) \o SubSeq(s, n + 1, Len(s)) = s
<1> DEFINE a == SubSeq(s, 1, n)
           b == SubSeq(s, n + 1, Len(s))
<1>1. Len(s) \in Nat /\ \A i \in 1..Len(s) : s[i] \in T
  OBVIOUS
<1>2. a \in Seq(T) /\ Len(a) = IF 1 <= n THEN n - 1 + 1 ELSE 0
  BY <1>1, SubSeqProperties
<1>3. b \in Seq(T) /\ Len(b) = IF n + 1 <= Len(s) THEN Len(s) - (n + 1) + 1 ELSE 0
  <2>1. n + 1 \in Int /\ Len(s) \in Int /\ \A i \in (n + 1)..Len(s) : s[i] \in T
    BY <1>1
  <2>2. QED
    BY <2>1, SubSeqProperties
<1>4. a \o b = SubSeq(s, 1, Len(s))
  <2>1. 1 \in 1..(Len(s) + 1) /\ n \in (1 - 1)..Len(s) /\ Len(s) \in n..Len(s)
    BY <1>1
  <2>2. QED
    BY <2>1, ConcatAdjacentSubSeq
<1>5. SubSeq(s, 1, Len(s)) = s
  BY SubSeqFull
<1> HIDE DEF a, b
<1>6. Len(a) = n
  BY <1>1, <1>2
<1>7. Len(b) = Len(s) - n
  BY <1>1, <1>3
<1>8. a \o b = s
  BY <1>4, <1>5
<1>9. QED
  BY <1>2, <1>3, <1>6, <1>7, <1>8 DEF a, b

\* The same for data.
LEMMA CutData ==
  ASSUME NEW s \in Data, NEW n \in 0..Len(s)
  PROVE  /\ SubSeq(s, 1, n) \in Data /\ Len(SubSeq(s, 1, n)) = n
         /\ SubSeq(s, n + 1, Len(s)) \in Data /\ Len(SubSeq(s, n + 1, Len(s))) = Len(s) - n
         /\ SubSeq(s, 1, n) \o SubSeq(s, n + 1, Len(s)) = s
<1>1. s \in Seq(0..MaxSent)
  BY DEF Data
<1>2. QED
  BY <1>1, Cut DEF Data

\* Data that are put together.
LEMMA Join ==
  ASSUME NEW s \in Data, NEW t \in Data
  PROVE  s \o t \in Data /\ Len(s \o t) = Len(s) + Len(t) /\ Len(s) \in Nat /\ Len(t) \in Nat
  BY ConcatProperties DEF Data

\* Brackets do not matter.
LEMMA Brackets ==
  ASSUME NEW s \in Data, NEW t \in Data, NEW u \in Data PROVE (s \o t) \o u = s \o (t \o u)
  BY ConcatAssociative DEF Data

\* No data.
LEMMA Empty ==
  /\ <<>> \in Data /\ Len(<<>>) = 0
  /\ \A s \in Data : /\ Len(s) \in Nat /\ s \o <<>> = s /\ <<>> \o s = s
                     /\ Len(s) = 0 <=> s = <<>>
  BY ConcatEmptySeq, EmptySeq DEF Data

\* What is written are data.
LEMMA PipeData == Seq(1..MaxSent) \subseteq Data
  BY SeqMonotonic DEF Data

-----------------------------------------------------------------------------
(***************************************************************************)
(* The port.                                                               *)
(***************************************************************************)
Has(c) == Packets(c) # {}

\* No connection has two packets in the port.
One == \A c \in Con : \A i, j \in Packets(c) : i = j

\* No connection but c is affected by what happens to the port.
PortSame(d) == UNCHANGED <<Has(d), InPort(d)>>

PortType ==
    /\ port \in Seq(Packet \cup {Wake})
    /\ \A i \in 1..Len(port) : Len(port[i].data) <= RawSize

\* A connection without a packet has no data in the port.
LEMMA NoPacket == ASSUME NEW c, ~Has(c) PROVE InPort(c) = <<>>
  BY DEF Has, InPort

\* The data are those of any packet, as there is only one.
LEMMA ThePacket ==
  ASSUME One, NEW c \in Con, NEW i \in Packets(c) PROVE Has(c) /\ InPort(c) = port[i].data
<1>1. Packets(c) # {} /\ (CHOOSE j \in Packets(c) : TRUE) \in Packets(c)
  OBVIOUS
<1>2. (CHOOSE j \in Packets(c) : TRUE) = i
  BY <1>1 DEF One
<1>3. QED
  BY <1>1, <1>2 DEF Has, InPort

\* A packet is queued for a connection that has none, or one for nobody.
LEMMA Queued ==
  ASSUME PortType, One, NEW p \in Packet \cup {Wake}, port' = Append(port, p),
         Len(p.data) <= RawSize, p.con \in Con => ~Has(p.con)
  PROVE  /\ PortType' /\ One'
         /\ \A d \in Con : d # p.con => PortSame(d)
         /\ p.con \in Con => Has(p.con)' /\ InPort(p.con)' = p.data
<1>1. /\ port' \in Seq(Packet \cup {Wake}) /\ Len(port') = Len(port) + 1 /\ Len(port) \in Nat
      /\ \A i \in 1..Len(port) : port'[i] = port[i]
      /\ port'[Len(port) + 1] = p
  BY AppendProperties DEF PortType
<1>2. ASSUME NEW d \in Con, d # p.con PROVE Packets(d)' = Packets(d)
  BY <1>1, <1>2 DEF Packets
<1>3. p.con \in Con => Packets(p.con)' = {Len(port) + 1}
  BY <1>1 DEF Packets, Has
<1>4. One'
  BY <1>2, <1>3 DEF One
<1>5. ASSUME NEW d \in Con, d # p.con PROVE PortSame(d)
  <2>1. CASE Packets(d) = {}
    BY <1>2, <1>5, <2>1 DEF PortSame, Has, InPort
  <2>2. ASSUME NEW i \in Packets(d) PROVE PortSame(d)
    <3>1. Packets(d)' = Packets(d) /\ i \in Packets(d)'
      BY <1>2, <1>5
    <3>2. Has(d) /\ InPort(d) = port[i].data
      BY ThePacket
    <3>3. Has(d)' /\ InPort(d)' = port'[i].data
      <4>1. (CHOOSE j \in Packets(d)' : TRUE) = i
        BY <1>4, <3>1 DEF One
      <4>2. QED
        BY <3>1, <4>1 DEF Has, InPort
    <3>4. port'[i] = port[i]
      BY <1>1 DEF Packets
    <3>5. QED
      BY <3>2, <3>3, <3>4 DEF PortSame
  <2>3. QED
    BY <2>1, <2>2
<1>6. p.con \in Con => Has(p.con)' /\ InPort(p.con)' = p.data
  <2>1. SUFFICES ASSUME p.con \in Con PROVE Has(p.con)' /\ InPort(p.con)' = p.data
    OBVIOUS
  <2>2. (CHOOSE j \in Packets(p.con)' : TRUE) = Len(port) + 1
    BY <1>3, <2>1
  <2>3. QED
    BY <1>1, <1>3, <2>1, <2>2 DEF Has, InPort
<1>7. QED
  BY <1>1, <1>4, <1>5, <1>6 DEF PortType

\* The first packet is fetched, and at the same time one for nobody may be queued.
LEMMA Fetched ==
  ASSUME PortType, One, port # <<>>, NEW c, c = Head(port).con,
         port' = Tail(port) \/ port' = Append(Tail(port), Wake)
  PROVE  /\ PortType' /\ One' /\ Head(port) \in Packet \cup {Wake}
         /\ \A d \in Con : d # c => PortSame(d)
         /\ c \in Con => /\ Has(c) /\ InPort(c) = Head(port).data
                         /\ ~Has(c)' /\ InPort(c)' = <<>>
<1>0. /\ Head(port) \in Packet \cup {Wake} /\ Tail(port) \in Seq(Packet \cup {Wake})
      /\ Len(port) \in Nat /\ Len(port) >= 1 /\ Len(Tail(port)) = Len(port) - 1
      /\ \A i \in 1..Len(Tail(port)) : Tail(port)[i] = port[i + 1]
      /\ Head(port) = port[1] /\ Wake.con \notin Con /\ Len(Wake.data) <= RawSize
  <2>1. /\ Head(port) \in Packet \cup {Wake} /\ Tail(port) \in Seq(Packet \cup {Wake})
        /\ Len(port) \in Nat /\ Len(port) >= 1 /\ Len(Tail(port)) = Len(port) - 1
        /\ \A i \in 1..Len(Tail(port)) : Tail(port)[i] = port[i + 1]
        /\ Head(port) = port[1]
    BY HeadTailProperties DEF PortType
  <2>2. Wake.con = 0 /\ Wake.data = <<>>
    BY DEF Wake, NoCon
  <2>3. QED
    BY <2>1, <2>2
<1>1. /\ port' \in Seq(Packet \cup {Wake}) /\ Len(port') \in Nat /\ Len(port') >= Len(port) - 1
      /\ \A i \in 1..(Len(port) - 1) : port'[i] = port[i + 1]
      /\ \A i \in 1..Len(port') : i \in 1..(Len(port) - 1) \/ port'[i] = Wake
  <2>1. CASE port' = Tail(port)
    BY <1>0, <2>1
  <2>2. CASE port' = Append(Tail(port), Wake)
    <3> DEFINE t == Tail(port)
    <3>1. /\ port' \in Seq(Packet \cup {Wake}) /\ Len(port') = Len(t) + 1
          /\ \A i \in 1..Len(t) : port'[i] = t[i]
          /\ port'[Len(t) + 1] = Wake
      BY <1>0, <2>2, AppendProperties
    <3> HIDE DEF t
    <3>2. Len(t) = Len(port) - 1 /\ \A i \in 1..Len(t) : t[i] = port[i + 1]
      BY <1>0 DEF t
    <3>3. QED
      BY <1>0, <3>1, <3>2
  <2>3. QED
    BY <2>1, <2>2
<1>2. ASSUME NEW d \in Con PROVE Packets(d)' = {i \in 1..(Len(port) - 1) : i + 1 \in Packets(d)}
  BY <1>0, <1>1 DEF Packets
<1>3. One'
  <2>1. SUFFICES ASSUME NEW d \in Con, NEW i \in Packets(d)', NEW j \in Packets(d)' PROVE i = j
    BY DEF One
  <2>2. i + 1 \in Packets(d) /\ j + 1 \in Packets(d) /\ i \in Int /\ j \in Int
    BY <1>2
  <2>3. i + 1 = j + 1
    BY <2>2 DEF One
  <2>4. QED
    BY <2>2, <2>3
<1>4. ASSUME NEW d \in Con, d # c PROVE PortSame(d)
  <2>1. CASE Packets(d) = {}
    <3>1. Packets(d)' = {}
      BY <1>2, <2>1
    <3>2. QED
      BY <2>1, <3>1 DEF PortSame, Has, InPort
  <2>2. ASSUME NEW i \in Packets(d) PROVE PortSame(d)
    <3>1. i \in 1..Len(port) /\ i # 1
      BY <1>0, <1>1, <1>4 DEF Packets
    <3>2. i - 1 \in 1..(Len(port) - 1) /\ (i - 1) + 1 = i
      BY <1>0, <1>1, <3>1
    <3>3. i - 1 \in Packets(d)'
      BY <1>2, <3>2
    <3>4. Has(d) /\ InPort(d) = port[i].data
      BY ThePacket
    <3>5. (CHOOSE j \in Packets(d)' : TRUE) = i - 1
      BY <1>3, <3>3 DEF One
    <3>6. Has(d)' /\ InPort(d)' = port'[i - 1].data
      BY <3>3, <3>5 DEF Has, InPort
    <3>7. port'[i - 1] = port[i]
      BY <1>0, <1>1, <3>2
    <3>8. QED
      BY <3>4, <3>6, <3>7 DEF PortSame
  <2>3. QED
    BY <2>1, <2>2
<1>5. ASSUME c \in Con
      PROVE  Has(c) /\ InPort(c) = Head(port).data /\ ~Has(c)' /\ InPort(c)' = <<>>
  <2>1. 1 \in Packets(c)
    BY <1>0, <1>1 DEF Packets
  <2>2. Has(c) /\ InPort(c) = Head(port).data
    BY <1>0, <1>1, <1>5, <2>1, ThePacket
  <2>3. \A i \in Packets(c)' : FALSE
    <3>1. SUFFICES ASSUME NEW i \in Packets(c)' PROVE FALSE
      OBVIOUS
    <3>2. i \in 1..(Len(port) - 1) /\ i + 1 \in Packets(c)
      BY <1>2, <1>5
    <3>3. i + 1 = 1
      BY <1>5, <2>1, <3>2 DEF One
    <3>4. QED
      BY <1>0, <1>1, <3>2, <3>3
  <2>4. QED
    BY <2>2, <2>3 DEF Has, InPort
<1>6. PortType'
  <2>1. ASSUME NEW i \in 1..Len(port') PROVE Len(port'[i].data) <= RawSize
    <3>1. CASE i \in 1..(Len(port) - 1)
      <4>1. port'[i] = port[i + 1] /\ i + 1 \in 1..Len(port)
        BY <1>0, <1>1, <3>1
      <4>2. QED
        BY <4>1 DEF PortType
    <3>2. CASE port'[i] = Wake
      BY <1>0, <3>2
    <3>3. QED
      BY <1>1, <3>1, <3>2
  <2>2. QED
    BY <1>1, <2>1 DEF PortType
<1>7. QED
  BY <1>0, <1>3, <1>4, <1>5, <1>6

-----------------------------------------------------------------------------
(***************************************************************************)
(* The buffers.                                                            *)
(***************************************************************************)
Sized(k) == k \in Connection /\ Len(k.raw) <= RawSize /\ Len(k.utf8) <= Utf8Size

\* j is k but for the buffers and the marks of the end.
Like(j, k) ==
    /\ j.handle = k.handle /\ j.pending = k.pending /\ j.connecting = k.connecting
    /\ j.off = k.off /\ j.state = k.state /\ j.closed = k.closed /\ j.mem = k.mem

\* Conversion fits into the buffers, moves data only from the one to the other, and
\* if all characters are one byte then it does so as far as there is room.
LEMMA Converts ==
  ASSUME NEW k, Sized(k)
  PROVE  LET j == to_utf8(k) IN
         /\ Sized(j) /\ Like(j, k) /\ j.torn = k.torn /\ j.eof = k.eof /\ j.eofraw = k.eofraw
         /\ Len(j.raw) <= Len(k.raw)
         /\ k.raw = <<>> => j = k
         /\ Halves = {} =>
              /\ j.utf8 \o j.raw = k.utf8 \o k.raw
              /\ k.raw # <<>> /\ Len(k.utf8) < Utf8Size =>
                   Len(j.raw) < Len(k.raw) /\ Len(j.utf8) > Len(k.utf8)
              /\ Len(j.raw) = Len(k.raw) => j = k
<1> DEFINE room == Utf8Size - Len(k.utf8)
           n == Convertible(k.raw, room)
           x == SubSeq(k.raw, 1, n)
           left == SubSeq(k.raw, n + 1, Len(k.raw))
           kept == IF k.eofraw /\ n < room /\ left # <<>> THEN <<>> ELSE left
           j == to_utf8(k)
<1>0. /\ k.raw \in Data /\ k.utf8 \in Data /\ Len(k.raw) \in Nat /\ Len(k.utf8) \in Nat
      /\ room \in Nat
  BY DEF Sized, Connection, Data
<1>1. /\ n \in 0..Len(k.raw) /\ n <= room
      /\ Halves = {} => n = (IF Len(k.raw) < room THEN Len(k.raw) ELSE room)
  <2> HIDE DEF room
  <2>1. QED
    BY <1>0 DEF Convertible
<1> HIDE DEF n, room
<1>2. /\ x \in Data /\ Len(x) = n /\ left \in Data /\ Len(left) = Len(k.raw) - n
      /\ x \o left = k.raw
  BY <1>0, <1>1, CutData
<1>3. j = [k EXCEPT !.utf8 = k.utf8 \o x, !.raw = kept]
  BY DEF to_utf8, n, room
<1> HIDE DEF x, left
<1>4. k.utf8 \o x \in Data /\ Len(k.utf8 \o x) = Len(k.utf8) + n /\ <<>> \in Data
  BY <1>0, <1>2, Join, Empty
<1>5. (k.utf8 \o x) \o left = k.utf8 \o k.raw
  <2>1. (k.utf8 \o x) \o left = k.utf8 \o (x \o left)
    BY <1>0, <1>2, Brackets
  <2>2. QED
    BY <1>2, <2>1
<1>6. k.raw = <<>> => x = <<>> /\ left = <<>> /\ n = 0
  BY <1>0, <1>1, <1>2, Empty
<1>7. Len(k.utf8) + n <= Utf8Size
  BY <1>0, <1>1 DEF room
<1>8. kept \in Data /\ Len(kept) <= Len(k.raw)
  BY <1>0, <1>1, <1>2, Empty
<1>9. /\ k \in Connection /\ j \in Connection /\ j.utf8 = k.utf8 \o x /\ j.raw = kept
      /\ Like(j, k) /\ j.torn = k.torn /\ j.eof = k.eof /\ j.eofraw = k.eofraw
  <2> HIDE DEF kept, j
  <2>1. QED
    BY <1>3, <1>4, <1>8 DEF Sized, Connection, Like
<1>10. Sized(j)
  <2> HIDE DEF kept, j
  <2>1. QED
    BY <1>4, <1>7, <1>8, <1>9, <1>0 DEF Sized
<1>11. ASSUME n = 0, kept = k.raw PROVE j = k
  <2>1. Len(x) = 0 /\ x = <<>> /\ k.utf8 \o x = k.utf8
    BY <1>0, <1>2, <1>11, Empty
  <2>2. j = [k EXCEPT !.utf8 = k.utf8, !.raw = k.raw]
    BY <1>3, <1>11, <2>1
  <2> HIDE DEF j
  <2>3. QED
    BY <2>2, <1>9 DEF Connection
<1>12. k.raw = <<>> => j = k
  <2>1. k.raw = <<>> => n = 0 /\ kept = k.raw
    BY <1>6
  <2>2. QED
    BY <1>11, <2>1
<1>13. Halves = {} => kept = left
  BY <1>0, <1>1, <1>2, Empty
<1>14. ASSUME Halves = {}
       PROVE  /\ j.utf8 \o j.raw = k.utf8 \o k.raw
              /\ k.raw # <<>> /\ Len(k.utf8) < Utf8Size =>
                   Len(j.raw) < Len(k.raw) /\ Len(j.utf8) > Len(k.utf8)
              /\ Len(j.raw) = Len(k.raw) => j = k
  <2>1. Len(j.raw) = Len(k.raw) - n /\ Len(j.utf8) = Len(k.utf8) + n
    BY <1>2, <1>4, <1>9, <1>13, <1>14
  <2>2. j.utf8 \o j.raw = k.utf8 \o k.raw
    BY <1>5, <1>9, <1>13, <1>14
  <2>3. k.raw # <<>> /\ Len(k.utf8) < Utf8Size => n > 0
    BY <1>0, <1>1, <1>14, Empty DEF room
  <2>4. Len(j.raw) = Len(k.raw) => j = k
    <3>1. SUFFICES ASSUME Len(j.raw) = Len(k.raw) PROVE j = k
      OBVIOUS
    <3>2. n = 0
      BY <1>0, <1>1, <2>1, <3>1
    <3>3. x = <<>> /\ left = k.raw
      BY <1>0, <1>2, <3>2, Empty
    <3>4. QED
      BY <1>11, <1>13, <1>14, <3>2, <3>3
  <2> HIDE DEF j
  <2>5. QED
    BY <1>0, <1>1, <2>1, <2>2, <2>3, <2>4
<1> HIDE DEF kept
<1>15. QED
  BY <1>8, <1>9, <1>10, <1>12, <1>14

\* The end of the stream is marked.
LEMMA MarksEof ==
  ASSUME NEW k, Sized(k)
  PROVE  LET j == AtEof(k) IN
         /\ Sized(j) /\ Like(j, k) /\ j.torn = k.torn /\ j.raw = k.raw /\ j.utf8 = k.utf8
         /\ j.eofraw = TRUE /\ j.eof = (k.eof \/ (k.utf8 = <<>> /\ k.raw = <<>>))
<1>1. k \in Connection
  BY DEF Sized
<1>2. AtEof(k) \in Connection
  BY <1>1 DEF AtEof, Connection
<1>3. QED
  BY <1>1, <1>2 DEF Sized, AtEof, Like, Connection

\* Where the data of a completed read end up.
LEMMA LandedIs ==
  ASSUME NEW k, Sized(k), NEW data \in Data, data # <<>> => Len(k.raw) <= k.off
  PROVE  /\ Landed(k, data) \in Data /\ Len(Landed(k, data)) = Len(k.raw) + Len(data)
         /\ data = <<>> \/ k.off = Len(k.raw) => Landed(k, data) = k.raw \o data
<1> DEFINE gap == k.off - Len(k.raw)
           zeros == [i \in 1..gap |-> 0]
           x == SubSeq(zeros \o data, 1, Len(data))
<1>1. /\ k.raw \in Data /\ Len(k.raw) \in Nat /\ Len(data) \in Nat /\ k.off \in Nat
      /\ gap \in Int
  BY Empty DEF Sized, Connection
<1>2. Landed(k, data) = k.raw \o x
  BY DEF Landed
<1> HIDE DEF gap
<1>3. CASE data = <<>>
  <2>1. Len(data) = 0 /\ SubSeq(zeros \o data, 1, 0) = <<>>
    BY <1>3, SubSeqEmpty, Empty
  <2>2. x = <<>>
    BY <2>1
  <2> HIDE DEF x
  <2>3. QED
    BY <1>1, <1>2, <1>3, <2>1, <2>2, Empty
<1>4. CASE data # <<>>
  <2>1. gap \in Nat
    BY <1>1, <1>4 DEF gap
  <2>2. zeros \in Data /\ Len(zeros) = gap
    <3>1. 0 \in 0..MaxSent
      OBVIOUS
    <3>2. QED
      BY <2>1, <3>1 DEF Data
  <2>3. gap = 0 => zeros = <<>>
    BY <2>2, Empty
  <2> HIDE DEF zeros
  <2>4. zeros \o data \in Data /\ Len(zeros \o data) = gap + Len(data)
    BY <2>2, Join
  <2>5. Len(data) \in 0..Len(zeros \o data)
    BY <1>1, <2>1, <2>4
  <2>6. x \in Data /\ Len(x) = Len(data)
    BY <2>4, <2>5, CutData
  <2>7. gap = 0 => x = data
    <3>1. SUFFICES ASSUME gap = 0 PROVE x = data
      OBVIOUS
    <3>2. zeros \o data = data
      BY <2>3, <3>1, Empty
    <3>3. SubSeq(data, 1, Len(data)) = data
      BY SubSeqFull DEF Data
    <3>4. QED
      BY <3>2, <3>3
  <2> HIDE DEF x
  <2>8. k.raw \o x \in Data /\ Len(k.raw \o x) = Len(k.raw) + Len(x)
    BY <1>1, <2>6, Join
  <2>9. k.off = Len(k.raw) => gap = 0
    BY <1>1 DEF gap
  <2>10. QED
    BY <1>2, <1>4, <2>6, <2>7, <2>8, <2>9
<1>5. QED
  BY <1>3, <1>4

\* j is k after some conversions that pre_poll may do.
Shifted(j, k) ==
    /\ Sized(j) /\ Like(j, k) /\ j.eof = k.eof /\ j.eofraw = k.eofraw
    /\ Len(j.raw) <= Len(k.raw) /\ (k.torn => j.torn)
    /\ Halves = {} =>
         /\ j.utf8 \o j.raw = k.utf8 \o k.raw
         /\ k.pending /\ ~j.torn => j.raw = k.raw /\ j.utf8 = k.utf8

\* What pre_poll does before it looks at the handle.
LEMMA Readies ==
  ASSUME NEW k, Sized(k)
  PROVE  /\ Shifted(PreReady(k).k, k)
         /\ PreReady(k).ev \in Event
         /\ PreReady(k).ev = "handle" =>
              PreReady(k).k.utf8 = <<>> /\ (Halves = {} => PreReady(k).k.raw = <<>>)
<1> DEFINE go == ~(k.closed \/ k.eof \/ k.utf8 # <<>> \/ (k.raw # <<>> /\ k.eofraw))
           k1 == IF ~go THEN k ELSE to_utf8(k)
           j == PreReady(k).k
<1>1. /\ k \in Connection /\ k.raw \in Data /\ k.utf8 \in Data
      /\ Len(k.raw) \in Nat /\ Len(k.utf8) \in Nat
      /\ k.torn \in BOOLEAN /\ k.pending \in BOOLEAN
  BY Empty DEF Sized, Connection
<1>2. /\ Sized(k1) /\ Like(k1, k) /\ k1.torn = k.torn /\ k1.eof = k.eof /\ k1.eofraw = k.eofraw
      /\ Len(k1.raw) <= Len(k.raw)
      /\ Halves = {} =>
           /\ k1.utf8 \o k1.raw = k.utf8 \o k.raw
           /\ Len(k1.raw) = Len(k.raw) => k1 = k
      /\ Halves = {} /\ go /\ k.raw # <<>> => Len(k1.utf8) > Len(k.utf8)
      /\ k.raw = <<>> => k1 = k
  <2>1. CASE ~go
    <3>1. k1 = k
      BY <2>1
    <3> HIDE DEF k1, go
    <3>2. QED
      BY <1>1, <2>1, <3>1 DEF Like
  <2>2. CASE go
    <3>1. k1 = to_utf8(k) /\ k.utf8 = <<>> /\ Len(k.utf8) < Utf8Size
      BY <2>2, Empty
    <3> HIDE DEF k1, go
    <3>2. QED
      BY <3>1, Converts
  <2>3. QED
    BY <2>1, <2>2
<1>3. j = [k1 EXCEPT !.torn = @ \/ (k.pending /\ Len(k1.raw) # Len(k.raw))]
  BY DEF PreReady
<1>4. PreReady(k).ev = IF k.closed THEN "closed"
               ELSE IF k.eof \/ k1.utf8 # <<>> \/ (k1.raw # <<>> /\ k.eofraw) THEN "ready"
               ELSE IF k.state = "ready" THEN "connect" ELSE "handle"
  BY DEF PreReady
<1>5. PreReady(k).ev \in Event
  BY <1>4 DEF Event
<1> HIDE DEF j
<1>6. /\ j \in Connection /\ Like(j, k) /\ j.raw = k1.raw /\ j.utf8 = k1.utf8
      /\ j.torn = (k.torn \/ (k.pending /\ Len(k1.raw) # Len(k.raw)))
      /\ j.eof = k.eof /\ j.eofraw = k.eofraw
  <2> HIDE DEF k1
  <2>1. k1 \in Connection
    BY <1>2 DEF Sized
  <2>2. QED
    BY <1>2, <1>3, <2>1 DEF Connection, Like
<1>7. Shifted(j, k)
  <2> HIDE DEF k1
  <2>1. Sized(j)
    BY <1>2, <1>6 DEF Sized
  <2>2. QED
    BY <1>1, <1>2, <1>6, <2>1 DEF Shifted
<1>8. ASSUME PreReady(k).ev = "handle" PROVE j.utf8 = <<>> /\ (Halves = {} => j.raw = <<>>)
  <2>1. ~k.closed /\ ~k.eof /\ k1.utf8 = <<>> /\ ~(k1.raw # <<>> /\ k.eofraw)
    BY <1>4, <1>8
  <2>2. CASE ~go
    <3>1. k1 = k
      BY <2>2
    <3>2. FALSE
      BY <2>1, <2>2, <3>1
    <3>3. QED
      BY <3>2
  <2>3. CASE go
    <3> HIDE DEF k1
    <3>1. Halves = {} => k.raw = <<>>
      BY <1>1, <1>2, <2>1, <2>3, Empty
    <3>2. QED
      BY <1>2, <1>6, <2>1, <3>1
  <2>4. QED
    BY <2>2, <2>3
<1>9. QED
  BY <1>5, <1>7, <1>8 DEF j

\* j is k after its completion with these data was fetched.
Took(j, k, data) ==
    /\ Sized(j) /\ ~j.pending
    /\ j.handle = k.handle /\ j.off = k.off /\ j.mem = k.mem /\ j.torn = k.torn
    /\ j.connecting => k.connecting
    /\ j.state = k.state \/ (j.state = "ready" /\ k.state # "none" /\ k.connecting)
    /\ k.eofraw => j.eofraw
    /\ Halves = {} /\ (data = <<>> \/ (k.off = Len(k.raw) /\ Len(k.utf8) < Utf8Size)) =>
         /\ j.utf8 \o j.raw = k.utf8 \o (k.raw \o data)
         /\ j.eofraw => k.eofraw \/ data = <<>>
         /\ j.eof => k.eof \/ (j.eofraw /\ j.utf8 = <<>> /\ j.raw = <<>>)

\* There is room for the data.
Fits(k, data) == data # <<>> => Len(k.raw) <= k.off /\ k.off + Len(data) <= RawSize

\* The data are put into the raw buffer and converted.
LEMMA Lands ==
  ASSUME NEW k, Sized(k), NEW data \in Data, Fits(k, data)
  PROVE  LET k1 == [k EXCEPT !.pending = FALSE, !.raw = Landed(k, data)]
             k2 == to_utf8(k1)
         IN /\ Sized(k2) /\ ~k2.pending /\ k1.utf8 = k.utf8
            /\ k2.handle = k.handle /\ k2.off = k.off /\ k2.mem = k.mem /\ k2.torn = k.torn
            /\ k2.connecting = k.connecting /\ k2.state = k.state
            /\ k2.eof = k.eof /\ k2.eofraw = k.eofraw
            /\ Halves = {} /\ (data = <<>> \/ k.off = Len(k.raw)) =>
                 /\ k2.utf8 \o k2.raw = k.utf8 \o (k.raw \o data)
                 /\ data # <<>> /\ Len(k.utf8) < Utf8Size => Len(k2.utf8) > Len(k.utf8)
<1> DEFINE r == Landed(k, data)
           k1 == [k EXCEPT !.pending = FALSE, !.raw = r]
           k2 == to_utf8(k1)
<1>1. /\ k \in Connection /\ k.raw \in Data /\ k.utf8 \in Data /\ k.off \in Nat
      /\ Len(k.raw) \in Nat /\ Len(data) \in Nat /\ Len(k.raw) <= RawSize
  BY Empty DEF Sized, Connection
<1>2. /\ r \in Data /\ Len(r) = Len(k.raw) + Len(data)
      /\ data = <<>> \/ k.off = Len(k.raw) => r = k.raw \o data
  BY LandedIs DEF Fits
<1>3. Len(r) <= RawSize
  BY <1>1, <1>2, Empty DEF Fits
<1> HIDE DEF r
<1>4. /\ k1 \in Connection /\ k1.raw = r /\ k1.utf8 = k.utf8 /\ ~k1.pending
      /\ k1.handle = k.handle /\ k1.off = k.off /\ k1.mem = k.mem /\ k1.torn = k.torn
      /\ k1.connecting = k.connecting /\ k1.state = k.state
      /\ k1.eof = k.eof /\ k1.eofraw = k.eofraw
  BY <1>1, <1>2 DEF Connection
<1> HIDE DEF k1
<1>5. Sized(k1)
  BY <1>3, <1>4 DEF Sized
<1>6. /\ Sized(k2) /\ Like(k2, k1) /\ k2.torn = k1.torn /\ k2.eof = k1.eof
      /\ k2.eofraw = k1.eofraw
      /\ Halves = {} =>
           /\ k2.utf8 \o k2.raw = k1.utf8 \o k1.raw
           /\ k1.raw # <<>> /\ Len(k1.utf8) < Utf8Size => Len(k2.utf8) > Len(k1.utf8)
  BY <1>5, Converts
<1>7. data # <<>> => r # <<>>
  BY <1>1, <1>2, Empty
<1> HIDE DEF k2
<1>8. /\ Sized(k2) /\ ~k2.pending /\ k1.utf8 = k.utf8
      /\ k2.handle = k.handle /\ k2.off = k.off /\ k2.mem = k.mem /\ k2.torn = k.torn
      /\ k2.connecting = k.connecting /\ k2.state = k.state
      /\ k2.eof = k.eof /\ k2.eofraw = k.eofraw
  BY <1>4, <1>6 DEF Like
<1>9. Halves = {} /\ (data = <<>> \/ k.off = Len(k.raw)) =>
          /\ k2.utf8 \o k2.raw = k.utf8 \o (k.raw \o data)
          /\ data # <<>> /\ Len(k.utf8) < Utf8Size => Len(k2.utf8) > Len(k.utf8)
  BY <1>2, <1>4, <1>6, <1>7
<1>10. QED
  BY <1>8, <1>9 DEF k2, k1, r

\* A read fetches the completion.
LEMMA ReadTook ==
  ASSUME NEW k, Sized(k), NEW data \in Data, Fits(k, data) PROVE Took(ReadTakes(k, data), k, data)
<1> DEFINE k1 == [k EXCEPT !.pending = FALSE, !.raw = Landed(k, data)]
           k2 == to_utf8(k1)
           j == ReadTakes(k, data)
<1>1. j = IF Len(k2.utf8) = Len(k1.utf8) THEN AtEof(k2) ELSE k2
  BY DEF ReadTakes
<1> SUFFICES Took(j, k, data)
  OBVIOUS
<1>2. /\ Sized(k2) /\ ~k2.pending /\ k1.utf8 = k.utf8
      /\ k2.handle = k.handle /\ k2.off = k.off /\ k2.mem = k.mem /\ k2.torn = k.torn
      /\ k2.connecting = k.connecting /\ k2.state = k.state
      /\ k2.eof = k.eof /\ k2.eofraw = k.eofraw
      /\ Halves = {} /\ (data = <<>> \/ k.off = Len(k.raw)) =>
           /\ k2.utf8 \o k2.raw = k.utf8 \o (k.raw \o data)
           /\ data # <<>> /\ Len(k.utf8) < Utf8Size => Len(k2.utf8) > Len(k.utf8)
  BY Lands
<1> HIDE DEF j, k1, k2
<1>3. k \in Connection /\ Len(k.utf8) \in Nat /\ k.eof \in BOOLEAN /\ k.eofraw \in BOOLEAN
  BY Empty DEF Sized, Connection
<1>4. CASE Len(k2.utf8) = Len(k1.utf8)
  <2>1. /\ Sized(j) /\ Like(j, k2) /\ j.torn = k2.torn /\ j.raw = k2.raw /\ j.utf8 = k2.utf8
        /\ j.eofraw = TRUE /\ j.eof = (k2.eof \/ (k2.utf8 = <<>> /\ k2.raw = <<>>))
    BY <1>1, <1>2, <1>4, MarksEof
  <2>2. Halves = {} /\ k.off = Len(k.raw) /\ Len(k.utf8) < Utf8Size => data = <<>>
    BY <1>2, <1>3, <1>4
  <2>3. QED
    BY <1>2, <2>1, <2>2 DEF Took, Like
<1>5. CASE Len(k2.utf8) # Len(k1.utf8)
  BY <1>1, <1>2, <1>5 DEF Took
<1>6. QED
  BY <1>4, <1>5

\* poll() fetches the completion.
LEMMA PollTook ==
  ASSUME NEW k, Sized(k), NEW data \in Data, Fits(k, data), NEW hit \in BOOLEAN
  PROVE  Took(PollTakes(k, data, hit), k, data) /\ ~PollTakes(k, data, hit).connecting
<1> DEFINE k1 == [k EXCEPT !.pending = FALSE, !.raw = Landed(k, data)]
           k2 == to_utf8(k1)
           k3 == IF data = <<>> /\ ~k.connecting THEN AtEof(k2) ELSE k2
           j == PollTakes(k, data, hit)
<1>1. j = [k3 EXCEPT !.connecting = FALSE,
                     !.state = IF hit /\ k.connecting /\ k.state # "none" THEN "ready" ELSE @]
  BY DEF PollTakes
<1>2. /\ Sized(k2) /\ ~k2.pending
      /\ k2.handle = k.handle /\ k2.off = k.off /\ k2.mem = k.mem /\ k2.torn = k.torn
      /\ k2.connecting = k.connecting /\ k2.state = k.state
      /\ k2.eof = k.eof /\ k2.eofraw = k.eofraw
      /\ Halves = {} /\ (data = <<>> \/ k.off = Len(k.raw)) =>
           k2.utf8 \o k2.raw = k.utf8 \o (k.raw \o data)
  BY Lands
<1>3. k \in Connection /\ k.eof \in BOOLEAN /\ k.eofraw \in BOOLEAN
  BY DEF Sized, Connection
<1> HIDE DEF k2, j
<1>4. /\ Sized(k3) /\ Like(k3, k2) /\ k3.torn = k2.torn /\ k3.raw = k2.raw /\ k3.utf8 = k2.utf8
      /\ k2.eofraw => k3.eofraw
      /\ k3.eofraw => k2.eofraw \/ data = <<>>
      /\ k3.eof => k2.eof \/ (k3.eofraw /\ k3.utf8 = <<>> /\ k3.raw = <<>>)
  <2>1. CASE data = <<>> /\ ~k.connecting
    <3>1. k3 = AtEof(k2)
      BY <2>1
    <3> HIDE DEF k3
    <3>2. QED
      BY <1>2, <2>1, <3>1, MarksEof
  <2>2. CASE ~(data = <<>> /\ ~k.connecting)
    <3>1. k3 = k2
      BY <2>2
    <3> HIDE DEF k3
    <3>2. QED
      BY <1>2, <3>1 DEF Like
  <2>3. QED
    BY <2>1, <2>2
<1> HIDE DEF k3
<1>5. k3 \in Connection
  BY <1>4 DEF Sized
<1>6. /\ j \in Connection /\ j.raw = k3.raw /\ j.utf8 = k3.utf8 /\ ~j.connecting
      /\ j.handle = k3.handle /\ j.off = k3.off /\ j.mem = k3.mem /\ j.torn = k3.torn
      /\ j.pending = k3.pending /\ j.eof = k3.eof /\ j.eofraw = k3.eofraw
      /\ j.state = k3.state \/ (j.state = "ready" /\ k.state # "none" /\ k.connecting)
  BY <1>1, <1>5 DEF Connection
<1>7. Sized(j)
  BY <1>4, <1>6 DEF Sized
<1>8. QED
  BY <1>2, <1>4, <1>6, <1>7 DEF Took, Like, j

-----------------------------------------------------------------------------
(***************************************************************************)
(* The invariant.                                                          *)
(***************************************************************************)
\* For a connection k, what the kernel does for it (o), if it has a packet in the port,
\* and with which data (d), and the other end (pr).
KernelInv(k, o, has, d, pr) ==
    /\ has => o = "none"
    /\ o # "none" \/ has => k.pending /\ k.mem # "freed"
    /\ k.pending /\ ~(k.connecting /\ k.state # "listen") => o # "none" \/ has
    /\ o # "none" => k.handle
    /\ k.mem # "live" => ~k.handle
    /\ k.handle /\ pr = "absent" => ~has /\ o # "read" /\ k.state # "ready"
    /\ o = "read" => Len(k.raw) <= k.off /\ k.off <= RawSize
    /\ Fits(k, d)

\* The connection between ReadFile() and ConnectNamedPipe().
CtlInv ==
    pc = "connect" =>
        LET c == call.con IN
        /\ c \in Con /\ con[c].mem = "live" /\ con[c].handle /\ con[c].pending
        /\ con[c].connecting /\ con[c].state # "listen" /\ io[c] = "none" /\ ~Has(c)

\* All the bytes of a connection, and what they should be.
Bytes(g, u, r, d, p) == g \o u \o r \o d \o p
FirstBytes(s) == [n \in 1..s |-> n]

\* Where all the bytes are, the others as above: in R (g), in the buffers, in the port and
\* in the pipe (p); s were written.
StreamInv(kd, k, o, has, d, p, pr, s, g) ==
    /\ kd = "pipe" => pr # "absent" /\ o # "connect" /\ ~k.connecting /\ k.state = "none"
    /\ k.handle /\ ~k.torn =>
        /\ Bytes(g, k.utf8, k.raw, d, p) = FirstBytes(s)
        /\ o = "read" \/ d # <<>> =>
             k.off = Len(k.raw) /\ k.off < RawSize /\ Len(k.utf8) < Utf8Size
        /\ kd = "pipe" =>
             /\ has /\ d = <<>> => pr = "closed" /\ p = <<>>
             /\ k.eofraw => pr = "closed" /\ p = <<>> /\ d = <<>>
             /\ k.eof => k.eofraw /\ Len(g) = s

Kernel(c) == KernelInv(con[c], io[c], Has(c), InPort(c), peer[c])
Stream(c) ==
    StreamInv(kind[c], con[c], io[c], Has(c), InPort(c), pipe[c], peer[c], sent[c], got[c])

IInv == TypeOK /\ One /\ CtlInv /\ \A c \in Con : Kernel(c)

\* What a step has to show that works on connection c.
Others(c) ==
    \A d \in Con \ {c} :
        UNCHANGED <<con[d], io[d], Has(d), InPort(d), pipe[d], peer[d], sent[d], got[d]>>
Kept(c) ==
    /\ TypeOK' /\ One' /\ CtlInv' /\ Others(c) /\ kind' = kind
    /\ Kernel(c)' /\ (Halves = {} /\ Stream(c) => Stream(c)')

\* It is enough.
LEMMA KeptAll ==
  ASSUME IInv, NEW c \in Con, Kept(c)
  PROVE  IInv' /\ (Halves = {} /\ (\A d \in Con : Stream(d)) => \A d \in Con : Stream(d)')
<1>1. ASSUME NEW d \in Con PROVE Kernel(d)' /\ (Halves = {} /\ Stream(d) => Stream(d)')
  <2>1. CASE d = c
    BY <2>1 DEF Kept
  <2>2. CASE d # c
    <3>1. /\ con'[d] = con[d] /\ io'[d] = io[d] /\ Has(d)' = Has(d) /\ InPort(d)' = InPort(d)
          /\ pipe'[d] = pipe[d] /\ peer'[d] = peer[d] /\ sent'[d] = sent[d] /\ got'[d] = got[d]
          /\ kind' = kind
      BY <2>2 DEF Kept, Others
    <3>2. Kernel(d)
      BY DEF IInv
    <3>3. QED
      BY <3>1, <3>2 DEF Kernel, Stream
  <2>3. QED
    BY <2>1, <2>2
<1>2. QED
  BY <1>1 DEF IInv, Kept

\* So it is if nothing happens to any connection.
LEMMA KeptNone ==
  ASSUME IInv, UNCHANGED <<kind, con, io, pipe, peer, sent, got>>, TypeOK', CtlInv',
         One', \A d \in Con : PortSame(d)
  PROVE  IInv' /\ \A d \in Con : Stream(d) => Stream(d)'
  BY DEF IInv, Kernel, Stream, PortSame

\* The parts of the type invariant.
LEMMA Types ==
  ASSUME IInv, NEW c \in Con
  PROVE  /\ Sized(con[c]) /\ PortType /\ InPort(c) \in Data /\ Len(InPort(c)) <= RawSize
         /\ pipe[c] \in Seq(1..MaxSent) /\ pipe[c] \in Data /\ got[c] \in Data
         /\ io[c] \in {"none", "read", "connect"} /\ peer[c] \in {"absent", "open", "closed"}
         /\ kind[c] \in {"pipe", "fifo", "socket"} /\ sent[c] \in 0..MaxSent
         /\ con[c] \in Connection /\ Kernel(c) /\ call \in Call
<1>1. Sized(con[c]) /\ con[c] \in Connection
  BY DEF IInv, TypeOK, Sized
<1>2. PortType
  BY DEF IInv, TypeOK, PortType
<1>3. InPort(c) \in Data /\ Len(InPort(c)) <= RawSize
  <2>1. CASE ~Has(c)
    BY <2>1, NoPacket, Empty
  <2>2. ASSUME NEW i \in Packets(c) PROVE InPort(c) \in Data /\ Len(InPort(c)) <= RawSize
    <3>1. InPort(c) = port[i].data
      BY ThePacket DEF IInv
    <3>2. i \in 1..Len(port) /\ port[i].con = c /\ port[i] \in Packet \cup {Wake}
      BY <1>2 DEF Packets, PortType
    <3>3. port[i].data \in Data
      BY <3>2, Empty DEF Packet, Wake
    <3>4. QED
      BY <1>2, <3>1, <3>2, <3>3 DEF PortType
  <2>3. QED
    BY <2>1, <2>2 DEF Has
<1>4. QED
  BY <1>1, <1>2, <1>3, PipeData DEF IInv, TypeOK

\* What a read takes from the pipe, and what it leaves.
LEMMA ReadableIs ==
  ASSUME IInv, NEW c \in Con, NEW off \in 0..RawSize
  PROVE  /\ Readable(c, off) \in Data /\ Len(Readable(c, off)) <= RawSize - off
         /\ Rest(c, off) \in Seq(1..MaxSent)
         /\ Readable(c, off) \o Rest(c, off) = pipe[c]
         /\ pipe[c] # <<>> /\ off < RawSize => Readable(c, off) # <<>>
         /\ pipe[c] = <<>> => Readable(c, off) = <<>> /\ Rest(c, off) = <<>>
<1> DEFINE p == pipe[c]
           m == IF Len(p) < RawSize - off THEN Len(p) ELSE RawSize - off
<1>1. p \in Seq(1..MaxSent) /\ p \in Data /\ Len(p) \in Nat
  BY Types
<1>2. Readable(c, off) = SubSeq(p, 1, m) /\ Rest(c, off) = SubSeq(p, RawSize - off + 1, Len(p))
  BY DEF Readable, Rest
<1> HIDE DEF p
<1>3. m \in 0..Len(p) /\ m <= RawSize - off
  BY <1>1
<1>4. SubSeq(p, RawSize - off + 1, Len(p)) = SubSeq(p, m + 1, Len(p))
  <2>1. CASE Len(p) < RawSize - off
    <3>1. SubSeq(p, RawSize - off + 1, Len(p)) = <<>>
      BY <1>1, <2>1, SubSeqEmpty
    <3>2. SubSeq(p, m + 1, Len(p)) = <<>>
      BY <1>1, <2>1, SubSeqEmpty
    <3>3. QED
      BY <3>1, <3>2
  <2>2. CASE ~(Len(p) < RawSize - off)
    BY <2>2
  <2>3. QED
    BY <2>1, <2>2
<1> HIDE DEF m
<1>5. /\ SubSeq(p, 1, m) \in Seq(1..MaxSent) /\ Len(SubSeq(p, 1, m)) = m
      /\ SubSeq(p, m + 1, Len(p)) \in Seq(1..MaxSent)
      /\ Len(SubSeq(p, m + 1, Len(p))) = Len(p) - m
      /\ SubSeq(p, 1, m) \o SubSeq(p, m + 1, Len(p)) = p
  BY <1>1, <1>3, Cut
<1>6. Readable(c, off) \in Seq(1..MaxSent) /\ Len(Readable(c, off)) = m
  BY <1>2, <1>5
<1>7. Rest(c, off) \in Seq(1..MaxSent) /\ Len(Rest(c, off)) = Len(p) - m
  BY <1>2, <1>4, <1>5
<1>8. Readable(c, off) \o Rest(c, off) = p
  BY <1>2, <1>4, <1>5
<1>9. Readable(c, off) \in Data /\ Rest(c, off) \in Data
  BY <1>6, <1>7, PipeData
<1>10. p # <<>> /\ off < RawSize => m # 0
  BY <1>1, Empty DEF m
<1>11. p = <<>> => m = 0 /\ Len(p) - m = 0
  BY <1>1, <1>3, Empty
<1>12. QED
  BY <1>3, <1>6, <1>7, <1>8, <1>9, <1>10, <1>11, Empty DEF p

\* Concatenation, whose definition most proofs do not need.
Cat(s, t) == s \o t

\* All the bytes, with other brackets.
LEMMA Regroup ==
  ASSUME NEW g, NEW u, NEW r, NEW d, NEW p, {g, u, r, d, p} \subseteq Data
  PROVE  Bytes(g, u, r, d, p) = Cat(Cat(g, Cat(u, r)), Cat(d, p))
<1>0. g \in Data /\ u \in Data /\ r \in Data /\ d \in Data /\ p \in Data
  OBVIOUS
<1>1. (g \o u) \o r = g \o (u \o r)
  BY <1>0, Brackets
<1>2. g \o u \in Data
  BY <1>0, Join
<1>3. (g \o u) \o r \in Data
  BY <1>2, <1>0, Join
<1>4. (((g \o u) \o r) \o d) \o p = ((g \o u) \o r) \o (d \o p)
  BY <1>3, <1>0, Brackets
<1>5. QED
  BY <1>1, <1>4 DEF Bytes, Cat

\* The same for those that were fetched.
LEMMA RegroupFetched ==
  ASSUME NEW g, NEW u, NEW r, NEW d, NEW p, {g, u, r, d, p} \subseteq Data
  PROVE  Bytes(g, u, r, d, p) = Cat(Cat(g, Cat(u, Cat(r, d))), p)
<1>0. g \in Data /\ u \in Data /\ r \in Data /\ d \in Data /\ p \in Data
  OBVIOUS
<1>1. ((g \o u) \o r) \o d = (g \o u) \o (r \o d)
  <2>1. g \o u \in Data
    BY <1>0, Join
  <2>2. PICK x \in Data : x = g \o u
    BY <2>1
  <2>3. r \in Data /\ d \in Data
    BY <1>0
  <2>4. (x \o r) \o d = x \o (r \o d)
    BY <2>3, Brackets
  <2>5. QED
    BY <2>2, <2>4
<1>2. (g \o u) \o (r \o d) = g \o (u \o (r \o d))
  <2>1. r \o d \in Data
    BY <1>0, Join
  <2>2. PICK x \in Data : x = r \o d
    BY <2>1
  <2>3. g \in Data /\ u \in Data
    BY <1>0
  <2>4. (g \o u) \o x = g \o (u \o x)
    BY <2>3, Brackets
  <2>5. QED
    BY <2>2, <2>4
<1>3. QED
  BY <1>1, <1>2 DEF Bytes, Cat

\* How many bytes they are.
LEMMA BytesLen ==
  ASSUME NEW g, NEW u, NEW r, NEW d, NEW p, {g, u, r, d, p} \subseteq Data
  PROVE  Len(Bytes(g, u, r, d, p)) = Len(g) + Len(u) + Len(r) + Len(d) + Len(p)
<1>0. g \in Data /\ u \in Data /\ r \in Data /\ d \in Data /\ p \in Data
  OBVIOUS
<1>1. g \o u \in Data /\ Len(g \o u) = Len(g) + Len(u)
  BY <1>0, Join
<1>2. (g \o u) \o r \in Data /\ Len((g \o u) \o r) = Len(g \o u) + Len(r)
  BY <1>0, <1>1, Join
<1>3. /\ ((g \o u) \o r) \o d \in Data
      /\ Len(((g \o u) \o r) \o d) = Len((g \o u) \o r) + Len(d)
  BY <1>0, <1>2, Join
<1>4. Len((((g \o u) \o r) \o d) \o p) = Len(((g \o u) \o r) \o d) + Len(p)
  BY <1>0, <1>3, Join
<1>5. QED
  BY <1>1, <1>2, <1>3, <1>4 DEF Bytes

\* An event is known for a connection.
LEMMA KnownCall ==
  ASSUME call \in Call, NEW c \in Con, NEW e \in Event, Known(c, e)
  PROVE  pc' \in {"idle", "wait", "pre"} /\ call' \in Call
<1>1. NoCall \in Call
  BY DEF NoCall, Call, Event
<1>2. CASE Return
  BY <1>1, <1>2 DEF Return
<1>3. CASE ~Return
  <2> DEFINE todo == call.todo \ {c}
             ev == [call.ev EXCEPT ![c] = e]
  <2>1. /\ pc' = IF todo = {} THEN "wait" ELSE "pre"
        /\ call' = [call EXCEPT !.todo = todo, !.ev = ev, !.con = NoCon,
                                !.has = @ \/ e \in {"ready", "connect"}]
    BY <1>3 DEF Known
  <2>2. todo \in SUBSET Con /\ ev \in [Con -> Event] /\ NoCon \in Con \cup {NoCon}
        /\ (call.has \/ e \in {"ready", "connect"}) \in BOOLEAN
    BY DEF Call
  <2> HIDE DEF todo, ev
  <2>3. QED
    BY <2>1, <2>2 DEF Call
<1>4. QED
  BY <1>2, <1>3

-----------------------------------------------------------------------------
(***************************************************************************)
(* Starting to read.                                                       *)
(***************************************************************************)
\* The packets of a connection after those of s were queued.
NewHas(c, s) == Has(c) \/ s.packets # <<>>
NewData(c, s) == IF s.packets = <<>> THEN InPort(c) ELSE s.packets[1].data

\* What processx__connection_start_read has done to connection k, apart from the bytes.
Begun(c, k, s) ==
    /\ Sized(s.k) /\ s.io \in {"none", "read", "connect"} /\ s.rest \in Seq(1..MaxSent)
    /\ s.k.mem = k.mem /\ s.k.torn = k.torn
    /\ \/ s.packets = <<>>
       \/ /\ ~Has(c)
          /\ \E x \in Data : Len(x) <= RawSize /\ s.packets = <<[con |-> c, data |-> x]>>
    /\ KernelInv(s.k, s.io, NewHas(c, s), NewData(c, s), peer[c])
    /\ s.then = "connect" =>
         /\ s.k.handle /\ s.k.pending /\ s.k.connecting /\ s.k.state # "listen"
         /\ s.io = "none" /\ s.packets = <<>> /\ ~Has(c)

\* And to the bytes, if there is room in the buffers.
BegunStream(c, k, s) ==
    /\ Halves = {}
    /\ StreamInv(kind[c], k, io[c], Has(c), InPort(c), pipe[c], peer[c], sent[c], got[c])
    /\ ~k.pending => Len(k.raw) < RawSize /\ Len(k.utf8) < Utf8Size
    => StreamInv(kind[c], s.k, s.io, NewHas(c, s), NewData(c, s), s.rest, peer[c], sent[c],
                 got[c])

\* The fields of a result.
LEMMA StartedIs ==
  ASSUME NEW k, NEW i, NEW p, NEW r, NEW t
  PROVE  /\ Started(k, i, p, r, t).k = k /\ Started(k, i, p, r, t).io = i
         /\ Started(k, i, p, r, t).packets = p /\ Started(k, i, p, r, t).rest = r
         /\ Started(k, i, p, r, t).then = t
  BY DEF Started

\* A connection that is not pending has nothing under way.
LEMMA NotPending ==
  ASSUME NEW c, NEW k, KernelInv(k, io[c], Has(c), InPort(c), peer[c]), ~k.pending
  PROVE  io[c] = "none" /\ ~Has(c) /\ InPort(c) = <<>>
  BY NoPacket DEF KernelInv

\* ConnectNamedPipe() for a socket.
LEMMA Connects ==
  ASSUME IInv, NEW c \in Con, NEW k, Sized(k),
         KernelInv(k, io[c], Has(c), InPort(c), peer[c]),
         k.handle, ~k.pending, k.state = "listen"
  PROVE  Begun(c, k, ConnectSocket(c, k)) /\ BegunStream(c, k, ConnectSocket(c, k))
<1> DEFINE s == ConnectSocket(c, k)
<1>1. io[c] = "none" /\ ~Has(c) /\ InPort(c) = <<>>
  BY NotPending
<1>2. k \in Connection /\ pipe[c] \in Seq(1..MaxSent) /\ peer[c] \in {"absent", "open", "closed"}
  BY Types DEF Sized
<1>3. s.packets = <<>> => NewHas(c, s) = FALSE /\ NewData(c, s) = <<>>
  BY <1>1 DEF NewHas, NewData
<1>4. CASE peer[c] = "absent"
  <2>1. s = Started([k EXCEPT !.pending = TRUE, !.connecting = TRUE], "connect",
                    <<>>, pipe[c], "ok")
    BY <1>4 DEF ConnectSocket
  <2>2. /\ s.k = [k EXCEPT !.pending = TRUE, !.connecting = TRUE] /\ s.io = "connect"
        /\ s.packets = <<>> /\ s.rest = pipe[c] /\ s.then = "ok"
    BY <2>1, StartedIs
  <2> HIDE DEF s
  <2>3. /\ s.k \in Connection /\ s.k.pending /\ s.k.connecting /\ s.k.handle = k.handle
        /\ s.k.off = k.off /\ s.k.state = k.state /\ s.k.raw = k.raw /\ s.k.utf8 = k.utf8
        /\ s.k.mem = k.mem /\ s.k.torn = k.torn /\ s.k.eof = k.eof /\ s.k.eofraw = k.eofraw
    BY <1>2, <2>2 DEF Connection
  <2>4. KernelInv(s.k, s.io, NewHas(c, s), NewData(c, s), peer[c])
    BY <1>1, <1>3, <2>2, <2>3 DEF KernelInv, Fits
  <2>5. Begun(c, k, s)
    BY <1>2, <2>2, <2>3, <2>4 DEF Begun, Sized
  <2>6. BegunStream(c, k, s)
    BY <1>1, <1>3, <1>4, <2>2, <2>3 DEF BegunStream, StreamInv
  <2>7. QED
    BY <2>5, <2>6 DEF s
<1>5. CASE peer[c] = "open"
  <2>1. s = Started([k EXCEPT !.connecting = FALSE, !.state = "ready"], "none",
                    <<>>, pipe[c], "ok")
    BY <1>5 DEF ConnectSocket
  <2>2. /\ s.k = [k EXCEPT !.connecting = FALSE, !.state = "ready"] /\ s.io = "none"
        /\ s.packets = <<>> /\ s.rest = pipe[c] /\ s.then = "ok"
    BY <2>1, StartedIs
  <2> HIDE DEF s
  <2>3. /\ s.k \in Connection /\ ~s.k.pending /\ s.k.handle = k.handle
        /\ s.k.off = k.off /\ s.k.state = "ready" /\ s.k.raw = k.raw /\ s.k.utf8 = k.utf8
        /\ s.k.mem = k.mem /\ s.k.torn = k.torn /\ s.k.eof = k.eof /\ s.k.eofraw = k.eofraw
    BY <1>2, <2>2 DEF Connection
  <2>4. KernelInv(s.k, s.io, NewHas(c, s), NewData(c, s), peer[c])
    BY <1>1, <1>3, <1>5, <2>2, <2>3 DEF KernelInv, Fits
  <2>5. Begun(c, k, s)
    BY <1>2, <2>2, <2>3, <2>4 DEF Begun, Sized
  <2>6. BegunStream(c, k, s)
    <3>1. SUFFICES ASSUME StreamInv(kind[c], k, io[c], Has(c), InPort(c), pipe[c], peer[c],
                                    sent[c], got[c])
                   PROVE  StreamInv(kind[c], s.k, s.io, NewHas(c, s), NewData(c, s), s.rest,
                                    peer[c], sent[c], got[c])
      BY DEF BegunStream
    <3>2. kind[c] # "pipe"
      BY <3>1 DEF StreamInv
    <3>3. QED
      BY <1>1, <1>3, <2>2, <2>3, <3>1, <3>2 DEF StreamInv
  <2>7. QED
    BY <2>5, <2>6 DEF s
<1>6. CASE peer[c] = "closed"
  <2>1. s = Started([k EXCEPT !.connecting = TRUE], "none", <<>>, pipe[c], "throw")
    BY <1>6 DEF ConnectSocket
  <2>2. /\ s.k = [k EXCEPT !.connecting = TRUE] /\ s.io = "none"
        /\ s.packets = <<>> /\ s.rest = pipe[c] /\ s.then = "throw"
    BY <2>1, StartedIs
  <2> HIDE DEF s
  <2>3. /\ s.k \in Connection /\ ~s.k.pending /\ s.k.handle = k.handle
        /\ s.k.off = k.off /\ s.k.state = k.state /\ s.k.raw = k.raw /\ s.k.utf8 = k.utf8
        /\ s.k.mem = k.mem /\ s.k.torn = k.torn /\ s.k.eof = k.eof /\ s.k.eofraw = k.eofraw
    BY <1>2, <2>2 DEF Connection
  <2>4. KernelInv(s.k, s.io, NewHas(c, s), NewData(c, s), peer[c])
    BY <1>1, <1>3, <1>6, <2>2, <2>3 DEF KernelInv, Fits
  <2>5. Begun(c, k, s)
    BY <1>2, <2>2, <2>3, <2>4 DEF Begun, Sized
  <2>6. BegunStream(c, k, s)
    BY <1>1, <1>3, <1>6, <2>2, <2>3 DEF BegunStream, StreamInv
  <2>7. QED
    BY <2>5, <2>6 DEF s
<1>7. QED
  BY <1>2, <1>4, <1>5, <1>6

\* When all bytes were handed to R.
LEMMA AllGiven ==
  ASSUME NEW g \in Data, NEW p \in Data, NEW s \in Nat,
         Bytes(g, <<>>, <<>>, <<>>, p) = FirstBytes(s)
  PROVE  p = <<>> => Len(g) = s
<1>1. Len(Bytes(g, <<>>, <<>>, <<>>, p)) = Len(g) + Len(p)
  <2>1. <<>> \in Data /\ Len(<<>>) = 0 /\ Len(g) \in Nat /\ Len(p) \in Nat
    BY Empty
  <2> DEFINE e == <<>>
  <2> HIDE DEF e
  <2>2. e \in Data /\ Len(e) = 0
    BY <2>1 DEF e
  <2>3. Len(Bytes(g, e, e, e, p)) = Len(g) + Len(e) + Len(e) + Len(e) + Len(p)
    BY <2>2, BytesLen
  <2>4. Len(Bytes(g, e, e, e, p)) = Len(g) + Len(p)
    BY <2>1, <2>2, <2>3
  <2>5. QED
    BY <2>4 DEF e
<1>2. Len(FirstBytes(s)) = s
  BY DEF FirstBytes
<1>3. Len(g) \in Nat
  BY Empty
<1>4. QED
  BY <1>1, <1>2, <1>3, Empty

\* What the bytes are does not depend on where the boundaries are.
LEMMA SameBytes ==
  ASSUME NEW g, NEW u, NEW r, NEW d, NEW p, {g, u, r, d, p} \subseteq Data,
         NEW v, NEW q, NEW e, NEW o, {v, q, e, o} \subseteq Data,
         Cat(u, r) = Cat(v, q), Cat(d, p) = Cat(e, o)
  PROVE  Bytes(g, u, r, d, p) = Bytes(g, v, q, e, o)
<1>1. Bytes(g, u, r, d, p) = Cat(Cat(g, Cat(u, r)), Cat(d, p))
  BY Regroup
<1>2. {g, v, q, e, o} \subseteq Data
  OBVIOUS
<1>3. Bytes(g, v, q, e, o) = Cat(Cat(g, Cat(v, q)), Cat(e, o))
  BY <1>2, Regroup
<1>4. QED
  BY <1>1, <1>3

\* Nor on who has fetched them.
LEMMA FetchedBytes ==
  ASSUME NEW g, NEW u, NEW r, NEW d, NEW p, {g, u, r, d, p} \subseteq Data,
         NEW v, NEW q, {v, q} \subseteq Data, Cat(v, q) = Cat(u, Cat(r, d))
  PROVE  Bytes(g, u, r, d, p) = Bytes(g, v, q, <<>>, p)
<1>1. Bytes(g, u, r, d, p) = Cat(Cat(g, Cat(u, Cat(r, d))), p)
  BY RegroupFetched
<1>2. {g, v, q, <<>>, p} \subseteq Data /\ Cat(<<>>, p) = p
  BY Empty DEF Cat
<1>3. Bytes(g, v, q, <<>>, p) = Cat(Cat(g, Cat(v, q)), Cat(<<>>, p))
  BY <1>2, Regroup
<1>4. QED
  BY <1>1, <1>2, <1>3

\* ReadFile().
LEMMA Reads ==
  ASSUME IInv, NEW c \in Con, NEW k, Sized(k),
         KernelInv(k, io[c], Has(c), InPort(c), peer[c]),
         k.handle, ~k.pending, k.state # "listen"
  PROVE  Begun(c, k, ReadFile(c, k)) /\ BegunStream(c, k, ReadFile(c, k))
<1> DEFINE s == ReadFile(c, k)
           before == StreamInv(kind[c], k, io[c], Has(c), InPort(c), pipe[c], peer[c], sent[c],
                               got[c])
           after == StreamInv(kind[c], s.k, s.io, NewHas(c, s), NewData(c, s), s.rest, peer[c],
                              sent[c], got[c])
<1>1. io[c] = "none" /\ ~Has(c) /\ InPort(c) = <<>>
  BY NotPending
<1>2. /\ k \in Connection /\ pipe[c] \in Seq(1..MaxSent) /\ pipe[c] \in Data /\ got[c] \in Data
      /\ peer[c] \in {"absent", "open", "closed"} /\ k.raw \in Data /\ k.utf8 \in Data
      /\ Len(k.raw) \in 0..RawSize /\ Len(k.raw) \in Nat /\ k.mem = "live" /\ sent[c] \in Nat
  <2>1. k \in Connection /\ k.raw \in Data /\ k.utf8 \in Data /\ k.mem \in {"live", "listed", "freed"}
    BY DEF Sized, Connection
  <2>2. Len(k.raw) \in Nat /\ Len(k.raw) <= RawSize
    BY <2>1, Empty DEF Sized
  <2>3. k.mem = "live"
    BY <2>1 DEF KernelInv
  <2>4. /\ pipe[c] \in Seq(1..MaxSent) /\ pipe[c] \in Data /\ got[c] \in Data
        /\ peer[c] \in {"absent", "open", "closed"} /\ sent[c] \in 0..MaxSent
    BY Types
  <2>5. QED
    BY <2>1, <2>2, <2>3, <2>4
<1>3. s.packets = <<>> => NewHas(c, s) = FALSE /\ NewData(c, s) = <<>>
  BY <1>1 DEF NewHas, NewData
<1>4. SUFFICES /\ Begun(c, k, s)
               /\ Halves = {} /\ before /\ Len(k.raw) < RawSize /\ Len(k.utf8) < Utf8Size
                  => after
  BY DEF BegunStream
<1>5. CASE peer[c] = "absent"
  <2>1. s = Started([k EXCEPT !.pending = TRUE, !.connecting = TRUE], "none",
                    <<>>, pipe[c], "connect")
    BY <1>5 DEF ReadFile
  <2>2. /\ s.k = [k EXCEPT !.pending = TRUE, !.connecting = TRUE] /\ s.io = "none"
        /\ s.packets = <<>> /\ s.rest = pipe[c] /\ s.then = "connect"
    BY <2>1, StartedIs
  <2> HIDE DEF s
  <2>3. /\ s.k \in Connection /\ s.k.pending /\ s.k.connecting /\ s.k.handle = k.handle
        /\ s.k.off = k.off /\ s.k.state = k.state /\ s.k.raw = k.raw /\ s.k.utf8 = k.utf8
        /\ s.k.mem = k.mem /\ s.k.torn = k.torn /\ s.k.eof = k.eof /\ s.k.eofraw = k.eofraw
    BY <1>2, <2>2 DEF Connection
  <2>4. KernelInv(s.k, s.io, NewHas(c, s), NewData(c, s), peer[c])
    BY <1>1, <1>2, <1>3, <1>5, <2>2, <2>3 DEF KernelInv, Fits
  <2>5. Begun(c, k, s)
    BY <1>1, <1>2, <2>2, <2>3, <2>4 DEF Begun, Sized
  <2>6. before => after
    BY <1>1, <1>3, <1>5, <2>2, <2>3 DEF StreamInv
  <2>7. QED
    BY <2>5, <2>6
<1>6. CASE peer[c] # "absent" /\ pipe[c] # <<>>
  <2> DEFINE x == Readable(c, Len(k.raw))
  <2>1. s = Started([k EXCEPT !.pending = TRUE, !.off = Len(k.raw)], "none",
                    <<[con |-> c, data |-> x]>>, Rest(c, Len(k.raw)), "ok")
    BY <1>6 DEF ReadFile
  <2>2. /\ s.k = [k EXCEPT !.pending = TRUE, !.off = Len(k.raw)] /\ s.io = "none"
        /\ s.packets = <<[con |-> c, data |-> x]>> /\ s.rest = Rest(c, Len(k.raw))
        /\ s.then = "ok"
    BY <2>1, StartedIs
  <2>3. /\ x \in Data /\ Len(x) <= RawSize - Len(k.raw) /\ s.rest \in Seq(1..MaxSent)
        /\ x \o s.rest = pipe[c] /\ (Len(k.raw) < RawSize => x # <<>>)
    <3>1. /\ x \in Data /\ Len(x) <= RawSize - Len(k.raw)
          /\ Rest(c, Len(k.raw)) \in Seq(1..MaxSent)
          /\ x \o Rest(c, Len(k.raw)) = pipe[c]
          /\ pipe[c] # <<>> /\ Len(k.raw) < RawSize => x # <<>>
      BY <1>2, ReadableIs
    <3>2. QED
      BY <1>6, <2>2, <3>1
  <2> HIDE DEF s, x
  <2>4. /\ s.k \in Connection /\ s.k.pending /\ s.k.handle = k.handle
        /\ s.k.connecting = k.connecting
        /\ s.k.off = Len(k.raw) /\ s.k.state = k.state /\ s.k.raw = k.raw /\ s.k.utf8 = k.utf8
        /\ s.k.mem = k.mem /\ s.k.torn = k.torn /\ s.k.eof = k.eof /\ s.k.eofraw = k.eofraw
    BY <1>2, <2>2 DEF Connection
  <2>5. NewHas(c, s) = TRUE /\ NewData(c, s) = x /\ s.packets # <<>>
    BY <2>2 DEF NewHas, NewData
  <2>6. Len(x) \in Nat /\ Len(k.raw) + Len(x) <= RawSize /\ Len(x) <= RawSize
    BY <1>2, <2>3, Empty
  <2>7. KernelInv(s.k, s.io, NewHas(c, s), NewData(c, s), peer[c])
    BY <1>2, <1>6, <2>2, <2>4, <2>5, <2>6 DEF KernelInv, Fits
  <2>8. Begun(c, k, s)
    BY <1>1, <1>2, <2>2, <2>3, <2>4, <2>6, <2>7 DEF Begun, Sized
  <2>9. Bytes(got[c], k.utf8, k.raw, <<>>, pipe[c]) = Bytes(got[c], k.utf8, k.raw, x, s.rest)
    <3>1. s.rest \in Data /\ <<>> \in Data /\ Cat(<<>>, pipe[c]) = Cat(x, s.rest)
      BY <1>2, <2>3, PipeData, Empty DEF Cat
    <3>2. /\ {got[c], k.utf8, k.raw, <<>>, pipe[c]} \subseteq Data
          /\ {k.utf8, k.raw, x, s.rest} \subseteq Data
      BY <1>2, <2>3, <3>1
    <3>3. QED
      BY <3>1, <3>2, SameBytes
  <2>10. ASSUME before, Len(k.raw) < RawSize, Len(k.utf8) < Utf8Size PROVE after
    BY <1>1, <1>6, <2>2, <2>3, <2>4, <2>5, <2>9, <2>10 DEF StreamInv
  <2>11. QED
    BY <2>8, <2>10
<1>7. CASE peer[c] = "open" /\ pipe[c] = <<>>
  <2>1. s = Started([k EXCEPT !.pending = TRUE, !.off = Len(k.raw)], "read", <<>>, <<>>, "ok")
    BY <1>7 DEF ReadFile
  <2>2. /\ s.k = [k EXCEPT !.pending = TRUE, !.off = Len(k.raw)] /\ s.io = "read"
        /\ s.packets = <<>> /\ s.rest = pipe[c] /\ s.then = "ok"
    BY <1>7, <2>1, StartedIs
  <2> HIDE DEF s
  <2>3. /\ s.k \in Connection /\ s.k.pending /\ s.k.handle = k.handle
        /\ s.k.connecting = k.connecting
        /\ s.k.off = Len(k.raw) /\ s.k.state = k.state /\ s.k.raw = k.raw /\ s.k.utf8 = k.utf8
        /\ s.k.mem = k.mem /\ s.k.torn = k.torn /\ s.k.eof = k.eof /\ s.k.eofraw = k.eofraw
    BY <1>2, <2>2 DEF Connection
  <2>4. KernelInv(s.k, s.io, NewHas(c, s), NewData(c, s), peer[c])
    BY <1>1, <1>2, <1>3, <1>7, <2>2, <2>3 DEF KernelInv, Fits
  <2>5. Begun(c, k, s)
    BY <1>1, <1>2, <2>2, <2>3, <2>4 DEF Begun, Sized
  <2>6. ASSUME before, Len(k.raw) < RawSize, Len(k.utf8) < Utf8Size PROVE after
    BY <1>1, <1>3, <1>7, <2>2, <2>3, <2>6 DEF StreamInv
  <2>7. QED
    BY <2>5, <2>6
<1>8. CASE peer[c] = "closed" /\ pipe[c] = <<>>
  <2> DEFINE a == AtEof(k)
  <2>1. s = Started(to_utf8(a), "none", <<>>, <<>>, "ok")
    BY <1>8 DEF ReadFile
  <2>2. /\ s.k = to_utf8(a) /\ s.io = "none" /\ s.packets = <<>> /\ s.rest = pipe[c]
        /\ s.then = "ok"
    BY <1>8, <2>1, StartedIs
  <2>3. /\ Sized(a) /\ Like(a, k) /\ a.torn = k.torn /\ a.raw = k.raw /\ a.utf8 = k.utf8
        /\ a.eofraw = TRUE /\ a.eof = (k.eof \/ (k.utf8 = <<>> /\ k.raw = <<>>))
    BY MarksEof
  <2> HIDE DEF s, a
  <2>4. /\ Sized(s.k) /\ Like(s.k, a) /\ s.k.torn = k.torn
        /\ s.k.eofraw = TRUE /\ s.k.eof = (k.eof \/ (k.utf8 = <<>> /\ k.raw = <<>>))
        /\ Halves = {} => s.k.utf8 \o s.k.raw = k.utf8 \o k.raw
    BY <2>2, <2>3, Converts
  <2>5. Like(s.k, k)
    BY <2>3, <2>4 DEF Like
  <2>6. KernelInv(s.k, s.io, NewHas(c, s), NewData(c, s), peer[c])
    BY <1>1, <1>2, <1>3, <1>8, <2>2, <2>5 DEF KernelInv, Fits, Like
  <2>7. Begun(c, k, s)
    BY <1>2, <2>2, <2>4, <2>5, <2>6 DEF Begun, Like
  <2>8. ASSUME Halves = {}, before PROVE after
    <3>1. Bytes(got[c], k.utf8, k.raw, <<>>, <<>>)
            = Bytes(got[c], s.k.utf8, s.k.raw, <<>>, <<>>)
      <4>1. s.k.utf8 \in Data /\ s.k.raw \in Data /\ <<>> \in Data
        BY <2>4, Empty DEF Sized, Connection
      <4>2. /\ {got[c], k.utf8, k.raw, <<>>, <<>>} \subseteq Data
            /\ {s.k.utf8, s.k.raw, <<>>, <<>>} \subseteq Data
        BY <1>2, <4>1
      <4>3. Cat(k.utf8, k.raw) = Cat(s.k.utf8, s.k.raw)
        BY <2>4, <2>8 DEF Cat
      <4>4. QED
        BY <4>2, <4>3, SameBytes
    <3>2. ASSUME k.handle, ~k.torn, kind[c] = "pipe", s.k.eof PROVE Len(got[c]) = sent[c]
      <4>1. CASE k.eof
        BY <2>8, <3>2, <4>1 DEF StreamInv
      <4>2. CASE k.utf8 = <<>> /\ k.raw = <<>>
        <5>1. Bytes(got[c], <<>>, <<>>, <<>>, <<>>) = FirstBytes(sent[c])
          BY <1>1, <1>8, <2>8, <3>2, <4>2 DEF StreamInv
        <5>2. QED
          BY <1>2, <5>1, AllGiven, Empty
      <4>3. QED
        BY <2>4, <3>2, <4>1, <4>2
    <3>3. QED
      BY <1>1, <1>3, <1>8, <2>2, <2>4, <2>5, <2>8, <3>1, <3>2 DEF StreamInv, Like
  <2>9. QED
    BY <2>7, <2>8
<1>9. QED
  BY <1>2, <1>5, <1>6, <1>7, <1>8

\* A read or the connection of a client is started, if none is under way.
LEMMA StartsRead ==
  ASSUME IInv, NEW c \in Con, NEW k, Sized(k),
         KernelInv(k, io[c], Has(c), InPort(c), peer[c])
  PROVE  Begun(c, k, start_read(c, k)) /\ BegunStream(c, k, start_read(c, k))
<1> DEFINE s == start_read(c, k)
<1>1. k \in Connection /\ k.handle \in BOOLEAN /\ k.pending \in BOOLEAN
  BY DEF Sized, Connection
<1>2. CASE ~k.handle \/ k.pending
  <2>1. s = Started(k, io[c], <<>>, pipe[c], "ok")
    BY <1>1, <1>2 DEF start_read
  <2>2. s.k = k /\ s.io = io[c] /\ s.packets = <<>> /\ s.rest = pipe[c] /\ s.then = "ok"
    BY <2>1, StartedIs
  <2>3. NewHas(c, s) = Has(c) /\ NewData(c, s) = InPort(c)
    BY <2>2 DEF NewHas, NewData, Has
  <2>4. pipe[c] \in Seq(1..MaxSent) /\ io[c] \in {"none", "read", "connect"}
    BY Types
  <2> HIDE DEF s
  <2>5. Begun(c, k, s) /\ BegunStream(c, k, s)
    BY <2>2, <2>3, <2>4 DEF Begun, BegunStream
  <2>6. QED
    BY <2>5 DEF s
<1>3. CASE k.handle /\ ~k.pending /\ k.state = "listen"
  <2>1. s = ConnectSocket(c, k)
    BY <1>3 DEF start_read
  <2>2. QED
    BY <1>3, <2>1, Connects
<1>4. CASE k.handle /\ ~k.pending /\ k.state # "listen"
  <2>1. s = ReadFile(c, k)
    BY <1>4 DEF start_read
  <2>2. QED
    BY <1>4, <2>1, Reads
<1>5. QED
  BY <1>1, <1>2, <1>3, <1>4

-----------------------------------------------------------------------------
(***************************************************************************)
(* The other process and the kernel.                                       *)
(***************************************************************************)
\* The bound on all connections bounds each of them.
LEMMA WrittenBound ==
  ASSUME IInv, NEW c \in Con, Cardinality(Written) < MaxSent PROVE sent[c] < MaxSent
<1>1. sent[c] \in 0..MaxSent /\ sent \in [Con -> 0..MaxSent]
  BY DEF IInv, TypeOK
<1>2. SUFFICES ASSUME sent[c] = MaxSent PROVE FALSE
  BY <1>1
<1>3. IsFiniteSet(1..MaxSent) /\ Cardinality(1..MaxSent) = MaxSent
  <2>1. 1 \in Int /\ MaxSent \in Int
    OBVIOUS
  <2>2. IsFiniteSet(1..MaxSent) /\ Cardinality(1..MaxSent) = IF 1 > MaxSent THEN 0 ELSE MaxSent - 1 + 1
    BY <2>1, FS_Interval
  <2>3. (IF 1 > MaxSent THEN 0 ELSE MaxSent - 1 + 1) = MaxSent
    OBVIOUS
  <2>4. QED
    BY <2>2, <2>3
<1>4. IsFiniteSet({c}) /\ Cardinality({c}) = 1
  BY FS_Singleton
<1>5. /\ IsFiniteSet({c} \X (1..MaxSent))
      /\ Cardinality({c} \X (1..MaxSent)) = 1 * MaxSent
  BY <1>3, <1>4, FS_Product
<1>6. IsFiniteSet(Con \X (1..MaxSent))
  BY <1>3, FS_Product
<1>7. IsFiniteSet(Written)
  BY <1>6, FS_Subset DEF Written
<1>8. {c} \X (1..MaxSent) \subseteq Written
  BY <1>2 DEF Written
<1>9. Cardinality({c} \X (1..MaxSent)) <= Cardinality(Written)
  BY <1>7, <1>8, FS_Subset
<1>10. Cardinality(Written) \in Nat
  BY <1>7, FS_CardinalityType
<1>11. QED
  BY <1>5, <1>9, <1>10

\* One more byte is written.
LEMMA WritesByte ==
  ASSUME NEW g, NEW u, NEW r, NEW d, NEW p, {g, u, r, d, p} \subseteq Data,
         NEW n \in Nat, n + 1 <= MaxSent, Bytes(g, u, r, d, p) = FirstBytes(n)
  PROVE  Bytes(g, u, r, d, Append(p, n + 1)) = FirstBytes(n + 1)
<1> DEFINE x == g \o u \o r \o d
           e == n + 1
           f == FirstBytes(n)
<1>1. p \in Data /\ e \in 0..MaxSent /\ <<e>> \in Data
  BY DEF Data
<1>2. x \in Data
  <2>1. g \o u \in Data
    BY Join
  <2>2. (g \o u) \o r \in Data
    BY <2>1, Join
  <2>3. QED
    BY <2>2, Join
<1>3. Bytes(g, u, r, d, Append(p, e)) = x \o Append(p, e) /\ x \o p = f
  BY DEF Bytes
<1> HIDE DEF x, e
<1>4. Append(p, e) = p \o <<e>>
  BY <1>1, AppendIsConcat DEF Data
<1>5. x \o (p \o <<e>>) = (x \o p) \o <<e>>
  BY <1>1, <1>2, Brackets
<1>6. f \o <<e>> = FirstBytes(e)
  <2>1. f \in Seq(Nat) /\ Len(f) = n /\ \A i \in 1..n : f[i] = i
    BY DEF FirstBytes
  <2>2. FirstBytes(e) \in Seq(Nat) /\ Len(FirstBytes(e)) = e /\ \A i \in 1..e : FirstBytes(e)[i] = i
    BY DEF FirstBytes, e
  <2> HIDE DEF f
  <2>3. <<e>> \in Seq(Nat) /\ Len(<<e>>) = 1 /\ <<e>>[1] = e
    BY DEF e
  <2>4. /\ f \o <<e>> \in Seq(Nat) /\ Len(f \o <<e>>) = n + 1
        /\ \A i \in 1..(n + 1) : (f \o <<e>>)[i] = IF i <= n THEN f[i] ELSE <<e>>[i - n]
    BY <2>1, <2>3, ConcatProperties
  <2>5. \A i \in 1..(n + 1) : (f \o <<e>>)[i] = i
    BY <2>1, <2>3, <2>4 DEF e
  <2>6. QED
    BY <2>2, <2>4, <2>5, SeqEqual DEF e
<1>7. QED
  BY <1>3, <1>4, <1>5, <1>6 DEF e

\* A step that does not change the port.
LEMMA SamePort ==
  ASSUME UNCHANGED port, One
  PROVE  One' /\ \A d : UNCHANGED <<Has(d), InPort(d)>>
  BY DEF One, Has, InPort, Packets

\* The other process opens or closes its end.
LEMMA PeerStep1 ==
  ASSUME IInv, NEW c \in Con, PeerConnects(c) \/ PeerCloses(c) PROVE Kept(c)
<1>1. /\ UNCHANGED <<kind, con, io, port, pipe, sent, got, pc, call>>
      /\ peer[c] \in {"absent", "open"} /\ \E e \in {"open", "closed"} :
           /\ peer' = [peer EXCEPT ![c] = e]
           /\ peer[c] = "open" => e = "closed"
  BY DEF PeerConnects, PeerCloses
<1>2. PICK e \in {"open", "closed"} :
           peer' = [peer EXCEPT ![c] = e] /\ (peer[c] = "open" => e = "closed")
  BY <1>1
<1>3. One' /\ \A d : UNCHANGED <<Has(d), InPort(d)>>
  BY <1>1, SamePort DEF IInv
<1>4. peer \in [Con -> {"absent", "open", "closed"}]
  BY DEF IInv, TypeOK
<1>5. TypeOK' /\ CtlInv'
  <2>1. TypeOK'
    BY <1>1, <1>2, <1>4 DEF IInv, TypeOK
  <2>2. CtlInv'
    BY <1>1, <1>3 DEF IInv, CtlInv
  <2>3. QED
    BY <2>1, <2>2
<1>6. peer'[c] = e /\ \A d \in Con \ {c} : peer'[d] = peer[d]
  BY <1>2, <1>4
<1>7. Others(c)
  BY <1>1, <1>3, <1>6 DEF Others
<1>8. Kernel(c)'
  <2>1. Kernel(c)
    BY DEF IInv
  <2>2. QED
    BY <1>1, <1>2, <1>3, <1>6, <2>1 DEF Kernel, KernelInv
<1>9. Stream(c) => Stream(c)'
  BY <1>1, <1>2, <1>3, <1>6 DEF Stream, StreamInv
<1>10. QED
  BY <1>1, <1>3, <1>5, <1>7, <1>8, <1>9 DEF Kept

\* The other process writes.
LEMMA PeerWritesStep == ASSUME IInv, NEW c \in Con, PeerWrites(c) PROVE Kept(c)
<1>1. /\ UNCHANGED <<kind, con, io, port, peer, got, pc, call>>
      /\ peer[c] = "open" /\ Cardinality(Written) < MaxSent
      /\ sent' = [sent EXCEPT ![c] = sent[c] + 1]
      /\ pipe' = [pipe EXCEPT ![c] = Append(pipe[c], sent[c] + 1)]
  BY DEF PeerWrites
<1>2. One' /\ \A d : UNCHANGED <<Has(d), InPort(d)>>
  BY <1>1, SamePort DEF IInv
<1>3. sent \in [Con -> 0..MaxSent] /\ pipe \in [Con -> Seq(1..MaxSent)] /\ sent[c] < MaxSent
  BY <1>1, WrittenBound DEF IInv, TypeOK
<1>4. /\ sent[c] \in Nat /\ sent[c] + 1 \in 1..MaxSent /\ sent[c] + 1 \in 0..MaxSent
      /\ Append(pipe[c], sent[c] + 1) \in Seq(1..MaxSent)
  <2>1. sent[c] \in Nat /\ sent[c] + 1 \in 1..MaxSent /\ sent[c] + 1 \in 0..MaxSent
    BY <1>3
  <2>2. QED
    BY <1>3, <2>1, AppendProperties
<1>5. /\ sent' \in [Con -> 0..MaxSent] /\ pipe' \in [Con -> Seq(1..MaxSent)]
      /\ sent'[c] = sent[c] + 1 /\ pipe'[c] = Append(pipe[c], sent[c] + 1)
      /\ \A d \in Con \ {c} : sent'[d] = sent[d] /\ pipe'[d] = pipe[d]
  BY <1>1, <1>3, <1>4
<1>6. TypeOK'
  BY <1>1, <1>5 DEF IInv, TypeOK
<1>7. CtlInv'
  BY <1>1, <1>2 DEF IInv, CtlInv
<1>8. Others(c)
  BY <1>1, <1>2, <1>5 DEF Others
<1>9. Kernel(c)'
  BY <1>1, <1>2 DEF IInv, Kernel
<1>10. ASSUME Stream(c) PROVE Stream(c)'
  <2> DEFINE k == con[c]
  <2>1. {got[c], k.utf8, k.raw, InPort(c), pipe[c]} \subseteq Data
    <3>1. k \in Connection /\ InPort(c) \in Data /\ pipe[c] \in Data /\ got[c] \in Data
      BY Types
    <3>2. QED
      BY <3>1 DEF Connection
  <2>2. ASSUME Bytes(got[c], k.utf8, k.raw, InPort(c), pipe[c]) = FirstBytes(sent[c])
        PROVE  Bytes(got[c], k.utf8, k.raw, InPort(c), pipe'[c]) = FirstBytes(sent'[c])
    <3>1. sent[c] + 1 <= MaxSent
      BY <1>4
    <3>2. QED
      BY <1>4, <1>5, <2>1, <2>2, <3>1, WritesByte
  <2>3. QED
    BY <1>1, <1>2, <1>10, <2>2 DEF Stream, StreamInv
<1>11. QED
  BY <1>1, <1>2, <1>6, <1>7, <1>8, <1>9, <1>10 DEF Kept

\* The kernel completes an operation.
LEMMA KernelStep == ASSUME IInv, NEW c \in Con, KernelCompletes(c) PROVE Kept(c)
<1> DEFINE k == con[c]
<1>0. /\ Sized(k) /\ k \in Connection /\ PortType /\ One /\ pipe[c] \in Data /\ got[c] \in Data
      /\ pipe[c] \in Seq(1..MaxSent)
      /\ k.off \in Nat /\ k.utf8 \in Data /\ k.raw \in Data /\ Kernel(c)
  <2>1. k \in Connection
    BY Types
  <2>2. QED
    BY <2>1, Types DEF IInv, Connection
<1>1. /\ io[c] # "none" /\ ~Has(c) /\ InPort(c) = <<>> /\ k.pending /\ k.mem # "freed"
      /\ k.handle
  <2>1. io[c] # "none"
    BY DEF KernelCompletes
  <2>2. QED
    BY <1>0, <2>1, NoPacket DEF Kernel, KernelInv
<1>2. /\ UNCHANGED <<kind, con, peer, sent, got, pc, call>>
      /\ io' = [io EXCEPT ![c] = "none"]
  BY DEF KernelCompletes
<1>3. PICK x \in Data, p \in Seq(1..MaxSent) :
        /\ Len(x) <= RawSize /\ port' = Append(port, [con |-> c, data |-> x])
        /\ pipe' = [pipe EXCEPT ![c] = p] /\ x \o p = pipe[c]
        /\ Fits(k, x)
        /\ io[c] = "read" =>
             /\ peer[c] # "absent"
             /\ k.off < RawSize /\ x = <<>> => peer[c] = "closed" /\ p = <<>>
        /\ io[c] # "read" => x = <<>> /\ peer[c] # "absent" /\ io[c] = "connect"
  <2>1. CASE io[c] = "read"
    <3>1. k.off \in 0..RawSize /\ Len(k.raw) <= k.off /\ peer[c] # "absent"
      BY <1>0, <1>1, <2>1 DEF Kernel, KernelInv
    <3> DEFINE x == Readable(c, k.off)
               p == Rest(c, k.off)
    <3>2. /\ x \in Data /\ Len(x) <= RawSize - k.off /\ p \in Seq(1..MaxSent) /\ x \o p = pipe[c]
          /\ pipe[c] # <<>> /\ k.off < RawSize => x # <<>>
          /\ pipe[c] = <<>> => x = <<>> /\ p = <<>>
      BY <3>1, ReadableIs
    <3>3. /\ pipe[c] # <<>> \/ peer[c] = "closed"
          /\ port' = Append(port, [con |-> c, data |-> x])
          /\ pipe' = [pipe EXCEPT ![c] = p]
      BY <2>1 DEF KernelCompletes
    <3> HIDE DEF x, p
    <3>4. Len(x) \in Nat /\ Len(x) <= RawSize /\ k.off + Len(x) <= RawSize
      BY <1>0, <3>1, <3>2, Empty
    <3>5. Fits(k, x)
      BY <3>1, <3>4 DEF Fits
    <3>6. QED
      BY <2>1, <3>1, <3>2, <3>3, <3>4, <3>5
  <2>2. CASE io[c] # "read"
    <3>1. /\ port' = Append(port, [con |-> c, data |-> <<>>]) /\ pipe' = pipe
          /\ peer[c] # "absent" /\ io[c] = "connect"
      BY <2>2 DEF KernelCompletes
    <3>2. pipe' = [pipe EXCEPT ![c] = pipe[c]]
      BY <3>1 DEF IInv, TypeOK
    <3>3. <<>> \in Data /\ Len(<<>>) <= RawSize /\ <<>> \o pipe[c] = pipe[c] /\ Fits(k, <<>>)
      BY <1>0, Empty DEF Fits
    <3>4. QED
      BY <1>0, <2>2, <3>1, <3>2, <3>3
  <2>3. QED
    BY <2>1, <2>2
<1> DEFINE pack == [con |-> c, data |-> x]
<1>4. pack \in Packet \cup {Wake} /\ pack.con = c /\ pack.data = x
  BY DEF Packet
<1> HIDE DEF pack
<1>5. /\ PortType' /\ One' /\ \A d \in Con : d # c => PortSame(d)
      /\ Has(c)' /\ InPort(c)' = x
  <2>1. port' = Append(port, pack)
    BY <1>3 DEF pack
  <2>2. Len(pack.data) <= RawSize /\ (pack.con \in Con => ~Has(pack.con))
    BY <1>1, <1>3, <1>4
  <2>3. /\ PortType' /\ One' /\ \A d \in Con : d # pack.con => PortSame(d)
        /\ pack.con \in Con => Has(pack.con)' /\ InPort(pack.con)' = pack.data
    BY <1>0, <1>4, <2>1, <2>2, Queued
  <2>4. QED
    BY <1>4, <2>3
<1>6. /\ io' \in [Con -> {"none", "read", "connect"}] /\ pipe' \in [Con -> Seq(1..MaxSent)]
      /\ io'[c] = "none" /\ pipe'[c] = p
      /\ \A d \in Con \ {c} : io'[d] = io[d] /\ pipe'[d] = pipe[d]
  BY <1>2, <1>3 DEF IInv, TypeOK
<1>7. TypeOK'
  BY <1>2, <1>5, <1>6 DEF IInv, TypeOK, PortType
<1>8. Others(c)
  BY <1>2, <1>5, <1>6 DEF Others, PortSame
<1>9. CtlInv'
  <2>1. SUFFICES ASSUME pc = "connect" PROVE CtlInv'
    BY <1>2 DEF CtlInv
  <2> DEFINE b == call.con
  <2>2. b \in Con /\ io[b] = "none"
    BY <2>1 DEF IInv, CtlInv
  <2>3. b # c
    BY <1>1, <2>2
  <2>4. io'[b] = io[b] /\ \A d \in Con : d # c => Has(d)' = Has(d)
    BY <1>5, <1>6, <2>2, <2>3 DEF PortSame
  <2>5. PICK d \in Con : d = b
    BY <2>2
  <2>6. Has(d)' = Has(d)
    BY <2>3, <2>4, <2>5
  <2>7. QED
    BY <1>2, <2>2, <2>3, <2>4, <2>5, <2>6 DEF IInv, CtlInv
<1>10. Kernel(c)'
  BY <1>0, <1>1, <1>2, <1>3, <1>5, <1>6 DEF Kernel, KernelInv
<1>11. ASSUME Stream(c) PROVE Stream(c)'
  <2>1. Bytes(got[c], k.utf8, k.raw, <<>>, pipe[c]) = Bytes(got[c], k.utf8, k.raw, x, p)
    <3>1. /\ {got[c], k.utf8, k.raw, <<>>, pipe[c]} \subseteq Data
          /\ {k.utf8, k.raw, x, p} \subseteq Data
      BY <1>0, PipeData, Empty
    <3>2. Cat(<<>>, pipe[c]) = Cat(x, p)
      BY <1>0, <1>3, Empty DEF Cat
    <3>3. QED
      BY <3>1, <3>2, SameBytes
  <2>2. ASSUME k.handle, ~k.torn, kind[c] = "pipe" PROVE io[c] = "read"
    BY <1>3, <1>11, <2>2 DEF Stream, StreamInv
  <2>3. ASSUME k.eofraw, k.handle, ~k.torn, kind[c] = "pipe" PROVE x = <<>> /\ p = <<>>
    <3>1. pipe[c] = <<>>
      BY <1>11, <2>3 DEF Stream, StreamInv
    <3>2. x \in Data /\ p \in Data /\ x \o p = <<>>
      BY <1>3, <3>1, PipeData
    <3>3. Len(x) + Len(p) = 0 /\ Len(x) \in Nat /\ Len(p) \in Nat
      BY <3>2, Join, Empty
    <3>4. Len(x) = 0 /\ Len(p) = 0
      BY <3>3
    <3>5. QED
      BY <3>2, <3>4, Empty
  <2>4. QED
    BY <1>1, <1>2, <1>3, <1>5, <1>6, <1>11, <2>1, <2>2, <2>3 DEF Stream, StreamInv
<1>12. QED
  BY <1>2, <1>5, <1>7, <1>8, <1>9, <1>10, <1>11 DEF Kept

-----------------------------------------------------------------------------
(***************************************************************************)
(* poll() before it waits.                                                 *)
(***************************************************************************)
\* The conversions of pre_poll keep the invariant.
LEMMA ShiftKeeps ==
  ASSUME NEW k, Sized(k), NEW j, Shifted(j, k),
         NEW o, NEW has \in BOOLEAN, NEW d \in Data, NEW pr, KernelInv(k, o, has, d, pr),
         d # <<>> => has, NEW kd, NEW p \in Data, NEW s, NEW g \in Data
  PROVE  /\ KernelInv(j, o, has, d, pr)
         /\ Halves = {} /\ StreamInv(kd, k, o, has, d, p, pr, s, g)
            => StreamInv(kd, j, o, has, d, p, pr, s, g)
<1>1. /\ k.raw \in Data /\ k.utf8 \in Data /\ j.raw \in Data /\ j.utf8 \in Data
      /\ Len(k.raw) \in Nat /\ Len(j.raw) \in Nat /\ k.off \in Nat
  <2>1. /\ k.raw \in Data /\ k.utf8 \in Data /\ j.raw \in Data /\ j.utf8 \in Data
        /\ k.off \in Nat
    BY DEF Shifted, Sized, Connection
  <2>2. QED
    BY <2>1, Empty
<1>2. KernelInv(j, o, has, d, pr)
  BY <1>1 DEF KernelInv, Shifted, Like, Fits
<1>3. ASSUME Halves = {}, StreamInv(kd, k, o, has, d, p, pr, s, g)
      PROVE  StreamInv(kd, j, o, has, d, p, pr, s, g)
  <2>1. Bytes(g, k.utf8, k.raw, d, p) = Bytes(g, j.utf8, j.raw, d, p)
    <3>1. {g, k.utf8, k.raw, d, p} \subseteq Data /\ {j.utf8, j.raw, d, p} \subseteq Data
      BY <1>1
    <3>2. Cat(k.utf8, k.raw) = Cat(j.utf8, j.raw)
      BY <1>3 DEF Shifted, Cat
    <3>3. QED
      BY <3>1, <3>2, SameBytes
  <2>2. o = "read" \/ d # <<>> => k.pending
    BY DEF KernelInv
  <2>3. o = "read" \/ d # <<>> => j.torn \/ (j.raw = k.raw /\ j.utf8 = k.utf8)
    BY <1>3, <2>2 DEF Shifted
  <2>4. QED
    BY <1>3, <2>1, <2>3 DEF Shifted, Like, StreamInv
<1>4. QED
  BY <1>2, <1>3

\* What a start_read has changed.
LEMMA EffectDoes ==
  ASSUME IInv, NEW c \in Con, NEW k, NEW s, Begun(c, k, s), NEW j, Sized(j),
         con' = [con EXCEPT ![c] = j], io' = [io EXCEPT ![c] = s.io],
         port' = port \o s.packets, pipe' = [pipe EXCEPT ![c] = s.rest],
         UNCHANGED <<kind, peer, sent, got>>,
         pc' \in {"idle", "pre", "connect", "wait", "get"}, call' \in Call
  PROVE  /\ TypeOK' /\ One' /\ Others(c) /\ con'[c] = j /\ io'[c] = s.io /\ pipe'[c] = s.rest
         /\ Has(c)' = NewHas(c, s) /\ InPort(c)' = NewData(c, s)
<1>0. PortType /\ One
  BY Types DEF IInv
<1>1. /\ PortType' /\ One' /\ \A d \in Con : d # c => PortSame(d)
      /\ Has(c)' = NewHas(c, s) /\ InPort(c)' = NewData(c, s)
  <2>1. CASE s.packets = <<>>
    <3>1. port' = port
      BY <1>0, <2>1, ConcatEmptySeq DEF PortType
    <3>2. One' /\ \A d : UNCHANGED <<Has(d), InPort(d)>>
      BY <1>0, <3>1, SamePort
    <3>3. PortType'
      BY <1>0, <3>1 DEF PortType
    <3>4. NewHas(c, s) = Has(c) /\ NewData(c, s) = InPort(c)
      BY <2>1 DEF NewHas, NewData, Has
    <3>5. QED
      BY <3>2, <3>3, <3>4 DEF PortSame
  <2>2. CASE s.packets # <<>>
    <3>1. ~Has(c)
      BY <2>2 DEF Begun
    <3>2. PICK x \in Data : Len(x) <= RawSize /\ s.packets = <<[con |-> c, data |-> x]>>
      BY <2>2 DEF Begun
    <3> DEFINE pack == [con |-> c, data |-> x]
    <3>3. pack \in Packet \cup {Wake} /\ pack.con = c /\ pack.data = x
      BY DEF Packet
    <3>4. s.packets = <<pack>> /\ s.packets[1] = pack
      BY <3>2
    <3> HIDE DEF pack
    <3>5. port' = Append(port, pack)
      <4>1. Append(port, pack) = port \o <<pack>>
        BY <1>0, <3>3, AppendIsConcat DEF PortType
      <4>2. QED
        BY <3>4, <4>1
    <3>6. Len(pack.data) <= RawSize /\ (pack.con \in Con => ~Has(pack.con))
      BY <3>1, <3>2, <3>3
    <3>7. /\ PortType' /\ One' /\ \A d \in Con : d # pack.con => PortSame(d)
          /\ pack.con \in Con => Has(pack.con)' /\ InPort(pack.con)' = pack.data
      BY <1>0, <3>3, <3>5, <3>6, Queued
    <3>8. NewHas(c, s) = TRUE /\ NewData(c, s) = x
      BY <2>2, <3>3, <3>4 DEF NewHas, NewData
    <3>9. Has(c)' /\ InPort(c)' = x
      BY <3>3, <3>7
    <3>10. Has(c)' = TRUE
      BY <3>9 DEF Has
    <3>11. QED
      BY <3>3, <3>7, <3>8, <3>9, <3>10
  <2>3. QED
    BY <2>1, <2>2
<1>2. /\ con' \in [Con -> Connection] /\ con'[c] = j
      /\ \A d \in Con \ {c} : con'[d] = con[d]
  BY DEF IInv, TypeOK, Sized
<1>3. \A d \in Con : Len(con'[d].raw) <= RawSize /\ Len(con'[d].utf8) <= Utf8Size
  <2>1. ASSUME NEW d \in Con PROVE Len(con'[d].raw) <= RawSize /\ Len(con'[d].utf8) <= Utf8Size
    <3>1. Sized(con[d])
      BY Types
    <3>2. con'[d] = j \/ con'[d] = con[d]
      BY <1>2
    <3>3. QED
      BY <3>1, <3>2 DEF Sized
  <2>2. QED
    BY <2>1
<1>4. /\ io' \in [Con -> {"none", "read", "connect"}] /\ pipe' \in [Con -> Seq(1..MaxSent)]
      /\ io'[c] = s.io /\ pipe'[c] = s.rest
      /\ \A d \in Con \ {c} : io'[d] = io[d] /\ pipe'[d] = pipe[d]
  BY DEF IInv, TypeOK, Begun
<1>5. TypeOK'
  BY <1>1, <1>2, <1>3, <1>4 DEF IInv, TypeOK, PortType
<1>6. Others(c)
  BY <1>1, <1>2, <1>4 DEF Others, PortSame
<1>7. QED
  BY <1>1, <1>2, <1>4, <1>5, <1>6

\* The connection of a packet that was just queued.
LEMMA NewDataIs ==
  ASSUME IInv, NEW c \in Con, NEW k, NEW s, Begun(c, k, s)
  PROVE  NewHas(c, s) \in BOOLEAN /\ NewData(c, s) \in Data /\ (NewData(c, s) # <<>> => NewHas(c, s))
<1>1. CASE s.packets = <<>>
  <2>1. InPort(c) \in Data /\ (InPort(c) # <<>> => Has(c))
    BY Types, NoPacket
  <2>2. QED
    BY <1>1, <2>1 DEF NewHas, NewData
<1>2. CASE s.packets # <<>>
  <2>1. PICK x \in Data : Len(x) <= RawSize /\ s.packets = <<[con |-> c, data |-> x]>>
    BY <1>2 DEF Begun
  <2>2. NewData(c, s) = x /\ NewHas(c, s) = TRUE
    BY <1>2, <2>1 DEF NewHas, NewData
  <2>3. QED
    BY <2>2
<1>3. QED
  BY <1>1, <1>2

\* A result is a record.
LEMMA IsStarted ==
  ASSUME IInv, NEW c \in Con, NEW k, Sized(k)
  PROVE  DOMAIN start_read(c, k) = {"k", "io", "packets", "rest", "then"}
<1>1. k.handle \in BOOLEAN /\ k.pending \in BOOLEAN /\ peer[c] \in {"absent", "open", "closed"}
  BY Types DEF Sized, Connection
<1>2. \A a, i, b, d, t : DOMAIN Started(a, i, b, d, t) = {"k", "io", "packets", "rest", "then"}
  BY DEF Started
<1>3. CASE ~k.handle \/ k.pending
  BY <1>1, <1>2, <1>3 DEF start_read
<1>4. CASE k.handle /\ ~k.pending /\ k.state = "listen"
  <2>1. start_read(c, k) = ConnectSocket(c, k)
    BY <1>4 DEF start_read
  <2>2. QED
    BY <1>1, <1>2, <2>1 DEF ConnectSocket
<1>5. CASE k.handle /\ ~k.pending /\ k.state # "listen"
  <2>1. start_read(c, k) = ReadFile(c, k)
    BY <1>5 DEF start_read
  <2>2. CASE peer[c] = "absent"
    BY <1>2, <2>1, <2>2 DEF ReadFile
  <2>3. CASE peer[c] # "absent" /\ pipe[c] # <<>>
    BY <1>2, <2>1, <2>3 DEF ReadFile
  <2>4. CASE peer[c] = "open" /\ pipe[c] = <<>>
    BY <1>2, <2>1, <2>4 DEF ReadFile
  <2>5. CASE peer[c] = "closed" /\ pipe[c] = <<>>
    BY <1>2, <2>1, <2>5 DEF ReadFile
  <2>6. QED
    BY <1>1, <2>2, <2>3, <2>4, <2>5
<1>6. QED
  BY <1>1, <1>3, <1>4, <1>5

\* pre_poll for a connection.
LEMMA PrePollStep == ASSUME IInv, NEW c \in Con, PrePoll(c) PROVE Kept(c)
<1>1. PICK k : k = con[c]
  OBVIOUS
<1>2. PICK p \in {PreReady(con[c])} : \E s \in {start_read(c, p.k)} : \E q \in {PreReady(s.k)} :
          \/ /\ p.ev # "handle"
             /\ con' = [con EXCEPT ![c] = p.k]
             /\ Known(c, p.ev)
             /\ UNCHANGED <<io, port, pipe>>
          \/ /\ p.ev = "handle" /\ s.then = "ok"
             /\ Effect(c, [s EXCEPT !.k = q.k])
             /\ Known(c, q.ev)
          \/ /\ p.ev = "handle" /\ s.then = "connect"
             /\ Effect(c, s)
             /\ pc' = "connect" /\ call' = [call EXCEPT !.con = c]
          \/ /\ p.ev = "handle" /\ s.then = "throw"
             /\ Effect(c, s) /\ Return
  BY DEF PrePoll
<1>3. PICK s \in {start_read(c, p.k)} : \E q \in {PreReady(s.k)} :
          \/ /\ p.ev # "handle"
             /\ con' = [con EXCEPT ![c] = p.k]
             /\ Known(c, p.ev)
             /\ UNCHANGED <<io, port, pipe>>
          \/ /\ p.ev = "handle" /\ s.then = "ok"
             /\ Effect(c, [s EXCEPT !.k = q.k])
             /\ Known(c, q.ev)
          \/ /\ p.ev = "handle" /\ s.then = "connect"
             /\ Effect(c, s)
             /\ pc' = "connect" /\ call' = [call EXCEPT !.con = c]
          \/ /\ p.ev = "handle" /\ s.then = "throw"
             /\ Effect(c, s) /\ Return
  BY <1>2
<1>4. PICK q \in {PreReady(s.k)} :
          \/ /\ p.ev # "handle"
             /\ con' = [con EXCEPT ![c] = p.k]
             /\ Known(c, p.ev)
             /\ UNCHANGED <<io, port, pipe>>
          \/ /\ p.ev = "handle" /\ s.then = "ok"
             /\ Effect(c, [s EXCEPT !.k = q.k])
             /\ Known(c, q.ev)
          \/ /\ p.ev = "handle" /\ s.then = "connect"
             /\ Effect(c, s)
             /\ pc' = "connect" /\ call' = [call EXCEPT !.con = c]
          \/ /\ p.ev = "handle" /\ s.then = "throw"
             /\ Effect(c, s) /\ Return
  BY <1>3
<1>5. UNCHANGED <<kind, peer, sent, got>> /\ pc = "pre"
  BY DEF PrePoll
<1>6. /\ Sized(k) /\ k \in Connection /\ InPort(c) \in Data /\ pipe[c] \in Data /\ got[c] \in Data
      /\ KernelInv(k, io[c], Has(c), InPort(c), peer[c]) /\ call \in Call
      /\ (InPort(c) # <<>> => Has(c)) /\ Has(c) \in BOOLEAN
  <2>1. Kernel(c)
    BY DEF IInv
  <2>2. QED
    BY <1>1, <2>1, Types, NoPacket DEF Kernel, Has
<1> DEFINE before(x) == StreamInv(kind[c], x, io[c], Has(c), InPort(c), pipe[c], peer[c],
                                  sent[c], got[c])
           after(x) == StreamInv(kind[c], x, s.io, NewHas(c, s), NewData(c, s), s.rest, peer[c],
                                 sent[c], got[c])
<1>7. /\ Shifted(p.k, k) /\ Sized(p.k) /\ p.ev \in Event
      /\ p.ev = "handle" => p.k.utf8 = <<>> /\ (Halves = {} => p.k.raw = <<>>)
  BY <1>1, <1>2, <1>6, Readies DEF Shifted
<1>8. /\ KernelInv(p.k, io[c], Has(c), InPort(c), peer[c])
      /\ Halves = {} /\ before(k) => before(p.k)
  BY <1>6, <1>7, ShiftKeeps
<1>9. Begun(c, p.k, s) /\ BegunStream(c, p.k, s)
  BY <1>3, <1>7, <1>8, StartsRead
<1>10. ASSUME Halves = {}, before(k), p.ev = "handle" PROVE after(s.k)
  <2>1. Len(p.k.raw) < RawSize /\ Len(p.k.utf8) < Utf8Size
    BY <1>7, <1>10, Empty
  <2>2. before(p.k)
    BY <1>8, <1>10
  <2>3. QED
    BY <1>9, <1>10, <2>1, <2>2 DEF BegunStream
<1>11. NewHas(c, s) \in BOOLEAN /\ NewData(c, s) \in Data /\ (NewData(c, s) # <<>> => NewHas(c, s))
  BY <1>9, NewDataIs
<1>12. /\ Shifted(q.k, s.k) /\ Sized(q.k) /\ q.ev \in Event /\ Sized(s.k) /\ s.rest \in Data
       /\ KernelInv(s.k, s.io, NewHas(c, s), NewData(c, s), peer[c])
  BY <1>4, <1>9, Readies, PipeData DEF Shifted, Begun
<1>13. /\ KernelInv(q.k, s.io, NewHas(c, s), NewData(c, s), peer[c])
       /\ Halves = {} /\ after(s.k) => after(q.k)
  BY <1>6, <1>11, <1>12, ShiftKeeps
<1>14. Stream(c) => before(k)
  BY <1>1 DEF Stream
<1>15. CASE /\ p.ev # "handle" /\ con' = [con EXCEPT ![c] = p.k]
            /\ Known(c, p.ev) /\ UNCHANGED <<io, port, pipe>>
  <2>1. pc' \in {"idle", "wait", "pre"} /\ call' \in Call
    BY <1>6, <1>7, <1>15, KnownCall
  <2>2. One' /\ \A d : UNCHANGED <<Has(d), InPort(d)>>
    BY <1>15, SamePort DEF IInv
  <2>3. /\ con' \in [Con -> Connection] /\ con'[c] = p.k
        /\ \A d \in Con \ {c} : con'[d] = con[d]
    BY <1>7, <1>15 DEF IInv, TypeOK, Sized
  <2>4. \A d \in Con : Len(con'[d].raw) <= RawSize /\ Len(con'[d].utf8) <= Utf8Size
    BY <1>7, <2>3 DEF Sized, IInv, TypeOK
  <2>5. TypeOK'
    BY <1>5, <1>15, <2>1, <2>3, <2>4 DEF IInv, TypeOK
  <2>6. CtlInv'
    BY <2>1 DEF CtlInv
  <2>7. Others(c)
    BY <1>5, <1>15, <2>2, <2>3 DEF Others
  <2>8. Kernel(c)'
    BY <1>5, <1>8, <1>15, <2>2, <2>3 DEF Kernel
  <2>9. Halves = {} /\ Stream(c) => Stream(c)'
    BY <1>5, <1>8, <1>14, <1>15, <2>2, <2>3 DEF Stream
  <2>10. QED
    BY <1>5, <2>2, <2>5, <2>6, <2>7, <2>8, <2>9 DEF Kept
<1>16. CASE /\ p.ev = "handle" /\ s.then = "ok" /\ Effect(c, [s EXCEPT !.k = q.k])
            /\ Known(c, q.ev)
  <2>1. pc' \in {"idle", "wait", "pre"} /\ call' \in Call
    BY <1>6, <1>12, <1>16, KnownCall
  <2>2. /\ con' = [con EXCEPT ![c] = q.k] /\ io' = [io EXCEPT ![c] = s.io]
        /\ port' = port \o s.packets /\ pipe' = [pipe EXCEPT ![c] = s.rest]
    <3>1. DOMAIN s = {"k", "io", "packets", "rest", "then"}
      BY <1>3, <1>7, IsStarted
    <3>2. /\ [s EXCEPT !.k = q.k].k = q.k /\ [s EXCEPT !.k = q.k].io = s.io
          /\ [s EXCEPT !.k = q.k].packets = s.packets /\ [s EXCEPT !.k = q.k].rest = s.rest
      BY <3>1
    <3>3. QED
      BY <1>16, <3>2 DEF Effect
  <2>3. /\ TypeOK' /\ One' /\ Others(c) /\ con'[c] = q.k /\ io'[c] = s.io /\ pipe'[c] = s.rest
        /\ Has(c)' = NewHas(c, s) /\ InPort(c)' = NewData(c, s)
    BY <1>5, <1>9, <1>12, <2>1, <2>2, EffectDoes
  <2>4. CtlInv'
    BY <2>1 DEF CtlInv
  <2>5. Kernel(c)'
    BY <1>5, <1>13, <2>3 DEF Kernel
  <2>6. Halves = {} /\ Stream(c) => Stream(c)'
    BY <1>5, <1>10, <1>13, <1>14, <1>16, <2>3 DEF Stream
  <2>7. QED
    BY <1>5, <2>3, <2>4, <2>5, <2>6 DEF Kept
<1>17. CASE p.ev = "handle" /\ s.then \in {"connect", "throw"} /\ Effect(c, s)
            /\ \/ s.then = "connect" /\ pc' = "connect" /\ call' = [call EXCEPT !.con = c]
               \/ Return
  <2>1. pc' \in {"idle", "connect"} /\ call' \in Call
        /\ (pc' = "connect" => s.then = "connect" /\ call'.con = c)
    <3>1. NoCall \in Call
      BY DEF NoCall, Call, Event
    <3>2. [call EXCEPT !.con = c] \in Call /\ [call EXCEPT !.con = c].con = c
      BY <1>6 DEF Call
    <3>3. QED
      BY <1>17, <3>1, <3>2 DEF Return
  <2>2. /\ con' = [con EXCEPT ![c] = s.k] /\ io' = [io EXCEPT ![c] = s.io]
        /\ port' = port \o s.packets /\ pipe' = [pipe EXCEPT ![c] = s.rest]
    BY <1>17 DEF Effect
  <2>3. /\ TypeOK' /\ One' /\ Others(c) /\ con'[c] = s.k /\ io'[c] = s.io /\ pipe'[c] = s.rest
        /\ Has(c)' = NewHas(c, s) /\ InPort(c)' = NewData(c, s)
    <3>1. pc' \in {"idle", "pre", "connect", "wait", "get"} /\ call' \in Call /\ Sized(s.k)
      BY <1>12, <2>1
    <3>2. QED
      BY <1>5, <1>9, <2>2, <3>1, EffectDoes
  <2>4. CtlInv'
    <3>1. SUFFICES ASSUME pc' = "connect" PROVE CtlInv'
      BY DEF CtlInv
    <3>2. /\ s.k.handle /\ s.k.pending /\ s.k.connecting /\ s.k.state # "listen"
          /\ s.io = "none" /\ s.packets = <<>> /\ ~Has(c)
      BY <1>9, <2>1, <3>1 DEF Begun
    <3>3. s.k.mem = "live"
      BY <1>12, <3>2 DEF KernelInv
    <3>4. ~Has(c)'
      BY <2>3, <3>2 DEF NewHas
    <3>5. call'.con = c
      BY <2>1, <3>1
    <3>6. Has(call.con)' = Has(c)'
      BY <3>5 DEF Has, Packets
    <3>7. QED
      BY <2>3, <3>2, <3>3, <3>4, <3>5, <3>6 DEF CtlInv
  <2>5. Kernel(c)'
    BY <1>5, <1>12, <2>3 DEF Kernel
  <2>6. Halves = {} /\ Stream(c) => Stream(c)'
    BY <1>5, <1>10, <1>14, <1>17, <2>3 DEF Stream
  <2>7. QED
    BY <1>5, <2>3, <2>4, <2>5, <2>6 DEF Kept
<1>18. QED
  BY <1>4, <1>15, <1>16, <1>17

\* ConnectNamedPipe() after ReadFile().
LEMMA ConnectPipeStep == ASSUME IInv, ConnectPipe PROVE \E c \in Con : Kept(c)
<1>1. /\ call.con \in Con /\ con[call.con].mem = "live" /\ con[call.con].handle
      /\ con[call.con].pending /\ con[call.con].connecting
      /\ con[call.con].state # "listen" /\ io[call.con] = "none" /\ ~Has(call.con)
  BY DEF ConnectPipe, IInv, CtlInv
<1>2. PICK c \in Con : c = call.con
  BY <1>1
<1>3. PICK o \in {"none", "connect"} : io' = [io EXCEPT ![c] = o] /\ (o = "connect" => peer[c] = "absent")
  BY <1>2 DEF ConnectPipe
<1>4. UNCHANGED <<kind, con, port, pipe, peer, sent, got>>
  BY DEF ConnectPipe
<1>5. call \in Call /\ io \in [Con -> {"none", "read", "connect"}]
  BY DEF IInv, TypeOK
<1>6. pc' \in {"idle", "wait", "pre", "get"} /\ call' \in Call
  <2>1. CASE call.op = "poll"
    <3>1. Known(c, "handle") /\ "handle" \in Event
      BY <1>2, <2>1 DEF ConnectPipe, Event
    <3>2. QED
      BY <1>5, <3>1, KnownCall
  <2>2. CASE call.op # "poll"
    BY <1>5, <2>2 DEF ConnectPipe
  <2>3. QED
    BY <2>1, <2>2
<1>7. One' /\ \A d : UNCHANGED <<Has(d), InPort(d)>>
  BY <1>4, SamePort DEF IInv
<1>8. io' \in [Con -> {"none", "read", "connect"}] /\ io'[c] = o
      /\ \A d \in Con \ {c} : io'[d] = io[d]
  BY <1>3, <1>5
<1>9. TypeOK' /\ CtlInv'
  BY <1>4, <1>6, <1>8 DEF IInv, TypeOK, CtlInv
<1>10. Others(c)
  BY <1>4, <1>7, <1>8 DEF Others
<1>11. Kernel(c)'
  <2>1. Kernel(c)
    BY DEF IInv
  <2>2. QED
    BY <1>1, <1>2, <1>3, <1>4, <1>7, <1>8, <2>1 DEF Kernel, KernelInv
<1>12. Stream(c) => Stream(c)'
  BY <1>1, <1>2, <1>3, <1>4, <1>7, <1>8 DEF Stream, StreamInv
<1>13. QED
  BY <1>4, <1>7, <1>9, <1>10, <1>11, <1>12 DEF Kept

\* A step of poll() or of a read that does nothing to connections.
LEMMA QuietStep ==
  ASSUME IInv, UNCHANGED <<kind, con, io, pipe, peer, sent, got>>, PortType', One',
         \A d \in Con : PortSame(d), pc' \in {"idle", "pre", "wait", "get"}, call' \in Call
  PROVE  IInv' /\ \A d \in Con : Stream(d) => Stream(d)'
<1>1. TypeOK'
  BY DEF IInv, TypeOK, PortType
<1>2. CtlInv'
  BY DEF CtlInv
<1>3. QED
  BY <1>1, <1>2, KeptNone

\* poll() is called, and poll() and reads that find no completion.
LEMMA IdleSteps ==
  ASSUME IInv,
         \/ \E cs \in SUBSET Con, forever, curl \in BOOLEAN : PollBegins(cs, forever, curl)
         \/ PollTimeout \/ PollSelect \/ ReadEnds
  PROVE  IInv' /\ \A d \in Con : Stream(d) => Stream(d)'
<1>1. NoCall \in Call
  BY DEF NoCall, Call, Event
<1>2. PortType /\ One
  BY DEF IInv, TypeOK, PortType
<1>3. UNCHANGED <<kind, con, io, pipe, peer, sent, got>>
  BY DEF PollBegins, PollTimeout, PollSelect, ReadEnds
<1>4. PortType' /\ One' /\ \A d \in Con : PortSame(d)
  <2>1. CASE UNCHANGED port
    <3>1. One' /\ \A d : UNCHANGED <<Has(d), InPort(d)>>
      BY <1>2, <2>1, SamePort
    <3>2. QED
      BY <1>2, <2>1, <3>1 DEF PortType, PortSame
  <2>2. CASE port = <<>> /\ port' = <<Wake>>
    <3>1. /\ port' = Append(port, Wake) /\ Wake.con \notin Con /\ Len(Wake.data) <= RawSize
          /\ Wake \in Packet \cup {Wake}
      BY <2>2 DEF Wake, NoCon
    <3>2. PortType' /\ One' /\ \A d \in Con : d # Wake.con => PortSame(d)
      BY <1>2, <3>1, Queued
    <3>3. QED
      BY <3>1, <3>2
  <2>3. QED
    BY <2>1, <2>2 DEF PollBegins, PollTimeout, PollSelect, ReadEnds
<1>5. pc' \in {"idle", "pre", "wait", "get"} /\ call' \in Call
  <2>1. ASSUME NEW cs \in SUBSET Con, NEW forever \in BOOLEAN, NEW curl \in BOOLEAN,
               PollBegins(cs, forever, curl)
        PROVE  pc' \in {"idle", "pre", "wait", "get"} /\ call' \in Call
    <3> DEFINE ev == [c \in Con |-> IF c \in cs THEN "silent" ELSE "none"]
    <3>1. ev \in [Con -> Event]
      BY DEF Event
    <3>2. pc' = "pre" /\ call' = [NoCall EXCEPT !.op = "poll", !.todo = cs, !.forever = forever,
                                                !.curl = curl, !.ev = ev]
      BY <2>1 DEF PollBegins
    <3> HIDE DEF ev
    <3>3. QED
      BY <1>1, <3>1, <3>2 DEF Call
  <2>2. CASE PollTimeout \/ PollSelect \/ ReadEnds
    BY <1>1, <2>2 DEF PollTimeout, PollSelect, ReadEnds, Return
  <2>3. QED
    BY <2>1, <2>2
<1>6. QED
  BY <1>3, <1>4, <1>5, QuietStep

-----------------------------------------------------------------------------
(***************************************************************************)
(* Completions.                                                            *)
(***************************************************************************)
\* Whoever fetches a completion keeps the invariant.
LEMMA FetchKeeps ==
  ASSUME IInv, port # <<>>, NEW c \in Con, c = Head(port).con,
         port' = Tail(port) \/ port' = Append(Tail(port), Wake),
         NEW j, Took(j, con[c], Head(port).data), con' = [con EXCEPT ![c] = j],
         UNCHANGED <<kind, io, pipe, peer, sent, got>>,
         pc' \in {"idle", "wait", "get"}, call' \in Call
  PROVE  Kept(c)
<1>1. PICK k : k = con[c]
  OBVIOUS
<1>2. PICK data : data = Head(port).data
  OBVIOUS
<1>3. PortType /\ One
  BY DEF IInv, TypeOK, PortType
<1>4. /\ PortType' /\ One' /\ \A d \in Con : d # c => PortSame(d)
      /\ Has(c) /\ InPort(c) = data /\ ~Has(c)' /\ InPort(c)' = <<>>
  BY <1>2, <1>3, Fetched
<1>5. /\ Sized(k) /\ KernelInv(k, io[c], Has(c), data, peer[c]) /\ data \in Data
      /\ pipe[c] \in Data /\ got[c] \in Data /\ sent[c] \in Nat
      /\ k.raw \in Data /\ k.utf8 \in Data /\ j.raw \in Data /\ j.utf8 \in Data
      /\ io[c] \in {"none", "read", "connect"}
  <2>1. Kernel(c) /\ Sized(k) /\ Sized(j)
    BY <1>1, Types DEF Took
  <2>2. k.raw \in Data /\ k.utf8 \in Data /\ j.raw \in Data /\ j.utf8 \in Data
    BY <2>1 DEF Sized, Connection
  <2>3. InPort(c) \in Data /\ pipe[c] \in Data /\ got[c] \in Data /\ sent[c] \in 0..MaxSent
        /\ io[c] \in {"none", "read", "connect"}
    BY Types
  <2>4. QED
    BY <1>1, <1>4, <2>1, <2>2, <2>3 DEF Kernel
<1>6. Took(j, k, data) /\ Sized(j)
  BY <1>1, <1>2 DEF Took
<1>7. io[c] = "none"
  BY <1>4, <1>5 DEF KernelInv
<1>8. /\ con' \in [Con -> Connection] /\ con'[c] = j
      /\ \A d \in Con \ {c} : con'[d] = con[d]
  BY <1>6 DEF IInv, TypeOK, Sized
<1>9. \A d \in Con : Len(con'[d].raw) <= RawSize /\ Len(con'[d].utf8) <= Utf8Size
  BY <1>6, <1>8 DEF Sized, IInv, TypeOK
<1>10. TypeOK' /\ CtlInv'
  <2>1. TypeOK'
    BY <1>4, <1>8, <1>9 DEF IInv, TypeOK, PortType
  <2>2. CtlInv'
    BY DEF CtlInv
  <2>3. QED
    BY <2>1, <2>2
<1>11. Others(c)
  BY <1>4, <1>8 DEF Others, PortSame
<1>12. Kernel(c)'
  <2>1. KernelInv(j, "none", FALSE, <<>>, peer[c])
    BY <1>4, <1>5, <1>6 DEF KernelInv, Took, Fits
  <2>2. Has(c)' = FALSE
    BY <1>4 DEF Has
  <2>3. QED
    BY <1>4, <1>7, <1>8, <2>1, <2>2 DEF Kernel
<1>13. ASSUME Halves = {}, Stream(c) PROVE Stream(c)'
  <2>1. StreamInv(kind[c], k, io[c], Has(c), data, pipe[c], peer[c], sent[c], got[c])
    BY <1>1, <1>4, <1>13 DEF Stream
  <2>2. ASSUME k.handle, ~k.torn
        PROVE  /\ Cat(j.utf8, j.raw) = Cat(k.utf8, Cat(k.raw, data))
               /\ j.eofraw => k.eofraw \/ data = <<>>
               /\ j.eof => k.eof \/ (j.eofraw /\ j.utf8 = <<>> /\ j.raw = <<>>)
    <3>1. data = <<>> \/ (k.off = Len(k.raw) /\ Len(k.utf8) < Utf8Size)
      BY <2>1, <2>2 DEF StreamInv
    <3>2. QED
      BY <1>6, <1>13, <3>1 DEF Took, Cat
  <2>3. ASSUME k.handle, ~k.torn
        PROVE  Bytes(got[c], j.utf8, j.raw, <<>>, pipe[c]) = FirstBytes(sent[c])
    <3>1. {got[c], k.utf8, k.raw, data, pipe[c]} \subseteq Data /\ {j.utf8, j.raw} \subseteq Data
      BY <1>5
    <3>2. Bytes(got[c], k.utf8, k.raw, data, pipe[c]) = Bytes(got[c], j.utf8, j.raw, <<>>, pipe[c])
      BY <2>2, <2>3, <3>1, FetchedBytes
    <3>3. QED
      BY <2>1, <2>3, <3>2 DEF StreamInv
  <2>4. ASSUME k.handle, ~k.torn, kind[c] = "pipe", j.eofraw
        PROVE  peer[c] = "closed" /\ pipe[c] = <<>>
    BY <1>4, <2>1, <2>2, <2>4 DEF StreamInv
  <2>5. ASSUME k.handle, ~k.torn, kind[c] = "pipe", j.eof
        PROVE  j.eofraw /\ Len(got[c]) = sent[c]
    <3>1. CASE k.eof
      BY <1>6, <2>1, <2>5, <3>1 DEF StreamInv, Took
    <3>2. CASE j.eofraw /\ j.utf8 = <<>> /\ j.raw = <<>>
      <4>1. pipe[c] = <<>>
        BY <2>4, <2>5, <3>2
      <4>2. Bytes(got[c], <<>>, <<>>, <<>>, pipe[c]) = FirstBytes(sent[c])
        BY <2>3, <2>5, <3>2
      <4>3. QED
        BY <1>5, <3>2, <4>1, <4>2, AllGiven
    <3>3. QED
      BY <2>2, <2>5, <3>1, <3>2
  <2>6. StreamInv(kind[c], j, "none", FALSE, <<>>, pipe[c], peer[c], sent[c], got[c])
    BY <1>6, <2>1, <2>3, <2>4, <2>5 DEF StreamInv, Took
  <2>7. Has(c)' = FALSE
    BY <1>4 DEF Has
  <2>8. QED
    BY <1>4, <1>7, <1>8, <2>6, <2>7 DEF Stream
<1>14. QED
  BY <1>4, <1>10, <1>11, <1>12, <1>13 DEF Kept

\* The connection of a completion, and that there is room for its data.
LEMMA FetchedFits ==
  ASSUME IInv, port # <<>>, NEW c \in Con, c = Head(port).con
  PROVE  Sized(con[c]) /\ Head(port).data \in Data /\ Fits(con[c], Head(port).data)
<1>1. PortType /\ One
  BY DEF IInv, TypeOK, PortType
<1>2. 1 \in Packets(c) /\ Head(port) = port[1]
  BY <1>1 DEF Packets, PortType
<1>3. InPort(c) = Head(port).data
  BY <1>1, <1>2, ThePacket
<1>4. Sized(con[c]) /\ InPort(c) \in Data /\ Kernel(c)
  BY Types
<1>5. QED
  BY <1>3, <1>4 DEF Kernel, KernelInv

\* What poll() and reads leave, whoever the completion was for.
Preserved == IInv' /\ (Halves = {} /\ (\A d \in Con : Stream(d)) => \A d \in Con : Stream(d)')

\* A packet for nobody is fetched.
LEMMA WakeStep ==
  ASSUME IInv, port # <<>>, Head(port).con \notin Con,
         port' = Tail(port) \/ port' = Append(Tail(port), Wake),
         UNCHANGED <<kind, con, io, pipe, peer, sent, got>>,
         pc' \in {"idle", "wait", "get"}, call' \in Call
  PROVE  Preserved
<1>1. PICK c : c = Head(port).con
  OBVIOUS
<1>2. PortType /\ One
  BY DEF IInv, TypeOK, PortType
<1>3. PortType' /\ One' /\ \A d \in Con : d # c => PortSame(d)
  BY <1>1, <1>2, Fetched
<1>4. \A d \in Con : PortSame(d)
  BY <1>1, <1>3
<1>5. pc' \in {"idle", "pre", "wait", "get"}
  OBVIOUS
<1>6. QED
  BY <1>3, <1>4, <1>5, QuietStep DEF Preserved

\* poll() fetches a packet.
LEMMA PollPacketStep == ASSUME IInv, PollPacket PROVE Preserved
<1>1. /\ port # <<>> /\ pc = "wait" /\ UNCHANGED <<kind, io, pipe, peer, sent, got>>
      /\ port' = Tail(port) \/ port' = Append(Tail(port), Wake)
  BY DEF PollPacket
<1>2. PICK c : c = Head(port).con
  OBVIOUS
<1>3. PICK hit \in BOOLEAN : hit = (c # NoCon /\ call.ev[c] # "none")
  OBVIOUS
<1>4. /\ con' = IF c = NoCon THEN con
                ELSE [con EXCEPT ![c] = PollTakes(con[c], Head(port).data, hit)]
      /\ Return \/ UNCHANGED <<pc, call>>
  BY <1>2, <1>3 DEF PollPacket
<1>5. pc' \in {"idle", "wait", "get"} /\ call' \in Call
  <2>1. NoCall \in Call
    BY DEF NoCall, Call, Event
  <2>2. QED
    BY <1>1, <1>4, <2>1 DEF Return, IInv, TypeOK
<1>6. CASE c \in Con
  <2>1. c # NoCon
    BY <1>6 DEF NoCon
  <2>2. PICK j : j = PollTakes(con[c], Head(port).data, hit)
    OBVIOUS
  <2>3. Sized(con[c]) /\ Head(port).data \in Data /\ Fits(con[c], Head(port).data)
    BY <1>1, <1>2, <1>6, FetchedFits
  <2>4. Took(j, con[c], Head(port).data)
    BY <2>2, <2>3, PollTook
  <2>5. con' = [con EXCEPT ![c] = j]
    BY <1>4, <2>1, <2>2
  <2>6. Kept(c)
    BY <1>1, <1>2, <1>5, <1>6, <2>4, <2>5, FetchKeeps
  <2>7. QED
    BY <1>6, <2>6, KeptAll DEF Preserved
<1>7. CASE c \notin Con
  <2>1. c = NoCon
    <3>1. Head(port) \in Packet \cup {Wake}
      BY <1>1 DEF IInv, TypeOK
    <3>2. QED
      BY <1>2, <1>7, <3>1 DEF Packet, Wake
  <2>2. con' = con
    BY <1>4, <2>1
  <2>3. QED
    BY <1>1, <1>2, <1>5, <1>7, <2>2, WakeStep
<1>8. QED
  BY <1>6, <1>7

\* A read fetches a packet.
LEMMA ReadPacketStep == ASSUME IInv, ReadPacket PROVE Preserved
<1>1. /\ port # <<>> /\ pc = "get" /\ UNCHANGED <<kind, io, pipe, peer, sent, got>>
      /\ port' = Tail(port)
  BY DEF ReadPacket
<1>2. PICK c : c = Head(port).con
  OBVIOUS
<1>3. /\ c = NoCon => con' = con
      /\ c # NoCon => con' = [con EXCEPT ![c] = ReadTakes(con[c], Head(port).data)]
      /\ Return \/ UNCHANGED <<pc, call>>
  BY <1>2 DEF ReadPacket
<1>4. pc' \in {"idle", "wait", "get"} /\ call' \in Call
  <2>1. NoCall \in Call
    BY DEF NoCall, Call, Event
  <2>2. QED
    BY <1>1, <1>3, <2>1 DEF Return, IInv, TypeOK
<1>5. CASE c \in Con
  <2>1. c # NoCon
    BY <1>5 DEF NoCon
  <2>2. PICK j : j = ReadTakes(con[c], Head(port).data)
    OBVIOUS
  <2>3. Sized(con[c]) /\ Head(port).data \in Data /\ Fits(con[c], Head(port).data)
    BY <1>1, <1>2, <1>5, FetchedFits
  <2>4. Took(j, con[c], Head(port).data)
    BY <2>2, <2>3, ReadTook
  <2>5. con' = [con EXCEPT ![c] = j]
    BY <1>3, <2>1, <2>2
  <2>6. Kept(c)
    BY <1>1, <1>2, <1>4, <1>5, <2>4, <2>5, FetchKeeps
  <2>7. QED
    BY <1>5, <2>6, KeptAll DEF Preserved
<1>6. CASE c \notin Con
  <2>1. c = NoCon
    <3>1. Head(port) \in Packet \cup {Wake}
      BY <1>1 DEF IInv, TypeOK
    <3>2. QED
      BY <1>2, <1>6, <3>1 DEF Packet, Wake
  <2>2. QED
    BY <1>1, <1>2, <1>3, <1>4, <1>6, <2>1, WakeStep
<1>7. QED
  BY <1>5, <1>6

-----------------------------------------------------------------------------
(***************************************************************************)
(* Calls of R.                                                             *)
(***************************************************************************)
\* A step that only changes the record of a connection, and what R got.
LEMMA LocalStep ==
  ASSUME IInv, NEW c \in Con, NEW j, Sized(j), con' = [con EXCEPT ![c] = j],
         UNCHANGED <<kind, io, port, pipe, peer, sent>>,
         NEW g \in Data, got' = [got EXCEPT ![c] = g], pc' = "idle", call' \in Call
  PROVE  /\ TypeOK' /\ One' /\ CtlInv' /\ Others(c)
         /\ Kernel(c)' = KernelInv(j, io[c], Has(c), InPort(c), peer[c])
         /\ Stream(c)' = StreamInv(kind[c], j, io[c], Has(c), InPort(c), pipe[c], peer[c],
                                   sent[c], g)
<1>1. /\ con' \in [Con -> Connection] /\ con'[c] = j
      /\ \A d \in Con \ {c} : con'[d] = con[d]
  BY DEF IInv, TypeOK, Sized
<1>2. \A d \in Con : Len(con'[d].raw) <= RawSize /\ Len(con'[d].utf8) <= Utf8Size
  BY <1>1 DEF Sized, IInv, TypeOK
<1>3. /\ got' \in [Con -> Data] /\ got'[c] = g /\ \A d \in Con \ {c} : got'[d] = got[d]
  BY DEF IInv, TypeOK
<1>4. One' /\ \A d : UNCHANGED <<Has(d), InPort(d)>>
  BY SamePort DEF IInv
<1>5. TypeOK'
  BY <1>1, <1>2, <1>3 DEF IInv, TypeOK
<1>6. CtlInv'
  BY DEF CtlInv
<1>7. Others(c)
  BY <1>1, <1>3, <1>4 DEF Others
<1>8. QED
  BY <1>1, <1>3, <1>4, <1>5, <1>6, <1>7 DEF Kernel, Stream

\* read_chars() and read_lines() hand out data.
LEMMA TakesStep == ASSUME IInv, NEW c \in Con, NEW n, Takes(c, n) PROVE Kept(c)
<1>1. PICK k : k = con[c]
  OBVIOUS
<1> DEFINE u == SubSeq(k.utf8, 1, n)
           v == SubSeq(k.utf8, n + 1, Len(k.utf8))
           j == [k EXCEPT !.utf8 = v]
           g == got[c] \o u
<1>2. /\ Sized(k) /\ k \in Connection /\ InPort(c) \in Data /\ pipe[c] \in Data /\ got[c] \in Data
      /\ sent[c] \in Nat /\ Kernel(c) /\ call \in Call
  <2>1. sent[c] \in 0..MaxSent
    BY Types
  <2>2. QED
    BY <1>1, <2>1, Types
<1>3. k.raw \in Data /\ k.utf8 \in Data /\ Len(k.utf8) \in Nat
  BY <1>2, Empty DEF Connection
<1>4. /\ n \in 1..Len(k.utf8) /\ n \in 0..Len(k.utf8) /\ pc = "idle"
      /\ UNCHANGED <<kind, io, port, pipe, peer, sent, pc, call>>
      /\ got' = [got EXCEPT ![c] = g]
      /\ con' = [con EXCEPT ![c] = j]
  <2>1. n \in 1..Len(k.utf8) /\ n \in 0..Len(k.utf8)
    BY <1>1, <1>3 DEF Takes
  <2>2. got' = [got EXCEPT ![c] = g] /\ con' = [con EXCEPT ![c] = j]
    BY <1>1 DEF Takes
  <2>3. QED
    BY <2>1, <2>2 DEF Takes, Idle
<1>5. u \in Data /\ Len(u) = n /\ v \in Data /\ Len(v) = Len(k.utf8) - n /\ u \o v = k.utf8
  BY <1>3, <1>4, CutData
<1> HIDE DEF u, v
<1>6. g \in Data /\ Len(g) = Len(got[c]) + n
  BY <1>2, <1>5, Join
<1>7. /\ j \in Connection /\ j.utf8 = v /\ j.raw = k.raw /\ Like(j, k) /\ j.torn = k.torn
      /\ j.eof = k.eof /\ j.eofraw = k.eofraw
  BY <1>2, <1>5 DEF Connection, Like
<1> HIDE DEF j
<1>8. Sized(j)
  BY <1>2, <1>3, <1>4, <1>5, <1>7 DEF Sized
<1>9. /\ TypeOK' /\ One' /\ CtlInv' /\ Others(c)
      /\ Kernel(c)' = KernelInv(j, io[c], Has(c), InPort(c), peer[c])
      /\ Stream(c)' = StreamInv(kind[c], j, io[c], Has(c), InPort(c), pipe[c], peer[c], sent[c],
                                g)
  <2> HIDE DEF g
  <2>1. QED
    BY <1>2, <1>4, <1>6, <1>8, LocalStep
<1>10. Kernel(c)'
  <2>1. KernelInv(k, io[c], Has(c), InPort(c), peer[c])
    BY <1>1, <1>2 DEF Kernel
  <2>2. QED
    BY <1>7, <1>9, <2>1 DEF KernelInv, Like, Fits
<1>11. ASSUME Stream(c) PROVE Stream(c)'
  <2>1. StreamInv(kind[c], k, io[c], Has(c), InPort(c), pipe[c], peer[c], sent[c], got[c])
    BY <1>1, <1>11 DEF Stream
  <2>2. Bytes(got[c], k.utf8, k.raw, InPort(c), pipe[c]) = Bytes(g, v, k.raw, InPort(c), pipe[c])
    <3>1. (got[c] \o u) \o v = got[c] \o (u \o v)
      BY <1>2, <1>5, Brackets
    <3>2. got[c] \o k.utf8 = g \o v
      BY <1>5, <3>1
    <3> HIDE DEF g
    <3>3. QED
      BY <3>2 DEF Bytes
  <2>3. ASSUME k.handle, ~k.torn, kind[c] = "pipe", k.eof PROVE FALSE
    <3>1. Bytes(got[c], k.utf8, k.raw, InPort(c), pipe[c]) = FirstBytes(sent[c])
          /\ Len(got[c]) = sent[c]
      BY <2>1, <2>3 DEF StreamInv
    <3>2. Len(FirstBytes(sent[c])) = sent[c]
      BY <1>2 DEF FirstBytes
    <3>3. {got[c], k.utf8, k.raw, InPort(c), pipe[c]} \subseteq Data
      BY <1>2, <1>3
    <3>4. Len(got[c]) + Len(k.utf8) + Len(k.raw) + Len(InPort(c)) + Len(pipe[c]) = sent[c]
      BY <3>1, <3>2, <3>3, BytesLen
    <3>5. Len(got[c]) \in Nat /\ Len(k.raw) \in Nat /\ Len(InPort(c)) \in Nat /\ Len(pipe[c]) \in Nat
      BY <1>2, <1>3, Empty
    <3>6. QED
      BY <1>3, <1>4, <3>1, <3>4, <3>5
  <2>4. Len(v) <= Len(k.utf8) /\ Len(v) \in Nat
    BY <1>3, <1>4, <1>5
  <2> HIDE DEF g
  <2>5. QED
    BY <1>3, <1>7, <1>9, <2>1, <2>2, <2>3, <2>4 DEF StreamInv, Like
<1>12. QED
  BY <1>4, <1>9, <1>10, <1>11 DEF Kept

\* A server socket is accepted.
LEMMA AcceptStep == ASSUME IInv, NEW c \in Con, Accept(c) PROVE Kept(c)
<1>1. PICK k : k = con[c]
  OBVIOUS
<1> DEFINE j == [k EXCEPT !.state = "server"]
<1>2. /\ Sized(k) /\ k \in Connection /\ got[c] \in Data /\ Kernel(c) /\ call \in Call
  BY <1>1, Types
<1>3. /\ k.handle /\ k.state \in {"listen", "ready"} /\ pc = "idle"
      /\ UNCHANGED <<kind, io, port, pipe, peer, sent, got, pc, call>>
      /\ con' = [con EXCEPT ![c] = j]
  BY <1>1 DEF Accept, Idle
<1>4. got' = [got EXCEPT ![c] = got[c]]
  BY <1>3 DEF IInv, TypeOK
<1>5. /\ j \in Connection /\ j.state = "server" /\ j.utf8 = k.utf8 /\ j.raw = k.raw
      /\ j.handle = k.handle /\ j.pending = k.pending /\ j.connecting = k.connecting
      /\ j.off = k.off /\ j.mem = k.mem
      /\ j.torn = k.torn /\ j.eof = k.eof /\ j.eofraw = k.eofraw
  BY <1>2 DEF Connection
<1> HIDE DEF j
<1>6. Sized(j)
  BY <1>2, <1>5 DEF Sized
<1>7. /\ TypeOK' /\ One' /\ CtlInv' /\ Others(c)
      /\ Kernel(c)' = KernelInv(j, io[c], Has(c), InPort(c), peer[c])
      /\ Stream(c)' = StreamInv(kind[c], j, io[c], Has(c), InPort(c), pipe[c], peer[c], sent[c],
                                got[c])
  BY <1>2, <1>3, <1>4, <1>6, LocalStep
<1>8. Kernel(c)'
  <2>1. KernelInv(k, io[c], Has(c), InPort(c), peer[c])
    BY <1>1, <1>2 DEF Kernel
  <2>2. QED
    BY <1>3, <1>5, <1>7, <2>1 DEF KernelInv, Fits
<1>9. Stream(c) => Stream(c)'
  <2>1. Stream(c) => StreamInv(kind[c], k, io[c], Has(c), InPort(c), pipe[c], peer[c], sent[c],
                               got[c])
    BY <1>1 DEF Stream
  <2>2. QED
    BY <1>3, <1>5, <1>7, <2>1 DEF StreamInv
<1>10. QED
  BY <1>3, <1>7, <1>8, <1>9 DEF Kept

\* A connection is closed or destroyed.
LEMMA CloseStep == ASSUME IInv, NEW c \in Con, Close(c) \/ Destroy(c) PROVE Kept(c)
<1>1. PICK k : k = con[c]
  OBVIOUS
<1>2. PICK j : /\ con' = [con EXCEPT ![c] = j] /\ j \in Connection
               /\ j.utf8 = k.utf8 /\ j.raw = k.raw /\ ~j.handle
               /\ j.pending = k.pending /\ j.connecting = k.connecting /\ j.off = k.off
               /\ j.state = k.state /\ (k.pending => j.mem # "freed")
  <2>1. k \in Connection /\ k.mem \in {"live", "listed", "freed"} /\ con \in [Con -> Connection]
    <3>1. con \in [Con -> Connection]
      BY DEF IInv, TypeOK
    <3>2. QED
      BY <1>1, <3>1 DEF Connection
  <2>2. CASE Close(c)
    <3> DEFINE j == [k EXCEPT !.handle = FALSE, !.closed = TRUE]
    <3>1. con' = [con EXCEPT ![c] = j] /\ k.mem = "live"
      BY <1>1, <2>1, <2>2 DEF Close, Usable
    <3>2. /\ j \in Connection /\ j.utf8 = k.utf8 /\ j.raw = k.raw /\ ~j.handle
          /\ j.pending = k.pending /\ j.connecting = k.connecting /\ j.off = k.off
          /\ j.state = k.state /\ j.mem = k.mem
      BY <2>1 DEF Connection
    <3> HIDE DEF j
    <3>3. QED
      BY <3>1, <3>2
  <2>3. CASE Destroy(c)
    <3> DEFINE m == IF k.pending THEN "listed" ELSE "freed"
               j == [k EXCEPT !.handle = FALSE, !.closed = TRUE, !.mem = m]
    <3>1. con' = [con EXCEPT ![c] = j]
      BY <1>1, <2>1, <2>3 DEF Destroy
    <3>2. m \in {"live", "listed", "freed"} /\ (k.pending => m # "freed")
      OBVIOUS
    <3> HIDE DEF m
    <3>3. /\ j \in Connection /\ j.utf8 = k.utf8 /\ j.raw = k.raw /\ ~j.handle
          /\ j.pending = k.pending /\ j.connecting = k.connecting /\ j.off = k.off
          /\ j.state = k.state /\ j.mem = m
      BY <2>1, <3>2 DEF Connection
    <3> HIDE DEF j
    <3>4. QED
      BY <3>1, <3>2, <3>3
  <2>4. QED
    BY <2>2, <2>3
<1>3. /\ pc = "idle" /\ UNCHANGED <<kind, peer, sent, pc, call>>
      /\ io' = [io EXCEPT ![c] = "none"] /\ pipe' = [pipe EXCEPT ![c] = <<>>]
      /\ got' = [got EXCEPT ![c] = <<>>]
      /\ port' = IF io[c] # "none" THEN Append(port, [con |-> c, data |-> <<>>]) ELSE port
  BY DEF Close, Destroy, CloseHandle, Idle
<1>4. /\ Sized(k) /\ KernelInv(k, io[c], Has(c), InPort(c), peer[c]) /\ PortType /\ One
  <2>1. Sized(k) /\ Kernel(c) /\ PortType /\ One
    BY <1>1, Types DEF IInv
  <2>2. QED
    BY <1>1, <2>1 DEF Kernel
<1>5. /\ PortType' /\ One' /\ \A d \in Con : d # c => PortSame(d)
      /\ Has(c)' => Has(c) \/ io[c] # "none"
      /\ Has(c) \/ io[c] # "none" => Has(c)'
      /\ InPort(c)' \in {<<>>, InPort(c)}
  <2>1. CASE io[c] = "none"
    <3>1. port' = port
      BY <1>3, <2>1
    <3>2. One' /\ \A d : UNCHANGED <<Has(d), InPort(d)>>
      BY <1>4, <3>1, SamePort
    <3>3. PortType'
      BY <1>4, <3>1 DEF PortType
    <3>4. QED
      BY <2>1, <3>2, <3>3 DEF PortSame
  <2>2. CASE io[c] # "none"
    <3> DEFINE pack == [con |-> c, data |-> <<>>]
    <3>1. /\ pack \in Packet \cup {Wake} /\ pack.con = c /\ pack.data = <<>>
          /\ Len(pack.data) <= RawSize
      BY Empty DEF Packet
    <3>2. port' = Append(port, pack) /\ ~Has(c)
      BY <1>3, <1>4, <2>2 DEF KernelInv
    <3> HIDE DEF pack
    <3>3. /\ PortType' /\ One' /\ \A d \in Con : d # pack.con => PortSame(d)
          /\ pack.con \in Con => Has(pack.con)' /\ InPort(pack.con)' = pack.data
      BY <1>4, <3>1, <3>2, Queued
    <3>4. QED
      BY <2>2, <3>1, <3>3
  <2>3. QED
    BY <2>1, <2>2
<1>6. /\ con' \in [Con -> Connection] /\ con'[c] = j
      /\ \A d \in Con \ {c} : con'[d] = con[d]
  BY <1>2 DEF IInv, TypeOK
<1>7. \A d \in Con : Len(con'[d].raw) <= RawSize /\ Len(con'[d].utf8) <= Utf8Size
  BY <1>2, <1>4, <1>6 DEF Sized, IInv, TypeOK
<1>8. /\ io' \in [Con -> {"none", "read", "connect"}] /\ pipe' \in [Con -> Seq(1..MaxSent)]
      /\ got' \in [Con -> Data] /\ io'[c] = "none"
      /\ \A d \in Con \ {c} : io'[d] = io[d] /\ pipe'[d] = pipe[d] /\ got'[d] = got[d]
  <2>1. <<>> \in Seq(1..MaxSent) /\ <<>> \in Data
    BY Empty
  <2>2. QED
    BY <1>3, <2>1 DEF IInv, TypeOK
<1>9. TypeOK' /\ CtlInv'
  <2>1. TypeOK'
    BY <1>3, <1>5, <1>6, <1>7, <1>8 DEF IInv, TypeOK, PortType
  <2>2. CtlInv'
    BY <1>3 DEF CtlInv
  <2>3. QED
    BY <2>1, <2>2
<1>10. Others(c)
  BY <1>3, <1>5, <1>6, <1>8 DEF Others, PortSame
<1>11. Kernel(c)'
  BY <1>2, <1>4, <1>5, <1>6, <1>8 DEF Kernel, KernelInv, Fits
<1>12. Stream(c) => Stream(c)'
  BY <1>1, <1>2, <1>3, <1>6, <1>8 DEF Stream, StreamInv
<1>13. QED
  BY <1>3, <1>5, <1>9, <1>10, <1>11, <1>12 DEF Kept

\* A read with nothing to wait for: the end was seen before, or the raw buffer is full.
LEMMA ReadFromBuffer ==
  ASSUME IInv, NEW c \in Con, NEW ended \in BOOLEAN,
         ended = (con[c].eofraw /\ con[c].raw = <<>>), ended \/ Len(con[c].raw) = RawSize,
         con' = [con EXCEPT ![c] = IF ended THEN [con[c] EXCEPT !.eof = @ \/ con[c].utf8 = <<>>]
                                            ELSE to_utf8(con[c])],
         UNCHANGED <<kind, io, port, pipe, peer, sent, got>>, pc' = "idle", call' \in Call
  PROVE  Kept(c)
<1>1. PICK k : k = con[c]
  OBVIOUS
<1>2. /\ Sized(k) /\ k \in Connection /\ InPort(c) \in Data /\ pipe[c] \in Data /\ got[c] \in Data
      /\ sent[c] \in Nat /\ KernelInv(k, io[c], Has(c), InPort(c), peer[c])
  <2>1. sent[c] \in 0..MaxSent
    BY Types
  <2>2. Kernel(c)
    BY Types
  <2>3. QED
    BY <1>1, <2>1, <2>2, Types DEF Kernel
<1>3. k.raw \in Data /\ k.utf8 \in Data /\ Len(k.raw) \in Nat /\ Len(k.utf8) \in Nat /\ k.off \in Nat
  BY <1>2, Empty DEF Connection
<1>4. got' = [got EXCEPT ![c] = got[c]]
  BY DEF IInv, TypeOK
<1> DEFINE before == StreamInv(kind[c], k, io[c], Has(c), InPort(c), pipe[c], peer[c], sent[c],
                               got[c])
<1>5. CASE ended
  <2> DEFINE j == [k EXCEPT !.eof = @ \/ k.utf8 = <<>>]
  <2>1. con' = [con EXCEPT ![c] = j]
    BY <1>1, <1>5
  <2>2. /\ j \in Connection /\ j.utf8 = k.utf8 /\ j.raw = k.raw /\ Like(j, k) /\ j.torn = k.torn
        /\ j.eof = (k.eof \/ k.utf8 = <<>>) /\ j.eofraw = k.eofraw
    BY <1>2 DEF Connection, Like
  <2> HIDE DEF j
  <2>3. Sized(j)
    BY <1>2, <2>2 DEF Sized
  <2>4. /\ TypeOK' /\ One' /\ CtlInv' /\ Others(c)
        /\ Kernel(c)' = KernelInv(j, io[c], Has(c), InPort(c), peer[c])
        /\ Stream(c)' = StreamInv(kind[c], j, io[c], Has(c), InPort(c), pipe[c], peer[c],
                                  sent[c], got[c])
    BY <1>2, <1>4, <2>1, <2>3, LocalStep
  <2>5. Kernel(c)'
    BY <1>2, <2>2, <2>4 DEF KernelInv, Like, Fits
  <2>6. ASSUME before PROVE Stream(c)'
    <3>1. ASSUME k.handle, ~k.torn, kind[c] = "pipe", k.utf8 = <<>> PROVE Len(got[c]) = sent[c]
      <4>1. k.raw = <<>> /\ InPort(c) = <<>> /\ pipe[c] = <<>>
        BY <1>1, <1>5, <2>6, <3>1 DEF StreamInv
      <4>2. Bytes(got[c], <<>>, <<>>, <<>>, pipe[c]) = FirstBytes(sent[c])
        BY <2>6, <3>1, <4>1 DEF StreamInv
      <4>3. QED
        BY <1>2, <4>1, <4>2, AllGiven
    <3>2. k.eofraw
      BY <1>1, <1>5
    <3>3. QED
      BY <2>2, <2>4, <2>6, <3>1, <3>2 DEF StreamInv, Like
  <2>7. Stream(c) => before
    BY <1>1 DEF Stream
  <2>8. QED
    BY <2>4, <2>5, <2>6, <2>7 DEF Kept
<1>6. CASE ~ended
  <2> DEFINE j == to_utf8(k)
  <2>1. con' = [con EXCEPT ![c] = j] /\ Len(k.raw) = RawSize
    BY <1>1, <1>6
  <2>2. /\ Sized(j) /\ Like(j, k) /\ j.torn = k.torn /\ j.eof = k.eof /\ j.eofraw = k.eofraw
        /\ Len(j.raw) <= Len(k.raw)
        /\ Halves = {} => j.utf8 \o j.raw = k.utf8 \o k.raw
    BY <1>2, Converts
  <2> HIDE DEF j
  <2>3. j.raw \in Data /\ j.utf8 \in Data /\ Len(j.raw) \in Nat
    BY <2>2, Empty DEF Sized, Connection
  <2>4. /\ TypeOK' /\ One' /\ CtlInv' /\ Others(c)
        /\ Kernel(c)' = KernelInv(j, io[c], Has(c), InPort(c), peer[c])
        /\ Stream(c)' = StreamInv(kind[c], j, io[c], Has(c), InPort(c), pipe[c], peer[c],
                                  sent[c], got[c])
    BY <1>2, <1>4, <2>1, <2>2, LocalStep
  <2>5. Kernel(c)'
    BY <1>2, <1>3, <2>2, <2>3, <2>4 DEF KernelInv, Like, Fits
  <2>6. ASSUME Halves = {}, before PROVE Stream(c)'
    <3>1. Bytes(got[c], k.utf8, k.raw, InPort(c), pipe[c])
            = Bytes(got[c], j.utf8, j.raw, InPort(c), pipe[c])
      <4>1. /\ {got[c], k.utf8, k.raw, InPort(c), pipe[c]} \subseteq Data
            /\ {j.utf8, j.raw, InPort(c), pipe[c]} \subseteq Data
        BY <1>2, <1>3, <2>3
      <4>2. Cat(k.utf8, k.raw) = Cat(j.utf8, j.raw)
        BY <2>2, <2>6 DEF Cat
      <4>3. QED
        BY <4>1, <4>2, SameBytes
    <3>2. k.handle /\ ~k.torn => ~(io[c] = "read" \/ InPort(c) # <<>>)
      BY <1>3, <2>1, <2>6 DEF StreamInv
    <3>3. QED
      BY <2>2, <2>4, <2>6, <3>1, <3>2 DEF StreamInv, Like
  <2>7. Stream(c) => before
    BY <1>1 DEF Stream
  <2>8. QED
    BY <2>4, <2>5, <2>6, <2>7 DEF Kept
<1>7. QED
  BY <1>5, <1>6

\* A read starts.
LEMMA ReadBeginsStep == ASSUME IInv, NEW c \in Con, ReadBegins(c) PROVE Kept(c)
<1>1. PICK k : k = con[c]
  OBVIOUS
<1>2. PICK s : s = start_read(c, k)
  OBVIOUS
<1>3. PICK ended \in BOOLEAN : ended = (k.eofraw /\ k.raw = <<>>)
  OBVIOUS
<1>4. /\ UNCHANGED <<kind, peer, sent, got>> /\ Len(k.utf8) < Utf8Size
      /\ \/ /\ ended \/ Len(k.raw) = RawSize
            /\ con' = [con EXCEPT ![c] = IF ended THEN [k EXCEPT !.eof = @ \/ k.utf8 = <<>>]
                                                  ELSE to_utf8(k)]
            /\ Return /\ UNCHANGED <<io, port, pipe>>
         \/ /\ Len(k.raw) < RawSize /\ Effect(c, s)
            /\ \/ Return
               \/ /\ pc' = "get" \/ (s.then = "connect" /\ pc' = "connect")
                  /\ call' = [NoCall EXCEPT !.op = "read", !.con = c]
  BY <1>1, <1>2, <1>3 DEF ReadBegins
<1>5. NoCall \in Call
  BY DEF NoCall, Call, Event
<1>6. CASE /\ ended \/ Len(k.raw) = RawSize
           /\ con' = [con EXCEPT ![c] = IF ended THEN [k EXCEPT !.eof = @ \/ k.utf8 = <<>>]
                                                 ELSE to_utf8(k)]
           /\ Return /\ UNCHANGED <<io, port, pipe>>
  <2>1. pc' = "idle" /\ call' \in Call
    BY <1>5, <1>6 DEF Return
  <2>2. QED
    BY <1>1, <1>3, <1>4, <1>6, <2>1, ReadFromBuffer
<1>7. CASE /\ Len(k.raw) < RawSize /\ Effect(c, s)
           /\ \/ Return
              \/ /\ pc' = "get" \/ (s.then = "connect" /\ pc' = "connect")
                 /\ call' = [NoCall EXCEPT !.op = "read", !.con = c]
  <2>1. pc' \in {"idle", "get", "connect"} /\ call' \in Call
        /\ (pc' = "connect" => s.then = "connect" /\ call'.con = c)
    <3>1. /\ [NoCall EXCEPT !.op = "read", !.con = c] \in Call
          /\ [NoCall EXCEPT !.op = "read", !.con = c].con = c
      BY <1>5 DEF Call
    <3>2. QED
      BY <1>5, <1>7, <3>1 DEF Return
  <2>2. /\ Sized(k) /\ KernelInv(k, io[c], Has(c), InPort(c), peer[c])
    <3>1. Sized(k) /\ Kernel(c)
      BY <1>1, Types
    <3>2. QED
      BY <1>1, <3>1 DEF Kernel
  <2>3. Begun(c, k, s) /\ BegunStream(c, k, s)
    BY <1>2, <2>2, StartsRead
  <2>4. Sized(s.k) /\ KernelInv(s.k, s.io, NewHas(c, s), NewData(c, s), peer[c])
    BY <2>3 DEF Begun
  <2>5. /\ con' = [con EXCEPT ![c] = s.k] /\ io' = [io EXCEPT ![c] = s.io]
        /\ port' = port \o s.packets /\ pipe' = [pipe EXCEPT ![c] = s.rest]
    BY <1>7 DEF Effect
  <2>6. /\ TypeOK' /\ One' /\ Others(c) /\ con'[c] = s.k /\ io'[c] = s.io /\ pipe'[c] = s.rest
        /\ Has(c)' = NewHas(c, s) /\ InPort(c)' = NewData(c, s)
    <3>1. pc' \in {"idle", "pre", "connect", "wait", "get"}
      BY <2>1
    <3>2. QED
      BY <1>4, <2>1, <2>3, <2>4, <2>5, <3>1, EffectDoes
  <2>7. CtlInv'
    <3>1. SUFFICES ASSUME pc' = "connect" PROVE CtlInv'
      BY DEF CtlInv
    <3>2. /\ s.k.handle /\ s.k.pending /\ s.k.connecting /\ s.k.state # "listen"
          /\ s.io = "none" /\ s.packets = <<>> /\ ~Has(c)
      BY <2>1, <2>3, <3>1 DEF Begun
    <3>3. s.k.mem = "live"
      BY <2>4, <3>2 DEF KernelInv
    <3>4. ~Has(c)'
      BY <2>6, <3>2 DEF NewHas
    <3>5. call'.con = c
      BY <2>1, <3>1
    <3>6. Has(call.con)' = Has(c)'
      BY <3>5 DEF Has, Packets
    <3>7. QED
      BY <2>6, <3>2, <3>3, <3>4, <3>5, <3>6 DEF CtlInv
  <2>8. Kernel(c)'
    BY <1>4, <2>4, <2>6 DEF Kernel
  <2>9. Halves = {} /\ Stream(c) => Stream(c)'
    BY <1>1, <1>4, <1>7, <2>3, <2>6 DEF Stream, BegunStream
  <2>10. QED
    BY <1>4, <2>6, <2>7, <2>8, <2>9 DEF Kept
<1>8. QED
  BY <1>4, <1>6, <1>7

-----------------------------------------------------------------------------
(***************************************************************************)
(* The theorems.                                                           *)
(***************************************************************************)
\* Connections that were just created.
LEMMA Starts == ASSUME Init PROVE IInv /\ \A c \in Con : Stream(c)
<1>1. ASSUME NEW x \in {"pipe", "fifo", "socket"}
      PROVE  LET k == Create(x) IN
             /\ Sized(k) /\ k.handle /\ ~k.pending /\ ~k.connecting /\ k.off = 0
             /\ k.state \in {"none", "listen"} /\ ~k.eofraw /\ ~k.eof /\ k.mem = "live"
             /\ k.raw = <<>> /\ k.utf8 = <<>> /\ (x = "pipe" => k.state = "none")
  <2> DEFINE st == IF x = "socket" THEN "listen" ELSE "none"
             k == Create(x)
  <2>1. k = [handle |-> TRUE, pending |-> FALSE, connecting |-> FALSE, off |-> 0, state |-> st,
             eofraw |-> FALSE, eof |-> FALSE, closed |-> FALSE,
             raw |-> <<>>, utf8 |-> <<>>, torn |-> FALSE, mem |-> "live"]
    BY DEF Create
  <2>2. st \in {"none", "listen"} /\ (x = "pipe" => st = "none")
    OBVIOUS
  <2> HIDE DEF st, k
  <2>3. k \in Connection
    BY <2>1, <2>2, Empty DEF Connection
  <2>4. QED
    BY <2>1, <2>2, <2>3, Empty DEF Sized, k
<1>2. Len(port) = 0 /\ \A c : Packets(c) = {} /\ ~Has(c) /\ InPort(c) = <<>>
  BY DEF Init, Packets, Has, InPort
<1>3. /\ kind \in [Con -> {"pipe", "fifo", "socket"}]
      /\ \A c \in Con :
           /\ con[c] = Create(kind[c]) /\ io[c] = "none" /\ pipe[c] = <<>> /\ sent[c] = 0
           /\ got[c] = <<>> /\ (kind[c] = "pipe" => peer[c] = "open")
  BY DEF Init
<1>4. TypeOK
  <2>1. \A c \in Con : Sized(con[c])
    BY <1>1, <1>3
  <2>2. con \in [Con -> Connection]
    BY <2>1 DEF Init, Sized
  <2>3. NoCall \in Call
    BY DEF NoCall, Call, Event
  <2>4. <<>> \in Seq(1..MaxSent) /\ <<>> \in Data /\ 0 \in 0..MaxSent
    BY Empty
  <2>5. /\ kind \in [Con -> {"pipe", "fifo", "socket"}] /\ io \in [Con -> {"none", "read", "connect"}]
        /\ pipe \in [Con -> Seq(1..MaxSent)] /\ peer \in [Con -> {"absent", "open", "closed"}]
        /\ sent \in [Con -> 0..MaxSent] /\ got \in [Con -> Data]
        /\ pc \in {"idle", "pre", "connect", "wait", "get"} /\ call \in Call
    BY <2>3, <2>4 DEF Init
  <2>6. port \in Seq(Packet \cup {Wake}) /\ \A i \in 1..Len(port) : Len(port[i].data) <= RawSize
    <3>1. port = <<>>
      BY DEF Init
    <3>2. QED
      BY <1>2, <3>1
  <2>7. QED
    BY <2>1, <2>2, <2>5, <2>6 DEF TypeOK, Sized
<1>5. One /\ CtlInv
  BY <1>2 DEF One, CtlInv, Init
<1>6. ASSUME NEW c \in Con PROVE Kernel(c) /\ Stream(c)
  <2>1. PICK k : k = con[c]
    OBVIOUS
  <2>2. /\ k.handle /\ ~k.pending /\ ~k.connecting
        /\ k.state \in {"none", "listen"} /\ ~k.eofraw /\ ~k.eof /\ k.mem = "live"
        /\ k.raw = <<>> /\ k.utf8 = <<>> /\ (kind[c] = "pipe" => k.state = "none")
    BY <1>1, <1>3, <2>1
  <2>3. io[c] = "none" /\ ~Has(c) /\ InPort(c) = <<>>
    BY <1>2, <1>3
  <2>4. Kernel(c)
    BY <2>1, <2>2, <2>3 DEF Kernel, KernelInv, Fits
  <2>5. Bytes(<<>>, <<>>, <<>>, <<>>, <<>>) = FirstBytes(0)
    <3>1. Bytes(<<>>, <<>>, <<>>, <<>>, <<>>) = <<>>
      <4>1. <<>> \o <<>> = <<>>
        BY Empty
      <4>2. QED
        BY <4>1 DEF Bytes
    <3>2. FirstBytes(0) = <<>>
      BY DEF FirstBytes
    <3>3. QED
      BY <3>1, <3>2
  <2>6. Stream(c)
    BY <1>3, <2>1, <2>2, <2>3, <2>5 DEF Stream, StreamInv
  <2>7. QED
    BY <2>4, <2>6
<1>7. QED
  BY <1>4, <1>5, <1>6 DEF IInv

\* Every step keeps the invariants.
LEMMA Steps == ASSUME IInv, [Next]_vars PROVE Preserved
<1>1. ASSUME NEW c \in Con,
             \/ ReadBegins(c) \/ Accept(c) \/ Close(c) \/ Destroy(c) \/ PrePoll(c)
             \/ PeerConnects(c) \/ PeerCloses(c) \/ PeerWrites(c) \/ KernelCompletes(c)
      PROVE  Preserved
  <2>1. Kept(c)
    <3>1. CASE ReadBegins(c)
      BY <3>1, ReadBeginsStep
    <3>2. CASE Accept(c)
      BY <3>2, AcceptStep
    <3>3. CASE Close(c) \/ Destroy(c)
      BY <3>3, CloseStep
    <3>4. CASE PrePoll(c)
      BY <3>4, PrePollStep
    <3>5. CASE PeerConnects(c) \/ PeerCloses(c)
      BY <3>5, PeerStep1
    <3>6. CASE PeerWrites(c)
      BY <3>6, PeerWritesStep
    <3>7. CASE KernelCompletes(c)
      BY <3>7, KernelStep
    <3>8. QED
      BY <1>1, <3>1, <3>2, <3>3, <3>4, <3>5, <3>6, <3>7
  <2>2. QED
    BY <2>1, KeptAll DEF Preserved
<1>2. ASSUME NEW c \in Con, NEW n \in 1..Utf8Size, Takes(c, n) PROVE Preserved
  BY <1>2, TakesStep, KeptAll DEF Preserved
<1>3. CASE ConnectPipe
  BY <1>3, ConnectPipeStep, KeptAll DEF Preserved
<1>4. CASE PollPacket
  BY <1>4, PollPacketStep
<1>5. CASE ReadPacket
  BY <1>5, ReadPacketStep
<1>6. CASE \/ \E cs \in SUBSET Con, forever, curl \in BOOLEAN : PollBegins(cs, forever, curl)
           \/ PollTimeout \/ PollSelect \/ ReadEnds
  BY <1>6, IdleSteps DEF Preserved
<1>7. CASE UNCHANGED vars
  <2>1. UNCHANGED <<kind, con, io, port, pipe, peer, sent, got, pc, call>>
    BY <1>7 DEF vars
  <2>2. One' /\ \A d : UNCHANGED <<Has(d), InPort(d)>>
    BY <2>1, SamePort DEF IInv
  <2>3. TypeOK'
    BY <2>1 DEF IInv, TypeOK
  <2>4. CtlInv'
    BY <2>1, <2>2 DEF IInv, CtlInv, Has, Packets
  <2>5. IInv' /\ \A d \in Con : Stream(d) => Stream(d)'
    BY <2>1, <2>2, <2>3, <2>4, KeptNone DEF PortSame
  <2>6. QED
    BY <2>5 DEF Preserved
<1>8. QED
  BY <1>1, <1>2, <1>3, <1>4, <1>5, <1>6, <1>7 DEF Next, RStep, CallStep, PeerStep

\* What the invariant says about completions.
LEMMA Completions == ASSUME IInv PROVE Inv
<1>1. ASSUME NEW c \in Con
      PROVE  /\ Outstanding(c) = (IF Has(c) THEN 1 ELSE 0) + (IF io[c] = "none" THEN 0 ELSE 1)
             /\ KernelInv(con[c], io[c], Has(c), InPort(c), peer[c])
  <2>1. Cardinality(Packets(c)) = IF Has(c) THEN 1 ELSE 0
    <3>1. CASE Packets(c) = {}
      BY <3>1, FS_EmptySet DEF Has
    <3>2. ASSUME NEW i \in Packets(c) PROVE Cardinality(Packets(c)) = IF Has(c) THEN 1 ELSE 0
      <4>1. Packets(c) = {i}
        BY DEF IInv, One
      <4>2. Cardinality({i}) = 1
        BY FS_Singleton
      <4>3. QED
        BY <4>1, <4>2 DEF Has
    <3>3. QED
      BY <3>1, <3>2
  <2>2. QED
    BY <2>1 DEF Outstanding, IInv, Kernel
<1>2. PendingTrue
  <2>1. ASSUME NEW c \in Con
        PROVE  /\ Outstanding(c) <= 1
               /\ Outstanding(c) = 1 => con[c].pending /\ con[c].mem # "freed"
               /\ con[c].pending /\ ~WaitsLate(c) => Outstanding(c) = 1
    BY <1>1 DEF KernelInv, WaitsLate
  <2>2. QED
    BY <2>1 DEF PendingTrue
<1>3. ConnectTrue
  BY <1>1 DEF KernelInv, ConnectTrue
<1>4. QED
  BY <1>2, <1>3 DEF IInv, Inv

\* What the invariant says about bytes.
LEMMA WhereBytesAre == ASSUME IInv, \A c \in Con : Stream(c) PROVE StreamTrue
<1>1. NothingLost
  BY DEF NothingLost, Stream, StreamInv, Bytes, FirstBytes
<1>2. EofTrue
  <2>1. <<>> \o <<>> = <<>>
    BY Empty
  <2>2. QED
    BY <2>1 DEF EofTrue, Stream, StreamInv
<1>3. QED
  BY <1>1, <1>2 DEF StreamTrue

\* Every completion is accounted for, whoever fetches it: at most one operation
\* is under way for a connection, read_pending is set while there is one, and
\* only then, except while a client is waited for late, the memory it uses is
\* not freed, and a socket is ready only if there is a client
\* (processx__connection_start_read, processx_c_connection_destroy and the
\* fetching of completions in processx_c_connection_poll and
\* processx__connection_read).
THEOREM CompletionsAreRight == Spec => []Inv
<1>1. Init => IInv
  BY Starts
<1>2. IInv /\ [Next]_vars => IInv'
  BY Steps DEF Preserved
<1>3. IInv => Inv
  BY Completions
<1>4. QED
  BY <1>1, <1>2, <1>3, PTL DEF Spec

\* If all characters are one byte, then R gets the bytes that were written, all of
\* them, in order, and the end of a pipe is the end: overlapped reads into the raw
\* buffer, its conversion to UTF-8, and completions that poll() or a read of another
\* connection fetches (processx__connection_to_utf8, processx_c_connection_poll,
\* processx__connection_read).
THEOREM StreamIsTrue == ASSUME Halves = {} PROVE Spec => []StreamTrue
<1> DEFINE S == IInv /\ \A c \in Con : Stream(c)
<1>1. Init => S
  BY Starts
<1>2. S /\ [Next]_vars => S'
  BY Steps DEF Preserved
<1>3. S => StreamTrue
  BY WhereBytesAre
<1>4. QED
  BY <1>1, <1>2, <1>3, PTL DEF Spec

=============================================================================
