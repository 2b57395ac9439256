-------------------------- MODULE NativeHostProofs --------------------------
(***************************************************************************)
(* Proofs about NativeHost: it forwards the two streams byte for byte, and *)
(* whenever it waits it has forwarded whole, legal frames and holds none,  *)
(* for every header length, message limit, set of lengths and number of    *)
(* frames, and every way the kernel cuts reads and writes.                 *)
(***************************************************************************)
EXTENDS NativeHost, SequenceTheorems, TLAPS

Byte == Nat \X Nat

Types ==
    /\ lens \in [Peers -> Seq(Nat)]
    /\ wire \in [Peers -> Seq(Byte)] /\ buf \in [Peers -> Seq(Byte)]
    /\ out \in [Peers -> Seq(Byte)] /\ written \in [Peers -> Seq(Byte)]
    /\ sending \in Seq(Byte) /\ pc \in Peers \cup {"select"}
    /\ pc = "select" => sending = <<>>

\* What the host has taken out of the buffer and not yet written.
Pending(d) == IF pc = d THEN sending ELSE <<>>

Taken(d) == Len(out[d]) + Len(Pending(d))

(***************************************************************************)
(* The stream of direction d, and behind it the first byte of the frame    *)
(* that its peer has not yet written.                                      *)
(***************************************************************************)
Size(d, f) == HeaderLen + lens[d][f]

At(d, p) == IF p <= Len(written[d]) THEN written[d][p] ELSE <<Len(lens[d]) + 1, 1>>

\* c may stand m places behind b.
Follows(d, b, c, m) ==
    /\ b[2] + m <= Size(d, b[1]) => c = <<b[1], b[2] + m>>
    /\ b[2] + m = Size(d, b[1]) + 1 => c = <<b[1] + 1, 1>>

Framed(d) ==
    /\ At(d, 1) = <<1, 1>>
    /\ \A p \in 1..Len(written[d]) : written[d][p][1] \in 1..Len(lens[d])
    /\ \A p \in 1..Len(written[d]), q \in 1..(Len(written[d]) + 1) :
          p <= q => Follows(d, At(d, p), At(d, q), q - p)

\* The first b bytes are the first n frames.
Boundary(d, b, n) ==
    /\ n \in 0..Len(lens[d])
    /\ IF n = 0 THEN b = 0
       ELSE b \in 1..Len(written[d]) /\ written[d][b] = LastByte(d, n)

\* The host takes whole frames, and leaves none when it turns to the other side.
TakesFrames(d) ==
    \E n \in 0..Len(lens[d]) :
        /\ Boundary(d, Taken(d), n)
        /\ \A f \in 1..n : lens[d][f] <= MAX_MESSAGE
        /\ pc # d /\ n < Len(lens[d]) => Len(buf[d]) < Size(d, n + 1)

IInv == Types /\ Verbatim /\ \A d \in Peers : Framed(d) /\ TakesFrames(d)

-----------------------------------------------------------------------------
LEMMA Initially == Init => IInv
  <1> SUFFICES ASSUME Init PROVE IInv
        OBVIOUS
  <1>1. Types
        BY DEF Init, Types, Byte
  <1>2. Verbatim
        BY DEF Init, Verbatim
  <1>3. ASSUME NEW d \in Peers PROVE Framed(d) /\ TakesFrames(d)
    <2>1. /\ lens[d] = <<>> /\ written[d] = <<>> /\ out[d] = <<>> /\ Pending(d) = <<>>
          /\ pc # d
          BY DEF Init, Pending, Peers
    <2>2. Len(lens[d]) = 0 /\ Len(written[d]) = 0 /\ Taken(d) = 0
          BY <2>1 DEF Taken
    <2>3. Framed(d)
          BY <2>2 DEF Framed, At
    <2>4. Boundary(d, Taken(d), 0) /\ 0 \in 0..Len(lens[d])
          BY <2>2 DEF Boundary
    <2> QED BY <2>2, <2>3, <2>4 DEF TakesFrames
  <1> QED BY <1>1, <1>2, <1>3 DEF IInv

\* Bytes that are joined, and bytes that are cut after the k-th.
LEMMA Joined ==
    ASSUME NEW s \in Seq(Byte), NEW t \in Seq(Byte)
    PROVE  /\ s \o t \in Seq(Byte) /\ Len(s \o t) = Len(s) + Len(t)
           /\ \A u \in Seq(Byte) : (s \o t) \o u = s \o (t \o u)
  <1>1. s \o t \in Seq(Byte) /\ Len(s \o t) = Len(s) + Len(t)
        BY ConcatProperties
  <1>2. ASSUME NEW u \in Seq(Byte) PROVE (s \o t) \o u = s \o (t \o u)
        BY ConcatAssociative
  <1> QED BY <1>1, <1>2

LEMMA Cut ==
    ASSUME NEW s \in Seq(Byte), NEW k \in 0..Len(s)
    PROVE  /\ SubSeq(s, 1, k) \in Seq(Byte) /\ SubSeq(s, k + 1, Len(s)) \in Seq(Byte)
           /\ Len(SubSeq(s, 1, k)) = k /\ Len(SubSeq(s, k + 1, Len(s))) = Len(s) - k
           /\ SubSeq(s, 1, k) \o SubSeq(s, k + 1, Len(s)) = s
  <1>1. Len(s) \in Nat
        BY LenProperties
  <1>2. /\ SubSeq(s, 1, k) \in Seq(Byte) /\ SubSeq(s, k + 1, Len(s)) \in Seq(Byte)
        /\ Len(SubSeq(s, 1, k)) = k /\ Len(SubSeq(s, k + 1, Len(s))) = Len(s) - k
    <2>1. /\ \A i \in 1..k : s[i] \in Byte
          /\ \A i \in (k + 1)..Len(s) : s[i] \in Byte
          BY <1>1
    <2>2. SubSeq(s, 1, k) \in Seq(Byte) /\ Len(SubSeq(s, 1, k)) = k
          BY <1>1, <2>1, SubSeqProperties
    <2>3. SubSeq(s, k + 1, Len(s)) \in Seq(Byte) /\ Len(SubSeq(s, k + 1, Len(s))) = Len(s) - k
          BY <1>1, <2>1, SubSeqProperties
    <2> QED BY <2>2, <2>3
  <1>3. SubSeq(s, 1, k) \o SubSeq(s, k + 1, Len(s)) = SubSeq(s, 1, Len(s))
    <2>1. 1 \in 1..(Len(s) + 1) /\ k \in (1 - 1)..Len(s) /\ Len(s) \in k..Len(s)
          BY <1>1
    <2> QED BY <2>1, ConcatAdjacentSubSeq
  <1> QED BY <1>2, <1>3, SubSeqFull

LEMMA DirectionTypes ==
    ASSUME Types, NEW d \in Peers
    PROVE  /\ lens[d] \in Seq(Nat) /\ wire[d] \in Seq(Byte) /\ buf[d] \in Seq(Byte)
           /\ out[d] \in Seq(Byte) /\ written[d] \in Seq(Byte)
           /\ Pending(d) \in Seq(Byte)
           /\ Len(lens[d]) \in Nat /\ Len(wire[d]) \in Nat /\ Len(buf[d]) \in Nat
           /\ Len(out[d]) \in Nat /\ Len(written[d]) \in Nat /\ Len(Pending(d)) \in Nat
           /\ Taken(d) \in Nat /\ HeaderLen \in Nat \ {0}
  <1>1. /\ lens[d] \in Seq(Nat) /\ wire[d] \in Seq(Byte) /\ buf[d] \in Seq(Byte)
        /\ out[d] \in Seq(Byte) /\ written[d] \in Seq(Byte) /\ Pending(d) \in Seq(Byte)
        BY DEF Types, Pending
  <1>2. /\ Len(lens[d]) \in Nat /\ Len(wire[d]) \in Nat /\ Len(buf[d]) \in Nat
        /\ Len(out[d]) \in Nat /\ Len(written[d]) \in Nat /\ Len(Pending(d)) \in Nat
        BY <1>1, LenProperties
  <1> QED BY <1>1, <1>2, NativeHostAssumption DEF Taken

\* Where the bytes of the buffer stand in the stream.
LEMMA BufferPlace ==
    ASSUME Types, Verbatim, NEW d \in Peers
    PROVE  /\ Len(written[d]) = Taken(d) + Len(buf[d]) + Len(wire[d])
           /\ \A i \in 1..Len(buf[d]) : buf[d][i] = written[d][Taken(d) + i]
           /\ \A i \in 1..Len(out[d]) : out[d][i] = written[d][i]
  <1> DEFINE a == out[d]
             b == Pending(d)
             c == buf[d]
             e == wire[d]
  <1>1. /\ a \in Seq(Byte) /\ b \in Seq(Byte) /\ c \in Seq(Byte) /\ e \in Seq(Byte)
        /\ Len(a) \in Nat /\ Len(b) \in Nat /\ Len(c) \in Nat /\ Len(e) \in Nat
        BY DirectionTypes
  <1>2. written[d] = ((a \o b) \o c) \o e
        BY DEF Verbatim, Pending
  <1>t. Taken(d) = Len(a) + Len(b)
        BY DEF Taken
  <1> HIDE DEF a, b, c, e
  <1>3. /\ a \o b \in Seq(Byte) /\ Len(a \o b) = Len(a) + Len(b)
        /\ \A i \in 1..Len(a) : (a \o b)[i] = a[i]
        BY <1>1
  <1> DEFINE u == a \o b
  <1> HIDE DEF u
  <1>4. /\ u \o c \in Seq(Byte) /\ Len(u \o c) = Len(u) + Len(c) /\ Len(u) \in Nat
        /\ \A i \in 1..Len(u) : (u \o c)[i] = u[i]
        /\ \A i \in 1..Len(c) : (u \o c)[Len(u) + i] = c[i]
        BY <1>1, <1>3 DEF u
  <1> DEFINE v == u \o c
  <1> HIDE DEF v
  <1>5. /\ Len(v \o e) = Len(v) + Len(e)
        /\ \A i \in 1..Len(v) : (v \o e)[i] = v[i]
        BY <1>1, <1>4 DEF v
  <1>6. written[d] = v \o e /\ Len(u) = Len(a) + Len(b) /\ Len(v) = Len(u) + Len(c)
        BY <1>2, <1>3, <1>4 DEF u, v
  <1>7. ASSUME NEW i \in 1..Len(c) PROVE c[i] = written[d][Len(a) + Len(b) + i]
    <2>1. Len(u) + i \in 1..Len(v)
          BY <1>1, <1>4, <1>6
    <2> QED BY <1>4, <1>5, <1>6, <2>1 DEF v
  <1>8. ASSUME NEW i \in 1..Len(a) PROVE a[i] = written[d][i]
    <2>1. i \in 1..Len(u) /\ i \in 1..Len(v)
          BY <1>1, <1>4, <1>6
    <2> QED BY <1>3, <1>4, <1>5, <1>6, <2>1 DEF u, v
  <1>9. Len(written[d]) = Len(a) + Len(b) + Len(c) + Len(e)
        BY <1>1, <1>5, <1>6
  <1> QED BY <1>t, <1>7, <1>8, <1>9 DEF a, c, e

LEMMA FollowsGives ==
    ASSUME NEW d, NEW f, NEW k, NEW m, NEW c, Follows(d, <<f, k>>, c, m)
    PROVE  /\ k + m <= Size(d, f) => c = <<f, k + m>>
           /\ k + m = Size(d, f) + 1 => c = <<f + 1, 1>>
  BY DEF Follows

\* Behind n frames comes the next one, whole if there are bytes enough.
LEMMA NextFrame ==
    ASSUME Types, NEW d \in Peers, Framed(d), NEW b \in Nat, NEW n \in Nat,
           Boundary(d, b, n), b < Len(written[d])
    PROVE  /\ n + 1 \in 1..Len(lens[d]) /\ written[d][b + 1] = <<n + 1, 1>>
           /\ b + Size(d, n + 1) <= Len(written[d]) =>
                  Boundary(d, b + Size(d, n + 1), n + 1)
  <1>1. /\ Len(written[d]) \in Nat /\ Len(lens[d]) \in Nat /\ HeaderLen \in Nat \ {0}
        BY DirectionTypes
  <1>2. PICK l \in Nat : l = Len(written[d])
        BY <1>1
  <1>3. b + 1 \in 1..l /\ At(d, b + 1) = written[d][b + 1]
        BY <1>2 DEF At
  <1>4. written[d][b + 1] = <<n + 1, 1>>
    <2>1. CASE n = 0
      <3>1. b = 0
            BY <2>1 DEF Boundary
      <3> QED BY <1>3, <2>1, <3>1 DEF Framed
    <2>2. CASE n # 0
      <3>1. b \in 1..l /\ written[d][b] = <<n, Size(d, n)>> /\ At(d, b) = <<n, Size(d, n)>>
            BY <1>2, <2>2 DEF Boundary, LastByte, Size, At
      <3>2. Size(d, n) \in Nat
            BY <1>1, <2>2, DirectionTypes DEF Size, Boundary
      <3>3. Follows(d, <<n, Size(d, n)>>, At(d, b + 1), (b + 1) - b)
        <4>1. b \in 1..Len(written[d]) /\ b + 1 \in 1..(Len(written[d]) + 1) /\ b <= b + 1
              BY <1>2, <1>3, <3>1
        <4>2. Follows(d, At(d, b), At(d, b + 1), (b + 1) - b)
              BY <4>1 DEF Framed
        <4> QED BY <3>1, <4>2
      <3>4. Size(d, n) + ((b + 1) - b) = Size(d, n) + 1
            BY <3>2
      <3> QED BY <1>3, <3>3, <3>4, FollowsGives
    <2> QED BY <2>1, <2>2
  <1>5. n + 1 \in 1..Len(lens[d])
    <2>1. written[d][b + 1][1] \in 1..Len(lens[d])
          BY <1>2, <1>3 DEF Framed
    <2> QED BY <1>4, <2>1
  <1>6. ASSUME b + Size(d, n + 1) <= Len(written[d])
        PROVE  Boundary(d, b + Size(d, n + 1), n + 1)
    <2>1. PICK z \in Nat \ {0} : z = Size(d, n + 1)
      <3>1. lens[d][n + 1] \in Nat
            BY <1>5, DirectionTypes
      <3> QED BY <1>1, <3>1 DEF Size
    <2>2. b + z \in 1..l /\ b + 1 <= b + z /\ 1 + ((b + z) - (b + 1)) = z
          BY <1>2, <1>6, <2>1
    <2>3. Follows(d, <<n + 1, 1>>, At(d, b + z), (b + z) - (b + 1))
      <3>1. Follows(d, At(d, b + 1), At(d, b + z), (b + z) - (b + 1))
            BY <1>2, <1>3, <2>2 DEF Framed
      <3> QED BY <1>3, <1>4, <3>1
    <2>4. At(d, b + z) = <<n + 1, z>>
      <3>1. 1 + ((b + z) - (b + 1)) <= Size(d, n + 1)
            BY <2>1, <2>2
      <3>2. At(d, b + z) = <<n + 1, 1 + ((b + z) - (b + 1))>>
            BY <2>3, <3>1, FollowsGives
      <3> QED BY <2>2, <3>2
    <2>5. written[d][b + z] = LastByte(d, n + 1)
      <3>1. At(d, b + z) = written[d][b + z]
            BY <1>2, <2>2 DEF At
      <3>2. LastByte(d, n + 1) = <<n + 1, z>>
            BY <2>1 DEF LastByte, Size
      <3> QED BY <2>4, <3>1, <3>2
    <2> QED BY <1>1, <1>2, <1>5, <2>1, <2>2, <2>5 DEF Boundary
  <1> QED BY <1>4, <1>5, <1>6

\* A step that leaves what was written alone.
LEMMA FramedStays ==
    ASSUME NEW d \in Peers, Framed(d), UNCHANGED <<lens, written>>
    PROVE  /\ Framed(d)'
           /\ \A b, n : Boundary(d, b, n)' <=> Boundary(d, b, n)
           /\ \A f : Size(d, f)' = Size(d, f)
  <1>1. /\ \A f : Size(d, f)' = Size(d, f)
        /\ \A p : At(d, p)' = At(d, p)
        /\ \A n : LastByte(d, n)' = LastByte(d, n)
        BY DEF Size, At, LastByte
  <1>2. \A b, n : Boundary(d, b, n)' <=> Boundary(d, b, n)
        BY <1>1 DEF Boundary
  <1>3. \A p, q : Follows(d, At(d, p), At(d, q), q - p) => Follows(d, At(d, p), At(d, q), q - p)'
        BY <1>1 DEF Follows
  <1>4. Framed(d)'
    <2>1. \A p \in 1..Len(written[d]), q \in 1..(Len(written[d]) + 1) :
             p <= q => Follows(d, At(d, p), At(d, q), q - p)'
          BY <1>3 DEF Framed
    <2> QED BY <1>1, <2>1 DEF Framed
  <1> QED BY <1>1, <1>2, <1>4

\* A step that leaves TakesFrames alone: what is taken does not change.
LEMMA TakesStays ==
    ASSUME NEW d \in Peers, Framed(d), TakesFrames(d), UNCHANGED <<lens, written>>,
           Taken(d)' = Taken(d),
           pc' # d => Len(buf[d])' = Len(buf[d]) /\ pc # d
    PROVE  TakesFrames(d)'
  <1>1. PICK n \in 0..Len(lens[d]) :
            /\ Boundary(d, Taken(d), n)
            /\ \A f \in 1..n : lens[d][f] <= MAX_MESSAGE
            /\ pc # d /\ n < Len(lens[d]) => Len(buf[d]) < Size(d, n + 1)
        BY DEF TakesFrames
  <1>2. Boundary(d, Taken(d), n)'
        BY <1>1, FramedStays DEF Boundary, LastByte
  <1>3. pc' # d /\ n < Len(lens'[d]) => Len(buf'[d]) < Size(d, n + 1)'
        BY <1>1, FramedStays
  <1> QED BY <1>1, <1>2, <1>3 DEF TakesFrames

\* A peer writes frame m: it takes the place that was kept for it.
LEMMA WritesFrame ==
    ASSUME IInv, NEW d \in Peers, NEW n \in Lens, PeerWrites(d, n)
    PROVE  /\ Len(written'[d]) = Len(written[d]) + (HeaderLen + n)
           /\ \A p \in 1..Len(written[d]) : written'[d][p] = written[d][p]
           /\ \A p \in (Len(written[d]) + 1)..(Len(written[d]) + (HeaderLen + n)) :
                 written'[d][p] = <<Len(lens[d]) + 1, p - Len(written[d])>>
           /\ Len(lens'[d]) = Len(lens[d]) + 1 /\ lens'[d][Len(lens[d]) + 1] = n
           /\ \A g \in 1..Len(lens[d]) : lens'[d][g] = lens[d][g]
           /\ written'[d] \in Seq(Byte) /\ lens'[d] \in Seq(Nat)
           /\ pack_frame(Len(lens[d]) + 1, n) \in Seq(Byte)
  <1>1. n \in Nat /\ HeaderLen \in Nat \ {0}
        BY NativeHostAssumption
  <1>2. lens[d] \in Seq(Nat) /\ written[d] \in Seq(Byte)
        BY DirectionTypes DEF IInv
  <1>3. PICK m \in Nat, l \in Nat, z \in Nat :
            m = Len(lens[d]) + 1 /\ l = Len(written[d]) /\ z = HeaderLen + n
        BY <1>1, <1>2, LenProperties
  <1> DEFINE s == pack_frame(m, n)
  <1>4. /\ s = [k \in 1..z |-> <<m, k>>]
        BY <1>3 DEF pack_frame
  <1>5. s \in Seq(Byte) /\ Len(s) = z /\ \A k \in 1..z : s[k] = <<m, k>>
    <2>1. \A k \in 1..z : <<m, k>> \in Byte
          BY DEF Byte
    <2>2. s \in [1..z -> Byte] /\ \A k \in 1..z : s[k] = <<m, k>>
          BY <1>4, <2>1
    <2> HIDE DEF s
    <2> QED BY <2>2
  <1>6. written'[d] = written[d] \o s /\ lens'[d] = Append(lens[d], n)
        BY <1>3 DEF PeerWrites, IInv, Types
  <1>7. /\ Len(lens'[d]) = m /\ lens'[d][m] = n /\ lens'[d] \in Seq(Nat)
        /\ \A g \in 1..Len(lens[d]) : lens'[d][g] = lens[d][g]
        BY <1>1, <1>2, <1>3, <1>6
  <1> HIDE DEF s
  <1>8. /\ Len(written'[d]) = l + z /\ written'[d] \in Seq(Byte)
        /\ \A p \in 1..l : written'[d][p] = written[d][p]
        /\ \A p \in (l + 1)..(l + z) : written'[d][p] = s[p - l]
    <2>1. s \in Seq(Byte) /\ Len(s) = z
          BY <1>5
    <2>2. written'[d] = written[d] \o s /\ written[d] \in Seq(Byte) /\ Len(written[d]) = l
          BY <1>2, <1>3, <1>6
    <2>3. /\ Len(written'[d]) = l + z /\ written'[d] \in Seq(Byte)
          /\ \A p \in 1..(l + z) : written'[d][p] = IF p <= l THEN written[d][p] ELSE s[p - l]
      <3>1. /\ Len(written[d] \o s) = l + z /\ written[d] \o s \in Seq(Byte)
            BY <2>1, <2>2, Joined
      <3>2. \A p \in 1..(Len(written[d]) + Len(s)) : (written[d] \o s)[p] =
                IF p <= Len(written[d]) THEN written[d][p] ELSE s[p - Len(written[d])]
            BY <2>1, <2>2, ConcatProperties
      <3> QED BY <2>1, <2>2, <3>1, <3>2
    <2>4. /\ \A p \in 1..l : p \in 1..(l + z) /\ p <= l
          /\ \A p \in (l + 1)..(l + z) : p \in 1..(l + z) /\ ~(p <= l)
          OBVIOUS
    <2> QED BY <2>3, <2>4
  <1>9. \A p \in (l + 1)..(l + z) : written'[d][p] = <<m, p - l>>
    <2>1. \A p \in (l + 1)..(l + z) : p - l \in 1..z
          BY <1>3
    <2> QED BY <1>5, <1>8, <2>1
  <1> QED BY <1>3, <1>5, <1>7, <1>8, <1>9 DEF s

LEMMA FrameFollows ==
    ASSUME IInv, NEW d \in Peers, NEW n \in Lens, PeerWrites(d, n)
    PROVE  Framed(d)'
  <1> DEFINE z == HeaderLen + n
  <1>0. z \in Nat \ {0} /\ n \in Nat
        BY NativeHostAssumption
  <1>t. /\ Len(lens[d]) \in Nat /\ Len(written[d]) \in Nat /\ Framed(d)
        /\ \A g \in 1..Len(lens[d]) : Size(d, g) \in Nat
    <2>1. /\ Len(lens[d]) \in Nat /\ Len(written[d]) \in Nat /\ Framed(d)
          /\ HeaderLen \in Nat /\ lens[d] \in Seq(Nat)
          BY DirectionTypes DEF IInv
    <2>2. ASSUME NEW g \in 1..Len(lens[d]) PROVE lens[d][g] \in Nat
          BY <2>1
    <2> QED BY <2>1, <2>2 DEF Size
  <1>1. PICK l \in Nat, m \in Nat, w \in Nat :
            l = Len(written[d]) /\ m = Len(lens[d]) + 1 /\ w = l + z
        BY <1>0, <1>t
  <1>2. /\ Len(written'[d]) = w
        /\ \A p \in 1..l : written'[d][p] = written[d][p]
        /\ \A p \in (l + 1)..w : written'[d][p] = <<m, p - l>>
        /\ Len(lens'[d]) = m /\ lens'[d][m] = n
        /\ \A g \in 1..Len(lens[d]) : lens'[d][g] = lens[d][g]
    <2>1. /\ Len(written[d]) + (HeaderLen + n) = w /\ Len(written[d]) + 1 = l + 1
          /\ Len(written[d]) = l /\ Len(lens[d]) + 1 = m
          BY <1>1
    <2>2. /\ Len(written'[d]) = Len(written[d]) + (HeaderLen + n)
          /\ \A p \in 1..Len(written[d]) : written'[d][p] = written[d][p]
          /\ \A p \in (Len(written[d]) + 1)..(Len(written[d]) + (HeaderLen + n)) :
                written'[d][p] = <<Len(lens[d]) + 1, p - Len(written[d])>>
          /\ Len(lens'[d]) = Len(lens[d]) + 1 /\ lens'[d][Len(lens[d]) + 1] = n
          /\ \A g \in 1..Len(lens[d]) : lens'[d][g] = lens[d][g]
          BY WritesFrame
    <2> HIDE DEF z
    <2> QED BY <2>1, <2>2
  <1>9. (\A g \in 1..Len(lens[d]) : Size(d, g)' = Size(d, g)) /\ Size(d, m)' = z
        BY <1>2 DEF Size
  <1> HIDE DEF z
  <1>6. At(d, l + 1) = <<m, 1>> /\ At(d, w + 1)' = <<m + 1, 1>>
    <2>1. At(d, l + 1) = <<m, 1>>
          BY <1>1 DEF At
    <2>2. ~(w + 1 <= Len(written'[d]))
          BY <1>1, <1>2
    <2>3. At(d, w + 1)' = <<Len(lens'[d]) + 1, 1>>
          BY <2>2 DEF At
    <2> QED BY <1>2, <2>1, <2>3
  <1>7. ASSUME NEW i \in (l + 1)..w PROVE At(d, i)' = <<m, i - l>>
        BY <1>1, <1>2 DEF At
  <1>8. ASSUME NEW i \in 1..(l + 1) PROVE At(d, i)' = At(d, i)
    <2>1. CASE i <= l
          BY <1>0, <1>1, <1>2, <2>1 DEF At
    <2>2. CASE i = l + 1
      <3>1. i \in (l + 1)..w /\ i - l = 1
            BY <1>0, <1>1, <2>2
      <3>2. At(d, i)' = <<m, 1>>
            BY <1>7, <3>1
      <3> QED BY <1>6, <2>2, <3>2
    <2> QED BY <1>1, <2>1, <2>2
  <1>10. ASSUME NEW p \in 1..w, NEW q \in 1..(w + 1), p <= q
         PROVE  Follows(d, At(d, p), At(d, q), q - p)'
    <2>1. CASE p <= l
      <3>1. PICK f \in 1..Len(lens[d]), k \in Nat : At(d, p) = <<f, k>>
        <4>1. At(d, p) = written[d][p] /\ written[d][p][1] \in 1..Len(lens[d])
              BY <1>1, <1>t, <2>1 DEF At, Framed
        <4>2. written[d][p] \in Byte
              BY <1>1, <2>1, DirectionTypes DEF IInv
        <4>3. PICK f \in Nat, k \in Nat : written[d][p] = <<f, k>>
              BY <4>2 DEF Byte
        <4> QED BY <4>1, <4>3
      <3>2. /\ At(d, p)' = <<f, k>> /\ Size(d, f)' = Size(d, f) /\ Size(d, f) \in Nat
            /\ f # m /\ p \in 1..Len(written[d])
        <4>1. p \in 1..(l + 1) /\ p \in 1..Len(written[d])
              BY <1>1, <2>1
        <4>2. At(d, p)' = At(d, p)
              BY <1>8, <4>1
        <4>3. f # m
              BY <1>1
        <4> QED BY <1>t, <1>9, <3>1, <4>1, <4>2, <4>3
      <3>3. CASE q <= l + 1
        <4>1. Follows(d, At(d, p), At(d, q), q - p)
          <5>1. q \in 1..(Len(written[d]) + 1)
                BY <1>1, <3>3
          <5> QED BY <1>t, <1>10, <3>2, <5>1 DEF Framed
        <4>2. At(d, q)' = At(d, q)
              BY <1>1, <1>8, <3>3
        <4> QED BY <3>1, <3>2, <4>1, <4>2 DEF Follows
      <3>4. CASE q > l + 1
        <4>1. Follows(d, <<f, k>>, <<m, 1>>, (l + 1) - p)
          <5>1. Follows(d, At(d, p), At(d, l + 1), (l + 1) - p)
            <6>1. l + 1 \in 1..(Len(written[d]) + 1) /\ p <= l + 1
                  BY <1>1, <2>1
            <6> QED BY <1>t, <3>2, <6>1 DEF Framed
          <5> QED BY <1>6, <3>1, <5>1
        <4>2. ~(k + ((l + 1) - p) <= Size(d, f))
              BY <3>2, <4>1, FollowsGives
        <4>3. ~(k + (q - p) <= Size(d, f)) /\ k + (q - p) # Size(d, f) + 1
          <5>1. PICK x \in Nat : x = Size(d, f)
                BY <3>2
          <5>2. ~(k + ((l + 1) - p) <= x)
                BY <4>2, <5>1
          <5>3. ~(k + (q - p) <= x) /\ k + (q - p) # x + 1
                BY <3>4, <5>2
          <5> QED BY <5>1, <5>3
        <4> QED BY <3>2, <4>3 DEF Follows
      <3> QED BY <1>1, <3>3, <3>4
    <2>2. CASE p > l
      <3>1. At(d, p)' = <<m, p - l>> /\ (p - l) + (q - p) = q - l
            BY <1>1, <1>7, <2>2
      <3>2. CASE q <= w
        <4>1. At(d, q)' = <<m, q - l>> /\ q - l <= z /\ q - l # z + 1
              BY <1>0, <1>1, <1>7, <1>10, <2>2, <3>2
        <4> QED BY <1>9, <3>1, <4>1 DEF Follows
      <3>3. CASE q = w + 1
        <4>1. At(d, q)' = <<m + 1, 1>>
              BY <1>6, <3>3
        <4>2. q - l = z + 1 /\ ~(q - l <= z)
          <5>1. w = l + z /\ z \in Nat
                BY <1>0, <1>1
          <5> QED BY <3>3, <5>1
        <4> QED BY <1>9, <3>1, <4>1, <4>2 DEF Follows
      <3> QED BY <1>1, <3>2, <3>3
    <2> QED BY <1>1, <2>1, <2>2
  <1>11. At(d, 1)' = <<1, 1>>
        BY <1>1, <1>t, <1>8 DEF Framed
  <1>12. ASSUME NEW p \in 1..w PROVE written'[d][p][1] \in 1..m
    <2>1. CASE p <= l
      <3>1. p \in 1..l /\ p \in 1..Len(written[d])
            BY <1>1, <2>1
      <3>2. written'[d][p] = written[d][p] /\ written[d][p][1] \in 1..Len(lens[d])
            BY <1>2, <1>t, <3>1 DEF Framed
      <3> QED BY <1>1, <1>t, <3>2
    <2>2. CASE p > l
      <3>1. p \in (l + 1)..w /\ m \in 1..m
            BY <1>1, <1>t, <2>2
      <3> QED BY <1>2, <3>1
    <2> QED BY <1>1, <2>1, <2>2
  <1> QED BY <1>2, <1>10, <1>11, <1>12 DEF Framed

LEMMA Writes ==
    ASSUME IInv, NEW d \in Peers, NEW n \in Lens, PeerWrites(d, n)
    PROVE  IInv'
  <1> DEFINE s == pack_frame(Len(lens[d]) + 1, n)
  <1>1. /\ lens' = [lens EXCEPT ![d] = Append(@, n)] /\ wire' = [wire EXCEPT ![d] = @ \o s]
        /\ written' = [written EXCEPT ![d] = @ \o s] /\ UNCHANGED <<buf, pc, sending, out>>
        BY DEF PeerWrites
  <1>2. /\ s \in Seq(Byte) /\ Types /\ Verbatim
        /\ \A e \in Peers : Framed(e) /\ TakesFrames(e)
        BY WritesFrame DEF IInv
  <1>3. n \in Nat
        BY NativeHostAssumption
  <1> HIDE DEF s
  <1>4. Types'
    <2>1. lens' \in [Peers -> Seq(Nat)]
          BY <1>1, <1>2, <1>3 DEF Types
    <2>2. wire' \in [Peers -> Seq(Byte)] /\ written' \in [Peers -> Seq(Byte)]
      <3>1. wire[d] \o s \in Seq(Byte) /\ written[d] \o s \in Seq(Byte)
            BY <1>2, DirectionTypes, ConcatProperties
      <3> QED BY <1>1, <1>2, <3>1 DEF Types
    <2> QED BY <1>1, <1>2, <2>1, <2>2 DEF Types
  <1>5. \A e \in Peers : Pending(e)' = Pending(e) /\ Taken(e)' = Taken(e)
        BY <1>1 DEF Pending, Taken
  <1>6. ASSUME NEW e \in Peers, e # d PROVE Framed(e)' /\ TakesFrames(e)'
    <2>1. lens'[e] = lens[e] /\ written'[e] = written[e] /\ buf'[e] = buf[e]
          BY <1>1, <1>2, <1>6 DEF Types
    <2>2. /\ \A f : Size(e, f)' = Size(e, f)
          /\ \A p : At(e, p)' = At(e, p)
          /\ \A k : LastByte(e, k)' = LastByte(e, k)
          BY <2>1 DEF Size, At, LastByte
    <2>3. \A p, q : Follows(e, At(e, p), At(e, q), q - p) => Follows(e, At(e, p), At(e, q), q - p)'
          BY <2>2 DEF Follows
    <2>4. Framed(e)'
      <3>1. \A p \in 1..Len(written[e]), q \in 1..(Len(written[e]) + 1) :
               p <= q => Follows(e, At(e, p), At(e, q), q - p)'
            BY <1>2, <2>3 DEF Framed
      <3> QED BY <1>2, <2>1, <2>2, <3>1 DEF Framed
    <2>5. TakesFrames(e)'
      <3>1. \A k : Boundary(e, Taken(e), k)' <=> Boundary(e, Taken(e), k)
            BY <1>5, <2>1, <2>2 DEF Boundary
      <3> QED BY <1>1, <1>2, <2>1, <2>2, <3>1 DEF TakesFrames
    <2> QED BY <2>4, <2>5
  <1>7. TakesFrames(d)'
    <2>1. PICK k \in 0..Len(lens[d]) :
              /\ Boundary(d, Taken(d), k)
              /\ \A f \in 1..k : lens[d][f] <= MAX_MESSAGE
              /\ pc # d /\ k < Len(lens[d]) => Len(buf[d]) < Size(d, k + 1)
          BY <1>2 DEF TakesFrames
    <2>2. PICK b \in Nat, l \in Nat, m \in Nat :
              b = Taken(d) /\ l = Len(written[d]) /\ m = Len(lens[d])
          BY <1>2, DirectionTypes
    <2>3. /\ Len(written'[d]) >= l /\ \A p \in 1..l : written'[d][p] = written[d][p]
          /\ Len(lens'[d]) = m + 1 /\ lens'[d][m + 1] = n
          /\ \A g \in 1..m : lens'[d][g] = lens[d][g]
      <3>1. HeaderLen + n \in Nat
            BY <1>3, NativeHostAssumption
      <3>2. /\ Len(written'[d]) = Len(written[d]) + (HeaderLen + n)
            /\ \A p \in 1..Len(written[d]) : written'[d][p] = written[d][p]
            /\ Len(lens'[d]) = Len(lens[d]) + 1 /\ lens'[d][Len(lens[d]) + 1] = n
            /\ \A g \in 1..Len(lens[d]) : lens'[d][g] = lens[d][g]
            BY WritesFrame
      <3> QED BY <2>2, <3>1, <3>2
    <2>4. Boundary(d, b, k)'
      <3>1. CASE k = 0
            BY <2>1, <2>2, <2>3, <3>1 DEF Boundary
      <3>2. CASE k # 0
        <4>1. k \in 1..m /\ b \in 1..l /\ written[d][b] = LastByte(d, k)
              BY <2>1, <2>2, <3>2 DEF Boundary
        <4>2. Len(written'[d]) \in Nat
              BY <1>4, DirectionTypes, LenProperties DEF Types
        <4>3. b \in 1..Len(written'[d]) /\ written'[d][b] = written[d][b] /\ k \in 0..Len(lens'[d])
              BY <2>2, <2>3, <4>1, <4>2
        <4>4. LastByte(d, k)' = LastByte(d, k)
              BY <2>3, <4>1 DEF LastByte
        <4> QED BY <3>2, <4>1, <4>3, <4>4 DEF Boundary
      <3> QED BY <3>1, <3>2
    <2>5. \A f \in 1..k : lens'[d][f] <= MAX_MESSAGE
          BY <2>1, <2>2, <2>3
    <2>6. ASSUME pc # d PROVE Len(buf[d]) < Size(d, k + 1)'
      <3>1. CASE k < m
        <4>1. Size(d, k + 1)' = Size(d, k + 1)
              BY <2>1, <2>2, <2>3, <3>1 DEF Size
        <4> QED BY <2>1, <2>2, <2>6, <3>1, <4>1
      <3>2. CASE k = m
        <4>1. ~(b < l)
          <5>1. ~(k + 1 \in 1..Len(lens[d]))
                BY <2>1, <2>2, <3>2
          <5> QED BY <1>2, <2>1, <2>2, <5>1, NextFrame
        <4>2. Len(buf[d]) = 0
          <5>1. Len(written[d]) = Taken(d) + Len(buf[d]) + Len(wire[d])
                BY <1>2, BufferPlace
          <5>2. Len(buf[d]) \in Nat /\ Len(wire[d]) \in Nat
                BY <1>2, DirectionTypes
          <5> QED BY <2>2, <4>1, <5>1, <5>2
        <4>3. Size(d, k + 1)' = HeaderLen + n
              BY <2>3, <3>2 DEF Size
        <4> QED BY <1>3, <4>2, <4>3, NativeHostAssumption
      <3> QED BY <2>1, <2>2, <3>1, <3>2
    <2>7. k \in 0..Len(lens'[d]) /\ Taken(d)' = b
          BY <1>5, <2>1, <2>2, <2>3
    <2>8. Boundary(d, Taken(d), k)'
          BY <2>4, <2>7 DEF Boundary
    <2> QED BY <1>1, <2>5, <2>6, <2>7, <2>8 DEF TakesFrames
  <1>8. Framed(d)'
        BY FrameFollows
  <1>9. Verbatim'
    <2> SUFFICES ASSUME NEW e \in Peers
                 PROVE  ((out'[e] \o Pending(e)') \o buf'[e]) \o wire'[e] = written'[e]
          BY DEF Verbatim, Pending
    <2>1. ((out[e] \o Pending(e)) \o buf[e]) \o wire[e] = written[e]
          BY <1>2 DEF Verbatim, Pending
    <2>2. CASE e # d
          BY <1>1, <1>2, <1>5, <2>1, <2>2 DEF Types
    <2>3. CASE e = d
      <3>1. PICK u \in Seq(Byte) : u = (out[e] \o Pending(e)) \o buf[e]
            BY <1>2, DirectionTypes, ConcatProperties
      <3>2. wire[e] \in Seq(Byte)
            BY <1>2, DirectionTypes
      <3>3. u \o (wire[e] \o s) = (u \o wire[e]) \o s
        <4>1. s \in Seq(Byte)
              BY <1>2
        <4> QED BY <3>2, <4>1, Joined
      <3>4. wire'[e] = wire[e] \o s /\ written'[e] = written[e] \o s
            BY <1>1, <1>2, <2>3 DEF Types
      <3> QED BY <1>1, <1>5, <2>1, <3>1, <3>3, <3>4
    <2> QED BY <2>2, <2>3
  <1> QED BY <1>4, <1>6, <1>7, <1>8, <1>9 DEF IInv

-----------------------------------------------------------------------------
(***************************************************************************)
(* The host only moves bytes: from the wire to the buffer, from there to   *)
(* the frame it is writing, and on to the other peer.                      *)
(***************************************************************************)
Moved(d) == ((out[d] \o Pending(d)) \o buf[d]) \o wire[d]

LEMMA MovesBytes ==
    ASSUME IInv, Types', UNCHANGED <<lens, written>>,
           \A e \in Peers : Moved(e)' = Moved(e) /\ TakesFrames(e)'
    PROVE  IInv'
  <1>1. Verbatim <=> \A e \in Peers : Moved(e) = written[e]
        BY DEF Verbatim, Moved, Pending
  <1>2. Verbatim' <=> \A e \in Peers : Moved(e)' = written'[e]
        BY DEF Verbatim, Moved, Pending
  <1>3. \A e \in Peers : Framed(e)'
        BY FramedStays DEF IInv
  <1> QED BY <1>1, <1>2, <1>3 DEF IInv

LEMMA Reads ==
    ASSUME IInv, NEW d \in Peers, HostReads(d)
    PROVE  IInv'
  <1>1. PICK k \in 1..Len(wire[d]) :
            /\ buf' = [buf EXCEPT ![d] = @ \o SubSeq(wire[d], 1, k)]
            /\ wire' = [wire EXCEPT ![d] = SubSeq(@, k + 1, Len(@))]
        BY DEF HostReads
  <1>2. /\ pc = "select" /\ pc' = d /\ UNCHANGED <<lens, sending, out, written>>
        BY DEF HostReads
  <1>3. Types /\ \A e \in Peers : Framed(e) /\ TakesFrames(e)
        BY DEF IInv
  <1>4. /\ out[d] \in Seq(Byte) /\ buf[d] \in Seq(Byte) /\ wire[d] \in Seq(Byte)
        /\ Pending(d) \in Seq(Byte) /\ Len(wire[d]) \in Nat
        BY <1>3, DirectionTypes
  <1> DEFINE x == SubSeq(wire[d], 1, k)
             y == SubSeq(wire[d], k + 1, Len(wire[d]))
  <1>5. /\ buf'[d] = buf[d] \o x /\ wire'[d] = y
        /\ \A e \in Peers \ {d} : buf'[e] = buf[e] /\ wire'[e] = wire[e]
        BY <1>1, <1>3 DEF Types
  <1>6. x \in Seq(Byte) /\ y \in Seq(Byte) /\ x \o y = wire[d]
    <2>1. k \in 0..Len(wire[d])
          BY <1>4
    <2> QED BY <1>4, <2>1, Cut
  <1>7. \A e \in Peers : Pending(e)' = Pending(e) /\ Taken(e)' = Taken(e)
    <2>1. sending = <<>>
          BY <1>2, <1>3 DEF Types
    <2> QED BY <1>2, <2>1 DEF Pending, Taken
  <1>8. Types'
    <2>1. buf[d] \o x \in Seq(Byte)
          BY <1>4, <1>6, Joined
    <2>2. buf' \in [Peers -> Seq(Byte)] /\ wire' \in [Peers -> Seq(Byte)]
          BY <1>1, <1>3, <1>6, <2>1 DEF Types
    <2>3. pc' # "select"
          BY <1>2 DEF Peers
    <2> QED BY <1>2, <1>3, <2>2, <2>3 DEF Types
  <1>9. ASSUME NEW e \in Peers PROVE TakesFrames(e)'
    <2>1. pc' # e => Len(buf[e])' = Len(buf[e]) /\ pc # e
          BY <1>2, <1>5 DEF Peers
    <2> QED BY <1>2, <1>3, <1>7, <2>1, TakesStays
  <1>10. ASSUME NEW e \in Peers PROVE Moved(e)' = Moved(e)
    <2>1. CASE e # d
          BY <1>2, <1>5, <1>7, <2>1 DEF Moved
    <2>2. CASE e = d
      <3>1. PICK u \in Seq(Byte) : u = out[d] \o Pending(d)
            BY <1>4, Joined
      <3> HIDE DEF x, y
      <3>2. u \o (buf[d] \o x) = (u \o buf[d]) \o x
            BY <1>4, <1>6, Joined
      <3>3. u \o buf[d] \in Seq(Byte)
            BY <1>4, Joined
      <3>4. ((u \o buf[d]) \o x) \o y = (u \o buf[d]) \o (x \o y)
            BY <1>6, <3>3, Joined
      <3>5. Moved(d)' = (u \o (buf[d] \o x)) \o y
            BY <1>2, <1>5, <1>7, <3>1 DEF Moved
      <3>6. Moved(d) = (u \o buf[d]) \o wire[d]
            BY <3>1 DEF Moved
      <3> QED BY <1>6, <2>2, <3>2, <3>4, <3>5, <3>6
    <2> QED BY <2>1, <2>2
  <1> QED BY <1>2, <1>8, <1>9, <1>10, MovesBytes

\* What extract_frame reads in the header is the size of the next frame.
LEMMA Header ==
    ASSUME IInv, NEW d \in Peers, NEW n \in Nat, Boundary(d, Taken(d), n), buf[d] # <<>>
    PROVE  /\ n + 1 \in 1..Len(lens[d]) /\ FrameLen(d) = Size(d, n + 1)
           /\ Size(d, n + 1) \in Nat
           /\ Len(buf[d]) >= Size(d, n + 1) => Boundary(d, Taken(d) + Size(d, n + 1), n + 1)
  <1>1. Types /\ Verbatim /\ Framed(d)
        BY DEF IInv
  <1>2. /\ buf[d] \in Seq(Byte) /\ lens[d] \in Seq(Nat) /\ Taken(d) \in Nat
        /\ Len(buf[d]) \in Nat /\ Len(wire[d]) \in Nat /\ HeaderLen \in Nat
        BY <1>1, DirectionTypes
  <1>3. Len(buf[d]) > 0
        BY <1>2, EmptySeq
  <1>4. PICK b \in Nat, j \in Nat, h \in Nat :
            b = Taken(d) /\ j = Len(buf[d]) /\ h = Len(wire[d])
        BY <1>2
  <1>5. Len(written[d]) = b + j + h /\ buf[d][1] = written[d][b + 1]
    <2>1. /\ Len(written[d]) = Taken(d) + Len(buf[d]) + Len(wire[d])
          /\ \A i \in 1..Len(buf[d]) : buf[d][i] = written[d][Taken(d) + i]
          BY <1>1, BufferPlace
    <2>2. 1 \in 1..Len(buf[d])
          BY <1>2, <1>3
    <2> QED BY <1>4, <2>1, <2>2
  <1>6. b < Len(written[d])
        BY <1>3, <1>4, <1>5
  <1>7. /\ n + 1 \in 1..Len(lens[d]) /\ written[d][b + 1] = <<n + 1, 1>>
        /\ b + Size(d, n + 1) <= Len(written[d]) => Boundary(d, b + Size(d, n + 1), n + 1)
        BY <1>1, <1>4, <1>6, NextFrame
  <1>8. FrameLen(d) = Size(d, n + 1)
        BY <1>5, <1>7 DEF FrameLen, Size
  <1>9. PICK z \in Nat : z = Size(d, n + 1)
    <2>1. lens[d][n + 1] \in Nat
          BY <1>2, <1>7
    <2> QED BY <1>2, <2>1 DEF Size
  <1>10. j >= z => b + z <= b + j + h
        OBVIOUS
  <1> QED BY <1>4, <1>5, <1>7, <1>8, <1>9, <1>10

LEMMA TakesOne ==
    ASSUME IInv, NEW d \in Peers, extract_frame(d), ~TooLarge(d), HasFrame(d)
    PROVE  IInv'
  <1>1. /\ pc = d /\ pc' = d /\ sending = <<>> /\ UNCHANGED <<lens, wire, out, written>>
        /\ sending' = SubSeq(buf[d], 1, FrameLen(d))
        /\ buf' = [buf EXCEPT ![d] = SubSeq(@, FrameLen(d) + 1, Len(@))]
        BY DEF extract_frame, Take
  <1>2. Types /\ \A e \in Peers : Framed(e) /\ TakesFrames(e)
        BY DEF IInv
  <1>3. /\ out[d] \in Seq(Byte) /\ buf[d] \in Seq(Byte) /\ wire[d] \in Seq(Byte)
        /\ Len(out[d]) \in Nat /\ Len(buf[d]) \in Nat
        /\ Pending(d) = <<>> /\ Taken(d) \in Nat
        BY <1>1, <1>2, DirectionTypes DEF Pending
  <1>4. PICK n \in 0..Len(lens[d]) :
            Boundary(d, Taken(d), n) /\ \A f \in 1..n : lens[d][f] <= MAX_MESSAGE
        BY <1>2 DEF TakesFrames
  <1>5. n \in Nat /\ buf[d] # <<>>
    <2>1. Len(lens[d]) \in Nat
          BY <1>2, DirectionTypes
    <2>2. Len(buf[d]) # 0
          BY <1>3, NativeHostAssumption DEF HasFrame, HasHeader
    <2> QED BY <2>1, <2>2, EmptySeq
  <1>6. /\ n + 1 \in 1..Len(lens[d]) /\ FrameLen(d) = Size(d, n + 1)
        /\ Size(d, n + 1) \in Nat
        /\ Len(buf[d]) >= Size(d, n + 1) => Boundary(d, Taken(d) + Size(d, n + 1), n + 1)
        BY <1>4, <1>5, Header
  <1>7. PICK z \in Nat : z = FrameLen(d) /\ z = Size(d, n + 1) /\ z <= Len(buf[d])
        BY <1>3, <1>6 DEF HasFrame
  <1> DEFINE x == SubSeq(buf[d], 1, z)
             y == SubSeq(buf[d], z + 1, Len(buf[d]))
  <1>8. /\ sending' = x /\ buf' = [buf EXCEPT ![d] = y] /\ buf'[d] = y
        /\ \A e \in Peers \ {d} : buf'[e] = buf[e]
        BY <1>1, <1>2, <1>7 DEF Types
  <1>9. x \in Seq(Byte) /\ y \in Seq(Byte) /\ Len(x) = z /\ x \o y = buf[d]
    <2>1. z \in 0..Len(buf[d])
          BY <1>3, <1>7
    <2> QED BY <1>3, <2>1, Cut
  <1> HIDE DEF x, y
  <1>10. Types'
        BY <1>1, <1>2, <1>8, <1>9 DEF Types, Peers
  <1>11. /\ Pending(d)' = x
         /\ \A e \in Peers \ {d} : Pending(e)' = Pending(e)
        BY <1>1, <1>8 DEF Pending
  <1>12. TakesFrames(d)'
    <2>1. Taken(d)' = Taken(d) + z
      <3>1. Taken(d) = Len(out[d]) + 0 /\ Taken(d)' = Len(out[d]) + Len(x)
            BY <1>1, <1>3, <1>11 DEF Taken
      <3> QED BY <1>3, <1>9, <3>1
    <2>2. Boundary(d, Taken(d) + z, n + 1)
          BY <1>3, <1>6, <1>7
    <2>3. PICK b \in Nat : b = Taken(d) + z
          BY <1>3
    <2>4. Boundary(d, b, n + 1)'
          BY <1>1, <1>2, <2>2, <2>3, FramedStays
    <2>5. Boundary(d, Taken(d), n + 1)'
          BY <2>1, <2>3, <2>4 DEF Boundary
    <2>6. lens[d][n + 1] <= MAX_MESSAGE
      <3>1. ~(HeaderLen + lens[d][n + 1] > HeaderLen + MAX_MESSAGE)
            BY <1>6 DEF TooLarge, HasFrame, Size
      <3>2. lens[d][n + 1] \in Nat
            BY <1>2, <1>6, DirectionTypes
      <3> QED BY <3>1, <3>2, NativeHostAssumption
    <2>7. \A f \in 1..(n + 1) : lens'[d][f] <= MAX_MESSAGE
      <3>1. \A f \in 1..(n + 1) : f \in 1..n \/ f = n + 1
            BY <1>5
      <3> QED BY <1>1, <1>4, <2>6, <3>1
    <2>8. n + 1 \in 0..Len(lens'[d])
          BY <1>1, <1>6
    <2> QED BY <1>1, <2>5, <2>7, <2>8 DEF TakesFrames
  <1>13. ASSUME NEW e \in Peers PROVE TakesFrames(e)'
    <2>1. CASE e # d
      <3>1. Taken(e)' = Taken(e) /\ (pc' # e => Len(buf[e])' = Len(buf[e]) /\ pc # e)
            BY <1>1, <1>8, <1>11, <2>1 DEF Taken
      <3> QED BY <1>1, <1>2, <3>1, TakesStays
    <2> QED BY <1>12, <2>1
  <1>14. ASSUME NEW e \in Peers PROVE Moved(e)' = Moved(e)
    <2>1. CASE e # d
          BY <1>1, <1>8, <1>11, <2>1 DEF Moved
    <2>2. CASE e = d
      <3>1. (out[d] \o x) \o y = out[d] \o (x \o y)
        <4>1. out[d] \in Seq(Byte) /\ x \in Seq(Byte) /\ y \in Seq(Byte)
              BY <1>3, <1>9
        <4> QED BY <4>1, Joined
      <3>2. out[d] \o <<>> = out[d]
            BY <1>3, ConcatEmptySeq
      <3>3. Moved(d)' = ((out[d] \o x) \o y) \o wire[d]
            BY <1>1, <1>8, <1>11 DEF Moved
      <3>4. Moved(d) = (out[d] \o buf[d]) \o wire[d]
            BY <1>3, <3>2 DEF Moved
      <3> QED BY <1>9, <2>2, <3>1, <3>3, <3>4
    <2> QED BY <2>1, <2>2
  <1> QED BY <1>1, <1>10, <1>13, <1>14, MovesBytes

\* Nothing of the streams changes, and no direction is turned away from.
LEMMA Quiet ==
    ASSUME IInv, UNCHANGED <<lens, wire, buf, pc, sending, out, written>>
    PROVE  IInv'
  <1>1. Types'
        BY DEF IInv, Types
  <1>2. \A e \in Peers : Pending(e)' = Pending(e) /\ Taken(e)' = Taken(e) /\ Moved(e)' = Moved(e)
        BY DEF Pending, Taken, Moved
  <1>3. ASSUME NEW e \in Peers PROVE TakesFrames(e)'
    <2>1. pc' # e => Len(buf[e])' = Len(buf[e]) /\ pc # e
          OBVIOUS
    <2> QED BY <1>2, <2>1, TakesStays DEF IInv
  <1> QED BY <1>1, <1>2, <1>3, MovesBytes

LEMMA TurnsAway ==
    ASSUME IInv, NEW d \in Peers, extract_frame(d), ~TooLarge(d), ~HasFrame(d)
    PROVE  IInv'
  <1>1. /\ pc = d /\ pc' = "select" /\ sending = <<>>
        /\ UNCHANGED <<lens, wire, buf, sending, out, written>>
        BY DEF extract_frame
  <1>2. Types /\ \A e \in Peers : Framed(e) /\ TakesFrames(e)
        BY DEF IInv
  <1>3. Types'
        BY <1>1, <1>2 DEF Types
  <1>4. \A e \in Peers : Pending(e)' = Pending(e) /\ Taken(e)' = Taken(e) /\ Moved(e)' = Moved(e)
        BY <1>1 DEF Pending, Taken, Moved
  <1>5. TakesFrames(d)'
    <2>1. PICK n \in 0..Len(lens[d]) :
              Boundary(d, Taken(d), n) /\ \A f \in 1..n : lens[d][f] <= MAX_MESSAGE
          BY <1>2 DEF TakesFrames
    <2>2. /\ buf[d] \in Seq(Byte) /\ lens[d] \in Seq(Nat) /\ Len(lens[d]) \in Nat
          /\ Len(buf[d]) \in Nat /\ HeaderLen \in Nat \ {0}
          BY <1>2, DirectionTypes
    <2>3. ASSUME n < Len(lens[d]) PROVE Len(buf[d]) < Size(d, n + 1)
      <3>1. lens[d][n + 1] \in Nat
            BY <2>2, <2>3
      <3>2. HeaderLen <= Size(d, n + 1) /\ Size(d, n + 1) \in Nat
            BY <2>2, <3>1 DEF Size
      <3>3. CASE ~HasHeader(d)
            BY <2>2, <3>2, <3>3 DEF HasHeader
      <3>4. CASE HasHeader(d)
        <4>1. buf[d] # <<>>
          <5>1. Len(buf[d]) # 0
                BY <2>2, <3>4 DEF HasHeader
          <5> QED BY <5>1, EmptySeq
        <4>2. n \in Nat
              BY <2>2
        <4>3. FrameLen(d) = Size(d, n + 1)
              BY <2>1, <4>1, <4>2, Header
        <4> QED BY <2>2, <3>2, <3>4, <4>3 DEF HasFrame
      <3> QED BY <3>3, <3>4
    <2>4. /\ \A b, k : Boundary(d, b, k)' <=> Boundary(d, b, k)
          /\ \A f : Size(d, f)' = Size(d, f)
          BY <1>1, <1>2, FramedStays
    <2>5. Boundary(d, Taken(d), n)'
          BY <1>1, <1>4, <2>1 DEF Boundary, LastByte
    <2> QED BY <1>1, <2>1, <2>3, <2>4, <2>5 DEF TakesFrames
  <1>6. ASSUME NEW e \in Peers PROVE TakesFrames(e)'
    <2>1. CASE e # d
      <3>1. pc' # e => Len(buf[e])' = Len(buf[e]) /\ pc # e
            BY <1>1, <2>1
      <3> QED BY <1>1, <1>2, <1>4, <3>1, TakesStays
    <2> QED BY <1>5, <2>1
  <1> QED BY <1>1, <1>3, <1>4, <1>6, MovesBytes

LEMMA WritesOn ==
    ASSUME IInv, NEW d \in Peers, HostWrites(d)
    PROVE  IInv'
  <1>1. PICK k \in 1..Len(sending) :
            /\ out' = [out EXCEPT ![d] = @ \o SubSeq(sending, 1, k)]
            /\ sending' = SubSeq(sending, k + 1, Len(sending))
        BY DEF HostWrites
  <1>2. pc = d /\ UNCHANGED <<lens, wire, buf, pc, written>>
        BY DEF HostWrites
  <1>3. Types /\ \A e \in Peers : Framed(e) /\ TakesFrames(e)
        BY DEF IInv
  <1>4. /\ out[d] \in Seq(Byte) /\ sending \in Seq(Byte) /\ Len(sending) \in Nat
        /\ Len(out[d]) \in Nat /\ Pending(d) = sending
        BY <1>2, <1>3, DirectionTypes, LenProperties DEF Types, Pending
  <1> DEFINE x == SubSeq(sending, 1, k)
             y == SubSeq(sending, k + 1, Len(sending))
  <1>5. /\ out' = [out EXCEPT ![d] = out[d] \o x] /\ out'[d] = out[d] \o x /\ sending' = y
        /\ \A e \in Peers \ {d} : out'[e] = out[e]
        BY <1>1, <1>3 DEF Types
  <1>6. /\ x \in Seq(Byte) /\ y \in Seq(Byte) /\ x \o y = sending
        /\ Len(x) = k /\ Len(y) = Len(sending) - k
    <2>1. k \in 0..Len(sending)
          BY <1>4
    <2> QED BY <1>4, <2>1, Cut
  <1> HIDE DEF x, y
  <1>7. /\ out[d] \o x \in Seq(Byte) /\ Len(out[d] \o x) = Len(out[d]) + k
        /\ (out[d] \o x) \o y = out[d] \o (x \o y)
        BY <1>4, <1>6, Joined
  <1>8. Types'
        BY <1>2, <1>3, <1>5, <1>6, <1>7 DEF Types, Peers
  <1>9. Pending(d)' = y /\ \A e \in Peers \ {d} : Pending(e)' = Pending(e)
        BY <1>2, <1>5 DEF Pending
  <1>10. ASSUME NEW e \in Peers PROVE Taken(e)' = Taken(e) /\ Moved(e)' = Moved(e)
    <2>1. CASE e # d
          BY <1>2, <1>5, <1>9, <2>1 DEF Taken, Moved
    <2>2. CASE e = d
      <3>1. Taken(d) = Len(out[d]) + Len(sending) /\ Taken(d)' = (Len(out[d]) + k) + Len(y)
            BY <1>4, <1>5, <1>7, <1>9 DEF Taken
      <3>2. Taken(d)' = Taken(d)
            BY <1>4, <1>6, <3>1
      <3>3. Moved(d)' = (((out[d] \o x) \o y) \o buf[d]) \o wire[d]
            BY <1>2, <1>5, <1>9 DEF Moved
      <3>4. Moved(d) = ((out[d] \o sending) \o buf[d]) \o wire[d]
            BY <1>4 DEF Moved
      <3> QED BY <1>6, <1>7, <2>2, <3>2, <3>3, <3>4
    <2> QED BY <2>1, <2>2
  <1>11. ASSUME NEW e \in Peers PROVE TakesFrames(e)'
    <2>1. pc' # e => Len(buf[e])' = Len(buf[e]) /\ pc # e
          BY <1>2
    <2> QED BY <1>2, <1>3, <1>10, <2>1, TakesStays
  <1> QED BY <1>2, <1>8, <1>10, <1>11, MovesBytes

LEMMA Inductive == IInv /\ [Next]_vars => IInv'
  <1> SUFFICES ASSUME IInv, [Next]_vars PROVE IInv'
        OBVIOUS
  <1>1. ASSUME NEW d \in Peers, NEW n \in Lens, PeerWrites(d, n) PROVE IInv'
        BY <1>1, Writes
  <1>2. ASSUME NEW d \in Peers, PeerReads(d) \/ PeerCloses(d) PROVE IInv'
        BY <1>2, Quiet DEF PeerReads, PeerCloses
  <1>3. ASSUME NEW d \in Peers, HostReads(d) PROVE IInv'
        BY <1>3, Reads
  <1>4. ASSUME NEW d \in Peers, HostEof(d) \/ WriteFails(d) PROVE IInv'
        BY <1>4, Quiet DEF HostEof, WriteFails
  <1>5. ASSUME NEW d \in Peers, extract_frame(d) PROVE IInv'
    <2>1. CASE TooLarge(d)
          BY <1>5, <2>1, Quiet DEF extract_frame
    <2>2. CASE ~TooLarge(d) /\ HasFrame(d)
          BY <1>5, <2>2, TakesOne
    <2>3. CASE ~TooLarge(d) /\ ~HasFrame(d)
          BY <1>5, <2>3, TurnsAway
    <2> QED BY <2>1, <2>2, <2>3
  <1>6. ASSUME NEW d \in Peers, HostWrites(d) PROVE IInv'
        BY <1>6, WritesOn
  <1>7. CASE UNCHANGED vars
        BY <1>7, Quiet DEF vars
  <1> QED BY <1>1, <1>2, <1>3, <1>4, <1>5, <1>6, <1>7 DEF Next

-----------------------------------------------------------------------------
\* The inductive invariant holds throughout every run of the host.
THEOREM Invariance == Spec => []IInv
  BY Initially, Inductive, PTL DEF Spec

(***************************************************************************)
(* Every byte a peer has written is, in order and once, with the other     *)
(* peer, in the frame being written, in the buffer or on the wire.         *)
(***************************************************************************)
THEOREM ForwardsVerbatim == Spec => []Verbatim
  <1>1. IInv => Verbatim
        BY DEF IInv
  <1> QED BY <1>1, Invariance, PTL

(***************************************************************************)
(* bridge waits in select() only with whole, legal frames forwarded and no *)
(* whole frame in either buffer.                                           *)
(***************************************************************************)
THEOREM WaitsAtFrames == Spec => []WholeFrames
  <1>1. IInv => WholeFrames
    <2> SUFFICES ASSUME IInv, pc = "select", NEW d \in Peers
                 PROVE  \E n \in 0..Len(lens[d]) :
                            /\ EndsWith(out[d], d, n)
                            /\ \A f \in 1..n : lens[d][f] <= MAX_MESSAGE
                            /\ n < Len(lens[d]) => Len(buf[d]) < HeaderLen + lens[d][n + 1]
          BY DEF WholeFrames
    <2>1. PICK n \in 0..Len(lens[d]) :
              /\ Boundary(d, Taken(d), n)
              /\ \A f \in 1..n : lens[d][f] <= MAX_MESSAGE
              /\ pc # d /\ n < Len(lens[d]) => Len(buf[d]) < Size(d, n + 1)
          BY DEF IInv, TakesFrames
    <2>2. pc # d /\ Pending(d) = <<>>
          BY DEF Peers, Pending
    <2>3. out[d] \in Seq(Byte) /\ Len(out[d]) \in Nat
          BY DirectionTypes DEF IInv
    <2>4. Taken(d) = Len(out[d])
          BY <2>2, <2>3 DEF Taken
    <2>5. EndsWith(out[d], d, n)
      <3>1. CASE n = 0
        <4>1. Len(out[d]) = 0
              BY <2>1, <2>4, <3>1 DEF Boundary
        <4>2. out[d] = <<>>
              BY <2>3, <4>1, EmptySeq
        <4> QED BY <3>1, <4>2 DEF EndsWith
      <3>2. CASE n # 0
        <4>1. Len(out[d]) \in 1..Len(written[d]) /\ written[d][Len(out[d])] = LastByte(d, n)
              BY <2>1, <2>4, <3>2 DEF Boundary
        <4>2. Len(out[d]) \in 1..Len(out[d])
              BY <2>3, <4>1
        <4>3. \A i \in 1..Len(out[d]) : out[d][i] = written[d][i]
              BY BufferPlace DEF IInv
        <4>4. out[d] # <<>> /\ out[d][Len(out[d])] = LastByte(d, n)
              BY <4>1, <4>2, <4>3, EmptySeq
        <4> QED BY <3>2, <4>4 DEF EndsWith
      <3> QED BY <3>1, <3>2
    <2> QED BY <2>1, <2>2, <2>5 DEF Size
  <1> QED BY <1>1, Invariance, PTL
=============================================================================
