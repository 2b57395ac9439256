-------------------------- MODULE ClientLoopProofs --------------------------
(***************************************************************************)
(* Proofs about ClientLoop: the methods of a client's messages run in the  *)
(* order of the messages, the responses come back in that order, and no    *)
(* message vanishes, for any number of frames and of time-outs and any     *)
(* capacity of the write buffer.                                           *)
(***************************************************************************)
EXTENDS ClientLoop, TLAPS

Call == [op : {"poll"}, live : BOOLEAN] \cup [op : {"push"}, frame : Nat]
Reply == [live : BOOLEAN, ok : BOOLEAN, frames : Seq(Nat)]

Below(S, T) == \A x \in S, y \in T : x < y

\* The frames that the answers a carry, and that they carry them in order.
Carried(a) == UNION {ToSet(a[i].frames) : i \in 1..Len(a)}

InTurn(a) ==
    /\ \A i \in 1..Len(a) : Increasing(a[i].frames)
    /\ \A i, j \in 1..Len(a) :
          i < j => Below(ToSet(a[i].frames), ToSet(a[j].frames))

Types ==
    /\ sent \in Seq(Kinds) /\ ran \in Seq(Nat) /\ batch \in Seq(Nat)
    /\ queue \in Seq(Nat) /\ tx \in Seq(Nat) /\ got \in Seq(Nat)
    /\ bus \in Seq(Call) /\ answers \in Seq(Reply)
    /\ armed \in {"none", "live", "stale"}

\* A deferred poll found the buffer empty; only a dispatching loop has messages.
HandsEmpty ==
    /\ armed # "none" => queue = <<>>
    /\ loop # "dispatch" => batch = <<>>

\* The way of a frame: the read buffer, an answer, the loop, its methods.
FramesInTurn ==
    /\ Increasing(ran) /\ Increasing(batch) /\ InTurn(answers) /\ Increasing(queue)
    /\ Below(ToSet(ran), ToSet(batch) \cup Answering \cup ToSet(queue))
    /\ Below(ToSet(batch), Answering \cup ToSet(queue))
    /\ Below(Answering, ToSet(queue))

\* The frames of the responses that the calls b carry, and their order.
Places(b) == {i \in 1..Len(b) : b[i].op = "push"}
Pushed(b) == {b[i].frame : i \in Places(b)}
PushedInTurn(b) == \A i, j \in Places(b) : i < j => b[i].frame < b[j].frame

Responses == ToSet(got) \cup ToSet(tx) \cup Pushed(bus)

\* The way of a response: the bus, the write buffer, the client.
ResponsesInTurn ==
    /\ Increasing(got) /\ Increasing(tx) /\ PushedInTurn(bus)
    /\ Below(ToSet(got), ToSet(tx) \cup Pushed(bus)) /\ Below(ToSet(tx), Pushed(bus))
    /\ Responses \subseteq ToSet(ran)
    /\ \A f \in Responses : sent[f] \in {"call", "mixed"}

IInv == Types /\ HandsEmpty /\ NoneVanishes /\ FramesInTurn /\ ResponsesInTurn

-----------------------------------------------------------------------------
(***************************************************************************)
(* Sequences of frames.                                                    *)
(***************************************************************************)
LEMMA ToSetAppend ==
    ASSUME NEW S, NEW s \in Seq(S), NEW x \in S
    PROVE  /\ Append(s, x) \in Seq(S)
           /\ ToSet(Append(s, x)) = ToSet(s) \cup {x}
  <1>1. /\ Append(s, x) \in Seq(S) /\ DOMAIN Append(s, x) = 1..(Len(s) + 1)
        /\ DOMAIN s = 1..Len(s) /\ Len(s) \in Nat
        /\ \A i \in 1..Len(s) : Append(s, x)[i] = s[i]
        /\ Append(s, x)[Len(s) + 1] = x
        OBVIOUS
  <1>2. 1..(Len(s) + 1) = 1..Len(s) \cup {Len(s) + 1}
        BY <1>1
  <1> DEFINE u == Append(s, x)
             n == Len(s) + 1
  <1>3. \A i \in 1..n : u[i] \in ToSet(s) \cup {x}
        BY <1>1, <1>2 DEF ToSet
  <1>4. /\ \A i \in 1..Len(s) : s[i] \in ToSet(u)
        /\ x \in ToSet(u)
        BY <1>1, <1>2 DEF ToSet
  <1> HIDE DEF u
  <1>5. ToSet(u) \subseteq ToSet(s) \cup {x}
        BY <1>1, <1>3 DEF ToSet, u
  <1>6. ToSet(s) \subseteq ToSet(u)
        BY <1>1, <1>4 DEF ToSet
  <1> QED BY <1>1, <1>4, <1>5, <1>6 DEF u

LEMMA ToSetTail ==
    ASSUME NEW S, NEW s \in Seq(S), s # <<>>
    PROVE  /\ Head(s) \in S /\ Tail(s) \in Seq(S)
           /\ ToSet(s) = {Head(s)} \cup ToSet(Tail(s))
  <1>1. /\ Head(s) = s[1] /\ Len(s) \in Nat \ {0} /\ DOMAIN s = 1..Len(s)
        /\ Tail(s) \in Seq(S) /\ DOMAIN Tail(s) = 1..(Len(s) - 1)
        /\ \A i \in 1..(Len(s) - 1) : Tail(s)[i] = s[i + 1]
        /\ Head(s) \in S
        OBVIOUS
  <1>2. ASSUME NEW i \in 1..Len(s)
        PROVE  s[i] \in {Head(s)} \cup ToSet(Tail(s))
    <2>1. CASE i = 1
          BY <1>1, <2>1
    <2>2. CASE i # 1
      <3>1. i - 1 \in 1..(Len(s) - 1) /\ Tail(s)[i - 1] = s[i]
            BY <1>1, <2>2
      <3> QED BY <1>1, <3>1 DEF ToSet
    <2> QED BY <2>1, <2>2
  <1>3. ASSUME NEW i \in 1..(Len(s) - 1)
        PROVE  Tail(s)[i] \in ToSet(s)
        BY <1>1 DEF ToSet
  <1>4. Head(s) \in ToSet(s)
        BY <1>1 DEF ToSet
  <1> QED BY <1>1, <1>2, <1>3, <1>4, Zenon DEF ToSet

LEMMA ToSetType ==
    ASSUME NEW S, NEW s \in Seq(S)
    PROVE  ToSet(s) \subseteq S
  BY DEF ToSet

LEMMA ToSetEmpty == ToSet(<<>>) = {} /\ Increasing(<<>>)
  BY DEF ToSet, Increasing

LEMMA IncreasingAppend ==
    ASSUME NEW s \in Seq(Nat), NEW x \in Nat, Increasing(s), Below(ToSet(s), {x})
    PROVE  Increasing(Append(s, x))
  <1>1. \A i \in 1..Len(s) : s[i] < x
        BY DEF Below, ToSet
  <1> QED BY <1>1 DEF Increasing

LEMMA IncreasingTail ==
    ASSUME NEW s \in Seq(Nat), s # <<>>, Increasing(s)
    PROVE  Increasing(Tail(s)) /\ Below({Head(s)}, ToSet(Tail(s)))
  <1>1. Increasing(Tail(s)) /\ \A i \in 1..Len(Tail(s)) : Head(s) < Tail(s)[i]
        BY DEF Increasing
  <1>2. DOMAIN Tail(s) = 1..Len(Tail(s))
        OBVIOUS
  <1> QED BY <1>1, <1>2 DEF Below, ToSet

LEMMA IncreasingConcat ==
    ASSUME NEW s \in Seq(Nat), NEW t \in Seq(Nat), Increasing(s), Increasing(t),
           Below(ToSet(s), ToSet(t))
    PROVE  /\ s \o t \in Seq(Nat) /\ Increasing(s \o t)
           /\ ToSet(s \o t) = ToSet(s) \cup ToSet(t)
  <1>1. /\ s \o t \in Seq(Nat) /\ DOMAIN (s \o t) = 1..(Len(s) + Len(t))
        /\ Len(s \o t) = Len(s) + Len(t) /\ Len(s) \in Nat /\ Len(t) \in Nat
        /\ DOMAIN s = 1..Len(s) /\ DOMAIN t = 1..Len(t)
        /\ \A i \in 1..Len(s) : (s \o t)[i] = s[i]
        /\ \A i \in (Len(s) + 1)..(Len(s) + Len(t)) : (s \o t)[i] = t[i - Len(s)]
        OBVIOUS
  <1> DEFINE u == s \o t
  <1> HIDE DEF u
  <1>2. ASSUME NEW i \in 1..Len(u), NEW j \in 1..Len(u), i < j
        PROVE  u[i] < u[j]
    <2>1. CASE j <= Len(s)
          BY <1>1, <1>2, <2>1 DEF u, Increasing
    <2>2. CASE i > Len(s)
      <3>1. /\ u[i] = t[i - Len(s)] /\ u[j] = t[j - Len(s)]
            /\ i - Len(s) \in 1..Len(t) /\ j - Len(s) \in 1..Len(t)
            /\ i - Len(s) < j - Len(s)
            BY <1>1, <1>2, <2>2 DEF u
      <3> QED BY <3>1 DEF Increasing
    <2>3. CASE i <= Len(s) /\ j > Len(s)
      <3>1. /\ u[i] = s[i] /\ u[j] = t[j - Len(s)]
            /\ i \in DOMAIN s /\ j - Len(s) \in DOMAIN t
            BY <1>1, <1>2, <2>3 DEF u
      <3>2. u[i] \in ToSet(s) /\ u[j] \in ToSet(t)
            BY <3>1 DEF ToSet
      <3> QED BY <3>2 DEF Below
    <2> QED BY <1>1, <2>1, <2>2, <2>3 DEF u
  <1>3. ASSUME NEW i \in 1..Len(u)
        PROVE  u[i] \in ToSet(s) \cup ToSet(t)
    <2>1. CASE i <= Len(s)
          BY <1>1, <2>1 DEF u, ToSet
    <2>2. CASE i > Len(s)
      <3>1. i - Len(s) \in DOMAIN t /\ u[i] = t[i - Len(s)]
            BY <1>1, <2>2 DEF u
      <3> QED BY <3>1 DEF ToSet
    <2> QED BY <1>1, <2>1, <2>2 DEF u
  <1>4. ToSet(s) \subseteq ToSet(u)
        BY <1>1 DEF u, ToSet
  <1>5. ASSUME NEW k \in 1..Len(t)
        PROVE  t[k] \in ToSet(u)
    <2>1. k + Len(s) \in DOMAIN u /\ u[k + Len(s)] = t[k]
          BY <1>1 DEF u
    <2> QED BY <2>1 DEF ToSet
  <1>6. ToSet(u) = ToSet(s) \cup ToSet(t)
    <2>1. DOMAIN u = 1..Len(u)
          BY <1>1 DEF u
    <2>2. ToSet(u) \subseteq ToSet(s) \cup ToSet(t)
          BY <1>3, <2>1, Zenon DEF ToSet
    <2>3. ToSet(t) \subseteq ToSet(u)
          BY <1>1, <1>5, Zenon DEF ToSet
    <2> QED BY <1>4, <2>2, <2>3
  <1> QED BY <1>1, <1>2, <1>6 DEF u, Increasing

-----------------------------------------------------------------------------
(***************************************************************************)
(* Sequences of answers.                                                   *)
(***************************************************************************)
LEMMA CarriedAppend ==
    ASSUME NEW a \in Seq(Reply), NEW r \in Reply, InTurn(a),
           Increasing(r.frames), Below(Carried(a), ToSet(r.frames))
    PROVE  /\ Append(a, r) \in Seq(Reply) /\ InTurn(Append(a, r))
           /\ Carried(Append(a, r)) = Carried(a) \cup ToSet(r.frames)
  <1> DEFINE b == Append(a, r)
             n == Len(a) + 1
  <1>1. /\ b \in Seq(Reply) /\ Len(b) = n /\ Len(a) \in Nat
        /\ \A i \in 1..Len(a) : b[i] = a[i]
        /\ b[n] = r
        OBVIOUS
  <1> HIDE DEF b
  <1>2. 1..n = 1..Len(a) \cup {n}
        BY <1>1
  <1>3. \A i \in 1..n : i # n => i \in 1..Len(a) /\ b[i] = a[i]
        BY <1>1
  <1> HIDE DEF n
  <1>4. Carried(b) = Carried(a) \cup ToSet(r.frames)
    <2>1. \A i \in 1..Len(a) : i \in 1..n /\ ToSet(b[i].frames) = ToSet(a[i].frames)
          BY <1>1, <1>2
    <2>2. n \in 1..n /\ ToSet(b[n].frames) = ToSet(r.frames)
          BY <1>1, <1>2
    <2>3. \A x : x \in Carried(b) <=> \E i \in 1..n : x \in ToSet(b[i].frames)
          BY <1>1 DEF Carried
    <2>4. \A x : x \in Carried(a) <=> \E i \in 1..Len(a) : x \in ToSet(a[i].frames)
          BY DEF Carried
    <2> QED BY <1>2, <2>1, <2>2, <2>3, <2>4
  <1>5. \A i \in 1..Len(b) : Increasing(b[i].frames)
        BY <1>1, <1>2 DEF InTurn
  <1>6. ASSUME NEW i \in 1..Len(b), NEW j \in 1..Len(b), i < j
        PROVE  Below(ToSet(b[i].frames), ToSet(b[j].frames))
    <2>1. i # n /\ i \in 1..Len(a) /\ b[i] = a[i]
          BY <1>1, <1>3, <1>6 DEF n
    <2>2. CASE j = n
      <3>1. ToSet(a[i].frames) \subseteq Carried(a)
            BY <2>1 DEF Carried
      <3> QED BY <1>1, <2>1, <2>2, <3>1 DEF Below
    <2>3. CASE j # n
          BY <1>1, <1>3, <1>6, <2>1, <2>3 DEF InTurn
    <2> QED BY <2>2, <2>3
  <1> QED BY <1>1, <1>4, <1>5, <1>6 DEF InTurn, b

LEMMA CarriedTail ==
    ASSUME NEW a \in Seq(Reply), a # <<>>, InTurn(a)
    PROVE  /\ Head(a) \in Reply /\ Tail(a) \in Seq(Reply) /\ InTurn(Tail(a))
           /\ Increasing(Head(a).frames)
           /\ Carried(a) = ToSet(Head(a).frames) \cup Carried(Tail(a))
           /\ Below(ToSet(Head(a).frames), Carried(Tail(a)))
  <1> DEFINE b == Tail(a)
             h == Head(a)
             m == Len(a) - 1
  <1>1. /\ h \in Reply /\ h = a[1] /\ 1 \in 1..Len(a)
        /\ b \in Seq(Reply) /\ Len(b) = m /\ Len(a) \in Nat
        /\ \A i \in 1..m : b[i] = a[i + 1] /\ i + 1 \in 1..Len(a) /\ 1 < i + 1
        /\ \A i \in 1..Len(a) : i # 1 => \E k \in 1..m : a[i] = b[k]
    <2>1. /\ h \in Reply /\ h = a[1] /\ 1 \in 1..Len(a)
          /\ b \in Seq(Reply) /\ Len(b) = m /\ Len(a) \in Nat
          /\ \A i \in 1..m : b[i] = a[i + 1] /\ i + 1 \in 1..Len(a) /\ 1 < i + 1
          OBVIOUS
    <2>2. ASSUME NEW i \in 1..Len(a), i # 1
          PROVE  i - 1 \in 1..m /\ (i - 1) + 1 = i
          BY <2>1, <2>2
    <2> QED BY <2>1, <2>2
  <1>2. \A i, j \in 1..m : i < j => i + 1 < j + 1
        BY <1>1
  <1> HIDE DEF b, h, m
  <1>3. Increasing(h.frames) /\ \A i \in 1..m : Increasing(b[i].frames)
        BY <1>1 DEF InTurn
  <1>4. ASSUME NEW i \in 1..m, NEW j \in 1..m, i < j
        PROVE  Below(ToSet(b[i].frames), ToSet(b[j].frames))
        BY <1>1, <1>2, <1>4 DEF InTurn
  <1>5. Carried(a) = ToSet(h.frames) \cup Carried(b)
    <2>1. Carried(a) \subseteq ToSet(h.frames) \cup Carried(b)
      <3> SUFFICES ASSUME NEW i \in 1..Len(a)
                   PROVE  ToSet(a[i].frames) \subseteq ToSet(h.frames) \cup Carried(b)
            BY Zenon DEF Carried
      <3>1. CASE i = 1
            BY <1>1, <3>1
      <3>2. CASE i # 1
            BY <1>1, <3>2, Zenon DEF Carried
      <3> QED BY <3>1, <3>2
    <2>2. ToSet(h.frames) \subseteq Carried(a)
          BY <1>1, Zenon DEF Carried
    <2>3. Carried(b) \subseteq Carried(a)
          BY <1>1, Zenon DEF Carried
    <2> QED BY <2>1, <2>2, <2>3
  <1>6. Below(ToSet(h.frames), Carried(b))
    <2>1. ASSUME NEW i \in 1..m
          PROVE  Below(ToSet(h.frames), ToSet(b[i].frames))
          BY <1>1 DEF InTurn
    <2> QED BY <1>1, <2>1 DEF Below, Carried
  <1> QED BY <1>1, <1>3, <1>4, <1>5, <1>6 DEF InTurn, b, h

\* Giving a call up changes nothing of what its answer carries.
LEMMA CarriedGivenUp ==
    ASSUME NEW a \in Seq(Reply), NEW b, InTurn(a),
           b = [i \in 1..Len(a) |-> [a[i] EXCEPT !.live = FALSE]]
    PROVE  b \in Seq(Reply) /\ InTurn(b) /\ Carried(b) = Carried(a)
  <1>1. /\ b \in Seq(Reply) /\ Len(b) = Len(a)
        /\ \A i \in 1..Len(a) : b[i].frames = a[i].frames
    <2>1. \A i \in 1..Len(a) : a[i] \in Reply
          OBVIOUS
    <2>2. ASSUME NEW i \in 1..Len(a)
          PROVE  b[i] \in Reply /\ b[i].frames = a[i].frames
          BY <2>1 DEF Reply
    <2>3. Len(a) \in Nat /\ DOMAIN b = 1..Len(a)
          OBVIOUS
    <2> QED BY <2>2, <2>3
  <1> QED BY <1>1 DEF InTurn, Carried

-----------------------------------------------------------------------------
(***************************************************************************)
(* Sequences of calls.                                                     *)
(***************************************************************************)
LEMMA CallTypes ==
    /\ \A live \in BOOLEAN : Poll(live) \in Call /\ Poll(live).op # "push"
    /\ \A f \in Nat : Push(f) \in Call /\ Push(f).op = "push" /\ Push(f).frame = f
    /\ \A c \in Call : c.op = "push" => c.frame \in Nat
  BY DEF Call, Poll, Push

LEMMA PushedType ==
    ASSUME NEW b \in Seq(Call)
    PROVE  Pushed(b) \subseteq Nat
  BY CallTypes DEF Pushed, Places

LEMMA PushedAppend ==
    ASSUME NEW b \in Seq(Call), NEW c \in Call, PushedInTurn(b),
           c.op = "push" => Below(Pushed(b), {c.frame})
    PROVE  /\ Append(b, c) \in Seq(Call) /\ PushedInTurn(Append(b, c))
           /\ c.op = "push" => Pushed(Append(b, c)) = Pushed(b) \cup {c.frame}
           /\ c.op # "push" => Pushed(Append(b, c)) = Pushed(b)
  <1> DEFINE d == Append(b, c)
             n == Len(b) + 1
  <1>1. /\ d \in Seq(Call) /\ Len(d) = n /\ Len(b) \in Nat
        /\ \A i \in 1..Len(b) : d[i] = b[i]
        /\ d[n] = c
        OBVIOUS
  <1> HIDE DEF d
  <1>2. /\ \A i \in 1..Len(b) : i \in 1..n /\ i < n
        /\ \A i \in 1..n : i # n => i \in 1..Len(b)
        /\ \A i \in 1..n : ~(n < i)
        /\ n \in 1..n
        BY <1>1
  <1> HIDE DEF n
  <1>3. /\ Places(b) \subseteq Places(d)
        /\ \A i \in Places(d) : i # n => i \in Places(b) /\ d[i] = b[i]
        /\ n \in Places(d) <=> c.op = "push"
        /\ \A i \in Places(d) : ~(n < i)
        /\ \A i \in Places(b) : d[i] = b[i]
        BY <1>1, <1>2 DEF Places
  <1>4. \A x : x \in Pushed(d) <=> \E i \in Places(d) : x = d[i].frame
        BY DEF Pushed
  <1>5. \A x : x \in Pushed(b) <=> \E i \in Places(b) : x = b[i].frame
        BY DEF Pushed
  <1>6. PushedInTurn(d)
    <2> SUFFICES ASSUME NEW i \in Places(d), NEW j \in Places(d), i < j
                 PROVE  d[i].frame < d[j].frame
          BY DEF PushedInTurn
    <2>1. i # n /\ i \in Places(b) /\ d[i] = b[i]
          BY <1>3
    <2>2. CASE j = n
          BY <1>1, <1>3, <1>5, <2>1, <2>2 DEF Below
    <2>3. CASE j # n
          BY <1>3, <2>1, <2>3 DEF PushedInTurn
    <2> QED BY <2>2, <2>3
  <1>7. c.op = "push" => Pushed(d) = Pushed(b) \cup {c.frame}
        BY <1>1, <1>3, <1>4, <1>5
  <1>8. c.op # "push" => Pushed(d) = Pushed(b)
        BY <1>1, <1>3, <1>4, <1>5
  <1> QED BY <1>1, <1>6, <1>7, <1>8 DEF d

LEMMA PushedTail ==
    ASSUME NEW b \in Seq(Call), b # <<>>, PushedInTurn(b)
    PROVE  /\ Head(b) \in Call /\ Tail(b) \in Seq(Call) /\ PushedInTurn(Tail(b))
           /\ Pushed(Tail(b)) \subseteq Pushed(b)
           /\ Head(b).op = "push" => /\ Head(b).frame \in Pushed(b)
                                     /\ Below({Head(b).frame}, Pushed(Tail(b)))
  <1> DEFINE d == Tail(b)
             h == Head(b)
             m == Len(b) - 1
  <1>1. /\ h \in Call /\ h = b[1] /\ 1 \in 1..Len(b)
        /\ d \in Seq(Call) /\ Len(d) = m
        /\ \A i \in 1..m : d[i] = b[i + 1] /\ i + 1 \in 1..Len(b) /\ 1 < i + 1
        /\ \A i, j \in 1..m : i < j => i + 1 < j + 1
        OBVIOUS
  <1> HIDE DEF d, h, m
  <1>2. \A i \in Places(d) : i \in 1..m /\ i + 1 \in Places(b) /\ d[i] = b[i + 1]
        BY <1>1 DEF Places
  <1>3. PushedInTurn(d)
        BY <1>1, <1>2 DEF PushedInTurn
  <1>4. Pushed(d) \subseteq Pushed(b)
        BY <1>2 DEF Pushed
  <1>5. ASSUME h.op = "push"
        PROVE  h.frame \in Pushed(b) /\ Below({h.frame}, Pushed(d))
    <2>1. 1 \in Places(b)
          BY <1>1, <1>5 DEF Places
    <2> QED BY <1>1, <1>2, <2>1 DEF Pushed, Below, PushedInTurn
  <1> QED BY <1>1, <1>3, <1>4, <1>5 DEF d, h

LEMMA FunctionIsSeq ==
    ASSUME NEW S, NEW n \in Nat, NEW d \in [1..n -> S]
    PROVE  d \in Seq(S) /\ Len(d) = n
  OBVIOUS

LEMMA PushedGivenUp ==
    ASSUME NEW b \in Seq(Call), NEW d, PushedInTurn(b),
           d = [i \in 1..Len(b) |-> IF b[i].op = "poll" THEN Poll(FALSE) ELSE b[i]]
    PROVE  d \in Seq(Call) /\ PushedInTurn(d) /\ Pushed(d) = Pushed(b)
  <1>1. \A i \in 1..Len(b) : b[i] \in Call
        OBVIOUS
  <1>2. ASSUME NEW i \in 1..Len(b)
        PROVE  /\ d[i] \in Call /\ d[i].op = b[i].op
               /\ d[i].op = "push" => d[i] = b[i]
        BY <1>1 DEF Poll, Call
  <1>3. Len(b) \in Nat
        OBVIOUS
  <1>4. d \in Seq(Call) /\ Len(d) = Len(b)
    <2>1. d \in [1..Len(b) -> Call]
          BY <1>2, Zenon
    <2> QED BY <1>3, <2>1, FunctionIsSeq
  <1>5. Places(d) = Places(b) /\ \A i \in Places(b) : d[i] = b[i]
        BY <1>2, <1>4 DEF Places
  <1> QED BY <1>4, <1>5 DEF PushedInTurn, Pushed

-----------------------------------------------------------------------------
(***************************************************************************)
(* The invariant.                                                          *)
(***************************************************************************)
LEMMA Initially == Init => IInv
  <1> SUFFICES ASSUME Init PROVE IInv
        OBVIOUS
  <1>1. Answering = {} /\ InTurn(answers) /\ Pushed(bus) = {} /\ PushedInTurn(bus)
        BY DEF Init, Answering, InTurn, Pushed, PushedInTurn, Places
  <1>2. /\ ToSet(ran) = {} /\ ToSet(batch) = {} /\ ToSet(queue) = {} /\ ToSet(tx) = {}
        /\ ToSet(got) = {} /\ Increasing(ran) /\ Increasing(batch)
        /\ Increasing(queue) /\ Increasing(tx) /\ Increasing(got)
        BY ToSetEmpty DEF Init
  <1>3. Types /\ HandsEmpty
        BY DEF Init, Types, HandsEmpty
  <1>4. NoneVanishes
    <2>1. 1..Len(sent) = {} /\ lost = {}
          BY DEF Init
    <2> QED BY <1>1, <1>2, <2>1 DEF NoneVanishes
  <1> QED BY <1>1, <1>2, <1>3, <1>4 DEF IInv, FramesInTurn, ResponsesInTurn, Responses, Below

\* Every frame that is anywhere has been sent.
LEMMA FramesSent ==
    ASSUME IInv
    PROVE  /\ ToSet(ran) \subseteq 1..Len(sent) /\ ToSet(batch) \subseteq 1..Len(sent)
           /\ ToSet(queue) \subseteq 1..Len(sent) /\ Answering \subseteq 1..Len(sent)
           /\ lost \subseteq 1..Len(sent) /\ Len(sent) \in Nat
           /\ Answering = Carried(answers)
  <1>1. Len(sent) \in Nat
        BY DEF IInv, Types
  <1> QED BY <1>1 DEF IInv, NoneVanishes, Answering, Carried

\* A step that leaves the bus and the responses alone keeps their order.
LEMMA ResponsesStay ==
    ASSUME IInv, UNCHANGED <<bus, tx, got>>, ToSet(ran) \subseteq ToSet(ran)',
           \A f \in 1..Len(sent) : sent'[f] = sent[f]
    PROVE  ResponsesInTurn'
  <1>1. Pushed(bus)' = Pushed(bus) /\ PushedInTurn(bus)' = PushedInTurn(bus)
        BY DEF Pushed, PushedInTurn, Places
  <1>2. Responses' = Responses
        BY <1>1 DEF Responses
  <1> QED BY <1>1, <1>2, FramesSent DEF IInv, ResponsesInTurn

\* A step that leaves the frames alone.
LEMMA FramesStay ==
    ASSUME IInv, UNCHANGED <<sent, ran, batch, queue, answers, lost>>
    PROVE  NoneVanishes' /\ FramesInTurn'
  <1>1. Answering' = Answering /\ InTurn(answers)' = InTurn(answers)
        BY DEF Answering, InTurn
  <1> QED BY <1>1 DEF IInv, NoneVanishes, FramesInTurn

LEMMA Arrives ==
    ASSUME IInv, NEW kind \in Kinds, FrameArrives(kind)
    PROVE  IInv'
  <1> DEFINE f == Len(sent) + 1
  <1>1. /\ f \in Nat /\ sent' \in Seq(Kinds) /\ Len(sent') = f
        /\ 1..f = 1..Len(sent) \cup {f} /\ \A g \in 1..Len(sent) : g < f /\ g \in Nat
        /\ \A g \in 1..Len(sent) : sent'[g] = sent[g]
        /\ sent' = Append(sent, kind)
        BY DEF IInv, Types, FrameArrives
  <1>2. /\ UNCHANGED <<ran, batch, tx, got, bus, loop, lost>>
        /\ armed = "none" => queue' = Append(queue, f) /\ UNCHANGED <<armed, answers>>
        /\ armed # "none" => /\ armed' = "none" /\ UNCHANGED queue
                             /\ Answer(armed = "live", <<f>>)
        BY DEF FrameArrives, script, history
  <1> HIDE DEF f
  <1>3. ResponsesInTurn'
        BY <1>1, <1>2, ResponsesStay
  <1>4. CASE armed = "none"
    <2>0. /\ queue \in Seq(Nat) /\ f \in Nat /\ Increasing(queue)
          /\ queue' = Append(queue, f) /\ Below(ToSet(queue), {f})
          BY <1>1, <1>2, <1>4, FramesSent DEF IInv, Types, FramesInTurn, Below
    <2>1. queue' \in Seq(Nat) /\ ToSet(queue)' = ToSet(queue) \cup {f}
          BY <2>0, ToSetAppend
    <2>2. Increasing(queue')
          BY <2>0, IncreasingAppend
    <2>3. Answering' = Answering /\ InTurn(answers)' = InTurn(answers)
          BY <1>2, <1>4 DEF Answering, InTurn
    <2>4. Types' /\ HandsEmpty'
          BY <1>1, <1>2, <1>4, <2>1 DEF IInv, Types, HandsEmpty
    <2>5. NoneVanishes'
          BY <1>1, <1>2, <2>1, <2>3 DEF IInv, NoneVanishes
    <2>6. FramesInTurn'
          BY <1>1, <1>2, <2>1, <2>2, <2>3, FramesSent DEF IInv, FramesInTurn, Below
    <2> QED BY <1>3, <2>4, <2>5, <2>6 DEF IInv
  <1>5. CASE armed # "none"
    <2> DEFINE r == [live |-> (armed = "live"), ok |-> TRUE, frames |-> <<f>>]
    <2>1. /\ answers' = Append(answers, r) /\ r \in Reply /\ r.frames = <<f>>
          /\ ToSet(<<f>>) = {f} /\ Increasing(<<f>>)
          BY <1>1, <1>2, <1>5 DEF Answer, Reply, ToSet, Increasing
    <2> HIDE DEF r
    <2>2. /\ answers' \in Seq(Reply) /\ InTurn(answers)'
          /\ Answering' = Answering \cup {f}
      <3>1. Below(Carried(answers), {f})
            BY <1>1, FramesSent DEF Below
      <3>2. answers \in Seq(Reply) /\ InTurn(answers)
            BY DEF IInv, Types, FramesInTurn
      <3>3. Carried(answers') = Carried(answers) \cup {f}
            BY <2>1, <3>1, <3>2, CarriedAppend
      <3>4. answers' \in Seq(Reply) /\ InTurn(answers')
            BY <2>1, <3>1, <3>2, CarriedAppend
      <3>5. InTurn(answers)' = InTurn(answers') /\ Answering' = Carried(answers')
            BY DEF InTurn, Answering, Carried
      <3> QED BY <3>3, <3>4, <3>5, FramesSent
    <2>3. queue = <<>> /\ queue' = <<>> /\ ToSet(queue) = {} /\ ToSet(queue)' = {}
          BY <1>2, <1>5, ToSetEmpty DEF IInv, HandsEmpty
    <2>4. Types' /\ HandsEmpty'
          BY <1>1, <1>2, <1>5, <2>2, <2>3 DEF IInv, Types, HandsEmpty
    <2>5. NoneVanishes'
          BY <1>1, <1>2, <2>2, <2>3 DEF IInv, NoneVanishes
    <2>6. FramesInTurn'
          BY <1>1, <1>2, <2>2, <2>3, FramesSent DEF IInv, FramesInTurn, Below
    <2> QED BY <1>3, <2>4, <2>5, <2>6 DEF IInv
  <1> QED BY <1>4, <1>5

\* A message is answered with frames that follow all those on their way.
LEMMA AnswerCarries ==
    ASSUME IInv, NEW live \in BOOLEAN, NEW ok \in BOOLEAN, NEW frames \in Seq(Nat),
           Increasing(frames), Below(Answering, ToSet(frames)),
           answers' = Append(answers, [live |-> live, ok |-> ok, frames |-> frames])
    PROVE  /\ answers' \in Seq(Reply) /\ InTurn(answers')
           /\ Answering' = Answering \cup ToSet(frames)
  <1> DEFINE r == [live |-> live, ok |-> ok, frames |-> frames]
  <1>1. r \in Reply /\ r.frames = frames /\ answers' = Append(answers, r)
        BY DEF Reply
  <1> HIDE DEF r
  <1>2. /\ answers \in Seq(Reply) /\ InTurn(answers)
        /\ Below(Carried(answers), ToSet(r.frames)) /\ Increasing(r.frames)
        BY <1>1, FramesSent DEF IInv, Types, FramesInTurn
  <1>3. Answering' = Carried(answers')
        BY DEF Answering, Carried
  <1> QED BY <1>1, <1>2, <1>3, CarriedAppend, FramesSent

LEMMA Expires ==
    ASSUME IInv, PollExpires
    PROVE  IInv'
  <1>1. /\ UNCHANGED <<sent, ran, batch, queue, tx, got, bus, loop, lost>> /\ armed' = "none"
        /\ answers' = Append(answers, [live |-> (armed = "live"), ok |-> TRUE, frames |-> <<>>])
        BY DEF PollExpires, Answer, script, history
  <1>2. <<>> \in Seq(Nat) /\ Below(Answering, ToSet(<<>>))
        BY ToSetEmpty DEF Below
  <1>3. answers' \in Seq(Reply) /\ InTurn(answers') /\ Answering' = Answering
    <2>1. (armed = "live") \in BOOLEAN /\ TRUE \in BOOLEAN
          OBVIOUS
    <2> QED BY <1>1, <1>2, <2>1, ToSetEmpty, AnswerCarries
  <1>4. ResponsesInTurn'
        BY <1>1, ResponsesStay
  <1>5. Types' /\ HandsEmpty' /\ NoneVanishes' /\ FramesInTurn'
        BY <1>1, <1>3 DEF IInv, Types, HandsEmpty, NoneVanishes, FramesInTurn
  <1> QED BY <1>4, <1>5 DEF IInv

\* The daemon takes a call from the bus: what is left is in turn.
LEMMA BusTail ==
    ASSUME IInv, bus # <<>>, bus' = Tail(bus)
    PROVE  /\ bus' \in Seq(Call) /\ PushedInTurn(bus') /\ Pushed(bus') \subseteq Pushed(bus)
           /\ Head(bus) \in Call
           /\ Head(bus).op = "push" => /\ Head(bus).frame \in Pushed(bus)
                                       /\ Below({Head(bus).frame}, Pushed(bus'))
  <1>1. bus \in Seq(Call) /\ PushedInTurn(bus)
        BY DEF IInv, Types, ResponsesInTurn
  <1> QED BY <1>1, PushedTail

LEMMA Polled ==
    ASSUME IInv, handle_poll
    PROVE  IInv'
  <1>1. /\ bus # <<>> /\ bus' = Tail(bus) /\ Head(bus).op = "poll"
        /\ UNCHANGED <<sent, ran, batch, tx, got, loop, lost>>
        BY DEF handle_poll, script, history
  <1>2. Head(bus).live \in BOOLEAN
        BY <1>1, BusTail DEF Call
  <1>3. ResponsesInTurn' /\ bus' \in Seq(Call)
        BY <1>1, BusTail DEF IInv, ResponsesInTurn, Responses, Below
  <1> DEFINE live == Head(bus).live
  <1>4. CASE UNCHANGED <<queue, armed, answers>>
    <2>1. NoneVanishes' /\ FramesInTurn'
          BY <1>1, <1>4, FramesStay
    <2>2. Types' /\ HandsEmpty'
          BY <1>1, <1>3, <1>4 DEF IInv, Types, HandsEmpty
    <2> QED BY <1>3, <2>1, <2>2 DEF IInv
  <1>5. CASE AnswerPending(live) /\ UNCHANGED <<queue, armed>>
    <2>1. answers' = Append(answers, [live |-> live, ok |-> FALSE, frames |-> <<>>])
          BY <1>5 DEF AnswerPending
    <2>2. <<>> \in Seq(Nat) /\ Below(Answering, ToSet(<<>>))
          BY ToSetEmpty DEF Below
    <2>3. answers' \in Seq(Reply) /\ InTurn(answers') /\ Answering' = Answering
      <3>1. live \in BOOLEAN /\ FALSE \in BOOLEAN
            BY <1>2
      <3> QED BY <2>1, <2>2, <3>1, ToSetEmpty, AnswerCarries
    <2>4. Types' /\ HandsEmpty' /\ NoneVanishes' /\ FramesInTurn'
          BY <1>1, <1>3, <1>5, <2>3
          DEF IInv, Types, HandsEmpty, NoneVanishes, FramesInTurn
    <2> QED BY <1>3, <2>4 DEF IInv
  <1>6. CASE Answer(live, queue) /\ queue' = <<>> /\ UNCHANGED armed
    <2>1. answers' = Append(answers, [live |-> live, ok |-> TRUE, frames |-> queue])
          BY <1>6 DEF Answer
    <2>2. /\ queue \in Seq(Nat) /\ Below(Answering, ToSet(queue)) /\ Increasing(queue)
          /\ live \in BOOLEAN /\ TRUE \in BOOLEAN
          BY <1>2 DEF IInv, Types, FramesInTurn
    <2> HIDE DEF live
    <2>3. /\ answers' \in Seq(Reply) /\ InTurn(answers')
          /\ Answering' = Answering \cup ToSet(queue)
          BY <2>1, <2>2, AnswerCarries
    <2>4. queue' \in Seq(Nat) /\ ToSet(queue') = {} /\ Increasing(queue')
          BY <1>6, ToSetEmpty
    <2>5. Types' /\ HandsEmpty'
          BY <1>1, <1>3, <1>6, <2>3 DEF IInv, Types, HandsEmpty
    <2>6. NoneVanishes'
          BY <1>1, <2>3, <2>4 DEF IInv, NoneVanishes
    <2>7. FramesInTurn'
          BY <1>1, <2>3, <2>4 DEF IInv, FramesInTurn, Below
    <2> QED BY <1>3, <2>5, <2>6, <2>7 DEF IInv
  <1>7. CASE /\ queue = <<>> /\ armed' = IF live THEN "live" ELSE "stale"
             /\ UNCHANGED <<queue, answers>>
    <2>1. NoneVanishes' /\ FramesInTurn'
          BY <1>1, <1>7, FramesStay
    <2>2. Types' /\ HandsEmpty'
          BY <1>1, <1>3, <1>7 DEF IInv, Types, HandsEmpty
    <2> QED BY <1>3, <2>1, <2>2 DEF IInv
  <1> QED BY <1>4, <1>5, <1>6, <1>7 DEF handle_poll

LEMMA PushHandled ==
    ASSUME IInv, handle_push
    PROVE  IInv'
  <1> DEFINE f == Head(bus).frame
  <1>1. /\ bus # <<>> /\ bus' = Tail(bus) /\ Head(bus).op = "push"
        /\ UNCHANGED <<sent, ran, batch, got, loop, lost, queue, armed, answers>>
        /\ tx' = Append(tx, f) \/ tx' = tx
        BY DEF handle_push, script
  <1>2. /\ bus' \in Seq(Call) /\ PushedInTurn(bus') /\ Pushed(bus') \subseteq Pushed(bus)
        /\ f \in Pushed(bus) /\ f \in Nat /\ Below({f}, Pushed(bus'))
        BY <1>1, BusTail, CallTypes
  <1> HIDE DEF f
  <1>3. NoneVanishes' /\ FramesInTurn'
        BY <1>1, FramesStay
  <1>4. CASE tx' = tx
    <2>1. Types' /\ HandsEmpty'
          BY <1>1, <1>2, <1>4 DEF IInv, Types, HandsEmpty
    <2>2. ResponsesInTurn'
          BY <1>1, <1>2, <1>4 DEF IInv, ResponsesInTurn, Responses, Below
    <2> QED BY <1>3, <2>1, <2>2 DEF IInv
  <1>5. CASE tx' = Append(tx, f)
    <2>1. tx \in Seq(Nat) /\ Increasing(tx) /\ Below(ToSet(tx), {f})
          BY <1>2 DEF IInv, Types, ResponsesInTurn, Below
    <2>2. /\ tx' \in Seq(Nat) /\ Increasing(tx') /\ ToSet(tx') = ToSet(tx) \cup {f}
          BY <1>2, <1>5, <2>1, ToSetAppend, IncreasingAppend
    <2>3. Types' /\ HandsEmpty'
          BY <1>1, <1>2, <2>2 DEF IInv, Types, HandsEmpty
    <2>4. ResponsesInTurn'
          BY <1>1, <1>2, <2>2 DEF IInv, ResponsesInTurn, Responses, Below
    <2> QED BY <1>3, <2>3, <2>4 DEF IInv
  <1> QED BY <1>1, <1>4, <1>5

LEMMA Reads ==
    ASSUME IInv, ClientReads
    PROVE  IInv'
  <1> DEFINE f == Head(tx)
  <1>1. /\ tx # <<>> /\ tx' = Tail(tx) /\ got' = Append(got, f)
        /\ UNCHANGED <<sent, ran, batch, bus, loop, lost, queue, armed, answers>>
        BY DEF ClientReads, script, history
  <1>2. /\ tx \in Seq(Nat) /\ got \in Seq(Nat) /\ Increasing(tx) /\ Increasing(got)
        BY DEF IInv, Types, ResponsesInTurn
  <1>3. /\ tx' \in Seq(Nat) /\ f \in Nat /\ ToSet(tx) = {f} \cup ToSet(tx')
        BY <1>1, <1>2, ToSetTail
  <1>4. Increasing(tx') /\ Below({f}, ToSet(tx'))
        BY <1>1, <1>2, IncreasingTail
  <1> HIDE DEF f
  <1>5. Below(ToSet(got), {f})
        BY <1>3 DEF IInv, ResponsesInTurn, Below
  <1>6. /\ got' \in Seq(Nat) /\ Increasing(got') /\ ToSet(got') = ToSet(got) \cup {f}
    <2>1. got' \in Seq(Nat) /\ ToSet(got') = ToSet(got) \cup {f}
          BY <1>1, <1>2, <1>3, ToSetAppend
    <2>2. Increasing(got')
          BY <1>1, <1>2, <1>3, <1>5, IncreasingAppend
    <2> QED BY <2>1, <2>2
  <1>7. NoneVanishes' /\ FramesInTurn'
        BY <1>1, FramesStay
  <1>8. Types' /\ HandsEmpty'
        BY <1>1, <1>3, <1>6 DEF IInv, Types, HandsEmpty
  <1>9. ResponsesInTurn'
    <2>1. Responses' = Responses
          BY <1>1, <1>3, <1>6 DEF Responses
    <2> QED BY <1>1, <1>3, <1>4, <1>6, <2>1 DEF IInv, ResponsesInTurn, Below
  <1> QED BY <1>7, <1>8, <1>9 DEF IInv

LEMMA SessionCloses ==
    ASSUME IInv, Closes
    PROVE  IInv'
  <1>1. /\ UNCHANGED <<sent, ran, batch, got, bus, loop, answers>>
        /\ queue' = <<>> /\ armed' = "none" /\ tx' = <<>>
        /\ lost' = lost \cup ToSet(queue)
        BY DEF Closes, script
  <1>2. /\ ToSet(queue') = {} /\ Increasing(queue')
        /\ ToSet(tx') = {} /\ Increasing(tx')
        BY <1>1, ToSetEmpty
  <1>3. Answering' = Answering /\ Pushed(bus') = Pushed(bus)
        BY <1>1 DEF Answering
  <1>4. Types' /\ HandsEmpty'
        BY <1>1 DEF IInv, Types, HandsEmpty
  <1>5. NoneVanishes'
        BY <1>1, <1>2, <1>3 DEF IInv, NoneVanishes
  <1>6. FramesInTurn'
        BY <1>1, <1>2, <1>3 DEF IInv, FramesInTurn, Below
  <1>7. ResponsesInTurn'
        BY <1>1, <1>2, <1>3 DEF IInv, ResponsesInTurn, Responses, Below
  <1> QED BY <1>4, <1>5, <1>6, <1>7 DEF IInv

LEMMA Polls ==
    ASSUME IInv, RunPolls
    PROVE  IInv'
  <1>1. /\ UNCHANGED <<sent, ran, batch, tx, got, queue, armed, answers, lost>>
        /\ loop = "call"
        /\ bus' = Append(bus, Poll(TRUE)) \/ bus' = bus
        BY DEF RunPolls, daemon, history
  <1>2. bus' \in Seq(Call) /\ PushedInTurn(bus') /\ Pushed(bus') = Pushed(bus)
    <2>1. bus \in Seq(Call) /\ PushedInTurn(bus)
          BY DEF IInv, Types, ResponsesInTurn
    <2>2. Poll(TRUE) \in Call /\ Poll(TRUE).op # "push"
          BY CallTypes
    <2> QED BY <1>1, <2>1, <2>2, PushedAppend
  <1>3. NoneVanishes' /\ FramesInTurn'
        BY <1>1, FramesStay
  <1>4. Types' /\ HandsEmpty'
        BY <1>1, <1>2 DEF IInv, Types, HandsEmpty
  <1>5. ResponsesInTurn'
        BY <1>1, <1>2 DEF IInv, ResponsesInTurn, Responses
  <1> QED BY <1>3, <1>4, <1>5 DEF IInv

\* The script takes an answer: its frames come before all those behind it.
LEMMA AnswerTaken ==
    ASSUME IInv, answers # <<>>, answers' = Tail(answers)
    PROVE  /\ answers' \in Seq(Reply) /\ InTurn(answers') /\ Head(answers) \in Reply
           /\ Increasing(Head(answers).frames)
           /\ Answering = ToSet(Head(answers).frames) \cup Answering'
           /\ Below(ToSet(Head(answers).frames), Answering')
  <1>1. answers \in Seq(Reply) /\ InTurn(answers)
        BY DEF IInv, Types, FramesInTurn
  <1>2. Answering' = Carried(answers')
        BY DEF Answering, Carried
  <1> QED BY <1>1, <1>2, CarriedTail, FramesSent

LEMMA Late ==
    ASSUME IInv, LateAnswer
    PROVE  IInv'
  <1> DEFINE dropped == ToSet(Head(answers).frames)
  <1>1. /\ UNCHANGED <<sent, ran, batch, tx, got, bus, loop, queue, armed>>
        /\ answers # <<>> /\ answers' = Tail(answers) /\ lost' = lost \cup dropped
        BY DEF LateAnswer, daemon, script
  <1>2. /\ answers' \in Seq(Reply) /\ InTurn(answers') /\ Answering = dropped \cup Answering'
        BY <1>1, AnswerTaken
  <1> HIDE DEF dropped
  <1>3. ResponsesInTurn'
        BY <1>1, ResponsesStay
  <1>4. Types' /\ HandsEmpty'
        BY <1>1, <1>2 DEF IInv, Types, HandsEmpty
  <1>5. NoneVanishes'
        BY <1>1, <1>2 DEF IInv, NoneVanishes
  <1>6. FramesInTurn'
        BY <1>1, <1>2 DEF IInv, FramesInTurn, Below
  <1> QED BY <1>3, <1>4, <1>5, <1>6 DEF IInv

LEMMA GetsAnswer ==
    ASSUME IInv, RunGetsAnswer
    PROVE  IInv'
  <1> DEFINE frames == Head(answers).frames
  <1>1. /\ UNCHANGED <<sent, ran, tx, got, bus, queue, armed>>
        /\ answers # <<>> /\ answers' = Tail(answers) /\ loop = "wait"
        /\ \/ loop' = "dispatch" /\ batch' = frames /\ UNCHANGED lost
           \/ /\ lost' = lost \cup ToSet(frames) /\ UNCHANGED batch
        BY DEF RunGetsAnswer, daemon
  <1>2. /\ answers' \in Seq(Reply) /\ InTurn(answers') /\ frames \in Seq(Nat)
        /\ Answering = ToSet(frames) \cup Answering' /\ Increasing(frames)
        /\ Below(ToSet(frames), Answering')
        BY <1>1, AnswerTaken DEF Reply
  <1>3. batch = <<>> /\ ToSet(batch) = {}
        BY <1>1, ToSetEmpty DEF IInv, HandsEmpty
  <1> HIDE DEF frames
  <1>4. ResponsesInTurn'
        BY <1>1, ResponsesStay
  <1>5. CASE loop' = "dispatch" /\ batch' = frames /\ UNCHANGED lost
    <2>1. Types' /\ HandsEmpty'
          BY <1>1, <1>2, <1>5 DEF IInv, Types, HandsEmpty
    <2>2. NoneVanishes'
          BY <1>1, <1>2, <1>3, <1>5 DEF IInv, NoneVanishes
    <2>3. FramesInTurn'
          BY <1>1, <1>2, <1>3, <1>5 DEF IInv, FramesInTurn, Below
    <2> QED BY <1>4, <2>1, <2>2, <2>3 DEF IInv
  <1>6. CASE lost' = lost \cup ToSet(frames) /\ UNCHANGED batch
    <2>1. Types' /\ HandsEmpty'
          BY <1>1, <1>2, <1>3, <1>6 DEF IInv, Types, HandsEmpty
    <2>2. NoneVanishes'
          BY <1>1, <1>2, <1>6 DEF IInv, NoneVanishes
    <2>3. FramesInTurn'
          BY <1>1, <1>2, <1>6 DEF IInv, FramesInTurn, Below
    <2> QED BY <1>4, <2>1, <2>2, <2>3 DEF IInv
  <1> QED BY <1>1, <1>5, <1>6

LEMMA KeptHasId ==
    ASSUME NEW f, Kept(f) # {}
    PROVE  sent[f] \in {"call", "mixed"}
  <1> SUFFICES ASSUME sent[f] \notin {"call", "mixed"}
               PROVE  Kept(f) = {}
        OBVIOUS
  <1>1. CASE sent[f] = "silent"
    <2>1. Ids(f) = <<"null">>
          BY <1>1 DEF Ids
    <2> QED BY <2>1 DEF Kept
  <1>2. CASE sent[f] # "silent"
    <2>1. Ids(f) = <<>>
          BY <1>2 DEF Ids
    <2> QED BY <2>1 DEF Kept
  <1> QED BY <1>1, <1>2

LEMMA Dispatches ==
    ASSUME IInv, RunDispatches
    PROVE  IInv'
  <1> DEFINE f == Head(batch)
  <1>1. /\ UNCHANGED <<sent, tx, got, queue, armed, answers, lost, loop>>
        /\ loop = "dispatch" /\ batch # <<>> /\ batch' = Tail(batch)
        /\ ran' = Append(ran, f)
        /\ \/ bus' = bus
           \/ bus' = Append(bus, Push(f)) /\ Kept(f) # {}
        BY DEF RunDispatches, daemon
  <1>2. /\ batch \in Seq(Nat) /\ ran \in Seq(Nat) /\ bus \in Seq(Call)
        /\ Increasing(batch) /\ Increasing(ran) /\ PushedInTurn(bus)
        BY DEF IInv, Types, FramesInTurn, ResponsesInTurn
  <1>3. batch' \in Seq(Nat) /\ f \in Nat /\ ToSet(batch) = {f} \cup ToSet(batch')
        BY <1>1, <1>2, ToSetTail
  <1>4. Increasing(batch') /\ Below({f}, ToSet(batch'))
        BY <1>1, <1>2, IncreasingTail
  <1> HIDE DEF f
  <1>5. Below(ToSet(ran), {f})
        BY <1>3 DEF IInv, FramesInTurn, Below
  <1>6. ran' \in Seq(Nat) /\ ToSet(ran') = ToSet(ran) \cup {f}
    <2>1. ran \in Seq(Nat) /\ f \in Nat /\ ran' = Append(ran, f)
          BY <1>1, <1>2, <1>3
    <2> QED BY <2>1, ToSetAppend
  <1>7. Increasing(ran')
        BY <1>1, <1>2, <1>3, <1>5, IncreasingAppend
  <1>8. Answering' = Answering
        BY <1>1 DEF Answering
  <1>9. NoneVanishes'
        BY <1>1, <1>3, <1>6, <1>8 DEF IInv, NoneVanishes
  <1>10. FramesInTurn'
        BY <1>1, <1>3, <1>4, <1>5, <1>6, <1>7, <1>8 DEF IInv, FramesInTurn, Below
  <1>11. CASE bus' = bus
    <2>1. Types' /\ HandsEmpty'
          BY <1>1, <1>3, <1>6, <1>11 DEF IInv, Types, HandsEmpty
    <2>2. ResponsesInTurn'
          BY <1>1, <1>6, <1>11, ResponsesStay
    <2> QED BY <1>9, <1>10, <2>1, <2>2 DEF IInv
  <1>12. CASE bus' = Append(bus, Push(f)) /\ Kept(f) # {}
    <2>1. Push(f) \in Call /\ Push(f).op = "push" /\ Push(f).frame = f
          BY <1>3, CallTypes
    <2>2. Responses \subseteq ToSet(ran) /\ Below(Responses, {f})
          BY <1>5 DEF IInv, ResponsesInTurn, Below
    <2>3. Below(Pushed(bus), {f})
          BY <2>2 DEF Responses, Below
    <2>4. /\ bus' \in Seq(Call) /\ PushedInTurn(bus')
          /\ Pushed(bus') = Pushed(bus) \cup {f}
          BY <1>2, <1>12, <2>1, <2>3, PushedAppend
    <2>5. Types' /\ HandsEmpty'
          BY <1>1, <1>3, <1>6, <2>4 DEF IInv, Types, HandsEmpty
    <2>6. sent[f] \in {"call", "mixed"}
          BY <1>12, KeptHasId
    <2>7. ResponsesInTurn'
          BY <1>1, <1>6, <2>2, <2>4, <2>6 DEF IInv, ResponsesInTurn, Responses, Below
    <2> QED BY <1>9, <1>10, <2>5, <2>7 DEF IInv
  <1> QED BY <1>1, <1>11, <1>12

LEMMA TimesOut ==
    ASSUME IInv, CallTimesOut
    PROVE  IInv'
  <1>1. /\ UNCHANGED <<sent, ran, batch, tx, got, queue, lost>> /\ loop = "wait"
        /\ bus' = [i \in 1..Len(bus) |-> IF bus[i].op = "poll" THEN Poll(FALSE) ELSE bus[i]]
        /\ armed' = IF armed = "live" THEN "stale" ELSE armed
        /\ answers' = [i \in 1..Len(answers) |-> [answers[i] EXCEPT !.live = FALSE]]
        BY DEF CallTimesOut
  <1>2. /\ bus \in Seq(Call) /\ PushedInTurn(bus)
        /\ answers \in Seq(Reply) /\ InTurn(answers)
        BY DEF IInv, Types, FramesInTurn, ResponsesInTurn
  <1>3. bus' \in Seq(Call) /\ PushedInTurn(bus') /\ Pushed(bus') = Pushed(bus)
        BY <1>1, <1>2, PushedGivenUp
  <1>4. answers' \in Seq(Reply) /\ InTurn(answers') /\ Carried(answers') = Carried(answers)
        BY <1>1, <1>2, CarriedGivenUp
  <1>5. Answering' = Answering
        BY <1>4 DEF Answering, Carried
  <1>6. Types' /\ HandsEmpty'
        BY <1>1, <1>3, <1>4 DEF IInv, Types, HandsEmpty
  <1>7. NoneVanishes' /\ FramesInTurn'
        BY <1>1, <1>4, <1>5 DEF IInv, NoneVanishes, FramesInTurn
  <1>8. ResponsesInTurn'
        BY <1>1, <1>3 DEF IInv, ResponsesInTurn, Responses
  <1> QED BY <1>6, <1>7, <1>8 DEF IInv

\* The steps that change neither frames nor calls, and those that are no step.
LEMMA Rests ==
    ASSUME IInv, \/ Sleeps \/ Disconnected \/ UNCHANGED vars
    PROVE  IInv'
  <1>1. /\ UNCHANGED <<sent, ran, batch, tx, got, bus, queue, armed, answers, lost>>
        /\ loop' = loop \/ batch = <<>>
        BY DEF IInv, HandsEmpty, Sleeps, RunSleeps, Disconnected, vars, daemon, script, history
  <1>2. NoneVanishes' /\ FramesInTurn'
        BY <1>1, FramesStay
  <1>3. ResponsesInTurn'
        BY <1>1, ResponsesStay
  <1>4. Types' /\ HandsEmpty'
        BY <1>1 DEF IInv, Types, HandsEmpty
  <1> QED BY <1>2, <1>3, <1>4 DEF IInv

LEMMA Inductive == IInv /\ [Next]_vars => IInv'
  <1> SUFFICES ASSUME IInv, [Next]_vars PROVE IInv'
        OBVIOUS
  <1> QED BY Arrives, Expires, Polled, PushHandled, Reads, SessionCloses, Polls, Late,
             GetsAnswer, Dispatches, TimesOut, Rests
          DEF Next, Daemon, Script

-----------------------------------------------------------------------------
(***************************************************************************)
(* The frames of a client keep their places on the way from the read       *)
(* buffer to the methods and those of the responses on the way back.       *)
(***************************************************************************)
THEOREM Invariance == Spec => []IInv
  BY Initially, Inductive, PTL DEF Spec

(***************************************************************************)
(* Messages run once each, in the order in which the client sent them:     *)
(* ClientConnection.run awaits one poll at a time and one message at a     *)
(* time, handle_poll drains the buffer, and the answer of a call that was  *)
(* given up is dropped whole, so nothing overtakes and nothing runs twice. *)
(***************************************************************************)
THEOREM MethodsRunInOrder == Spec => []EffectsInOrder
  <1>1. ASSUME IInv PROVE EffectsInOrder
    <2>1. /\ ran \in Seq(Nat) /\ batch \in Seq(Nat) /\ queue \in Seq(Nat)
          /\ Increasing(ran) /\ Increasing(batch) /\ Increasing(queue)
          /\ Below(ToSet(ran), ToSet(batch))
          /\ Below(ToSet(ran) \cup ToSet(batch), ToSet(queue))
          BY <1>1 DEF IInv, Types, FramesInTurn, Below
    <2>2. /\ ran \o batch \in Seq(Nat) /\ Increasing(ran \o batch)
          /\ ToSet(ran \o batch) = ToSet(ran) \cup ToSet(batch)
          BY <2>1, IncreasingConcat
    <2>3. Increasing((ran \o batch) \o queue)
          BY <2>1, <2>2, IncreasingConcat
    <2> QED BY <2>3 DEF EffectsInOrder
  <1> QED BY <1>1, Invariance, PTL

(***************************************************************************)
(* Responses reach the client in the order of its requests, at most one    *)
(* for each, and only for requests with an id that have run (push() calls  *)
(* keep the order of the dispatch, the write buffer that of the calls).    *)
(***************************************************************************)
THEOREM ResponsesComeInOrder == Spec => []ResponsesInOrder
  <1>1. ASSUME IInv PROVE ResponsesInOrder
    <2>1. /\ got \in Seq(Nat) /\ tx \in Seq(Nat) /\ Increasing(got) /\ Increasing(tx)
          /\ Below(ToSet(got), ToSet(tx))
          BY <1>1 DEF IInv, Types, ResponsesInTurn, Below
    <2>2. Increasing(got \o tx)
          BY <2>1, IncreasingConcat
    <2>3. Pushes = Places(bus) /\ {bus[i].frame : i \in Pushes} = Pushed(bus)
          BY DEF Pushes, Places, Pushed
    <2>4. \A i \in Pushes : bus[i].frame \in Pushed(bus)
          BY <2>3 DEF Pushed
    <2>5. ASSUME NEW i \in Pushes
          PROVE  /\ \A f \in ToSet(got) \cup ToSet(tx) : f < bus[i].frame
                 /\ \A j \in Pushes : i < j => bus[i].frame < bus[j].frame
          BY <1>1, <2>3, <2>4 DEF IInv, ResponsesInTurn, Below, PushedInTurn
    <2>6. ASSUME NEW f \in ToSet(got) \cup ToSet(tx) \cup {bus[i].frame : i \in Pushes}
          PROVE  f \in ToSet(ran) /\ sent[f] \in {"call", "mixed"}
          BY <1>1, <2>3 DEF IInv, ResponsesInTurn, Responses
    <2> QED BY <2>2, <2>5, <2>6 DEF ResponsesInOrder
  <1> QED BY <1>1, Invariance, PTL

(***************************************************************************)
(* No message vanishes: each one sent is in the read buffer, in an answer, *)
(* in the loop's hands or has run, unless it is counted as lost (a late    *)
(* answer, one that does not parse, a client that left).                   *)
(***************************************************************************)
THEOREM NoMessageVanishes == Spec => []NoneVanishes
  <1>1. IInv => NoneVanishes
        BY DEF IInv
  <1> QED BY <1>1, Invariance, PTL
=============================================================================
