--------------------------- MODULE ControlProofs ---------------------------
(***************************************************************************)
(* Proofs about Control: the script's map of connections and the events on *)
(* their way to it add up to the sessions of the daemon, and the control   *)
(* loop has one call under way exactly while it awaits one, for any number *)
(* of clients, any queue and any number of time-outs.                      *)
(***************************************************************************)
EXTENDS Control, FiniteSetTheorems, TLAPS

Reply == [live : BOOLEAN, ok : BOOLEAN, events : Seq(Event)]

Has(events, e) == \E i \in 1..Len(events) : events[i] = e

\* A client connects once, and is not heard of again after its end.
OneLife(events, id) ==
    /\ \A i, j \in 1..Len(events) :
          events[i] = Connected(id) /\ events[j] = Connected(id) => i = j
    /\ \A i, j \in 1..Len(events) :
          events[i] = Connected(id) /\ events[j] = Disconnected(id) => i < j

\* The same of all that is on its way: the answers, then the queue q.
OrderedWith(q, id) ==
    /\ OneLife(q, id)
    /\ \A i \in 1..Len(replies) :
          /\ OneLife(replies[i].events, id)
          /\ Has(replies[i].events, Disconnected(id)) =>
                /\ ~Has(q, Connected(id))
                /\ \A j \in (i + 1)..Len(replies) :
                      ~Has(replies[j].events, Connected(id))

Ordered(id) == OrderedWith(control_queue_, id)

EventsInOrder == \A id \in Id : Ordered(id)

\* Nothing is known of an id that was not handed out yet.
IdsHandedOut ==
    /\ next_id_ + backlog <= MaxId + 1
    /\ \A id \in Id : (\/ id \in sessions_ \/ id \in connections
                       \/ OnTheWay(Connected(id)) \/ OnTheWay(Disconnected(id)))
                      => id < next_id_

IInv == TypeOK /\ OneCallAwaited /\ EventsInOrder /\ IdsHandedOut /\ EventsAddUp

LEMMA Initially == Init => IInv
  <1> SUFFICES ASSUME Init PROVE IInv
        OBVIOUS
  <1>1. TypeOK
    <2>1. /\ backlog \in 0..MaxId /\ next_id_ \in 1..(MaxId + 1)
          /\ timeouts \in 0..MaxTimeouts
          BY ControlAssumption DEF Init
    <2>2. control_queue_ \in Seq(Event) /\ Len(control_queue_) <= QueueCap
          BY ControlAssumption DEF Init
    <2>3. requests \in Seq(BOOLEAN) /\ replies \in Seq(Reply)
          BY DEF Init
    <2> QED BY <2>1, <2>2, <2>3 DEF Init, TypeOK, Reply
  <1>2. OneCallAwaited
    <2>1. /\ {i \in 1..Len(requests) : requests[i]} = {}
          /\ {i \in 1..Len(replies) : replies[i].live} = {}
          BY DEF Init
    <2> QED BY <2>1, FS_EmptySet DEF Init, OneCallAwaited, LiveCalls
  <1>3. \A e : ~OnTheWay(e)
        BY DEF Init, OnTheWay
  <1>4. EventsInOrder
        BY DEF Init, EventsInOrder, Ordered, OrderedWith, OneLife
  <1>5. IdsHandedOut /\ EventsAddUp
        BY <1>3, ControlAssumption DEF Init, IdsHandedOut, EventsAddUp
  <1> QED BY <1>1, <1>2, <1>4, <1>5 DEF IInv

-----------------------------------------------------------------------------
(***************************************************************************)
(* Counting the live calls of a channel: one is added at its end, or taken *)
(* from its front.                                                         *)
(***************************************************************************)
LEMMA CountType ==
  ASSUME NEW n \in Nat, NEW S \in SUBSET (1..n)
  PROVE  IsFiniteSet(S) /\ Cardinality(S) \in Nat
  <1>1. IsFiniteSet(1..n)
        BY FS_Interval
  <1>2. IsFiniteSet(S)
        BY <1>1, FS_Subset
  <1> QED BY <1>2, FS_CardinalityType

LEMMA CountGrows ==
  ASSUME NEW n \in Nat, NEW S \in SUBSET (1..n)
  PROVE  Cardinality(S \cup {n + 1}) = Cardinality(S) + 1
  <1>1. n + 1 \notin S
        OBVIOUS
  <1> QED BY <1>1, CountType, FS_AddElement

LEMMA CountShifts ==
  ASSUME NEW n \in Nat \ {0}, NEW S \in SUBSET (1..n)
  PROVE  Cardinality({i \in 1..(n - 1) : i + 1 \in S})
            = Cardinality(S) - (IF 1 \in S THEN 1 ELSE 0)
  <1> DEFINE T == {i \in 1..(n - 1) : i + 1 \in S}
             R == S \ {1}
             f == [i \in T |-> i + 1]
  <1>1. IsFiniteSet(T)
    <2>1. n - 1 \in Nat /\ T \in SUBSET (1..(n - 1))
          OBVIOUS
    <2> QED BY <2>1, CountType
  <1>2. f \in Bijection(T, R)
    <2>1. f \in [T -> R]
          OBVIOUS
    <2>2. \A a, b \in T : f[a] = f[b] => a = b
          OBVIOUS
    <2>3. \A r \in R : \E a \in T : f[a] = r
      <3> TAKE r \in R
      <3>1. r - 1 \in T /\ f[r - 1] = r
            OBVIOUS
      <3> QED BY <3>1
    <2> HIDE DEF f, T, R
    <2> QED BY <2>1, <2>2, <2>3 DEF Bijection, Injection, Surjection, IsInjective
  <1>3. ExistsBijection(T, R)
        BY <1>2 DEF ExistsBijection
  <1>4. Cardinality(R) = Cardinality(T)
        BY <1>1, <1>3, FS_Bijection
  <1>5. Cardinality(R) = Cardinality(S) - (IF 1 \in S THEN 1 ELSE 0)
        BY CountType, FS_RemoveElement
  <1> QED BY <1>4, <1>5

\* The live calls among the requests, and among the answers.
Raised(s) == {i \in 1..Len(s) : s[i]}
LiveIn(r) == {i \in 1..Len(r) : r[i].live}

LEMMA RequestsCount ==
  ASSUME NEW s \in Seq(BOOLEAN)
  PROVE  /\ Cardinality(Raised(s)) \in Nat
         /\ Cardinality(Raised(Append(s, TRUE))) = Cardinality(Raised(s)) + 1
         /\ s # <<>> => Cardinality(Raised(Tail(s)))
                           = Cardinality(Raised(s)) - (IF Head(s) THEN 1 ELSE 0)
  <1> DEFINE n == Len(s)
  <1>1. n \in Nat /\ Raised(s) \in SUBSET (1..n)
        BY DEF Raised
  <1>2. Raised(Append(s, TRUE)) = Raised(s) \cup {n + 1}
        BY DEF Raised
  <1>3. ASSUME s # <<>>
        PROVE  Cardinality(Raised(Tail(s)))
                  = Cardinality(Raised(s)) - (IF Head(s) THEN 1 ELSE 0)
    <2>1. n \in Nat \ {0}
          BY <1>3
    <2>2. Raised(Tail(s)) = {i \in 1..(n - 1) : i + 1 \in Raised(s)}
      <3>1. Len(Tail(s)) = n - 1 /\ \A i \in 1..(n - 1) : Tail(s)[i] = s[i + 1]
            BY <1>3
      <3>2. \A i \in 1..(n - 1) : i + 1 \in 1..n
            BY <1>1
      <3> HIDE DEF n
      <3>3. Raised(Tail(s)) = {i \in 1..(n - 1) : s[i + 1]}
            BY <3>1, Zenon DEF Raised
      <3>4. Raised(s) = {i \in 1..n : s[i]}
            BY DEF n, Raised
      <3> QED BY <3>2, <3>3, <3>4, Zenon
    <2>3. Head(s) <=> 1 \in Raised(s)
      <3>1. Head(s) = s[1] /\ 1 \in 1..Len(s)
            BY <1>3
      <3> QED BY <3>1, Zenon DEF Raised
    <2> HIDE DEF n
    <2> QED BY <1>1, <2>1, <2>2, <2>3, CountShifts
  <1> HIDE DEF n
  <1>4. /\ Cardinality(Raised(s)) \in Nat
        /\ Cardinality(Raised(s) \cup {n + 1}) = Cardinality(Raised(s)) + 1
        BY <1>1, CountType, CountGrows
  <1> QED BY <1>2, <1>3, <1>4

LEMMA RepliesCount ==
  ASSUME NEW r \in Seq(Reply), NEW x \in Reply
  PROVE  /\ Cardinality(LiveIn(r)) \in Nat
         /\ Cardinality(LiveIn(Append(r, x)))
               = Cardinality(LiveIn(r)) + (IF x.live THEN 1 ELSE 0)
         /\ r # <<>> => Cardinality(LiveIn(Tail(r)))
                           = Cardinality(LiveIn(r)) - (IF Head(r).live THEN 1 ELSE 0)
  <1> DEFINE n == Len(r)
  <1>1. n \in Nat /\ LiveIn(r) \in SUBSET (1..n)
        BY DEF LiveIn
  <1>2. LiveIn(Append(r, x)) = IF x.live THEN LiveIn(r) \cup {n + 1} ELSE LiveIn(r)
    <2>1. CASE x.live
          BY <2>1 DEF LiveIn
    <2>2. CASE ~x.live
          BY <2>2 DEF LiveIn
    <2> QED BY <2>1, <2>2
  <1>3. ASSUME r # <<>>
        PROVE  Cardinality(LiveIn(Tail(r)))
                  = Cardinality(LiveIn(r)) - (IF Head(r).live THEN 1 ELSE 0)
    <2>1. n \in Nat \ {0}
          BY <1>3
    <2>2. LiveIn(Tail(r)) = {i \in 1..(n - 1) : i + 1 \in LiveIn(r)}
          BY <1>3 DEF LiveIn
    <2>3. Head(r).live <=> 1 \in LiveIn(r)
          BY <1>3 DEF LiveIn
    <2> HIDE DEF n
    <2> QED BY <1>1, <2>1, <2>2, <2>3, CountShifts
  <1> HIDE DEF n
  <1>4. /\ Cardinality(LiveIn(r)) \in Nat
        /\ Cardinality(LiveIn(r) \cup {n + 1}) = Cardinality(LiveIn(r)) + 1
        BY <1>1, CountType, CountGrows
  <1>5. Cardinality(LiveIn(Append(r, x)))
           = Cardinality(LiveIn(r)) + (IF x.live THEN 1 ELSE 0)
        BY <1>2, <1>4
  <1> QED BY <1>3, <1>4, <1>5

-----------------------------------------------------------------------------
\* The part of TypeOK that is about the events.
EventTypes ==
    /\ lost \subseteq Id
    /\ control_queue_ \in Seq(Event) /\ Len(control_queue_) <= QueueCap
    /\ poll_ \in {"none", "live", "stale"}
    /\ replies \in Seq(Reply)

LEMMA BatchType ==
  ASSUME NEW events \in Seq(Event)
  PROVE  /\ \A p : /\ Batch(p, events) \in Reply
                   /\ Batch(p, events).live <=> p = "live"
                   /\ Batch(p, events).events = events
         /\ \A b \in BOOLEAN : /\ Busy(b) \in Reply
                               /\ Busy(b).live = b
                               /\ Busy(b).events = <<>>
  <1>1. ASSUME NEW p
        PROVE  /\ Batch(p, events) \in Reply
               /\ Batch(p, events).live <=> p = "live"
               /\ Batch(p, events).events = events
    <2>1. (p = "live") \in BOOLEAN
          OBVIOUS
    <2> QED BY <2>1 DEF Batch, Reply
  <1>2. <<>> \in Seq(Event)
        OBVIOUS
  <1>3. ASSUME NEW b \in BOOLEAN
        PROVE  Busy(b) \in Reply /\ Busy(b).live = b /\ Busy(b).events = <<>>
        BY <1>2 DEF Busy, Reply
  <1> QED BY <1>1, <1>3

LEMMA EventFacts ==
  ASSUME NEW id \in Id
  PROVE  /\ Connected(id) \in Event /\ Disconnected(id) \in Event
         /\ Connected(id).id = id /\ Disconnected(id).id = id
         /\ Connected(id) # Disconnected(id)
         /\ \A other \in Id : /\ Connected(id) # Disconnected(other)
                              /\ Connected(id) = Connected(other) => id = other
                              /\ Disconnected(id) = Disconnected(other) => id = other
  BY DEF Connected, Disconnected, Event

\* Every event is the connection or the end of its client.
LEMMA EventIs ==
  ASSUME NEW e \in Event
  PROVE  e.id \in Id /\ (e = Connected(e.id) \/ e = Disconnected(e.id))
  BY DEF Connected, Disconnected, Event

LEMMA HasAppend ==
  ASSUME NEW q \in Seq(Event), NEW e \in Event, NEW f
  PROVE  Has(Append(q, e), f) <=> Has(q, f) \/ f = e
  BY DEF Has

LEMMA HasEmpty == \A f : ~Has(<<>>, f)
  BY DEF Has

\* OnTheWay, in the terms of Has.
LEMMA OnTheWayIs ==
  ASSUME NEW f
  PROVE  OnTheWay(f) <=> \/ Has(control_queue_, f)
                         \/ \E i \in 1..Len(replies) : Has(replies[i].events, f)
  BY DEF OnTheWay, Has

(***************************************************************************)
(* A connection of a client nothing was heard of, or the end of a client,  *)
(* can be added to a list of events.                                       *)
(***************************************************************************)
LEMMA OneLifeAppend ==
  ASSUME NEW q \in Seq(Event), NEW e \in Event, NEW id \in Id, OneLife(q, id),
         e = Connected(id) => /\ ~Has(q, Connected(id))
                              /\ ~Has(q, Disconnected(id))
  PROVE  OneLife(Append(q, e), id)
  <1> DEFINE s == Append(q, e)
             n == Len(q)
  <1>0. n \in Nat /\ Len(s) = n + 1
        OBVIOUS
  <1>1. s[n + 1] = e /\ \A i \in 1..n : s[i] = q[i]
        OBVIOUS
  <1>2. Connected(id) # Disconnected(id)
        BY EventFacts
  <1> HIDE DEF s
  <1>3. ASSUME NEW i \in 1..Len(s), NEW j \in 1..Len(s),
               s[i] = Connected(id), s[j] = Connected(id)
        PROVE  i = j
    <2>1. CASE e = Connected(id)
      <3>1. \A k \in 1..n : q[k] # Connected(id)
            BY <2>1 DEF Has
      <3>2. i \notin 1..n /\ j \notin 1..n
            BY <1>1, <1>3, <3>1
      <3> QED BY <1>0, <3>2
    <2>2. CASE e # Connected(id)
      <3>1. i # n + 1 /\ j # n + 1
            BY <1>1, <1>3, <2>2
      <3>2. i \in 1..n /\ j \in 1..n
            BY <1>0, <3>1
      <3> QED BY <1>1, <1>3, <3>2 DEF OneLife
    <2> QED BY <2>1, <2>2
  <1>4. ASSUME NEW i \in 1..Len(s), NEW j \in 1..Len(s),
               s[i] = Connected(id), s[j] = Disconnected(id)
        PROVE  i < j
    <2>1. CASE e = Connected(id)
      <3>1. \A k \in 1..n : q[k] # Disconnected(id)
            BY <2>1 DEF Has
      <3>2. j \notin 1..n /\ j # n + 1
            BY <1>1, <1>2, <1>4, <2>1, <3>1
      <3> QED BY <1>0, <3>2
    <2>2. CASE e # Connected(id)
      <3>1. i \in 1..n
            BY <1>0, <1>1, <1>4, <2>2
      <3>2. CASE j = n + 1
            BY <1>0, <3>1, <3>2
      <3>3. CASE j \in 1..n
            BY <1>1, <1>4, <3>1, <3>3 DEF OneLife
      <3> QED BY <1>0, <3>2, <3>3
    <2> QED BY <2>1, <2>2
  <1>5. OneLife(s, id)
        BY <1>3, <1>4 DEF OneLife
  <1> QED BY <1>5 DEF s

\* Where the events are when the queue has been sent off, or was not.
LEMMA RepliesAppend ==
  ASSUME NEW r \in Seq(Reply), NEW x \in Reply
  PROVE  /\ Append(r, x) \in Seq(Reply) /\ Len(Append(r, x)) = Len(r) + 1
         /\ Len(r) \in Nat
         /\ \A i \in 1..Len(r) : Append(r, x)[i] = r[i]
         /\ Append(r, x)[Len(r) + 1] = x
  OBVIOUS

\* An event is among the answers, or in the queue q.
Among(q, f) == \/ Has(q, f)
               \/ \E i \in 1..Len(replies) : Has(replies[i].events, f)

LEMMA QueueGrows ==
  ASSUME TypeOK, NEW e \in Event, NEW id \in Id, Ordered(id),
         e = Connected(id) => /\ ~OnTheWay(Connected(id))
                              /\ ~OnTheWay(Disconnected(id))
  PROVE  OrderedWith(Append(control_queue_, e), id)
  <1> DEFINE q == Append(control_queue_, e)
  <1>0. control_queue_ \in Seq(Event)
        BY DEF TypeOK
  <1>1. OneLife(q, id)
        BY <1>0, OnTheWayIs, OneLifeAppend DEF Ordered, OrderedWith
  <1>2. ASSUME NEW i \in 1..Len(replies), Has(replies[i].events, Disconnected(id))
        PROVE  ~Has(q, Connected(id))
    <2>1. ~Has(control_queue_, Connected(id))
          BY <1>2 DEF Ordered, OrderedWith
    <2>2. e # Connected(id)
          BY <1>2, OnTheWayIs
    <2> QED BY <1>0, <2>1, <2>2, HasAppend
  <1> HIDE DEF q
  <1>3. OrderedWith(q, id)
        BY <1>1, <1>2 DEF Ordered, OrderedWith
  <1> QED BY <1>3 DEF q

\* The queue q is sent off in an answer.
LEMMA QueueSent ==
  ASSUME TypeOK, NEW q \in Seq(Event), NEW x \in Reply, x.events = q,
         replies' = Append(replies, x), control_queue_' = <<>>
  PROVE  /\ \A id \in Id : OrderedWith(q, id) => Ordered(id)'
         /\ \A f : OnTheWay(f)' <=> Among(q, f)
  <1> DEFINE n == Len(replies)
  <1>0. replies \in Seq(Reply) /\ n \in Nat
        BY DEF TypeOK, Reply
  <1>1. /\ Len(replies') = n + 1 /\ replies'[n + 1] = x
        /\ \A i \in 1..n : replies'[i] = replies[i]
        BY <1>0, RepliesAppend
  <1> HIDE DEF n
  <1>2. \A i \in 1..(n + 1) : i \in 1..n \/ i = n + 1
        BY <1>0
  <1>3. \A i \in 1..n : i \in 1..(n + 1)
        BY <1>0
  <1>4. n + 1 \in 1..(n + 1)
        BY <1>0
  <1>5. ASSUME NEW id \in Id, OrderedWith(q, id)
        PROVE  Ordered(id)'
    <2>1. OneLife(<<>>, id)
          BY DEF OneLife
    <2>2. ASSUME NEW i \in 1..(n + 1) PROVE OneLife(replies'[i].events, id)
          BY <1>1, <1>2, <1>5, <2>2 DEF OrderedWith, n
    <2>3. ASSUME NEW i \in 1..(n + 1), NEW j \in (i + 1)..(n + 1),
                 Has(replies'[i].events, Disconnected(id))
          PROVE  ~Has(replies'[j].events, Connected(id))
      <3>1. i \in 1..n
            BY <1>0, <2>3
      <3>2. replies'[i] = replies[i]
            BY <3>1, <1>1
      <3>3. CASE j = n + 1
            BY <1>1, <1>5, <2>3, <3>1, <3>2, <3>3 DEF OrderedWith, n
      <3>4. CASE j \in (i + 1)..n
        <4>1. replies'[j] = replies[j]
              BY <1>0, <1>1, <3>1, <3>4
        <4> QED BY <1>5, <2>3, <3>1, <3>2, <3>4, <4>1 DEF OrderedWith, n
      <3>5. j = n + 1 \/ j \in (i + 1)..n
            BY <1>0, <3>1
      <3> QED BY <3>3, <3>4, <3>5
    <2> QED BY <1>1, <2>1, <2>2, <2>3, HasEmpty DEF Ordered, OrderedWith
  <1>6. ASSUME NEW f
        PROVE  OnTheWay(f)' <=> Among(q, f)
    <2>1. OnTheWay(f)' <=> \E i \in 1..(n + 1) : Has(replies'[i].events, f)
      <3>1. ~Has(control_queue_', f)
            BY HasEmpty
      <3>2. OnTheWay(f)' <=> \/ Has(control_queue_', f)
                             \/ \E i \in 1..Len(replies') : Has(replies'[i].events, f)
            BY DEF OnTheWay, Has
      <3> QED BY <1>1, <3>1, <3>2
    <2>2. ASSUME NEW i \in 1..(n + 1), Has(replies'[i].events, f)
          PROVE  Among(q, f)
          BY <1>1, <1>2, <2>2 DEF Among, n
    <2>3. ASSUME Among(q, f)
          PROVE  \E i \in 1..(n + 1) : Has(replies'[i].events, f)
      <3>1. CASE Has(q, f)
            BY <1>1, <1>4, <3>1
      <3>2. CASE \E i \in 1..n : Has(replies[i].events, f)
            BY <1>1, <1>3, <3>2
      <3> QED BY <2>3, <3>1, <3>2 DEF Among, n
    <2> QED BY <2>1, <2>2, <2>3
  <1> QED BY <1>5, <1>6

\* An answer without events passes the queue.
LEMMA EmptyAnswer ==
  ASSUME TypeOK, NEW x \in Reply, x.events = <<>>,
         replies' = Append(replies, x), control_queue_' = control_queue_
  PROVE  /\ \A id \in Id : Ordered(id) => Ordered(id)'
         /\ \A f : OnTheWay(f)' <=> OnTheWay(f)
  <1> DEFINE n == Len(replies)
  <1>0. replies \in Seq(Reply) /\ n \in Nat
        BY DEF TypeOK, Reply
  <1>1. /\ Len(replies') = n + 1 /\ replies'[n + 1] = x
        /\ \A i \in 1..n : replies'[i] = replies[i]
        BY <1>0, RepliesAppend
  <1>a. \A f : ~Has(replies'[n + 1].events, f)
        BY <1>1, HasEmpty
  <1> HIDE DEF n
  <1>2. \A i \in 1..(n + 1) : i \in 1..n \/ i = n + 1
        BY <1>0
  <1>3. \A i \in 1..n : i \in 1..(n + 1)
        BY <1>0
  <1>5. ASSUME NEW id \in Id, Ordered(id)
        PROVE  Ordered(id)'
    <2>1. OneLife(<<>>, id)
          BY DEF OneLife
    <2>2. ASSUME NEW i \in 1..(n + 1) PROVE OneLife(replies'[i].events, id)
          BY <1>1, <1>2, <1>5, <2>1, <2>2 DEF Ordered, OrderedWith, n
    <2>3. ASSUME NEW i \in 1..(n + 1), Has(replies'[i].events, Disconnected(id))
          PROVE  /\ ~Has(control_queue_, Connected(id))
                 /\ \A j \in (i + 1)..(n + 1) : ~Has(replies'[j].events, Connected(id))
      <3>1. i \in 1..n /\ replies'[i] = replies[i]
            BY <1>a, <1>1, <1>2, <2>3
      <3>2. /\ ~Has(control_queue_, Connected(id))
            /\ \A j \in (i + 1)..n : ~Has(replies[j].events, Connected(id))
            BY <1>5, <2>3, <3>1 DEF Ordered, OrderedWith, n
      <3>3. \A j \in (i + 1)..(n + 1) : j = n + 1 \/ (j \in (i + 1)..n /\ j \in 1..n)
            BY <1>0, <3>1
      <3> QED BY <1>a, <1>1, <3>2, <3>3
    <2> QED BY <1>1, <1>5, <2>2, <2>3 DEF Ordered, OrderedWith
  <1>6. ASSUME NEW f
        PROVE  OnTheWay(f)' <=> OnTheWay(f)
    <2>1. OnTheWay(f)' <=> \/ Has(control_queue_, f)
                           \/ \E i \in 1..(n + 1) : Has(replies'[i].events, f)
          BY <1>1 DEF OnTheWay, Has
    <2>2. OnTheWay(f) <=> \/ Has(control_queue_, f)
                          \/ \E i \in 1..n : Has(replies[i].events, f)
          BY DEF OnTheWay, Has, n
    <2> QED BY <1>a, <1>1, <1>2, <1>3, <2>1, <2>2
  <1> QED BY <1>5, <1>6

\* The oldest answer reaches the script.
LEMMA AnswerTaken ==
  ASSUME TypeOK, replies # <<>>, replies' = Tail(replies),
         control_queue_' = control_queue_
  PROVE  /\ \A id \in Id : Ordered(id) => Ordered(id)'
         /\ \A f : OnTheWay(f) <=> Has(Head(replies).events, f) \/ OnTheWay(f)'
         /\ \A id \in Id : Ordered(id) /\ Has(Head(replies).events, Disconnected(id))
                 => ~OnTheWay(Connected(id))'
  <1> DEFINE n == Len(replies)
  <1>0. replies \in Seq(Reply) /\ n \in Nat \ {0}
        BY DEF TypeOK, Reply
  <1>1. /\ Len(replies') = n - 1 /\ replies[1] = Head(replies)
        /\ \A i \in 1..(n - 1) : replies'[i] = replies[i + 1]
        BY <1>0
  <1> HIDE DEF n
  <1>2. \A i \in 1..(n - 1) : i + 1 \in 1..n
        BY <1>0
  <1>3. \A i \in 1..n : i = 1 \/ (i - 1 \in 1..(n - 1) /\ (i - 1) + 1 = i)
        BY <1>0
  <1>4. 1 \in 1..n
        BY <1>0
  <1>5. ASSUME NEW id \in Id, Ordered(id)
        PROVE  Ordered(id)'
    <2>1. ASSUME NEW i \in 1..(n - 1)
          PROVE  /\ OneLife(replies'[i].events, id)
                 /\ Has(replies'[i].events, Disconnected(id)) =>
                       /\ ~Has(control_queue_, Connected(id))
                       /\ \A j \in (i + 1)..(n - 1) :
                             ~Has(replies'[j].events, Connected(id))
      <3>1. \A j \in (i + 1)..(n - 1) : j \in 1..(n - 1) /\ j + 1 \in ((i + 1) + 1)..n
            BY <1>0
      <3>2. replies'[i] = replies[i + 1] /\ i + 1 \in 1..n
            BY <1>1, <1>2
      <3>3. /\ OneLife(replies[i + 1].events, id)
            /\ Has(replies[i + 1].events, Disconnected(id)) =>
                       /\ ~Has(control_queue_, Connected(id))
                       /\ \A j \in ((i + 1) + 1)..n :
                             ~Has(replies[j].events, Connected(id))
            BY <1>5, <3>2 DEF Ordered, OrderedWith, n
      <3> QED BY <1>1, <3>1, <3>2, <3>3
    <2> QED BY <1>1, <1>5, <2>1 DEF Ordered, OrderedWith
  <1>6. ASSUME NEW f
        PROVE  /\ OnTheWay(f)' <=> \/ Has(control_queue_, f)
                                  \/ \E i \in 1..(n - 1) : Has(replies[i + 1].events, f)
               /\ OnTheWay(f) <=> \/ Has(control_queue_, f)
                                  \/ \E i \in 1..n : Has(replies[i].events, f)
    <2>1. OnTheWay(f)' <=> \/ Has(control_queue_, f)
                           \/ \E i \in 1..(n - 1) : Has(replies'[i].events, f)
          BY <1>1 DEF OnTheWay, Has
    <2>2. OnTheWay(f) <=> \/ Has(control_queue_, f)
                          \/ \E i \in 1..n : Has(replies[i].events, f)
          BY DEF OnTheWay, Has, n
    <2> QED BY <1>1, <2>1, <2>2
  <1>7. ASSUME NEW f
        PROVE  OnTheWay(f) <=> Has(Head(replies).events, f) \/ OnTheWay(f)'
        BY <1>1, <1>2, <1>3, <1>4, <1>6
  <1>8. ASSUME NEW id \in Id, Ordered(id), Has(Head(replies).events, Disconnected(id))
        PROVE  ~OnTheWay(Connected(id))'
    <2>1. /\ ~Has(control_queue_, Connected(id))
          /\ \A j \in (1 + 1)..n : ~Has(replies[j].events, Connected(id))
          BY <1>1, <1>4, <1>8 DEF Ordered, OrderedWith, n
    <2>2. \A i \in 1..(n - 1) : i + 1 \in (1 + 1)..n
          BY <1>0
    <2> QED BY <1>6, <2>1, <2>2
  <1> QED BY <1>5, <1>7, <1>8

(***************************************************************************)
(* What the script makes of a batch, event by event: the end of a client   *)
(* removes it, its connection alone adds it.                               *)
(***************************************************************************)
LEMMA AppliedIs ==
  ASSUME NEW events \in Seq(Event), NEW id \in Id, OneLife(events, id)
  PROVE  id \in Applied(events) <=>
            /\ id \in connections \/ Has(events, Connected(id))
            /\ ~Has(events, Disconnected(id))
  <1> DEFINE n == Len(events)
             about == {i \in 1..n : events[i].id = id}
  <1>0. n \in Nat /\ \A i \in 1..n : events[i] \in Event
        OBVIOUS
  <1>1. \A i \in 1..n : events[i] \in {Connected(id), Disconnected(id)} => i \in about
        BY EventFacts
  <1>2. \A i \in about : events[i] \in {Connected(id), Disconnected(id)}
        BY <1>0, EventIs
  <1>3. id \in Applied(events) <=>
           IF about = {} THEN id \in connections
           ELSE \E i \in about : /\ \A j \in about : j <= i
                                 /\ events[i] = Connected(id)
        BY DEF Applied
  <1>4. Connected(id) # Disconnected(id)
        BY EventFacts
  <1> HIDE DEF about
  <1>5. about \subseteq 1..n
        BY DEF about
  <1>6. CASE Has(events, Disconnected(id))
    <2>1. PICK d \in 1..n : events[d] = Disconnected(id)
          BY <1>6 DEF Has
    <2>2. d \in about
          BY <1>1, <2>1
    <2>3. ASSUME NEW i \in about, \A j \in about : j <= i, events[i] = Connected(id)
          PROVE  FALSE
      <3>1. d <= i /\ i \in 1..n
            BY <1>5, <2>2, <2>3
      <3>2. i < d
            BY <2>1, <2>3, <3>1 DEF OneLife
      <3> QED BY <2>1, <3>1, <3>2
    <2> QED BY <1>3, <1>6, <2>2, <2>3
  <1>7. CASE ~Has(events, Disconnected(id)) /\ Has(events, Connected(id))
    <2>1. PICK c \in 1..n : events[c] = Connected(id)
          BY <1>7 DEF Has
    <2>2. c \in about
          BY <1>1, <2>1
    <2>3. ASSUME NEW j \in about PROVE j <= c
      <3>1. j \in 1..n /\ events[j] = Connected(id)
            BY <1>2, <1>5, <1>7 DEF Has
      <3>2. j = c
            BY <2>1, <3>1 DEF OneLife
      <3> QED BY <2>1, <3>2
    <2> QED BY <1>3, <1>7, <2>1, <2>2, <2>3
  <1>8. CASE ~Has(events, Disconnected(id)) /\ ~Has(events, Connected(id))
    <2>1. about = {}
          BY <1>2, <1>5, <1>8 DEF Has
    <2> QED BY <1>3, <1>8, <2>1
  <1> QED BY <1>6, <1>7, <1>8

-----------------------------------------------------------------------------
LEMMA LiveCallsIs ==
  LiveCalls = Cardinality(Raised(requests)) + Cardinality(LiveIn(replies))
                 + (IF poll_ = "live" THEN 1 ELSE 0)
  BY DEF LiveCalls, Raised, LiveIn

\* The same of the next state.
LEMMA LiveCallsNext ==
  LiveCalls' = Cardinality(Raised(requests')) + Cardinality(LiveIn(replies'))
                 + (IF poll_' = "live" THEN 1 ELSE 0)
  BY DEF LiveCalls, Raised, LiveIn

(***************************************************************************)
(* enqueue_control queues the event, hands it to the waiting poll with     *)
(* what was queued, or drops it and counts it as lost.                     *)
(***************************************************************************)
LEMMA EnqueueStep ==
  ASSUME TypeOK, OneCallAwaited, EventsInOrder,
         NEW id \in Id, NEW e \in {Connected(id), Disconnected(id)},
         e = Connected(id) => /\ ~OnTheWay(Connected(id))
                              /\ ~OnTheWay(Disconnected(id)),
         enqueue_control(e), requests' = requests, loop' = loop
  PROVE  /\ EventTypes' /\ OneCallAwaited' /\ EventsInOrder'
         /\ \/ /\ lost' = lost \cup {id}
               /\ \A f : OnTheWay(f)' <=> OnTheWay(f)
            \/ /\ lost' = lost
               /\ \A f : OnTheWay(f)' <=> OnTheWay(f) \/ f = e
  <1> DEFINE q == Append(control_queue_, e)
  <1>0. EventTypes
        BY DEF TypeOK, EventTypes, Reply
  <1>1. e \in Event /\ e.id = id
        BY EventFacts
  <1>2. CASE Len(control_queue_) = QueueCap
    <2>1. /\ lost' = lost \cup {id}
          /\ UNCHANGED <<control_queue_, poll_, replies>>
          BY <1>1, <1>2 DEF enqueue_control
    <2>2. EventTypes'
          BY <1>0, <2>1 DEF EventTypes
    <2>3. OneCallAwaited'
          BY <2>1 DEF OneCallAwaited, LiveCalls
    <2>4. EventsInOrder'
          BY <2>1 DEF EventsInOrder, Ordered, OrderedWith
    <2>5. \A f : OnTheWay(f)' <=> OnTheWay(f)
          BY <2>1 DEF OnTheWay
    <2> QED BY <2>1, <2>2, <2>3, <2>4, <2>5
  <1>3. CASE Len(control_queue_) # QueueCap
    <2>1. q \in Seq(Event) /\ Len(q) <= QueueCap
          BY <1>0, <1>1, <1>3, ControlAssumption DEF EventTypes
    <2>2. lost' = lost
          BY <1>3 DEF enqueue_control
    <2>3. \A i \in Id : OrderedWith(q, i)
      <3> TAKE i \in Id
      <3>1. e = Connected(i) => i = id
            BY EventFacts
      <3> QED BY <1>1, <3>1, QueueGrows DEF EventsInOrder
    <2>4. ASSUME NEW f PROVE Among(q, f) <=> OnTheWay(f) \/ f = e
      <3>1. Has(q, f) <=> Has(control_queue_, f) \/ f = e
            BY <1>0, <1>1, HasAppend DEF EventTypes
      <3> HIDE DEF q
      <3> QED BY <3>1, OnTheWayIs DEF Among
    <2>5. CASE poll_ = "none"
      <3>1. control_queue_' = q /\ UNCHANGED <<poll_, replies>>
            BY <1>3, <2>5 DEF enqueue_control
      <3> HIDE DEF q
      <3>2. EventTypes'
            BY <1>0, <2>1, <2>2, <3>1 DEF EventTypes
      <3>3. OneCallAwaited'
            BY <3>1 DEF OneCallAwaited, LiveCalls
      <3>4. EventsInOrder'
            BY <2>3, <3>1 DEF EventsInOrder, Ordered, OrderedWith
      <3>5. \A f : OnTheWay(f)' <=> Among(q, f)
            BY <3>1 DEF OnTheWay, Among, Has
      <3> QED BY <2>2, <2>4, <3>2, <3>3, <3>4, <3>5
    <2>6. CASE poll_ # "none"
      <3> DEFINE x == Batch(poll_, q)
      <3>1. replies' = Append(replies, x) /\ control_queue_' = <<>> /\ poll_' = "none"
            BY <1>3, <2>6 DEF enqueue_control
      <3> HIDE DEF q
      <3>2. x \in Reply /\ (x.live <=> poll_ = "live") /\ x.events = q
            BY <2>1, BatchType
      <3> HIDE DEF x
      <3>3. EventTypes'
        <4>1. replies' \in Seq(Reply)
              BY <1>0, <3>1, <3>2, RepliesAppend DEF EventTypes
        <4>2. <<>> \in Seq(Event) /\ Len(<<>>) <= QueueCap
              BY ControlAssumption
        <4> QED BY <1>0, <2>2, <3>1, <4>1, <4>2 DEF EventTypes
      <3>4. LiveCalls' = LiveCalls
        <4>1. Cardinality(LiveIn(replies')) =
                 Cardinality(LiveIn(replies)) + (IF poll_ = "live" THEN 1 ELSE 0)
              BY <1>0, <3>1, <3>2, RepliesCount DEF EventTypes
        <4>2. Cardinality(LiveIn(replies)) \in Nat /\ Cardinality(Raised(requests)) \in Nat
              BY <3>2, RepliesCount, RequestsCount DEF TypeOK, Reply
        <4> QED BY <3>1, <4>1, <4>2, LiveCallsIs, LiveCallsNext
      <3>5. OneCallAwaited'
            BY <3>4 DEF OneCallAwaited
      <3>6. /\ \A i \in Id : Ordered(i)'
            /\ \A f : OnTheWay(f)' <=> Among(q, f)
            BY <2>1, <2>3, <3>1, <3>2, QueueSent
      <3>7. EventsInOrder'
            BY <3>6 DEF EventsInOrder
      <3> QED BY <2>2, <2>4, <3>3, <3>5, <3>6, <3>7
    <2> QED BY <2>5, <2>6
  <1> QED BY <1>2, <1>3

-----------------------------------------------------------------------------
\* A step that leaves the events and what they add up to alone.
LEMMA EventsAlone ==
  ASSUME EventsInOrder, IdsHandedOut, EventsAddUp,
         UNCHANGED <<sessions_, control_queue_, replies, connections, lost>>,
         next_id_' \in Int, next_id_ \in Int, next_id_ <= next_id_',
         next_id_' + backlog' <= MaxId + 1
  PROVE  EventsInOrder' /\ IdsHandedOut' /\ EventsAddUp'
  <1>1. \A f : OnTheWay(f)' <=> OnTheWay(f)
        BY DEF OnTheWay
  <1>2. EventsInOrder'
        BY DEF EventsInOrder, Ordered, OrderedWith
  <1>3. IdsHandedOut'
    <2>1. \A id \in Id : id < next_id_ => id < next_id_'
          BY DEF Id
    <2> QED BY <1>1, <2>1 DEF IdsHandedOut
  <1>4. EventsAddUp'
        BY <1>1 DEF EventsAddUp
  <1> QED BY <1>2, <1>3, <1>4

LEMMA PeerStep ==
  ASSUME IInv, PeerConnects \/ SetupFails \/ AcceptRejects
  PROVE  IInv'
  <1>0. TypeOK /\ IdsHandedOut
        BY DEF IInv
  <1>1. UNCHANGED <<sessions_, control_queue_, poll_, requests, replies, loop,
                    connections, lost, timeouts>>
        BY DEF PeerConnects, SetupFails, AcceptRejects
  <1>2. /\ next_id_ \in Int /\ next_id_' \in 1..(MaxId + 1) /\ backlog' \in 0..MaxId
        /\ next_id_ <= next_id_' /\ next_id_' + backlog' <= MaxId + 1
        BY <1>0, ControlAssumption
        DEF PeerConnects, SetupFails, AcceptRejects, TypeOK, IdsHandedOut
  <1>3. TypeOK' /\ OneCallAwaited'
        BY <1>0, <1>1, <1>2 DEF IInv, TypeOK, OneCallAwaited, LiveCalls
  <1>4. EventsInOrder' /\ IdsHandedOut' /\ EventsAddUp'
        BY <1>1, <1>2, EventsAlone DEF IInv
  <1> QED BY <1>3, <1>4 DEF IInv

LEMMA AcceptStep ==
  ASSUME IInv, accept_clients
  PROVE  IInv'
  <1> DEFINE id == next_id_
  <1>0. TypeOK /\ OneCallAwaited /\ EventsInOrder /\ IdsHandedOut /\ EventsAddUp
        BY DEF IInv
  <1>1. /\ id \in Id /\ id \in Nat
        /\ next_id_' \in 1..(MaxId + 1) /\ backlog' \in 0..MaxId
        /\ next_id_' = next_id_ + 1 /\ next_id_' + backlog' <= MaxId + 1
        BY <1>0, ControlAssumption DEF accept_clients, TypeOK, IdsHandedOut, Id
  <1> HIDE DEF id
  <1>2. /\ id \notin connections /\ id \notin sessions_
        /\ ~OnTheWay(Connected(id)) /\ ~OnTheWay(Disconnected(id))
    <2>1. ~(id < next_id_)
          BY <1>1 DEF id
    <2> QED BY <1>0, <1>1, <2>1 DEF IdsHandedOut
  <1>3. /\ sessions_' = sessions_ \cup {id} /\ enqueue_control(Connected(id))
        /\ UNCHANGED <<requests, loop, connections, timeouts>>
        BY DEF accept_clients, id
  <1>4. /\ EventTypes' /\ OneCallAwaited' /\ EventsInOrder'
        /\ \/ /\ lost' = lost \cup {id}
              /\ \A f : OnTheWay(f)' <=> OnTheWay(f)
           \/ /\ lost' = lost
              /\ \A f : OnTheWay(f)' <=> OnTheWay(f) \/ f = Connected(id)
        BY <1>0, <1>1, <1>2, <1>3, EnqueueStep
  <1>5. TypeOK'
        BY <1>0, <1>1, <1>3, <1>4 DEF TypeOK, EventTypes, Reply
  <1>6. ASSUME NEW i \in Id, i # id
        PROVE  /\ OnTheWay(Connected(i))' <=> OnTheWay(Connected(i))
               /\ OnTheWay(Disconnected(i))' <=> OnTheWay(Disconnected(i))
    <2>1. Connected(i) # Connected(id) /\ Disconnected(i) # Connected(id)
          BY <1>1, <1>6, EventFacts
    <2> QED BY <1>4, <2>1
  <1>7. IdsHandedOut'
    <2>1. ASSUME NEW i \in Id,
                 \/ i \in sessions_' \/ i \in connections'
                 \/ OnTheWay(Connected(i))' \/ OnTheWay(Disconnected(i))'
          PROVE  i < next_id_'
      <3>1. CASE i = id
            BY <1>1, <3>1 DEF id
      <3>2. CASE i # id
        <4>1. i < next_id_
              BY <1>0, <1>3, <1>6, <2>1, <3>2 DEF IdsHandedOut
        <4> QED BY <1>1, <4>1 DEF id, Id
      <3> QED BY <3>1, <3>2
    <2> QED BY <1>1, <2>1 DEF IdsHandedOut
  <1>8. EventsAddUp'
    <2> SUFFICES ASSUME NEW i \in Id \ lost'
                 PROVE  i \in sessions_' <=>
                          /\ i \in connections' \/ OnTheWay(Connected(i))'
                          /\ ~OnTheWay(Disconnected(i))'
        BY DEF EventsAddUp
    <2>1. CASE i = id
      <3>1. Connected(id) # Disconnected(id)
            BY <1>1, EventFacts
      <3> QED BY <1>2, <1>3, <1>4, <2>1, <3>1
    <2>2. CASE i # id
      <3>1. i \notin lost
            BY <1>4
      <3> QED BY <1>0, <1>3, <1>6, <2>2, <3>1 DEF EventsAddUp
    <2> QED BY <2>1, <2>2
  <1> QED BY <1>4, <1>5, <1>7, <1>8 DEF IInv

LEMMA DisconnectStep ==
  ASSUME IInv, NEW id \in Id, on_client_disconnected(id)
  PROVE  IInv'
  <1>0. TypeOK /\ OneCallAwaited /\ EventsInOrder /\ IdsHandedOut /\ EventsAddUp
        BY DEF IInv
  <1>1. /\ id \in sessions_ /\ sessions_' = sessions_ \ {id}
        /\ enqueue_control(Disconnected(id))
        /\ UNCHANGED <<backlog, next_id_, requests, loop, connections, timeouts>>
        BY DEF on_client_disconnected
  <1>2. Disconnected(id) # Connected(id)
        BY EventFacts
  <1>3. /\ EventTypes' /\ OneCallAwaited' /\ EventsInOrder'
        /\ \/ /\ lost' = lost \cup {id}
              /\ \A f : OnTheWay(f)' <=> OnTheWay(f)
           \/ /\ lost' = lost
              /\ \A f : OnTheWay(f)' <=> OnTheWay(f) \/ f = Disconnected(id)
        BY <1>0, <1>1, <1>2, EnqueueStep
  <1>4. TypeOK'
        BY <1>0, <1>1, <1>3 DEF TypeOK, EventTypes, Reply
  <1>5. ASSUME NEW i \in Id, i # id
        PROVE  /\ OnTheWay(Connected(i))' <=> OnTheWay(Connected(i))
               /\ OnTheWay(Disconnected(i))' <=> OnTheWay(Disconnected(i))
    <2>1. Connected(i) # Disconnected(id) /\ Disconnected(i) # Disconnected(id)
          BY <1>5, EventFacts
    <2> QED BY <1>3, <2>1
  <1>6. IdsHandedOut'
    <2>1. id < next_id_
          BY <1>0, <1>1 DEF IdsHandedOut
    <2>2. ASSUME NEW i \in Id,
                 \/ i \in sessions_' \/ i \in connections'
                 \/ OnTheWay(Connected(i))' \/ OnTheWay(Disconnected(i))'
          PROVE  i < next_id_
      <3>1. CASE i # id
            BY <1>0, <1>1, <1>5, <2>2, <3>1 DEF IdsHandedOut
      <3> QED BY <2>1, <3>1
    <2> QED BY <1>0, <1>1, <2>2 DEF IdsHandedOut
  <1>7. EventsAddUp'
    <2> SUFFICES ASSUME NEW i \in Id \ lost'
                 PROVE  i \in sessions_' <=>
                          /\ i \in connections' \/ OnTheWay(Connected(i))'
                          /\ ~OnTheWay(Disconnected(i))'
        BY DEF EventsAddUp
    <2>1. CASE i = id
          BY <1>1, <1>3, <2>1
    <2>2. CASE i # id
      <3>1. i \notin lost
            BY <1>3
      <3> QED BY <1>0, <1>1, <1>5, <2>2, <3>1 DEF EventsAddUp
    <2> QED BY <2>1, <2>2
  <1> QED BY <1>3, <1>4, <1>6, <1>7 DEF IInv

\* The parts of IInv that follow when only the way to the script changes.
LEMMA WayAlone ==
  ASSUME IdsHandedOut, EventsAddUp, EventsInOrder',
         UNCHANGED <<daemon, connections, lost>>,
         \A f : OnTheWay(f)' <=> OnTheWay(f)
  PROVE  EventsInOrder' /\ IdsHandedOut' /\ EventsAddUp'
  BY DEF IdsHandedOut, EventsAddUp, daemon

LEMMA HandlePollStep ==
  ASSUME IInv, handle_poll
  PROVE  IInv'
  <1> DEFINE live == Head(requests)
             who == IF live THEN "live" ELSE "stale"
  <1>0. TypeOK /\ OneCallAwaited /\ EventsInOrder /\ IdsHandedOut /\ EventsAddUp
        BY DEF IInv
  <1>1. /\ requests # <<>> /\ requests' = Tail(requests)
        /\ UNCHANGED <<daemon, loop, connections, lost, timeouts>>
        BY DEF handle_poll
  <1>2. /\ live \in BOOLEAN /\ requests' \in Seq(BOOLEAN)
        /\ replies \in Seq(Reply) /\ control_queue_ \in Seq(Event)
        BY <1>0, <1>1 DEF TypeOK, Reply
  <1>3. /\ Cardinality(Raised(requests')) =
              Cardinality(Raised(requests)) - (IF live THEN 1 ELSE 0)
        /\ Cardinality(Raised(requests)) \in Nat
        BY <1>0, <1>1, RequestsCount DEF TypeOK
  <1> HIDE DEF live
  <1>4. who = "live" <=> live
        BY <1>2
  <1>5. Cardinality(LiveIn(replies)) \in Nat
    <2>1. Busy(TRUE) \in Reply
          BY <1>2, BatchType
    <2> QED BY <1>2, <2>1, RepliesCount
  <1>6. CASE poll_ # "none"
    <2> DEFINE x == Busy(live)
    <2>1. replies' = Append(replies, x) /\ UNCHANGED <<control_queue_, poll_>>
          BY <1>6 DEF handle_poll, live
    <2>2. x \in Reply /\ x.live = live /\ x.events = <<>>
          BY <1>2, BatchType
    <2> HIDE DEF x
    <2>3. TypeOK'
      <3>1. replies' \in Seq(Reply)
            BY <1>2, <2>1, <2>2, RepliesAppend
      <3> QED BY <1>0, <1>1, <1>2, <2>1, <3>1 DEF TypeOK, Reply, daemon
    <2>4. OneCallAwaited'
      <3>1. Cardinality(LiveIn(replies')) =
               Cardinality(LiveIn(replies)) + (IF live THEN 1 ELSE 0)
            BY <1>2, <2>1, <2>2, RepliesCount
      <3>2. LiveCalls' = LiveCalls
            BY <1>3, <1>5, <2>1, <3>1, LiveCallsIs, LiveCallsNext
      <3> QED BY <1>0, <1>1, <3>2 DEF OneCallAwaited
    <2>5. EventsInOrder' /\ \A f : OnTheWay(f)' <=> OnTheWay(f)
          BY <1>0, <2>1, <2>2, EmptyAnswer DEF EventsInOrder
    <2> QED BY <1>0, <1>1, <2>3, <2>4, <2>5, WayAlone DEF IInv
  <1>7. CASE poll_ = "none" /\ control_queue_ # <<>>
    <2> DEFINE x == Batch(who, control_queue_)
    <2>1. /\ replies' = Append(replies, x) /\ control_queue_' = <<>>
          /\ poll_' = poll_
          BY <1>7 DEF handle_poll, live
    <2> HIDE DEF who
    <2>2. x \in Reply /\ (x.live <=> live) /\ x.events = control_queue_
          BY <1>2, <1>4, BatchType
    <2> HIDE DEF x
    <2>3. TypeOK'
      <3>1. replies' \in Seq(Reply)
            BY <1>2, <2>1, <2>2, RepliesAppend
      <3>2. control_queue_' \in Seq(Event) /\ Len(control_queue_') <= QueueCap
            BY <2>1, ControlAssumption
      <3> QED BY <1>0, <1>1, <1>2, <2>1, <3>1, <3>2 DEF TypeOK, Reply, daemon
    <2>4. OneCallAwaited'
      <3>1. Cardinality(LiveIn(replies')) =
               Cardinality(LiveIn(replies)) + (IF live THEN 1 ELSE 0)
            BY <1>2, <2>1, <2>2, RepliesCount
      <3>2. LiveCalls' = LiveCalls
            BY <1>3, <1>5, <2>1, <3>1, LiveCallsIs, LiveCallsNext
      <3> QED BY <1>0, <1>1, <3>2 DEF OneCallAwaited
    <2>5. /\ \A id \in Id : Ordered(id)'
          /\ \A f : OnTheWay(f)' <=> Among(control_queue_, f)
          BY <1>0, <1>2, <2>1, <2>2, QueueSent DEF EventsInOrder, Ordered
    <2>6. EventsInOrder' /\ \A f : OnTheWay(f)' <=> OnTheWay(f)
          BY <2>5, OnTheWayIs DEF EventsInOrder, Among
    <2> QED BY <1>0, <1>1, <2>3, <2>4, <2>6, WayAlone DEF IInv
  <1>8. CASE poll_ = "none" /\ control_queue_ = <<>>
    <2>1. poll_' = who /\ UNCHANGED <<control_queue_, replies>>
          BY <1>8 DEF handle_poll, live
    <2>2. TypeOK'
          BY <1>0, <1>1, <1>2, <2>1 DEF TypeOK, daemon
    <2>3. OneCallAwaited'
      <3>1. LiveCalls' = LiveCalls
            BY <1>3, <1>4, <1>5, <1>8, <2>1, LiveCallsIs, LiveCallsNext
      <3> QED BY <1>0, <1>1, <3>1 DEF OneCallAwaited
    <2>4. EventsInOrder' /\ \A f : OnTheWay(f)' <=> OnTheWay(f)
          BY <1>0, <2>1 DEF EventsInOrder, Ordered, OrderedWith, OnTheWay
    <2> QED BY <1>0, <1>1, <2>2, <2>3, <2>4, WayAlone DEF IInv
  <1> QED BY <1>6, <1>7, <1>8

LEMMA TimeoutStep ==
  ASSUME IInv, on_timeout
  PROVE  IInv'
  <1> DEFINE x == Batch(poll_, <<>>)
  <1>0. TypeOK /\ OneCallAwaited /\ EventsInOrder /\ IdsHandedOut /\ EventsAddUp
        BY DEF IInv
  <1>1. /\ replies' = Append(replies, x) /\ poll_' = "none"
        /\ UNCHANGED <<daemon, control_queue_, requests, loop, connections, lost,
                       timeouts>>
        BY DEF on_timeout
  <1>2. x \in Reply /\ (x.live <=> poll_ = "live") /\ x.events = <<>>
    <2>1. <<>> \in Seq(Event) /\ (poll_ = "live") \in BOOLEAN
          OBVIOUS
    <2> QED BY <2>1 DEF Batch, Reply
  <1> HIDE DEF x
  <1>3. replies \in Seq(Reply) /\ requests \in Seq(BOOLEAN)
        BY <1>0 DEF TypeOK, Reply
  <1>4. TypeOK'
    <2>1. replies' \in Seq(Reply)
          BY <1>1, <1>2, <1>3, RepliesAppend
    <2> QED BY <1>0, <1>1, <2>1 DEF TypeOK, Reply, daemon
  <1>5. OneCallAwaited'
    <2>1. /\ Cardinality(LiveIn(replies')) =
                Cardinality(LiveIn(replies)) + (IF poll_ = "live" THEN 1 ELSE 0)
          /\ Cardinality(LiveIn(replies)) \in Nat
          BY <1>1, <1>2, <1>3, RepliesCount
    <2>2. Cardinality(Raised(requests)) \in Nat
          BY <1>3, RequestsCount
    <2>3. LiveCalls' = LiveCalls
          BY <1>1, <2>1, <2>2, LiveCallsIs, LiveCallsNext
    <2> QED BY <1>0, <1>1, <2>3 DEF OneCallAwaited
  <1>6. EventsInOrder' /\ \A f : OnTheWay(f)' <=> OnTheWay(f)
        BY <1>0, <1>1, <1>2, EmptyAnswer DEF EventsInOrder
  <1> QED BY <1>0, <1>1, <1>4, <1>5, <1>6, WayAlone DEF IInv

-----------------------------------------------------------------------------
LEMMA PollRetryStep ==
  ASSUME IInv, pollDaemon \/ Retry
  PROVE  IInv'
  <1>0. TypeOK /\ OneCallAwaited /\ EventsInOrder /\ IdsHandedOut /\ EventsAddUp
        BY DEF IInv
  <1>1. UNCHANGED <<daemon, control_queue_, poll_, replies, connections, lost,
                    timeouts>>
        BY DEF pollDaemon, Retry
  <1>2. TypeOK'
    <2>1. requests' \in Seq(BOOLEAN) /\ loop' \in {"call", "wait", "sleep"}
      <3>1. requests \in Seq(BOOLEAN) /\ Append(requests, TRUE) \in Seq(BOOLEAN)
        <4>1. requests \in Seq(BOOLEAN) /\ TRUE \in BOOLEAN
              BY <1>0 DEF TypeOK
        <4> QED BY <4>1
      <3>2. requests' = requests \/ requests' = Append(requests, TRUE)
            BY DEF pollDaemon, Retry
      <3> QED BY <3>1, <3>2 DEF pollDaemon, Retry
    <2> QED BY <1>0, <1>1, <2>1 DEF TypeOK, daemon
  <1>3. OneCallAwaited'
    <2>1. CASE pollDaemon
      <3>1. requests' = Append(requests, TRUE) /\ loop = "call" /\ loop' = "wait"
            BY <2>1 DEF pollDaemon
      <3>2. Cardinality(Raised(requests')) = Cardinality(Raised(requests)) + 1
            BY <1>0, <3>1, RequestsCount DEF TypeOK
      <3>3. /\ Cardinality(LiveIn(replies)) \in Nat
            /\ Cardinality(Raised(requests)) \in Nat
        <4>1. Busy(TRUE) \in Reply
              BY BatchType, <1>0 DEF TypeOK
        <4> QED BY <1>0, <4>1, RequestsCount, RepliesCount DEF TypeOK, Reply
      <3>4. LiveCalls' = LiveCalls + 1
            BY <1>1, <3>2, <3>3, LiveCallsIs, LiveCallsNext
      <3> QED BY <1>0, <3>1, <3>4 DEF OneCallAwaited
    <2>2. CASE Retry
          BY <1>0, <1>1, <2>2 DEF Retry, OneCallAwaited, LiveCalls
    <2> QED BY <2>1, <2>2
  <1>4. EventsInOrder' /\ \A f : OnTheWay(f)' <=> OnTheWay(f)
        BY <1>0, <1>1 DEF EventsInOrder, Ordered, OrderedWith, OnTheWay
  <1> QED BY <1>0, <1>1, <1>2, <1>3, <1>4, WayAlone DEF IInv

\* The oldest answer is taken: by the loop that awaits it, or by no one.
LEMMA AnswerFacts ==
  ASSUME IInv, replies # <<>>, replies' = Tail(replies),
         UNCHANGED <<daemon, control_queue_, poll_, requests, timeouts>>
  PROVE  /\ Head(replies) \in Reply /\ replies' \in Seq(Reply)
         /\ LiveCalls' = LiveCalls - (IF Head(replies).live THEN 1 ELSE 0)
         /\ Head(replies).live => loop = "wait"
         /\ EventsInOrder'
         /\ \A id \in Id : OneLife(Head(replies).events, id)
         /\ \A f : OnTheWay(f) <=> Has(Head(replies).events, f) \/ OnTheWay(f)'
         /\ \A id \in Id : Has(Head(replies).events, Disconnected(id))
                 => ~OnTheWay(Connected(id))'
  <1>0. TypeOK /\ OneCallAwaited /\ EventsInOrder
        BY DEF IInv
  <1>1. /\ replies \in Seq(Reply) /\ requests \in Seq(BOOLEAN)
        BY <1>0 DEF TypeOK, Reply
  <1>2. /\ Head(replies) \in Reply /\ replies' \in Seq(Reply)
        /\ 1 \in 1..Len(replies) /\ Head(replies) = replies[1]
        BY <1>1
  <1>3. /\ Cardinality(LiveIn(replies')) =
              Cardinality(LiveIn(replies)) - (IF Head(replies).live THEN 1 ELSE 0)
        /\ Cardinality(LiveIn(replies)) \in Nat
        BY <1>1, <1>2, RepliesCount
  <1>4. Cardinality(Raised(requests)) \in Nat
        BY <1>1, RequestsCount
  <1>5. LiveCalls' = LiveCalls - (IF Head(replies).live THEN 1 ELSE 0)
        BY <1>3, <1>4, LiveCallsIs, LiveCallsNext
  <1>6. ASSUME Head(replies).live PROVE loop = "wait"
    <2>1. Cardinality(LiveIn(replies')) \in Nat
          BY <1>1, <1>2, RepliesCount
    <2>2. LiveCalls >= 1
          BY <1>3, <1>4, <1>6, <2>1, LiveCallsIs
    <2> QED BY <1>0, <2>2 DEF OneCallAwaited
  <1>7. \A id \in Id : OneLife(Head(replies).events, id)
        BY <1>0, <1>2 DEF EventsInOrder, Ordered, OrderedWith
  <1>8. /\ EventsInOrder'
        /\ \A f : OnTheWay(f) <=> Has(Head(replies).events, f) \/ OnTheWay(f)'
        /\ \A id \in Id : Has(Head(replies).events, Disconnected(id))
                 => ~OnTheWay(Connected(id))'
        BY <1>0, AnswerTaken DEF EventsInOrder
  <1> QED BY <1>2, <1>5, <1>6, <1>7, <1>8

LEMMA AnsweredStep ==
  ASSUME IInv, Answered
  PROVE  IInv'
  <1> DEFINE events == Head(replies).events
  <1>0. TypeOK /\ OneCallAwaited /\ IdsHandedOut /\ EventsAddUp
        BY DEF IInv
  <1>1. /\ replies # <<>> /\ Head(replies).live /\ replies' = Tail(replies)
        /\ connections' = Applied(events) /\ loop' # "wait"
        /\ loop' \in {"call", "wait", "sleep"}
        /\ UNCHANGED <<daemon, control_queue_, poll_, requests, lost, timeouts>>
        BY DEF Answered
  <1>2. /\ Head(replies) \in Reply /\ replies' \in Seq(Reply)
        /\ LiveCalls' = LiveCalls - 1 /\ loop = "wait"
        /\ EventsInOrder'
        /\ \A id \in Id : OneLife(events, id)
        /\ \A f : OnTheWay(f) <=> Has(events, f) \/ OnTheWay(f)'
        /\ \A id \in Id : Has(events, Disconnected(id)) => ~OnTheWay(Connected(id))'
        BY <1>1, AnswerFacts
  <1>3. events \in Seq(Event)
        BY <1>2 DEF Reply
  <1>4. connections' \subseteq Id
        BY <1>1 DEF Applied
  <1> HIDE DEF events
  <1>5. \A id \in Id : id \in connections' <=>
                           /\ id \in connections \/ Has(events, Connected(id))
                           /\ ~Has(events, Disconnected(id))
        BY <1>1, <1>2, <1>3, AppliedIs
  <1>6. TypeOK'
        BY <1>0, <1>1, <1>2, <1>4 DEF TypeOK, Reply, daemon
  <1>7. OneCallAwaited'
    <2>1. LiveCalls = 1
          BY <1>0, <1>2 DEF OneCallAwaited
    <2> QED BY <1>1, <1>2, <2>1 DEF OneCallAwaited
  <1>8. IdsHandedOut'
    <2>1. ASSUME NEW id \in Id,
                 \/ id \in sessions_ \/ id \in connections'
                 \/ OnTheWay(Connected(id))' \/ OnTheWay(Disconnected(id))'
          PROVE  id < next_id_
          BY <1>0, <1>2, <1>5, <2>1 DEF IdsHandedOut
    <2> QED BY <1>0, <1>1, <2>1 DEF IdsHandedOut, daemon
  <1>9. EventsAddUp'
    <2> SUFFICES ASSUME NEW id \in Id \ lost
                 PROVE  id \in sessions_ <=>
                          /\ id \in connections' \/ OnTheWay(Connected(id))'
                          /\ ~OnTheWay(Disconnected(id))'
        BY <1>1 DEF EventsAddUp, daemon
    <2>1. id \in sessions_ <=> /\ id \in connections \/ OnTheWay(Connected(id))
                               /\ ~OnTheWay(Disconnected(id))
          BY <1>0 DEF EventsAddUp
    <2> QED BY <1>2, <1>5, <2>1
  <1> QED BY <1>2, <1>6, <1>7, <1>8, <1>9 DEF IInv

LEMMA LateAnswerStep ==
  ASSUME IInv, LateAnswer
  PROVE  IInv'
  <1> DEFINE events == Head(replies).events
  <1>0. TypeOK /\ OneCallAwaited /\ IdsHandedOut /\ EventsAddUp
        BY DEF IInv
  <1>1. /\ replies # <<>> /\ ~Head(replies).live /\ replies' = Tail(replies)
        /\ lost' = lost \cup IdsOf(events)
        /\ UNCHANGED <<daemon, control_queue_, poll_, requests, loop, connections,
                       timeouts>>
        BY DEF LateAnswer
  <1>2. /\ Head(replies) \in Reply /\ replies' \in Seq(Reply)
        /\ LiveCalls' = LiveCalls
        /\ EventsInOrder'
        /\ \A f : OnTheWay(f) <=> Has(events, f) \/ OnTheWay(f)'
    <2>1. LiveCalls \in Int
          BY <1>0 DEF OneCallAwaited
    <2> QED BY <1>1, <2>1, AnswerFacts
  <1>3. events \in Seq(Event)
        BY <1>2 DEF Reply
  <1> HIDE DEF events
  <1>4. /\ IdsOf(events) \subseteq Id
        /\ \A id \in Id : Has(events, Connected(id)) \/ Has(events, Disconnected(id))
                             => id \in IdsOf(events)
    <2>1. \A i \in 1..Len(events) : events[i].id \in Id
          BY <1>3, EventIs
    <2>2. \A id \in Id : Connected(id).id = id /\ Disconnected(id).id = id
          BY EventFacts
    <2> QED BY <2>1, <2>2 DEF IdsOf, Has
  <1>5. TypeOK'
        BY <1>0, <1>1, <1>2, <1>4 DEF TypeOK, Reply, daemon
  <1>6. OneCallAwaited'
        BY <1>0, <1>1, <1>2 DEF OneCallAwaited
  <1>7. IdsHandedOut'
        BY <1>0, <1>1, <1>2 DEF IdsHandedOut, daemon
  <1>8. EventsAddUp'
    <2> SUFFICES ASSUME NEW id \in Id \ lost'
                 PROVE  id \in sessions_ <=>
                          /\ id \in connections \/ OnTheWay(Connected(id))'
                          /\ ~OnTheWay(Disconnected(id))'
        BY <1>1 DEF EventsAddUp, daemon
    <2>1. /\ id \notin lost /\ ~Has(events, Connected(id))
          /\ ~Has(events, Disconnected(id))
          BY <1>1, <1>4
    <2> QED BY <1>0, <1>2, <2>1 DEF EventsAddUp
  <1> QED BY <1>2, <1>5, <1>6, <1>7, <1>8 DEF IInv

\* The call is given up: all that belongs to it stays on its way, unawaited.
LEMMA CallTimesOutStep ==
  ASSUME IInv, CallTimesOut
  PROVE  IInv'
  <1>0. TypeOK /\ OneCallAwaited /\ EventsInOrder /\ IdsHandedOut /\ EventsAddUp
        BY DEF IInv
  <1>1. /\ loop' = "sleep" /\ timeouts' = timeouts + 1 /\ timeouts < MaxTimeouts
        /\ requests' = [i \in 1..Len(requests) |-> FALSE]
        /\ poll_' = IF poll_ = "none" THEN "none" ELSE "stale"
        /\ replies' = [i \in 1..Len(replies) |-> [replies[i] EXCEPT !.live = FALSE]]
        /\ UNCHANGED <<daemon, control_queue_, connections, lost>>
        BY DEF CallTimesOut
  <1>2. /\ replies \in Seq(Reply) /\ Len(replies) \in Nat
        /\ requests \in Seq(BOOLEAN) /\ Len(requests) \in Nat
        BY <1>0 DEF TypeOK, Reply
  <1>3. \A i \in 1..Len(replies) : /\ [replies[i] EXCEPT !.live = FALSE] \in Reply
                                   /\ [replies[i] EXCEPT !.live = FALSE].live = FALSE
                                   /\ [replies[i] EXCEPT !.live = FALSE].events
                                         = replies[i].events
    <2>1. \A r \in Reply : /\ [r EXCEPT !.live = FALSE] \in Reply
                           /\ [r EXCEPT !.live = FALSE].live = FALSE
                           /\ [r EXCEPT !.live = FALSE].events = r.events
          BY DEF Reply
    <2>2. \A i \in 1..Len(replies) : replies[i] \in Reply
          BY <1>2
    <2> QED BY <2>1, <2>2
  <1>4. /\ replies' \in Seq(Reply) /\ Len(replies') = Len(replies)
        /\ \A i \in 1..Len(replies) : /\ replies'[i].live = FALSE
                                       /\ replies'[i].events = replies[i].events
    <2> DEFINE given(i) == [replies[i] EXCEPT !.live = FALSE]
               n == Len(replies)
    <2>1. /\ n \in Nat /\ replies' = [i \in 1..n |-> given(i)]
          /\ \A i \in 1..n : /\ given(i) \in Reply /\ given(i).live = FALSE
                              /\ given(i).events = replies[i].events
          BY <1>1, <1>2, <1>3
    <2> HIDE DEF given, n
    <2>2. replies' \in Seq(Reply) /\ Len(replies') = n
          BY <2>1
    <2>3. \A i \in 1..n : replies'[i] = given(i)
          BY <2>1
    <2> QED BY <2>1, <2>2, <2>3 DEF n
  <1>5. /\ requests' \in Seq(BOOLEAN) /\ Len(requests') = Len(requests)
        /\ \A i \in 1..Len(requests) : requests'[i] = FALSE
        BY <1>1, <1>2
  <1>6. TypeOK'
    <2>1. timeouts' \in 0..MaxTimeouts
          BY <1>0, <1>1, ControlAssumption DEF TypeOK
    <2> QED BY <1>0, <1>1, <1>4, <1>5, <2>1 DEF TypeOK, Reply, daemon
  <1>7. OneCallAwaited'
    <2>1. LiveIn(replies') = {}
          BY <1>4 DEF LiveIn
    <2>2. Raised(requests') = {}
          BY <1>5, Zenon DEF Raised
    <2>3. LiveCalls' = 0
          BY <1>1, <2>1, <2>2, LiveCallsNext, FS_EmptySet
    <2> QED BY <1>1, <2>3 DEF OneCallAwaited
  <1>8. EventsInOrder' /\ \A f : OnTheWay(f)' <=> OnTheWay(f)
    <2>1. EventsInOrder'
      <3> SUFFICES ASSUME NEW id \in Id, Ordered(id) PROVE Ordered(id)'
          BY <1>0 DEF EventsInOrder
      <3>1. \A i \in 1..Len(replies) : \A j \in (i + 1)..Len(replies) :
                j \in 1..Len(replies)
            BY <1>2
      <3> QED BY <1>1, <1>4, <3>1 DEF Ordered, OrderedWith
    <2>2. ASSUME NEW f PROVE OnTheWay(f)' <=> OnTheWay(f)
          BY <1>1, <1>4 DEF OnTheWay
    <2> QED BY <2>1, <2>2
  <1> QED BY <1>0, <1>1, <1>6, <1>7, <1>8, WayAlone DEF IInv

-----------------------------------------------------------------------------
(***************************************************************************)
(* The invariant holds throughout, whatever the number of clients, the     *)
(* size of the queue of /daemon and the number of time-outs.               *)
(***************************************************************************)
THEOREM Invariance == Spec => []IInv
  <1>1. IInv /\ [Next]_vars => IInv'
    <2> SUFFICES ASSUME IInv, [Next]_vars PROVE IInv'
        OBVIOUS
    <2>1. CASE PeerConnects \/ Accept
          BY <2>1, PeerStep, AcceptStep DEF Accept
    <2>2. CASE \E id \in Id : on_client_disconnected(id)
          BY <2>2, DisconnectStep
    <2>3. CASE handle_poll \/ on_timeout
          BY <2>3, HandlePollStep, TimeoutStep
    <2>4. CASE Script \/ CallTimesOut
          BY <2>4, PollRetryStep, AnsweredStep, LateAnswerStep, CallTimesOutStep
          DEF Script
    <2>5. CASE UNCHANGED vars
      <3>1. TypeOK' /\ OneCallAwaited'
            BY <2>5 DEF IInv, vars, daemon, TypeOK, OneCallAwaited, LiveCalls
      <3>2. EventsInOrder' /\ \A f : OnTheWay(f)' <=> OnTheWay(f)
            BY <2>5 DEF IInv, vars, EventsInOrder, Ordered, OrderedWith, OnTheWay
      <3> QED BY <2>5, <3>1, <3>2, WayAlone DEF IInv, vars
    <2> QED BY <2>1, <2>2, <2>3, <2>4, <2>5 DEF Next
  <1> QED BY <1>1, Initially, PTL DEF Spec

(***************************************************************************)
(* The queue of /daemon never exceeds its capacity, and the ids, answers   *)
(* and states of the loop have their types (enqueue_control, next_id_,     *)
(* startControlLoop).                                                      *)
(***************************************************************************)
THEOREM TypeCorrect == Spec => []TypeOK
  <1>1. IInv => TypeOK
        BY DEF IInv
  <1> QED BY <1>1, Invariance, PTL

(***************************************************************************)
(* What the script knows and the events on their way add up to the         *)
(* daemon's sessions, for every client of which no event was dropped       *)
(* (on_client_disconnected, accept_clients, startControlLoop).             *)
(***************************************************************************)
THEOREM EventsAlwaysAddUp == Spec => []EventsAddUp
  <1>1. IInv => EventsAddUp
        BY DEF IInv
  <1> QED BY <1>1, Invariance, PTL

(***************************************************************************)
(* The control loop awaits exactly one call or none: no poll is forgotten  *)
(* and none is made twice (callDBusAsync, PollWaiter).                     *)
(***************************************************************************)
THEOREM AwaitsOneCall == Spec => []OneCallAwaited
  <1>1. IInv => OneCallAwaited
        BY DEF IInv
  <1> QED BY <1>1, Invariance, PTL
=============================================================================
