------------------------------- MODULE TxRing -------------------------------
(***************************************************************************)
(* The write buffer of a client (proto/tx_buffer.cpp): a ring of capacity_ *)
(* bytes that push() fills with whole frames and flush() empties into the  *)
(* socket, as many bytes at a time as the kernel takes.                    *)
(*                                                                         *)
(* The bytes of a frame are <<f, k>> as in ByteFifo.  write_ring is given  *)
(* by what its copying loop leaves in the ring; each send(2) of flush is   *)
(* an action, since the kernel may refuse the next one (EAGAIN) after any  *)
(* of them and other pushes then come between.                             *)
(***************************************************************************)
EXTENDS Integers, Sequences

CONSTANTS
    kHeaderLen,       \* bytes of the length prefix
    kMaxMessageLen,   \* longest legal payload
    capacity_,        \* size of the ring
    PushLens,         \* payload lengths the script may push
    MaxPushes         \* bound: frames accepted

ASSUME TxAssumption ==
    /\ kHeaderLen \in Nat \ {0}
    /\ kMaxMessageLen \in Nat
    /\ capacity_ \in Nat /\ capacity_ >= kHeaderLen + 1
    /\ PushLens \subseteq Nat
    /\ MaxPushes \in Nat

VARIABLES
    data_,      \* the ring
    head_,      \* index of the oldest byte
    tail_,      \* index of the first free byte
    len_,       \* bytes in the ring
    pushed,     \* history: number of frames accepted
    wire,       \* history: bytes the kernel took
    failed      \* send(2) failed: the session closes the connection

vars == <<data_, head_, tail_, len_, pushed, wire, failed>>

Slots == 0..(capacity_ - 1)

\* A slot never written holds no byte of any frame.
Garbage == <<0, 0>>

Init ==
    /\ data_ = [i \in Slots |-> Garbage]
    /\ head_ = 0 /\ tail_ = 0 /\ len_ = 0
    /\ pushed = 0
    /\ wire = <<>>
    /\ failed = FALSE

\* i % capacity_ for the indices that occur, which are below 2 * capacity_.
Wrap(i) == IF i < capacity_ THEN i ELSE i - capacity_

\* The header and the payload of the f-th frame, as write_ring gets them.
Frame(f, n) == [k \in 1..(kHeaderLen + n) |-> <<f, k>>]

(***************************************************************************)
(* write_ring: where a slot is, counted from tail_, decides which byte of  *)
(* the source it receives.                                                 *)
(***************************************************************************)
StopsAtEnd(src) ==
    [i \in Slots |-> IF i >= tail_ /\ i - tail_ < Len(src)
                     THEN src[i - tail_ + 1] ELSE data_[i]]

write_ring(src) ==
    [i \in Slots |->
        LET at == IF i >= tail_ THEN i - tail_ ELSE i - tail_ + capacity_
        IN IF at < Len(src) THEN src[at + 1] ELSE data_[i]]

has_room(n) == len_ + kHeaderLen + n <= capacity_

push(n) ==
    /\ ~failed /\ pushed < MaxPushes
    /\ n <= kMaxMessageLen /\ has_room(n)
    /\ data_' = write_ring(Frame(pushed + 1, n))
    /\ tail_' = Wrap(tail_ + kHeaderLen + n)
    /\ len_' = len_ + kHeaderLen + n
    /\ pushed' = pushed + 1
    /\ UNCHANGED <<head_, wire, failed>>

\* -EMSGSIZE or -ENOBUFS: nothing is written.
PushRefused(n) ==
    /\ ~failed
    /\ n > kMaxMessageLen \/ ~has_room(n)
    /\ UNCHANGED vars

(***************************************************************************)
(* One send(2) of flush: at most up to the wrap point; when it emptied the *)
(* ring the indices are rewound.                                           *)
(***************************************************************************)
chunk == IF len_ <= capacity_ - head_ THEN len_ ELSE capacity_ - head_

RewindsHeadOnly(n) ==
    /\ ~failed /\ n \in 1..chunk
    /\ wire' = wire \o [k \in 1..n |-> data_[head_ + k - 1]]
    /\ len_' = len_ - n
    /\ head_' = IF n = len_ THEN 0 ELSE Wrap(head_ + n)
    /\ tail_' = tail_
    /\ UNCHANGED <<data_, pushed, failed>>

flush(n) ==
    /\ ~failed /\ n \in 1..chunk
    /\ wire' = wire \o [k \in 1..n |-> data_[head_ + k - 1]]
    /\ len_' = len_ - n
    /\ head_' = IF n = len_ THEN 0 ELSE Wrap(head_ + n)
    /\ tail_' = IF n = len_ THEN 0 ELSE tail_
    /\ UNCHANGED <<data_, pushed, failed>>

FlushFails ==
    /\ ~failed /\ len_ > 0
    /\ failed' = TRUE
    /\ UNCHANGED <<data_, head_, tail_, len_, pushed, wire>>

Next ==
    \/ \E n \in PushLens : push(n) \/ PushRefused(n)
    \/ \E n \in 1..chunk : flush(n)
    \/ FlushFails

Spec == Init /\ [][Next]_vars

-----------------------------------------------------------------------------
TypeOK ==
    /\ data_ \in [Slots -> Nat \X Nat]
    /\ head_ \in Slots /\ tail_ \in Slots /\ len_ \in 0..capacity_
    /\ pushed \in Nat
    /\ wire \in Seq(Nat \X Nat)
    /\ failed \in BOOLEAN

\* The bytes between head_ and tail_, oldest first.
Contents == [i \in 1..len_ |-> data_[Wrap(head_ + i - 1)]]

(***************************************************************************)
(* tail_ is len_ bytes after head_ round the ring, after every wrap,       *)
(* partial flush and rewind.                                               *)
(***************************************************************************)
TailFollowsHead == tail_ = Wrap(head_ + len_)

(***************************************************************************)
(* The ring implements the FIFO: frames go out whole, in order and         *)
(* unmixed, however the flushes cut them.                                  *)
(***************************************************************************)
Fifo == INSTANCE ByteFifo WITH HeaderLen <- kHeaderLen,
                               Capacity <- capacity_, Lens <- PushLens,
                               fifo <- Contents, accepted <- pushed

FifoSpec == Fifo!Spec
=============================================================================
