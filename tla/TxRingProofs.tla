---------------------------- MODULE TxRingProofs ----------------------------
(***************************************************************************)
(* TxRing implements ByteFifo, for every capacity, header length and set   *)
(* of pushed lengths.                                                      *)
(***************************************************************************)
EXTENDS TxRing, SequenceTheorems, TLAPS

IInv == TypeOK /\ TailFollowsHead

LEMMA InitIInv == Init => IInv
<1> SUFFICES ASSUME Init PROVE IInv
    OBVIOUS
<1>1. TypeOK
    BY TxAssumption, EmptySeq DEF Init, TypeOK, Slots, Garbage
<1>2. TailFollowsHead
    BY TxAssumption DEF Init, TailFollowsHead, Wrap
<1> QED
    BY <1>1, <1>2 DEF IInv

\* A frame is a non-empty sequence of bytes.
LEMMA FrameType ==
    ASSUME NEW f \in Nat, NEW n \in Nat
    PROVE  /\ Frame(f, n) \in Seq(Nat \X Nat)
           /\ Len(Frame(f, n)) = kHeaderLen + n
           /\ Frame(f, n) = Fifo!Frame(f, n)
BY TxAssumption DEF Frame, Fifo!Frame

\* Sequences of bytes are sequences of pairs of numbers.
LEMMA ContentsType ==
    ASSUME IInv
    PROVE  /\ Contents \in Seq(Nat \X Nat)
           /\ Len(Contents) = len_
           /\ \A i \in 1..len_ : Contents[i] = data_[Wrap(head_ + i - 1)]
<1>1. \A i \in 1..len_ : Wrap(head_ + i - 1) \in Slots
    BY TxAssumption DEF IInv, TypeOK, Slots, Wrap
<1>2. \A i \in 1..len_ : data_[Wrap(head_ + i - 1)] \in Nat \X Nat
    BY <1>1 DEF IInv, TypeOK
<1>3. len_ \in Nat
    BY TxAssumption DEF IInv, TypeOK
<1> QED
    BY <1>2, <1>3 DEF Contents

\* A function on 1..m is a sequence of length m.
LEMMA FunctionIsSeq ==
    ASSUME NEW S, NEW m \in Nat, NEW f \in [1..m -> S]
    PROVE  f \in Seq(S) /\ Len(f) = m
OBVIOUS

LEMMA PushStep ==
    ASSUME IInv, NEW n \in PushLens, push(n)
    PROVE  IInv' /\ Fifo!Put(n)
<1> DEFINE src == Frame(pushed + 1, n)
<1>1. n \in Nat /\ len_ + kHeaderLen + n <= capacity_
    BY TxAssumption DEF push, has_room
<1>2. src \in Seq(Nat \X Nat) /\ Len(src) = kHeaderLen + n
    <2>1. pushed + 1 \in Nat
        BY DEF IInv, TypeOK
    <2> QED
        BY <1>1, <2>1, FrameType
<1>3. /\ data_' = write_ring(src) /\ tail_' = Wrap(tail_ + kHeaderLen + n)
      /\ len_' = len_ + kHeaderLen + n
      /\ pushed' = pushed + 1 /\ UNCHANGED <<head_, wire, failed>>
    BY DEF push
<1>4. src \in [1..(kHeaderLen + n) -> Nat \X Nat]
    BY <1>2, LenProperties
<1> HIDE DEF src
<1>5. data_' \in [Slots -> Nat \X Nat]
    <2>1. ASSUME NEW i \in Slots,
                 NEW at, at = IF i >= tail_ THEN i - tail_
                              ELSE i - tail_ + capacity_
          PROVE  (IF at < Len(src) THEN src[at + 1] ELSE data_[i])
                     \in Nat \X Nat
        <3>1. at \in Nat
            BY <2>1, TxAssumption DEF IInv, TypeOK, Slots
        <3>2. at < Len(src) => at + 1 \in 1..(kHeaderLen + n)
            BY <1>1, <1>2, <3>1, TxAssumption
        <3>3. data_[i] \in Nat \X Nat
            BY DEF IInv, TypeOK
        <3> QED
            BY <1>4, <3>2, <3>3
    <2> QED
        BY <1>3, <2>1 DEF write_ring
<1>6. head_' \in Slots /\ tail_' \in Slots /\ len_' \in 0..capacity_
    BY <1>1, <1>3, TxAssumption DEF IInv, TypeOK, Slots, Wrap
<1>7. TailFollowsHead'
    BY <1>1, <1>3, TxAssumption
       DEF IInv, TypeOK, Slots, Wrap, TailFollowsHead
<1>8. IInv'
    BY <1>3, <1>5, <1>6, <1>7 DEF IInv, TypeOK
<1>9. Contents' = Contents \o src
    <2>1. /\ Contents \in Seq(Nat \X Nat) /\ Len(Contents) = len_
          /\ \A i \in 1..len_ : Contents[i] = data_[Wrap(head_ + i - 1)]
        BY ContentsType
    <2>2. /\ Contents' \in Seq(Nat \X Nat) /\ Len(Contents') = len_'
          /\ \A i \in 1..len_' : Contents'[i] = data_'[Wrap(head_ + i - 1)]
        <3>1. \A i \in 1..len_' : Wrap(head_ + i - 1) \in Slots
            BY <1>3, <1>6, TxAssumption DEF Slots, Wrap
        <3>2. \A i \in 1..len_' : data_'[Wrap(head_ + i - 1)] \in Nat \X Nat
            BY <1>5, <3>1
        <3>3. Contents' = [i \in 1..len_' |-> data_'[Wrap(head_ + i - 1)]]
            BY <1>3 DEF Contents, Wrap
        <3>4. len_' \in Nat
            BY <1>6, TxAssumption
        <3>5. Contents' \in [1..len_' -> Nat \X Nat]
            BY <3>2, <3>3
        <3>6. Contents' \in Seq(Nat \X Nat) /\ Len(Contents') = len_'
            BY <3>4, <3>5, FunctionIsSeq
        <3>7. \A i \in 1..len_' : Contents'[i] = data_'[Wrap(head_ + i - 1)]
            BY <3>3
        <3> QED
            BY <3>6, <3>7
    <2>3. ASSUME NEW i \in 1..len_'
          PROVE  data_'[Wrap(head_ + i - 1)] =
                     IF i <= len_ THEN data_[Wrap(head_ + i - 1)]
                     ELSE src[i - len_]
        <3>1. data_' = [j \in Slots |->
                  LET at == IF j >= tail_ THEN j - tail_
                            ELSE j - tail_ + capacity_
                  IN IF at < kHeaderLen + n THEN src[at + 1] ELSE data_[j]]
            BY <1>2, <1>3 DEF write_ring
        <3> DEFINE j == Wrap(head_ + i - 1)
                   at == IF j >= tail_ THEN j - tail_ ELSE j - tail_ + capacity_
        <3>2. j \in Slots
            BY <1>3, <1>6, TxAssumption DEF Slots, Wrap
        <3>3. data_'[j] = IF at < kHeaderLen + n THEN src[at + 1] ELSE data_[j]
            BY <3>1, <3>2
        <3>4. IF i <= len_ THEN ~(at < kHeaderLen + n)
              ELSE at < kHeaderLen + n /\ at + 1 = i - len_
            BY <1>1, <1>3, <1>6, TxAssumption
               DEF IInv, TypeOK, TailFollowsHead, Slots, Wrap
        <3> QED
            BY <3>3, <3>4
    <2>4. /\ Contents \o src \in Seq(Nat \X Nat)
          /\ Len(Contents \o src) = len_ + kHeaderLen + n
          /\ \A i \in 1..(len_ + kHeaderLen + n) :
                (Contents \o src)[i] = IF i <= len_ THEN Contents[i]
                                       ELSE src[i - len_]
        <3>1. /\ Contents \o src \in Seq(Nat \X Nat)
              /\ Len(Contents \o src) = Len(Contents) + Len(src)
              /\ \A i \in 1..(Len(Contents) + Len(src)) :
                    (Contents \o src)[i] = IF i <= Len(Contents) THEN Contents[i]
                                           ELSE src[i - Len(Contents)]
            BY <1>2, <2>1, ConcatProperties
        <3>2. len_ + (kHeaderLen + n) = len_ + kHeaderLen + n
            BY <1>1, TxAssumption DEF IInv, TypeOK
        <3> QED
            BY <1>2, <2>1, <3>1, <3>2
    <2>5. \A i \in 1..Len(Contents') : Contents'[i] = (Contents \o src)[i]
        <3> SUFFICES ASSUME NEW i \in 1..len_'
                     PROVE  Contents'[i] = (Contents \o src)[i]
            BY <2>2
        <3>1. Contents'[i] = IF i <= len_ THEN data_[Wrap(head_ + i - 1)]
                             ELSE src[i - len_]
            BY <2>2, <2>3
        <3>2. (Contents \o src)[i] = IF i <= len_ THEN Contents[i]
                                     ELSE src[i - len_]
            BY <1>3, <2>4
        <3>3. i <= len_ => i \in 1..len_
            BY <1>6, TxAssumption DEF IInv, TypeOK
        <3> QED
            BY <2>1, <3>1, <3>2, <3>3
    <2> QED
        BY <1>1, <1>3, <2>2, <2>4, <2>5, SeqEqual
<1>10. Fifo!Put(n)
    <2>1. Len(Contents) = len_
        BY ContentsType
    <2>2. src = Fifo!Frame(pushed + 1, n)
        BY <1>1, FrameType DEF src, IInv, TypeOK
    <2> QED
        BY <1>1, <1>3, <1>9, <2>1, <2>2 DEF Fifo!Put
<1> QED
    BY <1>8, <1>10

LEMMA FlushStep ==
    ASSUME IInv, NEW n \in 1..chunk, flush(n)
    PROVE  IInv' /\ Fifo!Take(n)
<1>1. /\ n \in Nat \ {0} /\ n <= len_ /\ head_ + n <= capacity_
    BY TxAssumption DEF chunk, IInv, TypeOK, Slots
<1> DEFINE out == [k \in 1..n |-> data_[head_ + k - 1]]
<1>2. /\ wire' = wire \o out /\ len_' = len_ - n
      /\ head_' = IF n = len_ THEN 0 ELSE Wrap(head_ + n)
      /\ tail_' = IF n = len_ THEN 0 ELSE tail_
      /\ UNCHANGED <<data_, pushed, failed>>
    BY DEF flush
<1>3. out \in [1..n -> Nat \X Nat]
    <2>1. \A k \in 1..n : head_ + k - 1 \in Slots
        BY <1>1, TxAssumption DEF IInv, TypeOK, Slots
    <2> QED
        BY <2>1 DEF IInv, TypeOK
<1>4. out \in Seq(Nat \X Nat) /\ Len(out) = n
    BY <1>1, <1>3, FunctionIsSeq
<1>5. head_' \in Slots /\ tail_' \in Slots /\ len_' \in 0..capacity_
    BY <1>1, <1>2, TxAssumption DEF IInv, TypeOK, Slots, Wrap
<1>6. TailFollowsHead'
    BY <1>1, <1>2, TxAssumption DEF IInv, TypeOK, Slots, Wrap, TailFollowsHead
<1>7. wire' \in Seq(Nat \X Nat)
    BY <1>2, <1>4, ConcatProperties DEF IInv, TypeOK
<1>8. IInv'
    BY <1>2, <1>5, <1>6, <1>7 DEF IInv, TypeOK
<1>c. /\ Contents \in Seq(Nat \X Nat) /\ Len(Contents) = len_
      /\ \A i \in 1..len_ : Contents[i] = data_[Wrap(head_ + i - 1)]
    BY ContentsType
<1>9. SubSeq(Contents, 1, n) = out
    <2>1. /\ SubSeq(Contents, 1, n) \in Seq(Nat \X Nat)
          /\ Len(SubSeq(Contents, 1, n)) = n
          /\ \A i \in 1..n : SubSeq(Contents, 1, n)[i] = Contents[i]
        BY <1>1, <1>c, SubSeqProperties
    <2>2. ASSUME NEW i \in 1..n PROVE Contents[i] = out[i]
        <3>1. i \in 1..len_ /\ Wrap(head_ + i - 1) = head_ + i - 1
            BY <1>1, TxAssumption DEF IInv, TypeOK, Slots, Wrap
        <3> QED
            BY <1>c, <3>1
    <2> HIDE DEF out
    <2> QED
        BY <1>4, <2>1, <2>2, SeqEqual
<1>10. Contents' = SubSeq(Contents, n + 1, len_)
    <2>1. /\ Contents' \in Seq(Nat \X Nat) /\ Len(Contents') = len_ - n
          /\ \A i \in 1..(len_ - n) :
                Contents'[i] = data_[Wrap(head_' + i - 1)]
        <3>1. \A i \in 1..(len_ - n) : Wrap(head_' + i - 1) \in Slots
            <4>1. len_ \in Nat /\ len_ <= capacity_
                BY TxAssumption DEF IInv, TypeOK
            <4>2. \A h \in Slots, i \in 1..(len_ - n) :
                      Wrap(h + i - 1) \in Slots
                BY <1>1, <4>1, TxAssumption DEF Slots, Wrap
            <4> QED
                BY <1>5, <4>2
        <3>2. \A i \in 1..(len_ - n) :
                  data_[Wrap(head_' + i - 1)] \in Nat \X Nat
            BY <3>1 DEF IInv, TypeOK
        <3>3. Contents' = [i \in 1..(len_ - n) |-> data_[Wrap(head_' + i - 1)]]
            BY <1>2 DEF Contents, Wrap
        <3>4. len_ - n \in Nat
            BY <1>1, TxAssumption DEF IInv, TypeOK
        <3> QED
            BY <3>2, <3>3, <3>4, FunctionIsSeq
    <2>2. /\ SubSeq(Contents, n + 1, len_) \in Seq(Nat \X Nat)
          /\ Len(SubSeq(Contents, n + 1, len_)) = len_ - n
          /\ \A i \in 1..(len_ - n) :
                SubSeq(Contents, n + 1, len_)[i] = Contents[n + i]
        <3>1. /\ len_ - (n + 1) + 1 = len_ - n
              /\ \A i \in 1..(len_ - n) : (n + 1) + i - 1 = n + i
              /\ IF n + 1 <= len_ THEN TRUE ELSE len_ - n = 0
            BY <1>1, <1>c, TxAssumption DEF IInv, TypeOK
        <3>2. /\ SubSeq(Contents, n + 1, len_) \in Seq(Nat \X Nat)
              /\ Len(SubSeq(Contents, n + 1, len_)) =
                    IF n + 1 <= len_ THEN len_ - (n + 1) + 1 ELSE 0
              /\ \A i \in 1..(len_ - (n + 1) + 1) :
                    SubSeq(Contents, n + 1, len_)[i] = Contents[(n + 1) + i - 1]
            <4>1. n + 1 \in Int /\ len_ \in Int
                BY <1>1, TxAssumption DEF IInv, TypeOK
            <4>2. \A i \in (n + 1)..len_ : Contents[i] \in Nat \X Nat
                BY <1>1, <1>c, <4>1, ElementOfSeq
            <4> QED
                BY <4>1, <4>2, SubSeqProperties
        <3> QED
            BY <3>1, <3>2
    <2>3. ASSUME NEW i \in 1..(len_ - n)
          PROVE  Contents'[i] = Contents[n + i]
        <3>1. n + i \in 1..len_ /\ Wrap(head_' + i - 1) = Wrap(head_ + (n + i) - 1)
            BY <1>1, <1>2, TxAssumption DEF IInv, TypeOK, Slots, Wrap
        <3> QED
            BY <1>c, <2>1, <3>1
    <2> QED
        BY <2>1, <2>2, <2>3, SeqEqual
<1>11. Fifo!Take(n)
    <2>1. n \in 1..Len(Contents)
        BY <1>1, <1>c, TxAssumption DEF IInv, TypeOK
    <2> HIDE DEF out
    <2> QED
        BY <1>2, <1>9, <1>10, <1>c, <2>1 DEF Fifo!Take
<1> QED
    BY <1>8, <1>11

LEMMA StutterStep ==
    ASSUME IInv, UNCHANGED <<data_, head_, tail_, len_, pushed, wire>>,
           failed' \in BOOLEAN
    PROVE  IInv' /\ UNCHANGED <<Contents, wire, pushed>>
BY DEF IInv, TypeOK, TailFollowsHead, Contents, Wrap

LEMMA Step ==
    ASSUME IInv, [Next]_vars
    PROVE  IInv' /\ [Fifo!Next]_<<Contents, wire, pushed>>
<1>1. ASSUME NEW n \in PushLens, push(n)
      PROVE  IInv' /\ Fifo!Next
    BY <1>1, PushStep DEF Fifo!Next
<1>2. ASSUME NEW n \in 1..chunk, flush(n)
      PROVE  IInv' /\ Fifo!Next
    <2>1. IInv' /\ Fifo!Take(n)
        BY <1>2, FlushStep
    <2> QED
        BY <2>1 DEF Fifo!Next, Fifo!Take
<1>3. CASE FlushFails
    BY <1>3, StutterStep DEF FlushFails
<1>4. ASSUME UNCHANGED vars
      PROVE  IInv' /\ UNCHANGED <<Contents, wire, pushed>>
    BY <1>4, StutterStep DEF vars, IInv, TypeOK
<1> QED
    BY <1>1, <1>2, <1>3, <1>4 DEF Next, PushRefused

(***************************************************************************)
(* Type correctness and the relation of tail_, head_ and len_.             *)
(***************************************************************************)
THEOREM Invariance == Spec => [](TypeOK /\ TailFollowsHead)
<1>1. IInv /\ [Next]_vars => IInv'
    BY Step
<1> QED
    BY InitIInv, <1>1, PTL DEF Spec, IInv

(***************************************************************************)
(* The ring buffer of tx_buffer.cpp is a bounded FIFO of bytes: wrapping,  *)
(* partial sends and the rewind are invisible.                             *)
(***************************************************************************)
THEOREM RingImplementsFifo == Spec => FifoSpec
<1>1. Init => Fifo!Init
    BY DEF Init, Fifo!Init, Contents
<1>2. IInv /\ [Next]_vars => [Fifo!Next]_<<Contents, wire, pushed>>
    BY Step
<1>3. Spec => []IInv
    BY Invariance, PTL DEF IInv
<1> QED
    BY <1>1, <1>2, <1>3, PTL DEF Spec, FifoSpec, Fifo!Spec
=============================================================================
