---------------------------- MODULE SessionProofs ----------------------------
(***************************************************************************)
(* What holds of Session for every header length, message limit, buffer    *)
(* capacity, set of frame lengths and number of frames.                    *)
(***************************************************************************)
EXTENDS Session, SequenceTheorems, TLAPS

(***************************************************************************)
(* How far the decoder is in the current header or discarded frame, and    *)
(* why it is paused: it holds a complete header of a legal frame that the  *)
(* buffer has no room for.  This is the part that makes the others         *)
(* inductive.                                                              *)
(***************************************************************************)
DecoderInv ==
    /\ rx_state_ = "header" => have_read_ <= kHeaderLen
    /\ rx_state_ = "discard" => have_read_ < msg_len_
    /\ rx_paused_ = client_paused
    /\ client_paused =>
          HeaderDone /\ msg_len_ \in 1..kMaxMessageLen /\ ~can_fit(msg_len_)
    /\ queue = <<>> => complete_len_ = 1

(***************************************************************************)
(* What a callback in progress owes: input is re-armed only at its end,    *)
(* and a waiting poll is answered before it.                               *)
(***************************************************************************)
LoopInv ==
    /\ pc # "idle" => alive
    /\ alive => ("out" \in events <=> tx_len > 0)
    /\ alive /\ pc = "idle" => ("in" \in events <=> ~rx_paused_)
    /\ poll = "pending" => queue = <<>> \/ pc \in {"read", "answer"}

IInv == TypeOK /\ RxWithinCapacity /\ DecoderInv /\ LoopInv

LEMMA InitIInv == Init => IInv
<1> SUFFICES ASSUME Init PROVE IInv
    OBVIOUS
<1>1. TypeOK
    <2>1. /\ sent \in Seq(FrameLens) /\ pipe \in Seq(Byte) /\ sock \in Seq(Byte)
          /\ queue \in Seq(Nat) /\ delivered \in Seq(Nat) /\ Len(sent) = 0
        BY EmptySeq DEF Init
    <2>2. ev \in Event
        BY DEF Init, Event
    <2>3. tx_len \in 0..TxCap
        BY ProtoAssumption DEF Init
    <2>4. /\ have_read_ \in Nat /\ msg_len_ \in Nat /\ frame \in 0..Len(sent)
          /\ len_ \in Nat /\ complete_len_ \in Nat
        BY <2>1 DEF Init
    <2> QED
        BY <2>1, <2>2, <2>3, <2>4 DEF Init, TypeOK
<1>2. RxWithinCapacity
    BY ProtoAssumption DEF Init, RxWithinCapacity
<1>3. DecoderInv
    <2>1. 0 <= kHeaderLen
        BY ProtoAssumption
    <2> QED
        BY <2>1 DEF Init, DecoderInv
<1>4. LoopInv
    BY DEF Init, LoopInv
<1> QED
    BY <1>1, <1>2, <1>3, <1>4 DEF IInv

\* A suffix of a sequence.
LEMMA DropType ==
    ASSUME NEW S, NEW s \in Seq(S), NEW n \in 0..Len(s)
    PROVE  SubSeq(s, n + 1, Len(s)) \in Seq(S)
BY LenProperties, SubSeqProperties

\* What read(2) returns: some bytes, never more than asked for.
LEMMA SysReadBounds ==
    ASSUME NEW S, sock \in Seq(S), sock # <<>>, NEW want \in Nat \ {0}
    PROVE  /\ SysRead(want) \in 1..Len(sock)
           /\ SysRead(want) <= want
BY EmptySeq, LenProperties DEF SysRead

LEMMA EventsType ==
    ASSUME NEW paused, NEW pending
    PROVE  update_io_events(paused, pending) \in SUBSET {"in", "out"}
BY DEF update_io_events

-----------------------------------------------------------------------------
LEMMA TypeStep ==
    ASSUME IInv, [Next]_vars
    PROVE  TypeOK'
<1> USE DEF env, decoder, rx, io
<1>t. TypeOK
    BY DEF IInv
<1>d. ASSUME drain_queue, on_rx_drained
      PROVE  /\ len_' \in Nat /\ complete_len_' \in Nat
             /\ queue' \in Seq(Nat) /\ delivered' \in Seq(Nat)
             /\ rx_paused_' \in BOOLEAN /\ client_paused' \in BOOLEAN
             /\ events' \in SUBSET {"in", "out"}
    <2>1. len_' \in Nat /\ complete_len_' \in Nat
        BY <1>d, <1>t DEF drain_queue, TypeOK, IInv, RxWithinCapacity
    <2>2. queue' \in Seq(Nat) /\ delivered' \in Seq(Nat)
        BY <1>d, <1>t, ConcatProperties, EmptySeq DEF drain_queue, TypeOK
    <2>3. events' \in SUBSET {"in", "out"}
        BY <1>d, <1>t, EventsType DEF on_rx_drained, TypeOK
    <2>4. rx_paused_' \in BOOLEAN /\ client_paused' \in BOOLEAN
        BY <1>d, <1>t DEF on_rx_drained, TypeOK
    <2> QED
        BY <2>1, <2>2, <2>3, <2>4
<1>1. ASSUME NEW n \in FrameLens, PeerSend(n) PROVE TypeOK'
    <2>1. sent' \in Seq(FrameLens) /\ Len(sent') = Len(sent) + 1
        BY <1>t, <1>1, AppendProperties DEF PeerSend, TypeOK
    <2>2. Len(sent) \in Nat /\ Byte \subseteq Byte'
        BY <1>t, <2>1, LenProperties DEF TypeOK, Byte
    <2>3. sock' \in Seq(Byte')
        BY <1>t, <1>1, <2>2, SeqMonotonic DEF PeerSend, TypeOK
    <2>4. pipe' \in Seq(Byte')
        BY <1>1, <2>1, <2>2, ProtoAssumption DEF PeerSend, Byte
    <2>5. frame' \in 0..Len(sent')
        BY <1>t, <1>1, <2>1, <2>2 DEF PeerSend, TypeOK
    <2> QED
        BY <1>t, <1>1, <2>1, <2>3, <2>4, <2>5 DEF PeerSend, TypeOK
<1>2. ASSUME NEW n \in 1..Len(pipe), Arrive(n) PROVE TypeOK'
    <2>1. Len(pipe) \in Nat /\ SubSeq(pipe, 1, n) \in Seq(Byte)
        BY <1>t, LenProperties, SubSeqProperties DEF TypeOK
    <2>2. sock' \in Seq(Byte) /\ pipe' \in Seq(Byte) /\ Byte' = Byte
        <3>1. /\ sock' = sock \o SubSeq(pipe, 1, n)
              /\ pipe' = SubSeq(pipe, n + 1, Len(pipe))
              /\ Byte' = Byte
            BY <1>2 DEF Arrive, Byte
        <3>2. SubSeq(pipe, n + 1, Len(pipe)) \in Seq(Byte)
            BY <1>t, <2>1, DropType DEF TypeOK
        <3>3. sock \o SubSeq(pipe, 1, n) \in Seq(Byte)
            BY <1>t, <2>1, ConcatProperties DEF TypeOK
        <3> QED
            BY <3>1, <3>2, <3>3
    <2> QED
        BY <1>t, <1>2, <2>2 DEF Arrive, TypeOK
<1>3. ASSUME NEW how \in {"shutwr", "closed"}, PeerEnds(how) PROVE TypeOK'
    BY <1>t, <1>3 DEF PeerEnds, TypeOK, Byte
<1>4. ASSUME NEW space \in BOOLEAN, IoEvent(space) PROVE TypeOK'
    BY <1>t, <1>4 DEF IoEvent, TypeOK, Byte, Event
<1>5. CASE ReadHeader
    <2> DEFINE n == SysRead(kHeaderLen - have_read_)
    <2>1. n \in 1..Len(sock) /\ Len(sock) \in Nat
        BY <1>t, <1>5, SysReadBounds, LenProperties, ProtoAssumption
           DEF ReadHeader, TypeOK
    <2>a. /\ have_read_' = have_read_ + n
          /\ sock' = SubSeq(sock, n + 1, Len(sock))
          /\ \/ frame' = sock[n][1] /\ msg_len_' = sent[sock[n][1]]
             \/ frame' = frame /\ msg_len_' = msg_len_
        BY <1>5 DEF ReadHeader
    <2> HIDE DEF n
    <2>2. sock' \in Seq(Byte) /\ have_read_' \in Nat
        <3>1. SubSeq(sock, n + 1, Len(sock)) \in Seq(Byte)
            BY <1>t, <2>1, DropType DEF TypeOK
        <3>2. have_read_ + n \in Nat
            BY <1>t, <2>1 DEF TypeOK
        <3> QED
            BY <2>a, <3>1, <3>2
    <2>3. sock[n][1] \in 1..Len(sent)
        BY <1>t, <2>1, ElementOfSeq DEF TypeOK, Byte
    <2>4. sent[sock[n][1]] \in Nat
        BY <1>t, <2>3, ElementOfSeq, ProtoAssumption DEF TypeOK
    <2>5. frame' \in 0..Len(sent) /\ msg_len_' \in Nat
        <3>1. sock[n][1] \in 0..Len(sent) /\ frame \in 0..Len(sent)
              /\ msg_len_ \in Nat
            BY <1>t, <2>3, LenProperties DEF TypeOK
        <3> QED
            BY <2>a, <2>4, <3>1
    <2> QED
        BY <1>t, <1>5, <2>2, <2>5 DEF ReadHeader, TypeOK, Byte
<1>6. CASE SkipEmptyFrame
    BY <1>t, <1>6 DEF SkipEmptyFrame, TypeOK, Byte
<1>7. CASE StartDiscard
    BY <1>t, <1>7 DEF StartDiscard, TypeOK, Byte
<1>8. CASE StartPayload
    BY <1>t, <1>8 DEF StartPayload, TypeOK, Byte
<1>9. CASE ReadPauses
    BY <1>t, <1>9 DEF ReadPauses, TypeOK, Byte
<1>10. CASE ReadPayload
    <2> DEFINE n == SysRead(msg_len_ - have_read_)
    <2>1. n \in 1..Len(sock) /\ Len(sock) \in Nat
        BY <1>t, <1>10, SysReadBounds, LenProperties
           DEF ReadPayload, TypeOK, IInv, RxWithinCapacity
    <2>a. /\ sock' = SubSeq(sock, n + 1, Len(sock))
          /\ have_read_' \in {0, have_read_ + n}
          /\ len_' \in {len_ + n, len_ + n + 1}
          /\ complete_len_' \in {complete_len_, len_ + n + 1}
        BY <1>10 DEF ReadPayload
    <2> HIDE DEF n
    <2>2. sock' \in Seq(Byte)
        BY <1>t, <2>a, <2>1, DropType DEF TypeOK
    <2>3. have_read_' \in Nat /\ len_' \in Nat /\ complete_len_' \in Nat
        BY <1>t, <2>a, <2>1 DEF TypeOK
    <2>4. frame \in Nat
        BY <1>t, LenProperties DEF TypeOK
    <2>5. queue' \in Seq(Nat)
        BY <1>t, <1>10, <2>4, AppendProperties DEF ReadPayload, TypeOK
    <2>6. rx_state_' \in {"header", "payload", "discard"}
        BY <1>10 DEF ReadPayload
    <2> QED
        BY <1>t, <1>10, <2>2, <2>3, <2>5, <2>6 DEF ReadPayload, TypeOK, Byte
<1>11. CASE ReadDiscard
    <2> DEFINE left == msg_len_ - have_read_
               n == SysRead(IF left <= kDiscardChunk THEN left
                            ELSE kDiscardChunk)
    <2>1. n \in 1..Len(sock) /\ Len(sock) \in Nat
        <3>1. left \in Nat \ {0}
            BY <1>t, <1>11 DEF ReadDiscard, TypeOK, IInv, DecoderInv
        <3> HIDE DEF left
        <3>2. (IF left <= kDiscardChunk THEN left ELSE kDiscardChunk) \in Nat \ {0}
            BY <3>1, ProtoAssumption
        <3> QED
            BY <1>t, <1>11, <3>2, SysReadBounds, LenProperties
               DEF ReadDiscard, TypeOK
    <2>2. sock' \in Seq(Byte)
        BY <1>t, <1>11, <2>1, DropType DEF ReadDiscard, TypeOK
    <2>3. have_read_' \in Nat
        BY <1>t, <1>11, <2>1 DEF ReadDiscard, TypeOK
    <2>4. rx_state_' \in {"header", "payload", "discard"}
        BY <1>11 DEF ReadDiscard
    <2> QED
        BY <1>t, <1>11, <2>2, <2>3, <2>4 DEF ReadDiscard, TypeOK, Byte
<1>12. CASE ReadEnds
    BY <1>t, <1>12 DEF ReadEnds, TypeOK, Byte
<1>13. CASE on_rx_messages
    <2>1. CASE queue # <<>> /\ poll = "pending"
        <3>1. drain_queue /\ on_rx_drained /\ poll' = "none"
            BY <1>13, <2>1 DEF on_rx_messages
        <3> QED
            BY <1>d, <1>t, <1>13, <3>1 DEF on_rx_messages, TypeOK, Byte
    <2>2. CASE ~(queue # <<>> /\ poll = "pending")
        BY <1>t, <1>13, <2>2 DEF on_rx_messages, TypeOK, Byte
    <2> QED
        BY <2>1, <2>2
<1>14. ASSUME NEW n \in 0..tx_len, FinishIo(n) PROVE TypeOK'
    <2>1. tx_len' \in 0..TxCap
        BY <1>t, <1>14, ProtoAssumption DEF FinishIo, TypeOK
    <2>2. events' \in SUBSET {"in", "out"}
        BY <1>14, EventsType DEF FinishIo
    <2>3. alive' \in BOOLEAN /\ poll' \in {"none", "pending"}
        BY <1>t, <1>14 DEF FinishIo, TypeOK
    <2> QED
        BY <1>t, <1>14, <2>1, <2>2, <2>3 DEF FinishIo, TypeOK, Byte
<1>15. CASE PollDelivers
    <2>1. drain_queue /\ on_rx_drained
        BY <1>15 DEF PollDelivers
    <2> QED
        BY <1>d, <1>t, <1>15, <2>1 DEF PollDelivers, TypeOK, Byte
<1>16. CASE PollArms
    BY <1>t, <1>16 DEF PollArms, TypeOK, Byte
<1>17. CASE on_timeout
    BY <1>t, <1>17 DEF on_timeout, TypeOK, Byte
<1>18. ASSUME NEW n \in PushLens, handle_push(n) PROVE TypeOK'
    <2>1. tx_len' \in 0..TxCap
        BY <1>t, <1>18, ProtoAssumption DEF handle_push, TypeOK
    <2>2. events' \in SUBSET {"in", "out"}
        BY <1>18, EventsType DEF handle_push
    <2> QED
        BY <1>t, <1>18, <2>1, <2>2 DEF handle_push, TypeOK, Byte
<1>19. CASE UNCHANGED vars
    BY <1>t, <1>19 DEF vars, TypeOK, Byte
<1> QED
    BY <1>1, <1>2, <1>3, <1>4, <1>5, <1>6, <1>7, <1>8, <1>9, <1>10, <1>11, <1>12,
       <1>13, <1>14, <1>15, <1>16, <1>17, <1>18, <1>19
       DEF Next, Peer, HandleIo, Read, Poll, PollRefused, Push, PushRefused

(***************************************************************************)
(* The buffer invariant.  Only the actions that move rx_state_, have_read_ *)
(* or the lengths can disturb it.                                          *)
(***************************************************************************)
LEMMA CapacityStep ==
    ASSUME IInv, [Next]_vars
    PROVE  RxWithinCapacity'
<1> USE DEF env, decoder, rx, io
<1>t. TypeOK /\ RxWithinCapacity /\ DecoderInv
    BY DEF IInv
<1>u. ASSUME UNCHANGED <<rx_state_, have_read_, msg_len_, len_, complete_len_>>
      PROVE  RxWithinCapacity'
    BY <1>t, <1>u DEF RxWithinCapacity
<1>d. ASSUME drain_queue, UNCHANGED <<rx_state_, have_read_, msg_len_>>
      PROVE  RxWithinCapacity'
    BY <1>t, <1>d, ProtoAssumption DEF drain_queue, RxWithinCapacity, TypeOK
<1>1. CASE ReadHeader
    BY <1>t, <1>1 DEF ReadHeader, RxWithinCapacity
<1>2. CASE SkipEmptyFrame
    BY <1>t, <1>2 DEF SkipEmptyFrame, HeaderDone, RxWithinCapacity
<1>3. CASE StartDiscard
    BY <1>t, <1>3 DEF StartDiscard, HeaderDone, RxWithinCapacity
<1>4. CASE StartPayload
    BY <1>t, <1>4, ProtoAssumption
       DEF StartPayload, HeaderDone, can_fit, RxWithinCapacity, TypeOK
<1>5. CASE ReadPayload
    <2> DEFINE n == SysRead(msg_len_ - have_read_)
    <2>1. n \in Nat \ {0} /\ n <= msg_len_ - have_read_
        <3>1. msg_len_ - have_read_ \in Nat \ {0} /\ sock # <<>>
            BY <1>t, <1>5 DEF ReadPayload, TypeOK, RxWithinCapacity
        <3>2. n \in 1..Len(sock) /\ n <= msg_len_ - have_read_
            BY <1>t, <3>1, SysReadBounds DEF TypeOK
        <3>3. Len(sock) \in Nat
            BY <1>t, LenProperties DEF TypeOK
        <3> HIDE DEF n
        <3> QED
            BY <3>2, <3>3
    <2>2. CASE have_read_ + n = msg_len_
        <3>1. /\ rx_state_' = "header" /\ have_read_' = 0
              /\ len_' = len_ + n + 1 /\ complete_len_' = len_ + n + 1
            BY <1>5, <2>2 DEF ReadPayload
        <3>2. rx_state_ = "payload"
            BY <1>5 DEF ReadPayload
        <3> HIDE DEF n
        <3> QED
            BY <1>t, <2>1, <2>2, <3>1, <3>2, ProtoAssumption
               DEF RxWithinCapacity, TypeOK
    <2>3. CASE have_read_ + n # msg_len_
        <3>1. /\ rx_state_' = "payload" /\ have_read_' = have_read_ + n
              /\ len_' = len_ + n /\ complete_len_' = complete_len_
              /\ msg_len_' = msg_len_
            BY <1>5, <2>3 DEF ReadPayload
        <3>2. rx_state_ = "payload"
            BY <1>5 DEF ReadPayload
        <3> HIDE DEF n
        <3> QED
            BY <1>t, <2>1, <2>3, <3>1, <3>2, ProtoAssumption
               DEF RxWithinCapacity, TypeOK
    <2> QED
        BY <2>2, <2>3
<1>6. CASE ReadDiscard
    <2>1. rx_state_ = "discard" /\ rx_state_' \in {"header", "discard"}
          /\ UNCHANGED <<len_, complete_len_>>
        BY <1>6 DEF ReadDiscard
    <2> QED
        BY <1>t, <2>1 DEF RxWithinCapacity
<1>7. CASE on_rx_messages
    BY <1>u, <1>d, <1>7 DEF on_rx_messages
<1>8. CASE PollDelivers
    BY <1>d, <1>8 DEF PollDelivers
<1>9. CASE \/ Peer \/ \E space \in BOOLEAN : IoEvent(space)
           \/ ReadPauses \/ ReadEnds
           \/ \E n \in 0..tx_len : FinishIo(n)
           \/ PollArms \/ PollRefused \/ on_timeout \/ Push
           \/ UNCHANGED vars
    BY <1>u, <1>9
       DEF Peer, PeerSend, Arrive, PeerEnds, IoEvent, ReadPauses, ReadEnds,
           FinishIo, PollArms, PollRefused, on_timeout, Push, handle_push,
           PushRefused, vars
<1> QED
    BY <1>1, <1>2, <1>3, <1>4, <1>5, <1>6, <1>7, <1>8, <1>9
       DEF Next, HandleIo, Read, Poll

LEMMA DecoderStep ==
    ASSUME IInv, [Next]_vars
    PROVE  DecoderInv'
<1> USE DEF env, decoder, rx, io
<1>t. TypeOK /\ RxWithinCapacity /\ DecoderInv
    BY DEF IInv
<1>u. ASSUME UNCHANGED <<decoder, rx_paused_, rx>>
      PROVE  DecoderInv'
    BY <1>t, <1>u DEF DecoderInv, HeaderDone, can_fit
<1>d. ASSUME drain_queue, on_rx_drained,
             UNCHANGED <<rx_state_, have_read_, msg_len_>>
      PROVE  DecoderInv'
    <2>1. rx_paused_' = FALSE /\ client_paused' = FALSE
        BY <1>t, <1>d DEF on_rx_drained, DecoderInv, TypeOK
    <2>2. complete_len_' = 1
        BY <1>d DEF drain_queue
    <2> QED
        BY <1>t, <1>d, <2>1, <2>2 DEF DecoderInv
<1>1. CASE ReadHeader
    <2> DEFINE n == SysRead(kHeaderLen - have_read_)
    <2>1. n \in Nat /\ n <= kHeaderLen - have_read_
        <3>1. kHeaderLen - have_read_ \in Nat \ {0} /\ sock # <<>>
            BY <1>t, <1>1, ProtoAssumption DEF ReadHeader, TypeOK
        <3>2. n \in 1..Len(sock) /\ n <= kHeaderLen - have_read_
            BY <1>t, <3>1, SysReadBounds DEF TypeOK
        <3>3. Len(sock) \in Nat
            BY <1>t, LenProperties DEF TypeOK
        <3> HIDE DEF n
        <3> QED
            BY <3>2, <3>3
    <2>2. /\ have_read_' = have_read_ + n
          /\ rx_state_ = "header" /\ rx_state_' = "header" /\ ~client_paused
          /\ UNCHANGED <<client_paused, rx_paused_, queue, complete_len_>>
        BY <1>1 DEF ReadHeader
    <2> HIDE DEF n
    <2>3. have_read_' <= kHeaderLen
        BY <1>t, <2>1, <2>2, ProtoAssumption DEF TypeOK
    <2> QED
        BY <1>t, <2>2, <2>3 DEF DecoderInv
<1>2. CASE SkipEmptyFrame \/ StartPayload
    <2>1. /\ ~client_paused /\ have_read_' = 0
          /\ rx_state_' \in {"header", "payload"}
          /\ UNCHANGED <<client_paused, rx_paused_, queue, complete_len_>>
        BY <1>2 DEF SkipEmptyFrame, StartPayload, HeaderDone
    <2>2. 0 <= kHeaderLen
        BY ProtoAssumption
    <2> QED
        BY <1>t, <2>1, <2>2 DEF DecoderInv
<1>3. CASE StartDiscard
    <2>1. /\ ~client_paused /\ have_read_' = 0 /\ rx_state_' = "discard"
          /\ UNCHANGED <<client_paused, rx_paused_, queue, complete_len_>>
        BY <1>3 DEF StartDiscard
    <2>2. have_read_' < msg_len_'
        BY <1>t, <1>3, ProtoAssumption DEF StartDiscard, TypeOK
    <2> QED
        BY <1>t, <2>1, <2>2 DEF DecoderInv
<1>4. CASE ReadPauses
    BY <1>t, <1>4 DEF ReadPauses, DecoderInv, HeaderDone, can_fit
<1>5. CASE ReadPayload
    <2> DEFINE n == SysRead(msg_len_ - have_read_)
               whole == have_read_ + n = msg_len_
    <2>1. /\ ~client_paused
          /\ UNCHANGED <<client_paused, rx_paused_>>
          /\ rx_state_' = "header" => have_read_' = 0
          /\ rx_state_' # "discard"
        BY <1>5 DEF ReadPayload
    <2>2. queue' = <<>> => complete_len_' = 1
        <3>1. CASE whole
            <4>1. queue' = Append(queue, frame)
                BY <1>5, <3>1 DEF ReadPayload
            <4>2. frame \in Nat
                BY <1>t, LenProperties DEF TypeOK
            <4>3. queue' # <<>>
                <5>1. queue \in Seq(Nat)
                    BY <1>t DEF TypeOK
                <5>2. Append(queue, frame) # <<>>
                    BY <4>2, <5>1, AppendProperties
                <5> QED
                    BY <4>1, <5>2
            <4> QED
                BY <4>3
        <3>2. CASE ~whole
            <4>1. queue' = queue /\ complete_len_' = complete_len_
                BY <1>5, <3>2 DEF ReadPayload
            <4> QED
                BY <1>t, <4>1 DEF DecoderInv
        <3> QED
            BY <3>1, <3>2
    <2>3. 0 <= kHeaderLen
        BY ProtoAssumption
    <2> QED
        BY <1>t, <2>1, <2>2, <2>3 DEF DecoderInv
<1>6. CASE ReadDiscard
    <2> DEFINE left == msg_len_ - have_read_
               want == IF left <= kDiscardChunk THEN left ELSE kDiscardChunk
               n == SysRead(want)
    <2>1. n \in Nat /\ n <= left
        <3>1. left \in Nat \ {0} /\ sock # <<>>
            BY <1>t, <1>6 DEF ReadDiscard, TypeOK, DecoderInv
        <3> HIDE DEF left
        <3>2. want \in Nat \ {0} /\ want <= left
            BY <3>1, ProtoAssumption
        <3> HIDE DEF want
        <3>3. n \in 1..Len(sock) /\ n <= want
            BY <1>t, <3>1, <3>2, SysReadBounds DEF TypeOK
        <3>4. Len(sock) \in Nat
            BY <1>t, LenProperties DEF TypeOK
        <3> HIDE DEF n
        <3> QED
            BY <3>1, <3>2, <3>3, <3>4
    <2>2. /\ ~client_paused
          /\ UNCHANGED <<client_paused, rx_paused_, queue, complete_len_,
                         msg_len_>>
          /\ \/ have_read_ + n = msg_len_ /\ have_read_' = 0
                /\ rx_state_' = "header"
             \/ have_read_ + n # msg_len_ /\ have_read_' = have_read_ + n
                /\ rx_state_' = "discard"
        BY <1>6 DEF ReadDiscard
    <2> HIDE DEF n
    <2>3. /\ rx_state_' = "header" => have_read_' <= kHeaderLen
          /\ rx_state_' = "discard" => have_read_' < msg_len_'
        BY <1>t, <2>1, <2>2, ProtoAssumption DEF TypeOK
    <2> QED
        BY <1>t, <2>2, <2>3 DEF DecoderInv
<1>7. CASE on_rx_messages
    BY <1>u, <1>d, <1>7 DEF on_rx_messages
<1>8. CASE PollDelivers
    BY <1>d, <1>8 DEF PollDelivers
<1>9. CASE \/ Peer \/ \E space \in BOOLEAN : IoEvent(space)
           \/ ReadEnds
           \/ \E n \in 0..tx_len : FinishIo(n)
           \/ PollArms \/ PollRefused \/ on_timeout \/ Push
           \/ UNCHANGED vars
    BY <1>u, <1>9
       DEF Peer, PeerSend, Arrive, PeerEnds, IoEvent, ReadEnds,
           FinishIo, PollArms, PollRefused, on_timeout, Push, handle_push,
           PushRefused, vars
<1> QED
    BY <1>1, <1>2, <1>3, <1>4, <1>5, <1>6, <1>7, <1>8, <1>9
       DEF Next, HandleIo, Read, Poll

LEMMA LoopStep ==
    ASSUME IInv, [Next]_vars
    PROVE  LoopInv'
<1> USE DEF env, decoder, rx, io
<1>t. TypeOK /\ DecoderInv /\ LoopInv
    BY DEF IInv
<1>u. ASSUME UNCHANGED <<alive, pc, events, tx_len, rx_paused_, poll, queue>>
      PROVE  LoopInv'
    BY <1>t, <1>u DEF LoopInv
<1>e. ASSUME NEW paused, NEW pending
      PROVE  /\ "in" \in update_io_events(paused, pending) <=> ~paused
             /\ "out" \in update_io_events(paused, pending) <=> pending > 0
    BY DEF update_io_events
<1>d. ASSUME drain_queue, on_rx_drained, alive
      PROVE  /\ queue' = <<>>
             /\ ~rx_paused_'
             /\ "out" \in events' <=> tx_len > 0
             /\ pc = "idle" => "in" \in events'
    BY <1>t, <1>d, <1>e DEF drain_queue, on_rx_drained, LoopInv, TypeOK
<1>1. ASSUME NEW space \in BOOLEAN, IoEvent(space)
      PROVE  LoopInv'
    BY <1>t, <1>1 DEF IoEvent, LoopInv
<1>2. CASE ReadHeader \/ SkipEmptyFrame \/ StartDiscard \/ StartPayload
           \/ ReadDiscard
    BY <1>u, <1>2 DEF ReadHeader, SkipEmptyFrame, StartDiscard, StartPayload,
                      ReadDiscard
<1>3. CASE ReadPayload
    BY <1>t, <1>3 DEF ReadPayload, LoopInv
<1>4. CASE ReadPauses \/ ReadEnds
    BY <1>t, <1>4 DEF ReadPauses, ReadEnds, LoopInv
<1>5. CASE on_rx_messages
    <2>1. CASE queue # <<>> /\ poll = "pending"
        BY <1>t, <1>d, <1>5, <2>1 DEF on_rx_messages, LoopInv
    <2>2. CASE ~(queue # <<>> /\ poll = "pending")
        BY <1>t, <1>5, <2>2 DEF on_rx_messages, LoopInv, TypeOK
    <2> QED
        BY <2>1, <2>2
<1>6. ASSUME NEW n \in 0..tx_len, FinishIo(n)
      PROVE  LoopInv'
    <2>1. /\ pc = "flush" /\ pc' = "idle" /\ UNCHANGED <<rx_paused_, queue>>
          /\ poll' = "pending" => poll = "pending"
          /\ alive' => events' = update_io_events(rx_paused_, tx_len')
        BY <1>6 DEF FinishIo
    <2> QED
        BY <1>t, <1>e, <2>1 DEF LoopInv
<1>7. CASE PollDelivers
    <2>1. /\ alive /\ pc = "idle" /\ drain_queue /\ on_rx_drained
          /\ poll = "none" /\ UNCHANGED <<alive, pc, tx_len, poll>>
        BY <1>7 DEF PollDelivers
    <2> QED
        BY <1>t, <1>d, <2>1 DEF LoopInv
<1>8. CASE PollArms
    BY <1>t, <1>8 DEF PollArms, LoopInv
<1>9. CASE on_timeout
    BY <1>t, <1>9 DEF on_timeout, LoopInv
<1>10. ASSUME NEW n \in PushLens, handle_push(n)
       PROVE  LoopInv'
    <2>1. /\ alive /\ events' = update_io_events(rx_paused_, tx_len')
          /\ UNCHANGED <<alive, pc, rx_paused_, poll, queue>>
        BY <1>10 DEF handle_push
    <2> QED
        BY <1>t, <1>e, <2>1 DEF LoopInv
<1>11. CASE Peer \/ PollRefused \/ UNCHANGED vars
    BY <1>u, <1>11
       DEF Peer, PeerSend, Arrive, PeerEnds, PollRefused, vars
<1>12. ASSUME NEW n \in PushLens, PushRefused(n)
       PROVE  LoopInv'
    BY <1>u, <1>12 DEF PushRefused, vars
<1> QED
    BY <1>1, <1>2, <1>3, <1>4, <1>5, <1>6, <1>7, <1>8, <1>9, <1>10, <1>11,
       <1>12
       DEF Next, HandleIo, Read, Poll, Push

(***************************************************************************)
(* The inductive invariant holds in every reachable state.                 *)
(***************************************************************************)
THEOREM Invariance == Spec => []IInv
<1>1. IInv /\ [Next]_vars => IInv'
    BY TypeStep, CapacityStep, DecoderStep, LoopStep DEF IInv
<1> QED
    BY InitIInv, <1>1, PTL DEF Spec

(***************************************************************************)
(* Every variable keeps its type (all of Session's handlers).              *)
(***************************************************************************)
THEOREM TypeCorrect == Spec => []TypeOK
BY Invariance, PTL DEF IInv

(***************************************************************************)
(* The zero-copy payload read never runs past the read buffer, whatever    *)
(* the capacities and however polls and reads interleave.                  *)
(***************************************************************************)
THEOREM NoOverrun == Spec => []RxWithinCapacity
BY Invariance, PTL DEF IInv

(***************************************************************************)
(* Between callbacks the io source waits for exactly what is to be done.   *)
(***************************************************************************)
THEOREM ArmedCorrectly == Spec => []SourceArmed
<1>1. IInv => SourceArmed
    BY DEF IInv, DecoderInv, LoopInv, SourceArmed
<1> QED
    BY Invariance, <1>1, PTL

(***************************************************************************)
(* No poll() waits while a message is queued.                              *)
(***************************************************************************)
THEOREM WakeupsKept == Spec => []NoLostWakeup
<1>1. IInv => NoLostWakeup
    BY DEF IInv, LoopInv, NoLostWakeup
<1> QED
    BY Invariance, <1>1, PTL

(***************************************************************************)
(* When the largest legal message fits an empty buffer, reading is paused  *)
(* only while a message is waiting to be polled: every pause can end.  The *)
(* hypothesis is the one that config.cpp does not check.                   *)
(***************************************************************************)
THEOREM PausesEnd ==
    ASSUME RxCap >= kMaxMessageLen + 2
    PROVE  Spec => []PausedOnlyUnderBackpressure
<1>1. IInv => PausedOnlyUnderBackpressure
    <2> SUFFICES ASSUME IInv, client_paused, queue = <<>>
                 PROVE  FALSE
        BY DEF PausedOnlyUnderBackpressure
    <2>1. rx_state_ = "header" /\ ~can_fit(msg_len_)
          /\ msg_len_ \in 1..kMaxMessageLen /\ complete_len_ = 1
        BY DEF IInv, DecoderInv, HeaderDone
    <2>2. len_ = 1
        BY <2>1 DEF IInv, RxWithinCapacity
    <2> QED
        BY <2>1, <2>2, ProtoAssumption DEF can_fit
<1> QED
    BY Invariance, <1>1, PTL

(***************************************************************************)
(* A closing session has answered the waiting poll() if it could.          *)
(***************************************************************************)
THEOREM ClosesAnswered == Spec => CloseAnswersFirst
<1>1. IInv /\ [Next]_vars =>
          [alive /\ ~alive' /\ poll = "pending" => queue = <<>>]_vars
    <2> SUFFICES ASSUME IInv, Next, alive, ~alive', poll = "pending"
                 PROVE  queue = <<>>
        OBVIOUS
    <2>1. PICK n \in 0..tx_len : FinishIo(n)
        BY DEF Next, Peer, PeerSend, Arrive, PeerEnds, HandleIo, IoEvent, Read,
               ReadHeader, SkipEmptyFrame, StartDiscard, StartPayload,
               ReadPauses, ReadPayload, ReadDiscard, ReadEnds, on_rx_messages,
               Poll, PollDelivers, PollArms, PollRefused, on_timeout, Push,
               handle_push, PushRefused, vars, env, decoder, rx, io
    <2> QED
        BY <2>1 DEF IInv, LoopInv, FinishIo
<1> QED
    BY Invariance, <1>1, PTL DEF Spec, CloseAnswersFirst

-----------------------------------------------------------------------------
(***************************************************************************)
(* The stream in front of the decoder.  At(i) is the i-th byte that it has *)
(* not read, At(Ahead + 1) the first one of the frame the peer has not yet *)
(* sent.                                                                   *)
(***************************************************************************)
FrameSize(f) == kHeaderLen + sent[f]

Ahead == Len(sock) + Len(pipe)

At(i) == IF i <= Len(sock) THEN sock[i]
         ELSE IF i <= Ahead THEN pipe[i - Len(sock)]
         ELSE <<Len(sent) + 1, 1>>

\* c may stand m places behind b: it does not say which bytes frames further
\* on have.  Without the distance m a read of several bytes needs induction.
Follows(b, c, m) ==
    /\ b[2] + m <= FrameSize(b[1]) => c = <<b[1], b[2] + m>>
    /\ b[2] + m = FrameSize(b[1]) + 1 => c = <<b[1] + 1, 1>>

Runs == \A i \in 1..Ahead, j \in 1..(Ahead + 1) :
            i <= j => Follows(At(i), At(j), j - i)

\* The decoder has read the header of frame and is not done with the frame.
InFrame == rx_state_ # "header" \/ have_read_ = kHeaderLen

Expected ==
    IF ~InFrame THEN <<frame + 1, have_read_ + 1>>
    ELSE IF msg_len_ = 0 THEN <<frame + 1, 1>>
    ELSE IF rx_state_ = "header" THEN <<frame, kHeaderLen + 1>>
    ELSE <<frame, kHeaderLen + have_read_ + 1>>

HeaderKept ==
    /\ InFrame => frame \in 1..Len(sent) /\ msg_len_ = sent[frame]
    /\ rx_state_ = "payload" => msg_len_ \in 1..kMaxMessageLen
    /\ rx_state_ = "discard" => msg_len_ > kMaxMessageLen

StreamInv == Runs /\ At(1) = Expected /\ HeaderKept

LEMMA StreamTypes ==
    ASSUME IInv
    PROVE  /\ sock \in Seq(Byte) /\ pipe \in Seq(Byte) /\ sent \in Seq(FrameLens)
           /\ Len(sock) \in Nat /\ Len(pipe) \in Nat /\ Len(sent) \in Nat
           /\ Ahead \in Nat /\ kHeaderLen \in Nat \ {0}
           /\ \A f \in 1..Len(sent) : sent[f] \in Nat /\ FrameSize(f) \in Nat
           /\ \A i \in 1..Len(sock) : sock[i] \in Byte
           /\ \A i \in 1..Len(pipe) : pipe[i] \in Byte
           /\ have_read_ \in Nat /\ msg_len_ \in Nat /\ frame \in 0..Len(sent)
<1>1. /\ sock \in Seq(Byte) /\ pipe \in Seq(Byte) /\ sent \in Seq(FrameLens)
      /\ have_read_ \in Nat /\ msg_len_ \in Nat /\ frame \in 0..Len(sent)
    BY DEF IInv, TypeOK
<1>2. /\ Len(sock) \in Nat /\ Len(pipe) \in Nat /\ Len(sent) \in Nat
      /\ \A i \in 1..Len(sock) : sock[i] \in Byte
      /\ \A i \in 1..Len(pipe) : pipe[i] \in Byte
      /\ \A i \in 1..Len(sent) : sent[i] \in FrameLens
    BY <1>1
<1>3. kHeaderLen \in Nat \ {0} /\ FrameLens \subseteq Nat
    BY ProtoAssumption
<1>4. Ahead \in Nat
    BY <1>2 DEF Ahead
<1>5. ASSUME NEW f \in 1..Len(sent) PROVE sent[f] \in Nat /\ FrameSize(f) \in Nat
    <2>1. sent[f] \in Nat
        BY <1>2, <1>3
    <2> QED
        BY <1>3, <2>1 DEF FrameSize
<1> QED
    BY <1>1, <1>2, <1>3, <1>4, <1>5

\* The first n elements of a sequence, and the others.
LEMMA CutProperties ==
    ASSUME NEW S, NEW s \in Seq(S), NEW n \in 1..Len(s)
    PROVE  /\ SubSeq(s, 1, n) \in Seq(S) /\ Len(SubSeq(s, 1, n)) = n
           /\ \A i \in 1..n : SubSeq(s, 1, n)[i] = s[i]
           /\ Len(SubSeq(s, n + 1, Len(s))) = Len(s) - n
           /\ \A i \in 1..(Len(s) - n) : SubSeq(s, n + 1, Len(s))[i] = s[n + i]
OBVIOUS

LEMMA AtTypes ==
    ASSUME IInv
    PROVE  /\ \A i \in 1..Ahead : /\ At(i) \in Byte /\ At(i)[1] \in 1..Len(sent)
                                  /\ At(i)[2] \in Nat /\ At(i) = <<At(i)[1], At(i)[2]>>
           /\ At(Ahead + 1) = <<Len(sent) + 1, 1>>
<1>1. ASSUME NEW i \in 1..Ahead PROVE At(i) \in Byte
    <2>1. CASE i <= Len(sock)
        BY <2>1, StreamTypes DEF At
    <2>2. CASE i > Len(sock)
        <3>1. i - Len(sock) \in 1..Len(pipe) /\ At(i) = pipe[i - Len(sock)]
            BY <2>2, StreamTypes DEF At, Ahead
        <3> QED
            BY <3>1, StreamTypes
    <2> QED
        BY <2>1, <2>2, StreamTypes
<1>2. At(Ahead + 1) = <<Len(sent) + 1, 1>>
    BY StreamTypes DEF At, Ahead
<1>3. \A b \in Byte : b[1] \in 1..Len(sent) /\ b[2] \in Nat /\ b = <<b[1], b[2]>>
    BY DEF Byte
<1> QED
    BY <1>1, <1>2, <1>3

\* The peer sends a frame: it takes the place that was kept for it.
LEMMA StreamGrows ==
    ASSUME IInv, StreamInv, NEW n \in FrameLens, PeerSend(n)
    PROVE  StreamInv'
<1> DEFINE z == kHeaderLen + n
<1>0. z \in Nat \ {0} /\ n \in Nat
    BY ProtoAssumption
<1> HIDE DEF z
<1>1. PICK a \in Nat, m \in Nat, w \in Nat : a = Ahead /\ m = Len(sent) + 1 /\ w = a + z
    BY <1>0, StreamTypes
<1>2. /\ pipe = <<>> /\ sock' = sock /\ sent' = Append(sent, n)
      /\ pipe' = [k \in 1..z |-> <<m, k>>]
      /\ UNCHANGED <<rx_state_, have_read_, msg_len_, frame>>
    BY <1>1 DEF PeerSend, decoder, z
<1>3. Len(sent') = m /\ sent'[m] = n /\ \A f \in 1..Len(sent) : sent'[f] = sent[f]
    BY <1>1, <1>2, StreamTypes
<1>4. Len(pipe') = z /\ \A k \in 1..z : pipe'[k] = <<m, k>>
    BY <1>0, <1>2
<1>5. Len(sock) = a /\ Len(sock') = a /\ Ahead' = w
    <2>1. Len(pipe) = 0
        BY <1>2
    <2>2. a = Len(sock)
        BY <1>1, <2>1, StreamTypes DEF Ahead
    <2>3. Ahead' = Len(sock') + Len(pipe')
        BY DEF Ahead
    <2> QED
        BY <1>1, <1>2, <1>4, <2>2, <2>3
<1>6. At(a + 1) = <<m, 1>> /\ At(w + 1)' = <<m + 1, 1>>
    <2>1. At(a + 1) = <<m, 1>>
        BY <1>1, AtTypes
    <2>2. ~(w + 1 <= Len(sock')) /\ ~(w + 1 <= Ahead') /\ Len(sent') + 1 = m + 1
        BY <1>0, <1>1, <1>3, <1>5
    <2>3. At(w + 1)' = <<Len(sent') + 1, 1>>
        BY <2>2 DEF At
    <2> QED
        BY <2>1, <2>2, <2>3
<1>7. ASSUME NEW i \in (a + 1)..w PROVE At(i)' = <<m, i - a>>
    <2>1. i - Len(sock') \in 1..z /\ ~(i <= Len(sock')) /\ i <= Ahead' /\ i - Len(sock') = i - a
        BY <1>0, <1>1, <1>5
    <2>2. At(i)' = pipe'[i - Len(sock')]
        BY <2>1 DEF At
    <2> QED
        BY <1>4, <2>1, <2>2
<1>8. ASSUME NEW i \in 1..(a + 1) PROVE At(i)' = At(i)
    <2>1. CASE i <= a
        BY <1>1, <1>2, <1>5, <2>1 DEF At
    <2>2. CASE i = a + 1
        <3>1. i \in (a + 1)..w /\ i - a = 1
            BY <1>0, <1>1, <2>2
        <3>2. At(i)' = <<m, 1>>
            BY <1>7, <3>1
        <3> QED
            BY <1>6, <2>2, <3>2
    <2> QED
        BY <1>1, <2>1, <2>2
<1>9. (\A f \in 1..Len(sent) : FrameSize(f)' = FrameSize(f)) /\ FrameSize(m)' = z
    BY <1>3 DEF FrameSize, z
<1>10. Runs'
    <2> SUFFICES ASSUME NEW i \in 1..w, NEW j \in 1..(w + 1), i <= j
                 PROVE  Follows(At(i), At(j), j - i)'
        BY <1>5 DEF Runs
    <2>1. CASE i <= a
        <3>1. PICK f \in 1..Len(sent), k \in Nat : At(i) = <<f, k>>
            BY <1>1, <2>1, AtTypes
        <3>2. /\ At(i)' = <<f, k>> /\ FrameSize(f)' = FrameSize(f) /\ FrameSize(f) \in Nat
              /\ f # m /\ i \in 1..Ahead
            BY <1>1, <1>8, <1>9, <2>1, <3>1, StreamTypes
        <3>3. CASE j <= a + 1
            <4>1. Follows(At(i), At(j), j - i)
                BY <1>1, <3>2, <3>3 DEF StreamInv, Runs
            <4>2. At(j)' = At(j)
                BY <1>1, <1>8, <3>3
            <4> QED
                BY <3>1, <3>2, <4>1, <4>2 DEF Follows
        <3>4. CASE j > a + 1
            <4>1. Follows(At(i), At(a + 1), (a + 1) - i)
                BY <1>1, <3>2 DEF StreamInv, Runs
            <4>2. ~(k + ((a + 1) - i) <= FrameSize(f))
                BY <1>6, <3>1, <3>2, <4>1 DEF Follows
            <4>3. ~(k + (j - i) <= FrameSize(f)) /\ k + (j - i) # FrameSize(f) + 1
                BY <1>1, <3>1, <3>2, <3>4, <4>2
            <4> QED
                BY <3>2, <4>3 DEF Follows
        <3> QED
            BY <1>1, <3>3, <3>4
    <2>2. CASE i > a
        <3>1. At(i)' = <<m, i - a>> /\ (i - a) + (j - i) = j - a
            BY <1>1, <1>7, <2>2
        <3>2. CASE j <= w
            <4>1. At(j)' = <<m, j - a>> /\ j - a <= z /\ j - a # z + 1
                BY <1>0, <1>1, <1>7, <2>2, <3>2
            <4> QED
                BY <1>9, <3>1, <4>1 DEF Follows
        <3>3. CASE j = w + 1
            <4>1. At(j)' = <<m + 1, 1>> /\ j - a = z + 1 /\ ~(j - a <= z)
                BY <1>0, <1>1, <1>6, <3>3
            <4> QED
                BY <1>9, <3>1, <4>1 DEF Follows
        <3> QED
            BY <1>1, <3>2, <3>3
    <2> QED
        BY <1>1, <2>1, <2>2
<1>11. At(1)' = Expected'
    <2>1. Expected' = Expected
        BY <1>2 DEF Expected, InFrame
    <2> QED
        BY <1>1, <1>8, <2>1 DEF StreamInv
<1>12. HeaderKept'
    BY <1>1, <1>2, <1>3, StreamTypes DEF StreamInv, HeaderKept, InFrame
<1> QED
    BY <1>10, <1>11, <1>12 DEF StreamInv

\* Bytes arrive in the socket: the stream stays as it is.
LEMMA StreamArrives ==
    ASSUME IInv, StreamInv, NEW n \in 1..Len(pipe), Arrive(n)
    PROVE  StreamInv'
<1>1. /\ sock' = sock \o SubSeq(pipe, 1, n) /\ pipe' = SubSeq(pipe, n + 1, Len(pipe))
      /\ UNCHANGED <<sent, rx_state_, have_read_, msg_len_, frame>>
    BY DEF Arrive, decoder
<1>2. /\ Len(sock') = Len(sock) + n /\ Len(pipe') = Len(pipe) - n
      /\ \A i \in 1..Len(sock) : sock'[i] = sock[i]
      /\ \A i \in (Len(sock) + 1)..(Len(sock) + n) : sock'[i] = pipe[i - Len(sock)]
      /\ \A i \in 1..(Len(pipe) - n) : pipe'[i] = pipe[n + i]
    <2>1. /\ SubSeq(pipe, 1, n) \in Seq(Byte) /\ Len(SubSeq(pipe, 1, n)) = n
          /\ \A i \in 1..n : SubSeq(pipe, 1, n)[i] = pipe[i]
          /\ Len(pipe') = Len(pipe) - n
          /\ \A i \in 1..(Len(pipe) - n) : pipe'[i] = pipe[n + i]
        BY <1>1, StreamTypes, CutProperties
    <2> DEFINE p == SubSeq(pipe, 1, n)
    <2> HIDE DEF p
    <2>2. /\ p \in Seq(Byte) /\ Len(p) = n /\ \A i \in 1..n : p[i] = pipe[i]
          /\ sock' = sock \o p
        BY <1>1, <2>1 DEF p
    <2>3. /\ Len(sock') = Len(sock) + n
          /\ \A i \in 1..Len(sock) : sock'[i] = sock[i]
          /\ \A i \in (Len(sock) + 1)..(Len(sock) + n) : sock'[i] = p[i - Len(sock)]
        BY <2>2, StreamTypes
    <2>4. \A i \in (Len(sock) + 1)..(Len(sock) + n) : i - Len(sock) \in 1..n
        BY StreamTypes
    <2> QED
        BY <2>1, <2>2, <2>3, <2>4
<1>3. PICK a \in Nat : a = Ahead
    BY StreamTypes
<1>4. Ahead' = a
    BY <1>2, <1>3, StreamTypes DEF Ahead
<1>5. ASSUME NEW i \in 1..(a + 1) PROVE At(i)' = At(i)
    <2>1. CASE i <= Len(sock)
        BY <1>2, <1>3, <2>1, StreamTypes DEF At
    <2>2. CASE i > Len(sock) /\ i <= Len(sock) + n
        <3>1. /\ i <= Len(sock') /\ ~(i <= Len(sock)) /\ i <= Ahead
              /\ i \in (Len(sock) + 1)..(Len(sock) + n)
            BY <1>2, <2>2, StreamTypes DEF Ahead
        <3> QED
            BY <1>2, <3>1 DEF At
    <2>3. CASE i > Len(sock) + n /\ i <= a
        <3>1. /\ ~(i <= Len(sock')) /\ ~(i <= Len(sock)) /\ i <= Ahead /\ i <= Ahead'
              /\ i - Len(sock') \in 1..(Len(pipe) - n)
              /\ n + (i - Len(sock')) = i - Len(sock)
            BY <1>2, <1>3, <1>4, <2>3, StreamTypes DEF Ahead
        <3> QED
            BY <1>2, <3>1 DEF At
    <2>4. CASE i = a + 1
        <3>1. ~(i <= Len(sock')) /\ ~(i <= Len(sock)) /\ ~(i <= Ahead) /\ ~(i <= Ahead')
            BY <1>2, <1>3, <1>4, <2>4, StreamTypes DEF Ahead
        <3> QED
            BY <1>1, <3>1 DEF At
    <2> QED
        BY <1>3, <2>1, <2>2, <2>3, <2>4, StreamTypes
<1>6. \A f : FrameSize(f)' = FrameSize(f)
    BY <1>1 DEF FrameSize
<1>7. Runs'
    <2> SUFFICES ASSUME NEW i \in 1..a, NEW j \in 1..(a + 1), i <= j
                 PROVE  Follows(At(i), At(j), j - i)'
        BY <1>4 DEF Runs
    <2>1. Follows(At(i), At(j), j - i)
        BY <1>3 DEF StreamInv, Runs
    <2>2. At(i)' = At(i) /\ At(j)' = At(j)
        BY <1>3, <1>5
    <2> QED
        BY <1>6, <2>1, <2>2 DEF Follows
<1>8. Expected' = Expected /\ HeaderKept'
    BY <1>1 DEF StreamInv, HeaderKept, Expected, InFrame
<1> QED
    BY <1>3, <1>5, <1>7, <1>8 DEF StreamInv

(***************************************************************************)
(* The decoder reads n bytes that belong to one frame: what is ahead moves *)
(* up, and the byte that follows is the next of the frame or the first one *)
(* of the next.                                                            *)
(***************************************************************************)
LEMMA StreamShifts ==
    ASSUME IInv, StreamInv, NEW n \in 1..Len(sock),
           sock' = SubSeq(sock, n + 1, Len(sock)), UNCHANGED <<pipe, sent>>,
           NEW f \in Nat, NEW k \in Nat, Expected = <<f, k>>,
           k + n <= FrameSize(f) + 1
    PROVE  /\ Runs' /\ f \in 1..Len(sent) /\ sock[n] = <<f, k + (n - 1)>>
           /\ k + n <= FrameSize(f) => At(1)' = <<f, k + n>>
           /\ k + n = FrameSize(f) + 1 => At(1)' = <<f + 1, 1>>
<1>1. /\ Len(sock') = Len(sock) - n
      /\ \A i \in 1..(Len(sock) - n) : sock'[i] = sock[n + i]
    BY StreamTypes, CutProperties
<1>2. PICK a \in Nat, l \in Nat : a = Ahead /\ l = Len(sock)
    BY StreamTypes
<1>3. a - n \in Nat /\ Ahead' = a - n /\ n \in 1..l /\ l <= a /\ Len(sock') = l - n
    <2>1. a = l + Len(pipe) /\ Ahead' = (l - n) + Len(pipe) /\ Len(pipe) \in Nat
        BY <1>1, <1>2, StreamTypes DEF Ahead
    <2> QED
        BY <1>1, <1>2, <2>1
<1>4. ASSUME NEW i \in 1..(a - n + 1) PROVE At(i)' = At(n + i)
    <2>1. CASE i <= Len(sock')
        <3>1. n + i <= Len(sock) /\ i \in 1..(Len(sock) - n)
            BY <1>1, <2>1, StreamTypes
        <3> QED
            BY <1>1, <2>1, <3>1 DEF At
    <2>2. CASE i > Len(sock') /\ i <= a - n
        <3>1. ~(i <= l - n) /\ ~(n + i <= l) /\ i <= a - n /\ n + i <= a
              /\ i - (l - n) = (n + i) - l
            BY <1>2, <1>3, <2>2
        <3> QED
            BY <1>2, <1>3, <3>1 DEF At
    <2>3. CASE i = a - n + 1
        <3>1. ~(i <= l - n) /\ ~(n + i <= l) /\ ~(i <= a - n) /\ ~(n + i <= a)
            BY <1>2, <1>3, <2>3
        <3> QED
            BY <1>2, <1>3, <3>1 DEF At
    <2> QED
        BY <1>1, <1>2, <1>3, <2>1, <2>2, <2>3, StreamTypes
<1>5. \A g : FrameSize(g)' = FrameSize(g)
    BY DEF FrameSize
<1>6. Runs'
    <2> SUFFICES ASSUME NEW i \in 1..(a - n), NEW j \in 1..(a - n + 1), i <= j
                 PROVE  Follows(At(i), At(j), j - i)'
        BY <1>3 DEF Runs
    <2>1. n + i \in 1..a /\ n + j \in 1..(a + 1) /\ n + i <= n + j
          /\ (n + j) - (n + i) = j - i
        BY <1>2, <1>3, StreamTypes
    <2>2. Follows(At(n + i), At(n + j), j - i)
        BY <1>2, <2>1 DEF StreamInv, Runs
    <2>3. At(i)' = At(n + i) /\ At(j)' = At(n + j)
        BY <1>2, <1>3, <1>4
    <2> QED
        BY <1>5, <2>2, <2>3 DEF Follows
<1>7. /\ 1 \in 1..a /\ n \in 1..(a + 1) /\ n + 1 \in 1..(a + 1) /\ 1 <= n /\ 1 <= n + 1
      /\ (n + 1) - 1 = n /\ 1 \in 1..(a - n + 1) /\ n <= Len(sock)
    BY <1>2, <1>3, StreamTypes DEF Ahead
<1>8. At(1) = <<f, k>> /\ f \in 1..Len(sent) /\ FrameSize(f) \in Nat
    <2>1. At(1) = <<f, k>>
        BY DEF StreamInv
    <2>2. At(1)[1] \in 1..Len(sent)
        BY <1>2, <1>7, AtTypes
    <2>3. f \in 1..Len(sent)
        BY <2>1, <2>2
    <2> QED
        BY <2>1, <2>3, StreamTypes
<1>9. Follows(<<f, k>>, At(n), n - 1) /\ Follows(<<f, k>>, At(n + 1), n)
    <2>1. Follows(At(1), At(n), n - 1)
        BY <1>2, <1>7 DEF StreamInv, Runs
    <2>2. Follows(At(1), At(n + 1), (n + 1) - 1)
        BY <1>2, <1>7 DEF StreamInv, Runs
    <2> QED
        BY <1>7, <1>8, <2>1, <2>2
<1>10. sock[n] = <<f, k + (n - 1)>>
    <2>1. At(n) = sock[n]
        BY <1>7 DEF At
    <2>2. k + (n - 1) <= FrameSize(f)
        BY <1>7, <1>8
    <2> QED
        BY <1>9, <2>1, <2>2 DEF Follows
<1>11. At(1)' = At(n + 1)
    BY <1>4, <1>7
<1> QED
    BY <1>6, <1>8, <1>9, <1>10, <1>11 DEF Follows

\* Steps of the decoder that read nothing.
LEMMA StreamStays ==
    ASSUME IInv, StreamInv, UNCHANGED <<sock, pipe, sent>>
    PROVE  Runs' /\ At(1)' = At(1)
<1>1. Ahead' = Ahead /\ (\A i : At(i)' = At(i)) /\ \A f : FrameSize(f)' = FrameSize(f)
    BY DEF Ahead, At, FrameSize
<1>2. ASSUME NEW i \in 1..Ahead, NEW j \in 1..(Ahead + 1), i <= j
      PROVE  Follows(At(i), At(j), j - i)'
    <2>1. Follows(At(i), At(j), j - i)
        BY <1>2 DEF StreamInv, Runs
    <2> QED
        BY <1>1, <2>1 DEF Follows
<1> QED
    BY <1>1, <1>2 DEF Runs

\* What one read(2) takes, for an action that asks for "want" bytes.
LEMMA ReadTakes ==
    ASSUME IInv, sock # <<>>, NEW want \in Nat \ {0}
    PROVE  SysRead(want) \in 1..Len(sock) /\ SysRead(want) <= want
BY SysReadBounds, StreamTypes

LEMMA StreamHeader ==
    ASSUME IInv, StreamInv, ReadHeader
    PROVE  StreamInv' /\ (InFrame' => frame' = frame + 1) /\ (~InFrame' => frame' = frame)
<1>1. /\ rx_state_ = "header" /\ have_read_ < kHeaderLen /\ sock # <<>>
      /\ rx_state_' = "header" /\ UNCHANGED <<pipe, sent>>
    BY DEF ReadHeader
<1>2. PICK n \in 1..Len(sock) : n = SysRead(kHeaderLen - have_read_)
    BY <1>1, ReadTakes, StreamTypes
<1>3. n <= kHeaderLen - have_read_ /\ n \in Nat \ {0}
    BY <1>1, <1>2, ReadTakes, StreamTypes
<1>t. have_read_ \in Nat /\ kHeaderLen \in Nat \ {0}
    BY StreamTypes
<1>4. /\ have_read_' = have_read_ + n /\ sock' = SubSeq(sock, n + 1, Len(sock))
      /\ have_read_ + n = kHeaderLen => frame' = sock[n][1] /\ msg_len_' = sent[sock[n][1]]
      /\ have_read_ + n # kHeaderLen => UNCHANGED <<frame, msg_len_>>
    BY <1>2 DEF ReadHeader
<1>5. PICK f \in Nat, k \in Nat : f = frame + 1 /\ k = have_read_ + 1
    BY StreamTypes
<1>6. /\ Expected = <<f, k>> /\ At(1) = <<f, k>> /\ ~InFrame
    BY <1>1, <1>5, StreamTypes DEF Expected, InFrame, StreamInv
<1>7. f \in 1..Len(sent) /\ FrameSize(f) = kHeaderLen + sent[f] /\ sent[f] \in Nat
    <2>1. 1 \in 1..Ahead
        BY <1>2, StreamTypes DEF Ahead
    <2>2. At(1)[1] \in 1..Len(sent)
        BY <2>1, AtTypes
    <2>3. f \in 1..Len(sent)
        BY <1>6, <2>2
    <2> QED
        BY <2>3, StreamTypes DEF FrameSize
<1>8. k + n <= FrameSize(f) + 1
    BY <1>t, <1>3, <1>5, <1>7
<1>9. /\ Runs' /\ sock[n] = <<f, k + (n - 1)>>
      /\ k + n <= FrameSize(f) => At(1)' = <<f, k + n>>
      /\ k + n = FrameSize(f) + 1 => At(1)' = <<f + 1, 1>>
    BY <1>1, <1>2, <1>4, <1>6, <1>8, StreamShifts
<1>10. CASE have_read_ + n = kHeaderLen
    <2>1. frame' = f /\ msg_len_' = sent[f] /\ have_read_' = kHeaderLen /\ InFrame'
        BY <1>4, <1>9, <1>10 DEF InFrame
    <2>2. k + n = kHeaderLen + 1
        BY <1>3, <1>5, <1>10, StreamTypes
    <2>3. At(1)' = IF sent[f] = 0 THEN <<f + 1, 1>> ELSE <<f, kHeaderLen + 1>>
        BY <1>t, <1>7, <1>9, <2>2
    <2>4. Expected' = IF sent[f] = 0 THEN <<f + 1, 1>> ELSE <<f, kHeaderLen + 1>>
        BY <1>1, <2>1 DEF Expected
    <2>5. HeaderKept'
        BY <1>1, <1>7, <2>1 DEF HeaderKept
    <2> QED
        BY <1>5, <1>9, <2>1, <2>3, <2>4, <2>5 DEF StreamInv
<1>11. CASE have_read_ + n # kHeaderLen
    <2>1. have_read_' # kHeaderLen /\ frame' = frame /\ ~InFrame'
        BY <1>1, <1>4, <1>11 DEF InFrame
    <2>2. k + n <= FrameSize(f) /\ k + n = have_read_' + 1
        BY <1>t, <1>1, <1>3, <1>4, <1>5, <1>7, <1>11
    <2>3. At(1)' = Expected'
        BY <1>5, <1>9, <2>1, <2>2 DEF Expected
    <2>4. HeaderKept'
        BY <1>1, <2>1 DEF HeaderKept
    <2> QED
        BY <1>9, <2>1, <2>3, <2>4 DEF StreamInv
<1> QED
    BY <1>10, <1>11

\* A read of the rest of a payload, or of a part of it.
LEMMA StreamBody ==
    ASSUME IInv, StreamInv, rx_state_ \in {"payload", "discard"},
           have_read_ < msg_len_, NEW n \in 1..Len(sock), n <= msg_len_ - have_read_,
           sock' = SubSeq(sock, n + 1, Len(sock)),
           have_read_' = IF have_read_ + n = msg_len_ THEN 0 ELSE have_read_ + n,
           rx_state_' = IF have_read_ + n = msg_len_ THEN "header" ELSE rx_state_,
           UNCHANGED <<pipe, sent, frame, msg_len_>>
    PROVE  StreamInv'
<1>t. have_read_ \in Nat /\ msg_len_ \in Nat /\ kHeaderLen \in Nat \ {0} /\ n \in Nat \ {0}
    BY StreamTypes
<1>1. PICK f \in Nat, k \in Nat : f = frame /\ k = kHeaderLen + have_read_ + 1
    BY StreamTypes
<1>2. /\ InFrame /\ f \in 1..Len(sent) /\ msg_len_ = sent[f] /\ msg_len_ # 0
      /\ Expected = <<f, k>> /\ FrameSize(f) = kHeaderLen + msg_len_
    <2>1. InFrame
        BY DEF InFrame
    <2>2. f \in 1..Len(sent) /\ msg_len_ = sent[f]
        BY <1>1, <2>1 DEF StreamInv, HeaderKept
    <2>3. msg_len_ # 0
        BY StreamTypes
    <2> QED
        BY <1>1, <2>1, <2>2, <2>3 DEF Expected, FrameSize
<1>3. k + n <= FrameSize(f) + 1 /\ n \in Nat \ {0}
    BY <1>t, <1>1, <1>2
<1>4. /\ Runs'
      /\ k + n <= FrameSize(f) => At(1)' = <<f, k + n>>
      /\ k + n = FrameSize(f) + 1 => At(1)' = <<f + 1, 1>>
    BY <1>2, <1>3, StreamShifts
<1>5. CASE have_read_ + n = msg_len_
    <2>1. /\ rx_state_' = "header" /\ have_read_' = 0 /\ 0 # kHeaderLen /\ frame' = f
          /\ k + n = FrameSize(f) + 1
        BY <1>t, <1>1, <1>2, <1>3, <1>5
    <2>2. ~InFrame'
        BY <2>1 DEF InFrame
    <2>3. At(1)' = Expected'
        BY <1>4, <2>1, <2>2 DEF Expected
    <2>4. HeaderKept'
        BY <2>1, <2>2 DEF HeaderKept
    <2> QED
        BY <1>4, <2>3, <2>4 DEF StreamInv
<1>6. CASE have_read_ + n # msg_len_
    <2>1. /\ rx_state_' = rx_state_ /\ have_read_' = have_read_ + n /\ frame' = f
          /\ k + n <= FrameSize(f) /\ k + n = kHeaderLen + have_read_' + 1
        <3>1. rx_state_' = rx_state_ /\ have_read_' = have_read_ + n /\ frame' = f
            BY <1>1, <1>6
        <3>2. have_read_ + n < msg_len_
            BY <1>t, <1>6
        <3>3. k + n <= FrameSize(f)
            BY <1>t, <1>1, <1>2, <3>2
        <3> QED
            BY <1>t, <1>1, <3>1, <3>3
    <2>2. InFrame'
        BY <2>1 DEF InFrame
    <2>3. At(1)' = Expected'
        BY <1>2, <1>4, <2>1, <2>2 DEF Expected
    <2>4. HeaderKept'
        BY <1>1, <1>2, <2>1 DEF HeaderKept, StreamInv
    <2> QED
        BY <1>4, <2>3, <2>4 DEF StreamInv
<1> QED
    BY <1>5, <1>6

\* The decoder's ways into a payload, and past a frame without one.
LEMMA StreamStarts ==
    ASSUME IInv, StreamInv, SkipEmptyFrame \/ StartDiscard \/ StartPayload
    PROVE  StreamInv'
<1>1. /\ UNCHANGED <<sock, pipe, sent, frame, msg_len_>> /\ have_read_' = 0
      /\ rx_state_ = "header" /\ have_read_ = kHeaderLen
      /\ \/ msg_len_ = 0 /\ rx_state_' = "header"
         \/ msg_len_ > kMaxMessageLen /\ rx_state_' = "discard"
         \/ msg_len_ \in 1..kMaxMessageLen /\ rx_state_' = "payload"
    BY DEF SkipEmptyFrame, StartDiscard, StartPayload, HeaderDone, env
<1>2. Runs' /\ At(1)' = At(1)
    BY <1>1, StreamStays
<1>3. kHeaderLen \in Nat \ {0} /\ kMaxMessageLen \in Nat \ {0} /\ msg_len_ \in Nat
    BY StreamTypes, ProtoAssumption
<1>4. InFrame
    BY <1>1 DEF InFrame
<1>5. CASE msg_len_ = 0 /\ rx_state_' = "header"
    <2>1. ~InFrame'
        BY <1>1, <1>3, <1>5 DEF InFrame
    <2>2. Expected' = Expected
        BY <1>1, <1>4, <1>5, <2>1 DEF Expected
    <2> QED
        BY <1>2, <1>5, <2>1, <2>2 DEF StreamInv, HeaderKept
<1>6. CASE rx_state_' # "header" /\ msg_len_ # 0
    <2>1. InFrame'
        BY <1>6 DEF InFrame
    <2>2. kHeaderLen + 0 + 1 = kHeaderLen + 1
        BY <1>3
    <2>3. Expected' = Expected
        BY <1>1, <1>4, <1>6, <2>1, <2>2 DEF Expected
    <2>4. HeaderKept'
        BY <1>1, <1>4, <1>6 DEF StreamInv, HeaderKept
    <2> QED
        BY <1>2, <2>3, <2>4 DEF StreamInv
<1> QED
    BY <1>1, <1>3, <1>5, <1>6

LEMMA StreamStep ==
    ASSUME IInv, StreamInv, [Next]_vars
    PROVE  StreamInv'
<1>1. CASE ReadPayload
    <2>1. /\ rx_state_ = "payload" /\ sock # <<>> /\ have_read_ < msg_len_
          /\ msg_len_ - have_read_ \in Nat \ {0}
        BY <1>1, StreamTypes DEF ReadPayload, IInv, RxWithinCapacity
    <2>2. PICK n \in 1..Len(sock) : n = SysRead(msg_len_ - have_read_)
        BY <2>1, ReadTakes
    <2>3. n <= msg_len_ - have_read_
        BY <2>1, <2>2, ReadTakes
    <2>4. /\ sock' = SubSeq(sock, n + 1, Len(sock))
          /\ have_read_' = IF have_read_ + n = msg_len_ THEN 0 ELSE have_read_ + n
          /\ rx_state_' = IF have_read_ + n = msg_len_ THEN "header" ELSE rx_state_
          /\ UNCHANGED <<pipe, sent, frame, msg_len_>>
        BY <1>1, <2>1, <2>2 DEF ReadPayload
    <2> QED
        BY <2>1, <2>3, <2>4, StreamBody
<1>2. CASE ReadDiscard
    <2> DEFINE left == msg_len_ - have_read_
               want == IF left <= kDiscardChunk THEN left ELSE kDiscardChunk
    <2>1. /\ rx_state_ = "discard" /\ sock # <<>> /\ have_read_ < msg_len_
          /\ left \in Nat \ {0}
        BY <1>2, StreamTypes DEF ReadDiscard, IInv, DecoderInv
    <2>2. want \in Nat \ {0} /\ want <= left
        BY <2>1, ProtoAssumption
    <2>3. PICK n \in 1..Len(sock) : n = SysRead(want)
        BY <2>1, <2>2, ReadTakes
    <2>4. /\ sock' = SubSeq(sock, n + 1, Len(sock))
          /\ have_read_' = IF have_read_ + n = msg_len_ THEN 0 ELSE have_read_ + n
          /\ rx_state_' = IF have_read_ + n = msg_len_ THEN "header" ELSE rx_state_
          /\ UNCHANGED <<pipe, sent, frame, msg_len_>>
        BY <1>2, <2>1, <2>3 DEF ReadDiscard
    <2> HIDE DEF want
    <2>5. n <= want
        BY <2>1, <2>2, <2>3, ReadTakes
    <2>6. n <= msg_len_ - have_read_
        BY <2>1, <2>2, <2>5, StreamTypes
    <2> QED
        BY <2>1, <2>4, <2>6, StreamBody
<1>3. CASE UNCHANGED <<sock, pipe, sent, rx_state_, have_read_, msg_len_, frame>>
    <2>1. Runs' /\ At(1)' = At(1)
        BY <1>3, StreamStays
    <2>2. Expected' = Expected /\ HeaderKept'
        BY <1>3 DEF Expected, InFrame, HeaderKept, StreamInv
    <2> QED
        BY <2>1, <2>2 DEF StreamInv
<1>4. CASE \/ \E how \in {"shutwr", "closed"} : PeerEnds(how)
           \/ \E space \in BOOLEAN : IoEvent(space)
           \/ ReadPauses \/ ReadEnds \/ on_rx_messages
           \/ \E n \in 0..tx_len : FinishIo(n)
           \/ Poll \/ PollRefused \/ on_timeout \/ Push \/ UNCHANGED vars
    BY <1>3, <1>4 DEF PeerEnds, IoEvent, ReadPauses, ReadEnds, on_rx_messages, FinishIo,
       Poll, PollDelivers, PollArms, PollRefused, on_timeout, Push, handle_push,
       PushRefused, vars, env, decoder
<1> QED
    BY <1>1, <1>2, <1>4, StreamGrows, StreamArrives, StreamHeader, StreamStarts
    DEF Next, Peer, HandleIo, Read

(***************************************************************************)
(* What is ahead of the decoder is the rest of the frame it is in and the  *)
(* frames that follow, in every reachable state.                           *)
(***************************************************************************)
THEOREM StreamInvariance == Spec => []StreamInv
<1>1. Init => StreamInv
    <2> SUFFICES ASSUME Init PROVE StreamInv
        OBVIOUS
    <2>1. Ahead = 0 /\ Len(sock) = 0 /\ Len(sent) = 0
        BY DEF Init, Ahead
    <2>2. At(1) = <<1, 1>>
        BY <2>1 DEF At
    <2>3. kHeaderLen # 0
        BY ProtoAssumption
    <2> QED
        BY <2>1, <2>2, <2>3 DEF Init, StreamInv, Runs, Expected, InFrame, HeaderKept
<1> QED
    BY <1>1, StreamStep, Invariance, PTL DEF Spec

(***************************************************************************)
(* The decoder is always in step with the frames of the stream, however it *)
(* is cut, paused and resumed.                                             *)
(***************************************************************************)
THEOREM StaysInStep == Spec => []InStep
<1>1. ASSUME IInv, StreamInv, sock # <<>> PROVE InStep
    <2>1. Head(sock) = Expected
        <3>1. Head(sock) = sock[1] /\ 1 <= Len(sock)
            BY <1>1, StreamTypes
        <3> QED
            BY <1>1, <3>1 DEF At, StreamInv
    <2>2. CASE rx_state_ = "header" /\ have_read_ < kHeaderLen
        <3>1. ~InFrame /\ have_read_ # kHeaderLen
            BY <1>1, <2>2, StreamTypes DEF InFrame
        <3> QED
            BY <2>1, <2>2, <3>1 DEF InStep, Expected
    <2>3. CASE rx_state_ = "header" /\ have_read_ = kHeaderLen
        <3>1. InFrame /\ ~(have_read_ < kHeaderLen)
            BY <1>1, <2>3, StreamTypes DEF InFrame
        <3> QED
            BY <2>1, <2>3, <3>1 DEF InStep, Expected
    <2>4. CASE rx_state_ # "header"
        <3>1. InFrame /\ msg_len_ # 0
            BY <1>1, <2>4, ProtoAssumption, StreamTypes
            DEF InFrame, StreamInv, HeaderKept, IInv, TypeOK
        <3> QED
            BY <2>1, <2>4, <3>1 DEF InStep, Expected
    <2>5. rx_state_ = "header" => have_read_ < kHeaderLen \/ have_read_ = kHeaderLen
        BY <1>1, StreamTypes DEF IInv, DecoderInv
    <2> QED
        BY <2>2, <2>3, <2>4, <2>5
<1>2. IInv /\ StreamInv => InStep
    <2>1. ASSUME sock = <<>> PROVE InStep
        BY <2>1 DEF InStep
    <2> QED
        BY <1>1, <2>1
<1> QED
    BY <1>2, Invariance, StreamInvariance, PTL

(***************************************************************************)
(* What poll() has returned and will return: the legal ones of the frames  *)
(* that the decoder is done with.                                          *)
(***************************************************************************)
All == delivered \o queue

Passed == IF InFrame THEN frame - 1 ELSE frame

Rising(s) == \A i, j \in 1..Len(s) : i < j => s[i] < s[j]

Elements(s) == {s[i] : i \in 1..Len(s)}

OrderInv == Rising(All) /\ Elements(All) = {f \in 1..Passed : Legal(f)}

LEMMA AllTypes ==
    ASSUME IInv, StreamInv
    PROVE  All \in Seq(Nat) /\ Passed \in 0..Len(sent) /\ Passed \in Nat
<1>1. All \in Seq(Nat)
    BY DEF IInv, TypeOK, All
<1>2. Passed \in 0..Len(sent) /\ Passed \in Nat
    <2>1. frame \in 0..Len(sent) /\ Len(sent) \in Nat
        BY StreamTypes
    <2>2. InFrame => frame \in 1..Len(sent)
        BY DEF StreamInv, HeaderKept
    <2> QED
        BY <2>1, <2>2 DEF Passed
<1> QED
    BY <1>1, <1>2

LEMMA OrderStays ==
    ASSUME IInv, StreamInv, OrderInv, All' = All, Passed' = Passed,
           \A f \in 1..Len(sent) : Legal(f)' = Legal(f)
    PROVE  OrderInv'
<1>1. \A f \in 1..Passed : Legal(f)' = Legal(f)
    BY AllTypes, StreamTypes
<1>2. {f \in 1..Passed : Legal(f)}' = {f \in 1..Passed : Legal(f)}
    BY <1>1
<1> QED
    BY <1>2 DEF OrderInv, Rising, Elements

\* The decoder leaves a frame that is not legal.
LEMMA OrderSkips ==
    ASSUME IInv, StreamInv, OrderInv, InFrame, ~InFrame', frame' = frame,
           ~Legal(frame), UNCHANGED <<sent, delivered, queue>>
    PROVE  OrderInv'
<1>1. frame \in 1..Len(sent) /\ Len(sent) \in Nat
    BY StreamTypes DEF StreamInv, HeaderKept
<1>2. Passed = frame - 1 /\ Passed' = frame
    BY DEF Passed
<1>3. All' = All /\ \A f : Legal(f)' = Legal(f)
    BY DEF All, Legal
<1>4. 1..frame = 1..(frame - 1) \cup {frame}
    BY <1>1
<1>5. {f \in 1..frame : Legal(f)} = {f \in 1..(frame - 1) : Legal(f)}
    BY <1>4
<1>6. {f \in 1..Passed : Legal(f)}' = {f \in 1..frame : Legal(f)}
    BY <1>2, <1>3
<1> QED
    BY <1>2, <1>3, <1>5, <1>6 DEF OrderInv, Rising, Elements

\* A payload is whole: its frame is the next one to be returned.
LEMMA OrderGrows ==
    ASSUME IInv, StreamInv, OrderInv, InFrame, ~InFrame', frame' = frame,
           Legal(frame), queue' = Append(queue, frame), UNCHANGED <<sent, delivered>>
    PROVE  OrderInv'
<1>1. frame \in 1..Len(sent) /\ Len(sent) \in Nat
    BY StreamTypes DEF StreamInv, HeaderKept
<1>2. Passed = frame - 1 /\ Passed' = frame
    BY DEF Passed
<1>3. PICK c \in Nat : c = frame
    BY <1>1
<1>4. PICK s \in Seq(Nat) : s = All
    BY AllTypes
<1>5. All' = Append(s, c)
    <2>1. queue \in Seq(Nat) /\ delivered \in Seq(Nat)
        BY DEF IInv, TypeOK
    <2>2. delivered \o Append(queue, c) = Append(delivered \o queue, c)
        BY <2>1
    <2> QED
        BY <1>3, <1>4, <2>2 DEF All
<1>6. Rising(s) /\ \A i \in 1..Len(s) : s[i] < c
    <2>1. ASSUME NEW i \in 1..Len(s) PROVE s[i] < c
        <3>1. s[i] \in 1..(c - 1)
            BY <1>2, <1>3, <1>4 DEF OrderInv, Elements
        <3> QED
            BY <3>1
    <2> QED
        BY <1>4, <2>1 DEF OrderInv
<1>7. Rising(Append(s, c))
    BY <1>6 DEF Rising
<1>8. Elements(Append(s, c)) = Elements(s) \cup {c}
    <2> DEFINE t == Append(s, c)
               n == Len(s) + 1
    <2>1. /\ Len(t) = n /\ t[n] = c /\ \A i \in 1..Len(s) : t[i] = s[i]
          /\ 1..n = 1..Len(s) \cup {n}
        OBVIOUS
    <2> HIDE DEF t, n
    <2>2. \A x : x \in Elements(t) <=> \E i \in 1..n : x = t[i]
        BY <2>1 DEF Elements
    <2>3. \A x : x \in Elements(s) <=> \E i \in 1..Len(s) : x = s[i]
        BY DEF Elements
    <2>4. ASSUME NEW x PROVE x \in Elements(t) <=> x \in Elements(s) \cup {c}
        <3>1. x \in Elements(t) <=> (\E i \in 1..Len(s) : x = t[i]) \/ x = t[n]
            BY <2>1, <2>2
        <3>2. (\E i \in 1..Len(s) : x = t[i]) <=> (\E i \in 1..Len(s) : x = s[i])
            BY <2>1
        <3>3. (\E i \in 1..Len(s) : x = s[i]) <=> x \in Elements(s)
            BY <2>3
        <3>4. t[n] = c
            BY <2>1
        <3> QED
            BY <3>1, <3>2, <3>3, <3>4
    <2>5. Elements(t) = Elements(s) \cup {c}
        BY <2>4
    <2> QED
        BY <2>5 DEF t
<1>9. 1..c = 1..(c - 1) \cup {c}
    BY <1>1, <1>3
<1>10. \A f : Legal(f)' = Legal(f)
    BY DEF Legal
<1>11. {f \in 1..Passed : Legal(f)}' = {f \in 1..c : Legal(f)}
    BY <1>2, <1>3, <1>10
<1>12. {f \in 1..c : Legal(f)} = {f \in 1..(c - 1) : Legal(f)} \cup {c}
    BY <1>3, <1>9
<1>13. Elements(s) = {f \in 1..(c - 1) : Legal(f)}
    BY <1>2, <1>3, <1>4 DEF OrderInv
<1>14. Rising(All') /\ Elements(All') = {f \in 1..Passed : Legal(f)}'
    BY <1>5, <1>7, <1>8, <1>11, <1>12, <1>13
<1> QED
    BY <1>14 DEF OrderInv, Rising, Elements

LEMMA OrderStep ==
    ASSUME IInv, StreamInv, OrderInv, [Next]_vars
    PROVE  OrderInv'
<1>u. UNCHANGED sent => \A f : Legal(f)' = Legal(f)
    BY DEF Legal
<1>s. UNCHANGED <<frame, rx_state_, have_read_>> => Passed' = Passed
    BY DEF Passed, InFrame
<1>a. UNCHANGED <<delivered, queue>> => All' = All
    BY DEF All
<1>d. drain_queue => All' = All
    <2>1. queue \in Seq(Nat) /\ delivered \in Seq(Nat)
        BY DEF IInv, TypeOK
    <2>2. (delivered \o queue) \o <<>> = delivered \o queue
        BY <2>1
    <2> QED
        BY <2>2 DEF drain_queue, All
<1>1. ASSUME NEW n \in FrameLens, PeerSend(n) PROVE OrderInv'
    <2>1. /\ sent' = Append(sent, n)
          /\ UNCHANGED <<frame, rx_state_, have_read_, delivered, queue>>
        BY <1>1 DEF PeerSend, decoder, rx
    <2>2. \A f \in 1..Len(sent) : sent'[f] = sent[f]
        BY <2>1, StreamTypes
    <2>3. \A f \in 1..Len(sent) : Legal(f)' = Legal(f)
        BY <2>2 DEF Legal
    <2> QED
        BY <1>s, <1>a, <2>1, <2>3, OrderStays
<1>2. CASE ReadHeader
    <2>1. rx_state_ = "header" /\ have_read_ < kHeaderLen /\ UNCHANGED <<sent, delivered, queue>>
        BY <1>2 DEF ReadHeader, rx
    <2>2. ~InFrame
        BY <2>1, StreamTypes DEF InFrame
    <2>3. (InFrame' => frame' = frame + 1) /\ (~InFrame' => frame' = frame)
        BY <1>2, StreamHeader
    <2>4. Passed' = Passed
        BY <2>2, <2>3, StreamTypes DEF Passed
    <2> QED
        BY <1>u, <1>a, <2>1, <2>4, OrderStays
<1>3. CASE SkipEmptyFrame
    <2>1. /\ UNCHANGED <<sent, delivered, queue, frame>> /\ InFrame /\ ~InFrame' /\ msg_len_ = 0
        BY <1>3, ProtoAssumption DEF SkipEmptyFrame, HeaderDone, InFrame, env, rx
    <2>2. ~Legal(frame)
        BY <2>1 DEF StreamInv, HeaderKept, Legal
    <2> QED
        BY <2>1, <2>2, OrderSkips
<1>4. CASE StartDiscard \/ StartPayload
    <2>1. UNCHANGED <<sent, delivered, queue, frame>> /\ InFrame /\ InFrame'
        BY <1>4 DEF StartDiscard, StartPayload, HeaderDone, InFrame, env, rx
    <2>2. Passed' = Passed
        BY <2>1 DEF Passed
    <2> QED
        BY <1>u, <1>a, <2>1, <2>2, OrderStays
<1>5. CASE ReadPayload
    <2> DEFINE whole == have_read_ + SysRead(msg_len_ - have_read_) = msg_len_
    <2>1. /\ rx_state_ = "payload" /\ InFrame /\ UNCHANGED <<sent, delivered, frame>>
          /\ whole => /\ rx_state_' = "header" /\ have_read_' = 0
                      /\ queue' = Append(queue, frame)
          /\ ~whole => rx_state_' = "payload" /\ queue' = queue
        BY <1>5 DEF ReadPayload, InFrame
    <2> HIDE DEF whole
    <2>2. CASE whole
        <3>1. ~InFrame'
            BY <2>1, <2>2, ProtoAssumption DEF InFrame
        <3>2. Legal(frame)
            BY <2>1 DEF StreamInv, HeaderKept, Legal
        <3> QED
            BY <2>1, <2>2, <3>1, <3>2, OrderGrows
    <2>3. CASE ~whole
        <3>1. InFrame'
            BY <2>1, <2>3 DEF InFrame
        <3>2. Passed' = Passed
            BY <2>1, <3>1 DEF Passed
        <3> QED
            BY <1>u, <1>a, <2>1, <2>3, <3>2, OrderStays
    <2> QED
        BY <2>2, <2>3
<1>6. CASE ReadDiscard
    <2>1. /\ rx_state_ = "discard" /\ InFrame /\ UNCHANGED <<sent, delivered, queue, frame>>
          /\ rx_state_' = "discard" \/ (rx_state_' = "header" /\ have_read_' = 0)
        BY <1>6 DEF ReadDiscard, InFrame, rx
    <2>2. CASE rx_state_' = "discard"
        <3>1. InFrame'
            BY <2>2 DEF InFrame
        <3>2. Passed' = Passed
            BY <2>1, <3>1 DEF Passed
        <3> QED
            BY <1>u, <1>a, <2>1, <3>2, OrderStays
    <2>3. CASE rx_state_' = "header" /\ have_read_' = 0
        <3>1. ~InFrame'
            BY <2>3, ProtoAssumption DEF InFrame
        <3>2. ~Legal(frame)
            BY <2>1, ProtoAssumption, StreamTypes DEF StreamInv, HeaderKept, Legal
        <3> QED
            BY <2>1, <3>1, <3>2, OrderSkips
    <2> QED
        BY <2>1, <2>2, <2>3
<1>7. CASE /\ UNCHANGED <<sent, frame, rx_state_, have_read_>>
           /\ drain_queue \/ UNCHANGED <<delivered, queue>>
    BY <1>u, <1>s, <1>a, <1>d, <1>7, OrderStays
<1>8. CASE \/ \E n \in 1..Len(pipe) : Arrive(n)
           \/ \E how \in {"shutwr", "closed"} : PeerEnds(how)
           \/ \E space \in BOOLEAN : IoEvent(space)
           \/ ReadPauses \/ ReadEnds \/ on_rx_messages
           \/ \E n \in 0..tx_len : FinishIo(n)
           \/ Poll \/ PollRefused \/ on_timeout \/ Push \/ UNCHANGED vars
    BY <1>7, <1>8 DEF Arrive, PeerEnds, IoEvent, ReadPauses, ReadEnds, on_rx_messages,
       FinishIo, Poll, PollDelivers, PollArms, PollRefused, on_timeout, Push, handle_push,
       PushRefused, vars, env, decoder, rx
<1> QED
    BY <1>1, <1>2, <1>3, <1>4, <1>5, <1>6, <1>8 DEF Next, Peer, HandleIo, Read

\* What poll() has returned and will return stays in order (RxBuffer::drain).
THEOREM OrderInvariance == Spec => []OrderInv
<1>1. Init => OrderInv
    <2> SUFFICES ASSUME Init PROVE OrderInv
        OBVIOUS
    <2>1. All = <<>>
        BY DEF Init, All
    <2>2. Passed = 0
        BY ProtoAssumption DEF Init, Passed, InFrame
    <2> QED
        BY <2>1, <2>2 DEF OrderInv, Rising, Elements
<1> QED
    BY <1>1, OrderStep, Invariance, StreamInvariance, PTL DEF Spec

(***************************************************************************)
(* poll() returns exactly the legal frames, once each and in order, for    *)
(* every sequence of frame lengths and every way the stream is cut.        *)
(***************************************************************************)
THEOREM DeliversInOrder == Spec => []InOrder
<1>1. ASSUME IInv, StreamInv, OrderInv PROVE InOrder
    <2>1. Passed \in 0..Len(sent)
        BY <1>1, AllTypes
    <2> QED
        BY <1>1, <2>1 DEF OrderInv, Rising, Elements, All, InOrder
<1>2. IInv /\ StreamInv /\ OrderInv => InOrder
    BY <1>1
<1> QED
    BY <1>2, Invariance, StreamInvariance, OrderInvariance, PTL

(***************************************************************************)
(* at gives the end of every message of q.  BatchInv says it of each such  *)
(* function, so that no induction over q is needed: a message that is      *)
(* added extends the functions by one value.                               *)
(***************************************************************************)
Ends(at, q) == at = [i \in 0..Len(q) |-> IF i = 0 THEN 1 ELSE at[i - 1] + sent[q[i]] + 1]

BatchInv ==
    /\ \E at : Ends(at, queue)
    /\ \A at : Ends(at, queue) => at[Len(queue)] = complete_len_

LEMMA EmptyEnds ==
    ASSUME NEW s, NEW q, q = <<>>, NEW at
    PROVE  /\ at = [i \in 0..Len(q) |-> IF i = 0 THEN 1 ELSE at[i - 1] + s[q[i]] + 1]
                 <=> at = [i \in {0} |-> 1]
           /\ Len(q) = 0
<1>1. Len(q) = 0 /\ 0..0 = {0}
    OBVIOUS
<1>2. [i \in 0..Len(q) |-> IF i = 0 THEN 1 ELSE at[i - 1] + s[q[i]] + 1] = [i \in {0} |-> 1]
    BY <1>1
<1> QED
    BY <1>1, <1>2

LEMMA BatchStays ==
    ASSUME BatchInv, UNCHANGED <<queue, complete_len_>>,
           \A i \in 1..Len(queue) : sent'[queue[i]] = sent[queue[i]], Len(queue) \in Nat
    PROVE  BatchInv'
<1>1. ASSUME NEW at PROVE Ends(at, queue)' <=> Ends(at, queue)
    <2>1. [i \in 0..Len(queue) |-> IF i = 0 THEN 1 ELSE at[i - 1] + sent'[queue[i]] + 1]
            = [i \in 0..Len(queue) |-> IF i = 0 THEN 1 ELSE at[i - 1] + sent[queue[i]] + 1]
        <3>1. \A i \in 0..Len(queue) : i # 0 => i \in 1..Len(queue)
            OBVIOUS
        <3> QED
            BY <3>1
    <2> QED
        BY <2>1 DEF Ends
<1> QED
    BY <1>1 DEF BatchInv

LEMMA BatchGrows ==
    ASSUME BatchInv, NEW c \in Nat, queue \in Seq(Nat), queue' = Append(queue, c),
           UNCHANGED sent, complete_len_' = complete_len_ + sent[c] + 1
    PROVE  BatchInv'
<1>1. PICK n \in Nat : n = Len(queue)
    BY LenProperties
<1>2. /\ Len(queue') = n + 1 /\ queue'[n + 1] = c
      /\ \A i \in 1..n : queue'[i] = queue[i]
    BY <1>1, AppendProperties
<1>3. \A i \in 0..n : i # 0 => i \in 1..n /\ i - 1 \in 0..n
    OBVIOUS
<1>4. ASSUME NEW bt, Ends(bt, queue)' PROVE bt[n + 1] = complete_len_'
    <2> DEFINE at == [i \in 0..n |-> bt[i]]
    <2>1. bt = [i \in 0..(n + 1) |-> IF i = 0 THEN 1 ELSE bt[i - 1] + sent[queue'[i]] + 1]
        BY <1>2, <1>4 DEF Ends
    <2>2. \A i \in 0..n : bt[i] = IF i = 0 THEN 1 ELSE bt[i - 1] + sent[queue'[i]] + 1
        <3>1. \A i \in 0..n : i \in 0..(n + 1)
            OBVIOUS
        <3> QED
            BY <2>1, <3>1
    <2>3. \A i \in 0..n : at[i] = IF i = 0 THEN 1 ELSE at[i - 1] + sent[queue[i]] + 1
        <3>1. \A i \in 0..n : at[i] = bt[i]
            OBVIOUS
        <3> HIDE DEF at
        <3> QED
            BY <1>2, <1>3, <2>2, <3>1
    <2>4. Ends(at, queue)
        <3>1. at = [i \in 0..n |-> at[i]]
            OBVIOUS
        <3> HIDE DEF at
        <3>2. at = [i \in 0..n |-> IF i = 0 THEN 1 ELSE at[i - 1] + sent[queue[i]] + 1]
            BY <2>3, <3>1
        <3> QED
            BY <1>1, <3>2 DEF Ends
    <2>5. at[n] = complete_len_
        BY <1>1, <2>4 DEF BatchInv
    <2>6. bt[n] = complete_len_
        BY <2>5
    <2>7. bt[n + 1] = bt[(n + 1) - 1] + sent[queue'[n + 1]] + 1
        <3>1. n + 1 \in 0..(n + 1) /\ n + 1 # 0
            OBVIOUS
        <3> QED
            BY <2>1, <3>1
    <2>8. (n + 1) - 1 = n
        OBVIOUS
    <2> QED
        BY <1>2, <2>6, <2>7, <2>8
<1>5. \E bt : Ends(bt, queue)'
    <2>1. PICK at : Ends(at, queue)
        BY DEF BatchInv
    <2>2. \A i \in 0..n : at[i] = IF i = 0 THEN 1 ELSE at[i - 1] + sent[queue[i]] + 1
        BY <1>1, <2>1 DEF Ends
    <2>b. PICK bt : bt = [i \in 0..(n + 1) |-> IF i = n + 1 THEN at[n] + sent[c] + 1 ELSE at[i]]
        OBVIOUS
    <2>3. /\ \A i \in 0..n : bt[i] = at[i]
          /\ bt[n + 1] = at[n] + sent[c] + 1
          /\ bt = [i \in 0..(n + 1) |-> bt[i]]
        <3>1. /\ \A i \in 0..n : i \in 0..(n + 1) /\ i # n + 1
              /\ n + 1 \in 0..(n + 1)
            OBVIOUS
        <3> QED
            BY <2>b, <3>1
    <2>4. ASSUME NEW i \in 0..(n + 1)
          PROVE  bt[i] = IF i = 0 THEN 1 ELSE bt[i - 1] + sent[queue'[i]] + 1
        <3>1. CASE i = n + 1
            <4>1. i - 1 = n /\ i # 0 /\ n \in 0..n
                BY <3>1
            <4> QED
                BY <1>2, <2>3, <3>1, <4>1
        <3>2. CASE i \in 0..n
            BY <1>2, <1>3, <2>2, <2>3, <3>2
        <3>3. i = n + 1 \/ i \in 0..n
            OBVIOUS
        <3> QED
            BY <3>1, <3>2, <3>3
    <2>5. bt = [i \in 0..(n + 1) |-> IF i = 0 THEN 1 ELSE bt[i - 1] + sent[queue'[i]] + 1]
        BY <2>3, <2>4
    <2>6. Ends(bt, queue)'
        BY <1>2, <2>5 DEF Ends
    <2> QED
        BY <2>6
<1> QED
    BY <1>2, <1>4, <1>5 DEF BatchInv

LEMMA BatchStep ==
    ASSUME IInv, StreamInv, OrderInv, BatchInv, [Next]_vars
    PROVE  BatchInv'
<1>t. queue \in Seq(Nat) /\ Len(queue) \in Nat
    BY LenProperties DEF IInv, TypeOK
<1>s. UNCHANGED <<sent, queue, complete_len_>> => BatchInv'
    BY <1>t, BatchStays
<1>d. drain_queue => BatchInv'
    <2>1. ASSUME queue' = <<>>, complete_len_' = 1 PROVE BatchInv'
        <3>1. \A at : (Ends(at, queue)' <=> at = [i \in {0} |-> 1]) /\ Len(queue') = 0
            BY <2>1, EmptyEnds DEF Ends
        <3> QED
            BY <2>1, <3>1 DEF BatchInv
    <2> QED
        BY <2>1 DEF drain_queue
<1>1. ASSUME NEW n \in FrameLens, PeerSend(n) PROVE BatchInv'
    <2>1. sent' = Append(sent, n) /\ UNCHANGED <<queue, complete_len_>>
        BY <1>1 DEF PeerSend, rx
    <2>2. ASSUME NEW i \in 1..Len(queue) PROVE queue[i] \in 1..Len(sent)
        <3>1. delivered \in Seq(Nat) /\ Len(delivered) \in Nat
            BY LenProperties DEF IInv, TypeOK
        <3>2. PICK j \in 1..Len(All) : All[j] = queue[i]
            <4>1. /\ Len(All) = Len(delivered) + Len(queue)
                  /\ \A j \in 1..(Len(delivered) + Len(queue)) : All[j] =
                        IF j <= Len(delivered) THEN delivered[j] ELSE queue[j - Len(delivered)]
                BY <1>t, <3>1, ConcatProperties DEF All
            <4>2. PICK m \in Nat : m = Len(delivered)
                BY <3>1
            <4>3. /\ m + i \in 1..(m + Len(queue)) /\ ~(m + i <= m) /\ (m + i) - m = i
                BY <1>t
            <4>4. All[m + i] = queue[i] /\ m + i \in 1..Len(All)
                BY <4>1, <4>2, <4>3
            <4> QED
                BY <4>4
        <3>3. queue[i] \in 1..Passed
            BY <3>2 DEF OrderInv, Elements
        <3>4. Passed \in 0..Len(sent) /\ Len(sent) \in Nat
            BY AllTypes, StreamTypes
        <3> QED
            BY <3>3, <3>4
    <2>3. \A f \in 1..Len(sent) : sent'[f] = sent[f]
        BY <2>1, StreamTypes
    <2> QED
        BY <1>t, <2>1, <2>2, <2>3, BatchStays
<1>2. CASE ReadPayload
    <2> DEFINE n     == SysRead(msg_len_ - have_read_)
               whole == have_read_ + n = msg_len_
    <2>1. /\ rx_state_ = "payload" /\ UNCHANGED sent
          /\ whole => queue' = Append(queue, frame) /\ complete_len_' = len_ + n + 1
          /\ ~whole => UNCHANGED <<queue, complete_len_>>
        BY <1>2 DEF ReadPayload
    <2>2. CASE whole
        <3>1. /\ frame \in 1..Len(sent) /\ msg_len_ = sent[frame]
            BY <2>1 DEF StreamInv, HeaderKept, InFrame
        <3>2. /\ len_ = complete_len_ + have_read_ /\ complete_len_ \in Nat
              /\ have_read_ \in Nat /\ msg_len_ \in Nat /\ have_read_ < msg_len_
            BY <2>1 DEF IInv, TypeOK, RxWithinCapacity
        <3>3. n \in Nat
            <4>1. sock # <<>> /\ sock \in Seq(Byte)
                BY <1>2 DEF ReadPayload, IInv, TypeOK
            <4>2. msg_len_ - have_read_ \in Nat \ {0}
                BY <3>2
            <4>3. n \in 1..Len(sock)
                BY <4>1, <4>2, SysReadBounds
            <4>4. Len(sock) \in Nat
                BY <4>1, LenProperties
            <4> QED
                BY <4>3, <4>4
        <3> HIDE DEF n
        <3>4. have_read_ + n = msg_len_
            BY <2>2
        <3>5. len_ + n + 1 = complete_len_ + msg_len_ + 1
            BY <3>2, <3>3, <3>4
        <3>6. complete_len_' = complete_len_ + sent[frame] + 1
            BY <2>1, <2>2, <3>1, <3>5
        <3>7. frame \in Nat
            BY <3>1, StreamTypes
        <3> QED
            BY <1>t, <2>1, <2>2, <3>6, <3>7, BatchGrows
    <2>3. CASE ~whole
        BY <1>s, <2>1, <2>3
    <2> QED
        BY <2>2, <2>3
<1>3. CASE \/ drain_queue
           \/ UNCHANGED <<sent, queue, complete_len_>>
    BY <1>s, <1>d, <1>3
<1>4. CASE \/ \E n \in 1..Len(pipe) : Arrive(n)
           \/ \E how \in {"shutwr", "closed"} : PeerEnds(how)
           \/ \E space \in BOOLEAN : IoEvent(space)
           \/ ReadHeader \/ SkipEmptyFrame \/ StartDiscard \/ StartPayload
           \/ ReadPauses \/ ReadDiscard \/ ReadEnds \/ on_rx_messages
           \/ \E n \in 0..tx_len : FinishIo(n)
           \/ Poll \/ PollRefused \/ on_timeout \/ Push \/ UNCHANGED vars
    BY <1>3, <1>4 DEF Arrive, PeerEnds, IoEvent, ReadHeader, SkipEmptyFrame, StartDiscard,
       StartPayload, ReadPauses, ReadDiscard, ReadEnds, on_rx_messages, FinishIo, Poll,
       PollDelivers, PollArms, PollRefused, on_timeout, Push, handle_push, PushRefused,
       vars, env, rx
<1> QED
    BY <1>1, <1>2, <1>4 DEF Next, Peer, HandleIo, Read

(***************************************************************************)
(* RxBuffer::poll cuts the buffer at the end of a message, whatever part   *)
(* of the next one has been read behind it.                                *)
(***************************************************************************)
THEOREM BatchesAreWhole == Spec => []BatchIsWhole
<1>1. Init => BatchInv
    <2> SUFFICES ASSUME queue = <<>>, complete_len_ = 1 PROVE BatchInv
        BY DEF Init
    <2>1. \A at : (Ends(at, queue) <=> at = [i \in {0} |-> 1]) /\ Len(queue) = 0
        BY EmptyEnds DEF Ends
    <2> QED
        BY <2>1 DEF BatchInv
<1>2. Spec => []BatchInv
    BY <1>1, BatchStep, Invariance, StreamInvariance, OrderInvariance, PTL DEF Spec
<1>3. BatchInv => BatchIsWhole
    <2> SUFFICES ASSUME BatchInv PROVE BatchIsWhole
        OBVIOUS
    <2>1. MessageEnd = CHOOSE at : Ends(at, queue)
        BY DEF MessageEnd, Ends
    <2>2. Ends(MessageEnd, queue)
        BY <2>1 DEF BatchInv
    <2>3. MessageEnd[Len(queue)] = complete_len_
        BY <2>2 DEF BatchInv
    <2> QED
        BY <2>3 DEF BatchIsWhole
<1> QED
    BY <1>2, <1>3, PTL
=============================================================================
