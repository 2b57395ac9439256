------------------------------- MODULE Session -------------------------------
(***************************************************************************)
(* One connected client of the daemon: the socket, the frame decoder       *)
(* (proto/client.cpp), the read buffer it fills (proto/rx_buffer.cpp), the *)
(* I/O callback that drives both (client_session.cpp) and the D-Bus object *)
(* /cli{id} through which the KWin script polls and pushes                 *)
(* (client_dbus_object.cpp, dbus_util.cpp, poll_waiter.cpp).               *)
(*                                                                         *)
(* The daemon is one sd-event loop: a callback runs to completion before   *)
(* another starts.  Only the peer and the kernel run beside it, so the one *)
(* callback with several system calls, handle_io, is split at each call of *)
(* Client::read ("pc"); every D-Bus handler is one action.                 *)
(*                                                                         *)
(* A byte on the wire is <<f, k>>: the k-th byte of the f-th frame sent,   *)
(* header bytes first.  The payload text is left out: a message is its     *)
(* frame number, and the buffer is the lengths the C++ object keeps.       *)
(***************************************************************************)
EXTENDS Integers, Sequences

CONSTANTS
    kHeaderLen,       \* bytes of the length prefix
    kMaxMessageLen,   \* longest legal payload
    kDiscardChunk,    \* most bytes one read() of a discarded frame takes
    RxCap,            \* capacity of the read buffer (KWIN_RX_BUFFER_CAP)
    TxCap,            \* capacity of the write buffer (KWIN_TX_BUFFER_CAP)
    FrameLens,        \* payload lengths the peer may send
    PushLens,         \* payload lengths the script may push
    MaxFrames         \* bound: frames the peer sends

ASSUME ProtoAssumption ==
    /\ kHeaderLen \in Nat \ {0}
    /\ kMaxMessageLen \in Nat \ {0}
    /\ kDiscardChunk \in Nat \ {0}
    /\ RxCap \in Nat /\ RxCap >= 2
    /\ TxCap \in Nat /\ TxCap >= kHeaderLen + 1
    /\ FrameLens \subseteq Nat
    /\ PushLens \subseteq Nat
    /\ MaxFrames \in Nat

VARIABLES
    sent,        \* history: payload length of every frame the peer sent
    pipe,        \* bytes the peer has still to write to the socket
    sock,        \* bytes in the daemon's socket, unread
    peer,        \* "open", "shutwr" (write side shut down) or "closed"
    alive,       \* the ClientSession exists
    pc,          \* where the event loop is inside handle_io
    ev,          \* revents of the callback being run
    eof,         \* close_conn of the callback being run
    rx_state_,   \* decoder: "header", "payload" or "discard"
    have_read_,  \* bytes of the current header or payload read so far
    msg_len_,    \* payload length of the current frame
    frame,       \* the frame msg_len_ was read from
    client_paused,   \* Client::rx_paused_
    rx_paused_,      \* ClientSession::rx_paused_
    len_,            \* RxBuffer: bytes used, the leading '[' included
    complete_len_,   \* RxBuffer: end of the last complete message
    queue,           \* RxBuffer: the complete messages (messages_ of them)
    tx_len,          \* TxBuffer: bytes not yet sent
    events,          \* what the io source waits for; {} is SD_EVENT_OFF
    poll,            \* PollWaiter: "none" or "pending"
    delivered        \* history: messages returned to the script by poll()

env     == <<sent, pipe, sock, peer>>
decoder == <<rx_state_, have_read_, msg_len_, frame, client_paused>>
rx      == <<len_, complete_len_, queue>>
io      == <<pc, ev, eof>>
vars    == <<env, alive, io, decoder, rx_paused_, rx, tx_len, events, poll,
             delivered>>

\* The bytes of the frames sent so far.
Byte == (1..Len(sent)) \X (Nat \ {0})

Event == [readable : BOOLEAN, writable : BOOLEAN, hangup : BOOLEAN]

Init ==
    /\ sent = <<>> /\ pipe = <<>> /\ sock = <<>> /\ peer = "open"
    /\ alive = TRUE
    /\ pc = "idle" /\ eof = FALSE
    /\ ev = [readable |-> FALSE, writable |-> FALSE, hangup |-> FALSE]
    /\ rx_state_ = "header" /\ have_read_ = 0 /\ msg_len_ = 0 /\ frame = 0
    /\ client_paused = FALSE /\ rx_paused_ = FALSE
    /\ len_ = 1 /\ complete_len_ = 1 /\ queue = <<>>
    /\ tx_len = 0
    /\ events = {"in"}
    /\ poll = "none"
    /\ delivered = <<>>

-----------------------------------------------------------------------------
(***************************************************************************)
(* The peer and the kernel.                                                *)
(***************************************************************************)
PeerSend(n) ==
    /\ peer = "open" /\ pipe = <<>> /\ Len(sent) < MaxFrames
    /\ sent' = Append(sent, n)
    /\ pipe' = [k \in 1..(kHeaderLen + n) |-> <<Len(sent) + 1, k>>]
    /\ UNCHANGED <<sock, peer, alive, io, decoder, rx_paused_, rx, tx_len,
                   events, poll, delivered>>

\* The stream may be cut anywhere: any number of bytes arrives at once.
Arrive(n) ==
    /\ peer = "open" /\ n \in 1..Len(pipe)
    /\ sock' = sock \o SubSeq(pipe, 1, n)
    /\ pipe' = SubSeq(pipe, n + 1, Len(pipe))
    /\ UNCHANGED <<sent, peer, alive, io, decoder, rx_paused_, rx, tx_len,
                   events, poll, delivered>>

PeerEnds(how) ==
    /\ peer = "open"
    /\ peer' = how
    /\ UNCHANGED <<sent, pipe, sock, alive, io, decoder, rx_paused_, rx,
                   tx_len, events, poll, delivered>>

-----------------------------------------------------------------------------
(***************************************************************************)
(* ClientSession::update_io_events.                                        *)
(***************************************************************************)
ForgetsPaused(paused, pending) ==
    {"in"} \cup (IF pending > 0 THEN {"out"} ELSE {})

update_io_events(paused, pending) ==
    (IF paused THEN {} ELSE {"in"}) \cup (IF pending > 0 THEN {"out"} ELSE {})

(***************************************************************************)
(* RxBuffer: room for a payload and its separator.                         *)
(***************************************************************************)
FitsWithoutSeparator(n) == len_ + n <= RxCap

can_fit(n) == len_ + n + 1 <= RxCap

(***************************************************************************)
(* RxBuffer::drain after RxBuffer::poll: the complete messages leave, a    *)
(* payload that is still being read moves to the front.                    *)
(***************************************************************************)
DrainDropsTail ==
    /\ delivered' = delivered \o queue
    /\ queue' = <<>>
    /\ len_' = 1
    /\ complete_len_' = 1

drain_queue ==
    /\ delivered' = delivered \o queue
    /\ queue' = <<>>
    /\ len_' = 1 + (len_ - complete_len_)
    /\ complete_len_' = 1

(***************************************************************************)
(* ClientSession::on_rx_drained, called after each drain of a non-empty    *)
(* queue.                                                                  *)
(***************************************************************************)
DrainedLeavesClientPaused ==
    /\ rx_paused_' = FALSE
    /\ client_paused' = client_paused
    /\ events' = IF rx_paused_ THEN update_io_events(FALSE, tx_len) ELSE events

on_rx_drained ==
    /\ rx_paused_' = FALSE
    /\ client_paused' = IF rx_paused_ THEN FALSE ELSE client_paused
    /\ events' = IF rx_paused_ THEN update_io_events(FALSE, tx_len) ELSE events

-----------------------------------------------------------------------------
(***************************************************************************)
(* handle_io: an epoll wake-up.  EPOLLHUP is reported whether asked for or *)
(* not, but only while the source is on.                                   *)
(***************************************************************************)
IoEvent(space) ==
    LET readable == "in" \in events /\ (sock # <<>> \/ peer # "open")
        writable == "out" \in events /\ (space \/ peer = "closed")
        hangup   == peer = "closed"
    IN
    /\ alive /\ pc = "idle" /\ events # {}
    /\ readable \/ writable \/ hangup
    /\ ev' = [readable |-> readable, writable |-> writable, hangup |-> hangup]
    /\ eof' = FALSE
    /\ pc' = IF readable THEN "read" ELSE "flush"
    /\ UNCHANGED <<env, alive, decoder, rx_paused_, rx, tx_len, events, poll,
                   delivered>>

\* What one read(2) of at most "want" bytes returns.
SysRead(want) == IF want <= Len(sock) THEN want ELSE Len(sock)

HeaderDone == rx_state_ = "header" /\ have_read_ = kHeaderLen

(***************************************************************************)
(* Client::read, one action per way through it.  The caller repeats it     *)
(* while it makes progress.  client_paused makes it return "paused".       *)
(***************************************************************************)
ReadHeader ==
    /\ pc = "read" /\ ~client_paused
    /\ rx_state_ = "header" /\ have_read_ < kHeaderLen /\ sock # <<>>
    /\ LET n == SysRead(kHeaderLen - have_read_) IN
       /\ have_read_' = have_read_ + n
       /\ sock' = SubSeq(sock, n + 1, Len(sock))
       /\ IF have_read_ + n = kHeaderLen
          THEN frame' = sock[n][1] /\ msg_len_' = sent[sock[n][1]]
          ELSE UNCHANGED <<frame, msg_len_>>
    /\ UNCHANGED <<sent, pipe, peer, alive, io, rx_state_, client_paused,
                   rx_paused_, rx, tx_len, events, poll, delivered>>

EmptyFrameAsPayload ==
    /\ pc = "read" /\ ~client_paused /\ HeaderDone /\ msg_len_ = 0
    /\ rx_state_' = "payload"
    /\ have_read_' = 0
    /\ UNCHANGED <<env, alive, io, msg_len_, frame, client_paused, rx_paused_,
                   rx, tx_len, events, poll, delivered>>

SkipEmptyFrame ==
    /\ pc = "read" /\ ~client_paused /\ HeaderDone /\ msg_len_ = 0
    /\ have_read_' = 0
    /\ UNCHANGED <<env, alive, io, rx_state_, msg_len_, frame, client_paused,
                   rx_paused_, rx, tx_len, events, poll, delivered>>

StartDiscard ==
    /\ pc = "read" /\ ~client_paused /\ HeaderDone
    /\ msg_len_ > kMaxMessageLen
    /\ rx_state_' = "discard"
    /\ have_read_' = 0
    /\ UNCHANGED <<env, alive, io, msg_len_, frame, client_paused, rx_paused_,
                   rx, tx_len, events, poll, delivered>>

StartPayload ==
    /\ pc = "read" /\ ~client_paused /\ HeaderDone
    /\ msg_len_ \in 1..kMaxMessageLen /\ can_fit(msg_len_)
    /\ rx_state_' = "payload"
    /\ have_read_' = 0
    /\ UNCHANGED <<env, alive, io, msg_len_, frame, client_paused, rx_paused_,
                   rx, tx_len, events, poll, delivered>>

PauseForgetsHeader ==
    /\ pc = "read" /\ ~client_paused /\ HeaderDone
    /\ msg_len_ \in 1..kMaxMessageLen /\ ~can_fit(msg_len_)
    /\ client_paused' = TRUE
    /\ rx_paused_' = TRUE
    /\ have_read_' = 0
    /\ pc' = "answer"
    /\ UNCHANGED <<env, alive, ev, eof, rx_state_, msg_len_, frame, rx, tx_len,
                   events, poll, delivered>>

\* The header stays consumed: have_read_ keeps its value for the resumption.
ReadPauses ==
    /\ pc = "read" /\ ~client_paused /\ HeaderDone
    /\ msg_len_ \in 1..kMaxMessageLen /\ ~can_fit(msg_len_)
    /\ client_paused' = TRUE
    /\ rx_paused_' = TRUE
    /\ pc' = "answer"
    /\ UNCHANGED <<env, alive, ev, eof, rx_state_, have_read_, msg_len_, frame,
                   rx, tx_len, events, poll, delivered>>

(***************************************************************************)
(* RxBuffer::advance and, when the payload is whole, message_complete.     *)
(***************************************************************************)
ReadPayload ==
    /\ pc = "read" /\ ~client_paused /\ rx_state_ = "payload" /\ sock # <<>>
    /\ LET n    == SysRead(msg_len_ - have_read_)
           whole == have_read_ + n = msg_len_
       IN
       /\ sock' = SubSeq(sock, n + 1, Len(sock))
       /\ have_read_' = IF whole THEN 0 ELSE have_read_ + n
       /\ rx_state_' = IF whole THEN "header" ELSE "payload"
       /\ len_' = IF whole THEN len_ + n + 1 ELSE len_ + n
       /\ complete_len_' = IF whole THEN len_ + n + 1 ELSE complete_len_
       /\ queue' = IF whole THEN Append(queue, frame) ELSE queue
    /\ UNCHANGED <<sent, pipe, peer, alive, io, msg_len_, frame, client_paused,
                   rx_paused_, tx_len, events, poll, delivered>>

ReadDiscard ==
    /\ pc = "read" /\ ~client_paused /\ rx_state_ = "discard" /\ sock # <<>>
    /\ LET left  == msg_len_ - have_read_
           n     == SysRead(IF left <= kDiscardChunk THEN left
                            ELSE kDiscardChunk)
           whole == have_read_ + n = msg_len_
       IN
       /\ sock' = SubSeq(sock, n + 1, Len(sock))
       /\ have_read_' = IF whole THEN 0 ELSE have_read_ + n
       /\ rx_state_' = IF whole THEN "header" ELSE "discard"
    /\ UNCHANGED <<sent, pipe, peer, alive, io, msg_len_, frame, client_paused,
                   rx_paused_, rx, tx_len, events, poll, delivered>>

\* EAGAIN leaves the loop; end of file and a read error close the connection.
ReadEnds ==
    /\ pc = "read" /\ ~client_paused /\ ~HeaderDone /\ sock = <<>>
    /\ eof' = (peer # "open")
    /\ pc' = "answer"
    /\ UNCHANGED <<env, alive, ev, decoder, rx_paused_, rx, tx_len, events,
                   poll, delivered>>

(***************************************************************************)
(* on_rx_messages: a waiting poll() takes the whole batch, also when the   *)
(* connection is about to be closed.                                       *)
(***************************************************************************)
NothingOnEof ==
    /\ pc = "answer"
    /\ pc' = "flush"
    /\ IF queue # <<>> /\ poll = "pending" /\ ~eof
       THEN drain_queue /\ on_rx_drained /\ poll' = "none"
       ELSE UNCHANGED <<rx, delivered, rx_paused_, client_paused, events, poll>>
    /\ UNCHANGED <<env, alive, ev, eof, rx_state_, have_read_, msg_len_, frame,
                   tx_len>>

on_rx_messages ==
    /\ pc = "answer"
    /\ pc' = "flush"
    /\ IF queue # <<>> /\ poll = "pending"
       THEN drain_queue /\ on_rx_drained /\ poll' = "none"
       ELSE UNCHANGED <<rx, delivered, rx_paused_, client_paused, events, poll>>
    /\ UNCHANGED <<env, alive, ev, eof, rx_state_, have_read_, msg_len_, frame,
                   tx_len>>

(***************************************************************************)
(* The end of handle_io: flush, then close or re-arm.  send(2) takes some  *)
(* bytes of a socket reported writable and fails once the peer is gone.    *)
(* Closing destroys the session: the D-Bus object goes, a pending poll is  *)
(* dropped without a reply.                                                *)
(***************************************************************************)
FinishIo(n) ==
    LET flushes == ev.writable /\ ~eof
        fails   == flushes /\ peer = "closed"
        left    == tx_len - n
        closes  == eof \/ fails \/ (ev.hangup /\ left = 0)
    IN
    /\ pc = "flush"
    /\ n \in IF flushes /\ ~fails THEN 1..tx_len ELSE {0}
    /\ tx_len' = left
    /\ pc' = "idle"
    /\ alive' = ~closes
    /\ poll' = IF closes THEN "none" ELSE poll
    /\ events' = IF closes THEN {} ELSE update_io_events(rx_paused_, left)
    /\ UNCHANGED <<env, ev, eof, decoder, rx_paused_, rx, delivered>>

-----------------------------------------------------------------------------
(***************************************************************************)
(* D-Bus method poll(timeout).                                             *)
(***************************************************************************)
PollDelivers ==
    /\ alive /\ pc = "idle" /\ poll = "none" /\ queue # <<>>
    /\ drain_queue
    /\ on_rx_drained
    /\ UNCHANGED <<env, alive, io, rx_state_, have_read_, msg_len_, frame,
                   tx_len, poll>>

ArmsOverQueue ==
    /\ alive /\ pc = "idle" /\ poll = "none"
    /\ poll' = "pending"
    /\ UNCHANGED <<env, alive, io, decoder, rx_paused_, rx, tx_len, events,
                   delivered>>

PollArms ==
    /\ alive /\ pc = "idle" /\ poll = "none" /\ queue = <<>>
    /\ poll' = "pending"
    /\ UNCHANGED <<env, alive, io, decoder, rx_paused_, rx, tx_len, events,
                   delivered>>

\* Answered at once and nothing kept: a timeout out of range, a second poll
\* while one is pending, an empty queue with timeout 0, a timer that cannot
\* be armed.
PollRefused ==
    /\ alive /\ pc = "idle" /\ (poll = "pending" \/ queue = <<>>)
    /\ UNCHANGED vars

\* The poll timer: an empty array is the answer.
on_timeout ==
    /\ alive /\ pc = "idle" /\ poll = "pending"
    /\ poll' = "none"
    /\ UNCHANGED <<env, alive, io, decoder, rx_paused_, rx, tx_len, events,
                   delivered>>

(***************************************************************************)
(* D-Bus method push(message).  A refused push changes nothing.            *)
(***************************************************************************)
PushForgetsHeader(n) ==
    /\ alive /\ pc = "idle"
    /\ n <= kMaxMessageLen /\ tx_len + n <= TxCap
    /\ tx_len' = tx_len + kHeaderLen + n
    /\ events' = update_io_events(rx_paused_, tx_len')
    /\ UNCHANGED <<env, alive, io, decoder, rx_paused_, rx, poll, delivered>>

handle_push(n) ==
    /\ alive /\ pc = "idle"
    /\ n <= kMaxMessageLen /\ tx_len + kHeaderLen + n <= TxCap
    /\ tx_len' = tx_len + kHeaderLen + n
    /\ events' = update_io_events(rx_paused_, tx_len')
    /\ UNCHANGED <<env, alive, io, decoder, rx_paused_, rx, poll, delivered>>

PushRefused(n) ==
    /\ alive /\ pc = "idle"
    /\ n > kMaxMessageLen \/ tx_len + kHeaderLen + n > TxCap
    /\ UNCHANGED vars

-----------------------------------------------------------------------------
Peer ==
    \/ \E n \in FrameLens : PeerSend(n)
    \/ \E n \in 1..Len(pipe) : Arrive(n)
    \/ \E how \in {"shutwr", "closed"} : PeerEnds(how)

Read ==
    \/ ReadHeader \/ SkipEmptyFrame \/ StartDiscard \/ StartPayload
    \/ ReadPauses \/ ReadPayload \/ ReadDiscard \/ ReadEnds

HandleIo ==
    \/ \E space \in BOOLEAN : IoEvent(space)
    \/ Read
    \/ on_rx_messages
    \/ \E n \in 0..tx_len : FinishIo(n)

Poll == PollDelivers \/ PollArms

Push == \E n \in PushLens : handle_push(n) \/ PushRefused(n)

Next ==
    \/ Peer \/ HandleIo \/ Poll \/ PollRefused \/ on_timeout \/ Push

Spec == Init /\ [][Next]_vars

(***************************************************************************)
(* Fairness.  sd-event dispatches the sources that are ready in the order  *)
(* they became ready, so no callback is starved: the io callback runs once *)
(* ready and runs to its end, and a poll() call that keeps coming back     *)
(* (the loop of clients.ts) is served even if other callbacks run between. *)
(* A peer that started a frame goes on writing it.                         *)
(***************************************************************************)
Fairness ==
    /\ WF_vars(\E n \in 1..Len(pipe) : Arrive(n))
    /\ WF_vars(HandleIo)
    /\ SF_vars(Poll)
    /\ WF_vars(on_timeout)

FairSpec == Spec /\ Fairness

-----------------------------------------------------------------------------
TypeOK ==
    /\ sent \in Seq(FrameLens)
    /\ pipe \in Seq(Byte) /\ sock \in Seq(Byte)
    /\ peer \in {"open", "shutwr", "closed"}
    /\ alive \in BOOLEAN /\ eof \in BOOLEAN
    /\ pc \in {"idle", "read", "answer", "flush"}
    /\ ev \in Event
    /\ rx_state_ \in {"header", "payload", "discard"}
    /\ have_read_ \in Nat /\ msg_len_ \in Nat /\ frame \in 0..Len(sent)
    /\ client_paused \in BOOLEAN /\ rx_paused_ \in BOOLEAN
    /\ len_ \in Nat /\ complete_len_ \in Nat
    /\ queue \in Seq(Nat)
    /\ tx_len \in 0..TxCap
    /\ events \in SUBSET {"in", "out"}
    /\ poll \in {"none", "pending"}
    /\ delivered \in Seq(Nat)

(***************************************************************************)
(* The payload is read straight into the buffer's tail, with the room      *)
(* checked only once, when the header was complete (client.cpp:116).       *)
(* Polls may drain the buffer between two reads of the same payload; still *)
(* the rest of the payload and the separator always fit, and the bytes     *)
(* behind the last complete message are those of the payload being read.   *)
(***************************************************************************)
RxWithinCapacity ==
    /\ 1 <= complete_len_ /\ complete_len_ <= len_ /\ len_ <= RxCap
    /\ rx_state_ = "payload" =>
          /\ have_read_ < msg_len_
          /\ len_ = complete_len_ + have_read_
          /\ len_ + (msg_len_ - have_read_) + 1 <= RxCap
    /\ rx_state_ # "payload" => len_ = complete_len_

(***************************************************************************)
(* Between callbacks the session and the decoder agree on being paused and *)
(* the io source waits for exactly what there is to do: input unless       *)
(* paused, output while bytes are queued (update_io_events is called on    *)
(* every path that changes either).                                        *)
(***************************************************************************)
SourceArmed ==
    alive /\ pc = "idle" =>
        /\ rx_paused_ = client_paused
        /\ "in" \in events <=> ~rx_paused_
        /\ "out" \in events <=> tx_len > 0

(***************************************************************************)
(* Reading is paused only under backpressure: a paused session has a       *)
(* message that the next poll() will drain (PROTOCOL.md, 2.3 rule 4).      *)
(* Without one nothing would ever call rx_resume.                          *)
(***************************************************************************)
PausedOnlyUnderBackpressure ==
    alive /\ client_paused => queue # <<>>

(***************************************************************************)
(* No lost wake-up: between callbacks a poll() never waits while a         *)
(* complete message is in the buffer.                                      *)
(***************************************************************************)
NoLostWakeup ==
    alive /\ pc = "idle" /\ poll = "pending" => queue = <<>>

(***************************************************************************)
(* The decoder keeps in step with the frames: the next byte in the socket  *)
(* is the one its state expects, whatever way the stream was cut and       *)
(* however often it was paused.                                            *)
(***************************************************************************)
InStep ==
    sock # <<>> =>
        LET next == Head(sock) IN
        CASE rx_state_ = "header" /\ have_read_ < kHeaderLen ->
                 next = <<frame + 1, have_read_ + 1>>
          [] rx_state_ = "header" /\ have_read_ = kHeaderLen ->
                 next = IF msg_len_ = 0 THEN <<frame + 1, 1>>
                        ELSE <<frame, kHeaderLen + 1>>
          [] OTHER -> next = <<frame, kHeaderLen + have_read_ + 1>>

Legal(f) == sent[f] \in 1..kMaxMessageLen

(***************************************************************************)
(* poll() returns the legal frames, each once and in the order they were   *)
(* sent; zero-length and oversized frames between them leave no trace.     *)
(***************************************************************************)
InOrder ==
    LET all == delivered \o queue IN
    /\ \A i, j \in 1..Len(all) : i < j => all[i] < all[j]
    /\ \E n \in 0..Len(sent) :
          {all[i] : i \in 1..Len(all)} = {f \in 1..n : Legal(f)}

(***************************************************************************)
(* Where the i-th queued message ends in the buffer: '[', then a payload   *)
(* and one separator for each message up to it.                            *)
(***************************************************************************)
MessageEnd[i \in 0..Len(queue)] ==
    IF i = 0 THEN 1 ELSE MessageEnd[i - 1] + sent[queue[i]] + 1

(***************************************************************************)
(* The length up to which poll() cuts the buffer is the end of the last    *)
(* queued message: a batch is a whole number of messages, never part of    *)
(* the one being read.                                                     *)
(***************************************************************************)
BatchIsWhole == complete_len_ = MessageEnd[Len(queue)]

(***************************************************************************)
(* A session that is destroyed drops a waiting poll() only if it had       *)
(* nothing to return (handle_io answers before it closes).                 *)
(***************************************************************************)
CloseAnswersFirst ==
    [][alive /\ ~alive' /\ poll = "pending" => queue = <<>>]_vars

(***************************************************************************)
(* Every legal frame that was sent reaches the script, if it keeps polling *)
(* and neither side ends the connection: no pause, cut of the stream or    *)
(* discarded frame strands it.                                             *)
(***************************************************************************)
Delivered(i) == \E j \in 1..Len(delivered) : delivered[j] = i

EveryFrameDelivered ==
    \A i \in 1..MaxFrames :
        (Len(sent) >= i /\ Legal(i))
            ~> (Delivered(i) \/ peer # "open")
=============================================================================
