----------------------------- MODULE NativeHost -----------------------------
(***************************************************************************)
(* The native messaging host (native/kwin-api-host.py): one loop that      *)
(* forwards frames from the browser's pipe to the daemon's socket and      *)
(* back.  Both use the same framing, so a direction is named after the     *)
(* peer it comes from.  A byte is <<f, k>>, the k-th byte of the f-th      *)
(* frame of its direction.                                                 *)
(*                                                                         *)
(* sendall and write block: while a frame is being written the host reads  *)
(* from neither side.                                                      *)
(***************************************************************************)
EXTENDS Integers, Sequences, SequencesExt

CONSTANTS
    HeaderLen,      \* bytes of a length header, 4 in the code
    MAX_MESSAGE,    \* longest legal payload
    Lens,           \* bound: payload lengths the peers use
    MaxFrames       \* bound: frames in each direction

ASSUME NativeHostAssumption ==
    /\ HeaderLen \in Nat \ {0} /\ MAX_MESSAGE \in Nat /\ Lens \subseteq Nat
    /\ MaxFrames \in Nat

Peers == {"firefox", "daemon"}
Other(d) == CHOOSE e \in Peers : e # d

VARIABLES
    lens,       \* the payload lengths of the frames each peer has written
    wire,       \* bytes on their way to the host
    buf,        \* from_firefox, from_daemon
    pc,         \* "select", or the direction whose buffer is being emptied
    sending,    \* the rest of the frame that is being written
    out,        \* bytes the kernel has taken for the other peer
    blocked,    \* the other peer reads too slowly: a write has to wait
    closed,     \* the peer has closed its end
    code,       \* "running", or how it ended: exit code 0 or 1
    written     \* history: the bytes of those frames

vars == <<lens, wire, buf, pc, sending, out, blocked, closed, code, written>>

\* pack_frame: the bytes of frame f of payload length n.
pack_frame(f, n) == [k \in 1..(HeaderLen + n) |-> <<f, k>>]

Init ==
    /\ lens = [d \in Peers |-> <<>>] /\ wire = [d \in Peers |-> <<>>]
    /\ buf = [d \in Peers |-> <<>>] /\ out = [d \in Peers |-> <<>>]
    /\ pc = "select" /\ sending = <<>>
    /\ blocked = [d \in Peers |-> FALSE] /\ closed = [d \in Peers |-> FALSE]
    /\ code = "running" /\ written = [d \in Peers |-> <<>>]

-----------------------------------------------------------------------------
(***************************************************************************)
(* The peers.                                                              *)
(***************************************************************************)
PeerWrites(d, n) ==
    LET f == Len(lens[d]) + 1 IN
    /\ ~closed[d] /\ f <= MaxFrames
    /\ lens' = [lens EXCEPT ![d] = Append(@, n)]
    /\ wire' = [wire EXCEPT ![d] = @ \o pack_frame(f, n)]
    /\ written' = [written EXCEPT ![d] = @ \o pack_frame(f, n)]
    /\ UNCHANGED <<buf, pc, sending, out, blocked, closed, code>>

\* The peer that direction d goes to has read something.
PeerReads(d) ==
    /\ blocked[d]
    /\ blocked' = [blocked EXCEPT ![d] = FALSE]
    /\ UNCHANGED <<lens, wire, buf, pc, sending, out, closed, code, written>>

PeerCloses(d) ==
    /\ ~closed[d]
    /\ closed' = [closed EXCEPT ![d] = TRUE]
    /\ UNCHANGED <<lens, wire, buf, pc, sending, out, blocked, code, written>>

-----------------------------------------------------------------------------
(***************************************************************************)
(* bridge().                                                               *)
(***************************************************************************)
\* os.read, sock.recv: part of what is there.
HostReads(d) ==
    /\ code = "running" /\ pc = "select" /\ wire[d] # <<>>
    /\ \E k \in 1..Len(wire[d]) :
         /\ buf' = [buf EXCEPT ![d] = @ \o SubSeq(wire[d], 1, k)]
         /\ wire' = [wire EXCEPT ![d] = SubSeq(@, k + 1, Len(@))]
    /\ pc' = d
    /\ UNCHANGED <<lens, sending, out, blocked, closed, code, written>>

HostEof(d) ==
    /\ code = "running" /\ pc = "select" /\ wire[d] = <<>> /\ closed[d]
    /\ code' = "clean"
    /\ UNCHANGED <<lens, wire, buf, pc, sending, out, blocked, closed, written>>

\* The length of the frame that the buffer starts with, header included.
FrameLen(d) == HeaderLen + lens[d][buf[d][1][1]]

HasHeader(d) == Len(buf[d]) >= HeaderLen

TooLarge(d) == HasHeader(d) /\ FrameLen(d) > HeaderLen + MAX_MESSAGE

HasMore(d) == HasHeader(d) /\ Len(buf[d]) > FrameLen(d)

HasFrame(d) == HasHeader(d) /\ Len(buf[d]) >= FrameLen(d)

TakeAll(d) ==
    /\ sending' = SubSeq(buf[d], 1, FrameLen(d))
    /\ buf' = [buf EXCEPT ![d] = <<>>]

Take(d) ==
    /\ sending' = SubSeq(buf[d], 1, FrameLen(d))
    /\ buf' = [buf EXCEPT ![d] = SubSeq(@, FrameLen(d) + 1, Len(@))]

\* One round of the inner loop, until the buffer holds no whole frame.
extract_frame(d) ==
    /\ code = "running" /\ pc = d /\ sending = <<>>
    /\ IF TooLarge(d) THEN code' = "failure" /\ UNCHANGED <<pc, sending, buf>>
       ELSE IF HasFrame(d) THEN Take(d) /\ UNCHANGED <<pc, code>>
       ELSE pc' = "select" /\ UNCHANGED <<code, sending, buf>>
    /\ UNCHANGED <<lens, wire, out, blocked, closed, written>>

SendsOnce(d) ==
    /\ code = "running" /\ pc = d /\ sending # <<>>
    /\ ~blocked[d] /\ ~closed[Other(d)]
    /\ \E k \in 1..Len(sending) :
         out' = [out EXCEPT ![d] = @ \o SubSeq(sending, 1, k)]
    /\ sending' = <<>>
    /\ blocked' \in {blocked, [blocked EXCEPT ![d] = TRUE]}
    /\ UNCHANGED <<lens, wire, buf, pc, closed, code, written>>

\* sock.sendall, stdout.write: the kernel takes some of the bytes.
HostWrites(d) ==
    /\ code = "running" /\ pc = d /\ sending # <<>>
    /\ ~blocked[d] /\ ~closed[Other(d)]
    /\ \E k \in 1..Len(sending) :
         /\ out' = [out EXCEPT ![d] = @ \o SubSeq(sending, 1, k)]
         /\ sending' = SubSeq(sending, k + 1, Len(sending))
    /\ blocked' \in {blocked, [blocked EXCEPT ![d] = TRUE]}
    /\ UNCHANGED <<lens, wire, buf, pc, closed, code, written>>

\* BrokenPipeError, ConnectionResetError.
WriteFails(d) ==
    /\ code = "running" /\ pc = d /\ sending # <<>> /\ closed[Other(d)]
    /\ code' = "clean"
    /\ UNCHANGED <<lens, wire, buf, pc, sending, out, blocked, closed, written>>

-----------------------------------------------------------------------------
Next ==
    \E d \in Peers :
        \/ \E n \in Lens : PeerWrites(d, n)
        \/ PeerReads(d) \/ PeerCloses(d)
        \/ HostReads(d) \/ HostEof(d) \/ extract_frame(d)
        \/ HostWrites(d) \/ WriteFails(d)

(***************************************************************************)
(* select() returns every side that is ready and the loop serves each of   *)
(* them (strong, as the other side is served in between).  A peer reads in *)
(* the end, whatever the host does.                                        *)
(***************************************************************************)
Fairness ==
    \A d \in Peers :
        /\ SF_vars(HostReads(d)) /\ WF_vars(extract_frame(d))
        /\ WF_vars(HostWrites(d)) /\ WF_vars(PeerReads(d))
        /\ WF_vars(WriteFails(d))

Spec == Init /\ [][Next]_vars /\ Fairness

-----------------------------------------------------------------------------
\* The last byte of frame n of direction d, and that s ends with frame n.
LastByte(d, n) == <<n, HeaderLen + lens[d][n]>>

EndsWith(s, d, n) == IF n = 0 THEN s = <<>>
                     ELSE s # <<>> /\ s[Len(s)] = LastByte(d, n)

(***************************************************************************)
(* The host neither loses, repeats, reorders nor changes a byte, however   *)
(* the streams are cut by reads and writes (bridge, extract_frame).        *)
(***************************************************************************)
Verbatim ==
    \A d \in Peers :
        out[d] \o (IF pc = d THEN sending ELSE <<>>) \o buf[d] \o wire[d]
            = written[d]

(***************************************************************************)
(* Whenever the host waits in select() each side has been sent whole       *)
(* frames, all legal, and no whole frame is left in a buffer, where        *)
(* nothing would wake the host for it.  (With Verbatim, bytes that end     *)
(* with frame n are the first n frames.)                                   *)
(***************************************************************************)
WholeFrames ==
    code = "running" /\ pc = "select" =>
        \A d \in Peers :
            \E n \in 0..Len(lens[d]) :
                /\ EndsWith(out[d], d, n)
                /\ \A f \in 1..n : lens[d][f] <= MAX_MESSAGE
                /\ n < Len(lens[d]) =>
                      Len(buf[d]) < HeaderLen + lens[d][n + 1]

Legal(d, n) == n <= Len(lens[d]) /\ \A f \in 1..n : lens[d][f] <= MAX_MESSAGE

\* The host has exited for one of the two reasons it has.
ExitsWithCause ==
    \/ code = "clean" /\ \E d \in Peers : closed[d]
    \/ code = "failure" /\ \E d \in Peers : ~Legal(d, Len(lens[d]))

(***************************************************************************)
(* A frame behind no oversized one reaches the other peer, unless a peer   *)
(* has left or sent an oversized frame: a direction is not starved by the  *)
(* other, a slow reader only delays both, and frames that follow each      *)
(* other closely are not mistaken for a long one.                          *)
(***************************************************************************)
EveryFrameForwarded ==
    \A d \in Peers, n \in 1..MaxFrames :
        Legal(d, n) ~> \/ ExitsWithCause
                       \/ Legal(d, n) /\ LastByte(d, n) \in ToSet(out[d])
=============================================================================
