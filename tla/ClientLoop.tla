----------------------------- MODULE ClientLoop -----------------------------
(***************************************************************************)
(* One client from end to end: the frames it sends, their way through      *)
(* /cli{id} poll() to the client's loop in the script (ClientConnection in *)
(* clients.ts, pollClient and callDBusAsync in dbus.ts), the dispatch of   *)
(* each message (jsonrpc.ts), and the responses that push() brings back.   *)
(*                                                                         *)
(* Session has the daemon's side in detail; here the read buffer is the    *)
(* list of the frames in it and D-Bus handlers are atomic.  Calls and      *)
(* answers travel in order.  A call is "live" while the script waits for   *)
(* its answer.  callDBus calls back only on success, so a call of an       *)
(* object that is gone is never answered.                                  *)
(*                                                                         *)
(* A message is one of a few kinds, see Ids.                               *)
(***************************************************************************)
EXTENDS Integers, Sequences, SequencesExt, FiniteSets

CONSTANTS
    Kinds,          \* the kinds of messages the client sends
    TxCap,          \* responses the write buffer holds
    MaxFrames,      \* bound: frames the client sends
    MaxTimeouts     \* bound: calls given up although they will be answered

ASSUME ClientLoopAssumption ==
    /\ Kinds \subseteq {"call", "silent", "mixed", "throws", "garbage"}
    /\ TxCap \in Nat /\ MaxFrames \in Nat /\ MaxTimeouts \in Nat

VARIABLES
    sent,       \* the kinds of the frames sent; a frame is its number
    session,    \* "open" or "closed"
    queue,      \* frames in the daemon's read buffer
    armed,      \* the deferred poll: "none", "live" or "stale"
    bus,        \* calls on their way to the daemon
    answers,    \* answers to polls on their way to the script
    loop,       \* where the client's loop is in run()
    batch,      \* messages of the last answer not yet dispatched
    alive,      \* ClientConnection.alive
    tx,         \* responses in the write buffer
    got,        \* responses the client has read
    ran,        \* history: messages whose methods ran, in order
    lost,       \* history: messages that never reach a method
    refused,    \* history: messages whose response was refused
    timeouts    \* history: calls given up early

daemon == <<session, queue, armed, tx>>
script == <<loop, batch, alive>>
history == <<ran, lost, refused, timeouts>>
vars == <<sent, daemon, bus, answers, script, got, history>>

Poll(live) == [op |-> "poll", live |-> live]
Push(f) == [op |-> "push", frame |-> f]

Init ==
    /\ sent = <<>> /\ session = "open" /\ queue = <<>> /\ armed = "none"
    /\ bus = <<>> /\ answers = <<>>
    /\ loop = "call" /\ batch = <<>> /\ alive = TRUE
    /\ tx = <<>> /\ got = <<>>
    /\ ran = <<>> /\ lost = {} /\ refused = {} /\ timeouts = 0

-----------------------------------------------------------------------------
(***************************************************************************)
(* Messages: a request with an id, one without an answer (id null, or no   *)
(* id), a batch of both, JSON that the server throws on, and a payload     *)
(* that is not JSON.                                                       *)
(***************************************************************************)
Ids(f) == CASE sent[f] = "call" -> <<"id">>
            [] sent[f] = "mixed" -> <<"null", "id", "none">>
            [] sent[f] = "silent" -> <<"null">>
            [] OTHER -> <<>>

KeepsNull(f) == {i \in 1..Len(Ids(f)) : Ids(f)[i] # "none"}

\* dispatchMessage: the requests of f whose responses are sent, together.
Kept(f) == {i \in 1..Len(Ids(f)) : Ids(f)[i] = "id"}

IsJson(frames) == \A i \in 1..Len(frames) : sent[frames[i]] # "garbage"

-----------------------------------------------------------------------------
(***************************************************************************)
(* The client and the daemon.                                              *)
(***************************************************************************)
Answer(live, frames) ==
    answers' = Append(answers, [live |-> live, ok |-> TRUE, frames |-> frames])

\* The error "a poll is already pending".
AnswerPending(live) ==
    answers' = Append(answers, [live |-> live, ok |-> FALSE, frames |-> <<>>])

\* A frame is complete: on_rx_messages answers the deferred poll.
FrameArrives(kind) ==
    LET f == Len(sent) + 1 IN
    /\ session = "open" /\ Len(sent) < MaxFrames
    /\ sent' = Append(sent, kind)
    /\ IF armed = "none" THEN /\ queue' = Append(queue, f)
                              /\ UNCHANGED <<armed, answers>>
       ELSE /\ armed' = "none" /\ Answer(armed = "live", <<f>>)
            /\ UNCHANGED queue
    /\ UNCHANGED <<session, tx, bus, script, got, history>>

PollExpires ==
    /\ armed # "none"
    /\ armed' = "none" /\ Answer(armed = "live", <<>>)
    /\ UNCHANGED <<sent, session, queue, tx, bus, script, got, history>>

PollKeepsBuffer ==
    /\ bus # <<>> /\ Head(bus).op = "poll"
    /\ bus' = Tail(bus)
    /\ session = "open" /\ armed = "none" /\ queue # <<>>
    /\ Answer(Head(bus).live, queue)
    /\ UNCHANGED <<queue, armed, sent, session, tx, script, got, history>>

\* handle_poll.  A call of an object that is gone has no effect.
handle_poll ==
    /\ bus # <<>> /\ Head(bus).op = "poll"
    /\ bus' = Tail(bus)
    /\ \/ /\ session = "closed"
          /\ UNCHANGED <<queue, armed, answers>>
       \/ /\ session = "open" /\ armed # "none"
          /\ AnswerPending(Head(bus).live)
          /\ UNCHANGED <<queue, armed>>
       \/ /\ session = "open" /\ armed = "none" /\ queue # <<>>
          /\ Answer(Head(bus).live, queue)
          /\ queue' = <<>> /\ UNCHANGED armed
       \/ /\ session = "open" /\ armed = "none" /\ queue = <<>>
          /\ armed' = IF Head(bus).live THEN "live" ELSE "stale"
          /\ UNCHANGED <<queue, answers>>
    /\ UNCHANGED <<sent, session, tx, script, got, history>>

\* handle_push: the script only logs a refusal.
handle_push ==
    /\ bus # <<>> /\ Head(bus).op = "push"
    /\ bus' = Tail(bus)
    /\ IF session = "open" /\ Len(tx) < TxCap
       THEN tx' = Append(tx, Head(bus).frame) /\ UNCHANGED refused
       ELSE refused' = refused \cup {Head(bus).frame} /\ UNCHANGED tx
    /\ UNCHANGED <<sent, session, queue, armed, answers, script, got,
                   ran, lost, timeouts>>

ClientReads ==
    /\ tx # <<>>
    /\ tx' = Tail(tx) /\ got' = Append(got, Head(tx))
    /\ UNCHANGED <<sent, session, queue, armed, bus, answers, script, history>>

\* The session goes with its buffers, the deferred poll without an answer.
Closes ==
    /\ session = "open"
    /\ session' = "closed"
    /\ queue' = <<>> /\ armed' = "none" /\ tx' = <<>>
    /\ lost' = lost \cup ToSet(queue)
    /\ UNCHANGED <<sent, bus, answers, script, got, ran, refused, timeouts>>

-----------------------------------------------------------------------------
(***************************************************************************)
(* The script: run() of the client's connection.                           *)
(***************************************************************************)
\* The poll of a client that has left is the last one.
RunPolls ==
    /\ loop = "call"
    /\ IF alive THEN loop' = "wait" /\ bus' = Append(bus, Poll(TRUE))
       ELSE loop' = "done" /\ UNCHANGED bus
    /\ UNCHANGED <<sent, daemon, answers, batch, alive, got, history>>

\* The answer of a call that was given up settles nothing.
LateAnswer ==
    /\ answers # <<>> /\ ~Head(answers).live
    /\ answers' = Tail(answers)
    /\ lost' = lost \cup ToSet(Head(answers).frames)
    /\ UNCHANGED <<sent, daemon, bus, script, got, ran, refused, timeouts>>

\* JSON.parse throws on a batch with a payload that is not JSON.
RunGetsAnswer ==
    /\ answers # <<>> /\ Head(answers).live /\ loop = "wait"
    /\ answers' = Tail(answers)
    /\ LET value == Head(answers) IN
       IF alive /\ value.ok /\ IsJson(value.frames)
       THEN loop' = "dispatch" /\ batch' = value.frames /\ UNCHANGED lost
       ELSE /\ loop' = IF alive THEN "sleep" ELSE "done"
            /\ lost' = lost \cup ToSet(value.frames)
            /\ UNCHANGED batch
    /\ UNCHANGED <<sent, daemon, bus, alive, got, ran, refused, timeouts>>

StopsOnError ==
    /\ loop = "dispatch" /\ batch # <<>>
    /\ batch' = IF sent[Head(batch)] = "throws" THEN <<>> ELSE Tail(batch)
    /\ ran' = Append(ran, Head(batch))
    /\ bus' = IF Kept(Head(batch)) = {} THEN bus
              ELSE Append(bus, Push(Head(batch)))
    /\ UNCHANGED <<sent, daemon, answers, loop, alive, got, lost, refused, timeouts>>

\* One message, awaited; an exception is logged and the next one follows.
RunDispatches ==
    /\ loop = "dispatch" /\ batch # <<>>
    /\ batch' = Tail(batch)
    /\ ran' = Append(ran, Head(batch))
    /\ bus' = IF Kept(Head(batch)) = {} THEN bus
              ELSE Append(bus, Push(Head(batch)))
    /\ UNCHANGED <<sent, daemon, answers, loop, alive, got, lost, refused, timeouts>>

\* sleep(0) between batches, sleep(DBUS_RETRY_DELAY) after an error.
RunSleeps ==
    \/ loop = "dispatch" /\ batch = <<>> /\ loop' = "sleep"
    \/ loop = "sleep" /\ loop' = "call"

Sleeps == RunSleeps /\ UNCHANGED <<sent, daemon, bus, answers, batch, alive, got, history>>

\* onClientDisconnected stops the connection.
Disconnected ==
    /\ session = "closed" /\ alive
    /\ alive' = FALSE
    /\ UNCHANGED <<sent, daemon, bus, answers, loop, batch, got, history>>

\* The call the loop waits for can still be answered.
Underway ==
    \/ Poll(TRUE) \in ToSet(bus)
    \/ armed = "live"
    \/ \E i \in 1..Len(answers) : answers[i].live

NoRetry ==
    /\ loop = "wait"
    /\ Underway => timeouts < MaxTimeouts
    /\ timeouts' = IF Underway THEN timeouts + 1 ELSE timeouts
    /\ loop' = "done"
    /\ UNCHANGED <<sent, daemon, bus, answers, batch, alive, got, ran, lost, refused>>

NoTimer ==
    /\ loop = "wait" /\ ~alive /\ Underway
    /\ loop' = "done"
    /\ UNCHANGED <<sent, daemon, bus, answers, batch, alive, got, history>>

(***************************************************************************)
(* callDBusAsync: the timer of the call fires first.  What becomes of the  *)
(* call no longer concerns the script.                                     *)
(***************************************************************************)
CallTimesOut ==
    /\ loop = "wait"
    /\ Underway => timeouts < MaxTimeouts
    /\ timeouts' = IF Underway THEN timeouts + 1 ELSE timeouts
    /\ bus' = [i \in 1..Len(bus) |-> IF bus[i].op = "poll" THEN Poll(FALSE) ELSE bus[i]]
    /\ armed' = IF armed = "live" THEN "stale" ELSE armed
    /\ answers' = [i \in 1..Len(answers) |-> [answers[i] EXCEPT !.live = FALSE]]
    /\ loop' = IF alive THEN "sleep" ELSE "done"
    /\ UNCHANGED <<sent, session, queue, tx, batch, alive, got, ran, lost, refused>>

-----------------------------------------------------------------------------
Daemon == handle_poll \/ handle_push \/ PollExpires

Script ==
    \/ RunPolls \/ RunGetsAnswer \/ LateAnswer \/ RunDispatches \/ Sleeps
    \/ Disconnected \/ CallTimesOut

Next ==
    \/ \E kind \in Kinds : FrameArrives(kind)
    \/ ClientReads \/ Closes
    \/ Daemon \/ Script

\* sd-event serves the bus and the timers, KWin the answers and its QTimers.
Fairness ==
    /\ WF_vars(handle_poll) /\ WF_vars(handle_push) /\ WF_vars(PollExpires)
    /\ WF_vars(RunPolls) /\ WF_vars(RunGetsAnswer) /\ WF_vars(LateAnswer)
    /\ WF_vars(RunDispatches) /\ WF_vars(Sleeps)
    /\ WF_vars(CallTimesOut /\ ~Underway)

Spec == Init /\ [][Next]_vars /\ Fairness

-----------------------------------------------------------------------------
Frames == 1..MaxFrames

\* The places of the bus that hold a response.
Pushes == {i \in 1..Len(bus) : bus[i].op = "push"}

Increasing(s) == \A i, j \in 1..Len(s) : i < j => s[i] < s[j]

(***************************************************************************)
(* The methods run at most once for each message and in the order in which *)
(* the client sent them, whatever polls are given up, refused or answered  *)
(* late (clients.ts awaits each message; the daemon drains its buffer).    *)
(***************************************************************************)
EffectsInOrder == Increasing(ran \o batch \o queue)

(***************************************************************************)
(* The client reads responses in the order of its requests, at most one    *)
(* for each, and only to requests with an id whose methods have run.       *)
(***************************************************************************)
ResponsesInOrder ==
    /\ Increasing(got \o tx)
    /\ \A i \in Pushes :
          /\ \A f \in ToSet(got) \cup ToSet(tx) : f < bus[i].frame
          /\ \A j \in Pushes : i < j => bus[i].frame < bus[j].frame
    /\ \A f \in ToSet(got) \cup ToSet(tx) \cup {bus[i].frame : i \in Pushes} :
          f \in ToSet(ran) /\ sent[f] \in {"call", "mixed"}

Answering == UNION {ToSet(answers[i].frames) : i \in 1..Len(answers)}

(***************************************************************************)
(* No message disappears without a cause: one that is not in the read      *)
(* buffer, in an answer or in the loop's hands has been dispatched, unless *)
(* its answer came late, did not parse, or the client had left.            *)
(***************************************************************************)
NoneVanishes ==
    1..Len(sent) = ToSet(ran) \cup ToSet(batch) \cup ToSet(queue) \cup Answering \cup lost

HasResponse(f) == f \in ToSet(got \o tx)

(***************************************************************************)
(* Every request with an id is answered: its response reaches the write    *)
(* buffer unless the message was lost, the buffer was full, or the client  *)
(* has left.  The loop survives time-outs, errors and exceptions.          *)
(***************************************************************************)
EveryCallAnswered ==
    \A f \in Frames :
        (f \in 1..Len(sent) /\ sent[f] \in {"call", "mixed"})
            ~> (HasResponse(f) \/ f \in lost \cup refused \/ session = "closed")

(***************************************************************************)
(* The loop of a client ends once the script has learnt that it has left,  *)
(* although the poll the loop waits for is never answered.                 *)
(***************************************************************************)
LoopEnds == ~alive ~> loop = "done"

(***************************************************************************)
(* doc/RPC.md, 1: "Requests from a client are dispatched by the script's   *)
(* shared JSON-RPC server", and an "unparseable frame payload" has a "Parse *)
(* error".  So while the client is connected and no call is given up, only *)
(* what does not parse fails to be dispatched.                             *)
(***************************************************************************)
RequestsDispatched ==
    session = "open" /\ timeouts = 0 => \A f \in lost : sent[f] = "garbage"
=============================================================================
