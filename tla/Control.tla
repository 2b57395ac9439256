------------------------------ MODULE Control ------------------------------
(***************************************************************************)
(* How the KWin script learns which clients are connected: the daemon's    *)
(* server accepts and loses them (server.cpp), queues an event for each on *)
(* the /daemon object (daemon_dbus_object.cpp), and the script's control   *)
(* loop polls that object and keeps its own map of connections             *)
(* (clients.ts, dbus.ts).                                                  *)
(*                                                                         *)
(* The bus delivers in order but may be slow, so the script's wrapper      *)
(* timer (POLL_CALL_TIMEOUT_MS) can expire at any point of a call.  What   *)
(* belongs to the abandoned call is then no longer "live": its answer is   *)
(* ignored when it comes, with the events in it.                           *)
(***************************************************************************)
EXTENDS Integers, Sequences, FiniteSets

CONSTANTS
    max_clients_,   \* KWIN_MAX_CLIENTS
    QueueCap,       \* control events that fit in the queue of /daemon
    MaxId,          \* bound: client ids handed out
    MaxTimeouts     \* bound: wrapper time-outs

ASSUME ControlAssumption ==
    /\ max_clients_ \in Nat /\ QueueCap \in Nat \ {0}
    /\ MaxId \in Nat /\ MaxTimeouts \in Nat

VARIABLES
    backlog,        \* connections accept4 has yet to return
    next_id_,       \* the id of the next client
    sessions_,      \* the ids of the connected clients
    control_queue_, \* the events of /daemon, oldest first
    poll_,          \* PollWaiter of /daemon: "none", "live" or "stale"
    requests,       \* poll() calls on their way to the daemon: live or not
    replies,        \* answers on their way to the script
    loop,           \* startControlLoop: about to "call", "wait" or "sleep"
    connections,    \* the script's map, by id
    lost,           \* history: ids of which an event was dropped
    timeouts

daemon == <<backlog, next_id_, sessions_>>
vars == <<daemon, control_queue_, poll_, requests, replies, loop, connections,
          lost, timeouts>>

Id == 1..MaxId

Event == [event : {"client_connected", "client_disconnected"}, id : Id]

Connected(id) == [event |-> "client_connected", id |-> id]
Disconnected(id) == [event |-> "client_disconnected", id |-> id]

\* An answer is a batch of events or the string "error: a poll is already
\* pending".
Batch(poll, events) == [live |-> (poll = "live"), ok |-> TRUE, events |-> events]
Busy(live) == [live |-> live, ok |-> FALSE, events |-> <<>>]

IdsOf(events) == {events[i].id : i \in 1..Len(events)}

Init ==
    /\ backlog = 0 /\ next_id_ = 1 /\ sessions_ = {}
    /\ control_queue_ = <<>> /\ poll_ = "none"
    /\ requests = <<>> /\ replies = <<>>
    /\ loop = "call" /\ connections = {}
    /\ lost = {} /\ timeouts = 0

-----------------------------------------------------------------------------
(***************************************************************************)
(* enqueue_control: a full queue drops the event; a waiting poll takes the *)
(* whole queue.                                                            *)
(***************************************************************************)
OverfillsQueue(e) ==
    LET queue == Append(control_queue_, e) IN
    IF Len(control_queue_) > QueueCap
    THEN /\ lost' = lost \cup {e.id}
         /\ UNCHANGED <<control_queue_, poll_, replies>>
    ELSE /\ IF poll_ = "none"
            THEN control_queue_' = queue /\ UNCHANGED <<poll_, replies>>
            ELSE /\ replies' = Append(replies, Batch(poll_, queue))
                 /\ control_queue_' = <<>> /\ poll_' = "none"
         /\ UNCHANGED lost

enqueue_control(e) ==
    LET queue == Append(control_queue_, e) IN
    IF Len(control_queue_) = QueueCap
    THEN /\ lost' = lost \cup {e.id}
         /\ UNCHANGED <<control_queue_, poll_, replies>>
    ELSE /\ IF poll_ = "none"
            THEN control_queue_' = queue /\ UNCHANGED <<poll_, replies>>
            ELSE /\ replies' = Append(replies, Batch(poll_, queue))
                 /\ control_queue_' = <<>> /\ poll_' = "none"
         /\ UNCHANGED lost

(***************************************************************************)
(* Server.  accept_clients takes the connections of one wake-up one by     *)
(* one, which is as if each had come alone.                                *)
(***************************************************************************)
PeerConnects ==
    /\ next_id_ + backlog <= MaxId
    /\ backlog' = backlog + 1
    /\ UNCHANGED <<next_id_, sessions_, control_queue_, poll_, requests,
                   replies, loop, connections, lost, timeouts>>

accept_clients ==
    /\ backlog > 0 /\ Cardinality(sessions_) < max_clients_
    /\ backlog' = backlog - 1
    /\ next_id_' = next_id_ + 1
    /\ sessions_' = sessions_ \cup {next_id_}
    /\ enqueue_control(Connected(next_id_))
    /\ UNCHANGED <<requests, loop, connections, timeouts>>

\* !session->ok(): the id is used up, nothing is announced.
SetupFails ==
    /\ backlog > 0 /\ Cardinality(sessions_) < max_clients_
    /\ backlog' = backlog - 1
    /\ next_id_' = next_id_ + 1
    /\ UNCHANGED <<sessions_, control_queue_, poll_, requests, replies, loop,
                   connections, lost, timeouts>>

AcceptRejects ==
    /\ backlog > 0 /\ Cardinality(sessions_) >= max_clients_
    /\ backlog' = backlog - 1
    /\ UNCHANGED <<next_id_, sessions_, control_queue_, poll_, requests,
                   replies, loop, connections, lost, timeouts>>

on_client_disconnected(id) ==
    /\ id \in sessions_
    /\ sessions_' = sessions_ \ {id}
    /\ enqueue_control(Disconnected(id))
    /\ UNCHANGED <<backlog, next_id_, requests, loop, connections, timeouts>>

-----------------------------------------------------------------------------
(***************************************************************************)
(* /daemon.                                                                *)
(***************************************************************************)
handle_poll ==
    LET live == Head(requests)
        who  == IF live THEN "live" ELSE "stale"
    IN
    /\ requests # <<>>
    /\ requests' = Tail(requests)
    /\ \/ /\ poll_ # "none"
          /\ replies' = Append(replies, Busy(live))
          /\ UNCHANGED <<control_queue_, poll_>>
       \/ /\ poll_ = "none" /\ control_queue_ # <<>>
          /\ replies' = Append(replies, Batch(who, control_queue_))
          /\ control_queue_' = <<>>
          /\ UNCHANGED poll_
       \/ /\ poll_ = "none" /\ control_queue_ = <<>>
          /\ poll_' = who
          /\ UNCHANGED <<control_queue_, replies>>
    /\ UNCHANGED <<daemon, loop, connections, lost, timeouts>>

TimerWithoutReply ==
    /\ poll_ # "none"
    /\ poll_' = "none"
    /\ UNCHANGED <<daemon, control_queue_, requests, replies, loop, connections,
                   lost, timeouts>>

on_timeout ==
    /\ poll_ # "none"
    /\ replies' = Append(replies, Batch(poll_, <<>>))
    /\ poll_' = "none"
    /\ UNCHANGED <<daemon, control_queue_, requests, loop, connections, lost,
                   timeouts>>

-----------------------------------------------------------------------------
(***************************************************************************)
(* The script.                                                             *)
(***************************************************************************)
pollDaemon ==
    /\ loop = "call"
    /\ requests' = Append(requests, TRUE)
    /\ loop' = "wait"
    /\ UNCHANGED <<daemon, control_queue_, poll_, replies, connections, lost,
                   timeouts>>

(***************************************************************************)
(* The events of a batch, in order: onClientConnected adds the id unless   *)
(* it is there, onClientDisconnected removes it if it is there.  So the    *)
(* last event about an id decides.                                         *)
(***************************************************************************)
FirstEventDecides(events) ==
    {id \in Id :
        LET about == {i \in 1..Len(events) : events[i].id = id} IN
        IF about = {} THEN id \in connections
        ELSE \E i \in about : /\ \A j \in about : i <= j
                              /\ events[i] = Connected(id)}

Applied(events) ==
    {id \in Id :
        LET about == {i \in 1..Len(events) : events[i].id = id} IN
        IF about = {} THEN id \in connections
        ELSE \E i \in about : /\ \A j \in about : j <= i
                              /\ events[i] = Connected(id)}

\* The answer the loop awaits; a string makes it back off.
Answered ==
    /\ replies # <<>> /\ Head(replies).live
    /\ replies' = Tail(replies)
    /\ connections' = Applied(Head(replies).events)
    /\ loop' = IF Head(replies).ok THEN "call" ELSE "sleep"
    /\ UNCHANGED <<daemon, control_queue_, poll_, requests, lost, timeouts>>

\* The promise was rejected already: resolve() has no effect.
LateAnswer ==
    /\ replies # <<>> /\ ~Head(replies).live
    /\ replies' = Tail(replies)
    /\ lost' = lost \cup IdsOf(Head(replies).events)
    /\ UNCHANGED <<daemon, control_queue_, poll_, requests, loop, connections,
                   timeouts>>

\* The wrapper timer rejects the promise of the call that is under way.
CallTimesOut ==
    /\ loop = "wait" /\ timeouts < MaxTimeouts
    /\ timeouts' = timeouts + 1
    /\ loop' = "sleep"
    /\ requests' = [i \in 1..Len(requests) |-> FALSE]
    /\ poll_' = IF poll_ = "none" THEN "none" ELSE "stale"
    /\ replies' = [i \in 1..Len(replies) |-> [replies[i] EXCEPT !.live = FALSE]]
    /\ UNCHANGED <<daemon, control_queue_, connections, lost>>

NoRetry ==
    /\ loop = "sleep" /\ timeouts = 0
    /\ loop' = "call"
    /\ UNCHANGED <<daemon, control_queue_, poll_, requests, replies,
                   connections, lost, timeouts>>

\* sleep(DBUS_RETRY_DELAY) is over.
Retry ==
    /\ loop = "sleep"
    /\ loop' = "call"
    /\ UNCHANGED <<daemon, control_queue_, poll_, requests, replies,
                   connections, lost, timeouts>>

-----------------------------------------------------------------------------
Accept == accept_clients \/ SetupFails \/ AcceptRejects

Script == pollDaemon \/ Answered \/ LateAnswer \/ Retry

Next ==
    \/ PeerConnects \/ Accept
    \/ \E id \in Id : on_client_disconnected(id)
    \/ handle_poll \/ on_timeout
    \/ Script \/ CallTimesOut

Spec == Init /\ [][Next]_vars

(***************************************************************************)
(* The daemon's loop serves a call that has arrived and its timer, and     *)
(* KWin's loop the answers and timers of the script.  Peers and time-outs  *)
(* promise nothing.                                                        *)
(***************************************************************************)
FairSpec ==
    /\ Spec
    /\ WF_vars(handle_poll) /\ WF_vars(on_timeout) /\ WF_vars(Script)

-----------------------------------------------------------------------------
TypeOK ==
    /\ backlog \in 0..MaxId /\ next_id_ \in 1..(MaxId + 1)
    /\ sessions_ \subseteq Id /\ connections \subseteq Id /\ lost \subseteq Id
    /\ control_queue_ \in Seq(Event) /\ Len(control_queue_) <= QueueCap
    /\ poll_ \in {"none", "live", "stale"}
    /\ requests \in Seq(BOOLEAN)
    /\ replies \in Seq([live : BOOLEAN, ok : BOOLEAN, events : Seq(Event)])
    /\ loop \in {"call", "wait", "sleep"}
    /\ timeouts \in 0..MaxTimeouts

\* The events that will still reach the script: a batch on its way or queued.
OnTheWay(e) ==
    \/ \E i \in 1..Len(control_queue_) : control_queue_[i] = e
    \/ \E i \in 1..Len(replies) : \E j \in 1..Len(replies[i].events) :
          replies[i].events[j] = e

(***************************************************************************)
(* The script's map and the events on their way to it add up to the        *)
(* sessions of the daemon, for every client of which no event was dropped: *)
(* a client is connected exactly if the script knows it or will hear of    *)
(* it, and will not hear of its end.                                       *)
(***************************************************************************)
EventsAddUp ==
    \A id \in Id \ lost :
        id \in sessions_ <=> /\ id \in connections \/ OnTheWay(Connected(id))
                             /\ ~OnTheWay(Disconnected(id))

(***************************************************************************)
(* While the loop awaits an answer exactly one call of it is under way, on *)
(* the bus or waiting in the daemon, and none otherwise: the script never  *)
(* waits for a poll the daemon has forgotten, nor polls twice.             *)
(***************************************************************************)
LiveCalls ==
    Cardinality({i \in 1..Len(requests) : requests[i]})
    + Cardinality({i \in 1..Len(replies) : replies[i].live})
    + (IF poll_ = "live" THEN 1 ELSE 0)

OneCallAwaited == LiveCalls = IF loop = "wait" THEN 1 ELSE 0

(***************************************************************************)
(* A connected client is served and a gone one is forgotten (its tokens    *)
(* and watches with it), unless an event about it was dropped: no error    *)
(* answer, stale poll or time-out stops the control loop.                  *)
(***************************************************************************)
ScriptCatchesUp ==
    \A id \in Id :
        /\ id \in sessions_ ~> (id \in connections \/ id \notin sessions_ \/ id \in lost)
        /\ (id \in connections /\ id \notin sessions_)
              ~> (id \notin connections \/ id \in lost)
=============================================================================
