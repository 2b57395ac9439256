------------------------------ MODULE Registry ------------------------------
(***************************************************************************)
(* What the KWin script keeps for its clients: the window tokens           *)
(* (tokens.ts), the window watches set up through them (windows.ts), the   *)
(* workspace watches (workspace.ts), and the connections whose requests    *)
(* create them and whose end must remove them (clients.ts).                *)
(*                                                                         *)
(* The script is single-threaded; an action is what runs between two turns *)
(* of the event loop: one event of the window manager, one timer, one      *)
(* control event, or one message of a batch.  The messages of a batch are  *)
(* awaited one by one, so other events come between them ("left"), and     *)
(* between a method and the sending of its reply ("owed").                 *)
(*                                                                         *)
(* A caption is the token it starts with, or NoToken.  A TokenEntry is its *)
(* fields, each a function of the token; "absent" is a token that byToken  *)
(* does not hold.                                                          *)
(***************************************************************************)
EXTENDS Integers, FiniteSets

CONSTANTS
    Clients, Tokens, Windows,
    SlowClients,    \* those whose write buffer in the daemon may be full
    Props,          \* window properties that can be watched
    WsProps,        \* workspace properties that can be watched
    NoToken, NoWindow, NoClient,
    MaxBatch        \* bound: messages one poll() returns

ASSUME RegistryAssumption ==
    /\ NoToken \notin Tokens /\ NoWindow \notin Windows
    /\ NoClient \notin Clients
    /\ SlowClients \subseteq Clients
    /\ MaxBatch \in Nat

VARIABLES
    conn,       \* "none", "alive" or "gone"; ids are never used again
    left,       \* messages of the client's batch not yet dispatched
    managed,    \* windows between windowAdded and windowRemoved
    state,      \* TokenEntry.state, or "absent"
    owner,      \* TokenEntry.conn
    window,     \* TokenEntry.window
    timer,      \* TokenEntry.deadlineTimer.active
    byWindow,   \* the token bound to a window
    watch,      \* watchesByToken: the window and the watched properties
    slots,      \* handlers connected to the signals of the windows
    wsWatch,    \* watchesByClient: watched workspace properties
    owed,       \* the token whose token.request is still to be answered
    view        \* history: what the messages a client got say of a token

tokenVars == <<state, owner, window, timer, byWindow>>
vars == <<conn, left, managed, tokenVars, watch, slots, wsWatch, owed, view>>

NoWatch == [window |-> NoWindow, props |-> {}]

Slot == [window : Windows, prop : Props, token : Tokens, conn : Clients]

Init ==
    /\ conn = [c \in Clients |-> "none"]
    /\ left = [c \in Clients |-> 0]
    /\ managed \in SUBSET Windows   \* wireWindowEvents: those already there
    /\ state = [t \in Tokens |-> "absent"]
    /\ owner = [t \in Tokens |-> NoClient]
    /\ window = [t \in Tokens |-> NoWindow]
    /\ timer = [t \in Tokens |-> FALSE]
    /\ byWindow = [w \in Windows |-> NoToken]
    /\ watch = [t \in Tokens |-> NoWatch]
    /\ slots = {}
    /\ wsWatch = [c \in Clients |-> {}]
    /\ owed = [c \in Clients |-> NoToken]
    /\ view = [c \in Clients |-> [t \in Tokens |-> "none"]]

-----------------------------------------------------------------------------
(***************************************************************************)
(* dropClientWatches(tokens): disconnect every handler listed for them.    *)
(***************************************************************************)
WatchesForgottenOnly(T) ==
    /\ watch' = [t \in Tokens |-> IF t \in T THEN NoWatch ELSE watch[t]]
    /\ slots' = slots

dropClientWatches(T) ==
    /\ watch' = [t \in Tokens |-> IF t \in T THEN NoWatch ELSE watch[t]]
    /\ slots' = {s \in slots : ~(/\ s.token \in T
                                 /\ s.window = watch[s.token].window
                                 /\ s.prop \in watch[s.token].props)}

\* The windows that byWindow.delete is called for when the tokens of T go.
Unbound(T) == {window[t] : t \in {u \in T : state[u] = "active"}}

(***************************************************************************)
(* The tokens of T leave the registry (invalidate, dropClientTokens).      *)
(***************************************************************************)
RemoveKeepsBinding(T) ==
    /\ state' = [t \in Tokens |-> IF t \in T THEN "absent" ELSE state[t]]
    /\ owner' = [t \in Tokens |-> IF t \in T THEN NoClient ELSE owner[t]]
    /\ window' = [t \in Tokens |-> IF t \in T THEN NoWindow ELSE window[t]]
    /\ timer' = [t \in Tokens |-> timer[t] /\ t \notin T]
    /\ byWindow' = byWindow
    /\ dropClientWatches(T)

Remove(T) ==
    /\ state' = [t \in Tokens |-> IF t \in T THEN "absent" ELSE state[t]]
    /\ owner' = [t \in Tokens |-> IF t \in T THEN NoClient ELSE owner[t]]
    /\ window' = [t \in Tokens |-> IF t \in T THEN NoWindow ELSE window[t]]
    /\ timer' = [t \in Tokens |-> timer[t] /\ t \notin T]
    /\ byWindow' = [w \in Windows |->
                       IF w \in Unbound(T) THEN NoToken ELSE byWindow[w]]
    /\ dropClientWatches(T)

(***************************************************************************)
(* What a client makes of the messages about a token: "none" (it does not  *)
(* have it), "pending", "active", "gone" (withdrawn before the reply that  *)
(* names it has come), or "missed": the last push about it was refused.    *)
(* A reply does not replace what a notification has said already.          *)
(***************************************************************************)
Views == {"none", "pending", "active", "gone", "missed"}

\* The daemon may refuse a push (write buffer full); that is only logged.
pushToClient(refused, t, what) == IF t \in refused THEN "missed" ELSE what

(***************************************************************************)
(* notifyClient to the owners of the tokens that are withdrawn and then    *)
(* validated in one step: dropped silently when a connection is no longer  *)
(* alive.                                                                  *)
(***************************************************************************)
notifyClient(withdrawn, validated) ==
    \E refused \in SUBSET {t \in withdrawn \cup validated :
                              owner[t] \in SlowClients} :
        view' = [c \in Clients |-> [t \in Tokens |->
            IF owner[t] # c \/ conn[c] # "alive" THEN view[c][t]
            ELSE IF t \in validated THEN pushToClient(refused, t, "active")
            ELSE IF t \in withdrawn
                 THEN pushToClient(refused, t,
                                   IF owed[c] = t THEN "gone" ELSE "none")
            ELSE view[c][t]]]

InvalidateSilently(t) ==
    /\ Remove({t})
    /\ UNCHANGED view

invalidate(t) ==
    /\ Remove({t})
    /\ notifyClient({t}, {})

(***************************************************************************)
(* validate(entry, window): a token already bound to the window is         *)
(* superseded first, then the entry takes its place.                       *)
(***************************************************************************)
ValidatesAlongside(t, w) ==
    /\ state' = [state EXCEPT ![t] = "active"]
    /\ window' = [window EXCEPT ![t] = w]
    /\ byWindow' = [byWindow EXCEPT ![w] = t]
    /\ notifyClient({}, {t})
    /\ UNCHANGED <<owner, timer, watch, slots>>

validate(t, w) ==
    LET old == {byWindow[w]} \ {NoToken, t} IN
    /\ state' = [u \in Tokens |-> IF u = t THEN "active"
                                  ELSE IF u \in old THEN "absent" ELSE state[u]]
    /\ owner' = [u \in Tokens |-> IF u \in old THEN NoClient ELSE owner[u]]
    /\ window' = [u \in Tokens |-> IF u = t THEN w
                                   ELSE IF u \in old THEN NoWindow ELSE window[u]]
    /\ timer' = [u \in Tokens |-> timer[u] /\ u \notin old]
    /\ byWindow' = [v \in Windows |-> IF v = w THEN t
                                      ELSE IF v \in Unbound(old) THEN NoToken
                                      ELSE byWindow[v]]
    /\ notifyClient(old, {t})
    /\ dropClientWatches(old)

(***************************************************************************)
(* checkCaption(window) for a caption that starts with token t.            *)
(***************************************************************************)
NoDeadlineCheck(w, t) ==
    IF t = NoToken \/ state[t] = "absent" \/ window[t] = w
    THEN UNCHANGED <<tokenVars, watch, slots, view>>
    ELSE IF window[t] = NoWindow THEN validate(t, w) ELSE invalidate(t)

IgnoresAmbiguity(w, t) ==
    IF t = NoToken \/ state[t] = "absent" \/ ~timer[t] \/ window[t] = w
    THEN UNCHANGED <<tokenVars, watch, slots, view>>
    ELSE validate(t, w)

checkCaption(w, t) ==
    IF t = NoToken \/ state[t] = "absent" \/ ~timer[t] \/ window[t] = w
    THEN UNCHANGED <<tokenVars, watch, slots, view>>
    ELSE IF window[t] = NoWindow THEN validate(t, w) ELSE invalidate(t)

-----------------------------------------------------------------------------
(***************************************************************************)
(* The window manager and the timers.                                      *)
(***************************************************************************)
onWindowAdded(w, t) ==
    /\ w \notin managed
    /\ managed' = managed \cup {w}
    /\ checkCaption(w, t)
    /\ UNCHANGED <<conn, left, wsWatch, owed>>

captionChanged(w, t) ==
    /\ w \in managed
    /\ checkCaption(w, t)
    /\ UNCHANGED <<conn, left, managed, wsWatch, owed>>

onWindowRemoved(w) ==
    /\ w \in managed
    /\ managed' = managed \ {w}
    /\ IF byWindow[w] # NoToken
       THEN invalidate(byWindow[w])
       ELSE UNCHANGED <<tokenVars, watch, slots, view>>
    /\ UNCHANGED <<conn, left, wsWatch, owed>>

DeadlineSparesPending(t) ==
    /\ timer[t]
    /\ timer' = [timer EXCEPT ![t] = FALSE]
    /\ UNCHANGED <<conn, left, managed, state, owner, window, byWindow, watch,
                   slots, wsWatch, owed, view>>

\* The single-shot timer is inactive from here on.
onTokenDeadline(t) ==
    /\ timer[t]
    /\ IF state[t] = "pending"
       THEN invalidate(t)
       ELSE /\ timer' = [timer EXCEPT ![t] = FALSE]
            /\ UNCHANGED <<state, owner, window, byWindow, watch, slots, view>>
    /\ UNCHANGED <<conn, left, managed, wsWatch, owed>>

-----------------------------------------------------------------------------
(***************************************************************************)
(* Connections.                                                            *)
(***************************************************************************)
onClientConnected(c) ==
    /\ conn[c] = "none"
    /\ conn' = [conn EXCEPT ![c] = "alive"]
    /\ UNCHANGED <<left, managed, tokenVars, watch, slots, wsWatch, owed, view>>

onClientDisconnected(c) ==
    LET removed == {t \in Tokens : owner[t] = c} IN
    /\ conn[c] = "alive"
    /\ conn' = [conn EXCEPT ![c] = "gone"]
    /\ Remove(removed)
    /\ view' = [view EXCEPT ![c] = [t \in Tokens |-> "none"]]
    /\ wsWatch' = [wsWatch EXCEPT ![c] = {}]
    /\ UNCHANGED <<left, managed, owed>>

(***************************************************************************)
(* The methods, each with the dispatch of its message.  The connection is  *)
(* checked once for the n messages of a poll(), in the turn that           *)
(* dispatches the first of them; the next one is dispatched when the reply *)
(* to the last has been sent.                                              *)
(***************************************************************************)
Dispatch(c) ==
    /\ owed[c] = NoToken
    /\ \/ /\ conn[c] = "alive" /\ left[c] = 0
          /\ \E n \in 1..MaxBatch : left' = [left EXCEPT ![c] = n - 1]
       \/ /\ left[c] > 0
          /\ left' = [left EXCEPT ![c] = @ - 1]

\* A drawn token that byToken holds is drawn again.
generateToken(t) == state[t] = "absent"

token_request(c, t) ==
    /\ Dispatch(c)
    /\ generateToken(t)
    /\ state' = [state EXCEPT ![t] = "pending"]
    /\ owner' = [owner EXCEPT ![t] = c]
    /\ timer' = [timer EXCEPT ![t] = TRUE]
    /\ owed' = [owed EXCEPT ![c] = t]
    /\ UNCHANGED <<conn, managed, window, byWindow, watch, slots, wsWatch, view>>

(***************************************************************************)
(* The rest of dispatchMessage, after its await: the reply to              *)
(* token.request is pushed.  A client that is gone gets nothing.  (The     *)
(* replies of the other methods say nothing of a token.)                   *)
(***************************************************************************)
dispatchMessage(c) ==
    /\ owed[c] # NoToken
    /\ owed' = [owed EXCEPT ![c] = NoToken]
    /\ \E refused \in SUBSET {t \in {owed[c]} : c \in SlowClients} :
          view' = [view EXCEPT ![c][owed[c]] =
                     IF conn[c] # "alive" THEN @
                     ELSE IF @ = "none" THEN pushToClient(refused, owed[c], "pending")
                     ELSE IF @ = "gone" THEN "none" ELSE @]
    /\ UNCHANGED <<conn, left, managed, tokenVars, watch, slots, wsWatch>>

PendingResolves(t, c) == owner[t] = c

resolveTokenWindow(t, c) == owner[t] = c /\ state[t] = "active"

\* setWatch(..., true): the handler captures the caller and the window.  A
\* message with several properties is that many calls of setWatch.
window_watch(c, t, p) ==
    /\ Dispatch(c)
    /\ resolveTokenWindow(t, c)
    /\ IF p \in watch[t].props
       THEN UNCHANGED <<watch, slots>>
       ELSE /\ watch' = [watch EXCEPT ![t] =
                  [window |-> IF @.props = {} THEN window[t] ELSE @.window,
                   props |-> @.props \cup {p}]]
            /\ slots' = slots \cup {[window |-> window[t], prop |-> p,
                                     token |-> t, conn |-> c]}
    /\ UNCHANGED <<conn, managed, tokenVars, wsWatch, owed, view>>

\* setWatch(..., false).
window_unwatch(c, t, p) ==
    /\ Dispatch(c)
    /\ resolveTokenWindow(t, c) /\ p \in watch[t].props
    /\ slots' = slots \ {s \in slots : /\ s.token = t /\ s.prop = p
                                       /\ s.window = watch[t].window}
    /\ watch' = [watch EXCEPT ![t] =
                   IF @.props = {p} THEN NoWatch
                   ELSE [window |-> @.window, props |-> @.props \ {p}]]
    /\ UNCHANGED <<conn, managed, tokenVars, wsWatch, owed, view>>

workspace_watch(c, p, enable) ==
    /\ Dispatch(c)
    /\ wsWatch' = [wsWatch EXCEPT ![c] = IF enable THEN @ \cup {p} ELSE @ \ {p}]
    /\ UNCHANGED <<conn, managed, tokenVars, watch, slots, owed, view>>

\* A message that changes nothing: an unknown method, invalid parameters, a
\* token of another client, a query.
NoEffect(c) ==
    /\ Dispatch(c)
    /\ UNCHANGED <<conn, managed, tokenVars, watch, slots, wsWatch, owed, view>>

-----------------------------------------------------------------------------
Captions == Tokens \cup {NoToken}

WindowEvent ==
    \/ \E w \in Windows, t \in Captions :
          onWindowAdded(w, t) \/ captionChanged(w, t)
    \/ \E w \in Windows : onWindowRemoved(w)

Deadline == \E t \in Tokens : onTokenDeadline(t)

ControlEvent == \E c \in Clients : onClientConnected(c) \/ onClientDisconnected(c)

ClientLoop ==
    \E c \in Clients :
        \/ \E t \in Tokens : token_request(c, t)
        \/ dispatchMessage(c)
        \/ \E t \in Tokens, p \in Props :
              window_watch(c, t, p) \/ window_unwatch(c, t, p)
        \/ \E p \in WsProps, enable \in BOOLEAN : workspace_watch(c, p, enable)
        \/ NoEffect(c)

Next == WindowEvent \/ Deadline \/ ControlEvent \/ ClientLoop

Spec == Init /\ [][Next]_vars

\* A running QTimer fires.
FairSpec == Spec /\ \A t \in Tokens : WF_vars(onTokenDeadline(t))

-----------------------------------------------------------------------------
TypeOK ==
    /\ conn \in [Clients -> {"none", "alive", "gone"}]
    /\ left \in [Clients -> 0..MaxBatch]
    /\ managed \subseteq Windows
    /\ state \in [Tokens -> {"absent", "pending", "active"}]
    /\ owner \in [Tokens -> Clients \cup {NoClient}]
    /\ window \in [Tokens -> Windows \cup {NoWindow}]
    /\ timer \in [Tokens -> BOOLEAN]
    /\ byWindow \in [Windows -> Tokens \cup {NoToken}]
    /\ watch \in [Tokens -> [window : Windows \cup {NoWindow},
                             props : SUBSET Props]]
    /\ slots \subseteq Slot
    /\ wsWatch \in [Clients -> SUBSET WsProps]
    /\ owed \in [Clients -> Tokens \cup {NoToken}]
    /\ view \in [Clients -> [Tokens -> Views]]

(***************************************************************************)
(* byToken and byWindow agree: a window belongs to at most one token, the  *)
(* active token that names it, and a bound window is still managed.  Every *)
(* way out of the registry (timeout, window closed, ambiguous, superseded, *)
(* client gone) must keep the two maps together.                           *)
(***************************************************************************)
MapsAgree ==
    /\ \A t \in Tokens : state[t] = "active" =>
          window[t] \in managed /\ byWindow[window[t]] = t
    /\ \A w \in Windows : byWindow[w] # NoToken =>
          state[byWindow[w]] = "active" /\ window[byWindow[w]] = w

(***************************************************************************)
(* A pending token still has its deadline before it and no window: no      *)
(* token can stay pending for ever or be matched twice.                    *)
(***************************************************************************)
PendingHasDeadline ==
    \A t \in Tokens : state[t] = "pending" => timer[t] /\ window[t] = NoWindow

(***************************************************************************)
(* A handler is connected to a window only for the client that owns the    *)
(* active token bound to that window, and is listed, so that it can be     *)
(* removed: after "superseded" the old owner must not keep listening       *)
(* (windows.ts, dropClientWatches).                                        *)
(***************************************************************************)
OnlyOwnersListen ==
    \A s \in slots : /\ state[s.token] = "active"
                     /\ owner[s.token] = s.conn
                     /\ window[s.token] = s.window
                     /\ watch[s.token].window = s.window
                     /\ s.prop \in watch[s.token].props

(***************************************************************************)
(* A listed watch is connected: window.watch never answers "true" for a    *)
(* property whose changes the client will not hear of.                     *)
(***************************************************************************)
ListedWatchesHear ==
    \A t \in Tokens, p \in Props : p \in watch[t].props =>
        \E s \in slots : s.token = t /\ s.prop = p /\ s.window = window[t]

(***************************************************************************)
(* The listed watches and the connected handlers match, both ways.         *)
(***************************************************************************)
HandlersMatchWatches == OnlyOwnersListen /\ ListedWatchesHear

(***************************************************************************)
(* The replies and notifications a connected client got add up to what the *)
(* registry holds of every token, in whatever order the method's turn, the *)
(* reply and the notifications come: it has exactly the tokens the         *)
(* registry holds for it, in their state, and no other.  It may not know   *)
(* of a pending token, or know of one withdrawn early, only as long as the *)
(* reply is still owed; a token is exempt after a refused push about it,   *)
(* until the next one that arrives (dbus.ts only logs the refusal).        *)
(***************************************************************************)
OwnersInformed ==
    \A c \in Clients, t \in Tokens :
        conn[c] = "alive" /\ view[c][t] # "missed" =>
            IF owner[t] = c
            THEN \/ view[c][t] = state[t]
                 \/ view[c][t] = "none" /\ state[t] = "pending" /\ owed[c] = t
            ELSE view[c][t] = IF owed[c] = t THEN "gone" ELSE "none"

(***************************************************************************)
(* A bound token is never moved to another window or client: it can only   *)
(* leave the registry (tokens.ts: ambiguity withdraws, it does not rebind).*)
(***************************************************************************)
BindingFixed ==
    [][\A t \in Tokens : state[t] = "active" /\ state'[t] = "active" =>
          window'[t] = window[t] /\ owner'[t] = owner[t]]_vars

(***************************************************************************)
(* After the validate deadline a caption no longer affects a bound token:  *)
(* only its window or its owner going, or another token taking the window, *)
(* ends it.                                                                *)
(***************************************************************************)
DeadlineClosesAmbiguity ==
    [][\A t \in Tokens : state[t] = "active" /\ ~timer[t] /\ state'[t] # "active"
          => \/ window[t] \notin managed'
             \/ conn'[owner[t]] = "gone"
             \/ byWindow'[window[t]] \notin {t, NoToken}]_vars

(***************************************************************************)
(* The registry implements Claims: seen through its active tokens only,    *)
(* every step binds one token (superseding the one that held the window),  *)
(* withdraws one, drops those of one client, or changes no claim.          *)
(***************************************************************************)
Unclaimed == [owner |-> NoClient, window |-> NoWindow]

C == INSTANCE Claims WITH
        NoClaim <- Unclaimed,
        claim <- [t \in Tokens |-> IF state[t] = "active"
                    THEN [owner |-> owner[t], window |-> window[t]]
                    ELSE Unclaimed]

ImplementsClaims == C!Spec

(***************************************************************************)
(* Every requested token is settled.                                       *)
(***************************************************************************)
RequestsSettle ==
    \A t \in Tokens : state[t] = "pending" ~> state[t] # "pending"

(***************************************************************************)
(* doc/RPC.md, 4.3: watches "are per client and torn down when the client  *)
(* disconnects".                                                           *)
(***************************************************************************)
WatchesTornDown ==
    \A c \in Clients : conn[c] = "gone" => wsWatch[c] = {}
=============================================================================
