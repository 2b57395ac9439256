--------------------------- MODULE RegistryProofs ---------------------------
(***************************************************************************)
(* The token registry keeps its maps, timers, watches and notifications    *)
(* together, for any number of clients, tokens and windows.                *)
(***************************************************************************)
EXTENDS Registry, TLAPS

(***************************************************************************)
(* What the registry holds of a token it does not know, or has not bound:  *)
(* nothing.  A watch exists only through a bound token.                    *)
(***************************************************************************)
Cleared ==
    \A t \in Tokens :
        /\ state[t] = "absent" <=> owner[t] = NoClient
        /\ state[t] # "active" => window[t] = NoWindow
        /\ state[t] = "absent" => timer[t] = FALSE
        /\ watch[t].props # {} => /\ state[t] = "active"
                                  /\ watch[t].window = window[t]

(***************************************************************************)
(* Nothing is done for a client before it is connected.                    *)
(***************************************************************************)
ConnectedFirst ==
    /\ \A t \in Tokens : owner[t] # NoClient => conn[owner[t]] # "none"
    /\ \A c \in Clients : left[c] > 0 => conn[c] # "none"

\* A client that has not connected yet has got no message and is owed none.
Strangers ==
    \A c \in Clients : conn[c] = "none" =>
        /\ owed[c] = NoToken
        /\ \A t \in Tokens : view[c][t] = "none"

IInv ==
    /\ TypeOK
    /\ MapsAgree /\ PendingHasDeadline /\ Cleared
    /\ OnlyOwnersListen /\ ListedWatchesHear
    /\ ConnectedFirst /\ Strangers /\ OwnersInformed

\* The part of TypeOK the token and watch operations touch.
TokenTypes ==
    /\ state \in [Tokens -> {"absent", "pending", "active"}]
    /\ owner \in [Tokens -> Clients \cup {NoClient}]
    /\ window \in [Tokens -> Windows \cup {NoWindow}]
    /\ timer \in [Tokens -> BOOLEAN]
    /\ byWindow \in [Windows -> Tokens \cup {NoToken}]
    /\ watch \in [Tokens -> [window : Windows \cup {NoWindow},
                             props : SUBSET Props]]
    /\ slots \subseteq Slot

\* The part the messages to the clients touch.
MessageTypes ==
    /\ owed \in [Clients -> Tokens \cup {NoToken}]
    /\ view \in [Clients -> [Tokens -> Views]]

Core ==
    /\ MapsAgree /\ PendingHasDeadline /\ Cleared
    /\ OnlyOwnersListen /\ ListedWatchesHear

Informed == MessageTypes /\ ConnectedFirst /\ Strangers /\ OwnersInformed

-----------------------------------------------------------------------------
(***************************************************************************)
(* The initial state: an empty registry.                                   *)
(***************************************************************************)
LEMMA InitIInv == Init => IInv
  <1> SUFFICES ASSUME Init PROVE IInv
      OBVIOUS
  <1>1. TypeOK
        BY RegistryAssumption DEF Init, TypeOK, NoWatch, Slot, Views
  <1>2. MapsAgree /\ PendingHasDeadline
        BY DEF Init, MapsAgree, PendingHasDeadline
  <1>3. Cleared
        BY DEF Init, Cleared, NoWatch
  <1>4. OnlyOwnersListen /\ ListedWatchesHear
        BY DEF Init, OnlyOwnersListen, ListedWatchesHear, NoWatch
  <1>5. ConnectedFirst /\ Strangers /\ OwnersInformed
        BY RegistryAssumption DEF Init, ConnectedFirst, Strangers, OwnersInformed
  <1> QED BY <1>1, <1>2, <1>3, <1>4, <1>5 DEF IInv

(***************************************************************************)
(* Removing tokens (invalidate, dropClientTokens) keeps the registry       *)
(* together, if no window leaves that a remaining token is bound to.       *)
(***************************************************************************)
LEMMA RemoveKeeps ==
    ASSUME IInv, NEW T \in SUBSET Tokens, Remove(T),
           \A w \in managed : w \in managed' \/ byWindow[w] \in T \cup {NoToken}
    PROVE  Core'
  <1> USE DEF IInv
  <1>0. /\ TypeOK /\ TokenTypes
        BY DEF TypeOK, TokenTypes
  <1>1. \A t \in T : /\ state'[t] = "absent" /\ owner'[t] = NoClient
                     /\ window'[t] = NoWindow /\ timer'[t] = FALSE
                     /\ watch'[t] = NoWatch
        BY <1>0 DEF Remove, dropClientWatches, TokenTypes
  <1>2. \A t \in Tokens \ T : /\ state'[t] = state[t] /\ owner'[t] = owner[t]
                              /\ window'[t] = window[t] /\ timer'[t] = timer[t]
                              /\ watch'[t] = watch[t]
        BY <1>0 DEF Remove, dropClientWatches, TokenTypes
  <1>3. \A w \in Windows : byWindow'[w] = IF byWindow[w] \in T THEN NoToken
                                          ELSE byWindow[w]
    <2> TAKE w \in Windows
    <2>1. byWindow'[w] = IF w \in Unbound(T) THEN NoToken ELSE byWindow[w]
          BY <1>0 DEF Remove, TokenTypes
    <2>2. w \in Unbound(T) <=> byWindow[w] \in T
      <3>1. ASSUME w \in Unbound(T) PROVE byWindow[w] \in T
            BY <3>1, <1>0 DEF Unbound, MapsAgree, TokenTypes
      <3>2. ASSUME byWindow[w] \in T PROVE w \in Unbound(T)
        <4>1. byWindow[w] \in Tokens /\ byWindow[w] # NoToken
              BY <3>2, RegistryAssumption
        <4>2. state[byWindow[w]] = "active" /\ window[byWindow[w]] = w
              BY <4>1 DEF MapsAgree
        <4> QED BY <3>2, <4>2 DEF Unbound
      <3> QED BY <3>1, <3>2
    <2> QED BY <2>1, <2>2
  <1>4. MapsAgree'
    <2>1. ASSUME NEW t \in Tokens, state'[t] = "active"
          PROVE  window'[t] \in managed' /\ byWindow'[window'[t]] = t
      <3>1. t \notin T /\ state[t] = "active" /\ window'[t] = window[t]
            BY <2>1, <1>1, <1>2
      <3>2. window[t] \in managed /\ byWindow[window[t]] = t
            BY <3>1 DEF MapsAgree
      <3>3. window[t] \in Windows
            BY <3>2, <1>0 DEF TypeOK
      <3>4. window[t] \in managed'
            BY <3>1, <3>2, RegistryAssumption
      <3> QED BY <3>1, <3>2, <3>3, <3>4, <1>3
    <2>2. ASSUME NEW w \in Windows, byWindow'[w] # NoToken
          PROVE  state'[byWindow'[w]] = "active" /\ window'[byWindow'[w]] = w
      <3>1. byWindow'[w] = byWindow[w] /\ byWindow[w] \in Tokens \ T
            BY <2>2, <1>3, <1>0 DEF TokenTypes
      <3>2. state[byWindow[w]] = "active" /\ window[byWindow[w]] = w
            BY <2>2, <3>1 DEF MapsAgree
      <3> QED BY <3>1, <3>2, <1>2
    <2> QED BY <2>1, <2>2 DEF MapsAgree
  <1>5. PendingHasDeadline'
        BY <1>1, <1>2 DEF PendingHasDeadline
  <1>6. Cleared'
        BY <1>1, <1>2 DEF Cleared, NoWatch
  <1>7. OnlyOwnersListen'
    <2> SUFFICES ASSUME NEW s \in slots'
                 PROVE  /\ state'[s.token] = "active"
                        /\ owner'[s.token] = s.conn
                        /\ window'[s.token] = s.window
                        /\ watch'[s.token].window = s.window
                        /\ s.prop \in watch'[s.token].props
        BY DEF OnlyOwnersListen
    <2>1. s \in slots /\ s.token \in Tokens
          BY <1>0 DEF Remove, dropClientWatches, TokenTypes, Slot
    <2>2. s.token \notin T
          BY <2>1 DEF Remove, dropClientWatches, OnlyOwnersListen
    <2> QED BY <2>1, <2>2, <1>2 DEF OnlyOwnersListen
  <1>8. ListedWatchesHear'
    <2> SUFFICES ASSUME NEW t \in Tokens, NEW p \in Props, p \in watch'[t].props
                 PROVE  \E s \in slots' : /\ s.token = t /\ s.prop = p
                                         /\ s.window = window'[t]
        BY DEF ListedWatchesHear
    <2>1. t \notin T
          BY <1>1 DEF NoWatch
    <2>2. PICK s \in slots : s.token = t /\ s.prop = p /\ s.window = window[t]
          BY <2>1, <1>2 DEF ListedWatchesHear
    <2>3. s \in slots'
          BY <2>1, <2>2 DEF Remove, dropClientWatches
    <2> QED BY <2>1, <2>2, <2>3, <1>2
  <1> QED BY <1>4, <1>5, <1>6, <1>7, <1>8 DEF Core

LEMMA RemoveTypes ==
    ASSUME IInv, NEW T \in SUBSET Tokens, Remove(T)
    PROVE  TokenTypes'
  <1>1. TokenTypes
        BY DEF IInv, TypeOK, TokenTypes
  <1>2. watch' \in [Tokens -> [window : Windows \cup {NoWindow},
                              props : SUBSET Props]]
        BY <1>1 DEF Remove, dropClientWatches, TokenTypes, NoWatch
  <1>3. slots' \subseteq Slot
        BY <1>1 DEF Remove, dropClientWatches, TokenTypes
  <1> QED BY <1>1, <1>2, <1>3 DEF Remove, TokenTypes

(***************************************************************************)
(* The notifications of one step keep the owners informed, if they are     *)
(* about what the step did to the registry, and about all of it.           *)
(***************************************************************************)
LEMMA NotifyInforms ==
    ASSUME IInv, NEW W \in SUBSET Tokens, NEW V \in SUBSET Tokens,
           notifyClient(W, V), conn' = conn, left' = left, owed' = owed,
           \A t \in V : owner'[t] = owner[t] /\ state'[t] = "active",
           \A t \in W \ V : owner'[t] = NoClient,
           \A t \in Tokens \ (W \cup V) :
               owner'[t] = owner[t] /\ state'[t] = state[t]
    PROVE  Informed'
  <1>0. /\ owed \in [Clients -> Tokens \cup {NoToken}]
        /\ view \in [Clients -> [Tokens -> Views]]
        BY DEF IInv, TypeOK
  <1>1. PICK refused \in SUBSET Tokens :
          view' = [c \in Clients |-> [t \in Tokens |->
            IF owner[t] # c \/ conn[c] # "alive" THEN view[c][t]
            ELSE IF t \in V THEN pushToClient(refused, t, "active")
            ELSE IF t \in W
                 THEN pushToClient(refused, t,
                                   IF owed[c] = t THEN "gone" ELSE "none")
            ELSE view[c][t]]]
        BY DEF notifyClient
  <1>2. \A c \in Clients, t \in Tokens : view'[c][t] =
            IF owner[t] # c \/ conn[c] # "alive" THEN view[c][t]
            ELSE IF t \in V THEN pushToClient(refused, t, "active")
            ELSE IF t \in W
                 THEN pushToClient(refused, t,
                                   IF owed[c] = t THEN "gone" ELSE "none")
            ELSE view[c][t]
        BY <1>1
  <1>3. MessageTypes'
    <2>1. \A c \in Clients, t \in Tokens : view'[c][t] \in Views
          BY <1>0, <1>2 DEF pushToClient, Views
    <2>2. view' \in [Clients -> [Tokens -> Views]]
          BY <1>1, <2>1
    <2> QED BY <1>0, <2>2 DEF MessageTypes
  <1>4. ConnectedFirst'
    <2>1. ASSUME NEW t \in Tokens, owner'[t] # NoClient
          PROVE  conn[owner'[t]] # "none"
          BY <2>1 DEF IInv, ConnectedFirst
    <2>2. \A c \in Clients : left[c] > 0 => conn[c] # "none"
          BY DEF IInv, ConnectedFirst
    <2> QED BY <2>1, <2>2 DEF ConnectedFirst
  <1>5. Strangers'
        BY <1>2 DEF IInv, Strangers
  <1>6. OwnersInformed'
    <2> SUFFICES ASSUME NEW c \in Clients, NEW t \in Tokens,
                        conn[c] = "alive", view'[c][t] # "missed"
                 PROVE  IF owner'[t] = c
                        THEN \/ view'[c][t] = state'[t]
                             \/ /\ view'[c][t] = "none" /\ state'[t] = "pending"
                                /\ owed[c] = t
                        ELSE view'[c][t] = IF owed[c] = t THEN "gone" ELSE "none"
        BY DEF OwnersInformed
    <2>1. CASE owner[t] # c
      <3>1. view'[c][t] = view[c][t]
            BY <2>1, <1>2
      <3>2. owner'[t] # c
            BY <2>1, RegistryAssumption
      <3> QED BY <2>1, <3>1, <3>2 DEF IInv, OwnersInformed
    <2>2. CASE owner[t] = c /\ t \in V
          BY <2>2, <1>2 DEF pushToClient
    <2>3. CASE owner[t] = c /\ t \in W \ V
      <3>1. owner'[t] # c
            BY <2>3, RegistryAssumption
      <3>2. view'[c][t] = IF owed[c] = t THEN "gone" ELSE "none"
            BY <2>3, <1>2 DEF pushToClient
      <3> QED BY <3>1, <3>2
    <2>4. CASE owner[t] = c /\ t \notin W \cup V
      <3>1. view'[c][t] = view[c][t]
            BY <2>4, <1>2
      <3> QED BY <2>4, <3>1 DEF IInv, OwnersInformed
    <2> QED BY <2>1, <2>2, <2>3, <2>4
  <1> QED BY <1>3, <1>4, <1>5, <1>6 DEF Informed

\* A step that leaves the tokens and the messages alone.
LEMMA NothingTold ==
    ASSUME IInv, UNCHANGED <<conn, owner, state, owed, view>>,
           \A d \in Clients : left'[d] > 0 => conn[d] # "none"
    PROVE  Informed'
  BY DEF IInv, TypeOK, Informed, MessageTypes, ConnectedFirst, Strangers,
         OwnersInformed

(***************************************************************************)
(* validate binds a pending token to a window, superseding the token that  *)
(* was bound to it.                                                        *)
(***************************************************************************)
LEMMA ValidateKeeps ==
    ASSUME IInv, NEW t \in Tokens, NEW w \in Windows, state[t] = "pending",
           validate(t, w), managed \subseteq managed', w \in managed',
           conn' = conn, left' = left, owed' = owed
    PROVE  TokenTypes' /\ Core' /\ Informed'
  <1> USE DEF IInv
  <1> DEFINE old == {byWindow[w]} \ {NoToken, t}
  <1>0. TypeOK /\ TokenTypes
        BY DEF TypeOK, TokenTypes
  <1>1. /\ old \subseteq Tokens /\ t \notin old
        /\ \A u \in old : state[u] = "active" /\ window[u] = w /\ byWindow[w] = u
        BY <1>0 DEF TokenTypes, MapsAgree
  <1>2. \A u \in Tokens : byWindow[w] = u => u \in old
        BY RegistryAssumption DEF MapsAgree
  <1>3. /\ state'[t] = "active" /\ owner'[t] = owner[t] /\ window'[t] = w
        /\ timer'[t] = timer[t] /\ watch'[t] = watch[t]
        BY <1>0, <1>1 DEF validate, dropClientWatches, TokenTypes
  <1>4. \A u \in old : /\ state'[u] = "absent" /\ owner'[u] = NoClient
                       /\ window'[u] = NoWindow /\ timer'[u] = FALSE
                       /\ watch'[u] = NoWatch
        BY <1>0, <1>1 DEF validate, dropClientWatches, TokenTypes
  <1>5. \A u \in Tokens \ (old \cup {t}) :
            /\ state'[u] = state[u] /\ owner'[u] = owner[u]
            /\ window'[u] = window[u] /\ timer'[u] = timer[u]
            /\ watch'[u] = watch[u]
        BY <1>0, <1>1 DEF validate, dropClientWatches, TokenTypes
  <1>6. \A v \in Windows : byWindow'[v] = IF v = w THEN t ELSE byWindow[v]
    <2>1. Unbound(old) \subseteq {w}
          BY <1>1 DEF Unbound
    <2> QED BY <2>1 DEF validate
  <1>7. TokenTypes'
    <2>1. watch' \in [Tokens -> [window : Windows \cup {NoWindow},
                                props : SUBSET Props]]
          BY <1>0 DEF validate, dropClientWatches, TokenTypes, NoWatch
    <2>2. slots' \subseteq Slot
          BY <1>0 DEF validate, dropClientWatches, TokenTypes
    <2>3. byWindow' \in [Windows -> Tokens \cup {NoToken}]
          BY <1>0 DEF validate, TokenTypes
    <2> QED BY <2>1, <2>2, <2>3, <1>0 DEF validate, TokenTypes
  <1>8. MapsAgree'
    <2>1. ASSUME NEW u \in Tokens, state'[u] = "active"
          PROVE  window'[u] \in managed' /\ byWindow'[window'[u]] = u
      <3>1. CASE u = t
            BY <3>1, <1>3, <1>6
      <3>2. CASE u # t
        <4>1. u \notin old /\ state[u] = "active" /\ window'[u] = window[u]
              BY <2>1, <3>2, <1>4, <1>5
        <4>2. window[u] \in managed /\ byWindow[window[u]] = u
              BY <4>1 DEF MapsAgree
        <4>3. window[u] # w /\ window[u] \in Windows
              BY <4>1, <4>2, <1>2, <1>0 DEF TypeOK
        <4> QED BY <4>1, <4>2, <4>3, <1>6
      <3> QED BY <3>1, <3>2
    <2>2. ASSUME NEW v \in Windows, byWindow'[v] # NoToken
          PROVE  state'[byWindow'[v]] = "active" /\ window'[byWindow'[v]] = v
      <3>1. CASE v = w
            BY <3>1, <1>3, <1>6
      <3>2. CASE v # w
        <4>1. byWindow'[v] = byWindow[v] /\ byWindow[v] \in Tokens
              BY <2>2, <3>2, <1>6, <1>0 DEF TokenTypes
        <4>2. state[byWindow[v]] = "active" /\ window[byWindow[v]] = v
              BY <2>2, <4>1 DEF MapsAgree
        <4>3. byWindow[v] \notin old \cup {t}
              BY <4>2, <3>2, <1>1
        <4> QED BY <4>1, <4>2, <4>3, <1>5
      <3> QED BY <3>1, <3>2
    <2> QED BY <2>1, <2>2 DEF MapsAgree
  <1>9. PendingHasDeadline'
        BY <1>3, <1>4, <1>5 DEF PendingHasDeadline
  <1>10. watch[t].props = {}
        BY <1>0 DEF Cleared
  <1>11. Cleared'
    <2> SUFFICES ASSUME NEW u \in Tokens
                 PROVE  /\ state'[u] = "absent" <=> owner'[u] = NoClient
                        /\ state'[u] # "active" => window'[u] = NoWindow
                        /\ state'[u] = "absent" => timer'[u] = FALSE
                        /\ watch'[u].props # {} => /\ state'[u] = "active"
                                                 /\ watch'[u].window = window'[u]
        BY DEF Cleared
    <2>1. CASE u = t
          BY <2>1, <1>3, <1>10 DEF Cleared
    <2>2. CASE u \in old
          BY <2>2, <1>4 DEF NoWatch
    <2>3. CASE u \notin old \cup {t}
          BY <2>3, <1>5 DEF Cleared
    <2> QED BY <2>1, <2>2, <2>3
  <1>12. OnlyOwnersListen'
    <2> SUFFICES ASSUME NEW s \in slots'
                 PROVE  /\ state'[s.token] = "active"
                        /\ owner'[s.token] = s.conn
                        /\ window'[s.token] = s.window
                        /\ watch'[s.token].window = s.window
                        /\ s.prop \in watch'[s.token].props
        BY DEF OnlyOwnersListen
    <2>1. s \in slots /\ s.token \in Tokens /\ s.token # t
          BY <1>0 DEF validate, dropClientWatches, TokenTypes, Slot,
                      OnlyOwnersListen
    <2>2. s.token \notin old
          BY <2>1 DEF validate, dropClientWatches, OnlyOwnersListen
    <2> QED BY <2>1, <2>2, <1>5 DEF OnlyOwnersListen
  <1>13. ListedWatchesHear'
    <2> SUFFICES ASSUME NEW u \in Tokens, NEW p \in Props, p \in watch'[u].props
                 PROVE  \E s \in slots' : /\ s.token = u /\ s.prop = p
                                         /\ s.window = window'[u]
        BY DEF ListedWatchesHear
    <2>1. u \notin old \cup {t}
          BY <1>3, <1>4, <1>10 DEF NoWatch
    <2>2. PICK s \in slots : s.token = u /\ s.prop = p /\ s.window = window[u]
          BY <2>1, <1>5 DEF ListedWatchesHear
    <2>3. s \in slots'
          BY <2>1, <2>2 DEF validate, dropClientWatches
    <2> QED BY <2>1, <2>2, <2>3, <1>5
  <1>14. Informed'
    <2>1. notifyClient(old, {t})
          BY DEF validate
    <2>2. \A u \in {t} : owner'[u] = owner[u] /\ state'[u] = "active"
          BY <1>3
    <2>3. \A u \in old \ {t} : owner'[u] = NoClient
          BY <1>4
    <2>4. \A u \in Tokens \ (old \cup {t}) :
              owner'[u] = owner[u] /\ state'[u] = state[u]
          BY <1>5
    <2>5. old \in SUBSET Tokens /\ {t} \in SUBSET Tokens
          BY <1>1
    <2> HIDE DEF old
    <2> QED BY <2>1, <2>2, <2>3, <2>4, <2>5, NotifyInforms
  <1> QED BY <1>7, <1>8, <1>9, <1>11, <1>12, <1>13, <1>14 DEF Core

(***************************************************************************)
(* invalidate takes one token out and tells its owner.                     *)
(***************************************************************************)
LEMMA InvalidateKeeps ==
    ASSUME IInv, NEW t \in Tokens, state[t] # "absent", invalidate(t),
           \A w \in managed : w \in managed' \/ byWindow[w] \in {t, NoToken},
           conn' = conn, left' = left, owed' = owed
    PROVE  TokenTypes' /\ Core' /\ Informed'
  <1>0. TypeOK /\ Remove({t}) /\ {t} \in SUBSET Tokens
        BY DEF IInv, invalidate
  <1>1. TokenTypes'
        BY <1>0, RemoveTypes
  <1>2. Core'
        BY <1>0, RemoveKeeps
  <1>3. Informed'
    <2>1. notifyClient({t}, {})
          BY DEF invalidate
    <2>2. /\ owner'[t] = NoClient
          /\ \A u \in Tokens \ {t} : owner'[u] = owner[u] /\ state'[u] = state[u]
          BY <1>0 DEF Remove
    <2> QED BY <2>1, <2>2, NotifyInforms
  <1> QED BY <1>1, <1>2, <1>3

LEMMA CaptionKeeps ==
    ASSUME IInv, NEW w \in Windows, NEW t \in Captions, checkCaption(w, t),
           managed \subseteq managed', w \in managed',
           conn' = conn, left' = left, owed' = owed
    PROVE  TokenTypes' /\ Core' /\ Informed'
  <1>1. CASE t = NoToken \/ state[t] = "absent" \/ ~timer[t] \/ window[t] = w
    <2>1. UNCHANGED <<tokenVars, watch, slots, view>>
          BY <1>1 DEF checkCaption
    <2>2. TokenTypes'
          BY <2>1 DEF IInv, TypeOK, TokenTypes, tokenVars
    <2>3. Core'
          BY <2>1 DEF IInv, Core, MapsAgree, PendingHasDeadline, Cleared,
                      OnlyOwnersListen, ListedWatchesHear, tokenVars
    <2>4. Informed'
          BY <2>1, NothingTold DEF IInv, ConnectedFirst, tokenVars
    <2> QED BY <2>2, <2>3, <2>4
  <1>2. CASE ~(t = NoToken \/ state[t] = "absent" \/ ~timer[t] \/ window[t] = w)
    <2>1. t \in Tokens /\ state[t] # "absent"
          BY <1>2 DEF Captions
    <2>2. CASE window[t] = NoWindow
      <3>1. state[t] = "pending"
            BY <2>1, <2>2, RegistryAssumption DEF IInv, TypeOK, MapsAgree
      <3>2. validate(t, w)
            BY <1>2, <2>2 DEF checkCaption
      <3> QED BY <2>1, <3>1, <3>2, ValidateKeeps
    <2>3. CASE window[t] # NoWindow
      <3>1. invalidate(t)
            BY <1>2, <2>3 DEF checkCaption
      <3> QED BY <2>1, <3>1, InvalidateKeeps
    <2> QED BY <2>2, <2>3
  <1> QED BY <1>1, <1>2

\* The parts of the invariant, put together again.
LEMMA Together ==
    ASSUME TokenTypes', Core', Informed', managed' \subseteq Windows,
           conn' \in [Clients -> {"none", "alive", "gone"}],
           left' \in [Clients -> 0..MaxBatch],
           wsWatch' \in [Clients -> SUBSET WsProps]
    PROVE  IInv'
  BY DEF IInv, TypeOK, TokenTypes, MessageTypes, Core, Informed

-----------------------------------------------------------------------------
(***************************************************************************)
(* The events of the window manager and of the timers.                     *)
(***************************************************************************)
LEMMA EventStep ==
    ASSUME IInv, WindowEvent \/ Deadline
    PROVE  IInv'
  <1>0. TypeOK
        BY DEF IInv
  <1>1. ASSUME NEW w \in Windows, NEW t \in Captions, onWindowAdded(w, t)
        PROVE  IInv'
    <2>1. TokenTypes' /\ Core' /\ Informed'
          BY <1>1, CaptionKeeps DEF onWindowAdded
    <2> QED BY <1>0, <1>1, <2>1, Together DEF onWindowAdded, TypeOK
  <1>2. ASSUME NEW w \in Windows, NEW t \in Captions, captionChanged(w, t)
        PROVE  IInv'
    <2>1. TokenTypes' /\ Core' /\ Informed'
          BY <1>2, CaptionKeeps DEF captionChanged
    <2> QED BY <1>0, <1>2, <2>1, Together DEF captionChanged, TypeOK
  <1>3. ASSUME NEW w \in Windows, onWindowRemoved(w)
        PROVE  IInv'
    <2>1. TokenTypes' /\ Core' /\ Informed'
      <3>1. CASE byWindow[w] # NoToken
        <4>1. byWindow[w] \in Tokens /\ state[byWindow[w]] = "active"
              BY <3>1, <1>0 DEF IInv, TypeOK, MapsAgree
        <4>2. invalidate(byWindow[w])
              BY <1>3, <3>1 DEF onWindowRemoved
        <4>3. \A v \in managed : v \in managed' \/ byWindow[v] \in {byWindow[w], NoToken}
              BY <1>3 DEF onWindowRemoved
        <4> QED BY <1>3, <4>1, <4>2, <4>3, InvalidateKeeps DEF onWindowRemoved
      <3>2. CASE byWindow[w] = NoToken
        <4>1. UNCHANGED <<tokenVars, watch, slots, owed, view, conn, left>>
              BY <1>3, <3>2 DEF onWindowRemoved
        <4>2. MapsAgree'
              BY <1>0, <1>3, <3>2, <4>1, RegistryAssumption
              DEF IInv, MapsAgree, TypeOK, onWindowRemoved, tokenVars
        <4>3. TokenTypes' /\ Informed'
              BY <4>1, NothingTold DEF IInv, TypeOK, TokenTypes, tokenVars,
                          ConnectedFirst
        <4>4. Core'
              BY <4>1, <4>2 DEF IInv, Core, PendingHasDeadline, Cleared,
                          OnlyOwnersListen, ListedWatchesHear, tokenVars
        <4> QED BY <4>3, <4>4
      <3> QED BY <3>1, <3>2
    <2> QED BY <1>0, <1>3, <2>1, Together DEF onWindowRemoved, TypeOK
  <1>4. ASSUME NEW t \in Tokens, onTokenDeadline(t)
        PROVE  IInv'
    <2>1. TokenTypes' /\ Core' /\ Informed'
      <3>1. CASE state[t] = "pending"
            BY <1>4, <3>1, InvalidateKeeps DEF onTokenDeadline
      <3>2. CASE state[t] # "pending"
        <4>1. /\ timer' = [timer EXCEPT ![t] = FALSE]
              /\ UNCHANGED <<state, owner, window, byWindow, watch, slots, owed,
                            view, conn, left, managed>>
              BY <1>4, <3>2 DEF onTokenDeadline
        <4>2. TokenTypes'
              BY <1>0, <4>1 DEF TypeOK, TokenTypes
        <4>3. PendingHasDeadline' /\ Cleared'
              BY <1>0, <4>1, <3>2 DEF IInv, PendingHasDeadline, Cleared, TypeOK
        <4>4. Core'
              BY <4>1, <4>3 DEF IInv, Core, MapsAgree, OnlyOwnersListen,
                          ListedWatchesHear
        <4>5. Informed'
              BY <4>1, NothingTold DEF IInv, ConnectedFirst
        <4> QED BY <4>2, <4>4, <4>5
      <3> QED BY <3>1, <3>2
    <2> QED BY <1>0, <1>4, <2>1, Together DEF onTokenDeadline, TypeOK
  <1> QED BY <1>1, <1>2, <1>3, <1>4 DEF WindowEvent, Deadline

(***************************************************************************)
(* Connections coming and going.                                           *)
(***************************************************************************)
LEMMA ControlStep ==
    ASSUME IInv, ControlEvent
    PROVE  IInv'
  <1>0. TypeOK
        BY DEF IInv
  <1>1. ASSUME NEW c \in Clients, onClientConnected(c)
        PROVE  IInv'
    <2>1. TokenTypes' /\ Core'
          BY <1>1 DEF IInv, onClientConnected, TypeOK, TokenTypes, tokenVars, Core,
             MapsAgree, PendingHasDeadline, Cleared, OnlyOwnersListen,
             ListedWatchesHear
    <2>2. \A t \in Tokens : owner[t] # c
          BY <1>1, RegistryAssumption DEF IInv, onClientConnected, ConnectedFirst
    <2>3. \A d \in Clients : d # c => conn'[d] = conn[d]
          BY <1>0, <1>1 DEF onClientConnected, TypeOK
    <2>4. ConnectedFirst'
          BY <1>0, <1>1, <2>2, <2>3 DEF IInv, onClientConnected, ConnectedFirst,
             tokenVars, TypeOK
    <2>5. /\ owed[c] = NoToken
          /\ \A t \in Tokens : t # NoToken /\ view[c][t] = "none"
          BY <1>1, RegistryAssumption DEF IInv, onClientConnected, Strangers
    <2>6. OwnersInformed'
          BY <1>1, <2>2, <2>3, <2>5 DEF IInv, onClientConnected, OwnersInformed,
             tokenVars
    <2>7. Strangers' /\ MessageTypes'
          BY <1>0, <1>1 DEF IInv, onClientConnected, Strangers, MessageTypes, TypeOK
    <2>8. Informed'
          BY <2>4, <2>6, <2>7 DEF Informed
    <2> QED BY <1>0, <1>1, <2>1, <2>8, Together
            DEF onClientConnected, TypeOK
  <1>2. ASSUME NEW c \in Clients, onClientDisconnected(c)
        PROVE  IInv'
    <2> DEFINE removed == {t \in Tokens : owner[t] = c}
    <2>1. /\ Remove(removed) /\ removed \in SUBSET Tokens
          /\ conn' = [conn EXCEPT ![c] = "gone"]
          /\ view' = [view EXCEPT ![c] = [t \in Tokens |-> "none"]]
          /\ wsWatch' = [wsWatch EXCEPT ![c] = {}]
          /\ UNCHANGED <<left, managed, owed>>
          BY <1>2 DEF onClientDisconnected
    <2>2. /\ view'[c] = [t \in Tokens |-> "none"]
          /\ \A d \in Clients \ {c} : view'[d] = view[d]
          /\ MessageTypes'
          BY <1>0, <2>1 DEF TypeOK, MessageTypes, Views
    <2>3. TokenTypes' /\ Core'
          BY <2>1, RemoveTypes, RemoveKeeps
    <2>4. \A t \in Tokens : /\ state'[t] = IF t \in removed THEN "absent" ELSE state[t]
                            /\ owner'[t] = IF t \in removed THEN NoClient ELSE owner[t]
          BY <2>1 DEF Remove
    <2>5. \A d \in Clients : conn'[d] = IF d = c THEN "gone" ELSE conn[d]
          BY <1>0, <2>1 DEF TypeOK
    <2>6. ConnectedFirst'
          BY <1>0, <2>1, <2>4, <2>5 DEF IInv, ConnectedFirst, TypeOK
    <2>7. Strangers'
          BY <2>1, <2>2, <2>5 DEF IInv, Strangers
    <2>8. OwnersInformed'
      <3> SUFFICES ASSUME NEW d \in Clients, NEW t \in Tokens,
                          conn'[d] = "alive", view'[d][t] # "missed"
                   PROVE  IF owner'[t] = d
                          THEN \/ view'[d][t] = state'[t]
                               \/ /\ view'[d][t] = "none" /\ state'[t] = "pending"
                                  /\ owed[d] = t
                          ELSE view'[d][t] = IF owed[d] = t THEN "gone" ELSE "none"
          BY <2>1 DEF OwnersInformed
      <3>1. d # c /\ conn[d] = "alive" /\ view'[d] = view[d]
            BY <2>2, <2>5
      <3>2. owner'[t] = d <=> owner[t] = d
            BY <2>4, <3>1, RegistryAssumption
      <3>3. owner[t] = d => state'[t] = state[t]
            BY <2>4, <3>1
      <3> QED BY <3>1, <3>2, <3>3 DEF IInv, OwnersInformed
    <2>9. Informed'
          BY <2>2, <2>6, <2>7, <2>8 DEF Informed
    <2> QED BY <1>0, <2>1, <2>3, <2>9, Together DEF TypeOK
  <1> QED BY <1>1, <1>2 DEF ControlEvent

(***************************************************************************)
(* The dispatch of a client's messages.                                    *)
(***************************************************************************)
LEMMA DispatchTypes ==
    ASSUME IInv, NEW c \in Clients, Dispatch(c)
    PROVE  /\ left' \in [Clients -> 0..MaxBatch]
           /\ conn[c] # "none" /\ owed[c] = NoToken
           /\ conn' = conn => \A d \in Clients : left'[d] > 0 => conn'[d] # "none"
  BY RegistryAssumption DEF IInv, TypeOK, Dispatch, ConnectedFirst

LEMMA LoopStep ==
    ASSUME IInv, ClientLoop
    PROVE  IInv'
  <1>0. TypeOK /\ TokenTypes
        BY DEF IInv, TypeOK, TokenTypes
  <1>1. ASSUME UNCHANGED <<conn, managed, tokenVars, watch, slots, owed, view>>,
               \A d \in Clients : left'[d] > 0 => conn'[d] # "none"
        PROVE  TokenTypes' /\ Core' /\ Informed'
    <2>1. TokenTypes' /\ Core'
          BY <1>0, <1>1 DEF IInv, TokenTypes, tokenVars, Core, MapsAgree,
             PendingHasDeadline, Cleared, OnlyOwnersListen, ListedWatchesHear
    <2>2. Informed'
          BY <1>1, NothingTold DEF tokenVars
    <2> QED BY <2>1, <2>2
  <1>2. ASSUME NEW c \in Clients, dispatchMessage(c)
        PROVE  IInv'
    <2>0. PICK t \in Tokens : owed[c] = t
          BY <1>0, <1>2 DEF dispatchMessage, TypeOK
    <2>a. PICK refused : view' = [view EXCEPT ![c][t] =
              IF conn[c] # "alive" THEN @
              ELSE IF @ = "none" THEN pushToClient(refused, t, "pending")
              ELSE IF @ = "gone" THEN "none" ELSE @]
          BY <1>2, <2>0, Zenon DEF dispatchMessage
    <2>b. view \in [Clients -> [Tokens -> Views]]
          BY <1>0 DEF TypeOK
    <2> DEFINE new == IF conn[c] # "alive" THEN view[c][t]
                      ELSE IF view[c][t] = "none"
                      THEN pushToClient(refused, t, "pending")
                      ELSE IF view[c][t] = "gone" THEN "none" ELSE view[c][t]
    <2>c. view' = [view EXCEPT ![c] = [view[c] EXCEPT ![t] = new]]
          BY <2>a, <2>b
    <2>1. /\ UNCHANGED <<conn, left, managed, tokenVars, watch, slots, wsWatch>>
          /\ owed'[c] = NoToken
          /\ \A d \in Clients \ {c} : owed'[d] = owed[d] /\ view'[d] = view[d]
          /\ \A u \in Tokens \ {t} : view'[c][u] = view[c][u]
          BY <1>0, <1>2, <2>b, <2>c DEF dispatchMessage, TypeOK
    <2>2. view'[c][t] = new
          BY <2>b, <2>c
    <2>3. MessageTypes'
      <3>1. owed' \in [Clients -> Tokens \cup {NoToken}]
            BY <1>0, <1>2 DEF dispatchMessage, TypeOK
      <3>2. new \in Views
            BY <2>b DEF pushToClient, Views
      <3>3. view' \in [Clients -> [Tokens -> Views]]
            BY <2>b, <2>c, <3>2
      <3> QED BY <3>1, <3>3 DEF MessageTypes
    <2>4. ConnectedFirst'
          BY <2>1 DEF IInv, ConnectedFirst, tokenVars
    <2>5. Strangers'
      <3>1. conn[c] # "none"
            BY <2>0, RegistryAssumption DEF IInv, Strangers
      <3> QED BY <2>1, <3>1 DEF IInv, Strangers
    <2>6. OwnersInformed'
      <3> SUFFICES ASSUME NEW d \in Clients, NEW u \in Tokens,
                          conn[d] = "alive", view'[d][u] # "missed"
                   PROVE  IF owner[u] = d
                          THEN \/ view'[d][u] = state[u]
                               \/ /\ view'[d][u] = "none" /\ state[u] = "pending"
                                  /\ owed'[d] = u
                          ELSE view'[d][u] = IF owed'[d] = u THEN "gone" ELSE "none"
          BY <2>1 DEF OwnersInformed, tokenVars
      <3>1. u # NoToken
            BY RegistryAssumption
      <3>2. CASE d # c
            BY <3>2, <2>1 DEF IInv, OwnersInformed
      <3>3. CASE d = c /\ u # t
            BY <3>1, <3>3, <2>0, <2>1 DEF IInv, OwnersInformed
      <3>4. CASE d = c /\ u = t
        <4>1. owed'[c] # t
              BY <3>1, <3>4, <2>1
        <4>2. view[c][t] # "missed"
              BY <3>4, <2>2
        <4>3. IF owner[t] = c
              THEN \/ view[c][t] = state[t]
                   \/ view[c][t] = "none" /\ state[t] = "pending"
              ELSE view[c][t] = "gone"
              BY <3>4, <4>2, <2>0 DEF IInv, OwnersInformed
        <4>4. state[t] \in {"absent", "pending", "active"}
              /\ (owner[t] = c => state[t] # "absent")
              BY <1>0, RegistryAssumption DEF IInv, TypeOK, Cleared
        <4> QED BY <3>4, <4>1, <4>3, <4>4, <2>2 DEF pushToClient
      <3> QED BY <3>2, <3>3, <3>4
    <2>7. Informed'
          BY <2>3, <2>4, <2>5, <2>6 DEF Informed
    <2>8. TokenTypes' /\ Core'
          BY <1>0, <2>1 DEF IInv, TokenTypes, tokenVars, Core, MapsAgree,
             PendingHasDeadline, Cleared, OnlyOwnersListen, ListedWatchesHear
    <2> QED BY <1>0, <2>1, <2>7, <2>8, Together DEF TypeOK
  <1>3. ASSUME NEW c \in Clients, NEW t \in Tokens, token_request(c, t)
        PROVE  IInv'
    <2>0. Dispatch(c) /\ conn' = conn /\ managed' = managed /\ state[t] = "absent"
          BY <1>3 DEF token_request, generateToken
    <2>1. /\ left' \in [Clients -> 0..MaxBatch]
          /\ conn[c] # "none" /\ owed[c] = NoToken
          /\ \A d \in Clients : left'[d] > 0 => conn'[d] # "none"
          BY <2>0, DispatchTypes
    <2>2. TokenTypes'
          BY <1>0, <1>3 DEF token_request, generateToken, TokenTypes
    <2>3. /\ state'[t] = "pending" /\ owner'[t] = c /\ timer'[t] = TRUE
          /\ \A u \in Tokens \ {t} : /\ state'[u] = state[u] /\ owner'[u] = owner[u]
                                    /\ timer'[u] = timer[u]
          /\ owed'[c] = t /\ \A d \in Clients \ {c} : owed'[d] = owed[d]
          /\ UNCHANGED <<window, byWindow, watch, slots, managed, view>>
          BY <1>0, <1>3 DEF token_request, generateToken, TokenTypes, TypeOK
    <2>4. MapsAgree' /\ PendingHasDeadline'
          BY <1>0, <2>0, <2>3 DEF IInv, MapsAgree, PendingHasDeadline, Cleared, TokenTypes
    <2>5. Cleared'
          BY <2>0, <2>3, RegistryAssumption DEF IInv, Cleared
    <2>6. OnlyOwnersListen' /\ ListedWatchesHear'
          BY <2>0, <2>3 DEF IInv, OnlyOwnersListen, ListedWatchesHear, TypeOK, Slot
    <2>7. ConnectedFirst'
          BY <2>0, <2>1, <2>3 DEF IInv, ConnectedFirst
    <2>8. OwnersInformed'
      <3> SUFFICES ASSUME NEW d \in Clients, NEW u \in Tokens,
                          conn[d] = "alive", view[d][u] # "missed"
                   PROVE  IF owner'[u] = d
                          THEN \/ view[d][u] = state'[u]
                               \/ /\ view[d][u] = "none" /\ state'[u] = "pending"
                                  /\ owed'[d] = u
                          ELSE view[d][u] = IF owed'[d] = u THEN "gone" ELSE "none"
          BY <2>0, <2>3 DEF OwnersInformed
      <3>1. u # NoToken /\ owner[t] = NoClient /\ owner[t] # d
            BY <2>0, RegistryAssumption DEF IInv, Cleared
      <3>2. CASE u = t /\ d = c
            BY <3>1, <3>2, <2>1, <2>3 DEF IInv, OwnersInformed
      <3>3. CASE u = t /\ d # c
            BY <3>1, <3>3, <2>3 DEF IInv, OwnersInformed
      <3>4. CASE u # t
            BY <3>1, <3>4, <2>1, <2>3 DEF IInv, OwnersInformed
      <3> QED BY <3>2, <3>3, <3>4
    <2>9. Strangers' /\ MessageTypes'
      <3>1. MessageTypes'
            BY <1>0, <1>3 DEF token_request, TypeOK, MessageTypes
      <3>2. Strangers'
            BY <2>0, <2>1, <2>3 DEF IInv, Strangers
      <3> QED BY <3>1, <3>2
    <2>10. Informed'
          BY <2>7, <2>8, <2>9 DEF Informed
    <2>11. Core'
          BY <2>4, <2>5, <2>6 DEF Core
    <2> QED BY <1>0, <1>3, <2>1, <2>2, <2>10, <2>11, Together
            DEF token_request, TypeOK
  <1>4. ASSUME NEW c \in Clients, NEW t \in Tokens, NEW p \in Props,
               window_watch(c, t, p)
        PROVE  IInv'
    <2>0. /\ Dispatch(c) /\ owner[t] = c /\ state[t] = "active"
          /\ UNCHANGED <<conn, managed, tokenVars, wsWatch, owed, view>>
          BY <1>4 DEF window_watch, resolveTokenWindow
    <2>1. /\ left' \in [Clients -> 0..MaxBatch]
          /\ \A d \in Clients : left'[d] > 0 => conn'[d] # "none"
          BY <2>0, DispatchTypes
    <2>2. CASE p \in watch[t].props
      <3>1. TokenTypes' /\ Core' /\ Informed'
            BY <1>1, <1>4, <2>0, <2>1, <2>2 DEF window_watch
      <3> QED BY <1>0, <2>0, <2>1, <3>1, Together DEF TypeOK
    <2>3. CASE p \notin watch[t].props
      <3> DEFINE new == [window |-> window[t], prop |-> p, token |-> t, conn |-> c]
      <3>1. window[t] \in Windows
            BY <1>0, <2>0 DEF IInv, MapsAgree, TypeOK
      <3>2. /\ watch'[t] = [window |-> window[t], props |-> watch[t].props \cup {p}]
            /\ \A u \in Tokens \ {t} : watch'[u] = watch[u]
            /\ watch' = [watch EXCEPT ![t] =
                  [window |-> window[t], props |-> watch[t].props \cup {p}]]
            /\ slots' = slots \cup {new}
            BY <1>0, <1>4, <2>3, <2>0 DEF IInv, window_watch, TokenTypes, Cleared
      <3>3. TokenTypes'
            BY <1>0, <2>0, <3>1, <3>2 DEF TokenTypes, tokenVars, Slot
      <3>4. MapsAgree' /\ PendingHasDeadline'
            BY <2>0 DEF IInv, MapsAgree, PendingHasDeadline, tokenVars
      <3>5. Cleared'
            BY <2>0, <3>2 DEF IInv, Cleared, tokenVars
      <3>6. OnlyOwnersListen'
        <4> SUFFICES ASSUME NEW s \in slots'
                     PROVE  /\ state'[s.token] = "active"
                            /\ owner'[s.token] = s.conn
                            /\ window'[s.token] = s.window
                            /\ watch'[s.token].window = s.window
                            /\ s.prop \in watch'[s.token].props
            BY DEF OnlyOwnersListen
        <4>1. CASE s = new
              BY <4>1, <2>0, <3>2 DEF tokenVars
        <4>2. CASE s \in slots
          <5>1. s.token \in Tokens
                BY <4>2, <1>0 DEF TokenTypes, Slot
          <5> QED BY <4>2, <5>1, <2>0, <3>2 DEF IInv, OnlyOwnersListen, tokenVars
        <4> QED BY <4>1, <4>2, <3>2
      <3>7. ListedWatchesHear'
        <4> SUFFICES ASSUME NEW u \in Tokens, NEW q \in Props, q \in watch'[u].props
                     PROVE  \E s \in slots' : /\ s.token = u /\ s.prop = q
                                             /\ s.window = window[u]
            BY <2>0 DEF ListedWatchesHear, tokenVars
        <4>1. CASE u = t /\ q = p
          <5>1. new \in slots' /\ new.token = t /\ new.prop = p /\ new.window = window[t]
                BY <3>2
          <5> QED BY <4>1, <5>1
        <4>2. CASE ~(u = t /\ q = p)
          <5>1. q \in watch[u].props
                BY <4>2, <3>2
          <5> QED BY <5>1, <3>2 DEF IInv, ListedWatchesHear
        <4> QED BY <4>1, <4>2
      <3>8. Informed'
            BY <2>0, <2>1, NothingTold DEF tokenVars
      <3> QED BY <1>0, <2>0, <2>1, <3>3, <3>4, <3>5, <3>6, <3>7, <3>8, Together
              DEF TypeOK, Core
    <2> QED BY <2>2, <2>3
  <1>5. ASSUME NEW c \in Clients, NEW t \in Tokens, NEW p \in Props,
               window_unwatch(c, t, p)
        PROVE  IInv'
    <2>0. /\ Dispatch(c) /\ state[t] = "active" /\ p \in watch[t].props
          /\ UNCHANGED <<conn, managed, tokenVars, wsWatch, owed, view>>
          BY <1>5 DEF window_unwatch, resolveTokenWindow
    <2>1. /\ left' \in [Clients -> 0..MaxBatch]
          /\ \A d \in Clients : left'[d] > 0 => conn'[d] # "none"
          BY <2>0, DispatchTypes
    <2>2. watch[t].window = window[t]
          BY <2>0 DEF IInv, Cleared
    <2> DEFINE rest == IF watch[t].props = {p} THEN NoWatch
                       ELSE [window |-> watch[t].window, props |-> watch[t].props \ {p}]
    <2>a. watch[t] \in [window : Windows \cup {NoWindow}, props : SUBSET Props]
          BY <1>0 DEF TokenTypes
    <2>3. /\ watch'[t].props = watch[t].props \ {p}
          /\ watch'[t].props # {} => watch'[t].window = watch[t].window
          /\ \A u \in Tokens \ {t} : watch'[u] = watch[u]
          /\ slots' = {s \in slots : ~(/\ s.token = t /\ s.prop = p
                                      /\ s.window = window[t])}
      <3>1. /\ watch' = [watch EXCEPT ![t] = rest]
            /\ slots' = slots \ {s \in slots : /\ s.token = t /\ s.prop = p
                                              /\ s.window = watch[t].window}
            BY <1>5 DEF window_unwatch
      <3>2. watch'[t] = rest /\ \A u \in Tokens \ {t} : watch'[u] = watch[u]
            BY <1>0, <3>1 DEF TokenTypes
      <3>3. /\ rest.props = watch[t].props \ {p}
            /\ rest.props # {} => rest.window = watch[t].window
            BY <2>a DEF NoWatch
      <3> QED BY <3>1, <3>2, <3>3, <2>2
    <2>4. TokenTypes'
      <3>1. rest \in [window : Windows \cup {NoWindow}, props : SUBSET Props]
            BY <2>a DEF NoWatch
      <3>2. watch' = [watch EXCEPT ![t] = rest]
            BY <1>5 DEF window_unwatch
      <3> QED BY <1>0, <2>0, <2>3, <3>1, <3>2 DEF TokenTypes, tokenVars
    <2>5. MapsAgree' /\ PendingHasDeadline'
          BY <2>0 DEF IInv, MapsAgree, PendingHasDeadline, tokenVars
    <2>6. Cleared'
          BY <2>0, <2>2, <2>3 DEF IInv, Cleared, tokenVars
    <2>7. OnlyOwnersListen'
      <3> SUFFICES ASSUME NEW s \in slots'
                   PROVE  /\ state[s.token] = "active"
                          /\ owner[s.token] = s.conn
                          /\ window[s.token] = s.window
                          /\ watch'[s.token].window = s.window
                          /\ s.prop \in watch'[s.token].props
          BY <2>0 DEF OnlyOwnersListen, tokenVars
      <3>1. /\ s \in slots /\ s.token \in Tokens
            /\ ~(s.token = t /\ s.prop = p /\ s.window = window[t])
            BY <1>0, <2>3 DEF TokenTypes, Slot
      <3> QED BY <3>1, <2>3 DEF IInv, OnlyOwnersListen
    <2>8. ListedWatchesHear'
      <3> SUFFICES ASSUME NEW u \in Tokens, NEW q \in Props, q \in watch'[u].props
                   PROVE  \E s \in slots' : /\ s.token = u /\ s.prop = q
                                           /\ s.window = window[u]
          BY <2>0 DEF ListedWatchesHear, tokenVars
      <3>1. q \in watch[u].props /\ ~(u = t /\ q = p)
            BY <2>3
      <3> QED BY <3>1, <2>3 DEF IInv, ListedWatchesHear
    <2>9. Informed'
          BY <2>0, <2>1, NothingTold DEF tokenVars
    <2> QED BY <1>0, <2>0, <2>1, <2>4, <2>5, <2>6, <2>7, <2>8, <2>9, Together
            DEF TypeOK, Core
  <1>6. ASSUME NEW c \in Clients, NEW p \in WsProps, NEW enable \in BOOLEAN,
               workspace_watch(c, p, enable)
        PROVE  IInv'
    <2>0. /\ Dispatch(c)
          /\ UNCHANGED <<conn, managed, tokenVars, watch, slots, owed, view>>
          BY <1>6 DEF workspace_watch
    <2>1. /\ left' \in [Clients -> 0..MaxBatch]
          /\ \A d \in Clients : left'[d] > 0 => conn'[d] # "none"
          BY <2>0, DispatchTypes
    <2>2. wsWatch' \in [Clients -> SUBSET WsProps]
          BY <1>0, <1>6 DEF workspace_watch, TypeOK
    <2>3. TokenTypes' /\ Core' /\ Informed'
          BY <1>1, <2>0, <2>1
    <2> QED BY <1>0, <2>0, <2>1, <2>2, <2>3, Together DEF TypeOK
  <1>7. ASSUME NEW c \in Clients, NoEffect(c)
        PROVE  IInv'
    <2>0. /\ Dispatch(c)
          /\ UNCHANGED <<conn, managed, tokenVars, watch, slots, wsWatch, owed, view>>
          BY <1>7 DEF NoEffect
    <2>1. /\ left' \in [Clients -> 0..MaxBatch]
          /\ \A d \in Clients : left'[d] > 0 => conn'[d] # "none"
          BY <2>0, DispatchTypes
    <2>2. TokenTypes' /\ Core' /\ Informed'
          BY <1>1, <2>0, <2>1
    <2> QED BY <1>0, <2>0, <2>1, <2>2, Together DEF TypeOK
  <1> QED BY <1>2, <1>3, <1>4, <1>5, <1>6, <1>7 DEF ClientLoop

-----------------------------------------------------------------------------
LEMMA StutterKeeps ==
    ASSUME IInv, UNCHANGED vars
    PROVE  IInv'
  BY DEF IInv, vars, tokenVars, TypeOK, MapsAgree, PendingHasDeadline, Cleared,
         OnlyOwnersListen, ListedWatchesHear, ConnectedFirst, Strangers,
         OwnersInformed

LEMMA NextKeeps ==
    ASSUME IInv, [Next]_vars
    PROVE  IInv'
  BY EventStep, ControlStep, LoopStep, StutterKeeps DEF Next

(***************************************************************************)
(* Tokens, watches and connections are kept together by every event, for   *)
(* any number of clients, tokens, windows and properties.                  *)
(***************************************************************************)
THEOREM Invariance == Spec => []IInv
  <1>1. Init => IInv
        BY InitIInv
  <1>2. IInv /\ [Next]_vars => IInv'
        BY NextKeeps
  <1> QED BY <1>1, <1>2, PTL DEF Spec

(***************************************************************************)
(* The fields of a token entry, the maps and the watches have their types  *)
(* (TokenEntry, WatchState).                                               *)
(***************************************************************************)
THEOREM TypeCorrect == Spec => []TypeOK
  <1>1. IInv => TypeOK
        BY DEF IInv
  <1> QED BY <1>1, Invariance, PTL

(***************************************************************************)
(* byToken and byWindow always agree (tokens.ts).                          *)
(***************************************************************************)
THEOREM MapsAlwaysAgree == Spec => []MapsAgree
  <1>1. IInv => MapsAgree
        BY DEF IInv
  <1> QED BY <1>1, Invariance, PTL

(***************************************************************************)
(* A token that waits for its window has a running timer, so onTokenDeadline *)
(* will settle it (token.request).                                         *)
(***************************************************************************)
THEOREM DeadlinesSet == Spec => []PendingHasDeadline
  <1>1. IInv => PendingHasDeadline
        BY DEF IInv
  <1> QED BY <1>1, Invariance, PTL

(***************************************************************************)
(* A handler on a window belongs to the owner of the active token of that  *)
(* window, and every watch that the script lists has its handler           *)
(* connected, so turning it on again rightly does nothing (setWatch and    *)
(* dropClientWatches in windows.ts).                                       *)
(***************************************************************************)
THEOREM WatchesMatch == Spec => []HandlersMatchWatches
  <1>1. IInv => HandlersMatchWatches
        BY DEF IInv, HandlersMatchWatches
  <1> QED BY <1>1, Invariance, PTL

(***************************************************************************)
(* The replies and notifications a connected client got about its tokens   *)
(* add up to what the registry holds, whichever come first, but for the    *)
(* tokens of which a push was refused (tokens.ts, dispatchMessage).        *)
(***************************************************************************)
THEOREM OwnersAlwaysInformed == Spec => []OwnersInformed
  <1>1. IInv => OwnersInformed
        BY DEF IInv
  <1> QED BY <1>1, Invariance, PTL

-----------------------------------------------------------------------------
\* A bound token stays as it is or leaves.
Fixed ==
    \A t \in Tokens : state[t] = "active" /\ state'[t] = "active" =>
        window'[t] = window[t] /\ owner'[t] = owner[t]

\* What a caption may do to a bound token whose deadline is over: supersede it.
CaptionSupersedes ==
    \A t \in Tokens : state[t] = "active" /\ ~timer[t] /\ state'[t] # "active" =>
        byWindow'[window[t]] \notin {t, NoToken}

LEMMA RemoveFixes ==
    ASSUME IInv, NEW T \in SUBSET Tokens, Remove(T)
    PROVE  /\ Fixed
           /\ \A t \in Tokens : state'[t] # state[t] => t \in T
  BY DEF IInv, TypeOK, Remove, Fixed

LEMMA CaptionFixes ==
    ASSUME IInv, NEW w \in Windows, NEW t \in Captions, checkCaption(w, t)
    PROVE  Fixed /\ CaptionSupersedes
  <1>0. TypeOK
        BY DEF IInv
  <1>1. CASE t = NoToken \/ state[t] = "absent" \/ ~timer[t] \/ window[t] = w
        BY <1>1 DEF checkCaption, tokenVars, Fixed, CaptionSupersedes
  <1>2. CASE ~(t = NoToken \/ state[t] = "absent" \/ ~timer[t] \/ window[t] = w)
    <2>1. t \in Tokens
          BY <1>2 DEF Captions
    <2>2. CASE window[t] = NoWindow
      <3>1. validate(t, w)
            BY <1>2, <2>2 DEF checkCaption
      <3>2. state[t] # "active"
            BY <2>1, <2>2, <1>0, RegistryAssumption DEF IInv, MapsAgree, TypeOK
      <3>3. Fixed
            BY <1>0, <2>1, <3>1, <3>2 DEF validate, Fixed, TypeOK
      <3>4. ASSUME NEW u \in Tokens, state[u] = "active", state'[u] # "active"
            PROVE  byWindow'[window[u]] \notin {u, NoToken}
        <4>1. u # t /\ byWindow[w] = u
              BY <1>0, <3>1, <3>2, <3>4 DEF validate, TypeOK
        <4>2. window[u] = w
              BY <4>1, RegistryAssumption DEF IInv, MapsAgree
        <4>3. byWindow'[w] = t
              BY <3>1 DEF validate
        <4> QED BY <2>1, <4>1, <4>2, <4>3, RegistryAssumption
      <3> QED BY <3>3, <3>4 DEF CaptionSupersedes
    <2>3. CASE window[t] # NoWindow
      <3>1. Remove({t}) /\ timer[t]
            BY <1>2, <2>3 DEF checkCaption, invalidate
      <3> QED BY <2>1, <3>1, RemoveFixes DEF CaptionSupersedes
    <2> QED BY <2>2, <2>3
  <1> QED BY <1>1, <1>2

(***************************************************************************)
(* No step moves a bound token (checkCaption withdraws an ambiguous token, *)
(* it does not bind it anew).                                              *)
(***************************************************************************)
THEOREM BindingsFixed == Spec => BindingFixed
  <1>1. ASSUME IInv, Next
        PROVE  Fixed
    <2>0. TypeOK
          BY <1>1 DEF IInv
    <2>1. CASE WindowEvent
      <3>1. ASSUME NEW w \in Windows, NEW t \in Captions,
                   onWindowAdded(w, t) \/ captionChanged(w, t)
            PROVE  Fixed
            BY <1>1, <3>1, CaptionFixes DEF onWindowAdded, captionChanged
      <3>2. ASSUME NEW w \in Windows, onWindowRemoved(w)
            PROVE  Fixed
        <4>1. CASE byWindow[w] # NoToken
          <5>1. byWindow[w] \in Tokens /\ Remove({byWindow[w]})
                BY <2>0, <3>2, <4>1 DEF onWindowRemoved, invalidate, TypeOK
          <5> QED BY <1>1, <5>1, RemoveFixes
        <4>2. CASE byWindow[w] = NoToken
              BY <3>2, <4>2 DEF onWindowRemoved, tokenVars, Fixed
        <4> QED BY <4>1, <4>2
      <3> QED BY <2>1, <3>1, <3>2 DEF WindowEvent
    <2>2. ASSUME NEW t \in Tokens, onTokenDeadline(t)
          PROVE  Fixed
          BY <1>1, <2>2, RemoveFixes DEF onTokenDeadline, invalidate, Fixed
    <2>3. ASSUME NEW c \in Clients, onClientDisconnected(c)
          PROVE  Fixed
      <3>1. Remove({t \in Tokens : owner[t] = c})
            BY <2>3 DEF onClientDisconnected
      <3>2. {t \in Tokens : owner[t] = c} \in SUBSET Tokens
            OBVIOUS
      <3> QED BY <1>1, <3>1, <3>2, RemoveFixes
    <2>4. ASSUME NEW c \in Clients, onClientConnected(c)
          PROVE  Fixed
          BY <2>4 DEF onClientConnected, tokenVars, Fixed
    <2>5. CASE ClientLoop
          BY <2>0, <2>5 DEF ClientLoop, dispatchMessage, token_request, generateToken,
                 window_watch,
             window_unwatch, workspace_watch, NoEffect, tokenVars, Fixed, TypeOK
    <2> QED BY <1>1, <2>1, <2>2, <2>3, <2>4, <2>5 DEF Next, Deadline, ControlEvent
  <1>2. IInv /\ [Next]_vars => [Fixed]_vars
        BY <1>1
  <1>3. Spec => [][Fixed]_vars
        BY <1>2, Invariance, PTL DEF Spec
  <1> QED BY <1>3 DEF BindingFixed, Fixed

\* How a bound token may end once its deadline is over.
Closed ==
    \A t \in Tokens : state[t] = "active" /\ ~timer[t] /\ state'[t] # "active"
        => \/ window[t] \notin managed'
           \/ conn'[owner[t]] = "gone"
           \/ byWindow'[window[t]] \notin {t, NoToken}

(***************************************************************************)
(* After its deadline a bound token is ended only by its window or client  *)
(* going or by another token taking the window (checkCaption,              *)
(* onTokenDeadline).                                                       *)
(***************************************************************************)
THEOREM DeadlineCloses == Spec => DeadlineClosesAmbiguity
  <1>1. ASSUME IInv, Next
        PROVE  Closed
    <2>0. TypeOK
          BY <1>1 DEF IInv
    <2>1. CASE WindowEvent
      <3>1. ASSUME NEW w \in Windows, NEW t \in Captions,
                   onWindowAdded(w, t) \/ captionChanged(w, t)
            PROVE  Closed
        <4>1. CaptionSupersedes
              BY <1>1, <3>1, CaptionFixes DEF onWindowAdded, captionChanged
        <4> QED BY <4>1 DEF CaptionSupersedes, Closed
      <3>2. ASSUME NEW w \in Windows, onWindowRemoved(w)
            PROVE  Closed
        <4>1. CASE byWindow[w] # NoToken
          <5>1. byWindow[w] \in Tokens /\ Remove({byWindow[w]})
                BY <2>0, <3>2, <4>1 DEF onWindowRemoved, invalidate, TypeOK
          <5>2. \A t \in Tokens : state'[t] # state[t] => t = byWindow[w]
                BY <1>1, <5>1, RemoveFixes
          <5>3. window[byWindow[w]] = w /\ w \notin managed'
                BY <1>1, <3>2, <4>1 DEF IInv, MapsAgree, onWindowRemoved
          <5> QED BY <5>2, <5>3 DEF Closed
        <4>2. CASE byWindow[w] = NoToken
              BY <3>2, <4>2 DEF onWindowRemoved, tokenVars, Closed
        <4> QED BY <4>1, <4>2
      <3> QED BY <2>1, <3>1, <3>2 DEF WindowEvent
    <2>2. ASSUME NEW t \in Tokens, onTokenDeadline(t)
          PROVE  Closed
      <3>1. CASE state[t] = "pending"
        <4>1. Remove({t}) /\ {t} \in SUBSET Tokens
              BY <2>2, <3>1 DEF onTokenDeadline, invalidate
        <4> QED BY <1>1, <3>1, <4>1, RemoveFixes DEF Closed
      <3>2. CASE state[t] # "pending"
            BY <2>2, <3>2 DEF onTokenDeadline, Closed
      <3> QED BY <3>1, <3>2
    <2>3. ASSUME NEW c \in Clients, onClientDisconnected(c)
          PROVE  Closed
      <3>1. Remove({t \in Tokens : owner[t] = c}) /\ conn'[c] = "gone"
            BY <2>0, <2>3 DEF onClientDisconnected, TypeOK
      <3>2. {t \in Tokens : owner[t] = c} \in SUBSET Tokens
            OBVIOUS
      <3>3. \A t \in Tokens : state'[t] # state[t] => owner[t] = c
            BY <1>1, <3>1, <3>2, RemoveFixes
      <3> QED BY <3>1, <3>3 DEF Closed
    <2>4. ASSUME NEW c \in Clients, onClientConnected(c)
          PROVE  Closed
          BY <2>4 DEF onClientConnected, tokenVars, Closed
    <2>5. CASE ClientLoop
          BY <2>0, <2>5 DEF ClientLoop, dispatchMessage, token_request, generateToken,
                 window_watch,
             window_unwatch, workspace_watch, NoEffect, tokenVars, Closed, TypeOK
    <2> QED BY <1>1, <2>1, <2>2, <2>3, <2>4, <2>5 DEF Next, Deadline, ControlEvent
  <1>2. IInv /\ [Next]_vars => [Closed]_vars
        BY <1>1
  <1>3. Spec => [][Closed]_vars
        BY <1>2, Invariance, PTL DEF Spec
  <1> QED BY <1>3 DEF DeadlineClosesAmbiguity, Closed
-----------------------------------------------------------------------------
\* The claims of the active tokens: what the mapping makes of the registry.
Claim ==
    [t \in Tokens |-> IF state[t] = "active"
                      THEN [owner |-> owner[t], window |-> window[t]]
                      ELSE Unclaimed]

\* A step of Claims, or none.
ClaimStep == C!Next \/ Claim' = Claim

\* A token has a claim exactly if it is active: an active token has an owner.
LEMMA ClaimIsActive ==
    ASSUME IInv
    PROVE  \A t \in Tokens : /\ Claim[t] # Unclaimed <=> state[t] = "active"
                             /\ state[t] = "active" =>
                                   /\ Claim[t].owner = owner[t]
                                   /\ Claim[t].window = window[t]
                                   /\ owner[t] \in Clients
  <1> TAKE t \in Tokens
  <1>1. state[t] = "active" => owner[t] # NoClient /\ owner[t] \in Clients
        BY DEF IInv, TypeOK, Cleared
  <1>2. state[t] = "active" => Claim[t] = [owner |-> owner[t], window |-> window[t]]
        BY DEF Claim
  <1>3. state[t] # "active" => Claim[t] = Unclaimed
        BY DEF Claim
  <1>4. ASSUME state[t] = "active" PROVE Claim[t] # Unclaimed
    <2>1. Claim[t].owner # NoClient
          BY <1>1, <1>2, <1>4
    <2>2. Unclaimed.owner = NoClient
          BY DEF Unclaimed
    <2> QED BY <2>1, <2>2
  <1> QED BY <1>1, <1>2, <1>3, <1>4

LEMMA RemoveReleases ==
    ASSUME IInv, NEW T \in SUBSET Tokens, Remove(T)
    PROVE  Claim' = [u \in Tokens |-> IF u \in T THEN Unclaimed ELSE Claim[u]]
  BY DEF IInv, TypeOK, Remove, Claim

LEMMA InvalidateReleases ==
    ASSUME IInv, NEW t \in Tokens, Remove({t})
    PROVE  ClaimStep
  <1>1. Claim' = [u \in Tokens |-> IF u \in {t} THEN Unclaimed ELSE Claim[u]]
        BY RemoveReleases
  <1>2. C!Release({t})
        BY <1>1 DEF C!Release, Claim
  <1> QED BY <1>2 DEF ClaimStep, C!Next

LEMMA ValidateBinds ==
    ASSUME IInv, NEW t \in Tokens, NEW w \in Windows, state[t] = "pending",
           validate(t, w)
    PROVE  ClaimStep
  <1> DEFINE old == {byWindow[w]} \ {NoToken, t}
             sup == {u \in Tokens \ {t} : Claim[u] # Unclaimed /\ Claim[u].window = w}
  <1>0. TypeOK /\ MapsAgree /\ Cleared
        BY DEF IInv
  <1>1. sup = old
    <2>1. ASSUME NEW u \in sup PROVE u \in old
      <3>1. u \in Tokens \ {t} /\ state[u] = "active" /\ window[u] = w
            BY <2>1, ClaimIsActive
      <3> QED BY <3>1, <1>0, RegistryAssumption DEF MapsAgree
    <2>2. ASSUME NEW u \in old PROVE u \in sup
      <3>1. u \in Tokens \ {t} /\ state[u] = "active" /\ window[u] = w
            BY <2>2, <1>0 DEF MapsAgree, TypeOK
      <3> QED BY <3>1, ClaimIsActive
    <2> QED BY <2>1, <2>2
  <1>2. owner[t] \in Clients
        BY <1>0 DEF Cleared, TypeOK
  <1>3. Claim[t] = Unclaimed
        BY DEF Claim
  <1>4. Claim' = [u \in Tokens |->
                    IF u = t THEN [owner |-> owner[t], window |-> w]
                    ELSE IF u \in old THEN Unclaimed ELSE Claim[u]]
        BY <1>0 DEF validate, Claim, TypeOK
  <1>5. C!Bind(t, owner[t], w)
        BY <1>1, <1>3, <1>4 DEF C!Bind, C!Superseded, C!Claimed, Claim
  <1> QED BY <1>2, <1>5 DEF ClaimStep, C!Next

(***************************************************************************)
(* The registry implements Claims, for any number of clients, tokens and   *)
(* windows: seen from the methods that take a token (resolveTokenWindow),  *)
(* tokens.ts only ever binds a token that has no claim, superseding the    *)
(* one that holds the window, withdraws one, or drops a client's.          *)
(***************************************************************************)
THEOREM RegistryImplementsClaims == Spec => ImplementsClaims
  <1>1. Init => C!Init
        BY DEF Init, C!Init
  <1>2. ASSUME IInv, Next
        PROVE  ClaimStep
    <2>0. TypeOK
          BY <1>2 DEF IInv
    <2>1. CASE WindowEvent
      <3>1. ASSUME NEW w \in Windows, NEW t \in Captions, checkCaption(w, t)
            PROVE  ClaimStep
        <4>1. CASE t = NoToken \/ state[t] = "absent" \/ ~timer[t] \/ window[t] = w
              BY <3>1, <4>1 DEF checkCaption, tokenVars, ClaimStep, Claim
        <4>2. CASE ~(t = NoToken \/ state[t] = "absent" \/ ~timer[t] \/ window[t] = w)
          <5>1. t \in Tokens
                BY <4>2 DEF Captions
          <5>2. CASE window[t] = NoWindow
            <6>1. state[t] = "pending"
                  BY <1>2, <2>0, <4>2, <5>1, <5>2, RegistryAssumption
                  DEF IInv, MapsAgree, TypeOK
            <6>2. validate(t, w)
                  BY <3>1, <4>2, <5>2 DEF checkCaption
            <6> QED BY <1>2, <5>1, <6>1, <6>2, ValidateBinds
          <5>3. CASE window[t] # NoWindow
            <6>1. Remove({t})
                  BY <3>1, <4>2, <5>3 DEF checkCaption, invalidate
            <6> QED BY <1>2, <5>1, <6>1, InvalidateReleases
          <5> QED BY <5>2, <5>3
        <4> QED BY <4>1, <4>2
      <3>2. ASSUME NEW w \in Windows, onWindowRemoved(w)
            PROVE  ClaimStep
        <4>1. CASE byWindow[w] # NoToken
          <5>1. byWindow[w] \in Tokens /\ Remove({byWindow[w]})
                BY <2>0, <3>2, <4>1 DEF onWindowRemoved, invalidate, TypeOK
          <5> QED BY <1>2, <5>1, InvalidateReleases
        <4>2. CASE byWindow[w] = NoToken
              BY <3>2, <4>2 DEF onWindowRemoved, tokenVars, ClaimStep, Claim
        <4> QED BY <4>1, <4>2
      <3> QED BY <2>1, <3>1, <3>2 DEF WindowEvent, onWindowAdded, captionChanged
    <2>2. ASSUME NEW t \in Tokens, onTokenDeadline(t)
          PROVE  ClaimStep
      <3>1. CASE state[t] = "pending"
        <4>1. Remove({t})
              BY <2>2, <3>1 DEF onTokenDeadline, invalidate
        <4> QED BY <1>2, <4>1, InvalidateReleases
      <3>2. CASE state[t] # "pending"
            BY <2>2, <3>2 DEF onTokenDeadline, ClaimStep, Claim
      <3> QED BY <3>1, <3>2
    <2>3. ASSUME NEW c \in Clients, onClientDisconnected(c)
          PROVE  ClaimStep
      <3> DEFINE removed == {t \in Tokens : owner[t] = c}
                 owned == {t \in Tokens : Claim[t] # Unclaimed /\ Claim[t].owner = c}
      <3>1. Remove(removed)
            BY <2>3 DEF onClientDisconnected
      <3>2. Claim' = [u \in Tokens |-> IF u \in removed THEN Unclaimed ELSE Claim[u]]
            BY <1>2, <3>1, RemoveReleases
      <3>3. ASSUME NEW u \in Tokens
            PROVE  u \in owned <=> u \in removed /\ Claim[u] # Unclaimed
        <4>1. Claim[u] # Unclaimed => Claim[u].owner = owner[u]
              BY <1>2, ClaimIsActive
        <4> QED BY <4>1
      <3>4. Claim' = [u \in Tokens |-> IF u \in owned THEN Unclaimed ELSE Claim[u]]
            BY <3>2, <3>3
      <3>5. C!Release(C!OwnedBy(c))
            BY <3>4 DEF C!Release, C!OwnedBy, Claim
      <3> QED BY <3>5 DEF ClaimStep, C!Next
    <2>4. ASSUME NEW c \in Clients, onClientConnected(c)
          PROVE  ClaimStep
          BY <2>4 DEF onClientConnected, tokenVars, ClaimStep, Claim
    <2>5. CASE ClientLoop
      <3>1. ASSUME NEW c \in Clients, NEW t \in Tokens, token_request(c, t)
            PROVE  ClaimStep
        <4>1. Claim' = Claim
              BY <2>0, <3>1 DEF token_request, generateToken, Claim, TypeOK
        <4> QED BY <4>1 DEF ClaimStep
      <3>2. CASE UNCHANGED tokenVars
            BY <3>2 DEF tokenVars, ClaimStep, Claim
      <3> QED BY <2>5, <3>1, <3>2 DEF ClientLoop, dispatchMessage, window_watch,
                 window_unwatch, workspace_watch, NoEffect
    <2> QED BY <1>2, <2>1, <2>2, <2>3, <2>4, <2>5 DEF Next, Deadline, ControlEvent
  <1>3. UNCHANGED vars => Claim' = Claim
        BY DEF vars, tokenVars, Claim
  <1>4. IInv /\ [Next]_vars => C!Next \/ Claim' = Claim
        BY <1>2, <1>3 DEF ClaimStep
  <1>5. IInv /\ [Next]_vars => [C!Next]_Claim
        BY <1>4
  <1> QED BY <1>1, <1>5, Invariance, PTL DEF Spec, ImplementsClaims, C!Spec, Claim
=============================================================================
