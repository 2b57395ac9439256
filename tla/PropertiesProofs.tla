-------------------------- MODULE PropertiesProofs --------------------------
(***************************************************************************)
(* Proofs about Properties: updates name only desktops and activities that *)
(* exist, and a client that watches a property and asks for it knows its   *)
(* value, for any number of clients, tokens, windows, desktops and         *)
(* activities.                                                             *)
(***************************************************************************)
EXTENDS Properties, TLAPS

Subjects == Clients \cup Tokens

\* The catalogs are those of KWin, and the records have their fields.
KwinTypes ==
    /\ ws \in Workspace /\ win \in [Windows -> Window]
    /\ desktopsById = ws.desktops /\ activitiesById = ws.activities

ScriptTypes ==
    /\ claim \in [Tokens -> [owner : Clients, window : Windows] \cup {NoClaim}]
    /\ spent \subseteq Tokens
    /\ alive \in [Clients -> BOOLEAN]
    /\ pending = [c \in Clients |-> pending[c]]

\* A claim is of a token drawn once and of a client that is connected.
ClaimsLive ==
    \A t \in Tokens : claim[t] # NoClaim => t \in spent /\ alive[claim[t].owner]

\* A watch on a window goes through an active token.
WatchClaimed ==
    \A pr \in watch : /\ pr[1] \in Subjects
                      /\ pr[1] \in Tokens => claim[pr[1]] # NoClaim

\* What is known is of watched properties, and its client is there.
KnowWatched ==
    /\ DOMAIN know \subseteq watch
    /\ \A pr \in DOMAIN know : pr[1] \in Clients => alive[pr[1]]

\* A query asks only about what belongs to the client.
PendingOwn ==
    \A c \in Clients : \A pr \in DOMAIN pending[c] :
        /\ pr[1] \in Subjects
        /\ pr[1] \in Clients => pr[1] = c
        /\ pr[1] \in Tokens =>
              /\ pr[1] \in spent
              /\ claim[pr[1]] # NoClaim => claim[pr[1]].owner = c

\* A result that nobody has overtaken is still what KWin has.
PendingFresh ==
    \A c \in Clients : \A pr \in DOMAIN pending[c] :
        alive[c] /\ pr \in watch /\ pr \notin told \cup missed
           => pending[c][pr] = Value(pr)

IInv == /\ KwinTypes /\ ScriptTypes /\ IdsExist
        /\ ClaimsLive /\ WatchClaimed /\ KnowWatched /\ PendingOwn
        /\ PendingFresh /\ WatchersKnow

LEMMA Initially == Init => IInv
  <1> SUFFICES ASSUME Init PROVE IInv
        OBVIOUS
  <1>1. KwinTypes /\ IdsExist
    <2>1. /\ ws \in Workspace /\ ws.currentDesktop \in ws.desktops
          /\ ws.currentActivity \in ws.activities
          BY DEF Init
    <2>2. /\ win \in [Windows -> Window]
          /\ \A w \in Windows : win[w].desktops = {ws.currentDesktop}
                                /\ win[w].activities = {}
      <3> DEFINE r == [desktops |-> {ws.currentDesktop}, activities |-> {},
                       keepAbove |-> FALSE]
      <3>1. r \in Window
            BY <2>1 DEF Window, Workspace
      <3>2. r.desktops = {ws.currentDesktop} /\ r.activities = {}
            OBVIOUS
      <3>3. win \in [Windows -> {r}]
            BY DEF Init
      <3> HIDE DEF r
      <3> QED BY <3>1, <3>2, <3>3
    <2> QED BY <2>1, <2>2 DEF Init, KwinTypes, IdsExist
  <1>2. ScriptTypes
        BY DEF Init, C!Init, ScriptTypes
  <1>3. /\ watch = {} /\ DOMAIN know = {}
        /\ \A c \in Clients : DOMAIN pending[c] = {}
        /\ \A t \in Tokens : claim[t] = NoClaim
        BY DEF Init, C!Init, Nothing
  <1>4. /\ ClaimsLive /\ WatchClaimed /\ KnowWatched /\ PendingOwn
        /\ PendingFresh /\ WatchersKnow
        BY <1>3 DEF ClaimsLive, WatchClaimed, KnowWatched, PendingOwn,
                    PendingFresh, WatchersKnow
  <1> QED BY <1>1, <1>2, <1>4 DEF IInv

-----------------------------------------------------------------------------
(***************************************************************************)
(* The client of a watch whose value is known, or asked for, is there: its *)
(* handlers are called (notifyClient).                                     *)
(***************************************************************************)
LEMMA KnownIsAlive ==
  ASSUME IInv, NEW pr \in DOMAIN know
  PROVE  pr \in watch /\ alive[OwnerOf(pr[1])]
  BY DEF IInv, KnowWatched, WatchClaimed, ClaimsLive, OwnerOf, Subjects

LEMMA PendingIsOwn ==
  ASSUME IInv, NEW c \in Clients, NEW pr \in DOMAIN pending[c], pr \in watch
  PROVE  OwnerOf(pr[1]) = c
  BY DEF IInv, PendingOwn, WatchClaimed, OwnerOf, Subjects

(***************************************************************************)
(* KWin changes values and calls the handlers: who knew a value knows the  *)
(* new one, or missed it.                                                  *)
(***************************************************************************)
LEMMA EmitKeeps ==
  ASSUME IInv, Emit, UNCHANGED <<claim, spent, alive, watch, pending>>
  PROVE  /\ ScriptTypes' /\ ClaimsLive' /\ WatchClaimed' /\ KnowWatched'
         /\ PendingOwn' /\ PendingFresh' /\ WatchersKnow'
  <1> DEFINE heard == {pr \in watch : Value(pr)' # Value(pr) /\ alive[OwnerOf(pr[1])]}
  <1>1. PICK sent \in SUBSET heard :
            /\ know' = Over([pr \in sent |-> Value(pr)'], Except(heard))
            /\ told' = (told \ heard) \cup sent
            /\ missed' = (missed \cup heard) \ sent
        BY DEF Emit
  <1>2. \A pr \in heard : pr \in watch /\ alive[OwnerOf(pr[1])]
        OBVIOUS
  <1>3. \A pr \in watch \ heard : Value(pr)' = Value(pr) \/ ~alive[OwnerOf(pr[1])]
        OBVIOUS
  <1> HIDE DEF heard
  <1>4. /\ DOMAIN know' = sent \cup (DOMAIN know \ heard)
        /\ \A pr \in sent : know'[pr] = Value(pr)'
        /\ \A pr \in DOMAIN know \ heard : pr \notin sent => know'[pr] = know[pr]
    <2> DEFINE new == [pr \in sent |-> Value(pr)']
               old == Except(heard)
    <2>1. DOMAIN new = sent /\ \A pr \in sent : new[pr] = Value(pr)'
          OBVIOUS
    <2>2. /\ DOMAIN old = DOMAIN know \ heard
          /\ \A pr \in DOMAIN know \ heard : old[pr] = know[pr]
          BY DEF Except
    <2>3. know' = Over(new, old)
          BY <1>1
    <2> HIDE DEF new, old
    <2> QED BY <2>1, <2>2, <2>3 DEF Over
  <1>5. ScriptTypes' /\ ClaimsLive' /\ WatchClaimed' /\ PendingOwn'
        BY DEF IInv, ScriptTypes, ClaimsLive, WatchClaimed, PendingOwn
  <1>6. KnowWatched'
    <2>1. \A pr \in heard : pr[1] \in Clients => alive[pr[1]]
          BY <1>2 DEF OwnerOf
    <2>2. heard \subseteq watch
          BY <1>2
    <2> QED BY <1>4, <2>1, <2>2 DEF IInv, KnowWatched
  <1>7. WatchersKnow'
    <2> SUFFICES ASSUME NEW pr \in DOMAIN know' PROVE know'[pr] = Value(pr)'
        BY DEF WatchersKnow
    <2>1. CASE pr \in sent
          BY <1>4, <2>1
    <2>2. CASE pr \notin sent
      <3>1. pr \in DOMAIN know /\ pr \notin heard /\ know'[pr] = know[pr]
            BY <1>4, <2>2
      <3>2. pr \in watch /\ alive[OwnerOf(pr[1])]
            BY <3>1, KnownIsAlive
      <3>3. Value(pr)' = Value(pr)
            BY <1>3, <3>1, <3>2
      <3>4. know[pr] = Value(pr)
            BY <3>1 DEF IInv, WatchersKnow
      <3> QED BY <3>1, <3>3, <3>4
    <2> QED BY <2>1, <2>2
  <1>8. PendingFresh'
    <2> SUFFICES ASSUME NEW c \in Clients, NEW pr \in DOMAIN pending[c],
                        alive[c], pr \in watch, pr \notin told' \cup missed'
                 PROVE  pending[c][pr] = Value(pr)'
        BY DEF PendingFresh
    <2>1. pr \notin heard /\ pr \notin told \cup missed
          BY <1>1
    <2>2. alive[OwnerOf(pr[1])]
          BY PendingIsOwn
    <2>3. Value(pr)' = Value(pr)
          BY <1>3, <2>1, <2>2
    <2>4. pending[c][pr] = Value(pr)
          BY <2>1 DEF IInv, PendingFresh
    <2> QED BY <2>3, <2>4
  <1> QED BY <1>5, <1>6, <1>7, <1>8

(***************************************************************************)
(* Watches end: of the others nothing changes, if their tokens stay bound  *)
(* and their clients connected.                                            *)
(***************************************************************************)
LEMMA KeepKeeps ==
  ASSUME IInv, NEW pairs, Keep(pairs), UNCHANGED <<kwin, pending>>,
         \A pr \in watch \cap pairs :
             /\ pr[1] \in Tokens => claim'[pr[1]] = claim[pr[1]]
             /\ pr[1] \in Clients => alive'[pr[1]] = alive[pr[1]],
         \A c \in Clients : alive'[c] => alive[c]
  PROVE  WatchClaimed' /\ KnowWatched' /\ PendingFresh' /\ WatchersKnow'
  <1>1. /\ watch' = watch \cap pairs
        /\ told' = told \cap pairs /\ missed' = missed \cap pairs
        BY DEF Keep
  <1>2. /\ DOMAIN know' = DOMAIN know \cap pairs
        /\ \A pr \in DOMAIN know \cap pairs : know'[pr] = know[pr]
        BY DEF Keep, Except
  <1>3. ASSUME NEW pr \in watch \cap pairs
        PROVE  Value(pr)' = Value(pr)
    <2>1. CASE pr[1] \in Clients
          BY <2>1 DEF Value, workspaceValue, kwin
    <2>2. CASE pr[1] \notin Clients
      <3>1. pr[1] \in Tokens
            BY <2>2 DEF IInv, WatchClaimed, Subjects
      <3> QED BY <1>3, <2>2, <3>1 DEF Value, propValue, kwin
    <2> QED BY <2>1, <2>2
  <1>4. WatchClaimed'
        BY <1>1 DEF IInv, WatchClaimed
  <1>5. KnowWatched'
        BY <1>1, <1>2 DEF IInv, KnowWatched
  <1>6. WatchersKnow'
    <2> SUFFICES ASSUME NEW pr \in DOMAIN know' PROVE know'[pr] = Value(pr)'
        BY DEF WatchersKnow
    <2>1. pr \in DOMAIN know /\ pr \in watch \cap pairs /\ know'[pr] = know[pr]
          BY <1>2 DEF IInv, KnowWatched
    <2>2. Value(pr)' = Value(pr)
          BY <1>3, <2>1
    <2> QED BY <2>1, <2>2 DEF IInv, WatchersKnow
  <1>7. PendingFresh'
    <2> SUFFICES ASSUME NEW c \in Clients, NEW pr \in DOMAIN pending[c],
                        alive'[c], pr \in watch', pr \notin told' \cup missed'
                 PROVE  pending[c][pr] = Value(pr)'
        BY DEF PendingFresh
    <2>1. pr \in watch \cap pairs /\ pr \notin told \cup missed /\ alive[c]
          BY <1>1
    <2>2. Value(pr)' = Value(pr)
          BY <1>3, <2>1
    <2> QED BY <2>1, <2>2 DEF IInv, PendingFresh
  <1> QED BY <1>4, <1>5, <1>6, <1>7

-----------------------------------------------------------------------------
(***************************************************************************)
(* KWin changes the workspace: what it removes no window names any longer, *)
(* and the catalogs follow.                                                *)
(***************************************************************************)
LEMMA KwinStep ==
  ASSUME IInv, KWin
  PROVE  IInv'
  <1>0. /\ ws \in Workspace /\ win \in [Windows -> Window]
        /\ desktopsById = ws.desktops /\ activitiesById = ws.activities
        /\ IdsExist
        BY DEF IInv, KwinTypes
  <1>a. Emit /\ UNCHANGED <<claim, spent, alive, watch, pending>>
        BY DEF KWin, KwinOnly, desktopAdded, desktopRemoved, activityAdded,
               activityRemoved, UserSwitches, UserChangesWindow
  <1>1. ASSUME NEW d \in Desktops, desktopAdded(d)
        PROVE  KwinTypes' /\ IdsExist'
    <2>1. /\ ws' = [ws EXCEPT !.desktops = @ \cup {d}] /\ win' = win
          /\ activitiesById' = activitiesById /\ desktopsById' = ws'.desktops
          BY <1>1 DEF desktopAdded, rescanDesktops
    <2>2. /\ ws' \in Workspace /\ ws'.desktops = ws.desktops \cup {d}
          /\ ws'.activities = ws.activities /\ ws'.currentDesktop = ws.currentDesktop
          /\ ws'.currentActivity = ws.currentActivity
          BY <1>0, <2>1 DEF Workspace
    <2> QED BY <1>0, <2>1, <2>2 DEF KwinTypes, IdsExist
  <1>2. ASSUME NEW d \in Desktops, NEW e \in Desktops, desktopRemoved(d, e)
        PROVE  KwinTypes' /\ IdsExist'
    <2>1. /\ ws' = [ws EXCEPT !.desktops = @ \ {d},
                              !.currentDesktop = IF @ = d THEN e ELSE @]
          /\ win' = [w \in Windows |-> [win[w] EXCEPT !.desktops =
                                    IF @ = {d} THEN {e} ELSE @ \ {d}]]
          /\ activitiesById' = activitiesById /\ desktopsById' = ws'.desktops
          /\ e \in ws.desktops \ {d}
          BY <1>2 DEF desktopRemoved, rescanDesktops
    <2>2. /\ ws' \in Workspace /\ ws'.desktops = ws.desktops \ {d}
          /\ ws'.activities = ws.activities
          /\ ws'.currentDesktop = IF ws.currentDesktop = d THEN e ELSE ws.currentDesktop
          /\ ws'.currentActivity = ws.currentActivity
          BY <1>0, <2>1 DEF Workspace
    <2>3. ASSUME NEW w \in Windows
          PROVE  /\ win'[w] \in Window /\ win'[w].activities = win[w].activities
                 /\ win'[w].desktops = IF win[w].desktops = {d} THEN {e}
                                       ELSE win[w].desktops \ {d}
      <3>1. win[w] \in Window
            BY <1>0
      <3> QED BY <2>1, <3>1 DEF Window
    <2>4. win' \in [Windows -> Window]
          BY <2>1, <2>3
    <2>5. KwinTypes'
          BY <1>0, <2>1, <2>2, <2>4 DEF KwinTypes
    <2>6. e \in ws.desktops \ {d}
          BY <2>1
    <2>7. ASSUME NEW w \in Windows
          PROVE  /\ win'[w].desktops \subseteq ws.desktops \ {d}
                 /\ win'[w].activities \subseteq ws.activities
          BY <1>0, <2>3, <2>6 DEF IdsExist
    <2>8. IdsExist'
          BY <1>0, <2>2, <2>6, <2>7 DEF IdsExist
    <2> QED BY <2>5, <2>8
  <1>3. ASSUME NEW a \in Activities, activityAdded(a)
        PROVE  KwinTypes' /\ IdsExist'
    <2>1. /\ ws' = [ws EXCEPT !.activities = @ \cup {a}] /\ win' = win
          /\ activitiesById' = activitiesById \cup {a} /\ desktopsById' = desktopsById
          BY <1>3 DEF activityAdded
    <2>2. /\ ws' \in Workspace /\ ws'.activities = ws.activities \cup {a}
          /\ ws'.desktops = ws.desktops /\ ws'.currentDesktop = ws.currentDesktop
          /\ ws'.currentActivity = ws.currentActivity
          BY <1>0, <2>1 DEF Workspace
    <2> QED BY <1>0, <2>1, <2>2 DEF KwinTypes, IdsExist
  <1>4. ASSUME NEW a \in Activities, NEW b \in Activities, activityRemoved(a, b)
        PROVE  KwinTypes' /\ IdsExist'
    <2>1. /\ ws' = [ws EXCEPT !.activities = @ \ {a},
                              !.currentActivity = IF @ = a THEN b ELSE @]
          /\ win' = [w \in Windows |-> [win[w] EXCEPT !.activities = @ \ {a}]]
          /\ activitiesById' = activitiesById \ {a} /\ desktopsById' = desktopsById
          /\ b \in ws.activities \ {a}
          BY <1>4 DEF activityRemoved
    <2>2. /\ ws' \in Workspace /\ ws'.activities = ws.activities \ {a}
          /\ ws'.desktops = ws.desktops
          /\ ws'.currentActivity = IF ws.currentActivity = a THEN b ELSE ws.currentActivity
          /\ ws'.currentDesktop = ws.currentDesktop
          BY <1>0, <2>1 DEF Workspace
    <2>3. ASSUME NEW w \in Windows
          PROVE  /\ win'[w] \in Window /\ win'[w].desktops = win[w].desktops
                 /\ win'[w].activities = win[w].activities \ {a}
      <3>1. win[w] \in Window
            BY <1>0
      <3> QED BY <2>1, <3>1 DEF Window
    <2>4. win' \in [Windows -> Window]
          BY <2>1, <2>3
    <2>5. KwinTypes'
          BY <1>0, <2>1, <2>2, <2>4 DEF KwinTypes
    <2>6. IdsExist'
          BY <1>0, <2>1, <2>2, <2>3 DEF IdsExist
    <2> QED BY <2>5, <2>6
  <1>5. ASSUME NEW d \in Desktops, NEW a \in Activities, UserSwitches(d, a)
        PROVE  KwinTypes' /\ IdsExist'
    <2>1. /\ ws' = [ws EXCEPT !.currentDesktop = d, !.currentActivity = a]
          /\ win' = win /\ catalogs' = catalogs
          /\ d \in ws.desktops /\ a \in ws.activities
          BY <1>5 DEF UserSwitches
    <2>2. /\ ws' \in Workspace /\ ws'.activities = ws.activities
          /\ ws'.desktops = ws.desktops
          /\ ws'.currentActivity = a /\ ws'.currentDesktop = d
          BY <1>0, <2>1 DEF Workspace
    <2> QED BY <1>0, <2>1, <2>2 DEF KwinTypes, IdsExist, catalogs
  <1>6. ASSUME NEW w \in Windows, NEW r \in Window, UserChangesWindow(w, r)
        PROVE  KwinTypes' /\ IdsExist'
        BY <1>0, <1>6 DEF UserChangesWindow, KwinTypes, IdsExist, catalogs
  <1>7. KwinTypes' /\ IdsExist'
        BY <1>1, <1>2, <1>3, <1>4, <1>5, <1>6 DEF KWin
  <1> QED BY <1>a, <1>7, EmitKeeps DEF IInv

-----------------------------------------------------------------------------
\* The windows that name only what exists.
Good == {r \in Window : r.desktops \subseteq ws.desktops
                        /\ r.activities \subseteq ws.activities}

LEMMA ApplyUpdateGood ==
  ASSUME KwinTypes, IdsExist, NEW r \in Good, NEW p \in UPDATE_PROPS,
         NEW v \in ValueOf(p), validateIdList(p, v)
  PROVE  applyUpdate(r, p, v) \in Good
  <1>0. p \in {"desktops", "activities", "keepAbove", "onAllDesktops"}
        BY PropertiesAssumption DEF UPDATE_PROPS
  <1>1. /\ r \in Window /\ r.desktops \subseteq ws.desktops
        /\ r.activities \subseteq ws.activities
        BY DEF Good
  <1>2. CASE p = "desktops"
    <2>1. v \in SUBSET Desktops /\ v \subseteq ws.desktops
          BY <1>2 DEF ValueOf, validateIdList, KwinTypes
    <2>2. applyUpdate(r, p, v) = [r EXCEPT !.desktops = v]
          BY <1>2 DEF applyUpdate
    <2> QED BY <1>1, <2>1, <2>2 DEF Good, Window
  <1>3. CASE p = "activities"
    <2>1. v \in SUBSET Activities /\ v \subseteq ws.activities
          BY <1>3 DEF ValueOf, validateIdList, KwinTypes
    <2>2. applyUpdate(r, p, v) = [r EXCEPT !.activities = v]
          BY <1>3 DEF applyUpdate
    <2> QED BY <1>1, <2>1, <2>2 DEF Good, Window
  <1>4. CASE p = "keepAbove"
    <2>1. v \in BOOLEAN
          BY <1>4 DEF ValueOf
    <2>2. applyUpdate(r, p, v) = [r EXCEPT !.keepAbove = v]
          BY <1>4 DEF applyUpdate
    <2> QED BY <1>1, <2>1, <2>2 DEF Good, Window
  <1>5. CASE p = "onAllDesktops"
    <2> DEFINE on == IF v THEN {}
                     ELSE IF r.desktops = {} THEN {ws.currentDesktop} ELSE r.desktops
    <2>1. applyUpdate(r, p, v) = [r EXCEPT !.desktops = on]
          BY <1>5 DEF applyUpdate
    <2>2. on \in SUBSET Desktops /\ on \subseteq ws.desktops
          BY <1>1 DEF KwinTypes, IdsExist, Workspace, Window
    <2> HIDE DEF on
    <2> QED BY <1>1, <2>1, <2>2 DEF Good, Window
  <1> QED BY <1>0, <1>2, <1>3, <1>4, <1>5

(***************************************************************************)
(* The entries of an update in their order, written out.                   *)
(***************************************************************************)
LEMMA AppliedIs ==
  ASSUME NEW r, NEW info, Len(info) \in 1..2
  PROVE  Applied(r, info) =
            LET first == applyUpdate(r, info[1][1], info[1][2])
            IN  IF Len(info) = 1 THEN first
                ELSE applyUpdate(first, info[2][1], info[2][2])
  <1> DEFINE n == Len(info)
             step(x, i) == applyUpdate(x, info[i][1], info[i][2])
             Step(f) == [i \in 0..n |-> IF i = 0 THEN r ELSE step(f[i-1], i)]
             f2 == CHOOSE f : f = Step(f)
             g == [i \in 0..n |-> IF i = 0 THEN r
                                  ELSE IF i = 1 THEN step(r, 1)
                                  ELSE step(step(r, 1), 2)]
  <1>1. Applied(r, info) = f2[n]
        BY DEF Applied
  <1> HIDE DEF step
  <1>2. g = Step(g)
        OBVIOUS
  <1>3. f2 = Step(f2)
    <2> HIDE DEF g, Step
    <2> QED BY <1>2
  <1> HIDE DEF f2
  <1>4. f2[0] = r
        BY <1>3
  <1>5. f2[1] = step(r, 1)
        BY <1>3, <1>4
  <1>6. n = 2 => f2[2] = step(step(r, 1), 2)
        BY <1>3, <1>5
  <1>7. Applied(r, info) = IF n = 1 THEN step(r, 1) ELSE step(step(r, 1), 2)
    <2>1. n = 1 \/ n = 2
          OBVIOUS
    <2> HIDE DEF n
    <2> QED BY <1>1, <1>5, <1>6, <2>1
  <1> QED BY <1>7 DEF step

LEMMA AppliedGood ==
  ASSUME KwinTypes, IdsExist, NEW r \in Good, NEW info \in Infos,
         \A i \in 1..Len(info) : validateIdList(info[i][1], info[i][2])
  PROVE  Applied(r, info) \in Good
  <1>1. /\ Len(info) \in 1..2
        /\ info[1] \in Entries
        /\ Len(info) = 2 => info[2] \in Entries
        BY DEF Infos
  <1>2. ASSUME NEW x \in Good, NEW e \in Entries, validateIdList(e[1], e[2])
        PROVE  applyUpdate(x, e[1], e[2]) \in Good
    <2>1. e[1] \in UPDATE_PROPS /\ e[2] \in ValueOf(e[1])
          BY DEF Entries
    <2> DEFINE p == e[1]
               v == e[2]
    <2>2. p \in UPDATE_PROPS /\ v \in ValueOf(p) /\ validateIdList(p, v)
          BY <1>2, <2>1
    <2> HIDE DEF p, v
    <2>3. applyUpdate(x, p, v) \in Good
          BY <2>2, ApplyUpdateGood
    <2> QED BY <2>3 DEF p, v
  <1> DEFINE first == applyUpdate(r, info[1][1], info[1][2])
             second == applyUpdate(first, info[2][1], info[2][2])
  <1>3. first \in Good
    <2>1. validateIdList(info[1][1], info[1][2])
          BY <1>1
    <2> QED BY <1>1, <1>2, <2>1
  <1> HIDE DEF first
  <1>4. Len(info) = 2 => second \in Good
    <2> SUFFICES ASSUME Len(info) = 2 PROVE second \in Good
        OBVIOUS
    <2>1. validateIdList(info[2][1], info[2][2])
          OBVIOUS
    <2> QED BY <1>1, <1>2, <1>3, <2>1
  <1>5. Applied(r, info) = IF Len(info) = 1 THEN first ELSE second
        BY <1>1, AppliedIs DEF first
  <1> HIDE DEF second
  <1> QED BY <1>1, <1>3, <1>4, <1>5

LEMMA WindowsUpdateStep ==
  ASSUME IInv, NEW c \in Clients, NEW t \in Tokens, NEW info \in Infos,
         windows_update(c, t, info)
  PROVE  IInv'
  <1> DEFINE w == claim[t].window
  <1>0. KwinTypes /\ IdsExist /\ ScriptTypes
        BY DEF IInv
  <1>1. /\ claim[t] # NoClaim
        /\ \A i \in 1..Len(info) : validateIdList(info[i][1], info[i][2])
        /\ win' = [win EXCEPT ![w] = Applied(win[w], info)]
        /\ UNCHANGED <<ws, catalogs>> /\ Emit
        /\ UNCHANGED <<claim, spent, alive, watch, pending>>
        BY DEF windows_update, resolveTokenWindow
  <1>2. w \in Windows
        BY <1>0, <1>1 DEF ScriptTypes
  <1> HIDE DEF w
  <1>3. win[w] \in Good
        BY <1>0, <1>2 DEF Good, KwinTypes, IdsExist
  <1>4. Applied(win[w], info) \in Good
        BY <1>0, <1>1, <1>3, AppliedGood
  <1>5. KwinTypes' /\ IdsExist'
    <2>1. /\ Applied(win[w], info) \in Window
          /\ Applied(win[w], info).desktops \subseteq ws.desktops
          /\ Applied(win[w], info).activities \subseteq ws.activities
          BY <1>4 DEF Good
    <2> QED BY <1>0, <1>1, <1>2, <2>1 DEF KwinTypes, IdsExist, catalogs
  <1> QED BY <1>1, <1>5, EmitKeeps DEF IInv

LEMMA WorkspaceUpdateStep ==
  ASSUME IInv, NEW c \in Clients, NEW props \in SUBSET WORKSPACE_UPDATE_PROPS,
         NEW info \in [props -> Desktops \cup Activities], workspace_update(c, info)
  PROVE  IInv'
  <1>0. KwinTypes /\ IdsExist
        BY DEF IInv
  <1>1. /\ \A p \in props : validateId(p, info[p])
        /\ ws' = Over(info, ws)
        /\ UNCHANGED <<win, catalogs>> /\ Emit
        /\ UNCHANGED <<claim, spent, alive, watch, pending>>
        BY DEF workspace_update
  <1>2. /\ props \subseteq {"currentDesktop", "currentActivity"}
        /\ "currentDesktop" \in props => info["currentDesktop"] \in ws.desktops
        /\ "currentActivity" \in props => info["currentActivity"] \in ws.activities
        BY <1>0, <1>1 DEF WORKSPACE_UPDATE_PROPS, validateId, lookupDesktop, hasActivity,
                          KwinTypes
  <1>3. /\ ws' \in Workspace
        /\ ws'.desktops = ws.desktops /\ ws'.activities = ws.activities
        /\ ws'.currentDesktop \in ws.desktops /\ ws'.currentActivity \in ws.activities
    <2> DEFINE d == IF "currentDesktop" \in props THEN info["currentDesktop"]
                    ELSE ws.currentDesktop
               a == IF "currentActivity" \in props THEN info["currentActivity"]
                    ELSE ws.currentActivity
    <2>1. d \in ws.desktops /\ a \in ws.activities
          BY <1>0, <1>2 DEF IdsExist
    <2>2. ws \in Workspace
          BY <1>0 DEF KwinTypes
    <2>3. DOMAIN ws = {"desktops", "activities", "currentDesktop", "currentActivity"}
          BY <2>2 DEF Workspace
    <2>4. ws' = [desktops |-> ws.desktops, activities |-> ws.activities,
                 currentDesktop |-> d, currentActivity |-> a]
          BY <1>1, <1>2, <2>2, <2>3 DEF Over, Workspace
    <2> HIDE DEF d, a
    <2> QED BY <2>1, <2>2, <2>4 DEF Workspace
  <1>4. KwinTypes' /\ IdsExist'
        BY <1>0, <1>1, <1>3 DEF KwinTypes, IdsExist, catalogs
  <1> QED BY <1>1, <1>4, EmitKeeps DEF IInv

-----------------------------------------------------------------------------
(***************************************************************************)
(* A query reads the values; its answer comes later.                       *)
(***************************************************************************)
LEMMA QueryStep ==
  ASSUME IInv, NEW c \in Clients, NEW pairs, Queried(c, pairs),
         \A pr \in pairs : /\ pr[1] \in Subjects
                           /\ pr[1] \in Clients => pr[1] = c
                           /\ pr[1] \in Tokens => resolveTokenWindow(pr[1], c)
  PROVE  IInv'
  <1> DEFINE result == [pr \in pairs \cap watch |-> Value(pr)]
  <1>1. /\ pending' = [pending EXCEPT ![c] = result]
        /\ UNCHANGED <<kwin, catalogs, claim, spent, alive, watch, history>>
        BY DEF Queried
  <1>2. /\ DOMAIN result = pairs \cap watch
        /\ \A pr \in pairs \cap watch : result[pr] = Value(pr)
        OBVIOUS
  <1> HIDE DEF result
  <1>3. /\ pending' = [d \in Clients |-> pending'[d]] /\ pending'[c] = result
        /\ \A d \in Clients \ {c} : pending'[d] = pending[d]
        BY <1>1 DEF IInv, ScriptTypes
  <1>4. KwinTypes' /\ IdsExist' /\ ScriptTypes'
        BY <1>1, <1>3 DEF IInv, KwinTypes, IdsExist, ScriptTypes, kwin, catalogs
  <1>5. ClaimsLive' /\ WatchClaimed' /\ KnowWatched'
        BY <1>1 DEF IInv, ClaimsLive, WatchClaimed, KnowWatched, history
  <1>6. \A pr : Value(pr)' = Value(pr)
        BY <1>1 DEF Value, workspaceValue, propValue, kwin
  <1>7. WatchersKnow'
        BY <1>1, <1>6 DEF IInv, WatchersKnow, history
  <1>8. PendingOwn'
    <2> SUFFICES ASSUME NEW d \in Clients, NEW pr \in DOMAIN pending'[d]
                 PROVE  /\ pr[1] \in Subjects
                        /\ pr[1] \in Clients => pr[1] = d
                        /\ pr[1] \in Tokens =>
                              /\ pr[1] \in spent
                              /\ claim[pr[1]] # NoClaim => claim[pr[1]].owner = d
        BY <1>1 DEF PendingOwn
    <2>1. CASE d = c
          BY <1>2, <1>3, <2>1 DEF resolveTokenWindow, IInv, ClaimsLive
    <2>2. CASE d # c
          BY <1>3, <2>2 DEF IInv, PendingOwn
    <2> QED BY <2>1, <2>2
  <1>9. PendingFresh'
    <2> SUFFICES ASSUME NEW d \in Clients, NEW pr \in DOMAIN pending'[d],
                        alive[d], pr \in watch, pr \notin told \cup missed
                 PROVE  pending'[d][pr] = Value(pr)
        BY <1>1, <1>6 DEF PendingFresh, history
    <2>1. CASE d = c
          BY <1>2, <1>3, <2>1
    <2>2. CASE d # c
          BY <1>3, <2>2 DEF IInv, PendingFresh
    <2> QED BY <2>1, <2>2
  <1> QED BY <1>4, <1>5, <1>7, <1>8, <1>9 DEF IInv

LEMMA AnsweredStep ==
  ASSUME IInv, NEW c \in Clients, Answered(c)
  PROVE  IInv'
  <1> DEFINE new == (DOMAIN pending[c] \cap watch) \ (told \cup missed)
             reply == [pr \in new |-> pending[c][pr]]
  <1>1. /\ pending' = [pending EXCEPT ![c] = Nothing]
        /\ know' = know \/ (alive[c] /\ know' = Over(reply, know))
        /\ UNCHANGED <<kwin, catalogs, claim, spent, alive, watch, told, missed>>
        BY DEF Answered
  <1>2. /\ pending' = [d \in Clients |-> pending'[d]] /\ DOMAIN pending'[c] = {}
        /\ \A d \in Clients \ {c} : pending'[d] = pending[d]
        BY <1>1 DEF IInv, ScriptTypes, Nothing
  <1>3. KwinTypes' /\ IdsExist' /\ ScriptTypes'
        BY <1>1, <1>2 DEF IInv, KwinTypes, IdsExist, ScriptTypes, kwin, catalogs
  <1>4. ClaimsLive' /\ WatchClaimed'
        BY <1>1 DEF IInv, ClaimsLive, WatchClaimed
  <1>5. \A pr : Value(pr)' = Value(pr)
        BY <1>1 DEF Value, workspaceValue, propValue, kwin
  <1>6. PendingOwn' /\ PendingFresh'
    <2>1. \A d \in Clients : \A pr \in DOMAIN pending'[d] :
             d # c /\ pending'[d] = pending[d]
          BY <1>2
    <2>2. PendingOwn'
          BY <1>1, <2>1 DEF IInv, PendingOwn
    <2>3. PendingFresh'
          BY <1>1, <1>5, <2>1 DEF IInv, PendingFresh
    <2> QED BY <2>2, <2>3
  <1>7. KnowWatched' /\ WatchersKnow'
    <2>1. CASE know' = know
          BY <1>1, <1>5, <2>1 DEF IInv, KnowWatched, WatchersKnow
    <2>2. CASE alive[c] /\ know' = Over(reply, know)
      <3>1. DOMAIN reply = new /\ \A pr \in new : reply[pr] = pending[c][pr]
            OBVIOUS
      <3>2. /\ new \subseteq watch
            /\ \A pr \in new : /\ pending[c][pr] = Value(pr)
                               /\ pr[1] \in Clients => alive[pr[1]]
        <4> SUFFICES ASSUME NEW pr \in new
                     PROVE  /\ pr \in watch /\ pending[c][pr] = Value(pr)
                            /\ pr[1] \in Clients => alive[pr[1]]
            OBVIOUS
        <4>1. pr \in DOMAIN pending[c] /\ pr \in watch /\ pr \notin told \cup missed
              OBVIOUS
        <4>2. pending[c][pr] = Value(pr)
              BY <2>2, <4>1 DEF IInv, PendingFresh
        <4>3. pr[1] \in Clients => pr[1] = c
              BY <4>1 DEF IInv, PendingOwn
        <4> QED BY <2>2, <4>1, <4>2, <4>3
      <3> HIDE DEF new, reply
      <3>3. /\ DOMAIN know' = new \cup DOMAIN know
            /\ \A pr \in new : know'[pr] = pending[c][pr]
            /\ \A pr \in DOMAIN know \ new : know'[pr] = know[pr]
            BY <2>2, <3>1 DEF Over
      <3>4. KnowWatched'
            BY <1>1, <3>2, <3>3 DEF IInv, KnowWatched
      <3>5. WatchersKnow'
            BY <1>5, <3>2, <3>3 DEF IInv, WatchersKnow
      <3> QED BY <3>4, <3>5
    <2> QED BY <1>1, <2>1, <2>2
  <1> QED BY <1>3, <1>4, <1>6, <1>7 DEF IInv

(***************************************************************************)
(* A watch is turned on or off by its own client, which awaits no answer.  *)
(***************************************************************************)
LEMMA SetWatchStep ==
  ASSUME IInv, NEW c \in Clients, NEW pr, NEW enable \in BOOLEAN,
         setWatch(c, pr, enable),
         pr[1] \in Subjects,
         pr[1] \in Clients => pr[1] = c,
         pr[1] \in Tokens => resolveTokenWindow(pr[1], c)
  PROVE  IInv'
  <1>1. /\ Idle(c)
        /\ UNCHANGED <<kwin, catalogs, claim, spent, alive, pending>>
        BY DEF setWatch
  <1>2. KwinTypes' /\ IdsExist' /\ ScriptTypes' /\ ClaimsLive' /\ PendingOwn'
        BY <1>1 DEF IInv, KwinTypes, IdsExist, ScriptTypes, ClaimsLive, PendingOwn,
                    kwin, catalogs
  <1>3. CASE enable
    <2>1. watch' = watch \cup {pr} /\ UNCHANGED <<know, told, missed>>
          BY <1>3 DEF setWatch, history
    <2>2. \A x : Value(x)' = Value(x)
          BY <1>1 DEF Value, workspaceValue, propValue, kwin
    <2>3. WatchClaimed'
          BY <1>1, <2>1 DEF IInv, WatchClaimed, resolveTokenWindow
    <2>4. KnowWatched' /\ WatchersKnow'
          BY <1>1, <2>1, <2>2 DEF IInv, KnowWatched, WatchersKnow
    <2>5. PendingFresh'
      <3> SUFFICES ASSUME NEW d \in Clients, NEW x \in DOMAIN pending[d],
                          alive[d], x \in watch', x \notin told \cup missed
                   PROVE  pending[d][x] = Value(x)
          BY <1>1, <2>1, <2>2 DEF PendingFresh
      <3>1. d # c
            BY <1>1 DEF Idle, Nothing
      <3>2. x # pr
            BY <3>1 DEF IInv, PendingOwn, resolveTokenWindow, Subjects
      <3> QED BY <2>1, <3>2 DEF IInv, PendingFresh
    <2> QED BY <1>2, <2>3, <2>4, <2>5 DEF IInv
  <1>4. CASE ~enable
    <2>1. Keep(watch \ {pr})
          BY <1>4 DEF setWatch
    <2> DEFINE pairs == watch \ {pr}
    <2>2. Keep(pairs) /\ UNCHANGED <<kwin, pending>>
          BY <1>1, <2>1
    <2> HIDE DEF pairs
    <2>3. WatchClaimed' /\ KnowWatched' /\ PendingFresh' /\ WatchersKnow'
          BY <1>1, <2>2, KeepKeeps
    <2> QED BY <1>2, <2>3 DEF IInv
  <1> QED BY <1>3, <1>4

-----------------------------------------------------------------------------
(***************************************************************************)
(* Tokens are bound and withdrawn, and clients go: what remains watched    *)
(* keeps its window and its client.                                        *)
(***************************************************************************)
LEMMA TokenBoundStep ==
  ASSUME IInv, NEW t \in Tokens, NEW c \in Clients, NEW w \in Windows,
         TokenBound(t, c, w)
  PROVE  IInv'
  <1> DEFINE over == C!Superseded(t, w)
             pairs == dropClientWatches(over)
  <1>0. /\ claim \in [Tokens -> [owner : Clients, window : Windows] \cup {NoClaim}]
        /\ spent \subseteq Tokens
        BY DEF IInv, ScriptTypes
  <1>1. /\ t \notin spent /\ alive[c] /\ spent' = spent \cup {t}
        /\ Keep(pairs)
        /\ UNCHANGED <<kwin, catalogs, alive, pending>>
        BY DEF TokenBound
  <1>2. claim' = [u \in Tokens |->
                    IF u = t THEN [owner |-> c, window |-> w]
                    ELSE IF u \in over THEN NoClaim ELSE claim[u]]
        BY DEF TokenBound, C!Bind
  <1>3. \A pr \in watch \cap pairs : pr[1] \notin over
        BY DEF dropClientWatches
  <1> HIDE DEF over, pairs
  <1>4. /\ claim'[t] = [owner |-> c, window |-> w]
        /\ \A u \in Tokens \ {t} : claim'[u] = IF u \in over THEN NoClaim ELSE claim[u]
        BY <1>2
  <1>5. KwinTypes' /\ IdsExist'
        BY <1>1 DEF IInv, KwinTypes, IdsExist, kwin, catalogs
  <1>6. ScriptTypes'
    <2>1. claim' \in [Tokens -> [owner : Clients, window : Windows] \cup {NoClaim}]
          BY <1>0, <1>2
    <2> QED BY <1>1, <2>1 DEF IInv, ScriptTypes
  <1>7. ClaimsLive'
        BY <1>1, <1>4 DEF IInv, ClaimsLive
  <1>8. PendingOwn'
    <2> SUFFICES ASSUME NEW d \in Clients, NEW pr \in DOMAIN pending[d]
                 PROVE  /\ pr[1] \in Subjects
                        /\ pr[1] \in Clients => pr[1] = d
                        /\ pr[1] \in Tokens =>
                              /\ pr[1] \in spent'
                              /\ claim'[pr[1]] # NoClaim => claim'[pr[1]].owner = d
        BY <1>1 DEF PendingOwn
    <2>1. pr[1] \in Tokens => pr[1] # t
          BY <1>1 DEF IInv, PendingOwn
    <2> QED BY <1>1, <1>4, <2>1 DEF IInv, PendingOwn
  <1>9. WatchClaimed' /\ KnowWatched' /\ PendingFresh' /\ WatchersKnow'
    <2>1. ASSUME NEW pr \in watch \cap pairs, pr[1] \in Tokens
          PROVE  claim'[pr[1]] = claim[pr[1]]
      <3>1. pr[1] # t
            BY <1>1, <2>1 DEF IInv, WatchClaimed, ClaimsLive
      <3> QED BY <1>3, <1>4, <2>1, <3>1
    <2> QED BY <1>1, <2>1, KeepKeeps
  <1> QED BY <1>5, <1>6, <1>7, <1>8, <1>9 DEF IInv

\* The tokens of T lose their claims, and with them their watches.
LEMMA ReleaseKeeps ==
  ASSUME IInv, NEW T \in SUBSET Tokens, C!Release(T),
         spent' = spent, UNCHANGED <<kwin, catalogs, pending>>,
         alive' \in [Clients -> BOOLEAN],
         \A c \in Clients : alive'[c] => alive[c],
         \A t \in Tokens \ T : claim[t] # NoClaim => alive'[claim[t].owner],
         NEW pairs, Keep(pairs),
         \A pr \in watch \cap pairs :
             /\ pr[1] \notin T
             /\ pr[1] \in Clients => alive'[pr[1]] = alive[pr[1]]
  PROVE  IInv'
  <1>0. claim \in [Tokens -> [owner : Clients, window : Windows] \cup {NoClaim}]
        BY DEF IInv, ScriptTypes
  <1>1. /\ claim' \in [Tokens -> [owner : Clients, window : Windows] \cup {NoClaim}]
        /\ \A u \in Tokens : claim'[u] = IF u \in T THEN NoClaim ELSE claim[u]
        BY <1>0 DEF C!Release
  <1>2. KwinTypes' /\ IdsExist'
        BY DEF IInv, KwinTypes, IdsExist, kwin, catalogs
  <1>3. ScriptTypes'
        BY <1>1 DEF IInv, ScriptTypes
  <1>4. ClaimsLive'
        BY <1>1 DEF IInv, ClaimsLive
  <1>5. PendingOwn'
        BY <1>1 DEF IInv, PendingOwn
  <1>6. WatchClaimed' /\ KnowWatched' /\ PendingFresh' /\ WatchersKnow'
    <2>1. \A pr \in watch \cap pairs : pr[1] \in Tokens => claim'[pr[1]] = claim[pr[1]]
          BY <1>1
    <2> QED BY <2>1, KeepKeeps
  <1> QED BY <1>2, <1>3, <1>4, <1>5, <1>6 DEF IInv

LEMMA TokenWithdrawnStep ==
  ASSUME IInv, NEW t \in Tokens, TokenWithdrawn(t)
  PROVE  IInv'
  <1> DEFINE pairs == dropClientWatches({t})
             T == {t}
  <1>1. /\ C!Release(T) /\ Keep(pairs) /\ T \in SUBSET Tokens
        /\ UNCHANGED <<kwin, catalogs, spent, alive, pending>>
        BY DEF TokenWithdrawn
  <1>2. \A pr \in watch \cap pairs : pr[1] \notin T
        BY DEF dropClientWatches
  <1>3. /\ alive \in [Clients -> BOOLEAN]
        /\ \A u \in Tokens \ T : claim[u] # NoClaim => alive[claim[u].owner]
        BY DEF IInv, ScriptTypes, ClaimsLive
  <1> HIDE DEF pairs, T
  <1> QED BY <1>1, <1>2, <1>3, ReleaseKeeps

LEMMA DisconnectedStep ==
  ASSUME IInv, NEW c \in Clients, Disconnected(c)
  PROVE  IInv'
  <1> DEFINE T == C!OwnedBy(c)
             pairs == dropClientWatches(T) \cap dropClientWorkspaceWatches(c)
  <1>1. /\ alive' = [alive EXCEPT ![c] = FALSE] /\ C!Release(T) /\ Keep(pairs)
        /\ UNCHANGED <<kwin, catalogs, spent, pending>>
        BY DEF Disconnected
  <1>2. /\ T \in SUBSET Tokens
        /\ \A t \in Tokens \ T : claim[t] # NoClaim => claim[t].owner # c
        BY DEF C!OwnedBy
  <1>3. \A pr \in watch \cap pairs : pr[1] \notin T /\ pr[1] # c
        BY DEF dropClientWatches, dropClientWorkspaceWatches
  <1>4. /\ alive \in [Clients -> BOOLEAN]
        /\ \A t \in Tokens : claim[t] # NoClaim =>
                alive[claim[t].owner] /\ claim[t].owner \in Clients
        BY DEF IInv, ScriptTypes, ClaimsLive
  <1> HIDE DEF T, pairs
  <1>5. /\ alive' \in [Clients -> BOOLEAN]
        /\ \A d \in Clients \ {c} : alive'[d] = alive[d]
        /\ \A d \in Clients : alive'[d] => alive[d]
        BY <1>1, <1>4
  <1>6. \A t \in Tokens \ T : claim[t] # NoClaim => alive'[claim[t].owner]
        BY <1>2, <1>4, <1>5
  <1>7. \A pr \in watch \cap pairs :
             /\ pr[1] \notin T
             /\ pr[1] \in Clients => alive'[pr[1]] = alive[pr[1]]
        BY <1>3, <1>5
  <1> QED BY <1>1, <1>2, <1>5, <1>6, <1>7, ReleaseKeeps

-----------------------------------------------------------------------------
LEMMA RequestStep ==
  ASSUME IInv, NEW c \in Clients, Request(c)
  PROVE  IInv'
  <1>0. \A t \in Tokens : t \notin Clients
        BY PropertiesAssumption
  <1>1. ASSUME NEW t \in Tokens, NEW names, windows_query(c, t, names)
        PROVE  IInv'
    <2> DEFINE pairs == {t} \X names
    <2>1. Queried(c, pairs) /\ resolveTokenWindow(t, c)
          BY <1>1 DEF windows_query
    <2>2. \A pr \in pairs : /\ pr[1] \in Subjects
                            /\ pr[1] \in Clients => pr[1] = c
                            /\ pr[1] \in Tokens => resolveTokenWindow(pr[1], c)
      <3>1. \A pr \in pairs : pr[1] = t
            OBVIOUS
      <3> QED BY <1>0, <2>1, <3>1 DEF Subjects
    <2> HIDE DEF pairs
    <2> QED BY <2>1, <2>2, QueryStep
  <1>2. ASSUME NEW names, workspace_query(c, names)
        PROVE  IInv'
    <2> DEFINE pairs == {c} \X names
    <2>1. Queried(c, pairs)
          BY <1>2 DEF workspace_query
    <2>2. \A pr \in pairs : /\ pr[1] \in Subjects
                            /\ pr[1] \in Clients => pr[1] = c
                            /\ pr[1] \in Tokens => resolveTokenWindow(pr[1], c)
      <3>1. \A pr \in pairs : pr[1] = c
            OBVIOUS
      <3> QED BY <1>0, <3>1 DEF Subjects
    <2> HIDE DEF pairs
    <2> QED BY <2>1, <2>2, QueryStep
  <1>3. ASSUME NEW t \in Tokens, NEW p, NEW enable \in BOOLEAN,
               window_watch(c, t, p, enable)
        PROVE  IInv'
    <2> DEFINE pr == <<t, p>>
    <2>1. setWatch(c, pr, enable) /\ resolveTokenWindow(t, c) /\ pr[1] = t
          BY <1>3 DEF window_watch
    <2> HIDE DEF pr
    <2>2. /\ pr[1] \in Subjects /\ pr[1] \notin Clients
          /\ resolveTokenWindow(pr[1], c)
          BY <1>0, <2>1 DEF Subjects
    <2> QED BY <2>1, <2>2, SetWatchStep
  <1>4. ASSUME NEW p, NEW enable \in BOOLEAN, workspace_watch(c, p, enable)
        PROVE  IInv'
    <2> DEFINE pr == <<c, p>>
    <2>1. setWatch(c, pr, enable) /\ pr[1] = c
          BY <1>4 DEF workspace_watch
    <2> HIDE DEF pr
    <2>2. pr[1] \in Subjects /\ pr[1] \notin Tokens
          BY <1>0, <2>1 DEF Subjects
    <2> QED BY <2>1, <2>2, SetWatchStep
  <1> QED BY <1>1, <1>2, <1>3, <1>4, WindowsUpdateStep, WorkspaceUpdateStep
          DEF Request

(***************************************************************************)
(* The invariant holds throughout, for any number of clients, tokens,      *)
(* windows, desktops and activities.                                       *)
(***************************************************************************)
THEOREM Invariance == Spec => []IInv
  <1>1. IInv /\ [Next]_vars => IInv'
    <2> SUFFICES ASSUME IInv, [Next]_vars PROVE IInv'
        OBVIOUS
    <2>1. CASE KWin
          BY <2>1, KwinStep
    <2>2. CASE Claiming
          BY <2>2, TokenBoundStep, TokenWithdrawnStep, DisconnectedStep DEF Claiming
    <2>3. CASE \E c \in Clients : Request(c) \/ Answered(c)
          BY <2>3, RequestStep, AnsweredStep
    <2>4. CASE UNCHANGED vars
      <3>1. UNCHANGED <<ws, win, desktopsById, activitiesById, claim, spent, alive,
                        watch, pending, know, told, missed>>
            BY <2>4 DEF vars, kwin, catalogs, history
      <3>2. \A pr : Value(pr)' = Value(pr)
            BY <3>1 DEF Value, workspaceValue, propValue
      <3> QED BY <3>1, <3>2 DEF IInv, KwinTypes, IdsExist, ScriptTypes, ClaimsLive,
                 WatchClaimed, KnowWatched, PendingOwn, PendingFresh, WatchersKnow
    <2> QED BY <2>1, <2>2, <2>3, <2>4 DEF Next
  <1> QED BY <1>1, Initially, PTL DEF Spec

(***************************************************************************)
(* An update validated against the catalogs never brings back a desktop or *)
(* an activity that was removed: the workspace and the windows name only   *)
(* what exists (validateIdList, rescanDesktops, activityRemoved).          *)
(***************************************************************************)
THEOREM IdsAlwaysExist == Spec => []IdsExist
  <1>1. IInv => IdsExist
        BY DEF IInv
  <1> QED BY <1>1, Invariance, PTL

(***************************************************************************)
(* A client that watches a property and asks for it knows its value from   *)
(* there on, unless a notification was refused (setWatch, notifyClient,    *)
(* dispatchMessage).                                                       *)
(***************************************************************************)
THEOREM WatchersAlwaysKnow == Spec => []WatchersKnow
  <1>1. IInv => WatchersKnow
        BY DEF IInv
  <1> QED BY <1>1, Invariance, PTL
=============================================================================
