----------------------------- MODULE Properties -----------------------------
(***************************************************************************)
(* The property methods of the script: windows.update, windows.query and   *)
(* window.watch on the window a token is bound to (windows.ts),            *)
(* workspace.update, workspace.query and workspace.watch on the workspace  *)
(* (workspace.ts), the catalogs of desktop and activity IDs they validate  *)
(* against, and what a client can conclude from what it is sent.           *)
(*                                                                         *)
(* An action is one turn of KWin's event loop: KWin changes a value, emits *)
(* its signals and the script's handlers run, or the script runs the       *)
(* method of a request.  A query is answered in a later turn than the one  *)
(* that read the values: dispatchMessage awaits the result ("pending").    *)
(* Tokens are bound and withdrawn as Claims says.  A request that is       *)
(* rejected changes nothing and is not an action.                          *)
(*                                                                         *)
(* "keepAbove" stands for the properties that are plain values with a      *)
(* signal, "onAllDesktops" for those that cannot be watched.  The subject  *)
(* of a watch is a token, for a property of its window, or a client, for   *)
(* one of the workspace: the keys of watchesByToken and watchesByClient.   *)
(* What is pushed to a client arrives in order, so what the client knows   *)
(* is recorded when the daemon accepts the push.                           *)
(***************************************************************************)
EXTENDS Integers, Sequences

CONSTANTS
    Clients, Tokens, Windows, NoClaim,
    Desktops, Activities,       \* IDs that may ever exist
    WindowProps, WorkspaceProps \* bound: the properties the instance follows

ASSUME PropertiesAssumption ==
    /\ WindowProps \subseteq {"desktops", "activities", "keepAbove", "onAllDesktops"}
    /\ WorkspaceProps \subseteq {"currentDesktop", "currentActivity", "desktops",
                                 "activities"}
    /\ Clients \cap Tokens = {}
    /\ NoClaim \notin [owner : Clients, window : Windows]

VARIABLES
    ws,             \* KWin: the workspace
    win,            \* KWin: the windows
    desktopsById,   \* the catalogs
    activitiesById,
    claim,          \* the active tokens, see Claims
    spent,          \* tokens that were bound once: none is drawn again
    alive,          \* RpcConnection.alive
    watch,          \* <<subject, property>> with a handler connected
    pending,        \* the result of the client's query that is being answered
    know,           \* history: values of watched properties the client was sent
    told,           \* history: those it had from a notification
    missed          \* history: those whose last notification was refused

kwin == <<ws, win>>
catalogs == <<desktopsById, activitiesById>>
history == <<know, told, missed>>
vars == <<kwin, catalogs, claim, spent, alive, watch, pending, history>>

C == INSTANCE Claims

UPDATE_PROPS == WindowProps
QUERY_PROPS == UPDATE_PROPS
WATCH_PROPS == WindowProps \ {"onAllDesktops"}
WORKSPACE_UPDATE_PROPS == WorkspaceProps \cap {"currentDesktop", "currentActivity"}
WORKSPACE_QUERY_PROPS == WorkspaceProps
WORKSPACE_WATCH_PROPS == WorkspaceProps

Workspace == [desktops : (SUBSET Desktops) \ {{}},
              activities : (SUBSET Activities) \ {{}},
              currentDesktop : Desktops, currentActivity : Activities]

\* An empty set of desktops or activities means all of them.
Window == [desktops : SUBSET Desktops, activities : SUBSET Activities,
           keepAbove : BOOLEAN]

Nothing == <<>>     \* the function without arguments: nothing known, no result

\* wireWorkspaceEvents scans both lists when the script is loaded.
Init ==
    /\ ws \in {r \in Workspace : /\ r.currentDesktop \in r.desktops
                                 /\ r.currentActivity \in r.activities}
    /\ win \in [Windows -> {[desktops |-> {ws.currentDesktop}, activities |-> {},
                             keepAbove |-> FALSE]}]
    /\ desktopsById = ws.desktops /\ activitiesById = ws.activities
    /\ C!Init
    /\ spent = {} /\ alive = [c \in Clients |-> TRUE]
    /\ watch = {} /\ pending = [c \in Clients |-> Nothing]
    /\ know = Nothing /\ told = {} /\ missed = {}

-----------------------------------------------------------------------------
(***************************************************************************)
(* Values, and how they reach a client.                                    *)
(***************************************************************************)
propValue(w, p) ==
    IF p = "onAllDesktops" THEN win[w].desktops = {} ELSE win[w][p]

workspaceValue(p) == ws[p]

OwnerOf(s) == IF s \in Clients THEN s ELSE claim[s].owner

Value(pr) == IF pr[1] \in Clients THEN workspaceValue(pr[2])
             ELSE propValue(claim[pr[1]].window, pr[2])

\* The values of f, and those of g elsewhere.
Over(f, g) == [x \in DOMAIN f \cup DOMAIN g |-> IF x \in DOMAIN f THEN f[x] ELSE g[x]]

\* What clients know of other properties than these.
Except(pairs) == [pr \in DOMAIN know \ pairs |-> know[pr]]

(***************************************************************************)
(* The handlers of the signals that KWin emits for what has changed: each  *)
(* reads the value and notifies its client if it is alive (notifyClient).  *)
(* The daemon may refuse the push, which nobody learns of.                 *)
(***************************************************************************)
EmitsOldValue ==
    LET heard == {pr \in watch : Value(pr)' # Value(pr) /\ alive[OwnerOf(pr[1])]}
    IN
    \E sent \in SUBSET heard :
        /\ know' = Over([pr \in sent |-> Value(pr)], Except(heard))
        /\ told' = (told \ heard) \cup sent
        /\ missed' = (missed \cup heard) \ sent

Emit ==
    LET heard == {pr \in watch : Value(pr)' # Value(pr) /\ alive[OwnerOf(pr[1])]}
    IN
    \E sent \in SUBSET heard :
        /\ know' = Over([pr \in sent |-> Value(pr)'], Except(heard))
        /\ told' = (told \ heard) \cup sent
        /\ missed' = (missed \cup heard) \ sent

-----------------------------------------------------------------------------
(***************************************************************************)
(* KWin and its user.  desktopsChanged makes the script scan the desktops  *)
(* again; activityAdded and activityRemoved insert and delete one ID.      *)
(***************************************************************************)
RescanKeepsOld == desktopsById' = desktopsById \cup ws'.desktops

rescanDesktops == desktopsById' = ws'.desktops

KwinOnly == UNCHANGED <<claim, spent, alive, watch, pending>>

desktopAdded(d) ==
    /\ d \notin ws.desktops
    /\ ws' = [ws EXCEPT !.desktops = @ \cup {d}]
    /\ UNCHANGED <<win, activitiesById>>
    /\ rescanDesktops
    /\ KwinOnly /\ Emit

\* Windows that were only on d, and the user, move to another desktop.
desktopRemoved(d, e) ==
    /\ d \in ws.desktops /\ e \in ws.desktops \ {d}
    /\ ws' = [ws EXCEPT !.desktops = @ \ {d},
                        !.currentDesktop = IF @ = d THEN e ELSE @]
    /\ win' = [w \in Windows |-> [win[w] EXCEPT !.desktops =
                                    IF @ = {d} THEN {e} ELSE @ \ {d}]]
    /\ UNCHANGED activitiesById
    /\ rescanDesktops
    /\ KwinOnly /\ Emit

activityAdded(a) ==
    /\ a \notin ws.activities
    /\ ws' = [ws EXCEPT !.activities = @ \cup {a}]
    /\ activitiesById' = activitiesById \cup {a}
    /\ UNCHANGED <<win, desktopsById>>
    /\ KwinOnly /\ Emit

activityRemoved(a, b) ==
    /\ a \in ws.activities /\ b \in ws.activities \ {a}
    /\ ws' = [ws EXCEPT !.activities = @ \ {a},
                        !.currentActivity = IF @ = a THEN b ELSE @]
    /\ win' = [w \in Windows |-> [win[w] EXCEPT !.activities = @ \ {a}]]
    /\ activitiesById' = activitiesById \ {a}
    /\ UNCHANGED desktopsById
    /\ KwinOnly /\ Emit

UserSwitches(d, a) ==
    /\ d \in ws.desktops /\ a \in ws.activities
    /\ ws' = [ws EXCEPT !.currentDesktop = d, !.currentActivity = a]
    /\ UNCHANGED <<win, catalogs>>
    /\ KwinOnly /\ Emit

UserChangesWindow(w, r) ==
    /\ r.desktops \subseteq ws.desktops /\ r.activities \subseteq ws.activities
    /\ win' = [win EXCEPT ![w] = r]
    /\ UNCHANGED <<ws, catalogs>>
    /\ KwinOnly /\ Emit

-----------------------------------------------------------------------------
(***************************************************************************)
(* Tokens and connections, as far as the methods see them.                 *)
(***************************************************************************)
\* The handlers that stay connected.
dropClientWatches(T) == {pr \in watch : pr[1] \notin T}

dropClientWorkspaceWatches(c) == {pr \in watch : pr[1] # c}

\* A client forgets what it no longer watches.
Keep(pairs) ==
    /\ watch' = watch \cap pairs
    /\ know' = Except(DOMAIN know \ pairs)
    /\ told' = told \cap pairs
    /\ missed' = missed \cap pairs

TokenBound(t, c, w) ==
    /\ t \notin spent /\ alive[c]
    /\ C!Bind(t, c, w)
    /\ spent' = spent \cup {t}
    /\ Keep(dropClientWatches(C!Superseded(t, w)))
    /\ UNCHANGED <<kwin, catalogs, alive, pending>>

TokenWithdrawn(t) ==
    /\ claim[t] # NoClaim
    /\ C!Release({t})
    /\ Keep(dropClientWatches({t}))
    /\ UNCHANGED <<kwin, catalogs, spent, alive, pending>>

Disconnected(c) ==
    /\ alive[c]
    /\ alive' = [alive EXCEPT ![c] = FALSE]
    /\ C!Release(C!OwnedBy(c))
    /\ Keep(dropClientWatches(C!OwnedBy(c)) \cap dropClientWorkspaceWatches(c))
    /\ UNCHANGED <<kwin, catalogs, spent, pending>>

-----------------------------------------------------------------------------
(***************************************************************************)
(* The methods.  The parameter of an update is its entries in order.       *)
(***************************************************************************)
resolveTokenWindow(t, c) == claim[t] # NoClaim /\ claim[t].owner = c

lookupDesktop(id) == id \in desktopsById

hasActivity(id) == id \in activitiesById

\* A plain value passes; every ID has to be in the catalog.
validateIdList(p, v) ==
    /\ p = "desktops" => v \subseteq desktopsById
    /\ p = "activities" => v \subseteq activitiesById

\* KWin keeps onAllDesktops and desktops together.
applyUpdate(r, p, v) ==
    IF p # "onAllDesktops" THEN [r EXCEPT ![p] = v]
    ELSE [r EXCEPT !.desktops = IF v THEN {}
                                ELSE IF @ = {} THEN {ws.currentDesktop} ELSE @]

Applied(r, info) ==
    LET after[i \in 0..Len(info)] ==
            IF i = 0 THEN r ELSE applyUpdate(after[i-1], info[i][1], info[i][2])
    IN  after[Len(info)]

ValueOf(p) == CASE p = "desktops" -> SUBSET Desktops
                [] p = "activities" -> SUBSET Activities
                [] OTHER -> BOOLEAN

Entries == UNION {{p} \X ValueOf(p) : p \in UPDATE_PROPS}
Infos == {<<e>> : e \in Entries}
         \cup {i \in Entries \X Entries : i[1][1] # i[2][1]}

\* The loop of a client takes the next message when the last one is answered.
Idle(c) == pending[c] = Nothing

windows_update(c, t, info) ==
    /\ Idle(c) /\ resolveTokenWindow(t, c)
    /\ \A i \in 1..Len(info) : validateIdList(info[i][1], info[i][2])
    /\ win' = [win EXCEPT ![claim[t].window] = Applied(@, info)]
    /\ UNCHANGED <<ws, catalogs, claim, spent, alive, watch, pending>>
    /\ Emit

validateId(p, v) ==
    /\ p = "currentDesktop" => lookupDesktop(v)
    /\ p = "currentActivity" => hasActivity(v)

workspace_update(c, info) ==
    /\ Idle(c)
    /\ \A p \in DOMAIN info : validateId(p, info[p])
    /\ ws' = Over(info, ws)
    /\ UNCHANGED <<win, catalogs, claim, spent, alive, watch, pending>>
    /\ Emit

\* Only values of watched properties are followed further.
Queried(c, pairs) ==
    /\ Idle(c)
    /\ pending' = [pending EXCEPT ![c] = [pr \in pairs \cap watch |-> Value(pr)]]
    /\ UNCHANGED <<kwin, catalogs, claim, spent, alive, watch, history>>

windows_query(c, t, names) ==
    /\ resolveTokenWindow(t, c)
    /\ Queried(c, {t} \X names)

workspace_query(c, names) == Queried(c, {c} \X names)

(***************************************************************************)
(* The reply of a query is sent.  A client that has had a notification     *)
(* does not take an older value from it.  The push may be refused.         *)
(***************************************************************************)
Answered(c) ==
    /\ ~Idle(c)
    /\ pending' = [pending EXCEPT ![c] = Nothing]
    /\ LET new == (DOMAIN pending[c] \cap watch) \ (told \cup missed) IN
       \/ UNCHANGED know
       \/ alive[c] /\ know' = Over([pr \in new |-> pending[c][pr]], know)
    /\ UNCHANGED <<kwin, catalogs, claim, spent, alive, watch, told, missed>>

\* setWatch of either file: one property of a watch request.
setWatch(c, pr, enable) ==
    /\ Idle(c)
    /\ IF enable THEN watch' = watch \cup {pr} /\ UNCHANGED history
       ELSE Keep(watch \ {pr})
    /\ UNCHANGED <<kwin, catalogs, claim, spent, alive, pending>>

window_watch(c, t, p, enable) ==
    /\ resolveTokenWindow(t, c)
    /\ setWatch(c, <<t, p>>, enable)

workspace_watch(c, p, enable) == setWatch(c, <<c, p>>, enable)

-----------------------------------------------------------------------------
KWin ==
    \/ \E d, e \in Desktops : desktopAdded(d) \/ desktopRemoved(d, e)
    \/ \E a, b \in Activities : activityAdded(a) \/ activityRemoved(a, b)
    \/ \E d \in Desktops, a \in Activities : UserSwitches(d, a)
    \/ \E w \in Windows, r \in Window : UserChangesWindow(w, r)

Claiming ==
    \/ \E t \in Tokens, c \in Clients, w \in Windows : TokenBound(t, c, w)
    \/ \E t \in Tokens : TokenWithdrawn(t)
    \/ \E c \in Clients : Disconnected(c)

Request(c) ==
    \/ \E t \in Tokens, info \in Infos : windows_update(c, t, info)
    \/ \E t \in Tokens, names \in (SUBSET QUERY_PROPS) \ {{}} :
          windows_query(c, t, names)
    \/ \E t \in Tokens, p \in WATCH_PROPS, enable \in BOOLEAN :
          window_watch(c, t, p, enable)
    \/ \E props \in (SUBSET WORKSPACE_UPDATE_PROPS) \ {{}} :
          \E info \in [props -> Desktops \cup Activities] : workspace_update(c, info)
    \/ \E names \in (SUBSET WORKSPACE_QUERY_PROPS) \ {{}} : workspace_query(c, names)
    \/ \E p \in WORKSPACE_WATCH_PROPS, enable \in BOOLEAN :
          workspace_watch(c, p, enable)

Next == KWin \/ Claiming \/ \E c \in Clients : Request(c) \/ Answered(c)

Spec == Init /\ [][Next]_vars

-----------------------------------------------------------------------------
(***************************************************************************)
(* The workspace and the windows name only desktops and activities that    *)
(* exist, although clients name them by IDs they learnt earlier: an update *)
(* never brings back a desktop or an activity that was removed meanwhile   *)
(* (validateIdList, validateId, and the catalogs they read).               *)
(***************************************************************************)
IdsExist ==
    /\ ws.currentDesktop \in ws.desktops /\ ws.currentActivity \in ws.activities
    /\ \A w \in Windows : /\ win[w].desktops \subseteq ws.desktops
                          /\ win[w].activities \subseteq ws.activities

(***************************************************************************)
(* A client that watches a property and then asks for it knows its value   *)
(* from there on, whoever changes it (the user, another client, KWin when  *)
(* a desktop goes, an update of another property), provided it prefers a   *)
(* notification to a reply, which may be older although it comes later.    *)
(* Properties whose last notification was refused are excepted ("missed"). *)
(***************************************************************************)
WatchersKnow == \A pr \in DOMAIN know : know[pr] = Value(pr)
=============================================================================
