------------------------------- MODULE Claims -------------------------------
(***************************************************************************)
(* What the token protocol (tokens.ts) promises the methods that take a    *)
(* token: a token is the claim of one client on one window, a window is    *)
(* claimed by at most one token, and a claim is never moved, only taken    *)
(* away.  Registry implements this; Properties builds on it.               *)
(***************************************************************************)
CONSTANTS Clients, Tokens, Windows, NoClaim

VARIABLE claim      \* the owner and the window of a token that is active

Init == claim = [t \in Tokens |-> NoClaim]

Claimed(t, w) == claim[t] # NoClaim /\ claim[t].window = w

OwnedBy(c) == {t \in Tokens : claim[t] # NoClaim /\ claim[t].owner = c}

\* The token that held the window is superseded.
Superseded(t, w) == {u \in Tokens \ {t} : Claimed(u, w)}

\* The first caption match of the token of client c.
Bind(t, c, w) ==
    /\ claim[t] = NoClaim
    /\ claim' = [u \in Tokens |->
                    IF u = t THEN [owner |-> c, window |-> w]
                    ELSE IF u \in Superseded(t, w) THEN NoClaim ELSE claim[u]]

Release(T) == claim' = [u \in Tokens |-> IF u \in T THEN NoClaim ELSE claim[u]]

Next ==
    \/ \E t \in Tokens, c \in Clients, w \in Windows : Bind(t, c, w)
    \/ \E t \in Tokens : Release({t})
    \/ \E c \in Clients : Release(OwnedBy(c))

Spec == Init /\ [][Next]_claim
=============================================================================
