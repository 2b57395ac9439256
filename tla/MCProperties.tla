---------------------------- MODULE MCProperties ----------------------------
(***************************************************************************)
(* Properties for TLC: clients, tokens, windows, desktops and activities   *)
(* may be renamed among themselves.                                        *)
(***************************************************************************)
EXTENDS Properties, TLC

Symmetry == Permutations(Clients) \cup Permutations(Tokens)
            \cup Permutations(Windows) \cup Permutations(Desktops)
            \cup Permutations(Activities)
=============================================================================
