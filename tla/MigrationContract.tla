--------------------------- MODULE MigrationContract ---------------------------
(***************************************************************************)
(* What the migrations promise: they take effect one after the other in    *)
(* the order of their versions, none is undone, and a server that reports  *)
(* its migrations finished finds every one in effect.                      *)
(***************************************************************************)
EXTENDS Naturals

CONSTANTS Servers, N

VARIABLES completed, finished

vars == <<completed, finished>>

Init == completed = {} /\ finished = {}

Apply(v) ==
    /\ 1 .. (v - 1) \subseteq completed
    /\ completed' = completed \cup {v}
    /\ UNCHANGED finished

Finish(p) ==
    /\ completed = 1 .. N
    /\ finished' = finished \cup {p}
    /\ UNCHANGED completed

Next == \/ \E v \in 1 .. N : Apply(v)
        \/ \E p \in Servers : Finish(p)

Spec == Init /\ [][Next]_vars
================================================================================
