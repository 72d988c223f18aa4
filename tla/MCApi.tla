-------------------------------- MODULE MCApi ---------------------------------
(* Connections from one address, the right token and a wrong one.  Thirds of a   *)
(* second, of which one is rounded down; a block, one doubling, and no third.    *)
EXTENDS ApiProperties, TLC

MCAddress == [c \in Connections |-> "ip"]
Alike == Permutations(Connections)

MCRequests == {<<"GET", "none">>, <<"POST", "sized">>, <<"OPTIONS", "none">>}

\* A new connection and one that waits with nothing unread go on alike.
Ready(c) == conn[c].at \in {"free", "waiting"} /\ conn[c].unread = "none"
Idling == <<clock, limiter, [c \in Connections |-> IF Ready(c) THEN Free ELSE conn[c]]>>
=============================================================================
