---------------------------- MODULE SessionOwner ----------------------------
(****************************************************************************)
(* What the supervision and the terminal lease promise together: the        *)
(* session has at most one writer, and it changes hands only through a      *)
(* moment with none.                                                        *)
(****************************************************************************)
VARIABLE owner

Owners == {"managed", "terminal"}
Nobody == "nobody"

Init == owner = Nobody

Take(w) == owner = Nobody /\ owner' = w

LetGo == owner # Nobody /\ owner' = Nobody

Next == LetGo \/ \E w \in Owners : Take(w)

Spec == Init /\ [][Next]_owner
=============================================================================
