----------------------------- MODULE TokenLine -----------------------------
(***************************************************************************)
(* What refresh token rotation promises of a family, whatever runs at the  *)
(* same time: it is one line of tokens.  At any moment the family has      *)
(* either one usable token, or none because one request has taken it and   *)
(* may put the next, or it has ended for good.  No token is used twice.    *)
(***************************************************************************)
CONSTANTS Fams, Jtis

VARIABLES state,   \* "unborn", "held", "taken" or "ended", for each family
          tips,    \* its usable tokens
          used     \* the tokens that were ever usable

vars == <<state, tips, used>>

Init ==
    /\ state = [f \in Fams |-> "unborn"]
    /\ tips = [f \in Fams |-> {}]
    /\ used = {}

Become(F, s) == state' = [f \in Fams |-> IF f \in F THEN s ELSE state[f]]

Grant(f, j) ==
    /\ j \notin used
    /\ Become({f}, "held")
    /\ tips' = [tips EXCEPT ![f] = {j}]
    /\ used' = used \cup {j}

Open(f, j) == state[f] = "unborn" /\ Grant(f, j)

Take(f) ==
    /\ state[f] = "held"
    /\ Become({f}, "taken")
    /\ tips' = [tips EXCEPT ![f] = {}]
    /\ UNCHANGED used

Put(f, j) == state[f] = "taken" /\ Grant(f, j)

\* Expiry, logout, a refused rotation or a crash; several families may expire
\* at the same moment.
End(F) ==
    /\ \A f \in F : state[f] \in {"held", "taken"}
    /\ Become(F, "ended")
    /\ tips' = [f \in Fams |-> IF f \in F THEN {} ELSE tips[f]]
    /\ UNCHANGED used

Next ==
    \/ \E f \in Fams, j \in Jtis : Open(f, j) \/ Put(f, j)
    \/ \E f \in Fams : Take(f)
    \/ \E F \in SUBSET Fams : End(F)

Spec == Init /\ [][Next]_vars
=============================================================================
