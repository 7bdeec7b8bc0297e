------------------------------- MODULE PTNet -------------------------------
(***************************************************************************)
(* The firing rule of the place/transition net that the builder emits and *)
(* a downstream checker reads (spec section 5): a transition is enabled   *)
(* when each place holds at least as many tokens as there are arcs from   *)
(* it to the transition, and firing it moves the tokens.  The arcs of the *)
(* net are weight-1 records [src, tgt]; two arcs between the same pair    *)
(* count twice, as two PNML arc elements do for a reader that adds them.  *)
(***************************************************************************)
EXTENDS Naturals, FiniteSets

VARIABLES places, transitions, arcs, marking

PlaceIds == {places[j].id : j \in DOMAIN places}

Pre(t, p)  == Cardinality({j \in DOMAIN arcs : arcs[j].src = p /\ arcs[j].tgt = t})
Post(t, p) == Cardinality({j \in DOMAIN arcs : arcs[j].src = t /\ arcs[j].tgt = p})

(* The initial marking: each place's initialMarking, else 0. *)
Initial == [p \in PlaceIds |-> places[CHOOSE j \in DOMAIN places : places[j].id = p].init]

Enabled(t) == \A p \in PlaceIds : marking[p] >= Pre(t, p)

After(t) == [p \in PlaceIds |-> marking[p] - Pre(t, p) + Post(t, p)]

Fire(t) ==
    /\ Enabled(t)
    /\ marking' = After(t)
    /\ UNCHANGED <<places, transitions, arcs>>
=============================================================================
