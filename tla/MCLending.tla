----------------------------- MODULE MCLending -----------------------------
(***************************************************************************)
(* Lending on small instances. The .cfg files give the bounds; each run is *)
(* sized so that the hazard it is about occurs.                            *)
(***************************************************************************)
EXTENDS OrderScreens, TLC

(* Two items are interchangeable: no handler tells one from another. *)
ItemSymmetry == Permutations(Items)

(* Two questions in one run, each explored in full: what two orders of one  *)
(* item do to each other, and what one order of a pallet each of both items *)
(* does. Nothing is explored beyond a state of neither kind.                *)
UsesOnly(S) ==
    \A o \in OrderIds, i \in Items \ S : orders[o].quantity[i] = 0 /\ orders[o].used[i] = 0
OneItemOrOneOrder ==
    \/ \E i \in Items : UsesOnly({i})
    \/ /\ \A o \in OrderIds \ {1} : orders[o].state = "none"
       /\ \A i \in Items : orders[1].quantity[i] + orders[1].used[i] <= 1

(* The system may stop at any time: a business day without a request. What *)
(* the runs look for is a state no request can leave by mistake, so they   *)
(* check no deadlock.                                                      *)
=============================================================================
