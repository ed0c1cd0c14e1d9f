--------------------------- MODULE PalletCredits ---------------------------
(***************************************************************************)
(* Pallets the factory owes the customer: returned beyond what was out,    *)
(* handed back later or taken by a new order first. pallet-credits.service *)
(* keeps one append-only ledger, read back by item (owing), by order       *)
(* (orders[o].used) and by return (surplus).                               *)
(***************************************************************************)
EXTENDS LendingState

(* Of the pallets an order hands over, those owed go out first. *)
TakenOnlyIfAll(available, requested) ==                            \* mutant
    [i \in Items |-> IF requested[i] <= available[i] THEN requested[i] ELSE 0]
TakenFromOwed(available, requested) ==
    [i \in Items |-> LesserOf(ZeroOrMore(available[i]), requested[i])]

(* The return a correction replaced. *)
Replaced(r) == {q \in ReturnIds : returns[q].replacedBy = r}

(* A surplus moved to a correction keeps its place: the oldest of the chain *)
(* of corrections that has rows of the item.                                *)
PlaceOfOwn(i) == [r \in ReturnIds |-> r]                           \* mutant
Place(i) ==
    LET place[r \in ReturnIds] ==
            LET behind == {q \in Replaced(r) : q < r /\ i \in credited[q]}
            IN  IF behind = {} THEN r ELSE place[Min(behind)]
    IN  place

(* What is left of each return's surplus of an item after what went out of  *)
(* it, the oldest surplus going out first.                                  *)
RemainingByReturn(i) ==
    LET place  == Place(i)
        left   == [r \in ReturnIds |-> surplus[r][i]]
        older  == [r \in ReturnIds |->
                     {q \in ReturnIds : \/ place[q] < place[r]
                                        \/ place[q] = place[r] /\ q < r}]
        gone   == SumOver(ReturnIds, left) - owing[i]
    IN  [r \in ReturnIds |->
            left[r] - LesserOf(ZeroOrMore(gone - SumOver(older[r], left)), left[r])]

(* The visit a return belongs to, a correction's found back through what it *)
(* replaced; and every visit anywhere behind a return.                      *)
VisitOf ==
    LET visit[r \in ReturnIds] ==
            LET behind == {q \in Replaced(r) : q < r}
            IN  IF returns[r].visit # 0 THEN returns[r].visit
                ELSE IF behind = {} THEN 0 ELSE visit[Min(behind)]
    IN  visit
VisitsBehind ==
    LET visits[r \in ReturnIds] ==
            ({returns[r].visit} \ {0})
                \cup UNION {visits[q] : q \in {k \in Replaced(r) : k < r}}
    IN  visits

(* The surplus a return takes with it when corrected or deleted: its own,   *)
(* and its visit's of the items it took back, whichever return of the visit *)
(* carries it. A set of <<return, item>>.                                   *)
OwnSurplusOf(r, items) ==                                          \* mutant
    {row \in {r} \X Items : surplus[r][row[2]] > 0}
SurplusOf(r, items) ==
    {row \in ReturnIds \X Items :
        /\ surplus[row[1]][row[2]] > 0
        /\ \/ row[1] = r
           \/ /\ VisitOf[r] # 0 /\ VisitOf[r] \in VisitsBehind[row[1]]
              /\ row[2] \in items}

SurplusItems(rows) == {row[2] : row \in rows}
SurplusByItem(rows, quantity) ==
    [i \in Items |-> SumOver({row \in rows : row[2] = i}, quantity)]

(* The owing column after entries that add and take pallets of each item.   *)
WriteCredits(change) ==
    /\ owing' = [i \in Items |-> owing[i] + change[i]]
    /\ \A i \in Items : owing'[i] \in Figures
-----------------------------------------------------------------------------
(* handBack: pallets owed are handed to the customer, their stock out. *)
MayHandBack(i, quantity) == quantity <= Owed(i)
HandBack(h, i, quantity) ==
    /\ NextFree(h, HandBackIds, handBacks)
    /\ MayHandBack(i, quantity)
    /\ LET change == [k \in Items |-> IF k = i THEN -quantity ELSE 0]
       IN  WriteCredits(change) /\ ApplyStock(change)
    /\ handBacks' = [handBacks EXCEPT ![h] =
            [state |-> "standing",
             quantity |-> [k \in Items |-> IF k = i THEN quantity ELSE 0]]]
    /\ UNCHANGED <<orders, returns, refunds, payments, cache, surplus, credited, archived>>

(* undoHandBack: owed again, once, and only while none of the item is out. *)
MayUndo(h) == \A i \in Items : handBacks[h].quantity[i] > 0 => OpenOut(i) <= 0
UndoHandBack(h) ==
    /\ handBacks[h].state = "standing"
    /\ MayUndo(h)
    /\ WriteCredits(handBacks[h].quantity)
    /\ ApplyStock(handBacks[h].quantity)
    /\ handBacks' = [handBacks EXCEPT ![h].state = "undone"]
    /\ UNCHANGED <<orders, returns, refunds, payments, cache, surplus, credited, archived>>
=============================================================================
