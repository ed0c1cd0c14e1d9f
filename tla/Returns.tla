------------------------------ MODULE Returns ------------------------------
(***************************************************************************)
(* Returns: recorded on an order or on several of a customer's at once     *)
(* (a visit), corrected on the order's form or from the returns list, and  *)
(* deleted (returns.service, return-rules).                                *)
(*                                                                         *)
(* All five write the same rows. A plan says what happens on each order it *)
(* covers: the standing return taken back (0 for none) and the body now    *)
(* written (NoBody when the order takes nothing back).                     *)
(***************************************************************************)
EXTENDS PalletCredits

BodyItems(body) ==
    {i \in Items : body.accepted[i] + body.damaged[i] > 0}

(* validateReturnAgainstOrder, against the order as it would stand without  *)
(* the returns `gone`.                                                      *)
WithinOut(out, body) ==
    \A i \in Items : body.accepted[i] + body.damaged[i] <= out[i]
NotBeforeOrder(o, date) == date >= orders[o].date
Returnable(o, gone, body, date) ==
    /\ o \in Live
    /\ body # NoBody
    /\ NotBeforeOrder(o, date)
    /\ \A i \in Items : body.damagedRefund[i] <= body.damaged[i] * orders[o].deposit[i]
    /\ WithinOut(TotalsWithout(o, gone).out, body)

(* The order returns are recorded with: not cancelled, not dated after them.*)
WithOrderAllows(withOrder, date) ==
    withOrder # 0 => withOrder \in Live /\ date >= orders[withOrder].date

(* A return's place among those written together: by order number. *)
Written(plan)         == {o \in DOMAIN plan : plan[o].body # NoBody}
TakenBack(plan)       == {plan[o].old : o \in DOMAIN plan} \ {0}
FirstNew              == 1 + Max({0} \cup {r \in ReturnIds : returns[r].state # "none"})
NewId(plan, o)        == FirstNew + Cardinality({p \in Written(plan) : p < o})
NewIds(plan)          == {NewId(plan, o) : o \in Written(plan)}
OrderOfNew(plan, r)   == CHOOSE o \in Written(plan) : NewId(plan, o) = r
OrderOfOld(plan, r)   == CHOOSE o \in DOMAIN plan : plan[o].old = r

(* What a return is recorded as: priced against the order without the ones  *)
(* it replaces.                                                             *)
NewReturn(o, gone, body, date, withOrder, visit) ==
    LET due == RefundDue(orders[o].deposit, body)
    IN  [state |-> "standing", order |-> o, withOrder |-> withOrder, visit |-> visit,
         replacedBy |-> 0, date |-> date, body |-> body, refundDue |-> due,
         cashRefund |-> CashRefund(TotalsWithout(o, gone).owed, due)]

(* The mark of a return taken back: corrected when its order has a new one. *)
Reversed(r, replacement) ==
    [returns[r] EXCEPT !.state = IF replacement = 0 THEN "DELETE" ELSE "EDIT",
                       !.replacedBy = replacement]

(* A standing refund goes with its return. *)
RefundKept(r) == refunds[r]                                        \* mutant
RefundReversed(r) ==
    IF refunds[r].state = "standing" THEN [refunds[r] EXCEPT !.state = "reversed"]
    ELSE refunds[r]
RefundOf(row) ==
    IF row.cashRefund = 0 THEN NoRefund
    ELSE [state |-> "standing", amount |-> row.cashRefund]

(* The rows of every plan: returns, their refunds, and the orders' totals.  *)
WriteReturns(plan, date, withOrder, visit) ==
    LET old == TakenBack(plan)
        new == NewIds(plan)
        row == [r \in new |-> LET o == OrderOfNew(plan, r)
                              IN  NewReturn(o, old, plan[o].body, date, withOrder, visit)]
        replacement(r) == LET o == OrderOfOld(plan, r)
                          IN  IF o \in Written(plan) THEN NewId(plan, o) ELSE 0
    IN  /\ new \subseteq ReturnIds
        /\ returns' = [r \in ReturnIds |->
              IF r \in new THEN row[r]
              ELSE IF r \in old THEN Reversed(r, replacement(r)) ELSE returns[r]]
        /\ \A r \in new : row[r] \in ReturnRows
        /\ refunds' = [r \in ReturnIds |->
              IF r \in new THEN RefundOf(row[r])
              ELSE IF r \in old THEN RefundReversed(r) ELSE refunds[r]]
        /\ UNCHANGED <<orders, payments>>
        /\ RecomputeOrders(DOMAIN plan)
        /\ UNCHANGED <<handBacks, archived>>

(* Accepted pallets come back into stock, those of a return taken back go   *)
(* out again; damaged pallets never move stock.                             *)
AcceptedAndDamagedChange(plan) ==                                  \* mutant
    [i \in Items |->
        SumOver(Written(plan), [o \in DOMAIN plan |->
            plan[o].body.accepted[i] + plan[o].body.damaged[i]])
        - SumOver(TakenBack(plan), [r \in ReturnIds |-> returns[r].body.accepted[i]])]
AcceptedChange(plan) ==
    [i \in Items |->
        SumOver(Written(plan), [o \in DOMAIN plan |-> plan[o].body.accepted[i]])
        - SumOver(TakenBack(plan), [r \in ReturnIds |-> returns[r].body.accepted[i]])]

ReturnsItem(plan, i) == \E o \in Written(plan) : i \in BodyItems(plan[o].body)
Together(a, b) == [i \in Items |-> a[i] + b[i]]

(* Extra pallets stand on the return of the latest order they came back on. *)
Carrier(plan, i) ==
    NewId(plan, Max({o \in Written(plan) : i \in BodyItems(plan[o].body)}))

(* The surplus columns after an edit or a recording: `taken` of each row is *)
(* taken back, and the extra written anew on its carriers.                  *)
WriteSurplus(plan, extra, rows, taken) ==
    LET placed(r, i) == IF extra[i] > 0 /\ Carrier(plan, i) = r THEN extra[i] ELSE 0
        reopened(r, i) == IF <<r, i>> \in rows THEN taken[<<r, i>>] ELSE 0
    IN  /\ surplus' = [r \in ReturnIds |-> [i \in Items |->
                         surplus[r][i] + placed(r, i) - reopened(r, i)]]
        /\ \A r \in ReturnIds, i \in Items : surplus'[r][i] \in Counts
        /\ credited' = [r \in ReturnIds |->
                          credited[r] \cup {i \in Items : placed(r, i) > 0}]
-----------------------------------------------------------------------------
(* create: one return on one order. *)
CreateReturn(o, body, date) ==
    LET plan == [k \in {o} |-> [old |-> 0, body |-> body]]
    IN  /\ Returnable(o, {}, body, date)
        /\ WriteReturns(plan, date, 0, 0)
        /\ ApplyStock(AcceptedChange(plan))
        /\ UNCHANGED <<owing, surplus, credited>>

(* checkSurplus: extra only of an item this return takes back and leaves    *)
(* none of out.                                                             *)
ExtraWhateverIsOut(plan, extra) ==                                 \* mutant
    \A i \in Items : extra[i] > 0 => ReturnsItem(plan, i)
ExtraAllowed(plan, extra) ==
    \A i \in Items : extra[i] > 0 =>
        /\ ReturnsItem(plan, i)
        /\ OpenOut(i) <= SumOver(Written(plan), [o \in DOMAIN plan |->
                            plan[o].body.accepted[i] + plan[o].body.damaged[i]])

(* createForCustomer: a return on each order named, all or none; two or     *)
(* more are one visit.                                                      *)
CreateForCustomer(bodies, date, withOrder, extra) ==
    LET plan  == [o \in DOMAIN bodies |-> [old |-> 0, body |-> bodies[o]]]
        visit == IF Cardinality(DOMAIN bodies) > 1 THEN FirstNew ELSE 0
    IN  /\ \A o \in DOMAIN bodies : Returnable(o, {}, bodies[o], date)
        /\ WithOrderAllows(withOrder, date)
        /\ ExtraAllowed(plan, extra)
        /\ WriteReturns(plan, date, withOrder, visit)
        /\ WriteSurplus(plan, extra, {}, <<>>)
        /\ WriteCredits(extra)
        /\ ApplyStock(Together(AcceptedChange(plan), extra))

(* delete: the return never happened. Its surplus goes with it, refused     *)
(* when any of that has gone out since, the oldest first.                   *)
MayTakeAnySurplus(rows) == TRUE                                    \* mutant
MayTakeSurplus(rows) ==
    \A row \in rows : RemainingByReturn(row[2])[row[1]] >= surplus[row[1]][row[2]]
DeleteReturn(r) ==
    LET o     == returns[r].order
        items == BodyItems(returns[r].body)
        rows  == SurplusOf(r, items)
        plan  == [k \in {o} |-> [old |-> r, body |-> NoBody]]
        taken == [row \in rows |-> surplus[row[1]][row[2]]]
        back  == SurplusByItem(rows, taken)
    IN  /\ returns[r].state = "standing"
        /\ o \in Live
        /\ MayTakeSurplus(rows)
        /\ WriteReturns(plan, 0, 0, 0)
        /\ WriteSurplus(plan, [i \in Items |-> 0], rows, taken)
        /\ WriteCredits([i \in Items |-> -back[i]])
        /\ ApplyStock([i \in Items |-> AcceptedChange(plan)[i] - back[i]])
        /\ OneRuleHolds(items)

(* carryOverForReplace: the return's own surplus moves to its correction,   *)
(* whole, refused when the correction leaves any of it out again.           *)
CarryOver(r, new, rows) ==
    /\ \A row \in rows : OpenOut(row[2])' <= 0
    /\ surplus' = [surplus EXCEPT ![r] = [i \in Items |-> 0], ![new] = surplus[r]]
    /\ credited' = [credited EXCEPT ![new] = {i \in Items : surplus[r][i] > 0}]

(* replace: a correction on the order's form, in no visit, recorded with    *)
(* the order the return was.                                                *)
ReplaceReturn(r, body, date) ==
    LET o     == returns[r].order
        items == BodyItems(returns[r].body)
        plan  == [k \in {o} |-> [old |-> r, body |-> body]]
    IN  /\ returns[r].state = "standing"
        /\ WithOrderAllows(returns[r].withOrder, date)
        /\ Returnable(o, {r}, body, date)
        /\ WriteReturns(plan, date, returns[r].withOrder, 0)
        /\ ApplyStock(AcceptedChange(plan))
        /\ CarryOver(r, FirstNew, SurplusOf(r, items))
        /\ UNCHANGED owing
        /\ OneRuleHolds(items \cup BodyItems(body))

(* Of a return's surplus, what is still owed. *)
WholeSurplus(rows) == [row \in rows |-> surplus[row[1]][row[2]]]    \* mutant
StandingSurplus(rows) ==
    [row \in rows |-> LesserOf(surplus[row[1]][row[2]],
                               ZeroOrMore(RemainingByReturn(row[2])[row[1]]))]

(* A return and, for a visit, its other standing parts. *)
PartsOf(r) == IF returns[r].visit = 0 THEN {r}
              ELSE {q \in StandingReturns : returns[q].visit = returns[r].visit}

(* What the edit writes, once it is allowed: the parts' rows, taken back and *)
(* written anew, as one visit where they are two or more; of its extra what *)
(* is still owed taken back and the screen's put in its place; and one stock *)
(* change for the whole of it.                                              *)
WriteEdit(plan, date, withOrder, extra, rows) ==
    LET taken == StandingSurplus(rows)
        back  == SurplusByItem(rows, taken)
        net   == [i \in Items |-> extra[i] - back[i]]
        visit == IF Cardinality(Written(plan)) > 1 THEN FirstNew ELSE 0
    IN  /\ WriteReturns(plan, date, withOrder, visit)
        /\ WriteSurplus(plan, extra, rows, taken)
        /\ WriteCredits(net)
        /\ ApplyStock(Together(AcceptedChange(plan), net))

(* replaceForCustomer: an edit from the returns list. The standing parts    *)
(* are replaced by what the screen now says: corrected where their order    *)
(* still takes pallets back, deleted where it takes none, and a return of   *)
(* its own on an order newly named.                                         *)
ReplaceForCustomer(r, bodies, date, extra) ==
    LET parts     == PartsOf(r)
        oldOrders == {returns[q].order : q \in parts}
        partOn(o) == CHOOSE q \in parts : returns[q].order = o
        plan      == [o \in oldOrders \cup DOMAIN bodies |->
                        [old  |-> IF o \in oldOrders THEN partOn(o) ELSE 0,
                         body |-> IF o \in DOMAIN bodies THEN bodies[o] ELSE NoBody]]
        withOrder == Max({0} \cup {returns[q].withOrder : q \in parts})
        oldItems  == UNION {BodyItems(returns[q].body) : q \in parts}
        rows      == {row \in SurplusOf(r, oldItems) : StandingSurplus({row})[row] > 0}
        touched   == oldItems \cup SurplusItems(rows)
                     \cup UNION {BodyItems(bodies[o]) : o \in DOMAIN bodies}
    IN  /\ returns[r].state = "standing"
        /\ oldOrders \subseteq Live
        /\ WithOrderAllows(withOrder, date)
        /\ \A o \in DOMAIN bodies :
              Returnable(o, {plan[o].old} \ {0}, bodies[o], date)
        /\ \A i \in Items : extra[i] > 0 => ReturnsItem(plan, i)
        /\ WriteEdit(plan, date, withOrder, extra, rows)
        /\ \A i \in Items : extra[i] > 0 => OpenOut(i)' <= 0
        /\ OneRuleHolds(touched)
=============================================================================
