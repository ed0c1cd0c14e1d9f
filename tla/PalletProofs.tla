---------------------------- MODULE PalletProofs ----------------------------
(***************************************************************************)
(* The pallets, for every value of the constants: what is on hand is what  *)
(* the rows of orders, returns and pallets owed say; pallets come to be    *)
(* owed beside pallets out by a cancellation only; and no order grows      *)
(* beyond the customer's limit.                                            *)
(***************************************************************************)
EXTENDS LedgerProofs

(* The stock. What live orders lend of an item, and what standing returns   *)
(* accepted of it.                                                          *)
Lent(i)     == SumOver(Live, [o \in OrderIds |-> orders[o].quantity[i]])
Accepted(i) == SumOver(StandingReturns, [r \in ReturnIds |-> returns[r].body.accepted[i]])
StockIs(i)  == stock[i] = InitialStock - Lent(i) + Accepted(i) + owing[i]
StockInv    == \A i \in Items : StockIs(i)

LEMMA StockTypes ==
  ASSUME TypeOK, NEW i \in Items
  PROVE  /\ Lent(i) \in Int /\ Accepted(i) \in Int
         /\ stock[i] \in Int /\ owing[i] \in Int
         /\ IsFiniteSet(Live) /\ IsFiniteSet(StandingReturns)
         /\ \A o \in OrderIds : orders[o].quantity[i] \in Int /\ orders[o].used[i] \in Int
         /\ \A r \in ReturnIds : returns[r].body.accepted[i] \in Int
<1>1. stock[i] \in Int /\ owing[i] \in Int
  BY BoundsAssumption DEF TypeOK, Counts, Figures
<1>2. Live \subseteq OrderIds /\ StandingReturns \subseteq ReturnIds
  BY DEF Live, StandingReturns
<1>3. IsFiniteSet(Live) /\ IsFiniteSet(StandingReturns)
  BY <1>2, RowsAreFinite, FS_Subset
<1>4. ASSUME NEW o \in OrderIds PROVE orders[o].quantity[i] \in Int /\ orders[o].used[i] \in Int
  BY BoundsAssumption DEF TypeOK, OrderRows
<1>5. ASSUME NEW r \in ReturnIds PROVE returns[r].body.accepted[i] \in Int
  <2>1. returns[r] \in ReturnRows
    BY DEF TypeOK
  <2> QED BY <2>1, BoundsAssumption DEF ReturnRows, Bodies
<1>6. Lent(i) \in Int
  <2> DEFINE f == [o \in OrderIds |-> orders[o].quantity[i]]
  <2>1. \A o \in Live : f[o] \in Int
    BY <1>2, <1>4
  <2> HIDE DEF f
  <2>2. SumOver(Live, f) \in Int
    BY <1>3, <2>1, SumIsInt
  <2> QED BY <2>2 DEF Lent, f
<1>7. Accepted(i) \in Int
  <2> DEFINE f == [r \in ReturnIds |-> returns[r].body.accepted[i]]
  <2>1. \A r \in StandingReturns : f[r] \in Int
    BY <1>2, <1>5
  <2> HIDE DEF f
  <2>2. SumOver(StandingReturns, f) \in Int
    BY <1>3, <2>1, SumIsInt
  <2> QED BY <2>2 DEF Accepted, f
<1> QED BY <1>1, <1>3, <1>4, <1>5, <1>6, <1>7

LEMMA SameAccepted ==
  ASSUME UNCHANGED returns, NEW i PROVE Accepted(i)' = Accepted(i)
BY DEF Accepted, StandingReturns

LEMMA SameLent ==
  ASSUME UNCHANGED orders, NEW i PROVE Lent(i)' = Lent(i)
BY DEF Lent, Live

(* One order changes: what it lends is what the sum changes by.             *)
LentBy(row, i) == IF row.state = "live" THEN row.quantity[i] ELSE 0
LEMMA LentChanges ==
  ASSUME TypeOK, NEW o \in OrderIds, NEW row \in OrderRows,
         orders' = [orders EXCEPT ![o] = row], NEW i \in Items
  PROVE  /\ Lent(i)' = Lent(i) - LentBy(orders[o], i) + LentBy(row, i)
         /\ LentBy(orders[o], i) \in Int /\ LentBy(row, i) \in Int
<1> DEFINE all(x) == [k \in OrderIds |-> LentBy(x[k], i)]
           f == [k \in OrderIds |-> orders[k].quantity[i]]
           g == [k \in OrderIds |-> orders'[k].quantity[i]]
<1>1. /\ orders'[o] = row /\ \A k \in OrderIds \ {o} : orders'[k] = orders[k]
      /\ \A k \in OrderIds : orders[k] \in OrderRows /\ orders'[k] \in OrderRows
  BY DEF TypeOK
<1>2. \A r \in OrderRows : r.quantity[i] \in Int /\ LentBy(r, i) \in Int
  <2>1. \A r \in OrderRows : r.quantity[i] \in Int
    BY BoundsAssumption DEF OrderRows
  <2> QED BY <2>1 DEF LentBy
<1>3. Live \in SUBSET OrderIds /\ Live' \in SUBSET OrderIds
  BY DEF Live
<1>4. Lent(i) = SumOver(Live, f) /\ Lent(i)' = SumOver(Live', g)
  BY DEF Lent
<1>5. /\ \A k \in Live : f[k] = all(orders)[k]
      /\ \A k \in OrderIds \ Live : all(orders)[k] = 0
      /\ \A k \in Live' : g[k] = all(orders')[k]
      /\ \A k \in OrderIds \ Live' : all(orders')[k] = 0
  BY DEF Live, LentBy
<1>6. \A k \in OrderIds : all(orders)[k] \in Int /\ all(orders')[k] \in Int
  BY <1>1, <1>2
<1>7. /\ \A k \in OrderIds \ {o} : all(orders')[k] = all(orders)[k]
      /\ all(orders)[o] = LentBy(orders[o], i) /\ all(orders')[o] = LentBy(row, i)
  BY <1>1
<1>8. PICK a, b : a = all(orders) /\ b = all(orders')
  OBVIOUS
<1> HIDE DEF all, f, g
<1>9. SumOver(OrderIds, a) = SumOver(Live, a) /\ SumOver(Live, a) = Lent(i)
  <2>1. SumOver(OrderIds, a) = SumOver(Live, a)
    BY <1>3, <1>5, <1>6, <1>8, RowsAreFinite, SumOfPart
  <2>2. IsFiniteSet(Live)
    BY <1>3, RowsAreFinite, FS_Subset
  <2>3. SumOver(Live, f) = SumOver(Live, a)
    BY <1>5, <1>8, <2>2, SumAgrees
  <2> QED BY <1>4, <2>1, <2>3
<1>10. SumOver(OrderIds, b) = Lent(i)'
  <2>0. PICK P : P = Live' /\ P \in SUBSET OrderIds
    BY <1>3
  <2>1. SumOver(OrderIds, b) = SumOver(P, b)
    BY <1>5, <1>6, <1>8, <2>0, RowsAreFinite, SumOfPart
  <2>2. IsFiniteSet(P)
    BY <2>0, RowsAreFinite, FS_Subset
  <2>3. SumOver(P, g) = SumOver(P, b)
    BY <1>5, <1>8, <2>0, <2>2, SumAgrees
  <2> QED BY <1>4, <2>0, <2>1, <2>3
<1>11. SumOver(OrderIds, b) = SumOver(OrderIds, a) - a[o] + b[o]
  <2>0. PICK S : S = OrderIds /\ IsFiniteSet(S) /\ o \in S
    BY RowsAreFinite
  <2>1. \A k \in S : a[k] \in Int /\ b[k] \in Int
    BY <1>6, <1>8, <2>0
  <2>2. \A k \in S \ {o} : a[k] = b[k]
    BY <1>7, <1>8, <2>0
  <2>3. SumOver(S, b) = SumOver(S, a) - a[o] + b[o]
    BY ONLY <2>0, <2>1, <2>2, SumOneChanged
  <2> QED BY <2>0, <2>3
<1>12. LentBy(orders[o], i) \in Int /\ LentBy(row, i) \in Int
  BY <1>1, <1>2
<1> QED BY <1>7, <1>8, <1>9, <1>10, <1>11, <1>12

LEMMA CreateOrderStock ==
  ASSUME TypeOK, TypeOK', StockInv, NEW o \in OrderIds, NEW payment, NEW date,
         NEW requested \in Requests, NEW deposit, NEW override,
         CreateOrder(o, payment, date, requested, deposit, override)
  PROVE  StockInv'
<1> DEFINE used == TakenFromOwed(owing, requested)
           lent == Minus(requested, used)
           row  == [state |-> "live", payment |-> payment, date |-> date,
                    quantity |-> lent, deposit |-> Priced(lent, deposit), used |-> used]
<1>1. orders' = [orders EXCEPT ![o] = row] /\ orders[o].state = "none"
  BY DEF CreateOrder, NextFree
<1>2. row.state = "live" /\ row.quantity = lent
  OBVIOUS
<1>3. \A i \in Items : /\ stock'[i] = stock[i] + -requested[i]
                       /\ owing'[i] = owing[i] + -used[i]
  BY DEF CreateOrder, ApplyStock, WriteCredits
<1>4. \A i \in Items : /\ used[i] \in Int /\ requested[i] \in Int
                       /\ lent[i] = requested[i] - used[i]
  <2>0. owing \in [Items -> Int]
    BY BoundsAssumption DEF TypeOK, Figures
  <2>1. used \in [Items -> 0 .. MaxQuantity]
    BY <2>0, TakenIsPart
  <2> HIDE DEF used
  <2> QED BY <2>1, BoundsAssumption DEF Requests, Minus
<1> HIDE DEF used, lent, row
<1>5. row \in OrderRows
  BY <1>1 DEF TypeOK
<1>6. Accepted(0)' = Accepted(0) /\ UNCHANGED returns
  BY SameAccepted DEF CreateOrder
<1>7. ASSUME NEW i \in Items PROVE StockIs(i)'
  <2>1. /\ Lent(i)' = Lent(i) - LentBy(orders[o], i) + LentBy(row, i)
        /\ LentBy(orders[o], i) = 0 /\ LentBy(row, i) = lent[i]
    BY <1>1, <1>2, <1>5, LentChanges DEF LentBy
  <2>2. Accepted(i)' = Accepted(i)
    BY <1>6, SameAccepted
  <2>3. Lent(i) \in Int /\ Accepted(i) \in Int /\ stock[i] \in Int /\ owing[i] \in Int
    BY StockTypes
  <2>4. stock[i] = InitialStock - Lent(i) + Accepted(i) + owing[i]
    BY DEF StockInv, StockIs
  <2>5. stock'[i] = InitialStock - Lent(i)' + Accepted(i)' + owing'[i]
    BY <1>3, <1>4, <2>1, <2>2, <2>3, <2>4, BoundsAssumption
  <2> QED BY <2>5 DEF StockIs
<1> QED BY <1>7 DEF StockInv

LEMMA EditHeaderStock ==
  ASSUME TypeOK, TypeOK', StockInv, NEW o \in OrderIds, NEW date, EditHeader(o, date)
  PROVE  StockInv'
<1>1. PICK row : /\ orders' = [orders EXCEPT ![o] = row]
                 /\ row.state = orders[o].state /\ row.quantity = orders[o].quantity
  <2> DEFINE new == [orders[o] EXCEPT !.date = date]
  <2>1. orders[o] \in OrderRows
    BY DEF TypeOK
  <2>2. orders' = [orders EXCEPT ![o] = new]
    BY DEF EditHeader
  <2>3. new.state = orders[o].state /\ new.quantity = orders[o].quantity
    BY <2>1 DEF OrderRows
  <2> HIDE DEF new
  <2> QED BY <2>2, <2>3
<1>2. row \in OrderRows
  BY <1>1 DEF TypeOK
<1>3. UNCHANGED <<returns, stock, owing>>
  BY DEF EditHeader
<1>4. ASSUME NEW i \in Items PROVE StockIs(i)'
  <2>1. /\ Lent(i)' = Lent(i) - LentBy(orders[o], i) + LentBy(row, i)
        /\ LentBy(row, i) = LentBy(orders[o], i)
        /\ LentBy(row, i) \in Int /\ Lent(i) \in Int
    BY <1>1, <1>2, LentChanges, StockTypes DEF LentBy
  <2>2. Lent(i)' = Lent(i)
    BY <2>1
  <2> QED BY <1>3, <2>2, SameAccepted DEF StockInv, StockIs
<1> QED BY <1>4 DEF StockInv

LEMMA EditLinesStock ==
  ASSUME TypeOK, TypeOK', StockInv, NEW o \in OrderIds, NEW date,
         NEW requested \in Requests, NEW deposit, NEW override,
         EditLines(o, date, requested, deposit, override)
  PROVE  StockInv'
<1> DEFINE before == orders[o]
           used == TakenFromOwed(Plus([i \in Items |-> Owed(i)], before.used), requested)
           lent == Minus(requested, used)
           row  == [before EXCEPT !.date = date, !.quantity = lent,
                                  !.deposit = Priced(lent, deposit), !.used = used]
<1>0. before \in OrderRows
  BY DEF TypeOK
<1>1. orders' = [orders EXCEPT ![o] = row] /\ orders[o].state = "live"
  BY DEF EditLines, Live
<1>2. row.state = before.state /\ row.quantity = lent
  BY <1>0 DEF OrderRows
<1>3. \A i \in Items : /\ used[i] \in Int /\ requested[i] \in Int
                       /\ lent[i] = requested[i] - used[i]
                       /\ before.quantity[i] \in Int /\ before.used[i] \in Int
  <2>1. Plus([i \in Items |-> Owed(i)], before.used) \in [Items -> Int]
    BY <1>0, BoundsAssumption DEF TypeOK, Plus, Owed, ZeroOrMore, Figures, OrderRows
  <2>2. used \in [Items -> 0 .. MaxQuantity]
    BY <2>1, TakenIsPart
  <2> HIDE DEF used
  <2> QED BY <1>0, <2>2, BoundsAssumption DEF Requests, Minus, OrderRows
<1>4. \A i \in Items : /\ stock'[i] = stock[i] + (before.quantity[i] + before.used[i] - requested[i])
                       /\ owing'[i] = owing[i] + (before.used[i] - used[i])
  <2>1. /\ ApplyStock(Minus(Plus(before.quantity, before.used), requested))
        /\ WriteCredits(Minus(before.used, used))
    BY DEF EditLines
  <2>2. PICK move, change : /\ move = Minus(Plus(before.quantity, before.used), requested)
                            /\ change = Minus(before.used, used)
    OBVIOUS
  <2>3. \A i \in Items : /\ move[i] = before.quantity[i] + before.used[i] - requested[i]
                         /\ change[i] = before.used[i] - used[i]
    <3> HIDE DEF before, used
    <3> QED BY <1>3, <2>2 DEF Minus, Plus
  <2>4. \A i \in Items : stock'[i] = stock[i] + move[i] /\ owing'[i] = owing[i] + change[i]
    BY <2>1, <2>2 DEF ApplyStock, WriteCredits
  <2> QED BY <2>3, <2>4
<1> HIDE DEF used, lent, row
<1>5. row \in OrderRows
  BY <1>1 DEF TypeOK
<1>6. UNCHANGED returns
  BY DEF EditLines
<1>7. ASSUME NEW i \in Items PROVE StockIs(i)'
  <2>1. /\ Lent(i)' = Lent(i) - LentBy(before, i) + LentBy(row, i)
        /\ LentBy(before, i) = before.quantity[i] /\ LentBy(row, i) = lent[i]
    BY <1>1, <1>2, <1>5, LentChanges DEF LentBy
  <2>2. Accepted(i)' = Accepted(i)
    BY <1>6, SameAccepted
  <2>3. Lent(i) \in Int /\ Accepted(i) \in Int /\ stock[i] \in Int /\ owing[i] \in Int
    BY StockTypes
  <2>4. stock[i] = InitialStock - Lent(i) + Accepted(i) + owing[i]
    BY DEF StockInv, StockIs
  <2> HIDE DEF before
  <2>5. stock'[i] = InitialStock - Lent(i)' + Accepted(i)' + owing'[i]
    BY <1>3, <1>4, <2>1, <2>2, <2>3, <2>4, BoundsAssumption
  <2> QED BY <2>5 DEF StockIs
<1> QED BY <1>7 DEF StockInv

LEMMA CancelOrderStock ==
  ASSUME TypeOK, TypeOK', StockInv, NEW o \in OrderIds, CancelOrder(o)
  PROVE  StockInv'
<1> DEFINE before == orders[o]
           row == [before EXCEPT !.state = "cancelled", !.used = [i \in Items |-> 0]]
<1>0. before \in OrderRows
  BY DEF TypeOK
<1>1. orders' = [orders EXCEPT ![o] = row] /\ orders[o].state = "live"
  BY DEF CancelOrder, Live
<1>2. row.state = "cancelled"
  BY <1>0 DEF OrderRows
<1>3. \A i \in Items : /\ stock'[i] = stock[i] + (before.quantity[i] + before.used[i])
                       /\ owing'[i] = owing[i] + before.used[i]
  BY DEF CancelOrder, ApplyStock, WriteCredits, Plus, OwedAgain
<1>4. \A i \in Items : before.quantity[i] \in Int /\ before.used[i] \in Int
  BY <1>0, BoundsAssumption DEF OrderRows
<1> HIDE DEF row
<1>5. row \in OrderRows
  BY <1>1 DEF TypeOK
<1>6. UNCHANGED returns
  BY DEF CancelOrder
<1>7. ASSUME NEW i \in Items PROVE StockIs(i)'
  <2>1. /\ Lent(i)' = Lent(i) - LentBy(before, i) + LentBy(row, i)
        /\ LentBy(before, i) = before.quantity[i] /\ LentBy(row, i) = 0
    BY <1>1, <1>2, <1>5, LentChanges DEF LentBy
  <2>2. Accepted(i)' = Accepted(i)
    BY <1>6, SameAccepted
  <2>3. Lent(i) \in Int /\ Accepted(i) \in Int /\ stock[i] \in Int /\ owing[i] \in Int
    BY StockTypes
  <2>4. stock[i] = InitialStock - Lent(i) + Accepted(i) + owing[i]
    BY DEF StockInv, StockIs
  <2> HIDE DEF before
  <2>5. stock'[i] = InitialStock - Lent(i)' + Accepted(i)' + owing'[i]
    BY <1>3, <1>4, <2>1, <2>2, <2>3, <2>4, BoundsAssumption
  <2> QED BY <2>5 DEF StockIs
<1> QED BY <1>7 DEF StockInv

(* What moves stock and what is owed alike keeps them apart by the rows.    *)
LEMMA OwedMovesStock ==
  ASSUME TypeOK, StockInv, UNCHANGED <<orders, returns>>, NEW change,
         \A i \in Items : change[i] \in Int,
         ApplyStock(change), WriteCredits(change)
  PROVE  StockInv'
<1>1. ASSUME NEW i \in Items PROVE StockIs(i)'
  <2>1. Lent(i)' = Lent(i) /\ Accepted(i)' = Accepted(i)
    BY SameLent, SameAccepted
  <2>2. Lent(i) \in Int /\ Accepted(i) \in Int /\ stock[i] \in Int /\ owing[i] \in Int
    BY StockTypes
  <2>3. stock[i] = InitialStock - Lent(i) + Accepted(i) + owing[i]
    BY DEF StockInv, StockIs
  <2>4. stock'[i] = stock[i] + change[i] /\ owing'[i] = owing[i] + change[i]
    BY DEF ApplyStock, WriteCredits
  <2>5. stock'[i] = InitialStock - Lent(i)' + Accepted(i)' + owing'[i]
    BY <2>1, <2>2, <2>3, <2>4, BoundsAssumption
  <2> QED BY <2>5 DEF StockIs
<1> QED BY <1>1 DEF StockInv

LEMMA HandBackStock ==
  ASSUME TypeOK, StockInv, NEW h, NEW i \in Items, NEW quantity \in Nat,
         HandBack(h, i, quantity)
  PROVE  StockInv'
<1> DEFINE change == [k \in Items |-> IF k = i THEN -quantity ELSE 0]
<1>1. \A k \in Items : change[k] \in Int
  OBVIOUS
<1>2. ApplyStock(change) /\ WriteCredits(change) /\ UNCHANGED <<orders, returns>>
  BY DEF HandBack
<1> HIDE DEF change
<1> QED BY <1>1, <1>2, OwedMovesStock

LEMMA UndoHandBackStock ==
  ASSUME TypeOK, StockInv, NEW h \in HandBackIds, UndoHandBack(h)
  PROVE  StockInv'
<1>1. PICK change : change = handBacks[h].quantity
  OBVIOUS
<1>2. \A k \in Items : change[k] \in Int
  BY <1>1, BoundsAssumption DEF TypeOK, HandBackRows, Counts
<1>3. ApplyStock(change) /\ WriteCredits(change) /\ UNCHANGED <<orders, returns>>
  BY <1>1 DEF UndoHandBack
<1> QED BY <1>2, <1>3, OwedMovesStock

LEMMA NoStock ==
  ASSUME StockInv, UNCHANGED <<orders, returns, stock, owing>>
  PROVE  StockInv'
<1>1. ASSUME NEW i \in Items PROVE StockIs(i)'
  BY SameLent, SameAccepted DEF StockInv, StockIs
<1> QED BY <1>1 DEF StockInv
-----------------------------------------------------------------------------
(* A plan changes what the standing returns accepted by what its stock      *)
(* movement says: what is written, less what is taken back.                 *)
LEMMA PlanAccepts ==
  ASSUME LedgerInv, TypeOK', NEW plan, PlanFits(plan), NEW date, NEW withOrder, NEW visit,
         WriteReturns(plan, date, withOrder, visit), NEW i \in Items
  PROVE  /\ Accepted(i)' = Accepted(i) + AcceptedChange(plan)[i]
         /\ AcceptedChange(plan)[i] \in Int
<1> DEFINE b == [o \in Written(plan) |-> NewId(plan, o)]
           f == [r \in ReturnIds |-> returns[r].body.accepted[i]]
           g == [r \in ReturnIds |-> returns'[r].body.accepted[i]]
           h == [o \in DOMAIN plan |-> plan[o].body.accepted[i]]
<1>1. PICK W, T, N, S, M : /\ W = Written(plan) /\ T = TakenBack(plan) /\ N = NewIds(plan)
                           /\ S = StandingReturns /\ M = StandingReturns'
  OBVIOUS
<1>2. /\ N \subseteq ReturnIds /\ \A r \in N : returns[r].state = "none"
      /\ \A r \in S \ T : returns'[r] = returns[r]
      /\ M = (S \ T) \cup N
  BY <1>1, PlanRows
<1>3. DOMAIN plan \subseteq OrderIds /\ W \subseteq DOMAIN plan /\ S \subseteq ReturnIds
  BY <1>1 DEF PlanFits, Live, Written, StandingReturns
<1>4. T \subseteq S
  BY <1>1, TakenBackOfOrder
<1>5. N \cap (S \ T) = {}
  BY <1>1, <1>2 DEF StandingReturns
<1>6. /\ IsFiniteSet(S) /\ IsFiniteSet(M) /\ IsFiniteSet(W) /\ IsFiniteSet(S \ T)
      /\ IsFiniteSet(T)
  <2>1. M \subseteq ReturnIds /\ W \subseteq OrderIds /\ S \ T \subseteq ReturnIds
        /\ T \subseteq ReturnIds
    BY <1>2, <1>3, <1>4
  <2> QED BY <1>3, <2>1, RowsAreFinite, FS_Subset
<1>7. \A r \in ReturnIds : f[r] \in Int /\ g[r] \in Int
  <2>1. \A row \in ReturnRows : row.body.accepted[i] \in Int
    BY BoundsAssumption DEF ReturnRows, Bodies
  <2>2. \A r \in ReturnIds : returns[r] \in ReturnRows /\ returns'[r] \in ReturnRows
    BY DEF LedgerInv, TypeOK
  <2> QED BY <2>1, <2>2
<1>8. \A o \in W : /\ b[o] \in N /\ g[b[o]] = h[o] /\ h[o] \in Int
  <2> SUFFICES ASSUME NEW o \in W PROVE b[o] \in N /\ g[b[o]] = h[o] /\ h[o] \in Int
    OBVIOUS
  <2>1. PICK n : n = NewId(plan, o)
    OBVIOUS
  <2>2. n \in N /\ returns'[n] = NewReturn(o, TakenBack(plan), plan[o].body,
                                           date, withOrder, visit)
    BY <1>1, <2>1, PlanRows
  <2>3. returns'[n].body = plan[o].body
    BY <2>2 DEF NewReturn
  <2>4. b[o] = n /\ h[o] = plan[o].body.accepted[i]
    BY <1>1, <1>3, <2>1
  <2>5. n \in ReturnIds /\ g[n] = returns'[n].body.accepted[i]
    BY <1>2, <2>2
  <2> QED BY <1>7, <2>2, <2>3, <2>4, <2>5
<1>9. \A o, k \in W : b[o] = b[k] => o = k
  BY <1>1, <1>3, NewIdsDiffer
<1>10. N = {b[o] : o \in W}
  BY <1>1 DEF NewIds
<1>11. /\ Accepted(i) = SumOver(S, f) /\ Accepted(i)' = SumOver(M, g)
       /\ AcceptedChange(plan)[i] = SumOver(W, h) - SumOver(T, f)
  BY <1>1 DEF Accepted, AcceptedChange
<1>12. \A r \in S \ T : f[r] = g[r]
  BY <1>2, <1>3
<1> HIDE DEF b, f, g, h
<1>13. SumOver(S, f) = SumOver(T, f) + SumOver(S \ T, f)
  BY <1>3, <1>4, <1>6, <1>7, SumSplits
<1>14. SumOver(M, g) = SumOver(S \ T, g) + SumOver(N, g)
  <2>1. S \ T \in SUBSET M /\ M \ (S \ T) = N /\ \A r \in M : g[r] \in Int
    BY <1>2, <1>3, <1>5, <1>7
  <2> QED BY <1>6, <2>1, SumSplits
<1>15. SumOver(S \ T, g) = SumOver(S \ T, f)
  BY <1>6, <1>12, SumAgrees
<1>16. SumOver(N, g) = SumOver(W, h)
  <2>1. SumOver({b[o] : o \in W}, g) = SumOver(W, h)
    BY <1>6, <1>8, <1>9, SumRenamed
  <2> QED BY <1>10, <2>1
<1>17. SumOver(S \ T, f) \in Int /\ SumOver(W, h) \in Int /\ SumOver(T, f) \in Int
  BY <1>3, <1>4, <1>6, <1>7, <1>8, SumIsInt
<1> QED BY <1>11, <1>13, <1>14, <1>15, <1>16, <1>17

(* So a plan, with what else it does to stock and what is owed alike.       *)
LEMMA PlanStock ==
  ASSUME LedgerInv, TypeOK', StockInv, NEW plan, PlanFits(plan), NEW date, NEW withOrder,
         NEW visit, WriteReturns(plan, date, withOrder, visit),
         NEW change, \A i \in Items : change[i] \in Int,
         \A i \in Items : /\ stock'[i] = stock[i] + (AcceptedChange(plan)[i] + change[i])
                          /\ owing'[i] = owing[i] + change[i]
  PROVE  StockInv'
<1>1. UNCHANGED orders /\ TypeOK
  BY DEF WriteReturns, LedgerInv
<1>2. ASSUME NEW i \in Items PROVE StockIs(i)'
  <2>1. /\ Accepted(i)' = Accepted(i) + AcceptedChange(plan)[i]
        /\ AcceptedChange(plan)[i] \in Int
    BY PlanAccepts
  <2>2. Lent(i)' = Lent(i)
    BY <1>1, SameLent
  <2>3. Lent(i) \in Int /\ Accepted(i) \in Int /\ stock[i] \in Int /\ owing[i] \in Int
    BY <1>1, StockTypes
  <2>4. stock[i] = InitialStock - Lent(i) + Accepted(i) + owing[i]
    BY DEF StockInv, StockIs
  <2>5. PICK a : a = AcceptedChange(plan)[i]
    OBVIOUS
  <2>6. /\ stock'[i] = stock[i] + (a + change[i]) /\ owing'[i] = owing[i] + change[i]
        /\ change[i] \in Int /\ a \in Int /\ Accepted(i)' = Accepted(i) + a
    BY <2>1, <2>5
  <2>7. stock'[i] = InitialStock - Lent(i)' + Accepted(i)' + owing'[i]
    BY <2>2, <2>3, <2>4, <2>6, BoundsAssumption
  <2> QED BY <2>7 DEF StockIs
<1> QED BY <1>2 DEF StockInv
-----------------------------------------------------------------------------
(* What is left of a return's surplus, and what an edit or a deletion takes *)
(* back of it, are whole numbers.                                           *)
LEMMA RemainingIsInt ==
  ASSUME TypeOK, NEW i \in Items, NEW r \in ReturnIds
  PROVE  RemainingByReturn(i)[r] \in Int
<1> DEFINE place == Place(i)
           left  == [q \in ReturnIds |-> surplus[q][i]]
           older == [k \in ReturnIds |->
                       {q \in ReturnIds : \/ place[q] < place[k]
                                          \/ place[q] = place[k] /\ q < k}]
           gone  == SumOver(ReturnIds, left) - owing[i]
<1>1. RemainingByReturn(i)[r]
        = left[r] - LesserOf(ZeroOrMore(gone - SumOver(older[r], left)), left[r])
  BY DEF RemainingByReturn
<1>2. \A q \in ReturnIds : left[q] \in Int
  BY DEF TypeOK, Counts
<1>3. older[r] \subseteq ReturnIds /\ owing[i] \in Int
  BY BoundsAssumption DEF TypeOK, Figures
<1> HIDE DEF place, left, older
<1>4. SumOver(ReturnIds, left) \in Int
  BY <1>2, RowsAreFinite, SumIsInt
<1>5. IsFiniteSet(older[r])
  BY <1>3, RowsAreFinite, FS_Subset
<1>6. SumOver(older[r], left) \in Int
  BY <1>2, <1>3, <1>5, SumIsInt
<1> QED BY <1>1, <1>2, <1>3, <1>4, <1>6 DEF LesserOf, ZeroOrMore

LEMMA SurplusIsInt ==
  ASSUME NEW rows \in SUBSET (ReturnIds \X Items), NEW quantity,
         \A row \in rows : quantity[row] \in Int, NEW i \in Items
  PROVE  SurplusByItem(rows, quantity)[i] \in Int
<1> DEFINE own == {row \in rows : row[2] = i}
<1>1. own \subseteq ReturnIds \X Items
  OBVIOUS
<1>2. IsFiniteSet(ReturnIds \X Items)
  BY RowsAreFinite, DataAssumption, FS_Product
<1>3. IsFiniteSet(own)
  BY <1>1, <1>2, FS_Subset
<1>4. \A row \in own : quantity[row] \in Int
  OBVIOUS
<1>5. SurplusByItem(rows, quantity)[i] = SumOver(own, quantity)
  BY DEF SurplusByItem
<1> HIDE DEF own
<1> QED BY <1>3, <1>4, <1>5, SumIsInt

LEMMA StandingIsInt ==
  ASSUME TypeOK, NEW rows \in SUBSET (ReturnIds \X Items), NEW row \in rows
  PROVE  StandingSurplus(rows)[row] \in Int
<1>1. PICK r \in ReturnIds, i \in Items : row = <<r, i>>
  OBVIOUS
<1>2. StandingSurplus(rows)[row] = LesserOf(surplus[r][i], ZeroOrMore(RemainingByReturn(i)[r]))
  BY <1>1 DEF StandingSurplus
<1>3. surplus[r][i] \in Int
  BY DEF TypeOK, Counts
<1>4. RemainingByReturn(i)[r] \in Int
  BY RemainingIsInt
<1> QED BY <1>2, <1>3, <1>4 DEF LesserOf, ZeroOrMore

LEMMA CreateReturnStock ==
  ASSUME LedgerInv, TypeOK', StockInv, NEW o, NEW body, NEW date, CreateReturn(o, body, date)
  PROVE  StockInv'
<1>1. PICK plan : plan = [k \in {o} |-> [old |-> 0, body |-> body]]
  OBVIOUS
<1>2. /\ WriteReturns(plan, date, 0, 0)
      /\ ApplyStock(AcceptedChange(plan)) /\ UNCHANGED owing
  BY <1>1 DEF CreateReturn
<1>3. PlanFits(plan)
  BY <1>1, CreateReturnFits
<1>4. PICK change : change = [i \in Items |-> 0]
  OBVIOUS
<1>5. ASSUME NEW i \in Items
      PROVE  /\ change[i] \in Int
             /\ stock'[i] = stock[i] + (AcceptedChange(plan)[i] + change[i])
             /\ owing'[i] = owing[i] + change[i]
  <2>1. AcceptedChange(plan)[i] \in Int
    BY <1>2, <1>3, PlanAccepts
  <2>2. stock'[i] = stock[i] + AcceptedChange(plan)[i] /\ owing'[i] = owing[i]
    BY <1>2 DEF ApplyStock
  <2>3. owing[i] \in Int /\ TypeOK
    BY StockTypes DEF LedgerInv
  <2> QED BY <1>4, <2>1, <2>2, <2>3
<1> QED BY <1>2, <1>3, <1>5, PlanStock

LEMMA ReplaceReturnStock ==
  ASSUME LedgerInv, TypeOK', StockInv, NEW r \in ReturnIds, NEW body, NEW date,
         ReplaceReturn(r, body, date)
  PROVE  StockInv'
<1>1. PICK plan : plan = [k \in {returns[r].order} |-> [old |-> r, body |-> body]]
  OBVIOUS
<1>2. PICK withOrder : /\ WriteReturns(plan, date, withOrder, 0)
                       /\ ApplyStock(AcceptedChange(plan)) /\ UNCHANGED owing
  BY <1>1 DEF ReplaceReturn
<1>3. PlanFits(plan)
  BY <1>1, ReplaceReturnFits
<1>4. PICK change : change = [i \in Items |-> 0]
  OBVIOUS
<1>5. ASSUME NEW i \in Items
      PROVE  /\ change[i] \in Int
             /\ stock'[i] = stock[i] + (AcceptedChange(plan)[i] + change[i])
             /\ owing'[i] = owing[i] + change[i]
  <2>1. AcceptedChange(plan)[i] \in Int
    BY <1>2, <1>3, PlanAccepts
  <2>2. stock'[i] = stock[i] + AcceptedChange(plan)[i] /\ owing'[i] = owing[i]
    BY <1>2 DEF ApplyStock
  <2>3. owing[i] \in Int /\ TypeOK
    BY StockTypes DEF LedgerInv
  <2> QED BY <1>4, <2>1, <2>2, <2>3
<1> QED BY <1>2, <1>3, <1>5, PlanStock

LEMMA CreateForCustomerStock ==
  ASSUME LedgerInv, TypeOK', StockInv, NEW bodies, NEW date, NEW withOrder,
         NEW extra \in ExtraInputs, CreateForCustomer(bodies, date, withOrder, extra)
  PROVE  StockInv'
<1>1. PICK plan : plan = [o \in DOMAIN bodies |-> [old |-> 0, body |-> bodies[o]]]
  OBVIOUS
<1>2. PICK visit : WriteReturns(plan, date, withOrder, visit)
  BY <1>1 DEF CreateForCustomer
<1>3. WriteCredits(extra) /\ ApplyStock(Together(AcceptedChange(plan), extra))
  BY <1>1 DEF CreateForCustomer
<1>4. \A o \in DOMAIN bodies : Returnable(o, {}, bodies[o], date)
  BY DEF CreateForCustomer
<1>5. PlanFits(plan)
  BY <1>1, <1>4, RecordingFits
<1>6. \A i \in Items : /\ extra[i] \in Int
                       /\ stock'[i] = stock[i] + (AcceptedChange(plan)[i] + extra[i])
                       /\ owing'[i] = owing[i] + extra[i]
  BY <1>3, BoundsAssumption DEF ExtraInputs, WriteCredits, ApplyStock, Together
<1> QED BY <1>2, <1>5, <1>6, PlanStock

LEMMA DeleteReturnStock ==
  ASSUME LedgerInv, TypeOK', StockInv, NEW r \in ReturnIds, DeleteReturn(r)
  PROVE  StockInv'
<1>1. PICK plan, rows : /\ plan = [k \in {returns[r].order} |-> [old |-> r, body |-> NoBody]]
                        /\ rows = SurplusOf(r, BodyItems(returns[r].body))
  OBVIOUS
<1>2. PICK back : back = SurplusByItem(rows, [row \in rows |-> surplus[row[1]][row[2]]])
  OBVIOUS
<1>3. PICK change : change = [i \in Items |-> -back[i]]
  OBVIOUS
<1>4. /\ WriteReturns(plan, 0, 0, 0) /\ WriteCredits(change)
      /\ ApplyStock([i \in Items |-> AcceptedChange(plan)[i] - back[i]])
  BY <1>1, <1>2, <1>3 DEF DeleteReturn
<1>5. PlanFits(plan)
  BY <1>1, DeleteReturnFits
<1>6. \A i \in Items : back[i] \in Int
  <2> DEFINE taken == [row \in rows |-> surplus[row[1]][row[2]]]
  <2>1. rows \in SUBSET (ReturnIds \X Items)
    BY <1>1 DEF SurplusOf
  <2>2. \A row \in rows : taken[row] \in Int
    BY <2>1 DEF LedgerInv, TypeOK, Counts
  <2> HIDE DEF taken
  <2>3. \A i \in Items : SurplusByItem(rows, taken)[i] \in Int
    BY <2>1, <2>2, SurplusIsInt
  <2> QED BY <1>2, <2>3 DEF taken
<1>7. ASSUME NEW i \in Items
      PROVE  /\ change[i] \in Int
             /\ stock'[i] = stock[i] + (AcceptedChange(plan)[i] + change[i])
             /\ owing'[i] = owing[i] + change[i]
  <2>1. AcceptedChange(plan)[i] \in Int
    BY <1>4, <1>5, PlanAccepts
  <2>2. /\ stock'[i] = stock[i] + (AcceptedChange(plan)[i] - back[i])
        /\ owing'[i] = owing[i] + change[i]
    BY <1>4 DEF ApplyStock, WriteCredits
  <2>3. AcceptedChange(plan)[i] - back[i] = AcceptedChange(plan)[i] + change[i]
        /\ change[i] \in Int
    BY <1>3, <1>6, <2>1
  <2> QED BY <2>2, <2>3
<1> QED BY <1>4, <1>5, <1>7, PlanStock

LEMMA ReplaceForCustomerStock ==
  ASSUME LedgerInv, TypeOK', StockInv, NEW r \in ReturnIds, NEW bodies, NEW date,
         NEW extra \in ExtraInputs, ReplaceForCustomer(r, bodies, date, extra)
  PROVE  StockInv'
<1>1. PICK plan : plan = EditPlan(r, bodies)
  OBVIOUS
<1>2. PICK withOrder, rows : /\ rows \in SUBSET (ReturnIds \X Items)
                             /\ WriteEdit(plan, date, withOrder, extra, rows)
  <2> DEFINE parts   == PartsOf(r)
             withOne == Max({0} \cup {returns[q].withOrder : q \in parts})
             oldItems == UNION {BodyItems(returns[q].body) : q \in parts}
             all == {row \in SurplusOf(r, oldItems) : StandingSurplus({row})[row] > 0}
  <2>1. WriteEdit(plan, date, withOne, extra, all)
    BY <1>1 DEF ReplaceForCustomer, EditPlan
  <2>2. all \in SUBSET (ReturnIds \X Items)
    BY DEF SurplusOf
  <2> HIDE DEF all, withOne
  <2> QED BY <2>1, <2>2
<1>3. PICK back, change : /\ back = SurplusByItem(rows, StandingSurplus(rows))
                          /\ change = [i \in Items |-> extra[i] - back[i]]
  OBVIOUS
<1>4. PICK visit : WriteReturns(plan, date, withOrder, visit)
  BY <1>2 DEF WriteEdit
<1>5. WriteCredits(change) /\ ApplyStock(Together(AcceptedChange(plan), change))
  BY <1>2, <1>3 DEF WriteEdit
<1>6. PlanFits(plan)
  BY <1>1, EditFits
<1>7. \A i \in Items : change[i] \in Int
  <2>1. \A row \in rows : StandingSurplus(rows)[row] \in Int
    BY <1>2, StandingIsInt DEF LedgerInv
  <2>2. \A i \in Items : back[i] \in Int
    BY <1>2, <1>3, <2>1, SurplusIsInt
  <2>3. \A i \in Items : extra[i] \in Int
    BY BoundsAssumption DEF ExtraInputs
  <2> QED BY <1>3, <2>2, <2>3
<1>8. \A i \in Items : /\ stock'[i] = stock[i] + (AcceptedChange(plan)[i] + change[i])
                       /\ owing'[i] = owing[i] + change[i]
  BY <1>5 DEF WriteCredits, ApplyStock, Together
<1> QED BY <1>4, <1>6, <1>7, <1>8, PlanStock

LEMMA StockStep == LedgerInv /\ LedgerInv' /\ StockInv /\ [Next]_vars => StockInv'
<1> SUFFICES ASSUME LedgerInv, LedgerInv', StockInv, [Next]_vars PROVE StockInv'
  OBVIOUS
<1>0. TypeOK /\ TypeOK'
  BY DEF LedgerInv
<1>1. CASE OrderStep
  BY <1>0, <1>1, CreateOrderStock, EditHeaderStock, EditLinesStock DEF OrderStep
<1>2. CASE CancelStep
  BY <1>0, <1>2, CancelOrderStock DEF CancelStep
<1>3. CASE ReturnStep
  BY <1>0, <1>3, CreateReturnStock, ReplaceReturnStock, CreateForCustomerStock,
     ReplaceForCustomerStock DEF ReturnStep, StandingReturns
<1>4. CASE DeleteStep
  BY <1>0, <1>4, DeleteReturnStock DEF DeleteStep
<1>5. CASE PaymentStep
  <2>1. UNCHANGED <<orders, returns, stock, owing>>
    BY <1>5 DEF PaymentStep, CreatePayment, ReversePayment
  <2> QED BY <2>1, NoStock
<1>6. CASE HandBackStep
  <2>1. \A quantity \in 1 .. (MaxQuantity + MaxExtra) : quantity \in Nat
    BY BoundsAssumption
  <2> QED BY <1>0, <1>6, <2>1, HandBackStock, UndoHandBackStock DEF HandBackStep
<1>7. CASE ArchiveCustomer
  BY <1>7, NoStock DEF ArchiveCustomer
<1>8. CASE UNCHANGED vars
  BY <1>8, NoStock DEF vars
<1> QED BY <1>1, <1>2, <1>3, <1>4, <1>5, <1>6, <1>7, <1>8 DEF Next

LEMMA StockInitially == Init => StockInv
<1> SUFFICES ASSUME Init PROVE StockInv
  OBVIOUS
<1>1. ASSUME NEW i \in Items PROVE StockIs(i)
  <2>1. Live = {} /\ StandingReturns = {}
    BY DEF Init, Live, StandingReturns, NoOrder, NoReturn
  <2>2. Lent(i) = 0 /\ Accepted(i) = 0
    BY <2>1, SumOfNone DEF Lent, Accepted
  <2>3. stock[i] = InitialStock /\ owing[i] = 0
    BY DEF Init
  <2> QED BY <2>2, <2>3, BoundsAssumption DEF StockIs
<1> QED BY <1>1 DEF StockInv

(* On hand is always what the rows say: no handler, of the order's, the     *)
(* return's or the credit's, in any history and however many orders one     *)
(* visit covers, moves stock otherwise than it writes its rows.             *)
THEOREM StockFollowsRows == Spec => []StockMatchesLedgers
<1>1. StockInv => StockMatchesLedgers
  BY DEF StockInv, StockIs, StockMatchesLedgers, Lent, Accepted
<1> QED BY <1>1, StockInitially, StockStep, LedgerAlways, PTL DEF Spec
-----------------------------------------------------------------------------
(* What an order has out of an item by its rows, and what all orders have.  *)
OutOf(o, i) ==
    IF orders[o].state = "live" THEN orders[o].quantity[i] - BackLeft(o, {}, i) ELSE 0
OutByRows(i) == SumOver(OrderIds, [o \in OrderIds |-> OutOf(o, i)])

(* A row not used yet is blank, and has no open figures. *)
UnusedAreBlank ==
    \A o \in OrderIds : orders[o].state = "none" =>
        orders[o] = NoOrder /\ cache[o].status # "OPEN"

OutInv == AmountInv /\ CacheIsRecomputation /\ UnusedAreBlank

LEMMA OutIsNat ==
  AmountInv => \A o \in OrderIds, i \in Items : OutOf(o, i) \in Nat
<1> SUFFICES ASSUME AmountInv, NEW o \in OrderIds, NEW i \in Items PROVE OutOf(o, i) \in Nat
  OBVIOUS
<1>1. TypeOK /\ WithinOrder(o)
  BY DEF AmountInv, LedgerInv
<1>2. /\ BackLeft(o, {}, i) \in Nat /\ orders[o].quantity[i] \in Nat
      /\ BackLeft(o, {}, i) <= orders[o].quantity[i]
  BY <1>1, AmountTypes, RowTypes DEF WithinOrder
<1> QED BY <1>2 DEF OutOf

(* What the limit and the one rule read from the stored columns is what the *)
(* rows say.                                                                *)
LEMMA OpenOutIsByRows ==
  OutInv => \A i \in Items : OpenOut(i) = OutByRows(i) /\ OutByRows(i) \in Nat
<1> SUFFICES ASSUME OutInv, NEW i \in Items
             PROVE  OpenOut(i) = OutByRows(i) /\ OutByRows(i) \in Nat
  OBVIOUS
<1> DEFINE f == [o \in OrderIds |-> cache[o].out[i]]
           g == [o \in OrderIds |-> OutOf(o, i)]
<1>0. /\ AmountInv /\ CacheIsRecomputation /\ UnusedAreBlank
      /\ LedgerInv /\ ReturnsPriced /\ TypeOK
  BY DEF OutInv, AmountInv, LedgerInv
<1>1. \A o \in Live : TotalsOf(o).out[i] = OutOf(o, i)
  BY <1>0, TotalsAre DEF TotalsOf, OutOf, Live
<1>2. ASSUME NEW o \in OpenOrders PROVE o \in OrderIds /\ f[o] = g[o]
  <2>1. o \in OrderIds /\ cache[o].status = "OPEN"
    BY DEF OpenOrders
  <2>2. orders[o].state \in {"live", "cancelled"} /\ cache[o] = TotalsOf(o)
    BY <1>0, <2>1 DEF UnusedAreBlank, CacheIsRecomputation, TypeOK, OrderRows
  <2>3. orders[o].state = "cancelled" => TotalsOf(o).status = "CANCELLED"
    BY DEF TotalsOf, TotalsWithout, OrderTotals
  <2>4. o \in Live
    BY <2>1, <2>2, <2>3 DEF Live
  <2> QED BY <1>1, <2>1, <2>2, <2>4
<1>3. ASSUME NEW o \in OrderIds \ OpenOrders PROVE g[o] = 0
  <2>1. CASE o \in Live
    <3>1. cache[o].status # "OPEN"
      BY DEF OpenOrders
    <3>2. TotalsOf(o).out[i] = 0
      BY <1>0, <2>1, <3>1, SettledWhenClosed
    <3> QED BY <1>1, <2>1, <3>2
  <2>2. CASE o \notin Live
    BY <2>2 DEF Live, OutOf
  <2> QED BY <2>1, <2>2
<1>4. \A o \in OrderIds : g[o] \in Nat
  BY <1>0, OutIsNat
<1>5. OpenOut(i) = SumOver(OpenOrders, f) /\ OutByRows(i) = SumOver(OrderIds, g)
  BY DEF OpenOut, OutByRows
<1>6. OpenOrders \in SUBSET OrderIds
  BY DEF OpenOrders
<1> HIDE DEF f, g
<1>7. IsFiniteSet(OpenOrders)
  BY <1>6, RowsAreFinite, FS_Subset
<1>8. SumOver(OpenOrders, f) = SumOver(OpenOrders, g)
  BY <1>2, <1>7, SumAgrees
<1>9. SumOver(OrderIds, g) = SumOver(OpenOrders, g)
  BY <1>3, <1>4, <1>6, RowsAreFinite, SumOfPart
<1>10. SumOver(OrderIds, g) \in Nat
  BY <1>4, RowsAreFinite, SumIsNat
<1> QED BY <1>5, <1>8, <1>9, <1>10

LEMMA OpenOutIsByRowsAfter ==
  (OutInv => \A i \in Items : OpenOut(i) = OutByRows(i) /\ OutByRows(i) \in Nat)'
BY OpenOutIsByRows, PTL

LEMMA OutIsNatAfter ==
  (AmountInv => \A o \in OrderIds, i \in Items : OutOf(o, i) \in Nat)'
BY OutIsNat, PTL

(* A row not used yet is no handler's to recompute. *)
LEMMA UnusedLeftAlone ==
  ASSUME UnusedAreBlank, NEW S, RecomputeOrders(S),
         \A o \in OrderIds : /\ orders'[o].state = "none" => orders'[o] = orders[o]
                             /\ o \in S => orders'[o].state # "none"
  PROVE  UnusedAreBlank'
<1>1. ASSUME NEW o \in OrderIds, orders'[o].state = "none"
      PROVE  orders'[o] = NoOrder /\ cache'[o].status # "OPEN"
  <2>1. orders'[o] = orders[o] /\ orders[o].state = "none" /\ o \notin S
    BY <1>1
  <2>2. cache'[o] = cache[o]
    BY <2>1 DEF RecomputeOrders
  <2> QED BY <2>1, <2>2 DEF UnusedAreBlank
<1> QED BY <1>1 DEF UnusedAreBlank, OrderIds, NoOrder

LEMMA UnusedOfPlan ==
  ASSUME UnusedAreBlank, NEW plan, PlanFits(plan), NEW date, NEW withOrder, NEW visit,
         WriteReturns(plan, date, withOrder, visit)
  PROVE  UnusedAreBlank'
<1>1. UNCHANGED orders /\ RecomputeOrders(DOMAIN plan)
  BY DEF WriteReturns
<1>2. \A o \in DOMAIN plan : orders[o].state = "live"
  BY DEF PlanFits, Live
<1> QED BY <1>1, <1>2, UnusedLeftAlone

LEMMA UnusedStep == OutInv /\ [Next]_vars => UnusedAreBlank'
<1> SUFFICES ASSUME OutInv, [Next]_vars PROVE UnusedAreBlank'
  OBVIOUS
<1>0. UnusedAreBlank /\ TypeOK /\ LedgerInv
  BY DEF OutInv, AmountInv, LedgerInv
<1>1. CASE OrderStep \/ CancelStep
  <2>1. PICK o \in OrderIds : /\ RecomputeOrders({o})
                              /\ orders'[o].state \in {"live", "cancelled"}
                              /\ \A k \in OrderIds \ {o} : orders'[k] = orders[k]
    <3>1. \A o \in OrderIds : orders[o] \in OrderRows
      BY <1>0 DEF TypeOK
    <3>2. ASSUME NEW o \in OrderIds, NEW payment, NEW date, NEW requested, NEW deposit,
                 NEW override, CreateOrder(o, payment, date, requested, deposit, override)
          PROVE  /\ RecomputeOrders({o}) /\ orders'[o].state \in {"live", "cancelled"}
                 /\ \A k \in OrderIds \ {o} : orders'[k] = orders[k]
      BY <1>0, <3>2 DEF CreateOrder, TypeOK
    <3>3. ASSUME NEW o \in OrderIds, NEW date, EditHeader(o, date)
          PROVE  /\ RecomputeOrders({o}) /\ orders'[o].state \in {"live", "cancelled"}
                 /\ \A k \in OrderIds \ {o} : orders'[k] = orders[k]
      BY <1>0, <3>1, <3>3 DEF EditHeader, TypeOK, Live, OrderRows
    <3>4. ASSUME NEW o \in OrderIds, NEW date, NEW requested, NEW deposit, NEW override,
                 EditLines(o, date, requested, deposit, override)
          PROVE  /\ RecomputeOrders({o}) /\ orders'[o].state \in {"live", "cancelled"}
                 /\ \A k \in OrderIds \ {o} : orders'[k] = orders[k]
      BY <1>0, <3>1, <3>4 DEF EditLines, TypeOK, Live, OrderRows
    <3>5. ASSUME NEW o \in OrderIds, CancelOrder(o)
          PROVE  /\ RecomputeOrders({o}) /\ orders'[o].state \in {"live", "cancelled"}
                 /\ \A k \in OrderIds \ {o} : orders'[k] = orders[k]
      BY <1>0, <3>1, <3>5 DEF CancelOrder, TypeOK, Live, OrderRows
    <3> QED BY <1>1, <3>2, <3>3, <3>4, <3>5 DEF OrderStep, CancelStep
  <2> QED BY <1>0, <2>1, UnusedLeftAlone
<1>2. CASE ReturnStep
  BY <1>0, <1>2, ReturnsByPlan, UnusedOfPlan
<1>3. CASE DeleteStep
  <2>1. PICK r \in ReturnIds : DeleteReturn(r)
    BY <1>3 DEF DeleteStep
  <2>2. PICK plan : plan = [k \in {returns[r].order} |-> [old |-> r, body |-> NoBody]]
    OBVIOUS
  <2>3. WriteReturns(plan, 0, 0, 0) /\ PlanFits(plan)
    BY <2>1, <2>2, DeleteReturnFits DEF DeleteReturn
  <2> QED BY <1>0, <2>3, UnusedOfPlan
<1>4. CASE PaymentStep
  <2>1. PICK o : RecomputeOrders({o}) /\ o \in Live /\ UNCHANGED orders
    BY <1>0, <1>4 DEF PaymentStep, CreatePayment, ReversePayment, Recomputed, LedgerInv,
       StandingOnLive
  <2> QED BY <1>0, <2>1, UnusedLeftAlone DEF Live
<1>5. CASE HandBackStep \/ ArchiveCustomer \/ UNCHANGED vars
  <2>1. UNCHANGED <<orders, cache>>
    BY <1>5 DEF HandBackStep, HandBack, UndoHandBack, ArchiveCustomer, vars
  <2> QED BY <1>0, <2>1 DEF UnusedAreBlank
<1> QED BY <1>1, <1>2, <1>3, <1>4, <1>5 DEF Next

LEMMA OutInitially == Init => OutInv
<1> SUFFICES ASSUME Init PROVE OutInv
  OBVIOUS
<1>1. UnusedAreBlank
  BY DEF Init, UnusedAreBlank, NoTotals
<1> QED BY <1>1, AmountInitially, FiguresInitially DEF OutInv

LEMMA OutStep == OutInv /\ [Next]_vars => OutInv'
<1>1. AmountInv => LedgerInv
  BY DEF AmountInv
<1> QED BY <1>1, AmountStep, FiguresStep, UnusedStep DEF OutInv

LEMMA OutAlways == Spec => []OutInv
BY OutInitially, OutStep, PTL DEF Spec
-----------------------------------------------------------------------------
(* A step after which no order has more out and no more is owed keeps what  *)
(* was apart apart.                                                         *)
OutFalls(i) == \A o \in OrderIds : OutOf(o, i)' <= OutOf(o, i)

LEMMA StaysApart ==
  ASSUME OutInv, OutInv', NEW i \in Items, ~OwedBesideOut(i), OutFalls(i),
         owing'[i] <= owing[i]
  PROVE  ~OwedBesideOut(i)'
<1>1. PICK S, f, g : /\ S = OrderIds /\ IsFiniteSet(S)
                     /\ f = [o \in OrderIds |-> OutOf(o, i)]
                     /\ g = [o \in OrderIds |-> OutOf(o, i)']
  BY RowsAreFinite
<1>2. OpenOut(i) = SumOver(S, f) /\ OpenOut(i) \in Nat
  BY <1>1, OpenOutIsByRows DEF OutByRows
<1>3. OpenOut(i)' = SumOver(S, g) /\ OpenOut(i)' \in Nat
  BY <1>1, OpenOutIsByRowsAfter DEF OutByRows, OrderIds
<1>4. \A o \in S : f[o] = OutOf(o, i) /\ g[o] = OutOf(o, i)'
  BY <1>1
<1>5. \A o \in S : f[o] \in Int /\ g[o] \in Int
  BY <1>1, <1>4, OutIsNat, OutIsNatAfter DEF OutInv, OrderIds
<1>6. \A o \in S : g[o] <= f[o]
  BY <1>1, <1>4 DEF OutFalls
<1>7. SumOver(S, g) <= SumOver(S, f)
  BY <1>1, <1>5, <1>6, SumAtMost
<1>8. owing[i] \in Int /\ owing'[i] \in Int
  BY BoundsAssumption DEF OutInv, AmountInv, LedgerInv, TypeOK, Figures
<1>9. PICK a, b : a = OpenOut(i) /\ b = OpenOut(i)'
  OBVIOUS
<1> QED BY <1>2, <1>3, <1>7, <1>8, <1>9 DEF OwedBesideOut, Owed, ZeroOrMore

LEMMA SameOut ==
  ASSUME NEW o, SameAmounts(o), orders'[o].state = orders[o].state, NEW i \in Items
  PROVE  OutOf(o, i)' = OutOf(o, i)
BY DEF SameAmounts, OutOf

LEMMA OthersOutSame ==
  ASSUME OutInv, NEW S, OthersSame(S), NEW i \in Items, NEW o \in OrderIds \ S
  PROVE  OutOf(o, i)' = OutOf(o, i) /\ OutOf(o, i)' <= OutOf(o, i)
<1>1. OutOf(o, i)' = OutOf(o, i)
  BY SameOut DEF OthersSame
<1>2. OutOf(o, i) \in Nat
  BY OutIsNat DEF OutInv
<1>3. PICK a, b : a = OutOf(o, i)' /\ b = OutOf(o, i)
  OBVIOUS
<1> QED BY <1>1, <1>2, <1>3

LEMMA NoneMovesApart ==
  ASSUME OutInv, OutInv', OthersSame({}), NEW i \in Items, ~OwedBesideOut(i),
         owing'[i] <= owing[i]
  PROVE  ~OwedBesideOut(i)'
<1>1. OutFalls(i)
  BY OthersOutSame DEF OutFalls
<1> QED BY <1>1, StaysApart

LEMMA CreateOrderApart ==
  ASSUME OutInv, OutInv', NEW o \in OrderIds, NEW payment, NEW date,
         NEW requested \in Requests, NEW deposit, NEW override,
         CreateOrder(o, payment, date, requested, deposit, override),
         NEW i \in Items, ~OwedBesideOut(i)
  PROVE  ~OwedBesideOut(i)'
<1> DEFINE used == TakenFromOwed(owing, requested)
           lent == Minus(requested, used)
           row  == [state |-> "live", payment |-> payment, date |-> date,
                    quantity |-> lent, deposit |-> Priced(lent, deposit), used |-> used]
<1>0. AmountInv /\ TypeOK /\ LedgerInv' /\ CashInv' /\ TypeOK'
  BY DEF OutInv, AmountInv, LedgerInv
<1>1. /\ orders' = [orders EXCEPT ![o] = row] /\ orders[o].state = "none"
      /\ owing' = [j \in Items |-> owing[j] + -used[j]]
  BY DEF CreateOrder, WriteCredits, NextFree
<1>2. row.quantity = lent
  OBVIOUS
<1>3. used[i] \in Nat /\ owing[i] \in Int /\ lent[i] \in Nat
  <2>0. owing \in [Items -> Int]
    BY <1>0, BoundsAssumption DEF TypeOK, Figures
  <2>1. used \in [Items -> 0 .. MaxQuantity] /\ lent \in [Items -> 0 .. MaxQuantity]
    BY <2>0, TakenIsPart
  <2> HIDE DEF used, lent
  <2> QED BY <2>0, <2>1, BoundsAssumption
<1> HIDE DEF used, lent, row
<1>4. orders'[o].quantity = lent
  BY <1>0, <1>1, <1>2 DEF TypeOK
<1>5. OpensOrder(o)
  BY <1>0, CreateOrderAmounts
<1>6. CASE orders'[o].quantity[i] > orders[o].quantity[i]
  <2>1. Owed(i)' = 0
    BY <1>0, <1>6, CreateOrderTakesFirst
  <2> QED BY <2>1 DEF OwedBesideOut
<1>7. CASE ~ (orders'[o].quantity[i] > orders[o].quantity[i])
  <2>1. orders[o].quantity[i] = 0
    BY <1>1 DEF OutInv, UnusedAreBlank, NoOrder
  <2>2. lent[i] = 0
    BY <1>3, <1>4, <1>7, <2>1
  <2>3. OutOf(o, i)' = 0 /\ OutOf(o, i) = 0
    BY <1>1, <1>4, <1>5, <2>2 DEF OpensOrder, NothingCredited, OutOf
  <2>4. OutFalls(i)
    BY <1>5, <2>3, OthersOutSame DEF OutFalls, OpensOrder
  <2>5. owing'[i] <= owing[i]
    BY <1>1, <1>3
  <2> QED BY <2>4, <2>5, StaysApart
<1> QED BY <1>6, <1>7

(* What a handler touched it leaves apart: that is the one rule it checks.  *)
LEMMA TouchedApart ==
  ASSUME NEW touched, OneRuleHolds(touched), NEW i \in touched
  PROVE  ~OwedBesideOut(i)'
BY DEF OneRuleHolds

LEMMA EditLinesApart ==
  ASSUME OutInv, OutInv', NEW o \in OrderIds, NEW date, NEW requested \in Requests,
         NEW deposit, NEW override, EditLines(o, date, requested, deposit, override),
         NEW i \in Items, ~OwedBesideOut(i)
  PROVE  ~OwedBesideOut(i)'
<1> DEFINE before == orders[o]
           used == TakenFromOwed(Plus([j \in Items |-> Owed(j)], before.used), requested)
           lent == Minus(requested, used)
           row  == [before EXCEPT !.date = date, !.quantity = lent,
                                  !.deposit = Priced(lent, deposit), !.used = used]
           touched == {j \in Items : requested[j] > 0 \/ before.used[j] > 0}
<1>0. /\ AmountInv /\ TypeOK /\ LedgerInv' /\ CashInv' /\ TypeOK'
      /\ before \in OrderRows
  BY DEF OutInv, AmountInv, LedgerInv, TypeOK
<1>1. /\ orders' = [orders EXCEPT ![o] = row]
      /\ OneRuleHolds(touched)
      /\ owing' = [j \in Items |-> owing[j] + Minus(before.used, used)[j]]
  BY DEF EditLines, WriteCredits
<1>2. row.quantity = lent
  BY <1>0 DEF OrderRows
<1>3. /\ used[i] \in Nat /\ lent[i] \in Nat /\ used[i] + lent[i] = requested[i]
      /\ requested[i] \in Nat /\ before.used[i] \in Nat /\ owing[i] \in Int
  <2>0. Plus([j \in Items |-> Owed(j)], before.used) \in [Items -> Int]
    BY <1>0, BoundsAssumption DEF TypeOK, Plus, Owed, ZeroOrMore, Figures, OrderRows
  <2>1. used \in [Items -> 0 .. MaxQuantity] /\ lent \in [Items -> 0 .. MaxQuantity]
    BY <2>0, TakenIsPart
  <2>2. lent[i] = requested[i] - used[i]
    BY DEF Minus
  <2>3. requested[i] \in Nat /\ before.used[i] \in Nat /\ owing[i] \in Int
    BY <1>0, BoundsAssumption DEF Requests, OrderRows, TypeOK, Figures
  <2> HIDE DEF used, lent
  <2> QED BY <2>1, <2>2, <2>3, BoundsAssumption
<1>4. owing'[i] = owing[i] + (before.used[i] - used[i])
  BY <1>1 DEF Minus
<1> HIDE DEF used, lent, row, before
<1>5. orders'[o].quantity = lent
  BY <1>0, <1>1, <1>2 DEF TypeOK
<1>6. CASE i \in touched
  <2> HIDE DEF touched
  <2> QED BY <1>1, <1>6, TouchedApart
<1>7. CASE i \notin touched
  <2>1. requested[i] = 0 /\ before.used[i] = 0
    BY <1>3, <1>7
  <2>2. used[i] = 0 /\ lent[i] = 0
    BY <1>3, <2>1
  <2>3. RepricesOrder(o)
    BY <1>0, EditLinesAmounts
  <2>4. OutOf(o, i)' = 0
    BY <1>5, <2>2, <2>3 DEF RepricesOrder, NothingCredited, OutOf
  <2>5. OutOf(o, i) \in Nat
    BY <1>0, OutIsNat
  <2>6. OutFalls(i)
    BY <2>3, <2>4, <2>5, OthersOutSame DEF OutFalls, RepricesOrder
  <2>7. owing'[i] <= owing[i]
    BY <1>3, <1>4, <2>1, <2>2
  <2> QED BY <2>6, <2>7, StaysApart
<1> QED BY <1>6, <1>7
-----------------------------------------------------------------------------
(* What is back on an order after a plan: what was, without the return taken*)
(* back, and what is now written.                                           *)
LEMMA BackAfterPlan ==
  ASSUME LedgerInv, TypeOK', NEW plan, PlanFits(plan), NEW date, NEW withOrder, NEW visit,
         WriteReturns(plan, date, withOrder, visit), NEW o \in DOMAIN plan, NEW i \in Items
  PROVE  /\ BackLeft(o, {}, i)' = BackLeft(o, Back(plan, o), i)
                                  + (plan[o].body.accepted[i] + plan[o].body.damaged[i])
         /\ plan[o].body.accepted[i] \in Nat /\ plan[o].body.damaged[i] \in Nat
<1>a. PICK id : id = NewId(plan, o)
  OBVIOUS
<1> DEFINE S == ReturnsOf(o) \ Back(plan, o)
           before == [r \in S |-> BackOf(r, i)]
           after == [r \in ReturnsOf(o)' |-> BackOf(r, i)']
<1>0. TypeOK /\ o \in OrderIds
  BY DEF LedgerInv, PlanFits, Live
<1>1. /\ \A r \in S : returns'[r] = returns[r]
      /\ o \notin Written(plan) => ReturnsOf(o)' = S
      /\ o \in Written(plan) =>
              /\ id \in ReturnIds \ ReturnsOf(o)
              /\ ReturnsOf(o)' = S \cup {id}
              /\ returns'[id] = NewReturn(o, TakenBack(plan), plan[o].body, date,
                                          withOrder, visit)
              /\ returns'[id] \in ReturnRows
  BY <1>a, PlanOnOrder
<1>2. BackLeft(o, Back(plan, o), i) = SumOver(S, before)
  BY DEF BackLeft
<1>3. BackLeft(o, {}, i)' = SumOver(ReturnsOf(o)', after)
  <2>1. ReturnsOf(o)' \ {} = ReturnsOf(o)'
    OBVIOUS
  <2> QED BY <2>1 DEF BackLeft
<1>4. IsFiniteSet(S) /\ S \subseteq ReturnIds
  BY ReturnsAreFinite DEF ReturnsOf, StandingReturns
<1>5. ASSUME NEW r \in S PROVE BackOf(r, i)' = BackOf(r, i) /\ BackOf(r, i) \in Nat
  <2>1. returns'[r] = returns[r] /\ r \in ReturnIds
    BY <1>1, <1>4
  <2> QED BY <1>0, <2>1, RowTypes DEF BackOf
<1>6. SumOver(S, before) \in Int
  <2>1. \A r \in S : before[r] \in Int
    BY <1>5
  <2> HIDE DEF S, before
  <2> QED BY <1>4, <2>1, SumIsInt
<1>7. CASE o \notin Written(plan)
  <2>1. plan[o].body = NoBody
    BY <1>7 DEF Written
  <2>2. plan[o].body.accepted[i] = 0 /\ plan[o].body.damaged[i] = 0
    BY <2>1 DEF NoBody
  <2>3. ReturnsOf(o)' = S /\ \A r \in S : before[r] = after[r]
    BY <1>1, <1>5, <1>7
  <2> HIDE DEF S, before, after
  <2>4. SumOver(S, before) = SumOver(ReturnsOf(o)', after)
    BY <1>4, <2>3, SumAgrees
  <2> QED BY <1>2, <1>3, <1>6, <2>2, <2>4
<1>8. CASE o \in Written(plan)
  <2>1. /\ id \notin S /\ ReturnsOf(o)' = S \cup {id}
        /\ returns'[id].body = plan[o].body /\ plan[o].body \in Bodies
    <3>1. returns'[id].body = plan[o].body
      BY <1>1, <1>8 DEF NewReturn
    <3>2. returns'[id].body \in Bodies
      BY <1>1, <1>8 DEF ReturnRows
    <3> QED BY <1>1, <1>8, <3>1, <3>2
  <2>2. plan[o].body.accepted[i] \in Nat /\ plan[o].body.damaged[i] \in Nat
    BY <2>1, BoundsAssumption DEF Bodies
  <2>3. after[id] = plan[o].body.accepted[i] + plan[o].body.damaged[i]
    BY <2>1 DEF BackOf
  <2>4. \A r \in S : before[r] = after[r] /\ before[r] \in Int
    BY <1>5, <2>1
  <2>5. \A r \in S \cup {id} : after[r] \in Int
    <3> HIDE DEF S, before, after
    <3> QED BY <2>2, <2>3, <2>4
  <2> HIDE DEF S, before, after
  <2>6. SumOver(S \cup {id}, after) = SumOver(S, after) + after[id]
    BY <1>4, <2>1, <2>5, SumOneAdded
  <2>7. SumOver(S, before) = SumOver(S, after)
    BY <1>4, <2>4, SumAgrees
  <2> QED BY <1>2, <1>3, <2>1, <2>2, <2>3, <2>6, <2>7
<1> QED BY <1>7, <1>8

LEMMA BackSplits ==
  ASSUME TypeOK, NEW o, NEW r \in ReturnsOf(o), NEW i \in Items
  PROVE  /\ BackLeft(o, {}, i) = BackLeft(o, {r}, i) + BackOf(r, i)
         /\ BackOf(r, i) \in Nat
<1> DEFINE S == ReturnsOf(o) \ {}
           f == [q \in S |-> BackOf(q, i)]
           g == [q \in S \ {r} |-> BackOf(q, i)]
<1>1. \A q \in S : f[q] = BackOf(q, i) /\ f[q] \in Nat
  BY RowTypes DEF ReturnsOf, StandingReturns
<1>2. \A q \in S \ {r} : f[q] = g[q]
  OBVIOUS
<1>3. IsFiniteSet(S) /\ r \in S /\ IsFiniteSet(S \ {r})
  BY ReturnsAreFinite
<1>4. BackLeft(o, {}, i) = SumOver(S, f)
  BY DEF BackLeft
<1>5. BackLeft(o, {r}, i) = SumOver(S \ {r}, g)
  <2>1. S \ {r} = ReturnsOf(o) \ {r}
    OBVIOUS
  <2> QED BY <2>1 DEF BackLeft
<1>6. f[r] = BackOf(r, i)
  BY <1>3
<1> HIDE DEF S, f, g
<1>7. SumOver(S, f) = f[r] + SumOver(S \ {r}, f)
  BY <1>1, <1>3, SumTakesOut
<1>8. SumOver(S \ {r}, f) = SumOver(S \ {r}, g)
  BY <1>2, <1>3, SumAgrees
<1>9. SumOver(S \ {r}, f) \in Int /\ f[r] \in Nat
  BY <1>1, <1>3, SumIsInt
<1> QED BY <1>4, <1>5, <1>6, <1>7, <1>8, <1>9

(* A plan that takes back nothing of an item leaves no order more of it out.*)
LEMMA PlanOutFalls ==
  ASSUME OutInv, OutInv', NEW plan, PlanFits(plan), NEW date, NEW withOrder, NEW visit,
         WriteReturns(plan, date, withOrder, visit), NEW i \in Items,
         \A o \in DOMAIN plan : plan[o].old # 0 => BackOf(plan[o].old, i) = 0
  PROVE  OutFalls(i)
<1>0. /\ AmountInv /\ LedgerInv /\ TypeOK /\ LedgerInv' /\ TypeOK'
      /\ DOMAIN plan \subseteq OrderIds /\ UNCHANGED orders
  BY DEF OutInv, AmountInv, LedgerInv, PlanFits, Live, WriteReturns
<1>1. ASSUME NEW o \in DOMAIN plan PROVE OutOf(o, i)' <= OutOf(o, i)
  <2>1. PICK back : back = plan[o].body.accepted[i] + plan[o].body.damaged[i]
    OBVIOUS
  <2>2. BackLeft(o, {}, i)' = BackLeft(o, Back(plan, o), i) + back /\ back \in Nat
    BY <1>0, <2>1, BackAfterPlan
  <2>3. BackLeft(o, Back(plan, o), i) = BackLeft(o, {}, i)
    <3>1. CASE plan[o].old = 0
      BY <3>1, NothingBackSame
    <3>2. CASE plan[o].old # 0
      <4>1. PICK old : old = plan[o].old /\ old \in ReturnsOf(o) /\ Back(plan, o) = {old}
        BY <3>2 DEF PlanFits, Back
      <4>2. BackLeft(o, {}, i) = BackLeft(o, {old}, i) + BackOf(old, i)
        BY <1>0, <4>1, BackSplits
      <4>3. BackOf(old, i) = 0 /\ BackLeft(o, {old}, i) \in Nat
        BY <1>0, <3>2, <4>1, AmountTypes
      <4> QED BY <4>1, <4>2, <4>3
    <3> QED BY <3>1, <3>2
  <2>4. /\ BackLeft(o, {}, i) \in Nat /\ orders[o].quantity[i] \in Nat
        /\ orders[o].state = "live"
    BY <1>0, AmountTypes, RowTypes DEF PlanFits, Live
  <2>5. OutOf(o, i)' = orders[o].quantity[i] - BackLeft(o, {}, i)'
    BY <1>0, <2>4 DEF OutOf
  <2>6. OutOf(o, i) = orders[o].quantity[i] - BackLeft(o, {}, i)
    BY <2>4 DEF OutOf
  <2>7. PICK a, b : a = BackLeft(o, {}, i) /\ b = BackLeft(o, {}, i)'
    OBVIOUS
  <2> QED BY <2>2, <2>3, <2>4, <2>5, <2>6, <2>7
<1>2. OthersSame(DOMAIN plan)
  BY <1>0, PlanAmounts DEF CreditsOrders
<1> QED BY <1>0, <1>1, <1>2, OthersOutSame DEF OutFalls

LEMMA PlanApart ==
  ASSUME OutInv, OutInv', NEW plan, PlanFits(plan), NEW date, NEW withOrder, NEW visit,
         WriteReturns(plan, date, withOrder, visit), NEW i \in Items,
         \A o \in DOMAIN plan : plan[o].old # 0 => BackOf(plan[o].old, i) = 0,
         ~OwedBesideOut(i), owing'[i] <= owing[i]
  PROVE  ~OwedBesideOut(i)'
BY PlanOutFalls, StaysApart

(* What is not among a body's items none of it is of. *)
LEMMA NotOfBody ==
  ASSUME TypeOK, NEW r \in ReturnIds, NEW i \in Items, i \notin BodyItems(returns[r].body)
  PROVE  BackOf(r, i) = 0
<1>1. ~ (returns[r].body.accepted[i] + returns[r].body.damaged[i] > 0)
  BY DEF BodyItems
<1>2. BackOf(r, i) \in Nat
  BY RowTypes
<1> QED BY <1>1, <1>2 DEF BackOf

LEMMA CreateReturnApart ==
  ASSUME OutInv, OutInv', NEW o, NEW body, NEW date, CreateReturn(o, body, date),
         NEW i \in Items, ~OwedBesideOut(i)
  PROVE  ~OwedBesideOut(i)'
<1>1. PICK plan : plan = [k \in {o} |-> [old |-> 0, body |-> body]]
  OBVIOUS
<1>2. WriteReturns(plan, date, 0, 0) /\ UNCHANGED owing
  BY <1>1 DEF CreateReturn
<1>3. PlanFits(plan)
  BY <1>1, CreateReturnFits
<1>4. \A k \in DOMAIN plan : plan[k].old # 0 => BackOf(plan[k].old, i) = 0
  BY <1>1
<1>5. owing[i] \in Int
  BY BoundsAssumption DEF OutInv, AmountInv, LedgerInv, TypeOK, Figures
<1>6. owing'[i] <= owing[i]
  BY <1>2, <1>5
<1> QED BY <1>2, <1>3, <1>4, <1>6, PlanApart

LEMMA ReplaceReturnApart ==
  ASSUME OutInv, OutInv', NEW r \in ReturnIds, NEW body, NEW date,
         ReplaceReturn(r, body, date), NEW i \in Items, ~OwedBesideOut(i)
  PROVE  ~OwedBesideOut(i)'
<1> DEFINE touched == BodyItems(returns[r].body) \cup BodyItems(body)
<1>1. PICK plan : plan = [k \in {returns[r].order} |-> [old |-> r, body |-> body]]
  OBVIOUS
<1>2. PICK withOrder : WriteReturns(plan, date, withOrder, 0) /\ UNCHANGED owing
  BY <1>1 DEF ReplaceReturn
<1>3. PlanFits(plan)
  BY <1>1, ReplaceReturnFits
<1>4. OneRuleHolds(touched)
  BY DEF ReplaceReturn
<1>5. owing[i] \in Int /\ TypeOK
  BY BoundsAssumption DEF OutInv, AmountInv, LedgerInv, TypeOK, Figures
<1>6. CASE i \in touched
  <2> HIDE DEF touched
  <2> QED BY <1>4, <1>6, TouchedApart
<1>7. CASE i \notin touched
  <2>1. \A k \in DOMAIN plan : plan[k].old # 0 => BackOf(plan[k].old, i) = 0
    BY <1>1, <1>5, <1>7, NotOfBody
  <2>2. owing'[i] <= owing[i]
    BY <1>2, <1>5
  <2> QED BY <1>2, <1>3, <2>1, <2>2, PlanApart
<1> QED BY <1>6, <1>7

(* A deletion takes back no less than nothing of what is owed.              *)
LEMMA SurplusIsNat ==
  ASSUME NEW rows \in SUBSET (ReturnIds \X Items), NEW quantity,
         \A row \in rows : quantity[row] \in Nat, NEW i \in Items
  PROVE  SurplusByItem(rows, quantity)[i] \in Nat
<1> DEFINE own == {row \in rows : row[2] = i}
<1>1. own \subseteq ReturnIds \X Items
  OBVIOUS
<1>2. IsFiniteSet(ReturnIds \X Items)
  BY RowsAreFinite, DataAssumption, FS_Product
<1>3. IsFiniteSet(own)
  BY <1>1, <1>2, FS_Subset
<1>4. \A row \in own : quantity[row] \in Nat
  OBVIOUS
<1>5. SurplusByItem(rows, quantity)[i] = SumOver(own, quantity)
  BY DEF SurplusByItem
<1> HIDE DEF own
<1> QED BY <1>3, <1>4, <1>5, SumIsNat

LEMMA DeleteReturnApart ==
  ASSUME OutInv, OutInv', NEW r \in ReturnIds, DeleteReturn(r),
         NEW i \in Items, ~OwedBesideOut(i)
  PROVE  ~OwedBesideOut(i)'
<1> DEFINE items == BodyItems(returns[r].body)
           rows == SurplusOf(r, items)
           taken == [row \in rows |-> surplus[row[1]][row[2]]]
           back == SurplusByItem(rows, taken)
<1>1. PICK plan : plan = [k \in {returns[r].order} |-> [old |-> r, body |-> NoBody]]
  OBVIOUS
<1>2. WriteReturns(plan, 0, 0, 0) /\ owing' = [k \in Items |-> owing[k] + -back[k]]
  BY <1>1 DEF DeleteReturn, WriteCredits
<1>3. PlanFits(plan)
  BY <1>1, DeleteReturnFits
<1>4. OneRuleHolds(items)
  BY DEF DeleteReturn
<1>5. owing[i] \in Int /\ TypeOK
  BY BoundsAssumption DEF OutInv, AmountInv, LedgerInv, TypeOK, Figures
<1>6. CASE i \in items
  <2> HIDE DEF items
  <2> QED BY <1>4, <1>6, TouchedApart
<1>7. CASE i \notin items
  <2>1. \A k \in DOMAIN plan : plan[k].old # 0 => BackOf(plan[k].old, i) = 0
    BY <1>1, <1>5, <1>7, NotOfBody
  <2>2. back[i] \in Nat
    <3>1. rows \in SUBSET (ReturnIds \X Items)
      BY DEF SurplusOf
    <3>2. \A row \in rows : taken[row] \in Nat
      BY <1>5, <3>1 DEF TypeOK, Counts
    <3> HIDE DEF rows, taken
    <3> QED BY <3>1, <3>2, SurplusIsNat
  <2>3. owing'[i] = owing[i] + -back[i]
    BY <1>2
  <2> HIDE DEF back
  <2>4. owing'[i] <= owing[i]
    BY <1>5, <2>2, <2>3
  <2> QED BY <1>2, <1>3, <2>1, <2>4, PlanApart
<1> QED BY <1>6, <1>7

(* A recording leaves out what was, less what it takes back.                *)
LEMMA RecordedOut ==
  ASSUME OutInv, OutInv', NEW plan, PlanFits(plan), NEW date, NEW withOrder, NEW visit,
         WriteReturns(plan, date, withOrder, visit), NEW i \in Items,
         \A o \in DOMAIN plan : plan[o].old = 0
  PROVE  OpenOut(i)' = OpenOut(i)
            - SumOver(Written(plan), [o \in DOMAIN plan |->
                          plan[o].body.accepted[i] + plan[o].body.damaged[i]])
<1> DEFINE body(o) == plan[o].body.accepted[i] + plan[o].body.damaged[i]
           b == [o \in DOMAIN plan |-> body(o)]
           d == [o \in OrderIds |-> IF o \in Written(plan) THEN b[o] ELSE 0]
<1>0. /\ AmountInv /\ LedgerInv /\ TypeOK /\ LedgerInv' /\ TypeOK' /\ AmountInv'
      /\ DOMAIN plan \subseteq OrderIds /\ UNCHANGED orders
      /\ Written(plan) \subseteq DOMAIN plan
  BY DEF OutInv, AmountInv, LedgerInv, PlanFits, Live, WriteReturns, Written
<1>1. PICK S, f, g : /\ S = OrderIds /\ IsFiniteSet(S)
                     /\ f = [o \in OrderIds |-> OutOf(o, i)]
                     /\ g = [o \in OrderIds |-> OutOf(o, i)']
  BY RowsAreFinite
<1>2. OpenOut(i) = SumOver(S, f)
  BY <1>1, OpenOutIsByRows DEF OutByRows
<1>3. OpenOut(i)' = SumOver(S, g)
  BY <1>1, OpenOutIsByRowsAfter DEF OutByRows, OrderIds
<1>4. \A o \in S : f[o] = OutOf(o, i) /\ g[o] = OutOf(o, i)'
  BY <1>1
<1>5. \A o \in S : f[o] \in Int /\ g[o] \in Int
  BY <1>0, <1>1, <1>4, OutIsNat, OutIsNatAfter DEF OrderIds
<1>6. ASSUME NEW o \in DOMAIN plan
      PROVE  /\ OutOf(o, i) = OutOf(o, i)' + body(o) /\ body(o) \in Nat
             /\ o \notin Written(plan) => body(o) = 0
  <2>1. /\ BackLeft(o, {}, i)' = BackLeft(o, Back(plan, o), i) + body(o)
        /\ body(o) \in Nat
    BY <1>0, BackAfterPlan
  <2>2. BackLeft(o, Back(plan, o), i) = BackLeft(o, {}, i)
    BY NothingBackSame
  <2>3. /\ BackLeft(o, {}, i) \in Nat /\ orders[o].quantity[i] \in Nat
        /\ orders[o].state = "live"
    BY <1>0, AmountTypes, RowTypes DEF PlanFits, Live
  <2>4. OutOf(o, i)' = orders[o].quantity[i] - BackLeft(o, {}, i)'
    BY <1>0, <2>3 DEF OutOf
  <2>5. OutOf(o, i) = orders[o].quantity[i] - BackLeft(o, {}, i)
    BY <2>3 DEF OutOf
  <2>6. o \notin Written(plan) => body(o) = 0
    BY DEF Written, NoBody
  <2>7. PICK x, y, z : x = BackLeft(o, {}, i) /\ y = BackLeft(o, {}, i)' /\ z = body(o)
    OBVIOUS
  <2> HIDE DEF body
  <2> QED BY <2>1, <2>2, <2>3, <2>4, <2>5, <2>6, <2>7
<1>7. \A o \in OrderIds \ DOMAIN plan : OutOf(o, i)' = OutOf(o, i)
  <2>1. OthersSame(DOMAIN plan)
    BY <1>0, PlanAmounts DEF CreditsOrders
  <2> QED BY <2>1, OthersOutSame
<1>8. \A o \in S : d[o] \in Nat /\ f[o] = g[o] + d[o]
  <2> SUFFICES ASSUME NEW o \in S PROVE d[o] \in Nat /\ f[o] = g[o] + d[o]
    OBVIOUS
  <2>1. CASE o \in DOMAIN plan
    <3>1. d[o] = body(o)
      BY <1>1, <1>6, <2>1
    <3> HIDE DEF d, body
    <3> QED BY <1>4, <1>6, <2>1, <3>1
  <2>2. CASE o \notin DOMAIN plan
    <3>1. d[o] = 0
      BY <1>0, <1>1, <2>2
    <3>2. OutOf(o, i)' = OutOf(o, i)
      BY <1>1, <1>7, <2>2
    <3> HIDE DEF d
    <3> QED BY <1>4, <1>5, <3>1, <3>2
  <2> QED BY <2>1, <2>2
<1>9. /\ \A o \in Written(plan) : d[o] = b[o]
      /\ \A o \in S \ Written(plan) : d[o] = 0
      /\ Written(plan) \in SUBSET S
  BY <1>0, <1>1
<1>10. IsFiniteSet(Written(plan))
  BY <1>1, <1>9, FS_Subset
<1> HIDE DEF b, d
<1>11. SumOver(S, f) = SumOver(S, g) + SumOver(S, d)
  <2>1. \A o \in S : g[o] \in Int /\ d[o] \in Int /\ f[o] = g[o] + d[o]
    BY <1>5, <1>8
  <2> QED BY ONLY <1>1, <2>1, SumOfSums
<1>12. SumOver(S, d) = SumOver(Written(plan), d)
  <2>1. \A o \in Written(plan) : d[o] \in Int
    BY <1>8, <1>9
  <2> QED BY <1>1, <1>9, <2>1, SumOfPart
<1>13. SumOver(Written(plan), d) = SumOver(Written(plan), b)
  BY <1>9, <1>10, SumAgrees
<1>14. SumOver(S, g) \in Int /\ SumOver(S, d) \in Int
  BY <1>1, <1>5, <1>8, SumIsInt
<1>15. OpenOut(i)' = OpenOut(i) - SumOver(Written(plan), b)
  BY <1>2, <1>3, <1>11, <1>12, <1>13, <1>14
<1> QED BY <1>15 DEF b

LEMMA CreateForCustomerApart ==
  ASSUME OutInv, OutInv', NEW bodies, NEW date, NEW withOrder, NEW extra \in ExtraInputs,
         CreateForCustomer(bodies, date, withOrder, extra),
         NEW i \in Items, ~OwedBesideOut(i)
  PROVE  ~OwedBesideOut(i)'
<1>1. PICK plan : plan = [o \in DOMAIN bodies |-> [old |-> 0, body |-> bodies[o]]]
  OBVIOUS
<1>2. PICK visit : /\ WriteReturns(plan, date, withOrder, visit)
                   /\ ExtraAllowed(plan, extra)
                   /\ owing' = [k \in Items |-> owing[k] + extra[k]]
  BY <1>1 DEF CreateForCustomer, WriteCredits
<1>3. PlanFits(plan)
  BY <1>1, RecordingFits DEF CreateForCustomer
<1>4. \A o \in DOMAIN plan : plan[o].old = 0
  BY <1>1
<1>5. owing[i] \in Int /\ extra[i] \in Nat
  BY BoundsAssumption DEF OutInv, AmountInv, LedgerInv, TypeOK, Figures, ExtraInputs
<1>6. CASE extra[i] = 0
  <2>1. owing'[i] <= owing[i]
    BY <1>2, <1>5, <1>6
  <2> QED BY <1>2, <1>3, <1>4, <2>1, PlanApart
<1>7. CASE extra[i] > 0
  <2>1. PICK back : back = SumOver(Written(plan), [o \in DOMAIN plan |->
                              plan[o].body.accepted[i] + plan[o].body.damaged[i]])
    OBVIOUS
  <2>2. OpenOut(i)' = OpenOut(i) - back
    BY <1>2, <1>3, <1>4, <2>1, RecordedOut
  <2>3. OpenOut(i) <= back
    BY <1>2, <1>7, <2>1 DEF ExtraAllowed
  <2>4. OpenOut(i) \in Nat /\ OpenOut(i)' \in Nat
    BY OpenOutIsByRows, OpenOutIsByRowsAfter
  <2>5. back \in Int
    <3> DEFINE b == [o \in DOMAIN plan |->
                        plan[o].body.accepted[i] + plan[o].body.damaged[i]]
    <3>1. Written(plan) \subseteq DOMAIN plan /\ DOMAIN plan \subseteq OrderIds
      BY <1>3 DEF PlanFits, Live, Written
    <3>2. \A o \in Written(plan) : b[o] \in Int
      BY <1>2, <1>3, <3>1, BackAfterPlan DEF OutInv, AmountInv, LedgerInv
    <3>3. IsFiniteSet(Written(plan))
      BY <3>1, RowsAreFinite, FS_Subset
    <3> HIDE DEF b
    <3>4. SumOver(Written(plan), b) \in Int
      BY <3>2, <3>3, SumIsInt
    <3> QED BY <2>1, <3>4 DEF b
  <2>6. PICK a, c : a = OpenOut(i) /\ c = OpenOut(i)'
    OBVIOUS
  <2>7. ~ (OpenOut(i)' > 0)
    BY <2>2, <2>3, <2>4, <2>5, <2>6
  <2> QED BY <2>7 DEF OwedBesideOut
<1> QED BY <1>5, <1>6, <1>7

LEMMA ReplaceForCustomerApart ==
  ASSUME OutInv, OutInv', NEW r \in ReturnIds, NEW bodies, NEW date,
         NEW extra \in ExtraInputs, ReplaceForCustomer(r, bodies, date, extra),
         NEW i \in Items, ~OwedBesideOut(i)
  PROVE  ~OwedBesideOut(i)'
<1> DEFINE oldItems == UNION {BodyItems(returns[q].body) : q \in PartsOf(r)}
           rows == {row \in SurplusOf(r, oldItems) : StandingSurplus({row})[row] > 0}
           touched == oldItems \cup SurplusItems(rows)
                      \cup UNION {BodyItems(bodies[o]) : o \in DOMAIN bodies}
<1>1. PICK plan : plan = EditPlan(r, bodies)
  OBVIOUS
<1>2. PICK withOrder : WriteEdit(plan, date, withOrder, extra, rows)
  BY <1>1 DEF ReplaceForCustomer, EditPlan
<1>3. OneRuleHolds(touched)
  BY DEF ReplaceForCustomer
<1>4. PlanFits(plan)
  BY <1>1, EditFits
<1>5. CASE i \in touched
  <2> HIDE DEF touched
  <2> QED BY <1>3, <1>5, TouchedApart
<1>6. CASE i \notin touched
  <2>1. PICK visit : WriteReturns(plan, date, withOrder, visit)
    BY <1>2 DEF WriteEdit
  <2>2. \A o \in DOMAIN plan : plan[o].old # 0 => BackOf(plan[o].old, i) = 0
    <3> SUFFICES ASSUME NEW o \in DOMAIN plan, plan[o].old # 0
                 PROVE  BackOf(plan[o].old, i) = 0
      OBVIOUS
    <3>1. plan[o].old \in PartsOf(r)
      <4>1. PICK q \in PartsOf(r) : returns[q].order = o
        BY <1>1 DEF EditPlan
      <4>2. plan[o].old = CHOOSE p \in PartsOf(r) : returns[p].order = o
        BY <1>1 DEF EditPlan
      <4> QED BY <4>1, <4>2
    <3>2. PICK q : q = plan[o].old /\ q \in PartsOf(r) /\ q \in ReturnIds
      BY <3>1, <1>4 DEF PlanFits, ReturnsOf, StandingReturns
    <3>3. i \notin BodyItems(returns[q].body)
      BY <1>6, <3>2
    <3> QED BY <3>2, <3>3, NotOfBody DEF OutInv, AmountInv, LedgerInv
  <2>3. extra[i] = 0
    <3>1. ~ ReturnsItem(plan, i)
      BY <1>1, <1>6 DEF ReturnsItem, EditPlan, Written
    <3>2. extra[i] > 0 => ReturnsItem(plan, i)
      BY <1>1 DEF ReplaceForCustomer, EditPlan
    <3>3. extra[i] \in Nat
      BY BoundsAssumption DEF ExtraInputs
    <3> QED BY <3>1, <3>2, <3>3
  <2>4. SurplusByItem(rows, StandingSurplus(rows))[i] = 0
    <3>1. {row \in rows : row[2] = i} = {}
      BY <1>6 DEF SurplusItems
    <3> QED BY <3>1, SumOfNone DEF SurplusByItem
  <2>5. owing' = [k \in Items |-> owing[k]
                    + (extra[k] - SurplusByItem(rows, StandingSurplus(rows))[k])]
    BY <1>2 DEF WriteEdit, WriteCredits
  <2>6. owing[i] \in Int
    BY BoundsAssumption DEF OutInv, AmountInv, LedgerInv, TypeOK, Figures
  <2>7. owing'[i] <= owing[i]
    <3> HIDE DEF rows
    <3> QED BY <2>3, <2>4, <2>5, <2>6
  <2> QED BY <1>4, <2>1, <2>2, <2>7, PlanApart
<1> QED BY <1>5, <1>6

LEMMA NoRowsMoved ==
  ASSUME OutInv, UNCHANGED <<orders, returns, refunds, payments>>
  PROVE  OthersSame({})
BY NoAmounts DEF OutInv

LEMMA HandBackApart ==
  ASSUME OutInv, OutInv', NEW h, NEW j \in Items, NEW quantity \in Nat,
         HandBack(h, j, quantity), NEW i \in Items, ~OwedBesideOut(i)
  PROVE  ~OwedBesideOut(i)'
<1>1. OthersSame({})
  BY NoRowsMoved DEF HandBack
<1>2. owing[i] \in Int
  BY BoundsAssumption DEF OutInv, AmountInv, LedgerInv, TypeOK, Figures
<1>3. owing'[i] = owing[i] + (IF i = j THEN -quantity ELSE 0)
  BY DEF HandBack, WriteCredits
<1>4. owing'[i] <= owing[i]
  BY <1>2, <1>3
<1> QED BY <1>1, <1>4, NoneMovesApart

LEMMA UndoHandBackApart ==
  ASSUME OutInv, OutInv', NEW h \in HandBackIds, UndoHandBack(h),
         NEW i \in Items, ~OwedBesideOut(i)
  PROVE  ~OwedBesideOut(i)'
<1>1. OthersSame({})
  BY NoRowsMoved DEF UndoHandBack
<1>2. owing[i] \in Int /\ handBacks[h].quantity[i] \in Nat
  BY BoundsAssumption DEF OutInv, AmountInv, LedgerInv, TypeOK, Figures, HandBackRows, Counts
<1>3. owing'[i] = owing[i] + handBacks[h].quantity[i]
  BY DEF UndoHandBack, WriteCredits
<1>4. CASE handBacks[h].quantity[i] = 0
  <2>1. owing'[i] <= owing[i]
    BY <1>2, <1>3, <1>4
  <2> QED BY <1>1, <2>1, NoneMovesApart
<1>5. CASE handBacks[h].quantity[i] > 0
  <2>1. PICK S, f, g : /\ S = OrderIds
                       /\ f = [o \in OrderIds |-> OutOf(o, i)]
                       /\ g = [o \in OrderIds |-> OutOf(o, i)']
    OBVIOUS
  <2>2. f = g
    BY <1>1, <2>1, OthersOutSame
  <2>3. OpenOut(i)' = OpenOut(i)
    BY <2>1, <2>2, OpenOutIsByRows, OpenOutIsByRowsAfter DEF OutByRows, OrderIds
  <2>4. OpenOut(i) <= 0 /\ OpenOut(i) \in Nat
    BY <1>5, OpenOutIsByRows DEF UndoHandBack, MayUndo
  <2> QED BY <2>3, <2>4 DEF OwedBesideOut
<1> QED BY <1>2, <1>4, <1>5

LEMMA ApartUnlessCancelled ==
  ASSUME OutInv, OutInv', Next, NEW i \in Items, ~OwedBesideOut(i), OwedBesideOut(i)'
  PROVE  \E o \in OrderIds : orders[o].state = "live" /\ orders'[o].state = "cancelled"
<1>0. AmountInv /\ LedgerInv /\ LedgerInv' /\ CashInv' /\ TypeOK /\ owing[i] \in Int
      /\ \A quantity \in 1 .. (MaxQuantity + MaxExtra) : quantity \in Nat
  BY BoundsAssumption DEF OutInv, AmountInv, LedgerInv, TypeOK, Figures
<1>1. CASE OrderStep
  <2>1. ASSUME NEW o \in OrderIds, NEW date, EditHeader(o, date) PROVE ~OwedBesideOut(i)'
    <3>1. OthersSame({})
      BY <1>0, <2>1, EditHeaderAmounts
    <3>2. owing'[i] <= owing[i]
      BY <1>0, <2>1 DEF EditHeader
    <3> QED BY <3>1, <3>2, NoneMovesApart
  <2> QED BY <1>1, <2>1, CreateOrderApart, EditLinesApart DEF OrderStep
<1>2. CASE CancelStep
  <2>1. PICK o \in OrderIds : CancelOrder(o)
    BY <1>2 DEF CancelStep
  <2>2. CancelsOrder(o)
    BY <1>0, <2>1, CancelOrderAmounts
  <2> QED BY <2>2 DEF CancelsOrder
<1>3. CASE ReturnStep
  BY <1>3, CreateReturnApart, ReplaceReturnApart, CreateForCustomerApart,
     ReplaceForCustomerApart DEF ReturnStep, StandingReturns
<1>4. CASE DeleteStep
  BY <1>4, DeleteReturnApart DEF DeleteStep
<1>5. CASE PaymentStep
  <2>1. \A o \in OrderIds : OutOf(o, i)' = OutOf(o, i)
    <3>1. UNCHANGED <<orders, returns>>
      BY <1>5 DEF PaymentStep, CreatePayment, ReversePayment
    <3>2. \A o \in OrderIds : BackLeft(o, {}, i)' = BackLeft(o, {}, i)
      BY <3>1 DEF BackLeft, BackOf, ReturnsOf, StandingReturns
    <3> QED BY <3>1, <3>2 DEF OutOf
  <2>2. OutFalls(i)
    <3>1. \A o \in OrderIds : OutOf(o, i) \in Nat
      BY <1>0, OutIsNat
    <3>2. ASSUME NEW o \in OrderIds PROVE OutOf(o, i)' <= OutOf(o, i)
      <4>1. PICK a, b : a = OutOf(o, i)' /\ b = OutOf(o, i)
        OBVIOUS
      <4> QED BY <2>1, <3>1, <4>1
    <3> QED BY <3>2 DEF OutFalls
  <2>3. owing'[i] <= owing[i]
    <3>1. UNCHANGED owing
      BY <1>5 DEF PaymentStep, CreatePayment, ReversePayment
    <3> QED BY <1>0, <3>1
  <2> QED BY <2>2, <2>3, StaysApart
<1>6. CASE HandBackStep
  BY <1>0, <1>6, HandBackApart, UndoHandBackApart DEF HandBackStep
<1>7. CASE ArchiveCustomer
  <2>1. OthersSame({})
    BY <1>7, NoRowsMoved DEF ArchiveCustomer
  <2>2. owing'[i] <= owing[i]
    BY <1>0, <1>7 DEF ArchiveCustomer
  <2> QED BY <2>1, <2>2, NoneMovesApart
<1> QED BY <1>1, <1>2, <1>3, <1>4, <1>5, <1>6, <1>7 DEF Next

(* Pallets come to be owed beside pallets of that type out in one way only: *)
(* every handler but cancel keeps the two apart.                            *)
THEOREM OwedBesideOutByCancelOnly == Spec => OnlyCancelOwesBesideOut
<1> DEFINE Apart == \A i \in Items : ~OwedBesideOut(i) /\ OwedBesideOut(i)'
              => \E o \in OrderIds : orders[o].state = "live" /\ orders'[o].state = "cancelled"
<1>1. OutInv /\ OutInv' /\ [Next]_vars => [Apart]_vars
  BY ApartUnlessCancelled
<1> HIDE DEF Apart
<1>2. Spec => [][Apart]_vars
  BY <1>1, OutAlways, PTL DEF Spec
<1> QED BY <1>2 DEF OnlyCancelOwesBesideOut, Apart
-----------------------------------------------------------------------------
(* The value an order has out, by its stored column once that is its rows'. *)
ValueOf(o) == IF orders[o].state = "live" THEN cache[o].outValue ELSE 0

LEMMA ValuesAgree ==
  OutInv =>
    LET all == SumOver(OrderIds, [o \in OrderIds |-> ValueOf(o)])
    IN  /\ CustomerOutValue = all /\ OutValueByRows = all
        /\ \A o \in OrderIds : ValueOf(o) \in Int
<1> SUFFICES ASSUME OutInv
             PROVE  LET all == SumOver(OrderIds, [o \in OrderIds |-> ValueOf(o)])
                    IN  /\ CustomerOutValue = all /\ OutValueByRows = all
                        /\ \A o \in OrderIds : ValueOf(o) \in Int
  OBVIOUS
<1> DEFINE f == [o \in OrderIds |-> ValueOf(o)]
           g == [o \in OrderIds |-> cache[o].outValue]
           h == [o \in OrderIds |-> TotalsOf(o).outValue]
<1>0. /\ AmountInv /\ CacheIsRecomputation /\ UnusedAreBlank
      /\ LedgerInv /\ ReturnsPriced /\ TypeOK
  BY DEF OutInv, AmountInv, LedgerInv
<1>1. \A o \in OrderIds : f[o] \in Int /\ f[o] = ValueOf(o)
  BY <1>0, BoundsAssumption DEF TypeOK, CacheRows, Figures, ValueOf
<1>2. ASSUME NEW o \in OpenOrders PROVE f[o] = g[o]
  <2>1. o \in OrderIds /\ cache[o].status = "OPEN"
    BY DEF OpenOrders
  <2>2. orders[o].state \in {"live", "cancelled"} /\ cache[o] = TotalsOf(o)
    BY <1>0, <2>1 DEF UnusedAreBlank, CacheIsRecomputation, TypeOK, OrderRows
  <2>3. orders[o].state = "cancelled" => TotalsOf(o).status = "CANCELLED"
    BY DEF TotalsOf, TotalsWithout, OrderTotals
  <2> QED BY <2>1, <2>2, <2>3 DEF ValueOf
<1>3. ASSUME NEW o \in OrderIds \ OpenOrders PROVE f[o] = 0
  <2>1. CASE o \in Live
    <3>1. cache[o].status # "OPEN" /\ orders[o].state = "live"
      BY <2>1 DEF OpenOrders, Live
    <3>2. \A i \in Items : TotalsOf(o).out[i] = 0
      BY <1>0, <2>1, <3>1, SettledWhenClosed
    <3>3. cache[o] = TotalsOf(o)
      BY <1>0, <3>1 DEF CacheIsRecomputation
    <3> DEFINE t == TotalsOf(o)
               v == [i \in Items |-> t.out[i] * orders[o].deposit[i]]
    <3>4. t.outValue = SumOver(Items, v)
      BY <3>1 DEF TotalsOf, TotalsWithout, OrderTotals
    <3>5. \A i \in Items : v[i] = 0
      <4>1. \A i \in Items : orders[o].deposit[i] \in Nat
        BY <1>0, RowTypes
      <4> HIDE DEF t
      <4>2. \A i \in Items : t.out[i] = 0
        BY <3>2 DEF t
      <4> QED BY <4>1, <4>2
    <3> HIDE DEF v, t
    <3>6. SumOver(Items, v) = 0
      BY <3>5, DataAssumption, SumOfZeros
    <3> QED BY <3>1, <3>3, <3>4, <3>6 DEF ValueOf, t
  <2>2. CASE o \notin Live
    BY <2>2 DEF Live, ValueOf
  <2> QED BY <2>1, <2>2
<1>4. ASSUME NEW o \in Live PROVE f[o] = h[o]
  <2>1. orders[o].state = "live" /\ o \in OrderIds
    BY DEF Live
  <2> QED BY <1>0, <2>1 DEF ValueOf, CacheIsRecomputation
<1>5. \A o \in OrderIds \ Live : f[o] = 0
  BY DEF Live, ValueOf
<1>6. CustomerOutValue = SumOver(OpenOrders, g) /\ OutValueByRows = SumOver(Live, h)
  BY DEF CustomerOutValue, OutValueByRows
<1>7. OpenOrders \in SUBSET OrderIds /\ Live \in SUBSET OrderIds
  BY DEF OpenOrders, Live
<1> HIDE DEF f, g, h
<1>8. IsFiniteSet(OpenOrders) /\ IsFiniteSet(Live)
  BY <1>7, RowsAreFinite, FS_Subset
<1>9. SumOver(OpenOrders, g) = SumOver(OrderIds, f)
  <2>1. SumOver(OpenOrders, f) = SumOver(OpenOrders, g)
    BY <1>2, <1>8, SumAgrees
  <2>2. SumOver(OrderIds, f) = SumOver(OpenOrders, f)
    BY <1>1, <1>3, <1>7, RowsAreFinite, SumOfPart
  <2> QED BY <2>1, <2>2
<1>10. SumOver(Live, h) = SumOver(OrderIds, f)
  <2>1. SumOver(Live, f) = SumOver(Live, h)
    BY <1>4, <1>8, SumAgrees
  <2>2. SumOver(OrderIds, f) = SumOver(Live, f)
    BY <1>1, <1>5, <1>7, RowsAreFinite, SumOfPart
  <2> QED BY <2>1, <2>2
<1> QED BY <1>1, <1>6, <1>9, <1>10 DEF f

LEMMA ValuesAgreeAfter ==
  (OutInv =>
    LET all == SumOver(OrderIds, [o \in OrderIds |-> ValueOf(o)])
    IN  /\ CustomerOutValue = all /\ OutValueByRows = all
        /\ \A o \in OrderIds : ValueOf(o) \in Int)'
BY ValuesAgree, PTL

(* An order nothing came back of has its whole deposit out. *)
LEMMA UntouchedValue ==
  OutInv => \A o \in Live :
    (\A i \in Items : BackLeft(o, {}, i) = 0) => ValueOf(o) = DepositTotal(orders[o])
<1> SUFFICES ASSUME OutInv, NEW o \in Live, \A i \in Items : BackLeft(o, {}, i) = 0
             PROVE  ValueOf(o) = DepositTotal(orders[o])
  OBVIOUS
<1> DEFINE t == TotalsOf(o)
           v == [i \in Items |-> t.out[i] * orders[o].deposit[i]]
           d == [i \in Items |-> orders[o].quantity[i] * orders[o].deposit[i]]
<1>0. /\ LedgerInv /\ ReturnsPriced /\ TypeOK /\ CacheIsRecomputation
      /\ orders[o].state = "live" /\ o \in OrderIds
  BY DEF OutInv, AmountInv, LedgerInv, Live
<1>1. \A i \in Items : t.out[i] = orders[o].quantity[i] - BackLeft(o, {}, i)
  BY <1>0, TotalsAre DEF TotalsOf
<1>2. \A i \in Items : t.out[i] = orders[o].quantity[i]
  <2>1. \A i \in Items : orders[o].quantity[i] \in Nat
    BY <1>0, RowTypes
  <2> HIDE DEF t
  <2> QED BY <1>1, <2>1
<1>3. t.outValue = SumOver(Items, v)
  BY <1>0 DEF TotalsOf, TotalsWithout, OrderTotals
<1>4. ValueOf(o) = t.outValue
  BY <1>0 DEF ValueOf, CacheIsRecomputation
<1>5. DepositTotal(orders[o]) = SumOver(Items, d)
  BY DEF DepositTotal
<1>6. v = d
  <2> HIDE DEF t
  <2> QED BY <1>2
<1> HIDE DEF t, v, d
<1> QED BY <1>3, <1>4, <1>5, <1>6

LEMMA UntouchedValueAfter ==
  (OutInv => \A o \in Live :
    (\A i \in Items : BackLeft(o, {}, i) = 0) => ValueOf(o) = DepositTotal(orders[o]))'
BY UntouchedValue, PTL

(* One order's new figures move what is out by what that order's value did. *)
LEMMA ValueMoves ==
  ASSUME OutInv, OutInv', NEW o \in OrderIds, RecomputeOrders({o}),
         \A k \in OrderIds \ {o} : orders'[k].state = orders[k].state
  PROVE  /\ OutValueByRows' = CustomerOutValue - ValueOf(o) + ValueOf(o)'
         /\ CustomerOutValue \in Int /\ ValueOf(o) \in Int /\ ValueOf(o)' \in Int
<1>1. PICK S, f, g : /\ S = OrderIds /\ IsFiniteSet(S) /\ o \in S
                     /\ f = [k \in OrderIds |-> ValueOf(k)]
                     /\ g = [k \in OrderIds |-> ValueOf(k)']
  BY RowsAreFinite
<1>2. CustomerOutValue = SumOver(S, f) /\ \A k \in S : f[k] \in Int
  BY <1>1, ValuesAgree
<1>3. OutValueByRows' = SumOver(S, g) /\ \A k \in S : g[k] \in Int
  BY <1>1, ValuesAgreeAfter DEF OrderIds
<1>4. \A k \in S \ {o} : f[k] = g[k]
  BY <1>1 DEF RecomputeOrders, ValueOf
<1>5. f[o] = ValueOf(o) /\ g[o] = ValueOf(o)'
  BY <1>1
<1>6. SumOver(S, g) = SumOver(S, f) - f[o] + g[o]
  <2>1. \A y \in S : f[y] \in Int /\ g[y] \in Int
    BY <1>2, <1>3
  <2> QED BY ONLY <1>1, <1>4, <2>1, SumOneChanged
<1>7. SumOver(S, f) \in Int
  BY <1>1, <1>2, SumIsInt
<1> QED BY <1>1, <1>2, <1>3, <1>5, <1>6, <1>7

LEMMA CreateWithinLimit ==
  ASSUME OutInv, OutInv', NEW o \in OrderIds, NEW payment, NEW date, NEW requested,
         NEW deposit, CreateOrder(o, payment, date, requested, deposit, FALSE),
         DepositTotal(orders'[o]) > DepositTotal(orders[o])
  PROVE  OutValueByRows' <= CreditLimit
<1> DEFINE lent == Minus(requested, TakenFromOwed(owing, requested))
           row  == [state |-> "live", payment |-> payment, date |-> date, quantity |-> lent,
                    deposit |-> Priced(lent, deposit), used |-> TakenFromOwed(owing, requested)]
<1>0. AmountInv /\ TypeOK /\ LedgerInv' /\ CashInv' /\ TypeOK'
  BY DEF OutInv, AmountInv, LedgerInv
<1>1. /\ orders' = [orders EXCEPT ![o] = row] /\ MayLend(DepositTotal(row), FALSE)
      /\ RecomputeOrders({o})
  BY DEF CreateOrder
<1> HIDE DEF row
<1>2. orders'[o] = row /\ \A k \in OrderIds \ {o} : orders'[k] = orders[k]
  BY <1>0, <1>1 DEF TypeOK
<1>3. PICK total : total = DepositTotal(row)
  OBVIOUS
<1>4. total \in Nat /\ total > 0
  <2>1. DepositTotal(orders[o]) \in Nat
    BY <1>0, AmountTypes
  <2>2. DepositTotal(orders'[o]) \in Counts
    BY <1>0, CreateOrderAmounts DEF OpensOrder
  <2> QED BY <1>2, <1>3, <2>1, <2>2, BoundsAssumption DEF Counts
<1>5. CustomerOutValue + total <= CreditLimit
  <2>1. CreditAllows(CreditLimit, CustomerOutValue, total)
    BY <1>1, <1>3 DEF MayLend
  <2> QED BY <1>4, <2>1 DEF CreditAllows
<1>6. OpensOrder(o)
  BY <1>0, CreateOrderAmounts
<1>7. ValueOf(o) = 0 /\ ValueOf(o)' = total
  <2>1. o \in Live'
    BY <1>6 DEF OpensOrder, Live, OrderIds
  <2>2. ValueOf(o)' = DepositTotal(orders'[o])
    BY <1>6, <2>1, UntouchedValueAfter DEF OpensOrder, NothingCredited
  <2> QED BY <1>2, <1>3, <1>6, <2>2 DEF OpensOrder, ValueOf
<1>8. /\ OutValueByRows' = CustomerOutValue - ValueOf(o) + ValueOf(o)'
      /\ CustomerOutValue \in Int
  BY <1>1, <1>2, ValueMoves
<1>9. PICK a, b : a = OutValueByRows' /\ b = CustomerOutValue
  OBVIOUS
<1> QED BY <1>4, <1>5, <1>7, <1>8, <1>9, DataAssumption

LEMMA EditWithinLimit ==
  ASSUME OutInv, OutInv', NEW o \in OrderIds, NEW date, NEW requested,
         NEW deposit, EditLines(o, date, requested, deposit, FALSE),
         DepositTotal(orders'[o]) > DepositTotal(orders[o])
  PROVE  OutValueByRows' <= CreditLimit
<1> DEFINE before == orders[o]
           used == TakenFromOwed(Plus([i \in Items |-> Owed(i)], before.used), requested)
           lent == Minus(requested, used)
           row  == [before EXCEPT !.date = date, !.quantity = lent,
                                  !.deposit = Priced(lent, deposit), !.used = used]
<1>0. /\ AmountInv /\ TypeOK /\ LedgerInv' /\ CashInv' /\ TypeOK'
      /\ CacheIsRecomputation
  BY DEF OutInv, AmountInv, LedgerInv
<1>1. /\ orders' = [orders EXCEPT ![o] = row]
      /\ MayLend(DepositTotal(row) - cache[o].depositTotal, FALSE)
      /\ RecomputeOrders({o}) /\ NoActivity(o) /\ o \in Live
  BY DEF EditLines
<1> HIDE DEF row
<1>2. orders'[o] = row /\ \A k \in OrderIds \ {o} : orders'[k] = orders[k]
  BY <1>0, <1>1 DEF TypeOK
<1>3. PICK total, was : total = DepositTotal(row) /\ was = DepositTotal(orders[o])
  OBVIOUS
<1>4. RepricesOrder(o)
  BY <1>0, EditLinesAmounts
<1>5. total \in Nat /\ was \in Nat /\ total > was
  <2>1. DepositTotal(orders[o]) \in Nat
    BY <1>0, AmountTypes
  <2>2. DepositTotal(orders'[o]) \in Counts
    BY <1>4 DEF RepricesOrder
  <2> QED BY <1>2, <1>3, <2>1, <2>2, BoundsAssumption DEF Counts
<1>6. cache[o].depositTotal = was
  <2>1. cache[o] = TotalsOf(o)
    BY <1>0, <1>1 DEF CacheIsRecomputation, Live
  <2> QED BY <1>3, <2>1 DEF TotalsOf, TotalsWithout, OrderTotals
<1>7. CustomerOutValue + (total - was) <= CreditLimit
  <2>1. CreditAllows(CreditLimit, CustomerOutValue, total - was)
    BY <1>1, <1>3, <1>6 DEF MayLend
  <2> QED BY <1>5, <2>1 DEF CreditAllows
<1>8. ValueOf(o) = was /\ ValueOf(o)' = total
  <2>1. \A i \in Items : BackLeft(o, {}, i) = 0
    BY <1>0, <1>1, UntouchedOrder
  <2>2. ValueOf(o) = was
    BY <1>1, <1>3, <2>1, UntouchedValue
  <2>3. o \in Live'
    BY <1>4 DEF RepricesOrder, Live, OrderIds
  <2>4. ValueOf(o)' = DepositTotal(orders'[o])
    BY <1>4, <2>3, UntouchedValueAfter DEF RepricesOrder, NothingCredited
  <2> QED BY <1>2, <1>3, <2>2, <2>4
<1>9. /\ OutValueByRows' = CustomerOutValue - ValueOf(o) + ValueOf(o)'
      /\ CustomerOutValue \in Int
  BY <1>1, <1>2, ValueMoves
<1>10. PICK a, b : a = OutValueByRows' /\ b = CustomerOutValue
  OBVIOUS
<1> QED BY <1>5, <1>7, <1>8, <1>9, <1>10, DataAssumption

Grows(o) == orders'[o].state = "live" /\ DepositTotal(orders'[o]) > DepositTotal(orders[o])

LEMMA GrowsWithinLimit ==
  ASSUME TRUE \notin Overrides, OutInv, OutInv', Next, NEW k \in OrderIds, Grows(k)
  PROVE  OutValueByRows' <= CreditLimit
<1>0. /\ AmountInv /\ LedgerInv' /\ CashInv'
      /\ \A o \in OrderIds : DepositTotal(orders[o]) \in Nat
  BY AmountTypes DEF OutInv, AmountInv, LedgerInv
<1>1. \A override \in Overrides : override = FALSE
  BY DataAssumption
<1>2. ASSUME NEW S, OthersSame(S) PROVE k \in S
  BY <1>0, <1>2 DEF OthersSame, SameAmounts, Grows
<1>3. ~ UNCHANGED orders
  BY <1>0 DEF Grows
<1>4. ASSUME NEW o \in OrderIds, NEW date, EditHeader(o, date) PROVE FALSE
  BY <1>0, <1>2, <1>4, EditHeaderAmounts
<1>5. ASSUME NEW o \in OrderIds, NEW payment, NEW date, NEW requested, NEW deposit,
             NEW override \in Overrides,
             CreateOrder(o, payment, date, requested, deposit, override)
      PROVE  OutValueByRows' <= CreditLimit
  <2>1. OpensOrder(o)
    BY <1>0, <1>5, CreateOrderAmounts
  <2>2. k = o
    BY <1>2, <2>1 DEF OpensOrder
  <2>3. CreateOrder(o, payment, date, requested, deposit, FALSE)
    BY <1>1, <1>5
  <2> QED BY <2>2, <2>3, CreateWithinLimit DEF Grows
<1>6. ASSUME NEW o \in OrderIds, NEW date, NEW requested, NEW deposit,
             NEW override \in Overrides,
             EditLines(o, date, requested, deposit, override)
      PROVE  OutValueByRows' <= CreditLimit
  <2>1. RepricesOrder(o)
    BY <1>0, <1>6, EditLinesAmounts
  <2>2. k = o
    BY <1>2, <2>1 DEF RepricesOrder
  <2>3. EditLines(o, date, requested, deposit, FALSE)
    BY <1>1, <1>6
  <2> QED BY <2>2, <2>3, EditWithinLimit DEF Grows
<1>7. ~ CancelStep
  <2>1. ASSUME NEW o \in OrderIds, CancelOrder(o) PROVE FALSE
    <3>1. CancelsOrder(o)
      BY <1>0, <2>1, CancelOrderAmounts
    <3>2. k = o
      BY <1>2, <3>1 DEF CancelsOrder
    <3> QED BY <3>1, <3>2 DEF CancelsOrder, Grows
  <2> QED BY <2>1 DEF CancelStep
<1>8. OrderStep
  <2>1. ReturnStep => UNCHANGED orders
    BY ReturnsByPlan DEF WriteReturns
  <2>2. DeleteStep => UNCHANGED orders
    BY DEF DeleteStep, DeleteReturn, WriteReturns
  <2>3. PaymentStep \/ HandBackStep \/ ArchiveCustomer => UNCHANGED orders
    BY DEF PaymentStep, CreatePayment, ReversePayment, HandBackStep, HandBack, UndoHandBack,
       ArchiveCustomer
  <2> QED BY <1>3, <1>7, <2>1, <2>2, <2>3 DEF Next
<1> QED BY <1>4, <1>5, <1>6, <1>8 DEF OrderStep

(* With no override, a hand-over or an edit that lends more leaves the value*)
(* of all pallets out within the limit: what the check reads from the stored*)
(* columns of open orders is what the rows of every live order add up to.   *)
THEOREM LimitRespected == (TRUE \notin Overrides) => (Spec => CreditRespected)
<1> SUFFICES ASSUME TRUE \notin Overrides PROVE Spec => CreditRespected
  OBVIOUS
<1> DEFINE Within == (\E o \in OrderIds : orders'[o].state = "live"
              /\ DepositTotal(orders'[o]) > DepositTotal(orders[o]))
          => OutValueByRows' <= CreditLimit
<1>1. OutInv /\ OutInv' /\ [Next]_vars => [Within]_vars
  BY GrowsWithinLimit DEF Grows
<1> HIDE DEF Within
<1>2. Spec => [][Within]_vars
  BY <1>1, OutAlways, PTL DEF Spec
<1> QED BY <1>2 DEF CreditRespected, Within
=============================================================================
