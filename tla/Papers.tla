------------------------------- MODULE Papers -------------------------------
(***************************************************************************)
(* What the factory prints and shows of one customer's lending: the        *)
(* hand-over receipt (orders.service receipt), the papers of money and of  *)
(* returns (ledger.service), the profile's timeline (customer-history.ts), *)
(* the home page's events (dashboard.service), and the return read again   *)
(* for editing (returns.service editableFor). Each is a query of its own,  *)
(* over rows and stored columns no other reads together.                   *)
(***************************************************************************)
EXTENDS Reports, SequencesExt

(* The hand-over receipt of a live order. Pallets still out of earlier      *)
(* orders, one row per item and deposit; this order's own join them only    *)
(* when there are any.                                                      *)
OutByPrice(o) == {<<i, orders[o].deposit[i]>> : i \in {k \in Items : cache[o].out[k] > 0}}
AnyOther(o)      == {p \in OpenOrders : p # o}                      \* mutant
EarlierOrders(o) == {p \in OpenOrders : p < o}
OlderGroups(o) ==
    LET earlier == UNION {OutByPrice(p) : p \in EarlierOrders(o)}
    IN  IF earlier = {} THEN {} ELSE earlier \cup OutByPrice(o)
OutAt(S, group) ==
    SumOver({p \in S : group \in OutByPrice(p)}, [p \in OrderIds |-> cache[p].out[group[1]]])
AllOut(o, group) == OutAt(EarlierOrders(o), group) + OutAt({o} \cap OpenOrders, group)
AllOutValue(o) ==
    SumOver(OlderGroups(o), [g \in OlderGroups(o) |-> AllOut(o, g) * g[2]])

(* Other orders' pallets that came back with this one, by item.             *)
WithReturns(o)  == {r \in StandingReturns : returns[r].withOrder = o /\ returns[r].order # o}
CameWith(o, i)  == SumOver(WithReturns(o), [r \in ReturnIds |-> CameBack(r, i)])

(* The order's money, printed once a return is worth something; and the     *)
(* totals at the paper's foot.                                              *)
Settlement(o) ==
    [owed     |-> cache[o].owed,
     credited |-> SumOver(ReturnsOf(o), [r \in ReturnIds |-> returns[r].refundDue]),
     kept     |-> SumOver(ReturnsOf(o), [r \in ReturnIds |->
                             SumOver(Items, [i \in Items |-> Compensated(r, i)])]),
     paid     |-> PaidOn(o) - RefundedOn(o, {})]
Settled(o) == Settlement(o).credited > 0 \/ Settlement(o).kept > 0

EarlierValue(o) ==
    SumOver(OlderGroups(o), [g \in OlderGroups(o) |-> OutAt(EarlierOrders(o), g) * g[2]])
Foot(o) ==
    IF OlderGroups(o) = {} THEN [order |-> cache[o].depositTotal, grand |-> cache[o].depositTotal]
    ELSE [order |-> cache[o].depositTotal, earlier |-> EarlierValue(o), all |-> AllOutValue(o),
          grand |-> cache[o].depositTotal + EarlierValue(o)]

(* The rows of its table, each part under its heading; "settlement", like   *)
(* a heading, takes no number.                                              *)
Row(kind, of) == [kind |-> kind, of |-> of]
Part(heading, kind, S) ==
    IF S = {} THEN << >> ELSE heading \o SetToSeq({Row(kind, x) : x \in S})
RowsOf(lines, fromCredit, settled, with, older, owed) ==
    Part(<<>>, "line", lines) \o Part(<<>>, "fromCredit", fromCredit)
    \o (IF settled THEN <<Row("settlement", 0)>> ELSE << >>)
    \o Part(<<Row("withHeading", 0)>>, "with", with)
    \o Part(<<Row("olderHeading", 0)>>, "older", older)
    \o Part(<<Row("owedHeading", 0)>>, "owed", owed)
HandoverPaper(o) ==
    RowsOf({i \in Items : orders[o].quantity[i] > 0}, {i \in Items : orders[o].used[i] > 0},
           Settled(o), {i \in Items : CameWith(o, i) > 0}, OlderGroups(o),
           {i \in Items : Owed(i) > 0})

(* The columns a row prints, by its kind. *)
Columns(o, row) ==
    LET i == row.of
        back(S, What(_)) == SumOver(S, [r \in ReturnIds |-> What(returns[r].body)[i]])
        accepted(S) == back(S, LAMBDA body : body.accepted)
        damaged(S)  == back(S, LAMBDA body : body.damaged)
    IN  CASE row.kind = "line" ->
               [quantity |-> orders[o].quantity[i], accepted |-> accepted(ReturnsOf(o)),
                damaged |-> damaged(ReturnsOf(o)), out |-> cache[o].out[i],
                total |-> orders[o].quantity[i] * orders[o].deposit[i]]
          [] row.kind = "fromCredit" -> [quantity |-> orders[o].used[i]]
          [] row.kind = "settlement" -> Settlement(o)
          [] row.kind = "with" -> [accepted |-> accepted(WithReturns(o)), damaged |-> damaged(WithReturns(o))]
          [] row.kind = "older" ->
               [earlier |-> OutAt(EarlierOrders(o), i), this |-> OutAt({o} \cap OpenOrders, i),
                all |-> AllOut(o, i), allValue |-> AllOut(o, i) * i[2]]
          [] row.kind = "owed" -> [quantity |-> Owed(i)]
          [] OTHER -> << >>

(* layoutReceiptRows: rows that fit a half are one sheet, others go on      *)
(* pages. A heading moves to the next page with the rows it heads, and the  *)
(* one that names columns is repeated over what goes on of its rows.        *)
Headings == {"withHeading", "olderHeading", "owedHeading"}
Unnumbered(row) == row.kind \in Headings \cup {"settlement"}
AsManyAsFit(rows, start, room) == room                              \* mutant
Taken(rows, start, room) ==
    IF start + room <= Len(rows) /\ room > 1 /\ Unnumbered(rows[start + room - 1])
    THEN room - 1 ELSE room
Pages(rows, perHalf, perPage) ==
    LET from[start \in 1 .. Len(rows) + 1, heading \in 0 .. Len(rows)] ==
            IF start > Len(rows) THEN << >>
            ELSE LET goesOn == heading # 0 /\ ~Unnumbered(rows[start])
                               /\ rows[heading].kind = "olderHeading"
                     again  == IF goesOn THEN <<rows[heading]>> ELSE << >>
                     size   == Taken(rows, start,
                                     LesserOf(perPage - Len(again), Len(rows) - start + 1))
                     seen   == {k \in start .. start + size - 1 : Unnumbered(rows[k])}
                 IN  <<again \o SubSeq(rows, start, start + size - 1)>>
                     \o from[start + size, Max({heading} \cup seen)]
    IN  IF Len(rows) <= perHalf THEN <<rows>> ELSE from[1, 0]

(* The numbers at the rows' side run on through the parts: a row's is its   *)
(* place in its part, after the rows of the parts before.                   *)
NumberOf(rows, k) ==
    LET before(kind) == CASE kind = "line" -> {}
                          [] kind = "fromCredit" -> {"line"}
                          [] kind = "with"  -> {"line", "fromCredit"}
                          [] kind = "older" -> {"line", "fromCredit", "with"}
                          [] kind = "owed"  -> {"line", "fromCredit", "with", "older"}
    IN  Cardinality({j \in DOMAIN rows : rows[j].kind \in before(rows[k].kind)})
          + Cardinality({j \in 1 .. k : rows[j].kind = rows[k].kind})

(* chunkReceiptLines, of the papers that print every sheet in halves; none  *)
(* still is a sheet.                                                        *)
Chunks(rows, perHalf) ==
    LET count == IF rows = << >> THEN 1 ELSE (Len(rows) + perHalf - 1) \div perHalf
    IN  [k \in 1 .. count |->
            SubSeq(rows, (k - 1) * perHalf + 1, LesserOf(k * perHalf, Len(rows)))]
FirstNumber(k, perHalf) == (k - 1) * perHalf + 1

(* The paper as it leaves the printer, sheet by sheet: in halves, both      *)
(* copies of it on each; else the factory's pages, then the customer's. A   *)
(* copy ends with the totals, and says it goes on until then.               *)
Copy(pages, k, whose) ==
    [whose |-> whose, rows |-> pages[k], foot |-> IF k = Len(pages) THEN "totals" ELSE "goes on"]
InHalves(pages) ==
    [k \in DOMAIN pages |-> <<Copy(pages, k, "factory"), Copy(pages, k, "customer")>>]
OnPages(pages) ==
    LET stack(whose) == [k \in DOMAIN pages |-> <<Copy(pages, k, whose)>>]
    IN  stack("factory") \o stack("customer")
Printed(pages, rows, perHalf) ==
    IF Len(rows) <= perHalf THEN InHalves(pages) ELSE OnPages(pages)
MoneySheet(lines, perHalf) ==
    IF Len(lines) > perHalf THEN OnPages(<<lines>>) ELSE InHalves(<<lines>>)
-----------------------------------------------------------------------------
(* The money papers of an order: every payment and refund of it, a reversed *)
(* one listed and not counted.                                              *)
ListedEither(rows, table) == rows                                   \* mutant
Counted(rows, table) == {x \in rows : table[x].state = "standing"}
PaymentsListed(o) == {p \in PaymentIds : payments[p].state # "none" /\ payments[p].order = o}
RefundsListed(o)  == {r \in ReturnIds : refunds[r].state # "none" /\ returns[r].order = o}
Amounts(rows, table) == SumOver(rows, [x \in rows |-> table[x].amount])
TransactionsPaper(o) ==
    [received |-> Amounts(Counted(PaymentsListed(o), payments), payments),
     refunded |-> Amounts(Counted(RefundsListed(o), refunds), refunds),
     owed     |-> cache[o].owed]

(* The paper of a return, or of a visit's returns: a row per item and       *)
(* deposit, its worth from the line's own figures.                          *)
ReturnPaperRows(S) ==
    {<<x[2], DepositOf(x[1], x[2])>> :
        x \in {y \in S \X Items : y[2] \in BodyItems(returns[y[1]].body)}}
RowWorth(S, row) ==
    SumOver({r \in S : DepositOf(r, row[1]) = row[2]}, [r \in ReturnIds |-> Credited(r, row[1])])
PaperWorth(S) ==
    LET rows == ReturnPaperRows(S)
    IN  SumOver(rows, [row \in rows |-> RowWorth(S, row)])
ReturnColumns(S, row) ==
    LET i == row[1]  of == {r \in S : DepositOf(r, i) = row[2]}
    IN  [accepted |-> SumOver(of, [r \in ReturnIds |-> returns[r].body.accepted[i]]),
         damaged  |-> SumOver(of, [r \in ReturnIds |-> returns[r].body.damaged[i]]),
         total    |-> RowWorth(S, row),
         with     |-> OpenOut(i)]
ShowsDamaged(S) == \E row \in ReturnPaperRows(S) : ReturnColumns(S, row).damaged > 0
ReturnPaper(S) ==
    [credit |-> SumOver(S, [r \in ReturnIds |-> returns[r].refundDue]),
     amount |-> SumOver(S, [r \in ReturnIds |-> returns[r].cashRefund]),
     rows   |-> {<<row, ReturnColumns(S, row)>> : row \in ReturnPaperRows(S)},
     stamp  |-> CASE S \subseteq StandingReturns -> "none"
                  [] S \cap StandingReturns = {} -> "reversed"
                  [] OTHER -> "partly reversed"]
Visits == {returns[r].visit : r \in ReturnIds} \ {0}
PartsOfVisit(v) == {r \in StandingReturns : returns[r].visit = v}

(* The timeline of the customer: hand-overs, returns, money, by live order. *)
Timeline ==
    {<<"HANDOVER", o>> : o \in Live}
    \cup {<<"RETURN", r>> : r \in {k \in ReturnIds : returns[k].state # "none" /\ returns[k].order \in Live}}
    \cup (UNION {{<<"PAYMENT", p>> : p \in PaymentsListed(o)} : o \in Live})
    \cup (UNION {{<<"REFUND", r>> : r \in RefundsListed(o)} : o \in Live})
LedgerAmount(row) == IF row.state = "reversed" THEN 0 ELSE row.amount
OwedBy(entry) ==
    LET kind == entry[1]  id == entry[2]
    IN  CASE kind = "HANDOVER" -> DepositTotal(orders[id])
          [] kind = "RETURN"   -> IF returns[id].state = "standing" THEN -returns[id].refundDue ELSE 0
          [] kind = "PAYMENT"  -> -LedgerAmount(payments[id])
          [] kind = "REFUND"   -> LedgerAmount(refunds[id])

(* The home page's events of returns: one of a visit for all its returns,   *)
(* whose refunds are then not listed on their own; of others each its own.  *)
VisitCash(v) == SumOver({r \in ReturnIds : returns[r].visit = v},
                        [r \in ReturnIds |-> returns[r].cashRefund])
EveryRefund == {r \in ReturnIds : refunds[r].state # "none"}        \* mutant
RefundEvents == {r \in ReturnIds : refunds[r].state # "none" /\ returns[r].visit = 0}
CashInEvents ==
    SumOver(Visits, [v \in Visits |-> VisitCash(v)]) + Amounts(RefundEvents, refunds)
-----------------------------------------------------------------------------
(* editableFor: a standing return, with a visit's other parts, as it would  *)
(* be saved again, and of its extra only what is still owed.                *)
EditableFor(r) ==
    LET parts == PartsOf(r)
        items == UNION {BodyItems(returns[q].body) : q \in parts}
        rows  == SurplusOf(r, items)
    IN  [parts    |-> parts,
         date     |-> returns[r].date,
         out      |-> [q \in parts |-> TotalsWithout(returns[q].order, {q}).out],
         reopened |-> SurplusByItem(rows, StandingSurplus(rows)),
         cash     |-> Amounts({q \in parts : refunds[q].state = "standing"}, refunds)]
-----------------------------------------------------------------------------
(* Every row is printed once and in order in each copy, under one run of    *)
(* numbers, on no more than a page holds; the totals are at the end of a    *)
(* copy alone; no page ends on a heading, and no row of the older part      *)
(* stands on a page that does not name its columns.                         *)
BothWhole(printed, pages) ==
    \A whose \in {"factory", "customer"} :
        LET copy == SelectSeq(FlattenSeq(printed), LAMBDA part : part.whose = whose)
        IN  /\ FlattenSeq([k \in DOMAIN copy |-> copy[k].rows]) = FlattenSeq(pages)
            /\ \A k \in DOMAIN copy : (copy[k].foot = "totals") = (k = Len(copy))
LaidOut(rows, perHalf, perPage) ==
    LET pages    == Pages(rows, perHalf, perPage)
        older(k) == {j \in DOMAIN pages[k] : pages[k][j].kind = "older"}
        named(k) == {j \in DOMAIN pages[k] : pages[k][j].kind = "olderHeading"}
        fresh(k) == IF \E h \in 1 .. k - 1 : named(h) # {} /\ named(k) # {}
                    THEN Tail(pages[k]) ELSE pages[k]
        numbered == {k \in DOMAIN rows : ~Unnumbered(rows[k])}
    IN  /\ FlattenSeq([k \in DOMAIN pages |-> fresh(k)]) = rows
        /\ \A k \in numbered : NumberOf(rows, k) = Cardinality({j \in numbered : j <= k})
        /\ BothWhole(Printed(pages, rows, perHalf), pages)
        /\ \A k \in DOMAIN pages :
              /\ Len(pages[k]) <= IF Len(rows) <= perHalf THEN perHalf ELSE perPage
              /\ k < Len(pages) => Last(pages[k]).kind \notin Headings
              /\ \A j \in older(k) : \E h \in named(k) : h < j
ChunksLaidOut(rows, perHalf) ==
    LET chunks == Chunks(rows, perHalf)
    IN  /\ FlattenSeq(chunks) = rows
        /\ BothWhole(InHalves(chunks), chunks) /\ BothWhole(MoneySheet(rows, perHalf), <<rows>>)
        /\ \A k \in DOMAIN chunks : /\ Len(chunks[k]) <= perHalf
                                    /\ \A j \in DOMAIN chunks[k] :
                                          rows[FirstNumber(k, perHalf) + j - 1] = chunks[k][j]
PapersLaidOut ==
    /\ \A n \in 0 .. 5 : ChunksLaidOut([k \in 1 .. n |-> k], 2)
    /\ \A lines \in 0 .. 2, fromCredit \in 0 .. 1, settled \in BOOLEAN, with \in 0 .. 2,
          older \in 0 .. 4, owed \in 0 .. 2, perPage \in 3 .. 4 :
           LaidOut(RowsOf(1 .. lines, 1 .. fromCredit, settled, 1 .. with, 1 .. older, 1 .. owed),
                   2, perPage)

(* The hand-over receipt adds up whenever it is printed: a line's pallets   *)
(* are those that came back and those still out; the deposit above them,    *)
(* less what was credited and paid, is what is owed; beside earlier pallets *)
(* the counts and their value are all the customer holds up to this order,  *)
(* and when it names none there are none; what came back with another order *)
(* is on that order's paper, once; and no sheet of either copy leaves       *)
(* anything out. On the home page no cash handed back is told twice or left *)
(* out.                                                                     *)
HandoverPapersAddUp ==
    /\ PapersLaidOut
    /\ \A o \in Live :
          /\ LaidOut(HandoverPaper(o), 2, 3)
          /\ \A k \in DOMAIN HandoverPaper(o) :
                LET row == HandoverPaper(o)[k]  column == Columns(o, row)
                IN  CASE row.kind = "line" ->
                           column.quantity = column.accepted + column.damaged + column.out
                      [] row.kind = "settlement" ->
                           column.owed = Foot(o).order - column.credited - column.paid
                      [] OTHER -> TRUE
    /\ \A o \in Live, i \in Items :
          LET upTo == {p \in Live : p < o \/ (p = o /\ OlderGroups(o) # {})}
              groups == {g \in OlderGroups(o) : g[1] = i}
              all(g) == Columns(o, Row("older", g)).all
          IN  SumOver(groups, [g \in groups |-> all(g)])
                = SumOver(upTo, [p \in OrderIds |-> TotalsOf(p).out[i]])
    /\ \A o \in Live : OlderGroups(o) # {} =>
          /\ Foot(o).all = SumOver({p \in Live : p <= o}, [p \in OrderIds |-> TotalsOf(p).outValue])
          /\ Foot(o).grand - Foot(o).order = Foot(o).all - cache[o].outValue
    /\ \A i \in Items :
          SumOver(Live, [o \in OrderIds |-> CameWith(o, i)])
            = SumOver({r \in StandingReturns : returns[r].withOrder \notin {0, returns[r].order}},
                      [r \in ReturnIds |-> CameBack(r, i)])
    /\ CashInEvents = SumOver(ReturnIds, [r \in ReturnIds |-> returns[r].cashRefund])

(* A return read again for editing and saved as it was read is taken,       *)
(* however its orders, the returns after it and what was given back of its  *)
(* extra have moved on: its counts fit the orders without it, none of which *)
(* was cancelled or dated after it, and the extra it shows is of items it   *)
(* took back and no more than is still owed. (Such an extra is refused      *)
(* while some of its item is out beside it, see OnlyCancelOwesBesideOut.)   *)
ReopenedSavesUnchanged ==
    \A r \in StandingReturns :
        LET edit == EditableFor(r)
        IN  /\ \A q \in edit.parts :
                  /\ returns[q].order \in Live
                  /\ WithinOut(edit.out[q], returns[q].body)
                  /\ NotBeforeOrder(returns[q].order, edit.date)
                  /\ WithOrderAllows(returns[q].withOrder, edit.date)
            /\ edit.cash = SumOver(edit.parts, [q \in ReturnIds |-> returns[q].cashRefund])
            /\ \A i \in Items : edit.reopened[i] > 0 =>
                  /\ edit.reopened[i] <= Owed(i)
                  /\ \E q \in edit.parts : i \in BodyItems(returns[q].body)
=============================================================================
