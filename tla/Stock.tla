------------------------------- MODULE Stock -------------------------------
(***************************************************************************)
(* Items, the purchase batches that fill them, counted adjustments, and    *)
(* the ledger of stock movements all of them and the lending handlers      *)
(* write (items.service.ts, purchases.service.ts, stock-ledger.ts), with   *)
(* what is read back from it: an item's history with running balances, the *)
(* purchases report and the stock report.                                  *)
(*                                                                         *)
(* Every handler works under its items' locks: it is one step, and the     *)
(* rows of an item's ledger are written in the order of their ids.         *)
(***************************************************************************)
EXTENDS Integers, Sequences, SequencesExt, FiniteSetsExt

CONSTANTS
    Goods,         \* items
    MaxBatches,    \* bound on purchase batches
    MaxMovements,  \* bound on the ledger
    MaxPallets,    \* bound on what one request moves
    PurchaseDays,  \* business dates of batches
    PageSize,      \* rows of one page of an item's history
    RowCap         \* ROW_CAP of the reports

ASSUME StockAssumption ==
    /\ IsFiniteSet(Goods)
    /\ {MaxBatches, MaxMovements, MaxPallets} \subseteq Nat
    /\ {PageSize, RowCap} \subseteq Nat \ {0}
    /\ PurchaseDays \subseteq Nat

VARIABLES
    items,       \* item -> its row
    batches,     \* batch id -> its row
    movements    \* stock_movements, in the order of their ids

stockVars == <<items, batches, movements>>

BatchIds == 1 .. MaxBatches
Reasons  == {"BATCH_ADD", "BATCH_EDIT", "BATCH_DELETE", "MANUAL_ADJUSTMENT", "LENDING"}
Unused   == [state |-> "none", onHand |-> 0]
NoBatch  == [state |-> "none", item |-> "none", date |-> 0, quantity |-> 0]

StockInit ==
    /\ items = [i \in Goods |-> Unused]
    /\ batches = [b \in BatchIds |-> NoBatch]
    /\ movements = <<>>
-----------------------------------------------------------------------------
Movement(i, quantity, reason, batch) ==
    [item |-> i, quantity |-> quantity, reason |-> reason, batch |-> batch]
Quantities(moves) == [k \in DOMAIN moves |-> moves[k].quantity]
SumOf(ids, moves) == MapThenSumSet(LAMBDA k : Quantities(moves)[k], ids)
MovesOf(i, moves) == {k \in DOMAIN moves : moves[k].item = i}
Net(i, moves)     == SumOf(MovesOf(i, moves), moves)

(* Additions before removals, each as they were given. *)
AsGiven(moves) == moves                                             \* mutant
GoesFirst(m, n) == m.quantity > 0 /\ n.quantity < 0
Before(moves, j, k) ==
    GoesFirst(moves[j], moves[k]) \/ (j < k /\ ~GoesFirst(moves[k], moves[j]))
Place(moves, k) == 1 + Cardinality({j \in DOMAIN moves : Before(moves, j, k)})
Ordered(moves)  == [n \in DOMAIN moves |-> moves[CHOOSE k \in DOMAIN moves : Place(moves, k) = n]]

(* StockLedger.apply on items as `rows` leaves them: each item's net change*)
(* must leave nothing below zero; the rows are written, then the columns.  *)
Apply(rows, moves) ==
    /\ \A k \in DOMAIN moves : moves[k].quantity # 0
    /\ \A i \in Goods : rows[i].onHand + Net(i, moves) >= 0
    /\ Len(movements) + Len(moves) <= MaxMovements
    /\ movements' = movements \o Ordered(moves)
    /\ items' = [i \in Goods |-> [rows[i] EXCEPT !.onHand = @ + Net(i, moves)]]
-----------------------------------------------------------------------------
Exists(i) == items[i].state # "none"
NextBatch(b) == batches[b].state = "none" /\ \A c \in BatchIds : c < b => batches[c].state # "none"

(* insertBatch: the batch and its BATCH_ADD movement. *)
InsertBatch(rows, b, i, date, quantity) ==
    /\ NextBatch(b)
    /\ batches' = [batches EXCEPT ![b] = [state |-> "live", item |-> i, date |-> date,
                                          quantity |-> quantity]]
    /\ Apply(rows, <<Movement(i, quantity, "BATCH_ADD", b)>>)

(* items.service create, with or without its first batch, and archive. An  *)
(* edit changes the item's name, deposit and minimum: nothing read here.   *)
NewItem(i) == [items EXCEPT ![i].state = "live"]
CreateItem(i) ==
    /\ ~Exists(i)
    /\ \/ /\ items' = NewItem(i)
          /\ UNCHANGED <<batches, movements>>
       \/ \E b \in BatchIds, date \in PurchaseDays, quantity \in 1 .. MaxPallets :
             InsertBatch(NewItem(i), b, i, date, quantity)

ArchiveItem(i) ==
    /\ items[i].state = "live"
    /\ items' = [items EXCEPT ![i].state = "archived"]
    /\ UNCHANGED <<batches, movements>>

(* adjustStock: a signed difference, on an archived item too. *)
AdjustStock(i, quantity) ==
    /\ Exists(i)
    /\ Apply(items, <<Movement(i, quantity, "MANUAL_ADJUSTMENT", 0)>>)
    /\ UNCHANGED batches

(* purchases.service create, update and remove. *)
CreateBatch(b, i, date, quantity) ==
    /\ items[i].state = "live"
    /\ InsertBatch(items, b, i, date, quantity)

(* The stock moves by the difference in quantity, and only if there is one.*)
MovesWhole(b, quantity) == <<Movement(batches[b].item, quantity, "BATCH_EDIT", b)>>  \* mutant
DifferenceMoves(b, quantity) ==
    IF quantity = batches[b].quantity THEN <<>>
    ELSE <<Movement(batches[b].item, quantity - batches[b].quantity, "BATCH_EDIT", b)>>
UpdateBatch(b, date, quantity) ==
    /\ batches[b].state = "live"
    /\ <<date, quantity>> # <<batches[b].date, batches[b].quantity>>
    /\ Apply(items, DifferenceMoves(b, quantity))
    /\ batches' = [batches EXCEPT ![b].date = date, ![b].quantity = quantity]

RemoveBatch(b) ==
    /\ batches[b].state = "live"
    /\ Apply(items, <<Movement(batches[b].item, -batches[b].quantity, "BATCH_DELETE", b)>>)
    /\ batches' = [batches EXCEPT ![b].state = "deleted"]

(* The handlers of Lending: what one of them takes out and puts back in    *)
(* goes through one call, in the order it was put together.                *)
Lend(moves) ==
    /\ \A k \in DOMAIN moves : Exists(moves[k].item)
    /\ Apply(items, moves)
    /\ UNCHANGED batches

Differences == (-MaxPallets .. MaxPallets) \ {0}
LendingMoves == [item : Goods, quantity : Differences, reason : {"LENDING"}, batch : {0}]

StockNext ==
    \/ \E i \in Goods : CreateItem(i) \/ ArchiveItem(i)
    \/ \E i \in Goods, quantity \in Differences : AdjustStock(i, quantity)
    \/ \E b \in BatchIds, i \in Goods, d \in PurchaseDays, q \in 1 .. MaxPallets : CreateBatch(b, i, d, q)
    \/ \E b \in BatchIds, d \in PurchaseDays, q \in 1 .. MaxPallets : UpdateBatch(b, d, q)
    \/ \E b \in BatchIds : RemoveBatch(b)
    \/ \E m, n \in LendingMoves : Lend(<<m>>) \/ Lend(<<m, n>>)
StockSpec == StockInit /\ [][StockNext]_stockVars
-----------------------------------------------------------------------------
(* queryStockMovements: a page of item i's rows, newest first, perhaps only*)
(* those of one reason; the balance after the newest of them is the stock  *)
(* less everything written since, and the others step back from there over *)
(* every row of the item in between.                                       *)
MovementIds(i, reasons) ==
    {k \in DOMAIN movements : movements[k].item = i /\ movements[k].reason \in reasons}
PageOf(ids, page) ==
    {k \in ids : LET newer == Cardinality({n \in ids : n > k})
                 IN  newer >= (page - 1) * PageSize /\ newer < page * PageSize}
WrittenAfter(i, k, upTo, reasons) ==
    SumOf({n \in MovementIds(i, reasons) : n > k /\ n <= upTo}, movements)
BalanceOfShown(i, reasons, page, k) ==                              \* mutant
    items[i].onHand - WrittenAfter(i, k, Len(movements), reasons)
BalanceAfter(i, reasons, page, k) ==
    LET newest  == Max(PageOf(MovementIds(i, reasons), page))
        balance == items[i].onHand - WrittenAfter(i, newest, Len(movements), Reasons)
    IN  balance - WrittenAfter(i, k, newest, Reasons)

(* queryPurchasesReport: the live batches of a period in order of date, cut*)
(* at the cap; the totals per item count every one of them.                *)
PurchasedOrDeleted(from, to) ==                                     \* mutant
    {b \in BatchIds : batches[b].state # "none" /\ batches[b].date \in from .. to}
Purchased(from, to) ==
    {b \in BatchIds : batches[b].state = "live" /\ batches[b].date \in from .. to}
PurchasesRows(from, to) ==
    LET before(b, c) == \/ batches[b].date < batches[c].date
                        \/ batches[b].date = batches[c].date /\ b < c
        all == Purchased(from, to)
    IN  {b \in all : Cardinality({c \in all : before(c, b)}) < RowCap}
PurchasesOf(from, to) ==
    LET held == [b \in BatchIds |-> batches[b].quantity]
    IN  [i \in Goods |->
            MapThenSumSet(LAMBDA b : held[b], {b \in Purchased(from, to) : batches[b].item = i})]
PurchasesTotal(from, to) == MapThenSumSet(LAMBDA i : PurchasesOf(from, to)[i], Goods)
PurchasesTruncated(from, to) == Cardinality(Purchased(from, to)) > RowCap

(* queryStockReport: archived items too. *)
ReportedItems == {i \in Goods : Exists(i)}
OnHand == [i \in Goods |-> items[i].onHand]
StockReportTotal == MapThenSumSet(LAMBDA i : OnHand[i], ReportedItems)
-----------------------------------------------------------------------------
BatchMoves == [b \in BatchIds |-> SumOf({k \in DOMAIN movements : movements[k].batch = b}, movements)]

(* Every page of an item's history, filtered or not, shows beside a row the*)
(* stock the whole ledger had left when the row was written, and no row    *)
(* shows less than nothing, even inside an operation that takes out what   *)
(* it puts in.                                                             *)
StockAfter(i, k) == SumOf({n \in MovesOf(i, movements) : n <= k}, movements)
HistoryShowsBalances ==
    \A i \in Goods, reasons \in {Reasons} \cup {{r} : r \in Reasons},
       page \in 1 .. (MaxMovements \div PageSize) + 1 :
        \A k \in PageOf(MovementIds(i, reasons), page) :
            /\ BalanceAfter(i, reasons, page, k) = StockAfter(i, k)
            /\ StockAfter(i, k) >= 0

(* Reconciliation R1 and R6: the stock of an item is the sum of its ledger,*)
(* and a batch's movements add up to its quantity - to nothing once it is  *)
(* deleted -, through every correction. And what the reports add up is what*)
(* the ledger moved, whatever their rows are cut at: the purchases of a    *)
(* period are the movements of its batches, and the stock report's total   *)
(* is every movement there was; and the history shows the balances.        *)
StockIsLedger == \A i \in Goods : items[i].onHand = Net(i, movements)
BatchIsLedger ==
    \A b \in BatchIds : BatchMoves[b] =
        IF batches[b].state = "live" THEN batches[b].quantity ELSE 0
PurchasesFollowLedger(from, to) ==
    /\ PurchasesTotal(from, to) =
          MapThenSumSet(LAMBDA b : BatchMoves[b], {b \in BatchIds : batches[b].date \in from .. to})
    /\ ~PurchasesTruncated(from, to) => PurchasesRows(from, to) = Purchased(from, to)
LedgerAddsUp ==
    /\ StockIsLedger
    /\ BatchIsLedger
    /\ HistoryShowsBalances
    /\ \A from, to \in PurchaseDays : PurchasesFollowLedger(from, to)
    /\ StockReportTotal = SumOf(DOMAIN movements, movements)
=============================================================================
