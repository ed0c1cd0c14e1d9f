----------------------------- MODULE OwedBefore -----------------------------
(***************************************************************************)
(* What a receipt prints of an order's balance when money moved: stored    *)
(* with the payment or the return since Q137, and for an older manual      *)
(* payment replayed from the order's rows (owed-before-replay.ts), which   *)
(* is only trusted where the order of what happened can be told.           *)
(*                                                                         *)
(* One lent order, whose handlers follow one another under its lock. A row *)
(* is stamped as it is written (created_at), a return taken back by the    *)
(* API's injected clock (reversed_at), which may differ by Skew.           *)
(***************************************************************************)
EXTENDS Integers, Sequences, SequencesExt, FiniteSetsExt

CONSTANTS
    OrderDeposits,    \* deposit totals the order's lines may come to
    Sums,             \* amounts paid, and credits of returns
    Pauses,           \* time between two handlers
    CloseCall,        \* CLOSE_CALL_SECONDS
    Skew,             \* most the two clocks differ by
    MaxRows           \* bound on the rows of all kinds a handler still adds to

ASSUME ReplayAssumption ==
    /\ OrderDeposits \subseteq Nat /\ Sums \subseteq Nat \ {0}
    /\ Pauses \subseteq Nat \ {0} /\ Skew \in Nat /\ CloseCall \in Nat /\ MaxRows \in Nat
    /\ Skew < CloseCall

VARIABLES
    depositTotal,     \* orders.deposit_total
    entries,          \* ledger_entries of the order, in the order of their ids
    visits,           \* returns of the order, in the order of their ids
    lineEdits,        \* when its lines were edited (audit_logs, stock_movements)
    seconds           \* the time

replayVars == <<depositTotal, entries, visits, lineEdits, seconds>>

EntryTypes == {"PAYMENT", "PAYMENT_REVERSAL", "REFUND", "REFUND_REVERSAL"}

(* `of`: the entry a reversal reverses, or the return a refund belongs to;  *)
(* `owedBefore`: what the order owed when a payment was recorded, of other  *)
(* rows nothing (0). `gone`: when the return was taken back, -1 if it stands.*)
Entry(type, amount, of, at, before) ==
    [type |-> type, amount |-> amount, of |-> of, at |-> at, owedBefore |-> before]
NotGone(r)     == visits[r].gone = -1
StandingRets   == {r \in DOMAIN visits : NotGone(r)}
ReversedBy(p)  == \E n \in DOMAIN entries : entries[n].type = "PAYMENT_REVERSAL" /\ entries[n].of = p
StandingPays   == {p \in DOMAIN entries : entries[p].type = "PAYMENT" /\ ~ReversedBy(p)}

Signed(type, amount) == IF type \in {"PAYMENT", "REFUND_REVERSAL"} THEN amount ELSE -amount
PaidBy         == [n \in DOMAIN entries |-> Signed(entries[n].type, entries[n].amount)]
DueOf          == [r \in DOMAIN visits |-> visits[r].due]
PaidIn(ids)    == MapThenSumSet(LAMBDA n : PaidBy[n], ids)
DueIn(rets)    == MapThenSumSet(LAMBDA r : DueOf[r], rets)

(* computeOrderTotals: what the order owes. *)
OwedNow == depositTotal - PaidIn(DOMAIN entries) - DueIn(StandingRets)

ReplayTypeOK ==
    /\ depositTotal \in OrderDeposits
    /\ \A n \in DOMAIN entries : entries[n].type \in EntryTypes /\ entries[n].amount > 0
    /\ lineEdits \subseteq 0 .. seconds /\ seconds \in Nat

ReplayInit ==
    /\ depositTotal \in OrderDeposits
    /\ entries = <<>> /\ visits = <<>> /\ lineEdits = {} /\ seconds = 0
-----------------------------------------------------------------------------
Later ==
    /\ Len(entries) + Len(visits) + Cardinality(lineEdits) < MaxRows
    /\ \E pause \in Pauses : seconds' = seconds + pause

(* payments.service create and reverse. *)
RecordPayment(amount) ==
    /\ Later
    /\ amount <= OwedNow
    /\ entries' = Append(entries, Entry("PAYMENT", amount, 0, seconds', OwedNow))
    /\ UNCHANGED <<depositTotal, visits, lineEdits>>
ReversePay(p) ==
    /\ Later
    /\ p \in StandingPays
    /\ entries' = Append(entries, Entry("PAYMENT_REVERSAL", entries[p].amount, p, seconds', 0))
    /\ UNCHANGED <<depositTotal, visits, lineEdits>>

(* A return: its credit, in money as far as it goes beyond what is owed.    *)
(* A correction takes the old one and its refund back first.                *)
RefundEntry(r) == {n \in DOMAIN entries : entries[n].type = "REFUND" /\ entries[n].of = r}
TakeBack(rets, rows, r, stamp) ==
    [visits  |-> [rets EXCEPT ![r].gone = stamp],
     entries |-> IF RefundEntry(r) = {} THEN rows
                 ELSE Append(rows, Entry("REFUND_REVERSAL", rets[r].cash, r, seconds', 0))]
Recorded(rets, rows, due, owed) ==
    LET cash == Max({0, due - owed})
    IN  [visits  |-> Append(rets, [due |-> due, cash |-> cash, owedBefore |-> owed,
                                   at |-> seconds', gone |-> -1]),
         entries |-> IF cash = 0 THEN rows
                     ELSE Append(rows, Entry("REFUND", cash, Len(rets) + 1, seconds', 0))]
Stamps == {t \in seconds' - Skew .. seconds' + Skew : t >= 0}
Write(after) ==
    /\ visits' = after.visits /\ entries' = after.entries
    /\ UNCHANGED <<depositTotal, lineEdits>>
RecordReturn(due) ==
    /\ Later
    /\ DueIn(StandingRets) + due <= depositTotal
    /\ Write(Recorded(visits, entries, due, OwedNow))
DeleteStanding(r) ==
    /\ Later
    /\ r \in StandingRets
    /\ \E stamp \in Stamps : Write(TakeBack(visits, entries, r, stamp))
CorrectReturn(r, due) ==
    /\ Later
    /\ r \in StandingRets
    /\ DueIn(StandingRets \ {r}) + due <= depositTotal
    /\ \E stamp \in Stamps :
          LET without == TakeBack(visits, entries, r, stamp)
          IN  Write(Recorded(without.visits, without.entries, due,
                             OwedNow + visits[r].due - visits[r].cash))

(* order-changes update of the lines: nothing stands on the order.          *)
EditOrderLines(total) ==
    /\ Later
    /\ StandingRets = {} /\ StandingPays = {}
    /\ depositTotal' = total
    /\ lineEdits' = lineEdits \cup {seconds'}
    /\ UNCHANGED <<entries, visits>>

ReplayNext ==
    \/ \E n \in Sums : RecordPayment(n) \/ RecordReturn(n)
    \/ \E p \in DOMAIN entries : ReversePay(p)
    \/ \E r \in DOMAIN visits : DeleteStanding(r) \/ \E due \in Sums : CorrectReturn(r, due)
    \/ \E total \in OrderDeposits : EditOrderLines(total)
ReplaySpec == ReplayInit /\ [][ReplayNext]_replayVars
-----------------------------------------------------------------------------
(* replayOwedBefore of payment p: from the order's rows as they are today.  *)
StoodAt(t) == {r \in DOMAIN visits : visits[r].at <= t /\ (NotGone(r) \/ visits[r].gone > t)}
Replayed(p) == depositTotal - PaidIn(1 .. p - 1) - DueIn(StoodAt(entries[p].at))

Near(s, t) == s - t < CloseCall /\ t - s < CloseCall
OrderTold(p) ==                                                     \* mutant
    \A r \in DOMAIN visits : visits[r].at # entries[p].at /\ visits[r].gone # entries[p].at
NoCloseCall(p) ==
    \A r \in DOMAIN visits :
        ~Near(visits[r].at, entries[p].at) /\ (~NotGone(r) => ~Near(visits[r].gone, entries[p].at))
NeverEdited(p) == FALSE                                             \* mutant
DepositMayHaveChanged(p) == ReversedBy(p) /\ \E t \in lineEdits : t > entries[p].at

Trusted(p) == NoCloseCall(p) /\ ~DepositMayHaveChanged(p) /\ Replayed(p) >= entries[p].amount

(* What a return's paper says was still owed after it. *)
OwedAfter(r) == visits[r].owedBefore - visits[r].due + visits[r].cash

(* The paper of a payment, an older one's, and of a refund, which is of its *)
(* return and leaves nothing owed; a figure that cannot be told, or that    *)
(* the paper has not, is left out of its rows.                              *)
Unknown == -1
MoneyPaper(n) ==
    IF entries[n].type = "PAYMENT"
    THEN LET before == IF Trusted(n) THEN Replayed(n) ELSE Unknown
         IN  [before |-> before, credit |-> Unknown, amount |-> entries[n].amount,
              after  |-> IF before = Unknown THEN Unknown ELSE before - entries[n].amount]
    ELSE [before |-> visits[entries[n].of].owedBefore, credit |-> visits[entries[n].of].due,
          amount |-> entries[n].amount, after |-> 0]
FiguresShown(paper) == {figure \in DOMAIN paper : paper[figure] # Unknown}

(* A receipt never prints a balance that was not the order's: replayed long *)
(* after, from rows reversed, corrected and edited since, what a payment    *)
(* found owed is what it found, or is left out with what it left. What a    *)
(* return's paper says was left is never less than nothing, and nothing     *)
(* where cash was paid, as the paper of that cash says by its own figures.  *)
ReceiptsSayWhatWasOwed ==
    /\ \A n \in DOMAIN entries :
          LET paper == MoneyPaper(n)
          IN  /\ entries[n].type = "PAYMENT" /\ "before" \in FiguresShown(paper) =>
                    paper.before = entries[n].owedBefore /\ paper.after >= 0
              /\ entries[n].type = "REFUND" =>
                    /\ FiguresShown(paper) = DOMAIN paper
                    /\ paper.after = paper.before - paper.credit + paper.amount
    /\ \A r \in DOMAIN visits :
          OwedAfter(r) >= 0 /\ (visits[r].cash > 0 => OwedAfter(r) = 0)
=============================================================================
