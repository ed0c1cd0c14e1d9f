---------------------------- MODULE OrderAccount ----------------------------
(***************************************************************************)
(* What the lending core promises about the money of orders, without the   *)
(* rows it keeps: an order carries a deposit, what was paid on it and what *)
(* its returns credited, and each moves only within what is still owed.    *)
(* A return may credit less than its pallets are worth - the rest was paid *)
(* out in cash -, and a step may touch several orders at once.             *)
(***************************************************************************)
EXTENDS Integers

CONSTANTS Orders,     \* the orders
          Amounts     \* the amounts of money
ASSUME AmountsAssumption == Amounts \subseteq Nat /\ 0 \in Amounts

VARIABLES state, deposit, paid, credits
account == <<state, deposit, paid, credits>>

AccountTypeOK ==
    /\ state   \in [Orders -> {"none", "live", "cancelled"}]
    /\ deposit \in [Orders -> Amounts]
    /\ paid    \in [Orders -> Amounts]
    /\ credits \in [Orders -> Amounts]

AccountInit ==
    /\ state   = [o \in Orders |-> "none"]
    /\ deposit = [o \in Orders |-> 0]
    /\ paid    = [o \in Orders |-> 0]
    /\ credits = [o \in Orders |-> 0]

StillOwed(o) == deposit[o] - paid[o] - credits[o]

(* Handed over: nothing is paid, or the whole deposit is. *)
Open(o) ==
    /\ state[o] = "none"
    /\ state' = [state EXCEPT ![o] = "live"]
    /\ \E d \in Amounts : deposit' = [deposit EXCEPT ![o] = d]
    /\ \E p \in {0, deposit'[o]} : paid' = [paid EXCEPT ![o] = p]
    /\ UNCHANGED credits

(* Priced again, while nothing was credited and nothing was paid but the    *)
(* whole deposit: the payment follows the deposit.                          *)
Untouched(o) == state[o] = "live" /\ credits[o] = 0 /\ paid[o] \in {0, deposit[o]}
Reprice(o) ==
    /\ Untouched(o)
    /\ \E d \in Amounts : deposit' = [deposit EXCEPT ![o] = d]
    /\ \E p \in {0, deposit'[o]} : paid' = [paid EXCEPT ![o] = p]
    /\ UNCHANGED <<state, credits>>

Cancel(o) ==
    /\ Untouched(o)
    /\ state' = [state EXCEPT ![o] = "cancelled"]
    /\ paid' = [paid EXCEPT ![o] = 0]
    /\ UNCHANGED <<deposit, credits>>

Pay(o) ==
    /\ state[o] = "live"
    /\ \E amount \in Amounts :
         /\ paid[o] <= amount /\ amount - paid[o] <= StillOwed(o)
         /\ paid' = [paid EXCEPT ![o] = amount]
    /\ UNCHANGED <<state, deposit, credits>>

Unpay(o) ==
    /\ state[o] = "live"
    /\ \E amount \in Amounts : amount < paid[o] /\ paid' = [paid EXCEPT ![o] = amount]
    /\ UNCHANGED <<state, deposit, credits>>

(* Returns recorded, corrected or deleted on the orders S: part of what was *)
(* credited is taken back, and what is credited anew is within what is then *)
(* owed.                                                                    *)
Credit(S) ==
    /\ \A o \in S : state[o] = "live"
    /\ credits' \in [Orders -> Amounts]
    /\ \A o \in Orders \ S : credits'[o] = credits[o]
    /\ \A o \in S : \/ credits'[o] <= credits[o]
                    \/ credits'[o] - credits[o] <= StillOwed(o)
    /\ UNCHANGED <<state, deposit, paid>>

AccountNext ==
    \/ \E o \in Orders : Open(o) \/ Reprice(o) \/ Cancel(o) \/ Pay(o) \/ Unpay(o)
    \/ \E S \in SUBSET Orders : Credit(S)

AccountSpec == AccountInit /\ [][AccountNext]_account

(* No order ever owes less than nothing: what was paid and credited stays   *)
(* within its deposit, and nothing is paid on a cancelled order.            *)
OwedNonNegative ==
    \A o \in Orders :
        /\ paid[o] + credits[o] <= deposit[o]
        /\ state[o] = "cancelled" => paid[o] = 0 /\ credits[o] = 0
=============================================================================
