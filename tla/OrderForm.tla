------------------------------ MODULE OrderForm ------------------------------
(***************************************************************************)
(* The screen an order is made on (new-order-form.tsx), its submit flow    *)
(* (use-flow-mutation.tsx) and the key that makes a repeat the same order  *)
(* (lib/idempotency.ts), against the server and the customer's credit. An  *)
(* answer may be lost, or come after the form has given up on it; what the *)
(* customer has out may change meanwhile, by this form's own lost order    *)
(* too. One customer; a draft is what the form would send, told apart by   *)
(* its deposit total; a repeat comes while its key is still kept.          *)
(***************************************************************************)
EXTENDS Integers, Sequences

CONSTANTS
    Drafts,         \* deposit totals a draft may have
    ClientLimit,    \* the customer's credit limit
    MaxOutValue,    \* most deposits out counted
    MaxSends,       \* bound on requests
    MaxEdits,       \* bound on edits of the draft
    MaxOthers       \* bound on what others do to the customer's orders

ASSUME OrderFormAssumption ==
    /\ Drafts \subseteq Nat \ {0}
    /\ {ClientLimit, MaxOutValue, MaxSends, MaxEdits, MaxOthers} \subseteq Nat

VARIABLES
    admin,          \* the clerk is an administrator
    draft,          \* what the form holds
    edits,          \* how often it was edited
    shownOut,       \* the customer's out value as the form last read it
    refusal,        \* the server's credit refusal, or NoRefusal
    confirming,     \* the override dialog is open
    stored,         \* the key kept and the payload it is for, or NoKey
    waiting,        \* the request the form waits for, 0 for none
    left,           \* the order was made and the form left
    sends,          \* the requests sent, with what became of each
    clientOut,      \* the server's: the customer's out value
    others          \* how often others changed it

orderFormVars == <<admin, draft, edits, shownOut, refusal, confirming, stored, waiting,
                   left, sends, clientOut, others>>
server == <<clientOut, others>>
form   == <<draft, edits, shownOut, refusal, confirming, stored, waiting, left>>

NoRefusal == [total |-> 0, out |-> 0]
NoKey     == [key |-> 0, payload |-> [draft |-> 0, override |-> FALSE]]
FormKeys  == 0 .. MaxSends
Outcomes  == {"sent", "created", "replayed", "refused", "failed"}

OrderFormTypeOK ==
    /\ admin \in BOOLEAN /\ draft \in Drafts /\ edits \in 0 .. MaxEdits
    /\ {shownOut, clientOut} \subseteq 0 .. MaxOutValue
    /\ refusal.out \in 0 .. MaxOutValue /\ refusal.total \in Drafts \cup {0}
    /\ confirming \in BOOLEAN /\ left \in BOOLEAN
    /\ stored.key \in FormKeys /\ waiting \in 0 .. Len(sends)
    /\ Len(sends) <= MaxSends /\ others \in 0 .. MaxOthers
    /\ \A n \in 1 .. Len(sends) :
          /\ sends[n].key \in FormKeys \ {0} /\ sends[n].outcome \in Outcomes
          /\ sends[n].draft \in Drafts /\ sends[n].out \in 0 .. MaxOutValue

OrderFormInit ==
    /\ admin \in BOOLEAN /\ draft \in Drafts
    /\ clientOut \in 0 .. ClientLimit /\ shownOut = clientOut
    /\ edits = 0 /\ others = 0 /\ refusal = NoRefusal /\ confirming = FALSE
    /\ stored = NoKey /\ waiting = 0 /\ left = FALSE /\ sends = << >>
-----------------------------------------------------------------------------
(* A refusal stands while it is of this total; else the live check decides. *)
Standing   == refusal.total = draft
OverCredit == Standing \/ shownOut + draft > ClientLimit

(* getKey: the key kept while the payload is the one it was made for.       *)
FreshKey(payload) == [key |-> Len(sends) + 1, payload |-> payload]  \* mutant
KeyFor(payload) ==
    IF stored.key # 0 /\ stored.payload = payload
    THEN stored ELSE [key |-> Len(sends) + 1, payload |-> payload]

(* The form stays open to edits while it waits, but is sent once at a time. *)
Post(override) ==
    /\ ~left /\ waiting = 0 /\ Len(sends) < MaxSends
    /\ LET payload == [draft |-> draft, override |-> override]
       IN  /\ stored' = KeyFor(payload)
           /\ sends' = Append(sends, [key |-> KeyFor(payload).key, draft |-> draft,
                                      override |-> override, edit |-> edits,
                                      outcome |-> "sent", out |-> 0])
    /\ waiting' = Len(sends')
    /\ confirming' = FALSE
    /\ UNCHANGED <<admin, draft, edits, shownOut, refusal, left, server>>
SubmitOrder == ~OverCredit /\ ~confirming /\ Post(FALSE)
AskOverride ==
    /\ ~left /\ waiting = 0 /\ admin /\ OverCredit /\ ~confirming
    /\ confirming' = TRUE
    /\ UNCHANGED <<admin, draft, edits, shownOut, refusal, stored, waiting, left, sends, server>>
ConfirmOverride == confirming /\ Post(TRUE)
CancelOverride ==
    /\ confirming /\ confirming' = FALSE
    /\ UNCHANGED <<admin, draft, edits, shownOut, refusal, stored, waiting, left, sends, server>>

(* The dialog is modal. *)
EditDraft(to) ==
    /\ ~left /\ ~confirming /\ edits < MaxEdits /\ to # draft
    /\ draft' = to /\ edits' = edits + 1
    /\ UNCHANGED <<admin, shownOut, refusal, confirming, stored, waiting, left, sends, server>>

(* The customer is read again: after a refusal, when the window comes back. *)
ReadCustomer ==
    /\ ~left /\ shownOut # clientOut
    /\ shownOut' = clientOut
    /\ UNCHANGED <<admin, draft, edits, refusal, confirming, stored, waiting, left, sends, server>>
-----------------------------------------------------------------------------
(* The server: a key already used answers with its order again; else the    *)
(* credit rule, which only a confirmed administrator passes.                *)
Replays(send) ==
    \E n \in 1 .. Len(sends) : sends[n].outcome = "created" /\ sends[n].key = send.key
LimitAllows(send) ==
    clientOut + send.draft <= ClientLimit \/ (send.override /\ admin)
Serve(n) ==
    LET send == sends[n] IN
    /\ send.outcome = "sent"
    /\ \/ /\ Replays(send)
          /\ sends' = [sends EXCEPT ![n].outcome = "replayed"]
          /\ UNCHANGED clientOut
       \/ /\ ~Replays(send) /\ LimitAllows(send)
          /\ clientOut + send.draft <= MaxOutValue
          /\ sends' = [sends EXCEPT ![n].outcome = "created"]
          /\ clientOut' = clientOut + send.draft
       \/ /\ ~Replays(send) /\ ~LimitAllows(send)
          /\ sends' = [sends EXCEPT ![n].outcome = "refused", ![n].out = clientOut]
          /\ UNCHANGED clientOut
    /\ UNCHANGED <<admin, form, others>>
(* Lost before it was served, or the server failed and kept nothing. *)
SendFails(n) ==
    /\ sends[n].outcome = "sent"
    /\ sends' = [sends EXCEPT ![n].outcome = "failed"]
    /\ UNCHANGED <<admin, form, server>>

(* The answer: made, the key is dropped and the form left; refused, the      *)
(* server's figures shown, and an administrator asked; failed, said so.      *)
AnswerReached ==
    /\ waiting # 0 /\ sends[waiting].outcome # "sent"
    /\ LET send == sends[waiting] IN
       \/ /\ send.outcome \in {"created", "replayed"}
          /\ left' = TRUE /\ stored' = NoKey
          /\ UNCHANGED <<refusal, confirming>>
       \/ /\ send.outcome = "refused"
          /\ refusal' = [total |-> send.draft, out |-> send.out]
          /\ confirming' = (confirming \/ admin)
          /\ UNCHANGED <<left, stored>>
       \/ /\ send.outcome = "failed"
          /\ UNCHANGED <<refusal, confirming, left, stored>>
    /\ waiting' = 0
    /\ UNCHANGED <<admin, draft, edits, shownOut, sends, server>>

(* No answer in time: the form gives up, and the request may be served yet. *)
GiveUp ==
    /\ waiting # 0
    /\ waiting' = 0
    /\ UNCHANGED <<admin, draft, edits, shownOut, refusal, confirming, stored, left, sends, server>>

(* Others: an order, a return, a cancellation. *)
OthersChange(out) ==
    /\ others < MaxOthers /\ out # clientOut
    /\ clientOut' = out /\ others' = others + 1
    /\ UNCHANGED <<admin, form, sends>>

OrderFormNext ==
    \/ SubmitOrder \/ AskOverride \/ ConfirmOverride \/ CancelOverride
    \/ \E to \in Drafts : EditDraft(to)
    \/ ReadCustomer \/ AnswerReached \/ GiveUp
    \/ \E n \in 1 .. Len(sends) : Serve(n) \/ SendFails(n)
    \/ \E out \in 0 .. ClientLimit : OthersChange(out)
OrderFormSpec == OrderFormInit /\ [][OrderFormNext]_orderFormVars
-----------------------------------------------------------------------------
Made == {n \in 1 .. Len(sends) : sends[n].outcome = "created"}

(* However answers are lost or late, an unedited draft becomes a second     *)
(* order only where the override was added or dropped between the two.      *)
SecondOnlyByOverride ==
    \A m, n \in Made : m < n /\ sends[m].edit = sends[n].edit =>
        \E k \in m + 1 .. n : sends[k].override # sends[k - 1].override

(* A draft sent again, unedited, makes no second order.                      *)
ResendIsSafe ==
    \A m, n \in Made : sends[m].edit = sends[n].edit => m = n
=============================================================================
