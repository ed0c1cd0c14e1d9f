------------------------------ MODULE MCParts ------------------------------
(***************************************************************************)
(* The parts of the system beside lending that share no state with one     *)
(* another, in one run: a behaviour moves one part and leaves the others   *)
(* at rest, so each part is explored in full, by itself. What holds of a   *)
(* part is thus looked for where the part is, and nowhere else.            *)
(***************************************************************************)
EXTENDS Throttle, Stock, OwedBefore, OrderAccount, ReturnForm, OrderForm,
        Deploy, Restore, Records, Printing, OrderPage, Lists

VARIABLE part
Parts == {"throttle", "stock", "receipts", "account", "returnForm", "orderForm",
          "deploy", "restore", "records", "printing", "ownPage", "orderPage", "lists"}

partsVars == <<throttleVars, stockVars, replayVars, account, formVars,
               orderFormVars, deployVars, restoreVars, recordVars, printVars,
               orderPageVars, listVars>>

(* A snapshot that may not load, may lack what makes it usable, and may    *)
(* hold no uploads.                                                        *)
SnapshotsOfAllKinds == [loads : BOOLEAN, sound : BOOLEAN, uploads : {0, 2}]

(* A part at rest is in one of its initial states. *)
AtRest(name, place) == part # name => place
PartsInit ==
    /\ part \in Parts
    /\ ThrottleInit  /\ AtRest("throttle", known = {})
    /\ ReplayInit    /\ AtRest("receipts", depositTotal = Min(OrderDeposits))
    /\ FormInit      /\ AtRest("returnForm",
          /\ changes = 0 /\ onDate = Min(FormDays) /\ row = NoRow
          /\ lines[Min(OrderNumbers)].open /\ lines[Min(OrderNumbers)].date = Min(FormDays))
    /\ OrderFormInit /\ AtRest("orderForm", ~admin /\ draft = Min(Drafts) /\ clientOut = 0)
    /\ DeployInit    /\ AtRest("deploy", appVersion = 0)
    /\ RestoreInit   /\ AtRest("restore", pallet = 0 /\ chosen = CHOOSE s \in Snapshots : TRUE)
    /\ RecordsInit
    /\ AtRest("records", kind = "settings" /\ \A r \in Ids : records[r] = NoRecord)
    /\ StockInit /\ AccountInit /\ PrintingInit /\ OrderPageInit /\ ListInit

Move(name) == part = name /\ UNCHANGED part
PartsNext ==
    \/ /\ Move("throttle") /\ ThrottleNext
       /\ UNCHANGED <<stockVars, replayVars, account, formVars,
                       orderFormVars, deployVars, restoreVars, recordVars,
                       printVars, orderPageVars, listVars>>
    \/ /\ Move("stock") /\ StockNext
       /\ UNCHANGED <<throttleVars, replayVars, account, formVars,
                       orderFormVars, deployVars, restoreVars, recordVars,
                       printVars, orderPageVars, listVars>>
    \/ /\ Move("receipts") /\ ReplayNext
       /\ UNCHANGED <<throttleVars, stockVars, account, formVars,
                       orderFormVars, deployVars, restoreVars, recordVars,
                       printVars, orderPageVars, listVars>>
    \/ /\ Move("account") /\ AccountNext
       /\ UNCHANGED <<throttleVars, stockVars, replayVars, formVars,
                       orderFormVars, deployVars, restoreVars, recordVars,
                       printVars, orderPageVars, listVars>>
    \/ /\ Move("returnForm") /\ FormNext
       /\ UNCHANGED <<throttleVars, stockVars, replayVars, account,
                       orderFormVars, deployVars, restoreVars, recordVars,
                       printVars, orderPageVars, listVars>>
    \/ /\ Move("orderForm") /\ OrderFormNext
       /\ UNCHANGED <<throttleVars, stockVars, replayVars, account, formVars,
                       deployVars, restoreVars, recordVars, printVars,
                       orderPageVars, listVars>>
    \/ /\ Move("deploy") /\ DeployNext
       /\ UNCHANGED <<throttleVars, stockVars, replayVars, account, formVars,
                       orderFormVars, restoreVars, recordVars, printVars,
                       orderPageVars, listVars>>
    \/ /\ Move("restore") /\ RestoreNext
       /\ UNCHANGED <<throttleVars, stockVars, replayVars, account, formVars,
                       orderFormVars, deployVars, recordVars, printVars,
                       orderPageVars, listVars>>
    \/ /\ Move("records") /\ RecordsNext
       /\ UNCHANGED <<throttleVars, stockVars, replayVars, account, formVars,
                       orderFormVars, deployVars, restoreVars, printVars,
                       orderPageVars, listVars>>
    \/ /\ Move("printing") /\ InPlaceNext
       /\ UNCHANGED <<throttleVars, stockVars, replayVars, account, formVars,
                       orderFormVars, deployVars, restoreVars, recordVars,
                       orderPageVars, listVars>>
    \/ /\ Move("ownPage") /\ OwnPageNext
       /\ UNCHANGED <<throttleVars, stockVars, replayVars, account, formVars,
                       orderFormVars, deployVars, restoreVars, recordVars,
                       orderPageVars, listVars>>
    \/ /\ Move("orderPage") /\ OrderPageNext
       /\ UNCHANGED <<throttleVars, stockVars, replayVars, account, formVars,
                       orderFormVars, deployVars, restoreVars, recordVars,
                       printVars, listVars>>
    \/ /\ Move("lists") /\ ListNext
       /\ UNCHANGED <<throttleVars, stockVars, replayVars, account, formVars,
                       orderFormVars, deployVars, restoreVars, recordVars,
                       printVars, orderPageVars>>
PartsSpec == PartsInit /\ [][PartsNext]_<<part, partsVars>>
=============================================================================
