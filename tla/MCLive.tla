------------------------------- MODULE MCLive -------------------------------
(***************************************************************************)
(* What must happen sooner or later, in the three parts it is asked of: a  *)
(* behaviour moves one of them and leaves the others at rest.              *)
(***************************************************************************)
EXTENDS Idempotency, Semaphore, Browser

VARIABLE part

liveVars == <<part, idemVars, gateVars, browserVars>>

LiveInit ==
    /\ part \in {"idempotency", "gate", "browser"}
    /\ IdemInit /\ GateInit /\ BrowserInit
LiveNext ==
    \/ /\ part = "idempotency" /\ IdemNext
       /\ UNCHANGED <<part, gateVars, browserVars>>
    \/ /\ part = "gate" /\ GateNext
       /\ UNCHANGED <<part, idemVars, browserVars>>
    \/ /\ part = "browser" /\ BrowserNext
       /\ UNCHANGED <<part, idemVars, gateVars>>
LiveSpec ==
    LiveInit /\ [][LiveNext]_liveVars /\ IdemFairness /\ GateFairness /\ BrowserFairness
=============================================================================
