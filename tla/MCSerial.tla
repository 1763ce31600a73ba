------------------------------ MODULE MCSerial ------------------------------
(***************************************************************************)
(* A small serial port.  Its two halves share nothing, so a behaviour is   *)
(* one of either: the other half stays in its initial state.               *)
(***************************************************************************)
EXTENDS SerialReceive, SerialTransmit

CONSTANTS x, y

VARIABLE side   \* the half that runs

MCVars == <<rxVars, txVars, side>>

MCInit ==
    /\ side \in {"rx", "tx"}
    /\ RxInit /\ (side = "tx" => dmaRx = FALSE)
    /\ TxInit /\ (side = "rx" => dmaTx = FALSE)

MCNext ==
    \/ side = "rx" /\ RxNext /\ UNCHANGED <<txVars, side>>
    \/ side = "tx" /\ TxNext /\ UNCHANGED <<rxVars, side>>

MCSpec == MCInit /\ [][MCNext]_MCVars /\ RxFairness /\ TxFairness

=============================================================================
