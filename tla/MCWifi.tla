------------------------------- MODULE MCWifi -------------------------------
(***************************************************************************)
(* The driver's command queue (CmdQueue) and its transmission over shared  *)
(* memory (ShmemTx) on small instances, side by side.  They share no       *)
(* state, so a behaviour is one of exactly one of them (part); the other   *)
(* stays in its initial state.                                             *)
(***************************************************************************)
EXTENDS CmdQueue

CONSTANTS Mask, Modulus, MayLosePriv \* ShmemTx

\* A ring of at least two entries, and counters wide enough for the signed
\* comparison of handle_tx().
ASSUME TxAssumption ==
    /\ Mask \in Nat \ {0}
    /\ Modulus \in Nat
    /\ Mask < Modulus \div 2

VARIABLES
    part,
    write, read, ring, tx_q, stopped, tx_read_seen, irq, owes_irq, tx_woken, pass

T == INSTANCE ShmemTx WITH woken <- tx_woken

txVars == <<write, read, ring, tx_q, stopped, tx_read_seen, irq, owes_irq, tx_woken, pass>>
allVars == <<part, vars, txVars>>

MCInit == part \in {"commands", "transmission"} /\ Init /\ T!Init

MCNext ==
    \/ part = "commands" /\ Next /\ UNCHANGED <<part, txVars>>
    \/ part = "transmission" /\ T!Next /\ UNCHANGED <<part, vars>>

\* CmdQueue's fairness; that buffers come back is checked on ShmemTx alone.
CmdFairness ==
    /\ WF_vars(part = "commands" /\ esp_cmd_work_Idle)
    /\ WF_vars(part = "commands" /\ esp_cmd_work_Send)
    /\ WF_vars(part = "commands" /\ process_cmd_resp)
    /\ \A c \in Codes : /\ WF_vars(part = "commands" /\ Answered(c))
                        /\ WF_vars(part = "commands" /\ SleepAgain(c))

MCSpec == MCInit /\ [][MCNext]_allVars /\ CmdFairness

-----------------------------------------------------------------------------
\* The property of ShmemTx, stated there; the others are those of CmdQueue
\* itself.

\* Core 0 never reads a freed buffer (ShmemTx).
BuffersOutliveReads == T!BuffersOutliveReads
=============================================================================
