---------------------------- MODULE ResultLedger ----------------------------
(***************************************************************************)
(* What the pipeline promises about one table of conversations, without    *)
(* workers, leases, batches or crashes: a conversation is accepted, and it *)
(* is settled by one atomic step that records the outcome and takes it off *)
(* the queue.  A settled conversation is dead exactly if that step         *)
(* recorded a rejection.  It may be settled again (an outcome is replaced  *)
(* by a later one), taken off the queue on the strength of the outcome     *)
(* already on record, or accepted anew.                                    *)
(***************************************************************************)
CONSTANTS Conversations, Verdicts, Null

VARIABLES
    standing,       \* "unknown", "open", "done" or "dead"
    outcome         \* the verdict on record, or Null

ledgerVars == <<standing, outcome>>

LedgerInit ==
    /\ standing = [k \in Conversations |-> "unknown"]
    /\ outcome = [k \in Conversations |-> Null]

Accept(k) ==
    /\ standing' = [standing EXCEPT ![k] = "open"]
    /\ UNCHANGED outcome

Settle(k, verdict) ==
    /\ standing[k] # "unknown"
    /\ outcome' = [outcome EXCEPT ![k] = verdict]
    /\ standing' = [standing EXCEPT ![k] =
                        IF verdict = "rejected" THEN "dead" ELSE "done"]

Confirm(k) ==
    /\ standing[k] # "unknown"
    /\ outcome[k] # Null
    /\ standing' = [standing EXCEPT ![k] = "done"]
    /\ UNCHANGED outcome

LedgerNext ==
    \E k \in Conversations :
        \/ Accept(k)
        \/ \E verdict \in Verdicts : Settle(k, verdict)
        \/ Confirm(k)

LedgerSpec == LedgerInit /\ [][LedgerNext]_ledgerVars
=============================================================================
