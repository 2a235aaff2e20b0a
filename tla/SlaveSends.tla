----------------------------- MODULE SlaveSends -----------------------------
(***************************************************************************)
(* What the link between the halves may rely on of the slave half's        *)
(* kb_handle() (kb_handle_slave.c): which bitmaps come to                  *)
(* bt_connect_send_slave_keys, and when.  The slave's end of InterKbLink   *)
(* is built from these steps; KbHandleSlave, which has the edge callbacks  *)
(* and the engine they feed, implements them.                              *)
(***************************************************************************)
CONSTANT SlaveKeySet

VARIABLES
    slave_keys,  \* keys of the last processed poll
    change,      \* they have changed, and were not dealt with yet
    ready,       \* the master is connected and subscribed
    sent         \* the bitmap last given to bt_gatt_notify

sendVars == <<slave_keys, change, ready, sent>>

SendInit ==
    /\ slave_keys = {}
    /\ change = FALSE
    /\ ready = FALSE
    /\ sent = {}

\* A poll and its edges: any difference counts as a change.
Polls(keys) ==
    /\ ~ change
    /\ slave_keys' = keys
    /\ change' = (keys # slave_keys)
    /\ UNCHANGED <<ready, sent>>

\* bt_connect_send_slave_keys
Sends ==
    /\ change
    /\ ready
    /\ sent' = slave_keys
    /\ change' = FALSE
    /\ UNCHANGED <<slave_keys, ready>>

\* Its early returns: change is cleared all the same.
SendsNothing ==
    /\ change
    /\ ~ ready
    /\ change' = FALSE
    /\ UNCHANGED <<slave_keys, ready, sent>>

\* The callbacks of the slave's end of the link.
ReadyChanges ==
    /\ ready' = ~ ready
    /\ UNCHANGED <<slave_keys, change, sent>>

SendNext ==
    \/ \E keys \in SUBSET SlaveKeySet : Polls(keys)
    \/ Sends \/ SendsNothing \/ ReadyChanges

SendSpec == SendInit /\ [][SendNext]_sendVars
=============================================================================
