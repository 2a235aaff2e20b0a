----------------------------- MODULE SlaveLink -----------------------------
(***************************************************************************)
(* What the master half's key handling may rely on of the Bluetooth        *)
(* callbacks (inter_kb_comm/master.c): the two variables kb_handle reads,  *)
(* and how they change.  KbHandleMaster runs against this specification;   *)
(* InterKbLink, which has both ends of the link, implements it.            *)
(***************************************************************************)
CONSTANT SlaveBitmaps   \* sets of keys a notification can carry

VARIABLES
    incoming_keys,  \* bitmap of the last notification
    slave_conn      \* ykb_slave_conn is not NULL

linkVars == <<incoming_keys, slave_conn>>

LinkInit ==
    /\ incoming_keys = {}
    /\ slave_conn = FALSE

\* ykb_notify_cb: there are notifications only from a connected slave.
Notified(keys) ==
    /\ slave_conn
    /\ incoming_keys' = keys
    /\ UNCHANGED slave_conn

\* ykb_device_found: the connection object exists before the connection.
ConnCreated ==
    /\ ~ slave_conn
    /\ slave_conn' = TRUE
    /\ UNCHANGED incoming_keys

\* ykb_master_disconnected, or ykb_master_connected with an error.
ConnLost ==
    /\ slave_conn
    /\ slave_conn' = FALSE
    /\ UNCHANGED incoming_keys

LinkNext ==
    \/ \E keys \in SlaveBitmaps : Notified(keys)
    \/ ConnCreated
    \/ ConnLost

LinkSpec == LinkInit /\ [][LinkNext]_linkVars
=============================================================================
