---------------------------- MODULE InterKbLink ----------------------------
(***************************************************************************)
(* The Bluetooth link between the two halves, with both of its ends: the   *)
(* callbacks of the master (inter_kb_comm/master.c) and of the slave       *)
(* (inter_kb_comm/slave.c), the slave's polls (kb_handle_slave.c) and what *)
(* the master's polls make of its notifications (kb_handle_master.c).      *)
(*                                                                         *)
(* The Bluetooth stack is external.  It owns BT_MAX_CONN connection        *)
(* objects on the master.  Connectable advertising takes one, a connection *)
(* being created takes one, and an object comes back once its connection   *)
(* is closed and nobody holds a reference; only then is "recycled" called, *)
(* without a word about whose object it was.  Each end learns of a lost    *)
(* link in its own time, and notifications under way are lost with it.     *)
(***************************************************************************)
EXTENDS Naturals, Sequences

CONSTANTS
    SlaveKeySet,    \* keys of the slave half
    Conns,          \* connection objects of the master's stack
    None,           \* NULL
    TxBuffers       \* notifications that can be under way

ASSUME LinkConstants ==
    /\ None \notin Conns
    /\ TxBuffers \in Nat \ {0}
    /\ \E o, p \in Conns : o # p   \* BT_MAX_CONN is 2 on both boards

VARIABLES
    conn,           \* object -> what the stack uses it for
    ykb_slave_conn,
    scanning,
    slave_was_disconnected,
    incoming_keys,
    view,           \* prev_down_slave of the master's kb_handle
    discovering,    \* service discovery is running on the link
    link,           \* the connection is up
    queue,          \* notifications under way, oldest first
    peer,           \* slave: "adv", "connected" (ykb_master_conn) or "closed"
    subscribed,     \* slave: ykb_ccc_enabled
    slave_keys,     \* slave: prev_down
    change,         \* slave
    sent,           \* slave: the bitmap last given to bt_gatt_notify
    leaked,         \* history: a connection failed to be created
    readvertised,   \* history: an FN keystroke took the slave's object or
                    \* the notice that it was free
    missed,         \* history: the latest bitmap did not reach the master
    fresh           \* history: presses on the slave no poll has seen

masterVars == <<conn, ykb_slave_conn, scanning, slave_was_disconnected>>
slaveVars == <<slave_keys, change, sent>>
keyVars == <<incoming_keys, view, slaveVars, fresh>>
peerVars == <<link, peer, subscribed, discovering, queue, missed>>
vars == <<masterVars, keyVars, peerVars, leaked, readvertised>>

Uses == {"free", "adv", "host", "create", "slave", "closed", "leaked"}

TypeOK ==
    /\ conn \in [Conns -> Uses]
    /\ ykb_slave_conn \in Conns \cup {None}
    /\ scanning \in BOOLEAN
    /\ slave_was_disconnected \in BOOLEAN
    /\ incoming_keys \subseteq SlaveKeySet
    /\ view \subseteq SlaveKeySet
    /\ discovering \in BOOLEAN
    /\ link \in BOOLEAN
    /\ queue \in Seq(SUBSET SlaveKeySet)
    /\ Len(queue) <= TxBuffers
    /\ peer \in {"adv", "connected", "closed"}
    /\ subscribed \in BOOLEAN
    /\ slave_keys \subseteq SlaveKeySet
    /\ change \in BOOLEAN
    /\ sent \subseteq SlaveKeySet
    /\ leaked \in BOOLEAN
    /\ readvertised \in BOOLEAN
    /\ missed \in BOOLEAN
    /\ fresh \subseteq SlaveKeySet

\* After bt_ready on both halves: the master advertises to hosts and scans.
Init ==
    /\ \E o \in Conns :
          conn = [p \in Conns |-> IF p = o THEN "adv" ELSE "free"]
    /\ ykb_slave_conn = None
    /\ scanning = TRUE
    /\ slave_was_disconnected = FALSE
    /\ incoming_keys = {}
    /\ view = {}
    /\ discovering = FALSE
    /\ link = FALSE
    /\ queue = <<>>
    /\ peer = "adv"
    /\ subscribed = FALSE
    /\ slave_keys = {}
    /\ change = FALSE
    /\ sent = {}
    /\ leaked = FALSE
    /\ readvertised = FALSE
    /\ missed = FALSE
    /\ fresh = {}

-----------------------------------------------------------------------------
(***************************************************************************)
(* The master's end.                                                       *)
(***************************************************************************)
\* ykb_device_found.  Its result is ignored: when the stack has no object
\* left, ykb_slave_conn stays NULL and the scan stays stopped.
DeviceFound ==
    /\ scanning
    /\ peer = "adv"
    /\ ykb_slave_conn = None
    /\ scanning' = FALSE
    /\ \/ \E o \in Conns : /\ conn[o] = "free"
                           /\ conn' = [conn EXCEPT ![o] = "create"]
                           /\ ykb_slave_conn' = o
       \/ /\ \A o \in Conns : conn[o] # "free"
          /\ UNCHANGED <<conn, ykb_slave_conn>>
    /\ UNCHANGED <<slave_was_disconnected, keyVars, peerVars, leaked,
                   readvertised>>

\* ykb_master_connected with an error: the reference is not given back.
CreateFails(o) ==
    /\ conn[o] = "create"
    /\ ykb_slave_conn' = None
    /\ conn' = [conn EXCEPT ![o] = "leaked"]
    /\ scanning' = TRUE
    /\ leaked' = TRUE
    /\ UNCHANGED <<slave_was_disconnected, keyVars, peerVars, readvertised>>

\* ykb_master_connected, ykb_start_discovery; ykb_peer_connected on the slave
Connects(o) ==
    /\ conn[o] = "create"
    /\ peer = "adv"
    /\ conn' = [conn EXCEPT ![o] = "slave"]
    /\ link' = TRUE
    /\ discovering' = TRUE
    /\ peer' = "connected"
    /\ UNCHANGED <<ykb_slave_conn, scanning, slave_was_disconnected, keyVars,
                   subscribed, queue, missed, leaked, readvertised>>

\* ykb_discover_func reaches the descriptor and subscribes;
\* ykb_ccc_cfg_changed on the slave
Subscribes ==
    /\ discovering
    /\ discovering' = FALSE
    /\ subscribed' = TRUE
    /\ UNCHANGED <<masterVars, keyVars, link, peer, queue, missed, leaked,
                   readvertised>>

\* ykb_discover_func without an attribute; nothing starts discovery again
DiscoveryEnds ==
    /\ discovering
    /\ discovering' = FALSE
    /\ UNCHANGED <<masterVars, keyVars, link, peer, subscribed, queue, missed,
                   leaked, readvertised>>

LinkLost ==
    /\ link
    /\ link' = FALSE
    /\ discovering' = FALSE
    /\ queue' = <<>>
    /\ missed' = (missed \/ queue # <<>>)
    /\ UNCHANGED <<masterVars, keyVars, peer, subscribed, leaked, readvertised>>

\* Mutant: nothing records that the slave's connection was the one closed.
DisconnectUnrecorded(o) ==
    /\ conn[o] = "slave"
    /\ ~ link
    /\ ykb_slave_conn' = None
    /\ conn' = [conn EXCEPT ![o] = "closed"]
    /\ UNCHANGED <<scanning, slave_was_disconnected, keyVars, peerVars, leaked,
                   readvertised>>

\* ykb_master_disconnected
MasterDisconnected(o) ==
    /\ conn[o] = "slave"
    /\ ~ link
    /\ ykb_slave_conn' = None
    /\ slave_was_disconnected' = TRUE
    /\ conn' = [conn EXCEPT ![o] = "closed"]
    /\ UNCHANGED <<scanning, keyVars, peerVars, leaked, readvertised>>

HostConnects(o) ==
    /\ conn[o] = "adv"
    /\ conn' = [conn EXCEPT ![o] = "host"]
    /\ UNCHANGED <<ykb_slave_conn, scanning, slave_was_disconnected, keyVars,
                   peerVars, leaked, readvertised>>

\* Mutant: ykb_master_disconnected does not look whose connection closed.
HostDisconnectsAny(o) ==
    /\ conn[o] = "host"
    /\ conn' = [conn EXCEPT ![o] = "closed"]
    /\ ykb_slave_conn' = None
    /\ UNCHANGED <<scanning, slave_was_disconnected, keyVars, peerVars, leaked,
                   readvertised>>

\* ykb_master_disconnected, for a connection that is not the slave's
HostDisconnects(o) ==
    /\ conn[o] = "host"
    /\ conn' = [conn EXCEPT ![o] = "closed"]
    /\ UNCHANGED <<ykb_slave_conn, scanning, slave_was_disconnected, keyVars,
                   peerVars, leaked, readvertised>>

Advertising == \E o \in Conns : conn[o] = "adv"

\* bt_le_adv_start, on the objects left: does nothing while advertising.
AdvStart(c) ==
    \/ /\ \A o \in Conns : c[o] # "adv"
       /\ \E o \in Conns : c[o] = "free" /\ conn' = [c EXCEPT ![o] = "adv"]
    \/ /\ \/ \E o \in Conns : c[o] = "adv"
          \/ \A o \in Conns : c[o] # "free"
       /\ conn' = c

\* Mutant: the flag is not reset.
RecycledKeepsFlag(o) ==
    /\ conn[o] = "closed"
    /\ IF slave_was_disconnected
       THEN /\ scanning' = TRUE
            /\ conn' = [conn EXCEPT ![o] = "free"]
       ELSE /\ AdvStart([conn EXCEPT ![o] = "free"])
            /\ UNCHANGED scanning
    /\ UNCHANGED <<ykb_slave_conn, slave_was_disconnected, keyVars, peerVars,
                   leaked, readvertised>>

\* Mutant: any free object restarts the advertising.
RecycledAdvertises(o) ==
    /\ conn[o] = "closed"
    /\ AdvStart([conn EXCEPT ![o] = "free"])
    /\ UNCHANGED <<ykb_slave_conn, scanning, slave_was_disconnected, keyVars,
                   peerVars, leaked, readvertised>>

\* ykb_master_recycled
Recycled(o) ==
    /\ conn[o] = "closed"
    /\ IF slave_was_disconnected
       THEN /\ scanning' = TRUE
            /\ conn' = [conn EXCEPT ![o] = "free"]
       ELSE /\ AdvStart([conn EXCEPT ![o] = "free"])
            /\ UNCHANGED scanning
    /\ slave_was_disconnected' = FALSE
    /\ UNCHANGED <<ykb_slave_conn, keyVars, peerVars, leaked, readvertised>>

\* bt_connect_start_advertising, an FN keystroke.  Stopping the advertising
\* frees its object, so ykb_master_recycled runs before the new start.
StartAdvertising ==
    /\ AdvStart(conn)
    /\ scanning' = (scanning \/ (Advertising /\ slave_was_disconnected))
    /\ slave_was_disconnected' = (slave_was_disconnected /\ ~ Advertising)
    /\ readvertised' = (readvertised \/ conn' # conn
                           \/ slave_was_disconnected' # slave_was_disconnected)
    /\ UNCHANGED <<ykb_slave_conn, keyVars, peerVars, leaked>>

\* ykb_notify_cb
Deliver ==
    /\ queue # <<>>
    /\ incoming_keys' = Head(queue)
    /\ queue' = Tail(queue)
    /\ UNCHANGED <<masterVars, view, slaveVars, fresh, link, peer, subscribed,
                   discovering, missed, leaked, readvertised>>

\* kb_handle of the master: bt_connect_get_slave_keys and edge_detection
MasterPoll ==
    /\ view' = IF ykb_slave_conn = None THEN {} ELSE incoming_keys
    /\ fresh' = fresh \ (view' \ view)
    /\ UNCHANGED <<masterVars, incoming_keys, slaveVars, peerVars, leaked,
                   readvertised>>

-----------------------------------------------------------------------------
(***************************************************************************)
(* The slave's end.  What its kb_handle asks of the link is SlaveSends,    *)
(* which KbHandleSlave implements.                                         *)
(***************************************************************************)
Sender == INSTANCE SlaveSends WITH ready <- peer = "connected" /\ subscribed

\* ykb_peer_disconnected; the stack also resets the subscription
SlaveDisconnected ==
    /\ peer = "connected"
    /\ ~ link
    /\ peer' = "closed"
    /\ subscribed' = FALSE
    /\ UNCHANGED <<masterVars, keyVars, link, discovering, queue, missed,
                   leaked, readvertised>>

\* ykb_peer_recycled
SlaveRecycled ==
    /\ peer = "closed"
    /\ peer' = "adv"
    /\ UNCHANGED <<masterVars, keyVars, link, subscribed, discovering, queue,
                   missed, leaked, readvertised>>

\* Mutant: on_release_slave does not set change.
SlavePollPressesOnly(keys) ==
    /\ ~ change
    /\ slave_keys' = keys
    /\ change' = (keys \ slave_keys # {})
    /\ fresh' = fresh \cup (keys \ slave_keys)
    /\ UNCHANGED <<masterVars, incoming_keys, view, sent, peerVars, leaked,
                   readvertised>>

\* kb_handle of the slave, up to edge_detection
SlavePoll(keys) ==
    /\ fresh' = fresh \cup (keys \ slave_keys)
    /\ UNCHANGED <<masterVars, incoming_keys, view, peerVars, leaked,
                   readvertised>>
    /\ Sender!Polls(keys)

\* Mutant: the limit of the stack's buffers is not respected.
SendKeysUnbounded ==
    /\ change
    /\ change' = FALSE
    /\ peer = "connected" /\ subscribed
    /\ queue' = IF link THEN Append(queue, slave_keys) ELSE queue
    /\ sent' = slave_keys
    /\ missed' = ~ link
    /\ UNCHANGED <<masterVars, incoming_keys, view, slave_keys, fresh, link,
                   peer, subscribed, discovering, leaked, readvertised>>

\* bt_connect_send_slave_keys, from the slave's kb_handle
SendKeys ==
    /\ Len(queue) < TxBuffers
    /\ queue' = IF link THEN Append(queue, slave_keys) ELSE queue
    /\ missed' = ~ link
    /\ UNCHANGED <<masterVars, incoming_keys, view, fresh, link, peer,
                   subscribed, discovering, leaked, readvertised>>
    /\ Sender!Sends

\* Its early returns, and bt_gatt_notify without a buffer: nothing is sent,
\* and change is cleared all the same.
SendNothing ==
    /\ missed' = TRUE
    /\ UNCHANGED <<masterVars, incoming_keys, view, fresh, link, peer,
                   subscribed, discovering, queue, leaked, readvertised>>
    /\ \/ Sender!SendsNothing
       \/ Len(queue) = TxBuffers /\ Sender!Sends

-----------------------------------------------------------------------------
Closing == \E o \in Conns : MasterDisconnected(o) \/ Recycled(o)
Creating == \E o \in Conns : Connects(o) \/ CreateFails(o)
Host == \E o \in Conns : HostConnects(o) \/ HostDisconnects(o)
Slave == \/ SlaveDisconnected \/ SlaveRecycled
         \/ SendKeys \/ SendNothing
         \/ \E keys \in SUBSET SlaveKeySet : SlavePoll(keys)

Next ==
    \/ DeviceFound \/ Creating \/ Subscribes \/ DiscoveryEnds \/ LinkLost
    \/ Closing \/ Host \/ StartAdvertising
    \/ Deliver \/ MasterPoll \/ Slave

Spec == Init /\ [][Next]_vars

\* The stacks finish what they began and run the callbacks they owe, and a
\* scan finds a slave that advertises.
FairSpec ==
    /\ Spec
    /\ WF_vars(Closing)
    /\ WF_vars(Creating)
    /\ WF_vars(DeviceFound)
    /\ WF_vars(SlaveDisconnected)
    /\ WF_vars(SlaveRecycled)

-----------------------------------------------------------------------------
Disturbed == leaked \/ readvertised

(***************************************************************************)
(* The master never gives its slave up: without a connection to it, it is  *)
(* scanning, or an object of a closed connection is still to be recycled   *)
(* with the flag set that turns its notice into a scan, although host and  *)
(* slave connections share the flag and the notices come without a name.   *)
(* A failed connection and the advertising keystroke break this.           *)
(***************************************************************************)
StillLooking ==
    \/ Disturbed
    \/ ykb_slave_conn # None
    \/ scanning
    \/ slave_was_disconnected /\ \E o \in Conns : conn[o] = "closed"

(***************************************************************************)
(* Nor does it give up on a host: it advertises, or a host is connected,   *)
(* or a closed connection is still to be recycled, whatever the keystroke  *)
(* that advertises and failed connections did to the slave's share.        *)
(***************************************************************************)
StillAdvertising ==
    \E o \in Conns : conn[o] \in {"adv", "host", "closed"}

(***************************************************************************)
(* The bitmap the master works with is the slave's latest one, once no     *)
(* send is due or under way, unless that bitmap was lost: dropped because  *)
(* the link or the subscription was not there, or lost with the link.      *)
(***************************************************************************)
ViewCurrent ==
    ~ missed /\ queue = <<>> /\ ~ change => incoming_keys = slave_keys

(***************************************************************************)
(* After the link is lost the halves are connected again.                  *)
(***************************************************************************)
Reconnects ==
    ykb_slave_conn = None ~> Disturbed \/ \E o \in Conns : conn[o] = "slave"

(***************************************************************************)
(* The link keeps the promises KbHandleMaster is checked against.          *)
(***************************************************************************)
Abs == INSTANCE SlaveLink WITH SlaveBitmaps <- SUBSET SlaveKeySet,
                               slave_conn <- ykb_slave_conn # None

ImplementsSlaveLink == Abs!LinkSpec

-----------------------------------------------------------------------------
(***************************************************************************)
(* "Runs on every slave key just pressed once" (kb_handle_master.c): the   *)
(* press callback runs only for a key that is down on the slave half, or   *)
(* was pressed there since its callback last ran.                          *)
(***************************************************************************)
PressReal == [][view' \ view \subseteq slave_keys \cup fresh]_vars
=============================================================================
