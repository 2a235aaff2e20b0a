------------------------- MODULE InterKbLinkProofs -------------------------
(***************************************************************************)
(* Proofs about InterKbLink, for any number of connection objects from two *)
(* up, any set of slave keys and any number of notification buffers.       *)
(*                                                                         *)
(* Three facts carry them.  LinkInv ties the link to the master's pointer: *)
(* exactly the object being created or connected is the slave's, and only  *)
(* a link carries notifications.  PoolInv counts the other objects that    *)
(* are in use, the open ones: one while the master has its slave or scans  *)
(* for it, two while a closed connection of the slave is to be recycled.   *)
(* So a scan always finds an object left, although the notices that turn   *)
(* two into one do not say which of the two they are about.  And QueueInv: *)
(* the last bitmap under way is the slave's latest one.                    *)
(***************************************************************************)
EXTENDS InterKbLink, InterKbProto, SequenceTheorems, TLAPS

Open == {o \in Conns : conn[o] \in {"adv", "host", "closed"}}

LinkInv ==
    /\ \A o \in Conns : conn[o] \in {"create", "slave"} <=> o = ykb_slave_conn
    /\ link => ykb_slave_conn \in Conns /\ conn[ykb_slave_conn] = "slave"
    /\ queue # <<>> => link
    /\ discovering => link

OneOpen == \E q \in Conns : Open = {q}

TwoOpen == \E q, r \in Conns :
              q # r /\ Open = {q, r} /\ conn[q] = "closed"

PoolInv ==
    /\ leaked \/ \A o \in Conns : conn[o] # "leaked"
    /\ \/ Disturbed
       \/ ykb_slave_conn # None /\ ~ scanning /\ ~ slave_was_disconnected
             /\ OneOpen
       \/ ykb_slave_conn = None /\ scanning /\ ~ slave_was_disconnected
             /\ OneOpen
       \/ ykb_slave_conn = None /\ ~ scanning /\ slave_was_disconnected
             /\ TwoOpen

\* Whatever disturbed the pool.
OpenInv ==
    /\ Open # {}
    /\ slave_was_disconnected => \E q, r \in Open : q # r

QueueInv ==
    ~ missed /\ ~ change =>
        \/ queue = <<>> /\ incoming_keys = slave_keys
        \/ queue # <<>> /\ queue[Len(queue)] = slave_keys

-----------------------------------------------------------------------------
LEMMA InitType == Init => TypeOK
<1> SUFFICES ASSUME Init PROVE TypeOK
  OBVIOUS
<1>1. queue \in Seq(SUBSET SlaveKeySet) /\ Len(queue) <= TxBuffers
  BY LinkConstants DEF Init
<1> QED
  BY <1>1 DEF Init, TypeOK, Uses

LEMMA NextType == TypeOK /\ [Next]_vars => TypeOK'
<1> SUFFICES ASSUME TypeOK, [Next]_vars PROVE TypeOK'
  OBVIOUS
<1> USE DEF TypeOK, Uses
<1>1. CASE DeviceFound
  BY <1>1 DEF DeviceFound, keyVars, peerVars, slaveVars
<1>2. ASSUME NEW o \in Conns, Connects(o) \/ CreateFails(o) PROVE TypeOK'
  BY <1>2 DEF Connects, CreateFails, keyVars, peerVars, slaveVars
<1>3. CASE Subscribes
  BY <1>3 DEF Subscribes, masterVars, keyVars, slaveVars
<1>4. CASE DiscoveryEnds
  BY <1>4 DEF DiscoveryEnds, masterVars, keyVars, slaveVars
<1>5. CASE LinkLost
  <2>1. queue' \in Seq(SUBSET SlaveKeySet) /\ Len(queue') <= TxBuffers
    BY <1>5, LinkConstants DEF LinkLost
  <2> QED
    BY <1>5, <2>1 DEF LinkLost, masterVars, keyVars, slaveVars
<1>6. ASSUME NEW o \in Conns, MasterDisconnected(o) PROVE TypeOK'
  BY <1>6 DEF MasterDisconnected, keyVars, peerVars, slaveVars
<1>7. ASSUME NEW c \in [Conns -> Uses], AdvStart(c)
      PROVE  conn' \in [Conns -> Uses]
  BY <1>7 DEF AdvStart
<1>8. ASSUME NEW o \in Conns, Recycled(o) PROVE TypeOK'
  <2>1. [conn EXCEPT ![o] = "free"] \in [Conns -> Uses]
    OBVIOUS
  <2>2. conn' \in [Conns -> Uses] /\ scanning' \in BOOLEAN
    BY <1>7, <1>8, <2>1 DEF Recycled
  <2> QED
    BY <1>8, <2>2 DEF Recycled, keyVars, peerVars, slaveVars
<1>9. CASE Host
  BY <1>9 DEF Host, HostConnects, HostDisconnects, keyVars, peerVars, slaveVars
<1>10. CASE StartAdvertising
  <2>1. conn' \in [Conns -> Uses]
    BY <1>7, <1>10 DEF StartAdvertising
  <2>2. /\ scanning' \in BOOLEAN
        /\ slave_was_disconnected' \in BOOLEAN
        /\ readvertised' \in BOOLEAN
    BY <1>10 DEF StartAdvertising
  <2> QED
    BY <1>10, <2>1, <2>2 DEF StartAdvertising, keyVars, peerVars, slaveVars
<1>11. CASE Deliver
  <2>1. /\ Head(queue) \in SUBSET SlaveKeySet
        /\ Tail(queue) \in Seq(SUBSET SlaveKeySet)
        /\ Len(Tail(queue)) <= TxBuffers
    BY <1>11, LinkConstants DEF Deliver
  <2> QED
    BY <1>11, <2>1 DEF Deliver, masterVars, slaveVars
<1>12. CASE MasterPoll
  BY <1>12 DEF MasterPoll, masterVars, peerVars, slaveVars
<1>13. CASE SlaveDisconnected
  BY <1>13 DEF SlaveDisconnected, masterVars, keyVars, slaveVars
<1>14. CASE SlaveRecycled
  BY <1>14 DEF SlaveRecycled, masterVars, keyVars, slaveVars
<1>15. ASSUME NEW keys \in SUBSET SlaveKeySet, SlavePoll(keys) PROVE TypeOK'
  BY <1>15 DEF SlavePoll, masterVars, peerVars, Sender!Polls
<1>16. CASE SendKeys
  <2>1. queue' \in Seq(SUBSET SlaveKeySet) /\ Len(queue') <= TxBuffers
    BY <1>16, LinkConstants DEF SendKeys
  <2> QED
    BY <1>16, <2>1 DEF SendKeys, masterVars, Sender!Sends
<1>17. CASE SendNothing
  BY <1>17 DEF SendNothing, masterVars, Sender!Sends, Sender!SendsNothing
<1>18. CASE UNCHANGED vars
  BY <1>18 DEF vars, masterVars, keyVars, peerVars, slaveVars
<1> QED
  BY <1>1, <1>2, <1>3, <1>4, <1>5, <1>6, <1>8, <1>9, <1>10, <1>11, <1>12,
     <1>13, <1>14, <1>15, <1>16, <1>17, <1>18
     DEF Next, Creating, Closing, Slave

(***************************************************************************)
(* The variables of both ends of the link keep their types; no more        *)
(* notifications are under way than the stack has buffers.                 *)
(***************************************************************************)
THEOREM LinkTypeCorrect == Spec => []TypeOK
<1>1. Init => TypeOK
  BY InitType
<1>2. TypeOK /\ [Next]_vars => TypeOK'
  BY NextType
<1> QED
  BY <1>1, <1>2, PTL DEF Spec

-----------------------------------------------------------------------------
(***************************************************************************)
(* bt_le_adv_start touches no object but a free one, which it turns into   *)
(* the advertising one.                                                    *)
(***************************************************************************)
LEMMA AdvStartTakes ==
    ASSUME NEW c \in [Conns -> Uses], AdvStart(c)
    PROVE  \/ conn' = c
           \/ \E o \in Conns : /\ c[o] = "free"
                               /\ \A p \in Conns : c[p] # "adv"
                               /\ conn' = [c EXCEPT ![o] = "adv"]
BY DEF AdvStart

LEMMA InitLink == Init => LinkInv
BY LinkConstants DEF Init, LinkInv

LEMMA NextLink == TypeOK /\ LinkInv /\ [Next]_vars => LinkInv'
<1> SUFFICES ASSUME TypeOK, LinkInv, [Next]_vars PROVE LinkInv'
  OBVIOUS
<1> USE DEF TypeOK, LinkInv
<1>1. CASE DeviceFound
  <2>1. UNCHANGED <<link, queue, discovering>> /\ ~ link
    BY <1>1, LinkConstants DEF DeviceFound, peerVars
  <2>2. ASSUME NEW o \in Conns, conn[o] = "free",
               conn' = [conn EXCEPT ![o] = "create"], ykb_slave_conn' = o
        PROVE  LinkInv'
    BY <1>1, <2>1, <2>2, LinkConstants DEF DeviceFound, Uses
  <2>3. CASE UNCHANGED <<conn, ykb_slave_conn>>
    BY <2>1, <2>3
  <2> QED
    BY <1>1, <2>2, <2>3 DEF DeviceFound
<1>2. ASSUME NEW o \in Conns, CreateFails(o) PROVE LinkInv'
  <2>1. o = ykb_slave_conn /\ ~ link
    BY <1>2 DEF CreateFails
  <2> QED
    BY <1>2, <2>1, LinkConstants DEF CreateFails, peerVars, Uses
<1>3. ASSUME NEW o \in Conns, Connects(o) PROVE LinkInv'
  <2>1. o = ykb_slave_conn
    BY <1>3 DEF Connects
  <2> QED
    BY <1>3, <2>1, LinkConstants DEF Connects, Uses
<1>4. CASE LinkLost
  BY <1>4 DEF LinkLost, masterVars
<1>5. ASSUME NEW o \in Conns, MasterDisconnected(o) PROVE LinkInv'
  <2>1. o = ykb_slave_conn /\ ~ link
    BY <1>5 DEF MasterDisconnected
  <2> QED
    BY <1>5, <2>1, LinkConstants DEF MasterDisconnected, peerVars, Uses
<1>6. ASSUME NEW o \in Conns, HostConnects(o) \/ HostDisconnects(o)
      PROVE  LinkInv'
  BY <1>6 DEF HostConnects, HostDisconnects, peerVars, Uses
<1>7. ASSUME NEW c \in [Conns -> Uses], AdvStart(c),
             \A o \in Conns : \/ c[o] = conn[o]
                              \/ {c[o], conn[o]} \cap {"create", "slave"} = {},
             UNCHANGED <<ykb_slave_conn, peerVars>>
      PROVE  LinkInv'
  <2>1. \A o \in Conns : \/ conn'[o] = conn[o]
                         \/ {conn'[o], conn[o]} \cap {"create", "slave"} = {}
    BY <1>7, AdvStartTakes
  <2> QED
    BY <1>7, <2>1 DEF peerVars
<1>8. ASSUME NEW o \in Conns, Recycled(o) PROVE LinkInv'
  <2>1. UNCHANGED <<ykb_slave_conn, peerVars>>
    BY <1>8 DEF Recycled
  <2> DEFINE c == [conn EXCEPT ![o] = "free"]
  <2>2. /\ c \in [Conns -> Uses]
        /\ \A p \in Conns : \/ c[p] = conn[p]
                            \/ {c[p], conn[p]} \cap {"create", "slave"} = {}
    BY <1>8 DEF Recycled, Uses
  <2>3. CASE slave_was_disconnected
    BY <1>8, <2>1, <2>3 DEF Recycled, peerVars
  <2>4. CASE ~ slave_was_disconnected
    BY <1>7, <1>8, <2>1, <2>2, <2>4 DEF Recycled
  <2> QED
    BY <2>3, <2>4
<1>9. CASE StartAdvertising
  BY <1>7, <1>9 DEF StartAdvertising
<1>10. CASE Deliver
  BY <1>10 DEF Deliver, masterVars
<1>11. CASE SendKeys
  BY <1>11 DEF SendKeys, masterVars
<1>12. CASE UNCHANGED <<conn, ykb_slave_conn, link, queue>>
            /\ (discovering' => discovering)
  BY <1>12
<1> QED
  <2>1. CASE Subscribes \/ DiscoveryEnds \/ MasterPoll \/ SlaveDisconnected
             \/ SlaveRecycled \/ SendNothing
             \/ \E keys \in SUBSET SlaveKeySet : SlavePoll(keys)
             \/ UNCHANGED vars
    BY <1>12, <2>1
       DEF Subscribes, DiscoveryEnds, MasterPoll, SlaveDisconnected,
           SlaveRecycled, SendNothing, SlavePoll, vars, masterVars, peerVars
  <2> QED
    BY <1>1, <1>2, <1>3, <1>4, <1>5, <1>6, <1>8, <1>9, <1>10, <1>11, <2>1
       DEF Next, Creating, Closing, Host, Slave

LEMMA LastOfTail ==
    ASSUME NEW S, NEW q \in Seq(S), q # <<>>, Len(q) # 1
    PROVE  Tail(q) # <<>> /\ Tail(q)[Len(Tail(q))] = q[Len(q)]
<1>1. Len(q) \in Nat \ {0}
  BY EmptySeq
<1>2. Len(q) - 1 \in Nat \ {0}
  BY <1>1
<1>3. /\ Len(Tail(q)) = Len(q) - 1
      /\ \A i \in 1 .. Len(Tail(q)) : Tail(q)[i] = q[i + 1]
  BY HeadTailProperties
<1>4. Tail(q)[Len(q) - 1] = q[(Len(q) - 1) + 1]
  BY <1>2, <1>3
<1>5. Tail(q) # <<>>
  BY <1>2, <1>3, EmptySeq
<1> QED
  BY <1>1, <1>3, <1>4, <1>5

LEMMA InitQueue == Init => QueueInv
BY DEF Init, QueueInv

LEMMA NextQueue == TypeOK /\ QueueInv /\ [Next]_vars => QueueInv'
<1> SUFFICES ASSUME TypeOK, QueueInv, [Next]_vars PROVE QueueInv'
  OBVIOUS
<1> USE DEF TypeOK, QueueInv
<1>1. CASE LinkLost
  BY <1>1 DEF LinkLost, keyVars, slaveVars
<1>2. CASE Deliver
  <2>1. CASE Len(queue) = 1
    <3>1. queue[Len(queue)] = Head(queue) /\ Tail(queue) = <<>>
      BY <1>2, <2>1 DEF Deliver
    <3> QED
      BY <1>2, <3>1 DEF Deliver, slaveVars
  <2>2. CASE Len(queue) # 1
    <3>1. /\ Tail(queue) # <<>>
          /\ Tail(queue)[Len(Tail(queue))] = queue[Len(queue)]
      BY <1>2, <2>2, LastOfTail DEF Deliver
    <3> QED
      BY <1>2, <3>1 DEF Deliver, slaveVars
  <2> QED
    BY <2>1, <2>2
<1>3. ASSUME NEW keys \in SUBSET SlaveKeySet, SlavePoll(keys) PROVE QueueInv'
  BY <1>3 DEF SlavePoll, masterVars, peerVars, Sender!Polls
<1>4. CASE SendKeys
  <2>1. /\ Append(queue, slave_keys) # <<>>
        /\ Append(queue, slave_keys)[Len(Append(queue, slave_keys))] = slave_keys
    BY <1>4 DEF SendKeys
  <2> QED
    BY <1>4, <2>1 DEF SendKeys, Sender!Sends
<1>5. CASE SendNothing
  BY <1>5 DEF SendNothing
<1>6. CASE UNCHANGED <<queue, missed, incoming_keys, slave_keys, change>>
  BY <1>6
<1>7. CASE DeviceFound \/ Creating \/ Subscribes \/ DiscoveryEnds
           \/ Closing \/ Host \/ StartAdvertising \/ MasterPoll
           \/ SlaveDisconnected \/ SlaveRecycled \/ UNCHANGED vars
  BY <1>6, <1>7
     DEF DeviceFound, Creating, Connects, CreateFails, Subscribes,
         DiscoveryEnds, Closing, MasterDisconnected, Recycled, Host,
         HostConnects, HostDisconnects, StartAdvertising, MasterPoll,
         SlaveDisconnected, SlaveRecycled, vars, keyVars, peerVars,
         slaveVars
<1> QED
  BY <1>1, <1>2, <1>3, <1>4, <1>5, <1>7 DEF Next, Slave

(***************************************************************************)
(* Once no send is due or under way and the latest bitmap was not lost,    *)
(* the master's bitmap is the slave's.                                     *)
(***************************************************************************)
THEOREM ViewCurrentHolds == Spec => []ViewCurrent
<1>1. Init => TypeOK /\ QueueInv
  BY InitType, InitQueue
<1>2. TypeOK /\ QueueInv /\ [Next]_vars => TypeOK' /\ QueueInv'
  BY NextType, NextQueue
<1>3. QueueInv => ViewCurrent
  BY DEF QueueInv, ViewCurrent
<1> QED
  BY <1>1, <1>2, <1>3, PTL DEF Spec

(***************************************************************************)
(* InterKbLink implements SlaveLink: a notification is taken only while    *)
(* ykb_slave_conn is set, it is set and reset one at a time, and nothing   *)
(* else touches incoming_keys.                                             *)
(***************************************************************************)
THEOREM LinkImplemented == Spec => ImplementsSlaveLink
<1> USE DEF Abs!linkVars, Abs!LinkInit, Abs!LinkNext, Abs!Notified,
            Abs!ConnCreated, Abs!ConnLost
<1>1. Init => Abs!LinkInit
  BY DEF Init
<1>2. TypeOK /\ LinkInv /\ [Next]_vars => [Abs!LinkNext]_(Abs!linkVars)
  <2> SUFFICES ASSUME TypeOK, LinkInv, Next
               PROVE  Abs!LinkNext \/ UNCHANGED Abs!linkVars
    BY DEF vars, masterVars, keyVars
  <2>1. CASE DeviceFound
    BY <2>1, LinkConstants DEF DeviceFound, keyVars
  <2>2. ASSUME NEW o \in Conns, CreateFails(o) \/ MasterDisconnected(o)
        PROVE  Abs!ConnLost
    BY <2>2, LinkConstants DEF CreateFails, MasterDisconnected, LinkInv, keyVars
  <2>3. CASE Deliver
    <3>1. Head(queue) \in SUBSET SlaveKeySet
      BY <2>3 DEF Deliver, TypeOK
    <3>2. Abs!Notified(Head(queue))
      BY <2>3, LinkConstants DEF Deliver, LinkInv, masterVars
    <3> QED
      BY <3>1, <3>2
  <2>4. CASE \/ Subscribes \/ DiscoveryEnds \/ LinkLost \/ Host
             \/ StartAdvertising \/ MasterPoll \/ Slave
             \/ \E o \in Conns : Connects(o) \/ Recycled(o)
    BY <2>4
       DEF Subscribes, DiscoveryEnds, LinkLost, Host, HostConnects,
           HostDisconnects, StartAdvertising, MasterPoll, Slave,
           SlaveDisconnected, SlaveRecycled, SlavePoll, SendKeys, SendNothing,
           Connects, Recycled, masterVars, keyVars
  <2> QED
    BY <2>1, <2>2, <2>3, <2>4 DEF Next, Creating, Closing
<1>3. Init => LinkInv
  BY InitLink
<1>4. TypeOK /\ LinkInv /\ [Next]_vars => LinkInv'
  BY NextLink
<1> QED
  BY <1>1, <1>2, <1>3, <1>4, LinkTypeCorrect, PTL
     DEF Spec, ImplementsSlaveLink, Abs!LinkSpec

-----------------------------------------------------------------------------
\* Steps that leave the master's side alone.
Aside == UNCHANGED <<masterVars, leaked, readvertised>>

LEMMA AsideSteps ==
    ASSUME Next
    PROVE  \/ DeviceFound \/ StartAdvertising \/ Aside
           \/ \E o \in Conns : \/ Connects(o) \/ CreateFails(o)
                               \/ MasterDisconnected(o) \/ Recycled(o)
                               \/ HostConnects(o) \/ HostDisconnects(o)
BY DEF Next, Creating, Closing, Host, Slave, Aside, Subscribes, DiscoveryEnds,
       LinkLost, Deliver, MasterPoll, SlaveDisconnected, SlaveRecycled,
       SlavePoll, SendKeys, SendNothing

LEMMA InitPool == Init => PoolInv /\ OpenInv
<1> SUFFICES ASSUME Init PROVE PoolInv /\ OpenInv
  OBVIOUS
<1>1. PICK o \in Conns :
         conn = [p \in Conns |-> IF p = o THEN "adv" ELSE "free"]
  BY DEF Init
<1>2. Open = {o}
  BY <1>1 DEF Open
<1> QED
  BY <1>1, <1>2 DEF Init, PoolInv, OpenInv, OneOpen

(***************************************************************************)
(* What becomes of the open objects when one of them is recycled without   *)
(* the flag: it, or another free object, advertises, unless one does.      *)
(***************************************************************************)
LEMMA RecycledOpen ==
    ASSUME TypeOK, NEW o \in Conns, Recycled(o), ~ slave_was_disconnected
    PROVE  /\ Open' # {}
           /\ Open = {o} => \E q \in Conns : Open' = {q}
           /\ \A p \in Conns : conn[p] # "leaked" => conn'[p] # "leaked"
<1> DEFINE c == [conn EXCEPT ![o] = "free"]
<1>1. c \in [Conns -> Uses] /\ AdvStart(c) /\ c[o] = "free"
  BY DEF Recycled, TypeOK, Uses
<1> HIDE DEF c
<1>2. \/ conn' = c /\ \E p \in Conns : c[p] = "adv"
      \/ \E p \in Conns : c[p] = "free" /\ conn' = [c EXCEPT ![p] = "adv"]
  BY <1>1 DEF AdvStart
<1>3. \A p \in Conns : p # o => c[p] = conn[p]
  BY DEF c, TypeOK
<1>4. CASE conn' = c /\ \E p \in Conns : c[p] = "adv"
  BY <1>1, <1>3, <1>4 DEF Open
<1>5. ASSUME NEW p \in Conns, c[p] = "free", conn' = [c EXCEPT ![p] = "adv"]
      PROVE  /\ Open' # {}
             /\ Open = {o} => Open' = {p}
             /\ \A q \in Conns : conn[q] # "leaked" => conn'[q] # "leaked"
  BY <1>1, <1>3, <1>5 DEF Open
<1> QED
  BY <1>2, <1>4, <1>5

LEMMA NextPool ==
    TypeOK /\ LinkInv /\ PoolInv /\ [Next]_vars => PoolInv'
<1> SUFFICES ASSUME TypeOK, LinkInv, PoolInv, [Next]_vars PROVE PoolInv'
  OBVIOUS
<1>1. CASE Disturbed'
  <2>1. leaked' \/ \A o \in Conns : conn'[o] # "leaked"
    <3>1. CASE StartAdvertising
      BY <3>1, AdvStartTakes DEF StartAdvertising, PoolInv, TypeOK
    <3>2. ASSUME NEW o \in Conns, Recycled(o)
          PROVE  leaked' \/ \A p \in Conns : conn'[p] # "leaked"
      <4>1. CASE slave_was_disconnected
        BY <3>2, <4>1 DEF Recycled, PoolInv, TypeOK
      <4>2. CASE ~ slave_was_disconnected
        BY <3>2, <4>2, RecycledOpen DEF PoolInv, Recycled
      <4> QED
        BY <4>1, <4>2
    <3> QED
      BY <3>1, <3>2, AsideSteps
         DEF DeviceFound, Connects, CreateFails, MasterDisconnected,
             HostConnects, HostDisconnects, Aside, masterVars, vars, PoolInv,
             TypeOK
  <2> QED
    BY <1>1, <2>1 DEF PoolInv
<1>2. CASE ~ Disturbed'
  <2>1. ~ Disturbed /\ ~ leaked /\ ~ readvertised' /\ ~ leaked'
    BY <1>2, AsideSteps
       DEF Disturbed, DeviceFound, StartAdvertising, Connects, CreateFails,
           MasterDisconnected, Recycled, HostConnects, HostDisconnects, Aside,
           vars, TypeOK
  <2>2. CASE DeviceFound
    <3>1. ykb_slave_conn = None /\ scanning /\ ~ slave_was_disconnected
      BY <2>1, <2>2 DEF DeviceFound, PoolInv
    <3>2. PICK q \in Conns : Open = {q}
      BY <2>1, <3>1 DEF PoolInv, OneOpen
    <3>3. \E o \in Conns : conn[o] = "free"
      <4>1. PICK o \in Conns : o # q
        BY LinkConstants
      <4>2. conn[o] \notin {"create", "slave"}
        BY <3>1, LinkConstants DEF LinkInv
      <4>3. conn[o] \notin {"adv", "host", "closed", "leaked"}
        BY <2>1, <3>2, <4>1 DEF Open, PoolInv
      <4> QED
        BY <4>2, <4>3 DEF TypeOK, Uses
    <3>4. PICK o \in Conns : /\ conn[o] = "free"
                             /\ conn' = [conn EXCEPT ![o] = "create"]
                             /\ ykb_slave_conn' = o
      BY <2>2, <3>3 DEF DeviceFound
    <3>5. Open' = Open
      BY <3>4 DEF Open, TypeOK
    <3>6. \A p \in Conns : conn'[p] # "leaked"
      BY <2>1, <3>4 DEF PoolInv, TypeOK
    <3>7. ykb_slave_conn' # None
      BY <3>4, LinkConstants
    <3> QED
      BY <2>2, <3>1, <3>2, <3>5, <3>6, <3>7 DEF DeviceFound, PoolInv, OneOpen
  <2>3. ASSUME NEW o \in Conns, Connects(o) PROVE PoolInv'
    <3>1. Open' = Open
      BY <2>3 DEF Connects, Open, TypeOK
    <3>2. ykb_slave_conn # None
      BY <2>3, LinkConstants DEF Connects, LinkInv
    <3>3. \A p \in Conns : conn'[p] # "leaked"
      BY <2>1, <2>3 DEF Connects, PoolInv, TypeOK
    <3> QED
      BY <2>1, <2>3, <3>1, <3>2, <3>3 DEF Connects, PoolInv, OneOpen
  <2>4. ASSUME NEW o \in Conns, MasterDisconnected(o) PROVE PoolInv'
    <3>1. ykb_slave_conn = o /\ o # None
      BY <2>4, LinkConstants DEF MasterDisconnected, LinkInv
    <3>2. PICK q \in Conns : Open = {q}
      BY <2>1, <3>1 DEF PoolInv, OneOpen
    <3>3. o # q /\ Open' = {o, q} /\ conn'[o] = "closed"
      BY <2>4, <3>2 DEF MasterDisconnected, Open, TypeOK
    <3>4. TwoOpen'
      BY <3>3 DEF TwoOpen
    <3>5. \A p \in Conns : conn'[p] # "leaked"
      BY <2>1, <2>4 DEF MasterDisconnected, PoolInv, TypeOK
    <3>6. ~ scanning
      BY <2>1, <3>1 DEF PoolInv
    <3> QED
      BY <2>4, <3>4, <3>5, <3>6 DEF MasterDisconnected, PoolInv
  <2>5. ASSUME NEW o \in Conns, HostConnects(o) \/ HostDisconnects(o)
        PROVE  PoolInv'
    <3>1. Open' = Open
      BY <2>5 DEF HostConnects, HostDisconnects, Open, TypeOK
    <3>2. TwoOpen => TwoOpen'
      BY <2>5, <3>1 DEF HostConnects, HostDisconnects, TwoOpen, TypeOK
    <3>3. \A p \in Conns : conn'[p] # "leaked"
      BY <2>1, <2>5 DEF HostConnects, HostDisconnects, PoolInv, TypeOK
    <3> QED
      BY <2>1, <2>5, <3>1, <3>2, <3>3
         DEF HostConnects, HostDisconnects, PoolInv, OneOpen
  <2>6. ASSUME NEW o \in Conns, Recycled(o) PROVE PoolInv'
    <3>1. CASE slave_was_disconnected
      <4>1. ykb_slave_conn = None /\ TwoOpen
        BY <2>1, <3>1 DEF PoolInv
      <4>2. Open' = Open \ {o} /\ o \in Open
        BY <2>6, <3>1 DEF Recycled, Open, TypeOK
      <4>3. OneOpen'
        BY <4>1, <4>2 DEF TwoOpen, OneOpen
      <4>4. \A p \in Conns : conn'[p] # "leaked"
        BY <2>1, <2>6, <3>1 DEF Recycled, PoolInv, TypeOK
      <4> QED
        BY <2>6, <3>1, <4>1, <4>3, <4>4 DEF Recycled, PoolInv
    <3>2. CASE ~ slave_was_disconnected
      <4>1. OneOpen
        BY <2>1, <3>2 DEF PoolInv
      <4>2. Open = {o}
        BY <2>6, <4>1 DEF OneOpen, Open, Recycled
      <4>3. OneOpen' /\ \A p \in Conns : conn'[p] # "leaked"
        BY <2>1, <2>6, <3>2, <4>2, RecycledOpen DEF OneOpen, PoolInv
      <4> QED
        BY <2>1, <2>6, <3>2, <4>3 DEF Recycled, PoolInv
    <3> QED
      BY <3>1, <3>2
  <2>7. CASE StartAdvertising
    <3>1. UNCHANGED masterVars
      BY <2>1, <2>7 DEF StartAdvertising, TypeOK, masterVars
    <3> QED
      BY <2>1, <3>1 DEF masterVars, PoolInv, OneOpen, TwoOpen, Open
  <2>8. CASE Aside \/ UNCHANGED vars
    BY <2>1, <2>8 DEF Aside, vars, masterVars, PoolInv, OneOpen, TwoOpen, Open
  <2>9. ASSUME NEW o \in Conns, CreateFails(o) PROVE FALSE
    BY <2>1, <2>9 DEF CreateFails
  <2> QED
    BY <2>2, <2>3, <2>4, <2>5, <2>6, <2>7, <2>8, <2>9, AsideSteps
<1> QED
  BY <1>1, <1>2

LEMMA NextOpen == TypeOK /\ OpenInv /\ [Next]_vars => OpenInv'
<1> SUFFICES ASSUME TypeOK, OpenInv, [Next]_vars PROVE OpenInv'
  OBVIOUS
<1>1. ASSUME NEW o \in Conns, Recycled(o) PROVE OpenInv'
  <2>1. CASE slave_was_disconnected
    <3>1. Open' = Open \ {o}
      BY <1>1, <2>1 DEF Recycled, Open, TypeOK
    <3> QED
      BY <1>1, <2>1, <3>1 DEF Recycled, OpenInv
  <2>2. CASE ~ slave_was_disconnected
    BY <1>1, <2>2, RecycledOpen DEF Recycled, OpenInv
  <2> QED
    BY <2>1, <2>2
<1>2. ASSUME NEW o \in Conns, MasterDisconnected(o) PROVE OpenInv'
  <2>1. Open' = Open \cup {o} /\ o \notin Open
    BY <1>2 DEF MasterDisconnected, Open, TypeOK
  <2> QED
    BY <2>1 DEF OpenInv
<1>3. CASE StartAdvertising
  <2>1. Open \subseteq Open'
    BY <1>3, AdvStartTakes DEF StartAdvertising, Open, TypeOK
  <2>2. slave_was_disconnected' => slave_was_disconnected
    BY <1>3 DEF StartAdvertising
  <2> QED
    BY <2>1, <2>2 DEF OpenInv
<1>4. CASE UNCHANGED vars \/ Aside \/ DeviceFound
           \/ \E o \in Conns : \/ Connects(o) \/ CreateFails(o)
                               \/ HostConnects(o) \/ HostDisconnects(o)
  <2>1. Open' = Open
    BY <1>4 DEF vars, Aside, masterVars, DeviceFound, Connects, CreateFails,
                HostConnects, HostDisconnects, Open, TypeOK
  <2>2. UNCHANGED slave_was_disconnected
    BY <1>4 DEF vars, Aside, masterVars, DeviceFound, Connects, CreateFails,
                HostConnects, HostDisconnects
  <2> QED
    BY <2>1, <2>2 DEF OpenInv
<1> QED
  BY <1>1, <1>2, <1>3, <1>4, AsideSteps

(***************************************************************************)
(* Undisturbed, the master without a connection to its slave is scanning,  *)
(* or going to when a closed connection is recycled.                       *)
(***************************************************************************)
THEOREM StillLookingHolds == Spec => []StillLooking
<1>1. Init => TypeOK /\ LinkInv /\ PoolInv
  BY InitType, InitLink, InitPool
<1>2. TypeOK /\ LinkInv /\ PoolInv /\ [Next]_vars
         => TypeOK' /\ LinkInv' /\ PoolInv'
  BY NextType, NextLink, NextPool
<1>3. PoolInv => StillLooking
  BY DEF PoolInv, TwoOpen, StillLooking
<1> QED
  BY <1>1, <1>2, <1>3, PTL DEF Spec

(***************************************************************************)
(* Some object always advertises, serves a host, or is about to be         *)
(* recycled.                                                               *)
(***************************************************************************)
THEOREM StillAdvertisingHolds == Spec => []StillAdvertising
<1>1. Init => TypeOK /\ OpenInv
  BY InitType, InitPool
<1>2. TypeOK /\ OpenInv /\ [Next]_vars => TypeOK' /\ OpenInv'
  BY NextType, NextOpen
<1>3. OpenInv => StillAdvertising
  BY DEF OpenInv, StillAdvertising, Open
<1> QED
  BY <1>1, <1>2, <1>3, PTL DEF Spec

-----------------------------------------------------------------------------
(***************************************************************************)
(* Every payload that inter_kb_proto_new accepts comes out of              *)
(* inter_kb_proto_parse unchanged, with its type and length.               *)
(***************************************************************************)
THEOREM PacketsArrive ==
    \A t \in DataTypes, data \in Seq(Byte) : RoundTrip(t, data)
<1> SUFFICES ASSUME NEW t \in DataTypes, NEW data \in Seq(Byte),
                    New(t, data).res > 0
             PROVE  Parse(New(t, data).packet) =
                       [res |-> Len(data), data_type |-> t, data |-> data]
  BY DEF RoundTrip
<1> DEFINE packet == <<Version1, t>> \o data
<1>1. t \in Int /\ t \in Byte /\ Version1 \in Byte /\ Len(data) \in Nat
  BY DEF DataTypes, KeysType, KbSettingsType, BlStateType, Byte, Version1
<1>2. Len(data) <= MaxLen /\ Len(data) # 0
  BY <1>1 DEF New, MaxLen
<1>3. New(t, data).packet = packet
  BY <1>1, <1>2 DEF New, MaxLen
<1>4. /\ packet \in Seq(Byte)
      /\ Len(packet) = Len(data) + 2
      /\ packet[1] = Version1 /\ packet[2] = t
      /\ \A i \in 1..Len(data) : packet[i + 2] = data[i]
  <2>1. <<Version1, t>> \in Seq(Byte) /\ Len(<<Version1, t>>) = 2
    BY <1>1
  <2> QED
    BY <2>1, <1>1
<1>5. SubSeq(packet, 3, Len(packet)) = data
  <2> DEFINE tail == SubSeq(packet, 3, Len(packet))
  <2>1. tail \in Seq(Byte) /\ Len(tail) = Len(data)
    BY <1>1, <1>2, <1>4, SubSeqProperties DEF MaxLen
  <2>2. \A i \in 1..Len(data) : tail[i] = data[i]
    BY <1>1, <1>2, <1>4, SubSeqProperties DEF MaxLen
  <2> QED
    BY <2>1, <2>2, SeqEqual
<1>6. Parse(packet) = [res |-> Len(packet) - 2, data_type |-> packet[2],
                       data |-> SubSeq(packet, 3, Len(packet))]
  BY <1>1, <1>2, <1>4 DEF Parse, MaxLen, Version1
<1> QED
  BY SMTT(20), <1>1, <1>3, <1>4, <1>5, <1>6

(***************************************************************************)
(* Every bitmap of up to 80 keys fits a packet, and no image of the        *)
(* settings of two keys or more does, so kb_settings never reaches the     *)
(* slave (bt_connect_send_master_kb_settings).                             *)
(***************************************************************************)
THEOREM WhatFits == \A key_count \in Nat : FitsAsUsed(key_count)
BY DEF FitsAsUsed, BitmapLen, SettingsImageLeast, MaxLen
=============================================================================
