-------------------------- MODULE HostReportsProofs --------------------------
(***************************************************************************)
(* Proofs about HostReports, for any set of keys, any builds and any       *)
(* number of notifications under way.  NoStuckKeys needs only that the     *)
(* report on the thread's stack is the table it was built from, which the  *)
(* same thread alone changes.                                              *)
(***************************************************************************)
EXTENDS HostReports, SequenceTheorems, TLAPS

InHand == pc \in {"choose", "bt", "wakeup", "submit", "blocked"}
             => report = pressed_keys

\* The steps of the two hosts, and the thread's, one by one
LEMMA NextType ==
    ASSUME TypeOK, [Next]_reportsVars
    PROVE  TypeOK'
<1> USE DEF TypeOK, threadVars, btVars, usbVars
<1>1. CASE \E down \in SUBSET Keys : HandleEdges(down)
  BY <1>1 DEF HandleEdges
<1>2. CASE BuildReport
  <2>1. build.order \in Seq(Hosts) /\ Len(build.order) \in Nat
    BY ReportsConstants
  <2> QED
    BY <1>2, <2>1 DEF BuildReport
<1>3. CASE ReadFlag
  <2>1. /\ Tail(rest) \in Seq(Hosts) /\ Len(Tail(rest)) <= Len(build.order)
        /\ pc' \in {"choose", "bt", "wakeup"}
    <3>1. /\ Tail(rest) \in Seq(Hosts) /\ Len(Tail(rest)) = Len(rest) - 1
      BY <1>3, HeadTailProperties DEF ReadFlag
    <3>2. Len(rest) \in Nat /\ build.order \in Seq(Hosts)
      BY ReportsConstants
    <3>3. Len(build.order) \in Nat
      BY <3>2
    <3> QED
      BY <1>3, <3>1, <3>2, <3>3 DEF ReadFlag
  <2> QED
    BY <1>3, <2>1 DEF ReadFlag
<1>4. CASE NoHost
  BY <1>4 DEF NoHost, Hosts
<1>5. CASE Notify
  <2>0. /\ Append(notified, report) \in Seq(SUBSET Keys)
        /\ Len(Append(notified, report)) = Len(notified) + 1
    BY AppendProperties
  <2>1. /\ notified' \in Seq(SUBSET Keys) /\ Len(notified') <= NotifyMax
        /\ sent' \in Hosts \cup {"none"}
    <3>1. CASE CanNotify
      <4>1. notified' = Append(notified, report) /\ sent' = "bt"
        BY <1>5, <3>1 DEF Notify
      <4>2. Len(notified) + 1 <= NotifyMax
        BY <3>1, ReportsConstants DEF CanNotify
      <4> QED
        BY <2>0, <4>1, <4>2 DEF Hosts
    <3>2. CASE ~ CanNotify
      BY <1>5, <3>2 DEF Notify
    <3> QED
      BY <3>1, <3>2
  <2> QED
    BY <1>5, <2>1 DEF Notify
<1>6. CASE WakeUp \/ Submit
  BY <1>6 DEF WakeUp, Submit, Hosts
<1>7. CASE Subscribe \/ Unsubscribe \/ InputCccChanged
  BY <1>7 DEF Subscribe, Unsubscribe, InputCccChanged
<1>8. CASE LoseHost
  <2>1. <<>> \in Seq(SUBSET Keys) /\ Len(<<>>) <= NotifyMax
    BY ReportsConstants
  <2>2. shown' \in [Hosts -> SUBSET Keys] /\ sent' \in Hosts \cup {"none"}
    BY <1>8 DEF LoseHost, Forgets
  <2> QED
    BY <1>8, <2>1, <2>2 DEF LoseHost
<1>9. CASE Deliver
  <2>1. /\ Head(notified) \in SUBSET Keys /\ Tail(notified) \in Seq(SUBSET Keys)
        /\ Len(Tail(notified)) = Len(notified) - 1
    BY <1>9, HeadTailProperties DEF Deliver
  <2>2. Len(Tail(notified)) <= NotifyMax
    BY <2>1, ReportsConstants
  <2>3. shown' \in [Hosts -> SUBSET Keys]
    BY <1>9, <2>1 DEF Deliver
  <2> QED
    BY <1>9, <2>1, <2>2, <2>3 DEF Deliver
<1>10. CASE Configure \/ VbusRemoved
  BY <1>10 DEF Configure, VbusRemoved, Cancelled, Hosts
<1>11. CASE Unplug
  <2>1. shown' \in [Hosts -> SUBSET Keys] /\ sent' \in Hosts \cup {"none"}
    BY <1>11 DEF Unplug, Forgets
  <2> QED
    BY <1>11, <2>1 DEF Unplug
<1>12. CASE Suspend \/ Resume
  BY <1>12 DEF Suspend, Resume
<1>13. CASE HostPolls
  <2>1. shown' \in [Hosts -> SUBSET Keys]
    BY <1>13 DEF HostPolls
  <2> QED
    BY <1>13, <2>1 DEF HostPolls, Hosts
<1>14. CASE UNCHANGED reportsVars
  BY <1>14 DEF reportsVars
<1> QED
  BY <1>1, <1>2, <1>3, <1>4, <1>5, <1>6, <1>7, <1>8, <1>9, <1>10, <1>11, <1>12,
     <1>13, <1>14 DEF Next, KbHandle, BtHost, UsbHost

(***************************************************************************)
(* The flags, the queue of notifications and what hosts show are of their  *)
(* types; the queue stays within the stack's buffers.                      *)
(***************************************************************************)
THEOREM ReportsTypeCorrect == Spec => []TypeOK
<1>1. Init => TypeOK
  <2>1. <<>> \in Seq(SUBSET Keys) /\ <<>> \in Seq(Hosts) /\ Len(<<>>) = 0
    OBVIOUS
  <2>2. \A b \in Builds : 0 <= Len(b.order)
    <3>1. \A o \in Seq(Hosts) : 0 <= Len(o)
      OBVIOUS
    <3> QED
      BY <3>1, ReportsConstants
  <2>3. 0 <= NotifyMax
    BY ReportsConstants
  <2>4. [h \in Hosts |-> {}] \in [Hosts -> SUBSET Keys]
    OBVIOUS
  <2> QED
    BY <2>1, <2>2, <2>3, <2>4 DEF Init, TypeOK
<1> QED
  BY <1>1, NextType, PTL DEF Spec

-----------------------------------------------------------------------------
IInv == TypeOK /\ InHand /\ NoStuckKeys

\* What a host was told is not changed by delivering it.
LEMMA DeliverTells ==
    ASSUME TypeOK, Deliver, NEW h \in Hosts
    PROVE  Told(h)' = Told(h)
<1>1. notified \in Seq(SUBSET Keys) /\ notified # <<>>
  BY DEF TypeOK, Deliver
<1>2. CASE h = "usb"
  BY <1>2 DEF Deliver, Told, TypeOK, Hosts
<1>3. CASE h = "bt" /\ Len(notified) = 1
  <2>1. Tail(notified) = <<>> /\ Head(notified) = Last(notified)
    <3>1. Tail(notified) \in Seq(SUBSET Keys) /\ Len(Tail(notified)) = 0
      BY <1>1, <1>3, HeadTailProperties
    <3>2. Tail(notified) = <<>>
      BY <3>1, EmptySeq
    <3>3. Head(notified) = notified[1]
      BY <1>1
    <3> QED
      BY <1>3, <3>2, <3>3 DEF Last
  <2> QED
    BY <1>1, <1>3, <2>1 DEF Deliver, Told, TypeOK, Hosts
<1>4. CASE h = "bt" /\ Len(notified) # 1
  <2>1. Len(Tail(notified)) = Len(notified) - 1 /\ Tail(notified) \in Seq(SUBSET Keys)
    BY <1>1, HeadTailProperties
  <2>2. Len(notified) \in Nat /\ Len(notified) > 1
    <3>1. Len(notified) \in Nat \ {0}
      <4>1. \A q \in Seq(SUBSET Keys) : q # <<>> => Len(q) \in Nat \ {0}
        BY EmptySeq
      <4> QED
        BY <1>1, <4>1
    <3>2. \A n \in Nat \ {0} : n # 1 => n \in Nat /\ n > 1
      OBVIOUS
    <3> QED
      BY <1>4, <3>1, <3>2
  <2>3. Tail(notified)[Len(notified) - 1] = notified[Len(notified)]
    BY <1>1, <2>1, <2>2, HeadTailProperties
  <2>4. Tail(notified) # <<>>
    <3>1. Len(Tail(notified)) # 0
      BY SMTT(20), <2>1, <2>2
    <3>2. Len(<<>>) = 0
      OBVIOUS
    <3> QED
      BY <3>1, <3>2
  <2> QED
    BY <1>1, <1>4, <2>1, <2>3, <2>4 DEF Deliver, Told, Last
<1> QED
  BY <1>2, <1>3, <1>4 DEF Hosts

LEMMA NextStuck ==
    ASSUME IInv, [Next]_reportsVars
    PROVE  InHand' /\ NoStuckKeys'
<1> USE DEF IInv, TypeOK, threadVars, btVars, usbVars
<1>1. CASE \/ \E down \in SUBSET Keys : HandleEdges(down)
           \/ BuildReport \/ ReadFlag \/ NoHost \/ WakeUp \/ Submit
  <2>1. pc' = "idle" => sent' = "none"
    BY <1>1 DEF HandleEdges, BuildReport, ReadFlag, NoHost, WakeUp, Submit
  <2>2. InHand'
    BY <1>1 DEF HandleEdges, BuildReport, ReadFlag, NoHost, WakeUp, Submit, InHand
  <2> QED
    BY <2>1, <2>2 DEF NoStuckKeys
<1>2. CASE Notify
  <2>1. pc' = "idle" /\ report = pressed_keys /\ pressed_keys' = pressed_keys
    BY <1>2 DEF Notify, InHand
  <2>2. CASE CanNotify
    <3>1. /\ notified' = Append(notified, report) /\ sent' = "bt"
      BY <1>2, <2>2 DEF Notify
    <3>2. notified' # <<>> /\ Last(notified') = report
      BY <3>1, AppendProperties DEF Last
    <3> QED
      BY <2>1, <3>1, <3>2 DEF Told, NoStuckKeys, InHand
  <2>3. CASE ~ CanNotify
    BY <1>2, <2>1, <2>3 DEF Notify, NoStuckKeys, InHand
  <2> QED
    BY <2>2, <2>3
<1>3. CASE Subscribe \/ Unsubscribe \/ InputCccChanged \/ Suspend \/ Resume
  BY <1>3 DEF Subscribe, Unsubscribe, InputCccChanged, Suspend, Resume, InHand,
              NoStuckKeys, Told
<1>4. CASE LoseHost
  BY <1>4 DEF LoseHost, Forgets, InHand, NoStuckKeys, Told, Hosts
<1>5. CASE Unplug
  BY <1>5 DEF Unplug, Forgets, InHand, NoStuckKeys, Told, Hosts
<1>6. CASE Deliver
  <2>1. /\ pc' = pc /\ sent' = sent /\ pressed_keys' = pressed_keys
        /\ report' = report
    BY <1>6 DEF Deliver
  <2> QED
    BY <1>6, <2>1, DeliverTells DEF InHand, NoStuckKeys
<1>7. CASE Configure \/ VbusRemoved
  BY <1>7 DEF Configure, VbusRemoved, Cancelled, InHand, NoStuckKeys, Told
<1>8. CASE HostPolls
  <2>1. report = pressed_keys /\ shown'["usb"] = report /\ sent' = "usb"
    BY <1>8 DEF HostPolls, InHand, Hosts
  <2> QED
    BY <1>8, <2>1 DEF HostPolls, InHand, NoStuckKeys, Told
<1>9. CASE UNCHANGED reportsVars
  BY <1>9 DEF reportsVars, InHand, NoStuckKeys, Told
<1> QED
  BY <1>1, <1>2, <1>3, <1>4, <1>5, <1>6, <1>7, <1>8, <1>9
  DEF Next, KbHandle, BtHost, UsbHost

(***************************************************************************)
(* After a report, the host that took it has been told exactly the keys    *)
(* that are down.                                                          *)
(***************************************************************************)
THEOREM NoKeysStuck == Spec => []NoStuckKeys
<1>1. Init => InHand /\ NoStuckKeys
  BY DEF Init, InHand, NoStuckKeys
<1>2. IInv /\ [Next]_reportsVars => InHand' /\ NoStuckKeys'
  BY NextStuck
<1> QED
  BY <1>1, <1>2, ReportsTypeCorrect, PTL DEF Spec, IInv
=============================================================================
