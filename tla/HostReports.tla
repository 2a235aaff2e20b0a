---------------------------- MODULE HostReports ----------------------------
(***************************************************************************)
(* How reports reach the computers: handle_hid_report of                   *)
(* kb_handle_common.c at the end of every kb_handle, bt_connect_send and   *)
(* usb_connect.c, the callbacks that set the two readiness flags between   *)
(* any two steps of the keyboard thread, and the two hosts, which see only *)
(* the reports that arrive.  A report is the set of keys in the table (six *)
(* or fewer here; KbHandleMaster has the truncation).                      *)
(***************************************************************************)
EXTENDS FiniteSets, Sequences, SequencesExt

CONSTANTS Keys,
          Builds,      \* records [order, vbus, wakeup]: the hosts in order of
                       \* preference, whether the controller detects VBUS,
                       \* and CONFIG_YKB_USBD_REMOTE_WAKEUP
          NotifyMax    \* notifications the Bluetooth stack can hold

Hosts == {"bt", "usb"}

ASSUME ReportsConstants ==
    /\ NotifyMax \in Nat \ {0}
    /\ \A b \in Builds : b.order \in Seq(Hosts) /\ b.order # <<>>
                         /\ b.vbus \in BOOLEAN /\ b.wakeup \in BOOLEAN

VARIABLES
    build,
    pressed_keys,   \* the keys in the table of pressed keys
    pc, rest,       \* the thread, and the hosts whose flag it still may read
    report,         \* the report on its stack, and in the USB endpoint
    sent,           \* the host that took the last report, "none" if no one did
    subscribed,     \* the Bluetooth host has written its CCC
    bt_kb_ready,    \* the flag of bt_connect.c
    notified,       \* notifications handed to the stack, oldest first
    bus,            \* the USB bus, as the cable and the host leave it
    asked,          \* remote wake-up requested
    kb_ready,       \* the flag of usb_connect.c
    shown           \* the keys each host shows as down

threadVars == <<pressed_keys, pc, rest, report>>
btVars == <<subscribed, bt_kb_ready, notified>>
usbVars == <<bus, asked, kb_ready>>
reportsVars == <<build, threadVars, sent, btVars, usbVars, shown>>

TypeOK ==
    /\ build \in Builds
    /\ pressed_keys \subseteq Keys
    /\ pc \in {"idle", "build", "choose", "bt", "wakeup", "submit", "blocked"}
    /\ rest \in Seq(Hosts) /\ Len(rest) <= Len(build.order)
    /\ report \subseteq Keys
    /\ sent \in Hosts \cup {"none"}
    /\ subscribed \in BOOLEAN /\ bt_kb_ready \in BOOLEAN
    /\ notified \in Seq(SUBSET Keys) /\ Len(notified) <= NotifyMax
    /\ bus \in {"off", "on", "suspended"}
    /\ asked \in BOOLEAN /\ kb_ready \in BOOLEAN
    /\ shown \in [Hosts -> SUBSET Keys]

Init ==
    /\ build \in Builds
    /\ pressed_keys = {} /\ pc = "idle" /\ rest = <<>> /\ report = {}
    /\ sent = "none"
    /\ subscribed = FALSE /\ bt_kb_ready = FALSE /\ notified = <<>>
    /\ bus = "off" /\ asked = FALSE /\ kb_ready = FALSE
    /\ shown = [h \in Hosts |-> {}]

-----------------------------------------------------------------------------
(***************************************************************************)
(* The keyboard thread.                                                    *)
(***************************************************************************)

\* The edges of a poll leave the table as they like, and handle_hid_report
\* is called whether it changed or not.
HandleEdges(down) ==
    /\ pc = "idle"
    /\ pressed_keys' = down
    /\ pc' = "build"
    /\ UNCHANGED <<build, rest, report, sent, btVars, usbVars, shown>>

\* Mutant: a report is sent only when it differs from the one before.
BuildReportIfChanged ==
    /\ pc = "build"
    /\ report' = pressed_keys
    /\ rest' = build.order
    /\ pc' = IF report = pressed_keys THEN "idle" ELSE "choose"
    /\ UNCHANGED <<build, pressed_keys, sent, btVars, usbVars, shown>>

\* Mutant: a static report that is not cleared.
BuildReportOver ==
    /\ pc = "build"
    /\ report' = report \cup pressed_keys
    /\ rest' = build.order
    /\ pc' = "choose"
    /\ UNCHANGED <<build, pressed_keys, sent, btVars, usbVars, shown>>

\* The report starts from zeroes on every call.
BuildReport ==
    /\ pc = "build"
    /\ report' = pressed_keys
    /\ rest' = build.order
    /\ pc' = "choose"
    /\ UNCHANGED <<build, pressed_keys, sent, btVars, usbVars, shown>>

Ready(h) == IF h = "bt" THEN bt_kb_ready ELSE kb_ready

\* bt_connect_is_ready and usb_connect_is_ready, one after the other.
ReadFlag ==
    /\ pc = "choose"
    /\ rest # <<>>
    /\ rest' = Tail(rest)
    /\ pc' = CASE ~ Ready(Head(rest)) -> "choose"
               [] Head(rest) = "bt"   -> "bt"
               [] OTHER               -> "wakeup"
    /\ UNCHANGED <<build, pressed_keys, report, sent, btVars, usbVars, shown>>

NoHost ==
    /\ pc = "choose"
    /\ rest = <<>>
    /\ pc' = "idle"
    /\ sent' = "none"
    /\ UNCHANGED <<build, pressed_keys, rest, report, btVars, usbVars, shown>>

\* Mutant: nothing bounds what is handed to the stack.
CanNotifyAlways == subscribed

\* The stack has a buffer, and a host that wants the report.
CanNotify == subscribed /\ Len(notified) < NotifyMax

\* bt_connect_send: what bt_gatt_notify returns is not looked at.
Notify ==
    /\ pc = "bt"
    /\ pc' = "idle"
    /\ IF CanNotify THEN notified' = Append(notified, report) /\ sent' = "bt"
                    ELSE UNCHANGED notified /\ sent' = "none"
    /\ UNCHANGED <<build, pressed_keys, rest, report, subscribed, bt_kb_ready,
                   usbVars, shown>>

\* Mutant: the wake-up is asked of a bus that is awake.
WakeUpAwake ==
    /\ pc = "wakeup"
    /\ pc' = "submit"
    /\ asked' = (asked \/ (build.wakeup /\ bus = "on"))
    /\ UNCHANGED <<build, pressed_keys, rest, report, sent, btVars, bus,
                   kb_ready, shown>>

\* usb_connect_handle_wakeup
WakeUp ==
    /\ pc = "wakeup"
    /\ pc' = "submit"
    /\ asked' = (asked \/ (build.wakeup /\ bus = "suspended"))
    /\ UNCHANGED <<build, pressed_keys, rest, report, sent, btVars, bus,
                   kb_ready, shown>>

\* usb_connect_send: a bus that does not run refuses the report, and the
\* thread goes on; an accepted report blocks it until the host has it, for
\* no input_report_done is registered.
Submit ==
    /\ pc = "submit"
    /\ IF bus = "on" THEN pc' = "blocked" /\ UNCHANGED sent
                     ELSE pc' = "idle" /\ sent' = "none"
    /\ UNCHANGED <<build, pressed_keys, rest, report, btVars, usbVars, shown>>

KbHandle ==
    \/ \E down \in SUBSET Keys : HandleEdges(down)
    \/ BuildReport \/ ReadFlag \/ NoHost \/ Notify \/ WakeUp \/ Submit

-----------------------------------------------------------------------------
(***************************************************************************)
(* The Bluetooth host.  Its subscription and the flag are two things: the  *)
(* stack calls input_ccc_changed after either changed.                     *)
(***************************************************************************)
Forgets(h) == sent' = IF sent = h THEN "none" ELSE sent

Subscribe ==
    /\ ~ subscribed
    /\ subscribed' = TRUE
    /\ UNCHANGED <<build, threadVars, sent, bt_kb_ready, notified, usbVars, shown>>

\* The host no longer wants reports, and keeps showing what it shows.
Unsubscribe ==
    /\ subscribed
    /\ subscribed' = FALSE
    /\ UNCHANGED <<build, threadVars, sent, bt_kb_ready, notified, usbVars, shown>>

\* The connection drops: what is under way is lost and the host, which sees
\* the keyboard go, lets go of its keys.
LoseHost ==
    /\ subscribed
    /\ subscribed' = FALSE
    /\ notified' = <<>>
    /\ shown' = [shown EXCEPT !["bt"] = {}]
    /\ Forgets("bt")
    /\ UNCHANGED <<build, threadVars, bt_kb_ready, usbVars>>

InputCccChanged ==
    /\ bt_kb_ready # subscribed
    /\ bt_kb_ready' = subscribed
    /\ UNCHANGED <<build, threadVars, sent, subscribed, notified, usbVars, shown>>

Deliver ==
    /\ notified # <<>>
    /\ shown' = [shown EXCEPT !["bt"] = Head(notified)]
    /\ notified' = Tail(notified)
    /\ UNCHANGED <<build, threadVars, sent, subscribed, bt_kb_ready, usbVars>>

-----------------------------------------------------------------------------
(***************************************************************************)
(* The USB host.  A reset of the bus, or disabling the device, cancels the *)
(* submitted report, and then hid_device_submit_report returns.            *)
(***************************************************************************)
Cancelled ==
    IF pc = "blocked" THEN pc' = "idle" /\ sent' = "none" ELSE UNCHANGED <<pc, sent>>

\* Plugged in and configured: kb_iface_ready(true).
Configure ==
    /\ bus = "off"
    /\ bus' = "on"
    /\ kb_ready' = TRUE
    /\ Cancelled
    /\ UNCHANGED <<build, pressed_keys, rest, report, btVars, asked, shown>>

\* The flag is left as it is: only a disabled device lowers it.
Unplug ==
    /\ bus # "off"
    /\ bus' = "off"
    /\ asked' = FALSE
    /\ shown' = [shown EXCEPT !["usb"] = {}]
    /\ Forgets("usb")
    /\ UNCHANGED <<build, threadVars, btVars, kb_ready>>

\* Mutant: the message is not handled.
VbusIgnored == FALSE

\* msg_cb on USBD_MSG_VBUS_REMOVED, where the controller can detect it:
\* usbd_disable, and with it kb_iface_ready(false).
VbusRemoved ==
    /\ build.vbus
    /\ bus = "off"
    /\ kb_ready
    /\ kb_ready' = FALSE
    /\ Cancelled
    /\ UNCHANGED <<build, pressed_keys, rest, report, btVars, bus, asked,
                   shown>>

Suspend ==
    /\ bus = "on"
    /\ bus' = "suspended"
    /\ UNCHANGED <<build, threadVars, sent, btVars, asked, kb_ready, shown>>

Resume ==
    /\ bus = "suspended"
    /\ bus' = "on"
    /\ asked' = FALSE
    /\ UNCHANGED <<build, threadVars, sent, btVars, kb_ready, shown>>

HostPolls ==
    /\ bus = "on"
    /\ pc = "blocked"
    /\ shown' = [shown EXCEPT !["usb"] = report]
    /\ sent' = "usb"
    /\ pc' = "idle"
    /\ UNCHANGED <<build, pressed_keys, rest, report, btVars, usbVars>>

BtHost == Subscribe \/ Unsubscribe \/ LoseHost \/ InputCccChanged \/ Deliver

UsbHost == Configure \/ Unplug \/ VbusRemoved \/ Suspend \/ Resume \/ HostPolls

Next == KbHandle \/ BtHost \/ UsbHost

Spec == Init /\ [][Next]_reportsVars

\* The thread runs whenever it is not blocked, the stacks call back, radio
\* packets get through while the connection lasts, a host polls an interface
\* in use, and one that is asked to wake up does.
FairSpec ==
    /\ Spec
    /\ WF_reportsVars(KbHandle)
    /\ WF_reportsVars(InputCccChanged)
    /\ WF_reportsVars(Deliver)
    /\ WF_reportsVars(VbusRemoved)
    /\ WF_reportsVars(HostPolls)
    /\ WF_reportsVars(asked /\ Resume)

-----------------------------------------------------------------------------
\* The last thing a host was told, counting what is on its way.
Told(h) == IF h = "bt" /\ notified # <<>> THEN Last(notified) ELSE shown[h]

(***************************************************************************)
(* Between two calls of handle_hid_report, the host that took the last     *)
(* report has been told exactly the keys that are down.  So a key can be   *)
(* stuck at a host only if the report that released it went to the other   *)
(* host or was lost, by a flag read just before it changed.                *)
(***************************************************************************)
NoStuckKeys == pc = "idle" /\ sent # "none" => Told(sent) = pressed_keys

(***************************************************************************)
(* Once the keys and the hosts settle, the host of choice shows exactly    *)
(* the keys that are down, whatever reports were lost or went elsewhere    *)
(* before: that is what sending on every poll is for.  It fails only if    *)
(* the thread is for ever inside hid_device_submit_report.                 *)
(***************************************************************************)
Usable(h) == Ready(h) /\ IF h = "bt" THEN subscribed ELSE bus = "on"

Chosen(h) ==
    \E n \in DOMAIN build.order :
        /\ build.order[n] = h
        /\ Usable(h)
        /\ \A m \in 1..(n - 1) : ~ Ready(build.order[m])

KeysReach ==
    \A h \in Hosts, K \in SUBSET Keys :
        <>[](pressed_keys = K /\ Chosen(h)) /\ []<>(pc # "blocked")
            => <>[](shown[h] = K)

(***************************************************************************)
(* The thread is not blocked for good by USB if the host keeps the bus     *)
(* awake, nor, where VBUS is detected, by pulling the cable.  A bus that   *)
(* is suspended or unplugged under a submitted report does block it, the   *)
(* keys of the Bluetooth host included.                                    *)
(***************************************************************************)
ThreadFree ==
    <>[](bus = "on") \/ (build.vbus /\ <>[](bus = "off")) => []<>(pc = "idle")

(***************************************************************************)
(* A sleeping USB host that is chosen for the reports is woken by them, in *)
(* a build with remote wake-up, unless it went to sleep on the one the     *)
(* thread is blocked in.                                                   *)
(***************************************************************************)
KeyWakesHost ==
    build.wakeup /\ build.order[1] = "usb" /\ <>[](kb_ready /\ bus # "off")
        => []<>(bus = "on" \/ pc = "blocked")
=============================================================================
