--------------------------- MODULE MCHostReports ---------------------------
(***************************************************************************)
(* Two keys; a buffer for one notification, so that the next is refused.   *)
(***************************************************************************)
EXTENDS HostReports, TLC

CONSTANTS k1, k2

MCKeys == {k1, k2}

Build(order, vbus, wakeup) == [order |-> order, vbus |-> vbus, wakeup |-> wakeup]

\* Both priorities and each transport alone; prj.conf has Bluetooth first.
MCBuilds ==
    {Build(<<"bt", "usb">>, v, FALSE) : v \in BOOLEAN} \cup
    {Build(<<"usb", "bt">>, v, TRUE) : v \in BOOLEAN} \cup
    {Build(<<"bt">>, FALSE, FALSE), Build(<<"usb">>, TRUE, TRUE)}
=============================================================================
