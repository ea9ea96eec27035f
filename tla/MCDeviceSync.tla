----------------------------- MODULE MCDeviceSync ------------------------------
\* DeviceSync with two devices, two cards and two gradings.
EXTENDS DeviceSync, TLC

CONSTANTS p1, p2

\* Pushes one after the other that fail anywhere; and with only answers lost.
MCFailing == [slots |-> {p1}, snapshots |-> FALSE, failing |-> Stages]
MCLossy == [MCFailing EXCEPT !.failing = {"reply"}]

\* Pushes that overlap and fail anywhere.
MCOverlapping(snapshots) ==
    [slots |-> {p1, p2}, snapshots |-> snapshots, failing |-> Stages]

MCEnvironments == {MCLossy, MCFailing, MCOverlapping(TRUE), MCOverlapping(FALSE)}

MCFailingOnly == {MCFailing}
================================================================================
