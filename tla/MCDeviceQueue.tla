--------------------------- MODULE MCDeviceQueue ----------------------------
(* Bounded instances of the device's queue, for TLC.                       *)
EXTENDS DeviceQueue

CONSTANTS f1, f2

EveryKind ==
    {[kind |-> "create", mask |-> {}], [kind |-> "delete", mask |-> {}],
     [kind |-> "review", mask |-> {}], [kind |-> "patch", mask |-> {f1}],
     [kind |-> "patch", mask |-> {f2}]}
=============================================================================
