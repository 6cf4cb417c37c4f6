---------------------------- MODULE MCDeviceInUse ----------------------------
(* DeviceInUse with the local add-in and one device, and a record of each. *)
EXTENDS DeviceInUse, TLC

CONSTANTS d1, e1, e2, t1, t2

MCOwner == e1 :> Local @@ e2 :> d1
MCTool == e1 :> t1 @@ e2 :> t2
=============================================================================
