------------------------- MODULE MC_SwitchLifecycle -------------------------
(* Values for the constants of SwitchLifecycle that a .cfg cannot write.    *)
EXTENDS SwitchLifecycle

\* gpp_devices as shipped: every entry is NULL
NoStaticDevices == [c \in {} |-> 0]

\* two devices of the first driver and, on the last id, none of any driver's
TwoStaticDevices == [c \in {0, 1} |-> 0]

AllFaults == FaultKinds
FaultsBeforeRelease == FaultKinds \ {"bus_deinit"}
NoFaults  == {}
=============================================================================
