---------------------------- MODULE RadioChannel ----------------------------
(***************************************************************************)
(* What the arbiter promises the BLE host (radio_arbiter.h, the comment    *)
(* over the class): one listening procedure at a time, whichever link runs *)
(* it, and none that lasts for ever.                                       *)
(***************************************************************************)
CONSTANTS Users, Nobody

VARIABLE listener     \* the link whose procedure the host is running

ChannelInit == listener = Nobody

Begin(u) == listener = Nobody /\ listener' = u

End == listener # Nobody /\ listener' = Nobody

ChannelNext == End \/ \E u \in Users : Begin(u)

ChannelSafety == ChannelInit /\ [][ChannelNext]_listener

ChannelSpec == ChannelSafety /\ WF_listener(End)
=============================================================================
