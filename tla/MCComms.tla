------------------------------- MODULE MCComms -------------------------------
(* What the box tells the world: the status shown while backends hand over, the *)
(* publishing of last values and the MQTT bridge.  A behaviour is one part's,   *)
(* the others at rest: a loop's messages reach the server in order, and each    *)
(* subscriber, of which the bridge is one, receives them and the last values.   *)
EXTENDS HandoffStatus, PublishServer, MqttBridge

VARIABLE part

MusicBackends == {"mpd", "spotify"}
AllBackends == MusicBackends \cup {"podcast"}
AllDevices == {"wire", "connect"}
BackendDevice == [n \in Names |-> IF n = "spotify" THEN "connect" ELSE "wire"]

SumInit ==
  /\ part \in {"handoff", "publish", "bridge"}
  /\ StatusInit /\ PublishInit /\ BridgeInit

SumNext ==
  /\ UNCHANGED part
  /\ \/ part = "handoff" /\ StatusNext /\ UNCHANGED <<publishVars, bridgeVars>>
     \/ part = "publish" /\ PublishNext /\ UNCHANGED <<allVars, bridgeVars>>
     \/ part = "bridge" /\ BridgeNext /\ UNCHANGED <<allVars, publishVars>>

\* StatusFairness, of a behaviour that is the hand-off's; nothing is required of
\* the server; no step of BridgeFairness is enabled while the bridge is at rest.
SumFairness ==
  /\ \A b \in Publishers :
       /\ SF_allVars(part = "handoff" /\ ReadStatus(b))
       /\ WF_allVars(part = "handoff" /\ (CheckGate(b) \/ SendStatus(b)))
  /\ BridgeFairness

SumSpec ==
  /\ SumInit /\ [][SumNext]_<<part, allVars, publishVars, bridgeVars>>
  /\ SumFairness
=============================================================================
