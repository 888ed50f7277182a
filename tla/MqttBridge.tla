------------------------------ MODULE MqttBridge ------------------------------
(* The MQTT bridge: each connection to the broker starts a thread that says      *)
(* "online" and then passes on what it is subscribed to, throttled.  A thread is *)
(* never ended by a connection that breaks: after a reconnection two of them     *)
(* receive the same messages, over one client and one memory of what was sent.   *)
(* The broker says "offline" by itself when the connection breaks.               *)
(* The time since a topic was sent is one of three: "fresh", under half a        *)
(* second, "recent", under thirty, and "old".                                    *)
EXTENDS Naturals, SequencesExt

CONSTANTS
  Sent,          \* topics passed on
  Polled,        \* those of them the box publishes again and again while the gate
                 \* is open: the playerstatus, of the backend that owns the slot
  Readings,      \* what a message says
  Unsent,        \* nothing was sent
  MaxBridges,    \* bound: connections, each with its thread
  MaxHeard       \* bound: messages on their way to a thread

ASSUME BridgeAssumption ==
  /\ "state" \notin Sent /\ Polled \subseteq Sent
  /\ Unsent \notin Readings \cup {"online", "offline"}

VARIABLES
  reading,       \* what the box has to say, per topic
  published,     \* what it said last, which new subscribers are sent
  gate,          \* does a backend with a status loop own the slot?
  line,          \* the connection: "up", "down" or "closed"
  bridges,       \* the threads: "start" or "run"
  heard,         \* per thread: messages on their way to it
  attributes,    \* the memory of the throttle, per topic
  queued,        \* a state sent while the connection was down, QoS 1
  broker         \* what the broker shows, per topic

bridgeVars == <<reading, published, gate, line, bridges, heard, attributes, queued, broker>>

MqttTopics == Sent \cup {"state"}

BridgeInit ==
  /\ reading \in [Sent -> Readings] /\ published = [t \in Sent |-> Unsent] /\ gate = FALSE
  /\ line = "down" /\ bridges = <<>> /\ heard = <<>>
  /\ attributes = [t \in MqttTopics |-> [value |-> Unsent, age |-> "old"]]
  /\ queued = Unsent /\ broker = [t \in MqttTopics |-> Unsent]

\* _send_throttled's two early returns.
Throttled(t, v) ==
  LET last == attributes[t] IN
  /\ last.value # Unsent
  /\ \/ last.value = v /\ last.age # "old"
     \/ last.value # v /\ last.age = "fresh"

\* Variant: a message that is held back counts as sent.
PassOnStamped(t, v) ==
  /\ attributes' = [attributes EXCEPT ![t] = [value |-> IF Throttled(t, v) THEN @.value ELSE v,
                                              age |-> "fresh"]]
  /\ broker' = IF ~Throttled(t, v) /\ line = "up" THEN [broker EXCEPT ![t] = v] ELSE broker
  /\ UNCHANGED queued

\* _send_throttled: what is sent while the connection is down is lost, but for the
\* state, which is sent later.
PassOn(t, v) ==
  IF Throttled(t, v) THEN UNCHANGED <<attributes, queued, broker>>
  ELSE /\ attributes' = [attributes EXCEPT ![t] = [value |-> v, age |-> "fresh"]]
       /\ broker' = IF line = "up" THEN [broker EXCEPT ![t] = v] ELSE broker
       /\ queued' = IF line # "up" /\ t = "state" THEN v ELSE queued

\* What is published reaches every thread that has subscribed.
Tell(threads, messages) ==
  /\ \A i \in threads : Len(heard[i]) + Len(messages) <= MaxHeard
  /\ heard' = [i \in DOMAIN heard |-> heard[i] \o (IF i \in threads THEN messages ELSE <<>>)]

Running == {i \in DOMAIN bridges : bridges[i] = "run"}
Reading(t, v) == [topic |-> t, content |-> v]

Announce(t, v) ==
  /\ published' = [published EXCEPT ![t] = v]
  /\ Tell(Running, <<Reading(t, v)>>)

\* The state of the box changes; what is not polled is published at once.
Change(t, v) ==
  /\ reading[t] # v /\ reading' = [reading EXCEPT ![t] = v]
  /\ IF t \in Polled THEN UNCHANGED <<published, heard>> ELSE Announce(t, v)
  /\ UNCHANGED <<gate, line, bridges, attributes, queued, broker>>

\* if coordinator.current() == ...: nobody publishes for the podcast player.
Poll(t) ==
  /\ gate /\ Announce(t, reading[t])
  /\ UNCHANGED <<reading, gate, line, bridges, attributes, queued, broker>>

\* A hand-off to or from a backend without a status loop.
TurnGate ==
  /\ gate' = ~gate
  /\ UNCHANGED <<reading, published, line, bridges, heard, attributes, queued, broker>>

----------------------------------------------------------------------------
(* The connection and its threads.                                            *)

\* on_connect.
Connect ==
  /\ line = "down" /\ Len(bridges) < MaxBridges
  /\ line' = "up"
  /\ bridges' = Append(bridges, "start") /\ heard' = Append(heard, <<>>)
  /\ broker' = IF queued = Unsent THEN broker ELSE [broker EXCEPT !["state"] = queued]
  /\ queued' = Unsent
  /\ UNCHANGED <<reading, published, gate, attributes>>

\* run up to its loop; its subscription has the last values sent to all.
StartBridge(i) ==
  /\ bridges[i] = "start"
  /\ PassOn("state", "online")
  /\ bridges' = [bridges EXCEPT ![i] = "run"]
  /\ Tell(Running \cup {i}, SetToSeq({Reading(t, published[t]) : t \in {u \in Sent : published[u] # Unsent}}))
  /\ UNCHANGED <<reading, published, gate, line>>

\* One turn of the loop.
TakeMessage(i) ==
  /\ bridges[i] = "run" /\ heard[i] # <<>>
  /\ LET m == Head(heard[i]) IN PassOn(m.topic, m.content)
  /\ heard' = [heard EXCEPT ![i] = Tail(@)]
  /\ UNCHANGED <<reading, published, gate, line, bridges>>

\* The client's last will.
LoseConnection ==
  /\ line = "up" /\ line' = "down"
  /\ broker' = [broker EXCEPT !["state"] = "offline"]
  /\ UNCHANGED <<reading, published, gate, bridges, heard, attributes, queued>>

\* Time passes since a topic was sent.
Age(t) ==
  /\ attributes[t].age # "old"
  /\ attributes' = [attributes EXCEPT ![t].age = IF @ = "fresh" THEN "recent" ELSE "old"]
  /\ UNCHANGED <<reading, published, gate, line, bridges, heard, queued, broker>>

Stop == PassOn("state", "offline")

\* atexit: stop and disconnect, which leaves the last will unsaid.
Leave ==
  /\ line # "closed" /\ Len(bridges) > 0
  /\ Stop
  /\ line' = "closed"
  /\ UNCHANGED <<reading, published, gate, bridges, heard>>

BridgeNext ==
  \/ \E t \in Sent, v \in Readings : Change(t, v)
  \/ \E t \in Polled : Poll(t)
  \/ TurnGate
  \/ Connect \/ LoseConnection \/ Leave
  \/ \E i \in DOMAIN bridges : StartBridge(i) \/ TakeMessage(i)
  \/ \E t \in MqttTopics : Age(t)

\* A backend that keeps the slot goes on polling, the threads and the time go on.
BridgeFairness ==
  /\ \A t \in Polled : WF_bridgeVars(Poll(t))
  /\ \A i \in 1..MaxBridges :
       /\ WF_bridgeVars(i \in DOMAIN bridges /\ StartBridge(i))
       /\ WF_bridgeVars(i \in DOMAIN bridges /\ TakeMessage(i))
  /\ \A t \in MqttTopics : WF_bridgeVars(Age(t))

----------------------------------------------------------------------------

\* What the broker shows of a topic, once the connection holds, the topic does not
\* change any more and its backend keeps the slot.
ShownAtLast(t) ==
  \A v \in Readings :
    <>[](line = "up" /\ gate /\ reading[t] = v) => <>[](broker[t] = v)

\* Broken connections, messages lost with them, a throttle that holds back changes,
\* hand-offs to a backend that publishes nothing and two threads that pass on the same
\* messages notwithstanding, the broker ends up showing the status of a player that
\* keeps the slot, which is published again and again (_send_throttled).
StatusIsShown == \A t \in Polled : ShownAtLast(t)
=============================================================================
