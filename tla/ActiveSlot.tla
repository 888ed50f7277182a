----------------------------- MODULE ActiveSlot -----------------------------
(***************************************************************************)
(* What the player coordinator promises to the rest of the Phoniebox,      *)
(* stated without locks, threads or timeouts: one slot names the active    *)
(* backend, only the backend in the slot starts to sound, and the slot     *)
(* moves to another backend only when every device is silent.  A passive   *)
(* control may start a device again behind the slot's back, and nobody but *)
(* whoever uses that device next puts an end to it                         *)
(* (components/player/coordinator.py, class docstring and module header).  *)
(***************************************************************************)

CONSTANTS
  Names,      \* the player backends: mpd, spotify, podcast
  NoBackend,  \* "no backend has registered yet"
  Devices,    \* what makes sound: MPD's wire, the Spotify Connect device
  Device      \* the device each backend plays through

VARIABLES
  slot,       \* the active backend
  sounding,   \* for each device, the backend whose content is audible on it
  strays      \* devices started by a passive control of an inactive backend

avars == <<slot, sounding, strays>>

OnlySounding(owners) == \A d \in Devices \ strays : sounding[d] \in {NoBackend} \union owners

-----------------------------------------------------------------------------

Init ==
  /\ slot = NoBackend
  /\ sounding = [d \in Devices |-> NoBackend]
  /\ strays = {}

\* The first backend to register becomes the active one.
Claim(n) ==
  /\ slot = NoBackend
  /\ slot' = n
  /\ UNCHANGED <<sounding, strays>>

\* The slot moves, and nothing of the outgoing backend is audible any more.
Handoff(n) ==
  /\ OnlySounding({})
  /\ slot' = n
  /\ UNCHANGED <<sounding, strays>>

\* The active backend starts (or replaces) its playback.
Play(n) ==
  /\ slot = n
  /\ OnlySounding({n})
  /\ sounding' = [sounding EXCEPT ![Device[n]] = n]
  /\ strays' = strays \ {Device[n]}
  /\ UNCHANGED slot

\* A device falls silent: paused, stopped, or at the end of its queue.
Silence(d) ==
  /\ sounding' = [sounding EXCEPT ![d] = NoBackend]
  /\ strays' = strays \ {d}
  /\ UNCHANGED slot

\* A passive control starts backend n's content where it is loaded.
Restart(n) ==
  /\ sounding' = [sounding EXCEPT ![Device[n]] = n]
  /\ strays' = IF n = slot THEN strays \ {Device[n]} ELSE strays \union {Device[n]}
  /\ UNCHANGED slot

Next ==
  \/ \E n \in Names : Claim(n) \/ Handoff(n) \/ Play(n) \/ Restart(n)
  \/ \E d \in Devices : Silence(d)

Spec == Init /\ [][Next]_avars
=============================================================================
