---------------------------- MODULE KeyListeners ----------------------------
(***************************************************************************)
(* Buttons of input devices: the listener threads of                       *)
(* components/controls (common/evdev_listener.py), and the two plugins     *)
(* that start them: event_devices for what is configured, and              *)
(* bluetooth_audio_buttons for sound devices as they connect.              *)
(*                                                                         *)
(* event_devices is called under the plugs lock; the Bluetooth plugin also *)
(* from the PulseAudio monitor's callback, which does not hold it and goes *)
(* on until the volume plugin is closed, after the Bluetooth plugin.       *)
(***************************************************************************)
EXTENDS Naturals, FiniteSets

CONSTANTS
  Devices,      \* input devices by name
  Askers,       \* threads that call activate
  Listeners,    \* bound: listener threads that exist at one time
  RetryCount,   \* open_retry_cnt
  NoDevice

ASSUME ListenersAssumption ==
  /\ NoDevice \notin Devices
  /\ RetryCount \in Nat \ {0}

VARIABLES
  plugin,       \* which of the two plugins this is
  plugged,      \* each device: absent, there without its keys, or there
  listener,     \* the module's list of listeners
  state,        \* of each listener thread
  device,       \* device_name_request
  tries,        \* attempts to open it
  told,         \* stop() was called
  asking,       \* the device each caller wants a listener for
  mine,         \* the listener it has appended
  ended,        \* atexit has run
  crossing,     \* history: the callers another was in activate with
  crossed,      \* history: the listeners such a caller has started
  unstopped     \* history: the listeners enlisted after atexit

threads == <<listener, state, device, tries, told>>
crossings == <<crossing, crossed, unstopped>>
keyVars == <<plugin, plugged, threads, asking, mine, ended, crossings>>

LiveStates == {"opening", "listening"}
Live == {l \in Listeners : state[l] \in LiveStates}
Fresh == {l \in Listeners : state[l] \in {"unused", "dead"} /\ \A c \in Askers : mine[c] # {l}}

KeysInit ==
  /\ plugin \in {"event_devices", "bluetooth"}
  /\ plugged \in [Devices -> {"absent", "keyless", "there"}]
  /\ listener = {}
  /\ state = [l \in Listeners |-> "unused"]
  /\ device = [l \in Listeners |-> NoDevice]
  /\ tries = [l \in Listeners |-> 0]
  /\ told = [l \in Listeners |-> FALSE]
  /\ asking = [c \in Askers |-> NoDevice]
  /\ mine = [c \in Askers |-> {}]
  /\ ended = FALSE
  /\ crossing = {} /\ crossed = {} /\ unstopped = {}

-----------------------------------------------------------------------------
(* activate *)

Inside(c) == asking[c] # NoDevice

\* Does activate find a listener in the way?  event_devices compares the names; the
\* Bluetooth plugin asks any live one for an attribute it does not have.
InTheWay(d) ==
  IF plugin = "bluetooth" THEN Live \intersect listener # {}
  ELSE \E l \in Live \intersect listener : device[l] = d

\* History: whoever comes while others are inside, and stays, and those.
Cross ==
  IF \E b \in Askers : Inside(b)
    THEN crossing' = {b \in Askers : asking'[b] # NoDevice}
    ELSE UNCHANGED crossing

\* Variant: the housekeeping is the only look at the list.
HousekeepingOnly(c, d) ==
  /\ ~Inside(c)
  /\ plugin = "event_devices" => \A b \in Askers : ~Inside(b)
  /\ listener' = listener \intersect Live
  /\ asking' = [asking EXCEPT ![c] = d]
  /\ Cross
  /\ UNCHANGED <<plugin, plugged, state, device, tries, told, mine, ended, crossed, unstopped>>

\* Delete dead threads, and those that were not started yet; look for one of this
\* device.
Housekeeping(c, d) ==
  /\ ~Inside(c)
  /\ plugin = "event_devices" => \A b \in Askers : ~Inside(b)
  /\ listener' = listener \intersect Live
  /\ asking' = [asking EXCEPT ![c] = IF InTheWay(d) THEN NoDevice ELSE d]
  /\ Cross
  /\ UNCHANGED <<plugin, plugged, state, device, tries, told, mine, ended, crossed, unstopped>>

\* A new listener is appended to the list before it is started.
Enlist(c, l) ==
  /\ Inside(c) /\ mine[c] = {} /\ l \in Fresh
  /\ listener' = listener \union {l}
  /\ mine' = [mine EXCEPT ![c] = {l}]
  /\ told' = [told EXCEPT ![l] = FALSE]
  /\ unstopped' = IF ended THEN unstopped \union {l} ELSE unstopped \ {l}
  /\ UNCHANGED <<plugin, plugged, state, device, tries, asking, ended, crossing, crossed>>

Launch(c, l) ==
  /\ mine[c] = {l}
  /\ state' = [state EXCEPT ![l] = "opening"]
  /\ device' = [device EXCEPT ![l] = asking[c]]
  /\ tries' = [tries EXCEPT ![l] = 0]
  /\ mine' = [mine EXCEPT ![c] = {}]
  /\ asking' = [asking EXCEPT ![c] = NoDevice]
  /\ crossing' = crossing \ {c}
  /\ crossed' = IF c \in crossing THEN crossed \union {l} ELSE crossed \ {l}
  /\ UNCHANGED <<plugin, plugged, listener, told, ended, unstopped>>

-----------------------------------------------------------------------------
(* EvDevKeyListener.run *)

Open(l) ==
  /\ state[l] = "opening"
  /\ tries' = [tries EXCEPT ![l] = @ + 1]
  /\ state' = [state EXCEPT ![l] = CASE plugged[device[l]] = "there" -> "listening"
                                     [] plugged[device[l]] = "keyless" -> "dead"
                                     [] OTHER -> IF tries'[l] = RetryCount THEN "dead" ELSE @]
  /\ UNCHANGED <<plugin, plugged, listener, device, told, asking, mine, ended, crossings>>

\* The loop ends: stopped, or the device is gone (OSError).
Hangup(l) ==
  /\ state[l] = "listening"
  /\ told[l] \/ plugged[device[l]] = "absent"
  /\ state' = [state EXCEPT ![l] = "dead"]
  /\ UNCHANGED <<plugin, plugged, listener, device, tries, told, asking, mine, ended, crossings>>

\* atexit, in the shutdown's thread, without the plugs lock.
StopAll ==
  /\ ~ended /\ ended' = TRUE
  /\ told' = [l \in Listeners |-> told[l] \/ l \in listener]
  /\ UNCHANGED <<plugin, plugged, listener, state, device, tries, asking, mine, crossings>>

\* A device comes, goes, or comes back as a different profile.
Plug(d, p) ==
  /\ plugged[d] # p
  /\ plugged' = [plugged EXCEPT ![d] = p]
  /\ UNCHANGED <<plugin, threads, asking, mine, ended, crossings>>

KeysNext ==
  \/ \E c \in Askers, d \in Devices : Housekeeping(c, d)
  \/ \E c \in Askers, l \in Listeners : Enlist(c, l) \/ Launch(c, l)
  \/ \E l \in Listeners : Open(l) \/ Hangup(l)
  \/ StopAll
  \/ \E d \in Devices, p \in {"absent", "keyless", "there"} : Plug(d, p)

-----------------------------------------------------------------------------

KeysTypeOK ==
  /\ listener \subseteq Listeners
  /\ state \in [Listeners -> LiveStates \union {"unused", "dead"}]
  /\ device \in [Listeners -> Devices \union {NoDevice}]
  /\ tries \in [Listeners -> 0..RetryCount]
  /\ asking \in [Askers -> Devices \union {NoDevice}]

\* One press of a key is one action: a device has at most one live listener, and
\* every live listener is in the module's list, where the next activate finds it,
\* and has been told to stop if it was enlisted before atexit, also when it was not
\* started by then.  Two calls of activate that overlap (the PulseAudio callback
\* holds no lock) spoil this for the listeners they start themselves and for no
\* other, however long those live.
OneListenerPerDevice ==
  LET orderly == Live \ crossed IN
  /\ orderly \subseteq listener
  /\ \A l, m \in orderly : device[l] = device[m] => l = m
  /\ ended => \A l \in orderly \ unstopped : told[l]
=============================================================================
