------------------------------ MODULE GpioLed ------------------------------
(***************************************************************************)
(* An LED of components/gpio/gpioz: the threads that flash it              *)
(* (core/output_devices.py), and the connections by which card reads,      *)
(* volume and output changes, the service status and RPCs switch and flash *)
(* it (plugin/connectivity.py, plugin/__init__.py).                        *)
(*                                                                         *)
(* A flash reads the level when its thread starts and writes it back when  *)
(* the thread ends.  Nothing keeps two callers of one LED apart.           *)
(***************************************************************************)
EXTENDS Naturals

CONSTANTS
  Callers,      \* threads: RFID reader, PulseAudio monitor, RPC server
  Slots,        \* bound: flash threads that exist at one time
  NoSlot        \* self._blink_thread is None

ASSUME LedAssumption == NoSlot \notin Slots /\ {"stop", "act"} \intersect Slots = {}

VARIABLES
  level,        \* the pin
  blinker,      \* _blink_thread
  flash,        \* each flash thread's step
  savedLevel,   \* current_value of each flash thread
  stopping,     \* each flash thread's event
  todo,         \* what each caller still has to do
  at,           \* the step of its call to the LED, or the thread it joins
  wanted,       \* history: the level that was set last
  overlap       \* history: two callers were at the LED since it was set

ledVars == <<level, blinker, flash, savedLevel, stopping, todo, at, wanted, overlap>>

(* rfid_callback flashes; set_status_led and audio_sink_change_callback switch *)
(* or flash; audio_volume_change_callback sets a value and flashes at either   *)
(* end; on, off, set_value and flash are RPCs.                                 *)
Jobs == {<<"flash">>, <<"on">>, <<"off">>, <<"on", "flash">>}

Busy(c) == todo[c] # <<>>
Over == {"none", "done"}
LedAtRest == (\A c \in Callers : ~Busy(c)) /\ \A s \in Slots : flash[s] \in Over
Alone(c) == (\A d \in Callers \ {c} : ~Busy(d)) /\ \A s \in Slots : flash[s] \in Over

LedInit ==
  /\ level = "off"
  /\ blinker = NoSlot
  /\ flash = [s \in Slots |-> "none"]
  /\ savedLevel = [s \in Slots |-> "off"]
  /\ stopping = [s \in Slots |-> FALSE]
  /\ todo = [c \in Callers |-> <<>>]
  /\ at = [c \in Callers |-> "stop"]
  /\ wanted = "off"
  /\ overlap = FALSE

-----------------------------------------------------------------------------
(* The callers *)

CallLed(c, job) ==
  /\ ~Busy(c)
  /\ todo' = [todo EXCEPT ![c] = job]
  /\ overlap' = (overlap \/ \E d \in Callers : Busy(d))
  /\ UNCHANGED <<level, blinker, flash, savedLevel, stopping, at, wanted>>

\* _stop_blink, first half: the event is set and the thread joined ...
StopBlink(c) ==
  /\ Busy(c) /\ at[c] = "stop"
  /\ stopping' = IF blinker = NoSlot THEN stopping
                 ELSE [stopping EXCEPT ![blinker] = TRUE]
  /\ at' = [at EXCEPT ![c] = IF blinker = NoSlot THEN "act" ELSE blinker]
  /\ UNCHANGED <<level, blinker, flash, savedLevel, todo, wanted, overlap>>

\* Variant: no join.
JoinNot(c) ==
  /\ at[c] \in Slots
  /\ blinker' = NoSlot
  /\ at' = [at EXCEPT ![c] = "act"]
  /\ UNCHANGED <<level, flash, savedLevel, stopping, todo, wanted, overlap>>

\* ... and forgotten.
JoinBlink(c) ==
  /\ at[c] \in Slots /\ flash[at[c]] \in Over
  /\ blinker' = NoSlot
  /\ at' = [at EXCEPT ![c] = "act"]
  /\ UNCHANGED <<level, flash, savedLevel, stopping, todo, wanted, overlap>>

Done(c) == /\ todo' = [todo EXCEPT ![c] = IF @ = <<"on", "flash">> THEN <<"flash">> ELSE <<>>]
           /\ at' = [at EXCEPT ![c] = "stop"]

\* on, off, or the value.
Switch(c) ==
  /\ Busy(c) /\ at[c] = "act" /\ todo[c][1] # "flash"
  /\ level' = todo[c][1]
  /\ wanted' = todo[c][1]
  /\ overlap' = (overlap /\ ~Alone(c))
  /\ Done(c)
  /\ UNCHANGED <<blinker, flash, savedLevel, stopping>>

\* flash: a new thread.
Flash(c, s) ==
  /\ Busy(c) /\ at[c] = "act" /\ todo[c][1] = "flash"
  /\ flash[s] \in Over /\ blinker # s /\ \A d \in Callers : at[d] # s
  /\ blinker' = s
  /\ flash' = [flash EXCEPT ![s] = "started"]
  /\ stopping' = [stopping EXCEPT ![s] = FALSE]
  /\ Done(c)
  /\ UNCHANGED <<level, savedLevel, wanted, overlap>>

-----------------------------------------------------------------------------
(* _flash_device *)

ReadLevel(s) ==
  /\ flash[s] = "started"
  /\ savedLevel' = [savedLevel EXCEPT ![s] = level]
  /\ flash' = [flash EXCEPT ![s] = "dark"]
  /\ UNCHANGED <<level, blinker, stopping, todo, at, wanted, overlap>>

Write(s) ==
  /\ flash[s] \in {"dark", "lit"}
  /\ level' = IF flash[s] = "dark" THEN "on" ELSE "off"
  /\ flash' = [flash EXCEPT ![s] = IF @ = "dark" THEN "lit" ELSE "count"]
  /\ UNCHANGED <<blinker, savedLevel, stopping, todo, at, wanted, overlap>>

\* The waits look at the event of whatever is the flash thread now.  There is none
\* if the LED has been taken over: the thread dies of that.
Pause(s) ==
  /\ flash[s] \in {"lit", "count"}
  /\ flash' = [flash EXCEPT ![s] =
                 CASE blinker = NoSlot -> "done"
                   [] blinker # NoSlot /\ stopping[blinker] -> "restore"
                   [] OTHER -> @]
  /\ flash' # flash
  /\ UNCHANGED <<level, blinker, savedLevel, stopping, todo, at, wanted, overlap>>

Again(s) ==
  /\ flash[s] = "count"
  /\ flash' = [flash EXCEPT ![s] = "dark"]
  /\ UNCHANGED <<level, blinker, savedLevel, stopping, todo, at, wanted, overlap>>

LastCycle(s) ==
  /\ flash[s] = "count"
  /\ flash' = [flash EXCEPT ![s] = "restore"]
  /\ UNCHANGED <<level, blinker, savedLevel, stopping, todo, at, wanted, overlap>>

Restore(s) ==
  /\ flash[s] = "restore"
  /\ level' = savedLevel[s]
  /\ flash' = [flash EXCEPT ![s] = "done"]
  /\ UNCHANGED <<blinker, savedLevel, stopping, todo, at, wanted, overlap>>

FlashStep(s) == ReadLevel(s) \/ Write(s) \/ Pause(s) \/ Again(s) \/ LastCycle(s) \/ Restore(s)

LedNext ==
  \/ \E c \in Callers :
       \/ \E job \in Jobs : CallLed(c, job)
       \/ StopBlink(c) \/ JoinBlink(c) \/ Switch(c)
       \/ \E s \in Slots : Flash(c, s)
  \/ \E s \in Slots : FlashStep(s)

-----------------------------------------------------------------------------

LedTypeOK ==
  /\ level \in {"on", "off"} /\ wanted \in {"on", "off"}
  /\ blinker \in Slots \union {NoSlot}
  /\ flash \in [Slots -> Over \union {"started", "dark", "lit", "count", "restore"}]
  /\ savedLevel \in [Slots -> {"on", "off"}]
  /\ at \in [Callers -> {"stop", "act"} \union Slots]

\* A flash "restores the original state after flashing the device": when the LED
\* is left alone it shows what it was last set to, also when flashes and switches
\* cut each other short, as long as their callers did not overlap.  (When two
\* callers flash at once the second thread saves the first one's light.)
LedIsRestored == LedAtRest /\ ~overlap => level = wanted
=============================================================================
