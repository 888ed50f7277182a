--------------------------- MODULE Devices_proofs ---------------------------
(***************************************************************************)
(* Proofs about the input controls and the battery: the buttons and an LED *)
(* on the GPIO pins, for any lag, any callers and any flashes; the key     *)
(* listeners, for any devices and callers; the battery monitor, for any    *)
(* samples and any precision of its filters.  The last theorems bring them *)
(* and those about the podcasts together in the composition that is        *)
(* model-checked.                                                          *)
(***************************************************************************)
EXTENDS MCDevices, Podcasts_proofs

(* The LED.                                                                   *)

LedSpec == LedInit /\ [][LedNext]_ledVars

LedTypes ==
  /\ LedTypeOK
  /\ todo \in [Callers -> {<<>>} \union Jobs]
  /\ stopping \in [Slots -> BOOLEAN] /\ overlap \in BOOLEAN
  /\ \A c \in Callers : ~Busy(c) => at[c] = "stop"

Flashing == {s \in Slots : flash[s] \notin Over}

\* One caller at the LED, and one flash thread: the one that the LED knows and a
\* caller waits for, gone before the caller acts.
OneAtATime ==
  /\ \A c, d \in Callers : Busy(c) /\ Busy(d) => c = d
  /\ Flashing \subseteq {blinker}
  /\ \A c \in Callers : /\ at[c] = "act" => Flashing = {}
                        /\ at[c] \in Slots => at[c] = blinker

\* The level that was set is on the pin, or kept by the thread that flashes.
WantedIsKept ==
  /\ Flashing = {} => level = wanted
  /\ \A s \in Flashing : IF flash[s] = "started" THEN level = wanted ELSE savedLevel[s] = wanted

LedInv == LedTypes /\ (overlap \/ (OneAtATime /\ WantedIsKept))

\* An LED begins with its level and no flash.
LEMMA LedStarts == LedInit => LedInv
<1> SUFFICES ASSUME LedInit PROVE LedInv
  OBVIOUS
<1> USE LedAssumption
<1>1. LedTypes
  BY DEF LedInit, LedTypes, LedTypeOK, Over, Busy, Jobs
<1>2. Flashing = {} /\ \A c \in Callers : ~Busy(c) /\ at[c] = "stop"
  BY DEF LedInit, Flashing, Over, Busy
<1>3. OneAtATime /\ WantedIsKept
  BY <1>2 DEF LedInit, OneAtATime, WantedIsKept
<1> QED  BY <1>1, <1>3 DEF LedInv

\* A caller that has done one thing, at the level it has just set if it set one.
LEMMA LedCallerSteps ==
  ASSUME LedInv, NEW c \in Callers,
         (\E wish \in Jobs : CallLed(c, wish)) \/ StopBlink(c) \/ JoinBlink(c) \/ Switch(c)
         \/ \E s \in Slots : Flash(c, s)
  PROVE  LedInv'
<1> USE LedAssumption DEF LedTypes, LedTypeOK, Over, Jobs
<1>0. LedTypes /\ (at[c] # "stop" => Busy(c)) /\ (todo[c] = <<>> <=> ~Busy(c))
  BY DEF LedInv, Busy
<1>1. ASSUME NEW wish \in Jobs, CallLed(c, wish) PROVE LedInv'
  <2>1. LedTypes'
    BY <1>0, <1>1 DEF CallLed, Busy
  <2>2. ASSUME ~overlap' PROVE OneAtATime' /\ WantedIsKept'
    <3>1. ~overlap /\ OneAtATime /\ WantedIsKept /\ \A d \in Callers : ~Busy(d) /\ at[d] = "stop"
      BY <1>0, <1>1, <2>2 DEF CallLed, LedInv
    <3>2. Flashing' = Flashing
      BY <1>1 DEF CallLed, Flashing
    <3>3. WantedIsKept'
      BY <1>1, <3>1, <3>2 DEF CallLed, WantedIsKept
    <3> QED  BY <1>0, <1>1, <3>1, <3>2, <3>3 DEF CallLed, OneAtATime, Busy
  <2> QED  BY <2>1, <2>2 DEF LedInv
<1>2. CASE StopBlink(c)
  <2>1. LedTypes'
    BY <1>0, <1>2 DEF StopBlink, Busy
  <2>2. ASSUME ~overlap' PROVE OneAtATime' /\ WantedIsKept'
    <3>1. ~overlap /\ OneAtATime /\ WantedIsKept /\ Flashing' = Flashing
      BY <1>2, <2>2 DEF StopBlink, LedInv, Flashing
    <3>2. WantedIsKept'
      BY <1>2, <3>1 DEF StopBlink, WantedIsKept
    <3>3. blinker = NoSlot => Flashing = {}
      BY <3>1 DEF OneAtATime, Flashing
    <3> QED  BY <1>0, <1>2, <3>1, <3>2, <3>3 DEF StopBlink, OneAtATime, Busy
  <2> QED  BY <2>1, <2>2 DEF LedInv
<1>3. CASE JoinBlink(c)
  <2>1. LedTypes'
    BY <1>0, <1>3 DEF JoinBlink, Busy
  <2>2. ASSUME ~overlap' PROVE OneAtATime' /\ WantedIsKept'
    <3>1. ~overlap /\ OneAtATime /\ WantedIsKept /\ Flashing' = Flashing
      BY <1>3, <2>2 DEF JoinBlink, LedInv, Flashing
    <3>2. WantedIsKept'
      BY <1>3, <3>1 DEF JoinBlink, WantedIsKept
    <3>3. Flashing = {} /\ Busy(c)
      BY <1>0, <1>3, <3>1 DEF JoinBlink, OneAtATime, Flashing
    <3>4. \A d \in Callers : d # c => at[d] = "stop"
      BY <1>0, <3>1, <3>3 DEF OneAtATime
    <3> QED  BY <1>0, <1>3, <3>1, <3>2, <3>3, <3>4 DEF JoinBlink, OneAtATime, Busy
  <2> QED  BY <2>1, <2>2 DEF LedInv
<1>4. CASE Switch(c)
  <2>1. /\ Busy(c) /\ at[c] = "act" /\ todo[c][1] \in {"on", "off"}
        /\ level' = todo[c][1] /\ wanted' = todo[c][1] /\ overlap' = (overlap /\ ~Alone(c))
        /\ todo'[c] \in {<<>>, <<"flash">>}
        /\ todo' = [todo EXCEPT ![c] = todo'[c]] /\ at' = [at EXCEPT ![c] = "stop"]
        /\ UNCHANGED <<blinker, flash, savedLevel, stopping>>
    BY <1>0, <1>4 DEF Switch, Done, Busy
  <2>2. LedTypes'
    BY <1>0, <2>1 DEF Busy
  <2>3. ASSUME ~overlap' PROVE OneAtATime' /\ WantedIsKept'
    <3>1. Flashing = {} /\ \A d \in Callers : d # c => ~Busy(d) /\ at[d] = "stop"
      <4>1. CASE overlap
        BY <1>0, <2>1, <2>3, <4>1 DEF Alone, Flashing
      <4>2. CASE ~overlap
        BY <1>0, <2>1, <4>2 DEF LedInv, OneAtATime
      <4> QED  BY <4>1, <4>2
    <3>2. Flashing' = {} /\ \A d \in Callers : at'[d] = "stop" /\ (d # c => ~Busy(d)')
      BY <1>0, <2>1, <3>1 DEF Flashing, Busy
    <3> QED  BY <2>1, <3>2 DEF OneAtATime, WantedIsKept
  <2> QED  BY <2>2, <2>3 DEF LedInv
<1>5. ASSUME NEW s \in Slots, Flash(c, s) PROVE LedInv'
  <2>1. /\ Busy(c) /\ at[c] = "act" /\ flash[s] \in Over
        /\ blinker' = s /\ flash' = [flash EXCEPT ![s] = "started"]
        /\ stopping' = [stopping EXCEPT ![s] = FALSE]
        /\ todo' = [todo EXCEPT ![c] = <<>>] /\ at' = [at EXCEPT ![c] = "stop"]
        /\ UNCHANGED <<level, savedLevel, wanted, overlap>>
    <3>1. Busy(c) /\ at[c] = "act" /\ todo[c][1] = "flash" /\ flash[s] \in Over
      BY <1>5 DEF Flash
    <3>2. todo[c] = <<"flash">> /\ todo[c] # <<"on", "flash">>
      BY <1>0, <3>1 DEF Busy
    <3> QED  BY <1>5, <3>1, <3>2 DEF Flash, Done
  <2>2. LedTypes'
    BY <1>0, <2>1 DEF Busy
  <2>3. ASSUME ~overlap' PROVE OneAtATime' /\ WantedIsKept'
    <3>1. ~overlap /\ OneAtATime /\ WantedIsKept /\ Flashing = {} /\ level = wanted
      BY <2>1, <2>3 DEF LedInv, OneAtATime, WantedIsKept
    <3>2. Flashing' = {s} /\ flash'[s] = "started"
      BY <1>0, <2>1, <3>1 DEF Flashing
    <3>3. \A d \in Callers : at'[d] = "stop" /\ ~Busy(d)'
      BY <1>0, <2>1, <3>1 DEF OneAtATime, Busy
    <3> QED  BY <2>1, <3>1, <3>2, <3>3 DEF OneAtATime, WantedIsKept
  <2> QED  BY <2>2, <2>3 DEF LedInv
<1> QED  BY <1>1, <1>2, <1>3, <1>4, <1>5

\* A step of a thread that flashes keeps the level the LED goes back to.
LEMMA LedThreadSteps == ASSUME LedInv, NEW s \in Slots, FlashStep(s) PROVE LedInv'
<1> USE LedAssumption DEF LedTypes, LedTypeOK, Over, Jobs
<1>0. LedTypes
  BY DEF LedInv
<1>1. UNCHANGED <<blinker, stopping, todo, at, wanted, overlap>>
  BY DEF FlashStep, ReadLevel, Write, Pause, Again, LastCycle, Restore
<1>2. flash[s] \notin Over /\ \A t \in Slots : t # s => flash'[t] = flash[t]
  BY <1>0 DEF FlashStep, ReadLevel, Write, Pause, Again, LastCycle, Restore
<1>3. LedTypes'
  BY <1>0, <1>1 DEF FlashStep, ReadLevel, Write, Pause, Again, LastCycle, Restore, Busy
<1>4. ASSUME ~overlap PROVE OneAtATime' /\ WantedIsKept'
  <2>1. OneAtATime /\ WantedIsKept /\ Flashing = {s} /\ blinker = s
    BY <1>0, <1>2, <1>4 DEF LedInv, OneAtATime, Flashing
  <2>2. Flashing' \subseteq {s}
    BY <1>2, <2>1 DEF Flashing
  <2>3. OneAtATime'
    BY <1>1, <2>1, <2>2 DEF OneAtATime, Busy
  <2>4. flash[s] = "started" => level = wanted
    BY <2>1 DEF WantedIsKept
  <2>5. flash[s] # "started" => savedLevel[s] = wanted
    BY <2>1 DEF WantedIsKept
  <2>6. CASE flash'[s] \in Over
    <3>1. Flashing' = {} /\ level' = wanted
      BY <1>0, <1>1, <2>1, <2>2, <2>4, <2>5, <2>6
         DEF FlashStep, ReadLevel, Write, Pause, Again, LastCycle, Restore, Flashing
    <3> QED  BY <1>1, <2>3, <3>1 DEF WantedIsKept
  <2>7. CASE flash'[s] \notin Over
    <3>1. Flashing' = {s} /\ flash'[s] # "started" /\ savedLevel'[s] = wanted
      BY <1>0, <1>1, <2>1, <2>2, <2>4, <2>5, <2>7
         DEF FlashStep, ReadLevel, Write, Pause, Again, LastCycle, Restore, Flashing
    <3> QED  BY <1>1, <2>3, <3>1 DEF WantedIsKept
  <2> QED  BY <2>6, <2>7
<1> QED  BY <1>1, <1>3, <1>4 DEF LedInv

\* The level to go back to is kept, whatever flashes are started and stopped.
LEMMA LedInvariant == LedSpec => []LedInv
<1>1. LedInv /\ UNCHANGED ledVars => LedInv'
  BY DEF ledVars, LedInv, LedTypes, LedTypeOK, Busy, OneAtATime, WantedIsKept, Flashing
<1>2. LedInv /\ [LedNext]_ledVars => LedInv'
  BY <1>1, LedCallerSteps, LedThreadSteps DEF LedNext
<1> QED  BY <1>2, LedStarts, PTL DEF LedSpec

\* Left alone the LED shows what it was last set to, for any number of callers, and
\* of flash threads that cut one another short (StopBlink, Switch, Flash, Restore).
THEOREM LedShowsItsLevel == LedSpec => []LedIsRestored
<1>1. LedInv => LedIsRestored
  BY DEF LedInv, WantedIsKept, LedIsRestored, LedAtRest, Flashing
<1> QED  BY <1>1, LedInvariant, PTL

----------------------------------------------------------------------------
(* The key listeners.                                                         *)

KeysSpec == KeysInit /\ [][KeysNext]_keyVars

KeysTypes ==
  /\ KeysTypeOK
  /\ told \in [Listeners -> BOOLEAN] /\ mine \in [Askers -> SUBSET Listeners]
  /\ ended \in BOOLEAN
  /\ \A l \in Listeners : state[l] = "opening" => tries[l] < RetryCount
  /\ \A c \in Askers : mine[c] # {} => Inside(c) /\ \E l \in Listeners : mine[c] = {l}

Orderly == Live \ crossed

\* A listener that is not started yet is one caller's.
OwnListeners ==
  /\ \A c \in Askers : mine[c] \intersect Live = {}
  /\ \A b, c \in Askers : mine[b] = mine[c] /\ mine[b] # {} => b = c

\* Whoever is in activate and has met nobody there is alone, no orderly listener is
\* at its device, and the one it has enlisted is in the list and told what the others
\* are.
AloneInActivate ==
  /\ \A b, c \in Askers : Inside(b) /\ Inside(c) /\ b # c => c \in crossing
  /\ \A c \in Askers : Inside(c) /\ c \notin crossing =>
       /\ \A l \in Orderly : device[l] # asking[c]
       /\ mine[c] \subseteq listener
       /\ ended => \A l \in mine[c] \ unstopped : told[l]

KeysInv == KeysTypes /\ OwnListeners /\ AloneInActivate /\ OneListenerPerDevice

\* No device has a listener before one is asked for.
LEMMA KeysStart == KeysInit => KeysInv
<1> SUFFICES ASSUME KeysInit PROVE KeysInv
  OBVIOUS
<1> USE ListenersAssumption
<1>1. KeysTypes
  <2>1. /\ listener = {} /\ state \in [Listeners -> {"unused"}] /\ device \in [Listeners -> {NoDevice}]
        /\ tries \in [Listeners -> 0..RetryCount] /\ told \in [Listeners -> BOOLEAN]
        /\ asking \in [Askers -> {NoDevice}] /\ mine \in [Askers -> {{}}]
    BY DEF KeysInit
  <2>1a. ended \in BOOLEAN
    BY DEF KeysInit
  <2>2. \A c \in Askers : mine[c] = {}
    BY <2>1
  <2>3. \A l \in Listeners : state[l] # "opening"
    BY <2>1
  <2>4. mine \in [Askers -> SUBSET Listeners]
    BY <2>1
  <2> QED  BY <2>1, <2>1a, <2>2, <2>3, <2>4 DEF KeysTypes, KeysTypeOK, LiveStates
<1>2. Live = {} /\ \A c \in Askers : ~Inside(c) /\ mine[c] = {}
  BY DEF KeysInit, Live, LiveStates, Inside
<1> QED
  BY <1>1, <1>2 DEF KeysInv, OwnListeners, AloneInActivate, OneListenerPerDevice, Orderly

\* Forgetting listeners that ended leaves those that run,
LEMMA HousekeepingKeeps ==
  ASSUME KeysInv, NEW c \in Askers, NEW d \in Devices, Housekeeping(c, d)
  PROVE  KeysInv'
<1> USE ListenersAssumption DEF Inside
<1>1. /\ KeysTypes /\ asking[c] = NoDevice
      /\ listener' = listener \intersect Live /\ Live' = Live /\ Orderly' = Orderly
      /\ UNCHANGED <<state, device, tries, told, mine, ended, crossed, unstopped>>
  BY DEF KeysInv, Housekeeping, Live, Orderly
<1>2. asking' = [asking EXCEPT ![c] = IF InTheWay(d) THEN NoDevice ELSE d]
  BY DEF Housekeeping
<1>3. mine[c] = {} /\ \A b \in Askers : b # c => asking'[b] = asking[b]
  BY <1>1, <1>2 DEF KeysTypes, KeysTypeOK
<1>4. KeysTypes'
  <2>1. KeysTypeOK'
    BY <1>1, <1>2 DEF KeysTypes, KeysTypeOK
  <2>2. \A b \in Askers : mine[b] # {} => asking'[b] # NoDevice
    BY <1>1, <1>3 DEF KeysTypes
  <2> QED  BY <1>1, <2>1, <2>2 DEF KeysTypes
<1>5. OneListenerPerDevice' /\ OwnListeners'
  BY <1>1 DEF KeysInv, OneListenerPerDevice, OwnListeners
<1>6. AloneInActivate'
  <2>1. CASE \E b \in Askers : Inside(b)
    <3>1. crossing' = {b \in Askers : asking'[b] # NoDevice}
      BY <2>1 DEF Housekeeping, Cross
    <3> QED  BY <3>1 DEF AloneInActivate
  <2>2. CASE ~\E b \in Askers : Inside(b)
    <3>1. \A b \in Askers : asking'[b] # NoDevice => b = c /\ asking'[b] = d /\ ~InTheWay(d)
      BY <1>1, <1>2, <1>3, <2>2 DEF KeysTypes, KeysTypeOK
    <3>2. ~InTheWay(d) => \A l \in Orderly : device[l] # d
      <4>1. Orderly \subseteq Live \intersect listener
        BY DEF KeysInv, OneListenerPerDevice, Orderly
      <4> QED  BY <4>1 DEF InTheWay
    <3> QED  BY <1>1, <1>3, <3>1, <3>2 DEF AloneInActivate
  <2> QED  BY <2>1, <2>2
<1> QED  BY <1>4, <1>5, <1>6 DEF KeysInv

\* a listener is enlisted by one caller,
LEMMA EnlistKeeps ==
  ASSUME KeysInv, NEW c \in Askers, NEW l \in Listeners, Enlist(c, l)
  PROVE  KeysInv'
<1> USE ListenersAssumption DEF Inside
<1>1. /\ KeysTypes /\ asking[c] # NoDevice /\ l \in Fresh
      /\ listener' = listener \union {l} /\ mine' = [mine EXCEPT ![c] = {l}] /\ Live' = Live
      /\ told' = [told EXCEPT ![l] = FALSE] /\ Orderly' = Orderly
      /\ unstopped' = IF ended THEN unstopped \union {l} ELSE unstopped \ {l}
      /\ UNCHANGED <<state, device, tries, asking, ended, crossing, crossed>>
  BY DEF KeysInv, Enlist, Live, Orderly
<1>2. l \notin Live /\ (\A b \in Askers : mine[b] # {l})
  BY <1>1 DEF Fresh, Live, LiveStates
<1>3. /\ mine'[c] = {l} /\ (\A b \in Askers : b # c => mine'[b] = mine[b])
      /\ (\A k \in Listeners : k # l => told'[k] = told[k])
  BY <1>1 DEF KeysTypes
<1>4. KeysTypes'
  BY <1>1 DEF KeysTypes, KeysTypeOK
<1>5. OwnListeners'
  BY <1>1, <1>2, <1>3 DEF KeysInv, OwnListeners
<1>6. OneListenerPerDevice'
  BY <1>1, <1>2, <1>3 DEF KeysInv, OneListenerPerDevice, Live
<1>7. AloneInActivate'
  <2>1. ASSUME NEW b \in Askers, asking[b] # NoDevice, b \notin crossing, ended,
               NEW k \in mine'[b] \ unstopped'
        PROVE  told'[k]
    <3>1. k # l
      BY <1>1, <2>1
    <3>2. b # c /\ mine'[b] = mine[b] /\ k \in Listeners
      BY <1>1, <1>3, <2>1, <3>1 DEF KeysTypes
    <3>3. told[k]
      BY <1>1, <2>1, <3>2 DEF KeysInv, AloneInActivate
    <3> QED  BY <1>3, <3>1, <3>2, <3>3
  <2>2. \A b \in Askers : asking[b] # NoDevice /\ b \notin crossing => mine'[b] \subseteq listener'
    BY <1>1, <1>3 DEF KeysInv, AloneInActivate
  <2> QED  BY <1>1, <2>1, <2>2 DEF KeysInv, AloneInActivate
<1> QED  BY <1>4, <1>5, <1>6, <1>7 DEF KeysInv

\* and launched once it is;
LEMMA LaunchKeeps ==
  ASSUME KeysInv, NEW c \in Askers, NEW l \in Listeners, Launch(c, l)
  PROVE  KeysInv'
<1> USE ListenersAssumption DEF Inside
<1>1. /\ KeysTypes /\ mine[c] = {l} /\ asking[c] # NoDevice
      /\ state' = [state EXCEPT ![l] = "opening"]
      /\ device' = [device EXCEPT ![l] = asking[c]] /\ tries' = [tries EXCEPT ![l] = 0]
      /\ mine' = [mine EXCEPT ![c] = {}] /\ asking' = [asking EXCEPT ![c] = NoDevice]
      /\ crossing' = crossing \ {c}
      /\ crossed' = IF c \in crossing THEN crossed \union {l} ELSE crossed \ {l}
      /\ UNCHANGED <<listener, told, ended, unstopped>>
  BY DEF KeysInv, KeysTypes, Launch
<1>2. l \notin Live /\ \A b \in Askers : b # c => l \notin mine[b]
  BY <1>1 DEF KeysInv, OwnListeners, KeysTypes
<1>3. /\ Live' = Live \union {l} /\ device'[l] = asking[c]
      /\ \A k \in Live : device'[k] = device[k]
  BY <1>1, <1>2 DEF KeysTypes, KeysTypeOK, LiveStates, Live
<1>4. /\ mine'[c] = {} /\ asking'[c] = NoDevice
      /\ \A b \in Askers : b # c => mine'[b] = mine[b] /\ asking'[b] = asking[b]
  BY <1>1 DEF KeysTypes, KeysTypeOK
<1>5. KeysTypes'
  <2>1. KeysTypeOK'
    BY <1>1 DEF KeysTypes, KeysTypeOK, LiveStates
  <2>2. mine' \in [Askers -> SUBSET Listeners]
    BY <1>1 DEF KeysTypes
  <2>3. \A k \in Listeners : state'[k] = "opening" => tries'[k] < RetryCount
    BY <1>1 DEF KeysTypes, KeysTypeOK
  <2> QED  BY <1>1, <1>4, <2>1, <2>2, <2>3 DEF KeysTypes
<1>6. OwnListeners'
  BY <1>2, <1>3, <1>4 DEF KeysInv, OwnListeners
<1>7. CASE c \in crossing
  <2>1. Orderly' = Orderly /\ l \notin Orderly'
    BY <1>1, <1>2, <1>3, <1>7 DEF Orderly
  <2>2. OneListenerPerDevice'
    BY <1>1, <1>3, <2>1 DEF KeysInv, OneListenerPerDevice, Orderly
  <2>3. AloneInActivate'
    <3>1. \A k \in Orderly : device'[k] = device[k]
      BY <1>3 DEF Orderly
    <3> QED  BY <1>1, <1>4, <2>1, <3>1 DEF KeysInv, AloneInActivate
  <2> QED  BY <1>5, <1>6, <2>2, <2>3 DEF KeysInv
<1>8. CASE c \notin crossing
  <2>1. \A b \in Askers : b # c => asking[b] = NoDevice
    BY <1>1, <1>8 DEF KeysInv, AloneInActivate
  <2>2. Orderly' = Orderly \union {l}
    BY <1>1, <1>2, <1>3, <1>8 DEF Orderly
  <2>3. /\ \A k \in Orderly : device[k] # asking[c]
        /\ l \in listener /\ (ended /\ l \notin unstopped => told[l])
    BY <1>1, <1>8 DEF KeysInv, AloneInActivate
  <2>4. OneListenerPerDevice'
    BY <1>1, <1>3, <2>2, <2>3 DEF KeysInv, OneListenerPerDevice, Orderly
  <2>5. AloneInActivate'
    BY <1>4, <2>1 DEF AloneInActivate
  <2> QED  BY <1>5, <1>6, <2>4, <2>5 DEF KeysInv
<1> QED  BY <1>7, <1>8

\* A listener whose thread goes on, or ends.
LEMMA ThreadKeeps ==
  ASSUME KeysInv, NEW l \in Listeners, Open(l) \/ Hangup(l)
  PROVE  KeysInv'
<1> USE ListenersAssumption DEF Inside
<1>1. KeysTypes /\ UNCHANGED <<listener, device, told, asking, mine, ended, crossings>>
  BY DEF KeysInv, Open, Hangup
<1>2. KeysTypes' /\ Live' \subseteq Live
  <2>1. CASE Open(l)
    <3>1. /\ state[l] = "opening" /\ tries' = [tries EXCEPT ![l] = tries[l] + 1]
          /\ tries[l] < RetryCount /\ tries[l] \in Nat /\ tries'[l] = tries[l] + 1
          /\ state' = [state EXCEPT ![l] = state'[l]]
      BY <1>1, <2>1 DEF Open, KeysTypes, KeysTypeOK
    <3>2. /\ state'[l] \in {"listening", "dead", "opening"}
          /\ state'[l] = "opening" => tries'[l] # RetryCount
      BY <1>1, <2>1 DEF Open, KeysTypes, KeysTypeOK
    <3>3. KeysTypes'
      BY <1>1, <3>1, <3>2 DEF KeysTypes, KeysTypeOK, LiveStates
    <3> QED  BY <1>1, <3>1, <3>2, <3>3 DEF KeysTypes, KeysTypeOK, LiveStates, Live
  <2>2. CASE Hangup(l)
    BY <1>1, <2>2 DEF Hangup, KeysTypes, KeysTypeOK, LiveStates, Live
  <2> QED  BY <2>1, <2>2
<1>3. Orderly' \subseteq Orderly
  BY <1>1, <1>2 DEF Orderly, crossings
<1>4. OwnListeners' /\ AloneInActivate'
  BY <1>1, <1>2, <1>3 DEF KeysInv, OwnListeners, AloneInActivate, crossings
<1>5. OneListenerPerDevice'
  BY <1>1, <1>3 DEF KeysInv, OneListenerPerDevice, Orderly, crossings
<1> QED
  BY <1>2, <1>4, <1>5 DEF KeysInv

\* a stop tells all that are in the list.
LEMMA StopAllKeeps == KeysInv /\ StopAll => KeysInv'
<1> SUFFICES ASSUME KeysInv, StopAll PROVE KeysInv'
  OBVIOUS
<1>1. /\ KeysTypes /\ ended' = TRUE /\ Live' = Live /\ Orderly' = Orderly
      /\ told' = [l \in Listeners |-> told[l] \/ l \in listener]
      /\ UNCHANGED <<listener, state, device, tries, asking, mine>>
      /\ UNCHANGED <<crossing, crossed, unstopped>>
  BY DEF KeysInv, StopAll, Live, Orderly, crossings
<1>2. KeysTypes'
  <2>1. ended' \in BOOLEAN /\ told' \in [Listeners -> BOOLEAN]
    BY <1>1 DEF KeysTypes
  <2> QED  BY <1>1, <2>1 DEF KeysTypes, KeysTypeOK, Inside
<1>3. \A l \in listener : told'[l]
  BY <1>1 DEF KeysTypes, KeysTypeOK
<1>4. OneListenerPerDevice' /\ OwnListeners'
  BY <1>1, <1>3 DEF KeysInv, OneListenerPerDevice, OwnListeners, Live, Orderly
<1>5. AloneInActivate'
  BY <1>1, <1>3 DEF KeysInv, AloneInActivate, Inside
<1> QED
  BY <1>2, <1>4, <1>5 DEF KeysInv

\* A device's listeners are those in the list, and one of them runs at most.
LEMMA KeysInvariant == KeysSpec => []KeysInv
<1>1. KeysInv /\ UNCHANGED <<threads, asking, mine, ended, crossings>> => KeysInv'
  BY DEF threads, crossings, KeysInv, KeysTypes, KeysTypeOK, OwnListeners, AloneInActivate,
         OneListenerPerDevice, Live, Orderly, Inside
<1>2. ASSUME KeysInv, NEW d, NEW p, Plug(d, p) PROVE KeysInv'
  BY <1>1, <1>2 DEF Plug
<1>3. KeysInv /\ UNCHANGED keyVars => KeysInv'
  BY <1>1 DEF keyVars
<1>4. KeysInv /\ [KeysNext]_keyVars => KeysInv'
  BY <1>2, <1>3, HousekeepingKeeps, EnlistKeeps, LaunchKeeps, ThreadKeeps, StopAllKeeps
     DEF KeysNext
<1> QED  BY <1>4, KeysStart, PTL DEF KeysSpec

\* A key pressed once is one action: of any devices, with any threads that call
\* activate, whenever they do, none has two live listeners but for those whose own
\* callers met in activate; and the shutdown has told every other one that was
\* enlisted before it.
THEOREM NoKeyCountsTwice == KeysSpec => []OneListenerPerDevice
<1>1. KeysInv => OneListenerPerDevice
  BY DEF KeysInv, OneListenerPerDevice
<1> QED  BY <1>1, KeysInvariant, PTL

----------------------------------------------------------------------------
(* The battery monitor.                                                       *)

BatterySpec == BatteryInit /\ [][BatteryNext]_batteryVars

InRange(f) == \E lo, hi \in Samples : lo <= f \div Unit /\ f \div Unit <= hi

\* Where a warning is configured, a voltage below its threshold has called it, but
\* for a first reading.
BatteryInv ==
  /\ BatteryTypeOK /\ actions \subseteq {"warning", "clear"} /\ warned \in BOOLEAN
  /\ WarnedBeforeShutdown
  /\ "warning" \in actions /\ ~warned /\ "warning" \notin called /\ sudden # "start" =>
       fast \div Unit >= Warning

\* The integer part of a voltage is the steps that fit into it.
LEMMA Steps ==
  ASSUME NEW f \in Int, NEW n \in Int
  PROVE  /\ f \div Unit \in Int
         /\ (f \div Unit) * Unit <= f /\ f < (f \div Unit + 1) * Unit
         /\ n * Unit <= f => n <= f \div Unit
         /\ f < (n + 1) * Unit => f \div Unit <= n
<1> DEFINE q == f \div Unit
<1>1. Unit \in Int /\ Unit > 0
  BY BatteryAssumption
<1>2. q \in Int /\ Unit * q <= f /\ f < Unit * q + Unit
  BY <1>1
<1> HIDE DEF q
<1>3. q * Unit \in Int /\ n * Unit \in Int /\ Unit * q = q * Unit /\ (q + 1) * Unit = q * Unit + Unit
      /\ (n + 1) * Unit = n * Unit + Unit
  BY <1>1, <1>2
<1>4. q * Unit <= f /\ f < q * Unit + Unit
  BY <1>1, <1>2, <1>3
<1>5. ASSUME n > q PROVE n * Unit >= q * Unit + Unit
  <2>1. (n - q - 1) * Unit >= 0
    BY <1>1, <1>2, <1>5
  <2>2. (n - q - 1) * Unit = n * Unit - q * Unit - Unit
    BY <1>1, <1>2
  <2> QED  BY <1>1, <1>3, <2>1, <2>2
<1>6. ASSUME n < q PROVE q * Unit >= n * Unit + Unit
  <2>1. (q - n - 1) * Unit >= 0
    BY <1>1, <1>2, <1>6
  <2>2. (q - n - 1) * Unit = q * Unit - n * Unit - Unit
    BY <1>1, <1>2
  <2> QED  BY <1>1, <1>3, <2>1, <2>2
<1> QED  BY <1>1, <1>2, <1>3, <1>4, <1>5, <1>6 DEF q

\* A filter goes from where it is towards the sample, and not beyond it.
LEMMA FilterStaysBetween ==
  ASSUME NEW f \in Int, NEW v \in Int, NEW c \in 0..Unit
  PROVE  /\ Filter(f, c, v) \in Int
         /\ v >= f \div Unit => /\ f \div Unit <= Filter(f, c, v) \div Unit
                                /\ Filter(f, c, v) \div Unit <= v
         /\ v <= f \div Unit => /\ v <= Filter(f, c, v) \div Unit
                                /\ Filter(f, c, v) \div Unit <= f \div Unit
<1> DEFINE q == f \div Unit
           new == f + (v - q) * c
<1>1. Unit \in Nat /\ Unit > 0 /\ c \in Nat /\ c <= Unit
  BY BatteryAssumption
<1>2. q \in Int /\ q * Unit <= f /\ f < (q + 1) * Unit
  BY Steps
<1>3. Filter(f, c, v) = new
  BY DEF Filter
<1> HIDE DEF q
<1>4. (v - q) * c \in Int /\ new \in Int
  BY <1>1, <1>2
<1>5. (v - q) * Unit = v * Unit - q * Unit /\ (v + 1) * Unit = v * Unit + Unit
      /\ (q + 1) * Unit = q * Unit + Unit /\ v * Unit \in Int /\ q * Unit \in Int
  BY <1>1, <1>2
<1>6. CASE v >= q
  <2>1. (v - q) * c >= 0
    BY <1>1, <1>2, <1>6
  <2>2. (v - q) * (Unit - c) >= 0 /\ (v - q) * (Unit - c) = (v - q) * Unit - (v - q) * c
    BY <1>1, <1>2, <1>6
  <2>3. q * Unit <= new /\ new < (v + 1) * Unit
    BY <1>1, <1>2, <1>4, <1>5, <2>1, <2>2
  <2>4. q <= new \div Unit /\ new \div Unit <= v
    BY <1>2, <1>4, <2>3, Steps
  <2> QED  BY <1>2, <1>3, <1>4, <1>6, <2>4 DEF q
<1>7. CASE v <= q
  <2>1. (q - v) * c >= 0 /\ (q - v) * c = -((v - q) * c)
    BY <1>1, <1>2, <1>7
  <2>2. (q - v) * (Unit - c) >= 0 /\ (q - v) * (Unit - c) = (v - q) * c - (v - q) * Unit
    BY <1>1, <1>2, <1>7
  <2>3. v * Unit <= new /\ new < (q + 1) * Unit
    BY <1>1, <1>2, <1>4, <1>5, <2>1, <2>2
  <2>4. v <= new \div Unit /\ new \div Unit <= q
    BY <1>2, <1>4, <2>3, Steps
  <2> QED  BY <1>2, <1>3, <1>4, <1>7, <2>4 DEF q
<1> QED  BY <1>2, <1>6, <1>7 DEF q

\* The fast filter goes at most half of the way down.
LEMMA FastGoesHalfWay ==
  ASSUME NEW f \in Int, NEW v \in Int, NEW n \in Int, f \div Unit + v >= 2 * n
  PROVE  v <= f \div Unit => Filter(f, Half, v) \div Unit >= n
<1> SUFFICES ASSUME v <= f \div Unit PROVE Filter(f, Half, v) \div Unit >= n
  OBVIOUS
<1> DEFINE q == f \div Unit
           new == f + (v - q) * Half
<1>1. Unit \in Nat /\ Unit > 0 /\ Half \in Nat /\ 2 * Half <= Unit
  BY BatteryAssumption DEF Half
<1>2. q \in Int /\ q * Unit <= f
  BY Steps
<1>3. Filter(f, Half, v) = new
  BY DEF Filter
<1>4. v <= q /\ q + v >= 2 * n
  OBVIOUS
<1> HIDE DEF q
<1>5. (v - q) * Half \in Int /\ new \in Int /\ n * Unit \in Int /\ q * Unit \in Int /\ v * Unit \in Int
  BY <1>1, <1>2
<1>6. (q - v) * (Unit - 2 * Half) >= 0
      /\ (q - v) * (Unit - 2 * Half) = q * Unit - v * Unit + 2 * ((v - q) * Half)
  BY <1>1, <1>2, <1>4
<1>7. (q + v - 2 * n) * Unit >= 0 /\ (q + v - 2 * n) * Unit = q * Unit + v * Unit - 2 * (n * Unit)
  BY <1>1, <1>2, <1>4
<1>8. n * Unit <= new
  BY <1>2, <1>5, <1>6, <1>7
<1> QED  BY <1>3, <1>5, <1>8, Steps

\* A sample takes the filtered voltage half of the way to it: not past both thresholds.
LEMMA PublishStatusKeeps ==
  ASSUME BatteryInv, NEW v \in Samples, PublishStatus(v)
  PROVE  BatteryInv'
<1> USE DEF Ok, Warning, Shutdown
<1>1. Samples \subseteq Int /\ v \in Int /\ fast \in Int /\ slow \in Int
      /\ InRange(fast) /\ InRange(slow) /\ Half \in 0..Unit /\ Hundredth \in 0..Unit
  BY BatteryAssumption
     DEF BatteryInv, BatteryTypeOK, WarnedBeforeShutdown, InRange, Half, Hundredth
<1>2. fast' = Filter(fast, Half, v) /\ slow' = Filter(slow, Hundredth, v)
  BY DEF PublishStatus
<1>3. ASSUME NEW f \in Int, NEW c \in 0..Unit, InRange(f)
      PROVE  InRange(Filter(f, c, v)) /\ Filter(f, c, v) \div Unit \in Int
  <2>1. Filter(f, c, v) \in Int /\ f \div Unit \in Int /\ Filter(f, c, v) \div Unit \in Int
    BY <1>1, <1>3, FilterStaysBetween, Steps
  <2>2. PICK lo \in Samples, hi \in Samples : lo <= f \div Unit /\ f \div Unit <= hi
    BY <1>3 DEF InRange
  <2>3. CASE v >= f \div Unit
    <3>1. f \div Unit <= Filter(f, c, v) \div Unit /\ Filter(f, c, v) \div Unit <= v
      BY <1>1, <1>3, <2>3, FilterStaysBetween
    <3>2. lo <= Filter(f, c, v) \div Unit
      BY <1>1, <2>1, <2>2, <3>1
    <3> QED  BY <2>1, <3>1, <3>2 DEF InRange
  <2>4. CASE v <= f \div Unit
    <3>1. v <= Filter(f, c, v) \div Unit /\ Filter(f, c, v) \div Unit <= f \div Unit
      BY <1>1, <1>3, <2>4, FilterStaysBetween
    <3>2. Filter(f, c, v) \div Unit <= hi
      BY <1>1, <2>1, <2>2, <3>1
    <3> QED  BY <2>1, <3>1, <3>2 DEF InRange
  <2> QED  BY <1>1, <2>1, <2>3, <2>4
<1>4. InRange(fast') /\ InRange(slow') /\ fast' \in Int /\ slow' \in Int
  BY <1>1, <1>2, <1>3, FilterStaysBetween
<1> DEFINE voltage == fast' \div Unit
<1>5. voltage \in Int
  BY <1>4, Steps
<1>6. /\ called' = CallsAt(voltage) /\ actions' = actions
      /\ warned' = (voltage <= Ok /\ (warned \/ "warning" \in called))
      /\ sudden' = IF TooLow(v) \/ sudden = "start" THEN "yes" ELSE "no"
      /\ charging' \in {0, 1}
  BY DEF PublishStatus
<1>7. ASSUME "warning" \in actions, ~warned, "warning" \notin called, sudden' = "no"
      PROVE  voltage >= Shutdown
  <2>1. fast \div Unit \in Int /\ fast \div Unit >= Warning /\ v >= 27
    BY <1>1, <1>6, <1>7, Steps DEF BatteryInv, TooLow
  <2>2. CASE v <= fast \div Unit
    <3>1. fast \div Unit + v >= 2 * 30
      BY <1>1, <2>1
    <3> QED  BY <1>1, <1>2, <2>2, <3>1, FastGoesHalfWay
  <2>3. CASE v >= fast \div Unit
    <3>1. fast \div Unit <= voltage
      BY <1>1, <1>2, <2>3, FilterStaysBetween
    <3> QED  BY <1>5, <2>1, <3>1
  <2> QED  BY <1>1, <2>1, <2>2, <2>3
<1> HIDE DEF voltage
<1>8. BatteryTypeOK' /\ actions' \subseteq {"warning", "clear"} /\ warned' \in BOOLEAN
  BY <1>4, <1>6 DEF BatteryInv, BatteryTypeOK, CallsAt
<1>9. ASSUME "shutdown" \in called', "warning" \in actions', sudden' = "no" PROVE warned'
  <2>1. "shutdown" \in CallsAt(voltage) /\ actions \subseteq {"warning", "clear"}
    BY <1>6, <1>9 DEF BatteryInv
  <2>2. voltage < Shutdown
    BY <2>1 DEF CallsAt
  <2>3. ~(voltage >= Shutdown) /\ voltage <= Ok
    BY <1>5, <2>2
  <2>4. warned \/ "warning" \in called
    BY <1>6, <1>7, <1>9, <2>3
  <2> QED  BY <1>6, <2>3, <2>4
<1>10. WarnedBeforeShutdown'
  BY <1>4, <1>9 DEF WarnedBeforeShutdown, InRange
<1>11. ASSUME "warning" \in actions', "warning" \notin called' PROVE fast' \div Unit >= Warning
  <2>1. ~(voltage < Warning)
    BY <1>6, <1>11 DEF CallsAt
  <2> QED  BY <1>5, <2>1 DEF voltage
<1> QED  BY <1>8, <1>10, <1>11 DEF BatteryInv

\* The filtered voltage passes the warning's threshold before the shutdown's.
LEMMA BatteryInvariant == BatterySpec => []BatteryInv
<1>1. BatteryInit => BatteryInv
  <2> SUFFICES ASSUME NEW v \in Samples, fast = v * Unit, slow = v * Unit, charging = 0,
                      actions \in SUBSET {"warning", "clear"}, called = {}, warned = FALSE,
                      sudden = IF v < Warning THEN "start" ELSE "no"
               PROVE  BatteryInv
    BY DEF BatteryInit
  <2>1. v \in Int /\ Unit \in Int /\ Unit > 0
    BY BatteryAssumption
  <2>2. v * Unit \in Int /\ v * Unit < (v + 1) * Unit
    BY <2>1
  <2>3. fast \div Unit = v
    BY <2>1, <2>2, Steps
  <2>4. WarnedBeforeShutdown
    BY <2>1, <2>3 DEF WarnedBeforeShutdown
  <2>5. fast \in Int /\ (sudden # "start" => fast \div Unit >= Warning)
    BY <2>1, <2>2, <2>3 DEF Warning
  <2>6. BatteryTypeOK
    BY <2>5 DEF BatteryTypeOK
  <2>7. warned \in BOOLEAN
    OBVIOUS
  <2> QED  BY <2>4, <2>5, <2>6, <2>7 DEF BatteryInv
<1>2. BatteryInv /\ [BatteryNext]_batteryVars => BatteryInv'
  <2>1. BatteryInv /\ UNCHANGED batteryVars => BatteryInv'
    BY DEF batteryVars, BatteryInv, BatteryTypeOK, WarnedBeforeShutdown
  <2> QED  BY <2>1, PublishStatusKeeps DEF BatteryNext
<1> QED  BY <1>1, <1>2, PTL DEF BatterySpec

\* Whatever the converter reads, from the first reading on, and however precise the
\* filters: where a warning is configured, the box is not shut down for a low battery
\* that no earlier reading warned of, unless one single sample took it there, or the
\* box was started like that.
THEOREM ShutdownsAreAnnounced == BatterySpec => [](BatteryTypeOK /\ WarnedBeforeShutdown)
<1>1. BatteryInv => BatteryTypeOK /\ WarnedBeforeShutdown
  BY DEF BatteryInv
<1> QED  BY <1>1, BatteryInvariant, PTL

----------------------------------------------------------------------------
(* The buttons.                                                               *)

ButtonsSpec == ButtonsInit /\ [][ButtonsNext]_buttonVars

ButtonsTypes ==
  /\ ButtonsTypeOK
  /\ config \in [kind : Kinds, long : SUBSET {"a", "b", "ab"}, repeat : BOOLEAN]
  /\ late \in BOOLEAN
  /\ down \subseteq Installed
  /\ \A i \in 1..Len(edges) : edges[i][2] \in Installed
  /\ \A p \in Pins : hold[p] # "off" => p \in Installed
  /\ twin # IdlePair => config.kind = "twin"

\* The release of p is still to come, or to be delivered.
OwesUp(p) == p \in down \/ \E i \in 1..Len(edges) : edges[i] = <<"up", p>>

\* Every press that is not delivered yet is followed by its release, or not over.
PressesAreReleased ==
  \A i \in 1..Len(edges) : edges[i][1] = "edge" =>
    edges[i][2] \in down \/ \E j \in (i + 1)..Len(edges) : edges[j] = <<"up", edges[i][2]>>

\* A state in which the button waits for a release: there is one to come.
WaitsForARelease ==
  /\ twin.at = "hold" => OwesUp(twin.pin)
  /\ twin.at = "contAB" => OwesUp("a") /\ OwesUp("b")
  /\ twin # IdlePair /\ down = {} => edges # <<>>
  /\ \A p \in Pins : hold[p] = "running" => OwesUp(p)

\* The pins that are pressed as far as delivered, when at most one edge is pending.
Felt == IF edges = <<>> THEN down
        ELSE IF edges[1][1] = "edge" THEN down \ {edges[1][2]} ELSE down \union {edges[1][2]}

\* With events delivered in time at most one is pending, no hold with it, and holds
\* are of buttons that are pressed.
InTime ==
  /\ edges = <<>> \/ (Len(edges) = 1 /\ \A p \in Pins : hold[p] # "due")
  /\ edges # <<>> => (edges[1][1] = "edge" <=> edges[1][2] \in down)
  /\ \A p \in Pins : hold[p] # "off" => p \in Felt
  /\ Felt \union down \subseteq pressed
  /\ pressed # {} => first \in pressed

\* The input has just begun, and nothing has been done.
FirstPress(p) == first = p /\ pressed = {p} /\ calls = {}

Allowed == {"short", "long"} \X ({first} \union IF Twin \subseteq pressed THEN {"ab"} ELSE {})

\* What each state of a twin button says of the pins and of the calls so far.
TwinKnows ==
  CASE twin.at = "idle" ->
         Felt = {} /\ (edges # <<>> => FirstPress(edges[1][2]))
           /\ (calls = {} \/ \E c \in Allowed : calls = {c})
    [] twin.at = "hold" -> Felt = {twin.pin} /\ first = twin.pin /\ calls = {}
    [] twin.at = "cont" -> Felt = {twin.pin} /\ first = twin.pin /\ calls = {<<"long", first>>}
    [] twin.at = "contAB" -> Felt = Twin /\ calls = {} 
    [] OTHER -> Felt # {} /\ \E c \in Allowed : calls = {c}

SingleKnows ==
  /\ pressed \subseteq {Single}
  /\ calls \subseteq {<<"short", Single>>, <<"long", Single>>} /\ (calls # {} => pressed # {})
  /\ Felt = {} /\ edges # <<>> => FirstPress(Single)
  /\ config.kind = "button" => <<"long", Single>> \notin calls
  /\ config.kind = "longPress" => <<"short", Single>> \notin calls
  /\ config.kind = "shortLong" =>
       IF Felt = {} THEN pressed # {} /\ edges = <<>> => calls # {}
                    ELSE calls = IF isLong THEN {<<"long", Single>>} ELSE {}
  /\ config.kind = "shortLong" => \E c \in Allowed : calls \subseteq {c}

ButtonsInv ==
  /\ ButtonsTypes /\ PressesAreReleased /\ WaitsForARelease
  /\ late \/ (InTime /\ IF config.kind = "twin" THEN TwinKnows ELSE SingleKnows)

\* What an event does in each state of the twin button.
LEMMA TwinEventIs ==
  ASSUME ButtonsTypes, NEW k \in {"edge", "up", "hold"}, NEW q \in Twin, TwinEvent(<<k, q>>)
  PROVE  /\ twin.at = "idle" =>
              calls' = calls /\ twin' = IF k = "edge" THEN At("hold", q) ELSE IdlePair
         /\ twin.at = "hold" =>
              CASE k = "hold" /\ q = twin.pin ->
                     \/ twin' = At("cont", q) /\ calls' = calls \union {<<"long", q>>}
                     \/ twin' = Wait /\ calls' = calls \union {<<"short", q>>}
                [] k = "edge" /\ q # twin.pin ->
                     \/ twin' = At("contAB", q) /\ calls' = calls
                     \/ twin' = Wait /\ calls' = calls \union {<<"short", "ab">>}
                [] k = "edge" /\ q = twin.pin -> twin' = twin /\ calls' = calls
                [] OTHER -> twin' = IdlePair /\ calls' = calls \union {<<"short", twin.pin>>}
         /\ twin.at = "cont" =>
              CASE k = "hold" /\ q = twin.pin ->
                     twin' = twin /\ calls' = calls \union {<<"long", q>>}
                [] OTHER -> calls' = calls /\ twin' = IF TwinUp THEN IdlePair ELSE Wait
         /\ twin.at = "contAB" =>
              CASE k = "hold" /\ q = twin.pin ->
                     twin' = Wait /\ calls' = calls \union {<<"long", "ab">>}
                [] k = "hold" /\ q # twin.pin -> twin' = twin /\ calls' = calls
                [] OTHER -> twin' = Wait /\ calls' = calls \union {<<"short", "ab">>}
         /\ twin.at = "wait4release" =>
              calls' = calls /\ twin' = IF TwinUp THEN IdlePair ELSE Wait
         /\ twin.at \in {"idle", "hold", "cont", "contAB", "wait4release"}
         /\ twin.at \in {"hold", "cont", "contAB"} => twin.pin \in Twin /\ twin = At(twin.at, twin.pin)
         /\ (twin.at = "idle" <=> twin = IdlePair) /\ (twin.at = "wait4release" <=> twin = Wait)
<1> DEFINE e == <<k, q>>
           next == ChangeState(e)
<1>1. twin' = next[1] /\ calls' = IF next[2] = None THEN calls ELSE calls \union {next[2]}
  BY DEF TwinEvent, Run
<1>2. /\ twin.at \in {"idle", "hold", "cont", "contAB", "wait4release"}
      /\ twin.at \in {"hold", "cont", "contAB"} => twin.pin \in Twin /\ twin = At(twin.at, twin.pin)
      /\ (twin.at = "idle" <=> twin = IdlePair) /\ (twin.at = "wait4release" <=> twin = Wait)
  BY DEF ButtonsTypes, ButtonsTypeOK, IdlePair, Wait, At
<1>3. e[1] = k /\ e[2] = q
  OBVIOUS
<1>4. ASSUME NEW x, NEW y, next = <<x, y>> 
      PROVE  twin' = x /\ calls' = IF y = None THEN calls ELSE calls \union {y}
  BY <1>1, <1>4
<1>5. \A p : (e = <<"hold", p>> <=> k = "hold" /\ q = p) /\ (e = <<"edge", p>> <=> k = "edge" /\ q = p)
  OBVIOUS
<1>6. \A s \in {"short", "long"} : \A p : <<s, p>> # None
  BY DEF None
<1> HIDE DEF e, next
<1>7. CASE twin.at = "idle"
  BY <1>2, <1>3, <1>4, <1>7 DEF next, ChangeState, FromIdle
<1>8. CASE twin.at = "hold"
  <2> DEFINE p == twin.pin
  <2>1. next = FromHold(p, e) /\ p \in Twin
    BY <1>2, <1>8 DEF next, ChangeState
  <2>2. CASE k = "hold" /\ q = p
    <3>1. next = IF p \in config.long THEN <<At("cont", p), <<"long", p>>>>
                                      ELSE <<Wait, <<"short", p>>>>
      BY <1>5, <2>1, <2>2 DEF FromHold, OtherPin, Twin
    <3> QED  BY <1>2, <1>4, <1>6, <1>8, <2>2, <3>1
  <2>3. CASE k = "edge" /\ q # p
    <3>1. q = OtherPin(p)
      BY <2>1, <2>3 DEF OtherPin, Twin
    <3>2. next = IF "ab" \in config.long THEN <<At("contAB", q), None>>
                                         ELSE <<Wait, <<"short", "ab">>>>
      BY <1>5, <2>1, <2>3, <3>1 DEF FromHold
    <3> QED  BY <1>2, <1>4, <1>6, <1>8, <2>3, <3>2
  <2>4. CASE k = "edge" /\ q = p
    <3>1. q # OtherPin(p)
      BY <2>1, <2>4 DEF OtherPin, Twin
    <3>2. next = <<At("hold", p), None>>
      BY <1>5, <2>1, <2>4, <3>1 DEF FromHold
    <3> QED  BY <1>2, <1>4, <1>8, <2>4, <3>2
  <2>5. CASE k = "up" \/ (k = "hold" /\ q # p)
    <3>1. next = <<IdlePair, <<"short", p>>>>
      BY <1>5, <2>1, <2>5 DEF FromHold
    <3> QED  BY <1>2, <1>4, <1>6, <1>8, <2>5, <3>1
  <2> QED  BY <2>2, <2>3, <2>4, <2>5
<1>9. CASE twin.at = "cont"
  <2>1. next = FromCont(twin.pin, e)
    BY <1>2, <1>9 DEF next, ChangeState
  <2>2. next = IF k = "hold" /\ q = twin.pin THEN <<At("cont", twin.pin), <<"long", twin.pin>>>>
               ELSE IF TwinUp THEN <<IdlePair, None>> ELSE <<Wait, None>>
    BY <1>5, <2>1 DEF FromCont
  <2> QED  BY <1>2, <1>4, <1>6, <1>9, <2>2
<1>10. CASE twin.at = "contAB"
  <2>1. next = FromContAB(twin.pin, e) /\ twin.pin \in Twin
    BY <1>2, <1>10 DEF next, ChangeState
  <2>2. next = IF k = "hold" /\ q = twin.pin THEN <<Wait, <<"long", "ab">>>>
               ELSE IF k = "hold" THEN <<At("contAB", twin.pin), None>>
               ELSE <<Wait, <<"short", "ab">>>>
    BY <1>5, <2>1 DEF FromContAB, OtherPin, Twin
  <2> QED  BY <1>2, <1>4, <1>6, <1>10, <2>2
<1>11. CASE twin.at = "wait4release"
  BY <1>2, <1>4, <1>11 DEF next, ChangeState, FromWait
<1> QED  BY <1>2, <1>7, <1>8, <1>9, <1>10, <1>11

\* What the three kinds of one button do with an event, case by case.
LEMMA SingleEventIs ==
  ASSUME config.kind \in {"button", "longPress", "shortLong"},
         NEW k \in {"edge", "up", "hold"}, SingleEvent(<<k, Single>>)
  PROVE  /\ twin' = twin
         /\ isLong' = IF k = "edge" THEN FALSE ELSE IF k = "hold" THEN TRUE ELSE isLong
         /\ config.kind = "button" =>
              calls' = IF k = "edge" \/ (k = "hold" /\ config.repeat)
                       THEN calls \union {<<"short", Single>>} ELSE calls
         /\ config.kind = "longPress" =>
              calls' = IF k = "hold" THEN calls \union {<<"long", Single>>} ELSE calls
         /\ config.kind = "shortLong" =>
              calls' = IF k = "hold" THEN calls \union {<<"long", Single>>}
                       ELSE IF k = "up" /\ ~isLong THEN calls \union {<<"short", Single>>}
                       ELSE calls
<1> DEFINE e == <<k, Single>>
<1>1. e[1] = k /\ <<"short", Single>> # None /\ <<"long", Single>> # None
  BY DEF None
<1>2. twin' = twin
  BY DEF SingleEvent
<1>3. isLong' = IF k = "edge" THEN FALSE ELSE IF k = "hold" THEN TRUE ELSE isLong
  BY <1>1 DEF SingleEvent
<1>4. config.kind = "button" =>
        calls' = IF k = "edge" \/ (k = "hold" /\ config.repeat)
                 THEN calls \union {<<"short", Single>>} ELSE calls
  BY <1>1 DEF SingleEvent, Run
<1>5. config.kind = "longPress" =>
        calls' = IF k = "hold" THEN calls \union {<<"long", Single>>} ELSE calls
  BY <1>1 DEF SingleEvent, Run
<1>6. config.kind = "shortLong" =>
        calls' = IF k = "hold" THEN calls \union {<<"long", Single>>}
                 ELSE IF k = "up" /\ ~isLong THEN calls \union {<<"short", Single>>}
                 ELSE calls
  BY <1>1 DEF SingleEvent, Run
<1> QED  BY <1>2, <1>3, <1>4, <1>5, <1>6

\* Buttons begin up, with nothing in hand.
LEMMA ButtonsStart == ButtonsInit => ButtonsInv
<1> SUFFICES ASSUME ButtonsInit PROVE ButtonsInv
  OBVIOUS
<1> USE ButtonsAssumption
<1>1. edges = <<>> /\ Len(edges) = 0 /\ down = {} /\ calls = {} /\ pressed = {} /\ ~late
      /\ late \in BOOLEAN /\ twin = IdlePair /\ twin.at = "idle"
      /\ \A p \in Pins : hold[p] = "off"
  BY DEF ButtonsInit, IdlePair, At
<1>2. ButtonsTypes
  <2>1. ButtonsTypeOK
    <3>1. edges \in Seq({"edge", "up"} \X Pins) /\ Len(edges) <= MaxLag
      BY <1>1
    <3>2. hold \in [Pins -> {"off", "running", "due"}] /\ isLong \in BOOLEAN
      BY DEF ButtonsInit
    <3> QED  BY <1>1, <3>1, <3>2 DEF ButtonsTypeOK
  <2> QED  BY <1>1, <2>1 DEF ButtonsInit, ButtonsTypes
<1>3. PressesAreReleased /\ WaitsForARelease
  BY <1>1 DEF PressesAreReleased, WaitsForARelease, IdlePair, At
<1>4. Felt = {}
  BY <1>1 DEF Felt
<1>5. InTime
  BY <1>1, <1>4 DEF InTime
<1>6. TwinKnows
  BY <1>1, <1>4 DEF TwinKnows
<1>7. SingleKnows
  <2>1. <<"short", first>> \in Allowed
    BY DEF Allowed
  <2> QED  BY <1>1, <1>4, <2>1 DEF SingleKnows
<1> QED  BY <1>2, <1>3, <1>5, <1>6, <1>7 DEF ButtonsInv

\* The kinds of events there are.
LEMMA EventsOf ==
  ASSUME ButtonsTypes
  PROVE  /\ Len(edges) \in Nat /\ DOMAIN edges = 1..Len(edges)
         /\ edges # <<>> <=> Len(edges) > 0
         /\ \A i \in 1..Len(edges) : \E k \in {"edge", "up"}, q \in Installed :
              edges[i] = <<k, q>> /\ edges[i][1] = k /\ edges[i][2] = q
         /\ Installed = IF config.kind = "twin" THEN Twin ELSE {Single}
         /\ Installed \subseteq Pins /\ config.kind \in Kinds
<1>1. edges \in Seq({"edge", "up"} \X Pins)
  BY DEF ButtonsTypes, ButtonsTypeOK
<1>2. \A i \in 1..Len(edges) : edges[i] \in {"edge", "up"} \X Pins /\ edges[i][2] \in Installed
  BY <1>1 DEF ButtonsTypes
<1>3. /\ Installed = IF config.kind = "twin" THEN Twin ELSE {Single}
      /\ Installed \subseteq Pins /\ config.kind \in Kinds
  BY DEF ButtonsTypes, Installed, Pins
<1> QED  BY <1>1, <1>2, <1>3

----------------------------------------------------------------------------
(* The types, and the releases to come, whatever was delivered late.          *)

\* An edge is what a pin does, and comes after those not delivered yet.
LEMMA EdgeIs ==
  ASSUME ButtonsTypes, NEW p \in Installed, Edge(p)
  PROVE  /\ Len(edges') = Len(edges) + 1 /\ Len(edges') <= MaxLag
         /\ edges' \in Seq({"edge", "up"} \X Pins) /\ edges' # <<>>
         /\ \A i \in 1..Len(edges) : edges'[i] = edges[i]
         /\ edges'[Len(edges) + 1] = <<IF p \in down THEN "up" ELSE "edge", p>>
         /\ down' = IF p \in down THEN down \ {p} ELSE down \union {p}
         /\ UNCHANGED <<config, hold, twin, isLong>> /\ Installed' = Installed
<1> DEFINE e == <<IF p \in down THEN "up" ELSE "edge", p>>
<1>1. edges \in Seq({"edge", "up"} \X Pins) /\ Len(edges) < MaxLag /\ edges' = Append(edges, e)
  BY DEF Edge, ButtonsTypes, ButtonsTypeOK
<1>2. e \in {"edge", "up"} \X Pins
  BY EventsOf
<1> HIDE DEF e
<1>3. /\ edges' \in Seq({"edge", "up"} \X Pins) /\ edges' # <<>> /\ Len(edges') = Len(edges) + 1
      /\ \A i \in 1..Len(edges) : edges'[i] = edges[i]
      /\ edges'[Len(edges) + 1] = e
  BY <1>1, <1>2, AppendProperties
<1>4. Len(edges) \in Nat /\ MaxLag \in Nat
  BY <1>1, ButtonsAssumption, LenProperties
<1>5. /\ down' = IF p \in down THEN down \ {p} ELSE down \union {p}
      /\ UNCHANGED <<config, hold, twin, isLong>> /\ Installed' = Installed
  BY DEF Edge, Installed
<1> QED  BY <1>1, <1>3, <1>4, <1>5 DEF e

\* What is delivered is the first of them, to the button that is installed.
LEMMA DeliverIs ==
  ASSUME ButtonsTypes, Deliver
  PROVE  \E k \in {"edge", "up"}, q \in Installed :
           /\ edges # <<>> /\ edges[1] = <<k, q>> /\ edges[1][1] = k /\ edges[1][2] = q
           /\ Len(edges') = Len(edges) - 1 /\ edges' \in Seq({"edge", "up"} \X Pins)
           /\ \A i \in 1..Len(edges') : edges'[i] = edges[i + 1]
           /\ IF config.kind = "twin" THEN TwinEvent(<<k, q>>) ELSE SingleEvent(<<k, q>>)
           /\ hold' = [hold EXCEPT ![q] = IF @ = "due" THEN "due"
                                          ELSE IF k = "edge" THEN "running" ELSE "off"]
           /\ UNCHANGED <<config, down, input>> /\ Installed' = Installed
<1>1. edges # <<>> /\ edges \in Seq({"edge", "up"} \X Pins) /\ edges' = Tail(edges)
  BY DEF Deliver, ButtonsTypes, ButtonsTypeOK
<1>2. /\ Head(edges) = edges[1] /\ edges' \in Seq({"edge", "up"} \X Pins)
      /\ Len(edges') = Len(edges) - 1 /\ \A i \in 1..Len(edges') : edges'[i] = edges[i + 1]
  BY <1>1, HeadTailProperties
<1>3. PICK k \in {"edge", "up"}, q \in Installed :
        edges[1] = <<k, q>> /\ edges[1][1] = k /\ edges[1][2] = q
  BY <1>1, EventsOf
<1>4. /\ IF q = Single THEN SingleEvent(<<k, q>>) ELSE TwinEvent(<<k, q>>)
      /\ hold' = [hold EXCEPT ![q] = IF @ = "due" THEN "due"
                                     ELSE IF k = "edge" THEN "running" ELSE "off"]
      /\ UNCHANGED <<config, down, input>>
  BY <1>2, <1>3 DEF Deliver
<1>5. q = Single <=> config.kind # "twin"
  BY EventsOf DEF Twin, Single
<1> QED  BY <1>1, <1>2, <1>3, <1>4, <1>5 DEF Installed

\* The end of a hold time is one event of the pin, and the hold begins anew if it
\* repeats.
LEMMA HeldIs ==
  ASSUME ButtonsTypes, NEW p \in Installed, Held(p)
  PROVE  /\ hold[p] = "due"
         /\ IF config.kind = "twin" THEN TwinEvent(<<"hold", p>>) ELSE SingleEvent(<<"hold", p>>)
         /\ hold' = [hold EXCEPT ![p] = IF config.repeat /\ p \in down THEN "running" ELSE "off"]
         /\ UNCHANGED <<config, down, edges, input>> /\ Installed' = Installed
<1>1. p = Single <=> config.kind # "twin"
  BY EventsOf DEF Twin, Single
<1> QED  BY <1>1 DEF Held, Installed

\* An event leaves the button's state and the calls within their types.
LEMMA EventTypes ==
  ASSUME ButtonsTypes, NEW k \in {"edge", "up", "hold"}, NEW q \in Installed,
         IF config.kind = "twin" THEN TwinEvent(<<k, q>>) ELSE SingleEvent(<<k, q>>)
  PROVE  /\ twin' \in {IdlePair, Wait} \union [at : {"hold", "cont", "contAB"}, pin : Twin]
         /\ isLong' \in BOOLEAN /\ calls' \subseteq {"short", "long"} \X {"a", "b", "ab", "c"}
         /\ twin' # IdlePair => config.kind = "twin"
<1>1. /\ calls \subseteq {"short", "long"} \X {"a", "b", "ab", "c"} /\ isLong \in BOOLEAN
      /\ twin \in {IdlePair, Wait} \union [at : {"hold", "cont", "contAB"}, pin : Twin]
  BY DEF ButtonsTypes, ButtonsTypeOK
<1>2. CASE config.kind = "twin"
  <2>1. q \in Twin /\ TwinEvent(<<k, q>>)
    BY <1>2, EventsOf
  <2>2. \A s \in {"hold", "cont", "contAB"}, r \in Twin :
          At(s, r) \in [at : {"hold", "cont", "contAB"}, pin : Twin]
    BY DEF At
  <2>3. isLong' = isLong
    BY <2>1 DEF TwinEvent
  <2>4. \A s \in {"short", "long"}, r \in Twin \union {"ab"} :
          <<s, r>> \in {"short", "long"} \X {"a", "b", "ab", "c"}
    BY DEF Twin
  <2>5. twin' \in {IdlePair, Wait} \union [at : {"hold", "cont", "contAB"}, pin : Twin]
    BY <1>1, <2>1, <2>2, TwinEventIs
  <2>6. calls' \subseteq {"short", "long"} \X {"a", "b", "ab", "c"}
    BY <1>1, <2>1, <2>4, TwinEventIs
  <2> QED  BY <1>1, <1>2, <2>3, <2>5, <2>6
<1>3. CASE config.kind # "twin"
  <2>1. /\ q = Single /\ SingleEvent(<<k, q>>) /\ twin = IdlePair
        /\ config.kind \in {"button", "longPress", "shortLong"}
    BY <1>3, EventsOf DEF Kinds, ButtonsTypes
  <2>2. <<"short", Single>> \in {"short", "long"} \X {"a", "b", "ab", "c"}
        /\ <<"long", Single>> \in {"short", "long"} \X {"a", "b", "ab", "c"}
    BY DEF Single
  <2> QED  BY <1>1, <2>1, <2>2, SingleEventIs
<1> QED  BY <1>2, <1>3

Untimed == ButtonsTypes /\ PressesAreReleased /\ WaitsForARelease

\* An edge keeps the types,
LEMMA EdgeKeepsTypes ==
  ASSUME ButtonsTypes, NEW p \in Installed, Edge(p) PROVE ButtonsTypes'
<1>1. /\ edges' \in Seq({"edge", "up"} \X Pins) /\ Len(edges') <= MaxLag
      /\ Len(edges') = Len(edges) + 1 /\ Len(edges) \in Nat
      /\ \A i \in 1..Len(edges) : edges'[i] = edges[i]
      /\ edges'[Len(edges) + 1][2] = p
      /\ down' = IF p \in down THEN down \ {p} ELSE down \union {p}
      /\ UNCHANGED <<config, hold, twin, isLong>> /\ Installed' = Installed /\ p \in Pins
  BY EdgeIs, EventsOf
<1>2. \A i \in 1..Len(edges') : edges'[i][2] \in Installed
  <2>1. \A i \in 1..Len(edges) : edges[i][2] \in Installed
    BY DEF ButtonsTypes
  <2>2. \A i \in 1..Len(edges') : i \in 1..Len(edges) \/ i = Len(edges) + 1
    BY <1>1
  <2> QED  BY <1>1, <2>1, <2>2
<1>3. late' \in BOOLEAN /\ calls' \subseteq {"short", "long"} \X {"a", "b", "ab", "c"}
  BY DEF Edge, ButtonsTypes, ButtonsTypeOK, AtRest
<1>4. ButtonsTypeOK'
  BY <1>1, <1>3 DEF ButtonsTypes, ButtonsTypeOK
<1>5. down' \subseteq Installed
  BY <1>1 DEF ButtonsTypes
<1> QED  BY <1>1, <1>2, <1>3, <1>4, <1>5 DEF ButtonsTypes

\* and owes a release if it was a press.
LEMMA EdgeOwes ==
  ASSUME Untimed, NEW p \in Installed, Edge(p)
  PROVE  /\ \A x \in Pins : OwesUp(x) => OwesUp(x)'
         /\ PressesAreReleased' /\ WaitsForARelease'
<1>1. /\ Len(edges') = Len(edges) + 1 /\ Len(edges) \in Nat /\ edges' # <<>>
      /\ \A i \in 1..Len(edges) : edges'[i] = edges[i]
      /\ edges'[Len(edges) + 1] = <<IF p \in down THEN "up" ELSE "edge", p>>
      /\ down' = IF p \in down THEN down \ {p} ELSE down \union {p}
      /\ UNCHANGED <<config, hold, twin, isLong>>
  BY EdgeIs, EventsOf DEF Untimed
<1>2. \A x \in Pins : OwesUp(x) => OwesUp(x)'
  <2> SUFFICES ASSUME NEW x \in Pins, OwesUp(x) PROVE OwesUp(x)'
    OBVIOUS
  <2>1. CASE x \in down /\ x = p
    BY <1>1, <2>1 DEF OwesUp
  <2>2. CASE x \in down /\ x # p
    BY <1>1, <2>2 DEF OwesUp
  <2>3. CASE \E i \in 1..Len(edges) : edges[i] = <<"up", x>>
    BY <1>1, <2>3 DEF OwesUp
  <2> QED  BY <2>1, <2>2, <2>3 DEF OwesUp
<1>3. PressesAreReleased'
  <2> SUFFICES ASSUME NEW i \in 1..Len(edges'), edges'[i][1] = "edge"
               PROVE  edges'[i][2] \in down'
                      \/ \E j \in (i + 1)..Len(edges') : edges'[j] = <<"up", edges'[i][2]>>
    BY DEF PressesAreReleased
  <2>1. CASE i = Len(edges) + 1
    BY <1>1, <2>1
  <2>2. CASE i \in 1..Len(edges)
    <3>1. edges'[i] = edges[i]
      BY <1>1, <2>2
    <3>2. CASE edges[i][2] \in down
      <4>1. CASE edges[i][2] # p
        BY <1>1, <3>1, <3>2, <4>1
      <4>2. CASE edges[i][2] = p
        BY <1>1, <2>2, <3>1, <3>2, <4>2
      <4> QED  BY <4>1, <4>2
    <3>3. CASE \E j \in (i + 1)..Len(edges) : edges[j] = <<"up", edges[i][2]>>
      BY <1>1, <2>2, <3>1, <3>3
    <3> QED  BY <2>2, <3>1, <3>2, <3>3 DEF Untimed, PressesAreReleased
  <2> QED  BY <1>1, <2>1, <2>2
<1>4. WaitsForARelease'
  <2>1. twin.at = "hold" => twin.pin \in Pins
    BY DEF Untimed, ButtonsTypes, ButtonsTypeOK, IdlePair, Wait, At, Pins
  <2>2. "a" \in Pins /\ "b" \in Pins
    BY DEF Pins, Twin
  <2> QED  BY <1>1, <1>2, <2>1, <2>2 DEF Untimed, WaitsForARelease
<1> QED  BY <1>2, <1>3, <1>4

\* Handling an event keeps the types,
LEMMA DeliverKeepsTypes == ButtonsTypes /\ Deliver => ButtonsTypes'
<1> SUFFICES ASSUME ButtonsTypes, Deliver PROVE ButtonsTypes'
  OBVIOUS
<1>1. PICK k \in {"edge", "up"}, q \in Installed :
           /\ edges # <<>> /\ edges[1] = <<k, q>> /\ edges[1][1] = k /\ edges[1][2] = q
           /\ Len(edges') = Len(edges) - 1 /\ edges' \in Seq({"edge", "up"} \X Pins)
           /\ \A i \in 1..Len(edges') : edges'[i] = edges[i + 1]
           /\ IF config.kind = "twin" THEN TwinEvent(<<k, q>>) ELSE SingleEvent(<<k, q>>)
           /\ hold' = [hold EXCEPT ![q] = IF @ = "due" THEN "due"
                                          ELSE IF k = "edge" THEN "running" ELSE "off"]
           /\ UNCHANGED <<config, down, input>> /\ Installed' = Installed
  BY DeliverIs
<1>2. /\ twin' \in {IdlePair, Wait} \union [at : {"hold", "cont", "contAB"}, pin : Twin]
      /\ isLong' \in BOOLEAN /\ calls' \subseteq {"short", "long"} \X {"a", "b", "ab", "c"}
      /\ twin' # IdlePair => config.kind = "twin"
  BY <1>1, EventTypes
<1>3. /\ Len(edges) \in Nat /\ Len(edges) <= MaxLag /\ MaxLag \in Nat
      /\ hold \in [Pins -> {"off", "running", "due"}] /\ down \subseteq Pins
  BY EventsOf, ButtonsAssumption DEF ButtonsTypes, ButtonsTypeOK
<1>4. hold' \in [Pins -> {"off", "running", "due"}]
  BY <1>1, <1>3
<1>5. ButtonsTypeOK'
  BY <1>1, <1>2, <1>3, <1>4 DEF ButtonsTypeOK
<1>6. \A i \in 1..Len(edges') : edges'[i][2] \in Installed
  BY <1>1, <1>3 DEF ButtonsTypes
<1>7. \A p \in Pins : hold'[p] # "off" => p \in Installed
  BY <1>1, <1>3 DEF ButtonsTypes
<1> QED  BY <1>1, <1>2, <1>5, <1>6, <1>7 DEF ButtonsTypes, input

\* and so does the end of a hold,
LEMMA HeldKeepsTypes ==
  ASSUME ButtonsTypes, NEW p \in Installed, Held(p) PROVE ButtonsTypes'
<1>1. /\ hold[p] = "due"
      /\ IF config.kind = "twin" THEN TwinEvent(<<"hold", p>>) ELSE SingleEvent(<<"hold", p>>)
      /\ hold' = [hold EXCEPT ![p] = IF config.repeat /\ p \in down THEN "running" ELSE "off"]
      /\ UNCHANGED <<config, down, edges, input>> /\ Installed' = Installed
  BY HeldIs
<1>2. /\ twin' \in {IdlePair, Wait} \union [at : {"hold", "cont", "contAB"}, pin : Twin]
      /\ isLong' \in BOOLEAN /\ calls' \subseteq {"short", "long"} \X {"a", "b", "ab", "c"}
      /\ twin' # IdlePair => config.kind = "twin"
  BY <1>1, EventTypes
<1>3. hold' \in [Pins -> {"off", "running", "due"}]
  BY <1>1 DEF ButtonsTypes, ButtonsTypeOK
<1>4. ButtonsTypeOK'
  BY <1>1, <1>2, <1>3 DEF ButtonsTypes, ButtonsTypeOK
<1>5. \A q \in Pins : hold'[q] # "off" => q \in Installed
  BY <1>1 DEF ButtonsTypes, ButtonsTypeOK
<1> QED  BY <1>1, <1>2, <1>4, <1>5 DEF ButtonsTypes, input

\* or a hold time that passes.
LEMMA HoldTimeKeepsTypes ==
  ASSUME ButtonsTypes, NEW p \in Installed, HoldTimePasses(p) PROVE ButtonsTypes'
<1>1. /\ hold' = [hold EXCEPT ![p] = "due"] /\ late' = (late \/ edges # <<>>)
      /\ UNCHANGED <<config, down, edges, twin, isLong, calls>> /\ Installed' = Installed
  BY DEF HoldTimePasses, Installed
<1>2. ButtonsTypeOK' /\ \A q \in Pins : hold'[q] # "off" => q \in Installed
  BY <1>1 DEF ButtonsTypes, ButtonsTypeOK
<1>3. late' \in BOOLEAN
  BY <1>1 DEF ButtonsTypes
<1> QED  BY <1>1, <1>2, <1>3 DEF ButtonsTypes

\* What is delivered, unless it is the release of x, leaves x's release to come; and
\* that of the pin whose press is delivered is still to come.
LEMMA DeliverOwes ==
  ASSUME Untimed, Deliver, NEW k \in {"edge", "up"}, NEW q \in Installed,
         edges[1] = <<k, q>>, edges[1][1] = k, edges[1][2] = q
  PROVE  /\ \A x \in Pins : OwesUp(x) /\ ~(k = "up" /\ q = x) => OwesUp(x)'
         /\ k = "edge" => OwesUp(q)'
         /\ PressesAreReleased'
<1>1. /\ edges # <<>> /\ Len(edges') = Len(edges) - 1 /\ Len(edges) \in Nat /\ Len(edges) > 0
      /\ \A i \in 1..Len(edges') : edges'[i] = edges[i + 1]
      /\ down' = down
  BY DeliverIs, EventsOf DEF Untimed
<1>2. ASSUME NEW x, NEW j \in 2..Len(edges), edges[j] = <<"up", x>>
      PROVE  j - 1 \in 1..Len(edges') /\ edges'[j - 1] = <<"up", x>>
  BY <1>1, <1>2
<1>3. ASSUME NEW x \in Pins, OwesUp(x), ~(k = "up" /\ q = x) PROVE OwesUp(x)'
  <2>1. CASE x \in down
    BY <1>1, <2>1 DEF OwesUp
  <2>2. CASE \E i \in 1..Len(edges) : edges[i] = <<"up", x>>
    <3>1. PICK i \in 2..Len(edges) : edges[i] = <<"up", x>>
      BY <1>1, <1>3, <2>2
    <3> QED  BY <1>2, <3>1 DEF OwesUp
  <2> QED  BY <1>3, <2>1, <2>2 DEF OwesUp
<1>4. ASSUME k = "edge" PROVE OwesUp(q)'
  <2>1. q \in down \/ \E j \in (1 + 1)..Len(edges) : edges[j] = <<"up", q>>
    <3>1. 1 \in 1..Len(edges)
      BY <1>1
    <3> QED  BY <3>1, <1>4 DEF Untimed, PressesAreReleased
  <2>2. CASE q \in down
    BY <1>1, <2>2 DEF OwesUp
  <2>3. CASE \E j \in 2..Len(edges) : edges[j] = <<"up", q>>
    <3>1. PICK j \in 2..Len(edges) : edges[j] = <<"up", q>>
      BY <2>3
    <3> QED  BY <1>2, <3>1 DEF OwesUp
  <2> QED  BY <2>1, <2>2, <2>3
<1>5. PressesAreReleased'
  <2> SUFFICES ASSUME NEW i \in 1..Len(edges'), edges'[i][1] = "edge"
               PROVE  edges'[i][2] \in down
                      \/ \E j \in (i + 1)..Len(edges') : edges'[j] = <<"up", edges'[i][2]>>
    BY <1>1 DEF PressesAreReleased
  <2>1. i + 1 \in 1..Len(edges) /\ edges'[i] = edges[i + 1]
    BY <1>1
  <2>2. edges[i + 1][2] \in down
        \/ \E j \in (i + 2)..Len(edges) : edges[j] = <<"up", edges[i + 1][2]>>
    <3>1. edges[i + 1][2] \in down
          \/ \E j \in (i + 1 + 1)..Len(edges) : edges[j] = <<"up", edges[i + 1][2]>>
      BY <2>1 DEF Untimed, PressesAreReleased
    <3>2. i + 1 + 1 = i + 2
      BY <1>1
    <3> QED  BY <3>1, <3>2
  <2>3. CASE \E j \in (i + 2)..Len(edges) : edges[j] = <<"up", edges[i + 1][2]>>
    <3>1. PICK j \in (i + 2)..Len(edges) : edges[j] = <<"up", edges[i + 1][2]>>
      BY <2>3
    <3>2. j - 1 \in (i + 1)..Len(edges') /\ edges'[j - 1] = edges[j]
      BY <1>1, <2>1, <3>1
    <3> QED  BY <2>1, <3>1, <3>2
  <2> QED  BY <2>1, <2>2, <2>3
<1> QED  BY <1>3, <1>4, <1>5

\* A twin button that has gone on to wait has a release to come.
LEMMA DeliverWaits == Untimed /\ Deliver => WaitsForARelease'
<1> SUFFICES ASSUME Untimed, Deliver PROVE WaitsForARelease'
  OBVIOUS
<1>1. PICK k \in {"edge", "up"}, q \in Installed :
           /\ edges # <<>> /\ edges[1] = <<k, q>> /\ edges[1][1] = k /\ edges[1][2] = q
           /\ Len(edges') = Len(edges) - 1 /\ edges' \in Seq({"edge", "up"} \X Pins)
           /\ \A i \in 1..Len(edges') : edges'[i] = edges[i + 1]
           /\ IF config.kind = "twin" THEN TwinEvent(<<k, q>>) ELSE SingleEvent(<<k, q>>)
           /\ hold' = [hold EXCEPT ![q] = IF @ = "due" THEN "due"
                                          ELSE IF k = "edge" THEN "running" ELSE "off"]
           /\ UNCHANGED <<config, down, input>> /\ Installed' = Installed
  BY DeliverIs DEF Untimed
<1>2. /\ \A x \in Pins : OwesUp(x) /\ ~(k = "up" /\ q = x) => OwesUp(x)'
      /\ k = "edge" => OwesUp(q)'
  BY <1>1, DeliverOwes
<1>3. ButtonsTypes /\ ButtonsTypes' /\ q \in Pins
  BY DeliverKeepsTypes, EventsOf DEF Untimed
<1>4. \A p \in Pins : hold'[p] = "running" => OwesUp(p)'
  <2> SUFFICES ASSUME NEW p \in Pins, hold'[p] = "running" PROVE OwesUp(p)'
    OBVIOUS
  <2>1. CASE p = q
    <3>1. k = "edge"
      BY <1>1, <1>3, <2>1 DEF ButtonsTypes, ButtonsTypeOK
    <3> QED  BY <1>2, <2>1, <3>1
  <2>2. CASE p # q
    <3>1. hold[p] = "running"
      BY <1>1, <1>3, <2>2 DEF ButtonsTypes, ButtonsTypeOK
    <3> QED  BY <1>2, <2>2, <3>1 DEF Untimed, WaitsForARelease
  <2> QED  BY <2>1, <2>2
<1>5. \A x \in Pins : OwesUp(x)' /\ down' = {} => edges' # <<>>
  <2> SUFFICES ASSUME NEW x \in Pins, OwesUp(x)', down' = {} PROVE edges' # <<>>
    OBVIOUS
  <2>1. PICK i \in 1..Len(edges') : TRUE
    BY DEF OwesUp
  <2>2. Len(edges') > 0 /\ Len(edges') \in Nat
    BY <1>1, <2>1
  <2> QED  BY <1>1, <2>2
<1>6. CASE config.kind = "twin"
  <2>1. TwinEvent(<<k, q>>) /\ q \in Twin /\ (TwinUp <=> down = {}) /\ down' = down /\ Twin \subseteq Pins
    BY <1>1, <1>3, <1>6, EventsOf DEF TwinUp, ButtonsTypes, Pins
  <2>2. CASE twin.at = "idle"
    <3>1. twin' = IF k = "edge" THEN At("hold", q) ELSE IdlePair
      BY <1>3, <2>1, <2>2, TwinEventIs
    <3> QED  BY <1>2, <1>3, <1>4, <1>5, <3>1 DEF WaitsForARelease, At, IdlePair
  <2>3. CASE twin.at = "hold"
    <3>1. PICK p \in Twin : OwesUp(p) /\ twin = At("hold", p) /\ twin.pin = p
      BY <1>3, <2>1, <2>3, TwinEventIs DEF Untimed, WaitsForARelease
    <3>2. CASE k = "up"
      <4>1. twin' = IdlePair
        BY <1>3, <2>1, <2>3, <3>2, TwinEventIs
      <4> QED  BY <1>4, <4>1 DEF WaitsForARelease, IdlePair, At
    <3>3. CASE k = "edge" /\ q = p
      <4>1. twin' = twin
        BY <1>3, <2>1, <2>3, <3>1, <3>3, TwinEventIs
      <4>2. OwesUp(p)' /\ twin'.at = "hold" /\ twin'.pin = p
        BY <1>2, <2>1, <2>3, <3>1, <3>3, <4>1
      <4> QED  BY <1>3, <1>4, <1>5, <2>1, <4>2 DEF WaitsForARelease
    <3>4. CASE k = "edge" /\ q # p
      <4>1. twin' = At("contAB", q) \/ twin' = Wait
        BY <1>3, <2>1, <2>3, <3>1, <3>4, TwinEventIs
      <4>3. OwesUp("a")' /\ OwesUp("b")'
        BY <1>2, <2>1, <3>1, <3>4 DEF Twin
      <4> QED  BY <1>3, <1>4, <1>5, <4>1, <4>3 DEF WaitsForARelease, At, Wait, Pins, Twin
    <3> QED  BY <3>2, <3>3, <3>4
  <2>4. CASE twin.at = "cont" \/ twin.at = "wait4release"
    <3>1. twin' = IF TwinUp THEN IdlePair ELSE Wait
      BY <1>3, <2>1, <2>4, TwinEventIs
    <3> QED  BY <1>4, <2>1, <3>1 DEF WaitsForARelease, IdlePair, Wait, At
  <2>5. CASE twin.at = "contAB"
    <3>1. twin' = Wait /\ OwesUp("a") /\ OwesUp("b")
      BY <1>3, <2>1, <2>5, TwinEventIs DEF Untimed, WaitsForARelease
    <3>2. OwesUp("a")' \/ OwesUp("b")'
      BY <1>2, <3>1 DEF Pins, Twin
    <3> QED  BY <1>4, <1>5, <3>1, <3>2 DEF WaitsForARelease, Wait, At, Pins, Twin
  <2> QED  BY <1>3, <2>1, <2>2, <2>3, <2>4, <2>5, TwinEventIs
<1>7. CASE config.kind # "twin"
  <2>1. twin' = IdlePair
    BY <1>1, <1>3, <1>7 DEF ButtonsTypes
  <2> QED  BY <1>4, <2>1 DEF WaitsForARelease, IdlePair, At
<1> QED  BY <1>6, <1>7

\* A hold leaves the pins and the edges alone, and waits no more than it did.
LEMMA HeldWaits ==
  ASSUME Untimed, NEW p \in Installed, Held(p)
  PROVE  PressesAreReleased' /\ WaitsForARelease'
<1>1. /\ hold[p] = "due" /\ down' = down /\ edges' = edges
      /\ IF config.kind = "twin" THEN TwinEvent(<<"hold", p>>) ELSE SingleEvent(<<"hold", p>>)
      /\ hold' = [hold EXCEPT ![p] = IF config.repeat /\ p \in down THEN "running" ELSE "off"]
  BY HeldIs DEF Untimed
<1>2. ButtonsTypes /\ ButtonsTypes' /\ p \in Pins /\ \A x : OwesUp(x)' <=> OwesUp(x)
  BY <1>1, HeldKeepsTypes, EventsOf DEF Untimed, OwesUp
<1>3. PressesAreReleased'
  BY <1>1 DEF Untimed, PressesAreReleased
<1>4. \A x \in Pins : hold'[x] = "running" => OwesUp(x)
  <2>1. hold'[p] = "running" => p \in down
    BY <1>1, <1>2 DEF ButtonsTypes, ButtonsTypeOK
  <2>2. \A x \in Pins : x # p /\ hold'[x] = "running" => hold[x] = "running"
    BY <1>1, <1>2 DEF ButtonsTypes, ButtonsTypeOK
  <2> QED  BY <2>1, <2>2 DEF Untimed, WaitsForARelease, OwesUp
<1>5. CASE config.kind = "twin"
  <2>1. TwinEvent(<<"hold", p>>) /\ p \in Twin
    BY <1>1, <1>2, <1>5, EventsOf
  <2>2. twin' # IdlePair => twin # IdlePair
    BY <1>2, <2>1, TwinEventIs DEF IdlePair, At
  <2>3. twin'.at \in {"hold", "contAB"} => twin' = twin
    BY <1>2, <2>1, TwinEventIs DEF IdlePair, Wait, At
  <2>4. WaitsForARelease
    BY DEF Untimed
  <2>5. twin'.at # "hold"
    BY <1>2, <2>1, TwinEventIs DEF IdlePair, Wait, At
  <2>6. twin'.at = "contAB" => OwesUp("a")' /\ OwesUp("b")'
    BY <1>2, <2>3, <2>4 DEF WaitsForARelease
  <2>7. twin' # IdlePair /\ down' = {} => edges' # <<>>
    BY <1>1, <2>2, <2>4 DEF WaitsForARelease
  <2>8. \A x \in Pins : hold'[x] = "running" => OwesUp(x)'
    BY <1>2, <1>4
  <2> QED  BY <1>3, <2>5, <2>6, <2>7, <2>8 DEF WaitsForARelease
<1>6. CASE config.kind # "twin"
  <2>1. twin' = IdlePair
    BY <1>1, <1>2, <1>6, HeldIs DEF ButtonsTypes
  <2> QED  BY <1>2, <1>3, <1>4, <2>1 DEF WaitsForARelease, IdlePair, At
<1> QED  BY <1>3, <1>5, <1>6

\* A hold time that passes leaves the releases that are owed.
LEMMA HoldTimeWaits ==
  ASSUME Untimed, NEW p \in Installed, HoldTimePasses(p)
  PROVE  PressesAreReleased' /\ WaitsForARelease'
<1>1. hold' = [hold EXCEPT ![p] = "due"] /\ UNCHANGED <<down, edges, twin>>
      /\ hold \in [Pins -> {"off", "running", "due"}]
  BY DEF HoldTimePasses, Untimed, ButtonsTypes, ButtonsTypeOK
<1>2. \A x \in Pins : hold'[x] = "running" => hold[x] = "running"
  BY <1>1
<1> QED
  BY <1>1, <1>2 DEF Untimed, PressesAreReleased, WaitsForARelease, OwesUp

\* What the buttons keep without regard to time, step by step.
LEMMA UntimedSteps == Untimed /\ [ButtonsNext]_buttonVars => Untimed'
<1> SUFFICES ASSUME Untimed, [ButtonsNext]_buttonVars PROVE Untimed'
  OBVIOUS
<1>0. ButtonsTypes
  BY DEF Untimed
<1>1. CASE Deliver
  BY <1>0, <1>1, DeliverKeepsTypes, DeliverWaits, DeliverIs, DeliverOwes DEF Untimed
<1>2. ASSUME NEW p \in Installed, Edge(p) PROVE Untimed'
  BY <1>0, <1>2, EdgeKeepsTypes, EdgeOwes DEF Untimed
<1>3. ASSUME NEW p \in Installed, HoldTimePasses(p) PROVE Untimed'
  BY <1>0, <1>3, HoldTimeKeepsTypes, HoldTimeWaits DEF Untimed
<1>4. ASSUME NEW p \in Installed, Held(p) PROVE Untimed'
  BY <1>0, <1>4, HeldKeepsTypes, HeldWaits DEF Untimed
<1>5. CASE UNCHANGED buttonVars
  BY <1>5 DEF buttonVars, input, Untimed, ButtonsTypes, ButtonsTypeOK, Installed,
              PressesAreReleased, WaitsForARelease, OwesUp
<1> QED  BY <1>1, <1>2, <1>3, <1>4, <1>5 DEF ButtonsNext

\* A twin button that has been let go is idle once everything is delivered, for any
\* number of edges that are late (TwinButton._change_state).
THEOREM TwinIsNeverStuck == ButtonsSpec => [](ButtonsTypeOK /\ ReleasedTwinIsIdle)
<1>1. ButtonsInit => Untimed
  BY ButtonsStart DEF ButtonsInv, Untimed
<1>2. Untimed => ButtonsTypeOK /\ ReleasedTwinIsIdle
  BY DEF Untimed, ButtonsTypes, WaitsForARelease, ReleasedTwinIsIdle, AtRest, Pending
<1> QED  BY <1>1, <1>2, UntimedSteps, PTL DEF ButtonsSpec

----------------------------------------------------------------------------
(* One action per input: what the states say when events come in time.        *)

Timed == ~late => InTime /\ IF config.kind = "twin" THEN TwinKnows ELSE SingleKnows

\* The calls an input may lead to.
LEMMA AllowedAre ==
  \A s \in {"short", "long"} :
    <<s, first>> \in Allowed /\ (Twin \subseteq pressed => <<s, "ab">> \in Allowed)
BY DEF Allowed

\* A pin that moves in time finds nothing pending; what is felt is as it was.
LEMMA EdgeInTime ==
  ASSUME Untimed, Timed, NEW p \in Installed, Edge(p), ~late'
  PROVE  /\ InTime' /\ Felt' = down /\ edges = <<>> /\ edges' # <<>> /\ edges'[1][2] = p
         /\ IF AtRest THEN pressed' = {p} /\ first' = p /\ calls' = {}
                      ELSE /\ pressed' = pressed \union {p} /\ first' = first /\ calls' = calls
                           /\ InTime /\ Felt = down /\ ~late
<1>1. ButtonsTypes /\ WaitsForARelease /\ p \in Pins
  BY EventsOf DEF Untimed
<1>2. /\ Len(edges') = Len(edges) + 1 /\ edges' # <<>>
      /\ edges'[Len(edges) + 1] = <<IF p \in down THEN "up" ELSE "edge", p>>
      /\ down' = IF p \in down THEN down \ {p} ELSE down \union {p}
      /\ hold' = hold
  BY <1>1, EdgeIs
<1>3. /\ ~Pending
      /\ IF AtRest THEN pressed' = {p} /\ first' = p /\ calls' = {}
                   ELSE /\ pressed' = pressed \union {p} /\ first' = first /\ calls' = calls
                        /\ ~late
  BY DEF Edge, AtRest
<1>4. edges = <<>> /\ Len(edges) = 0 /\ \A x \in Pins : hold[x] # "due"
  BY <1>3 DEF Pending
<1>5. Len(edges') = 1 /\ edges'[1] = <<IF p \in down THEN "up" ELSE "edge", p>>
  BY <1>2, <1>4
<1>6. Felt = down
  BY <1>4 DEF Felt
<1>7. Felt' = down
  BY <1>2, <1>5 DEF Felt
<1>8. ~AtRest => InTime
  BY <1>3 DEF Timed
<1>9. \A x \in Pins : hold[x] # "off" => x \in down
  <2>1. CASE AtRest
    BY <1>1, <1>4, <2>1 DEF WaitsForARelease, OwesUp, ButtonsTypes, ButtonsTypeOK
  <2>2. CASE ~AtRest
    BY <1>6, <1>8, <2>2 DEF InTime
  <2> QED  BY <2>1, <2>2
<1>10. InTime'
  <2>1. edges' = <<>> \/ (Len(edges') = 1 /\ \A x \in Pins : hold'[x] # "due")
    BY <1>2, <1>4, <1>5
  <2>2. edges'[1][1] = "edge" <=> edges'[1][2] \in down'
    BY <1>2, <1>5
  <2>3. \A x \in Pins : hold'[x] # "off" => x \in Felt'
    BY <1>2, <1>7, <1>9
  <2>4. Felt' \union down' \subseteq pressed' /\ (pressed' # {} => first' \in pressed')
    <3>1. CASE AtRest
      BY <1>2, <1>3, <1>7, <3>1 DEF AtRest
    <3>2. CASE ~AtRest
      <4>1. down # {}
        BY <1>3, <3>2 DEF AtRest
      <4> QED  BY <1>2, <1>3, <1>6, <1>7, <1>8, <3>2, <4>1 DEF InTime
    <3> QED  BY <3>1, <3>2
  <2> QED  BY <2>1, <2>2, <2>3, <2>4 DEF InTime
<1> QED  BY <1>2, <1>3, <1>4, <1>5, <1>6, <1>7, <1>8, <1>10

\* What they keep as long as no event comes late: an edge,
LEMMA EdgeKeepsTimed == ASSUME Untimed, Timed, NEW p \in Installed, Edge(p) PROVE Timed'
<1> SUFFICES ASSUME ~late' PROVE Timed'
  BY DEF Timed
<1>1. /\ InTime' /\ Felt' = down /\ edges = <<>> /\ edges' # <<>> /\ edges'[1][2] = p
      /\ IF AtRest THEN pressed' = {p} /\ first' = p /\ calls' = {}
                   ELSE /\ pressed' = pressed \union {p} /\ first' = first /\ calls' = calls
                        /\ InTime /\ Felt = down /\ ~late
  BY EdgeInTime
<1>2. UNCHANGED <<config, twin, isLong>> /\ ButtonsTypes /\ WaitsForARelease
  BY EdgeIs DEF Untimed
<1>3. ~AtRest => down # {} /\ (IF config.kind = "twin" THEN TwinKnows ELSE SingleKnows)
  BY <1>1 DEF Timed, InTime, AtRest, Pending
<1>4. ~AtRest => Allowed \subseteq Allowed'
  BY <1>1 DEF Allowed
<1>5. CASE config.kind = "twin"
  <2>1. CASE AtRest
    <3>1. twin' = IdlePair /\ down = {}
      BY <1>1, <1>2, <2>1 DEF AtRest, WaitsForARelease
    <3> QED  BY <1>1, <1>2, <1>5, <2>1, <3>1 DEF Timed, TwinKnows, FirstPress, IdlePair, At
  <2>2. CASE ~AtRest
    <3>1. TwinKnows /\ Felt' = Felt /\ first' = first /\ calls' = calls /\ twin' = twin
      BY <1>1, <1>2, <1>3, <1>5, <2>2
    <3>2. twin.at # "idle"
      BY <1>1, <1>3, <2>2, <3>1 DEF TwinKnows
    <3> QED  BY <1>1, <1>2, <1>4, <1>5, <2>2, <3>1, <3>2 DEF Timed, TwinKnows
  <2> QED  BY <2>1, <2>2
<1>6. CASE config.kind # "twin"
  <2>1. p = Single
    BY <1>2, <1>6, EventsOf
  <2>2. <<"short", first'>> \in Allowed'
    BY DEF Allowed
  <2>3. CASE AtRest
    BY <1>1, <1>2, <1>6, <2>1, <2>2, <2>3 DEF Timed, SingleKnows, FirstPress, AtRest
  <2>4. CASE ~AtRest
    <3>1. SingleKnows /\ Felt' = Felt /\ Felt # {}
      BY <1>1, <1>3, <1>6, <2>4
    <3>2. config.kind = "shortLong" => \E c \in Allowed' : calls' \subseteq {c}
      BY <1>1, <1>4, <2>4, <3>1 DEF SingleKnows
    <3>3. SingleKnows'
      BY <1>1, <1>2, <2>1, <2>4, <3>1, <3>2 DEF SingleKnows
    <3> QED  BY <1>1, <1>2, <1>6, <3>3 DEF Timed
  <2> QED  BY <2>3, <2>4
<1> QED  BY <1>5, <1>6

\* A delivery in time is the only one pending: then what is felt is what is down.
LEMMA DeliverInTime ==
  ASSUME Untimed, Timed, Deliver, ~late
  PROVE  /\ InTime /\ InTime' /\ Felt' = down /\ edges' = <<>> /\ down' = down
         /\ \E k \in {"edge", "up"}, q \in Installed :
              /\ edges[1][2] = q /\ edges # <<>>
              /\ IF config.kind = "twin" THEN TwinEvent(<<k, q>>) ELSE SingleEvent(<<k, q>>)
              /\ k = "edge" <=> q \notin Felt
              /\ Felt' = IF k = "edge" THEN Felt \union {q} ELSE Felt \ {q}
<1>1. ButtonsTypes /\ InTime
  BY DEF Untimed, Timed
<1>2. PICK k \in {"edge", "up"}, q \in Installed :
        /\ edges # <<>> /\ edges[1] = <<k, q>> /\ edges[1][1] = k /\ edges[1][2] = q
        /\ Len(edges') = Len(edges) - 1 /\ edges' \in Seq({"edge", "up"} \X Pins)
        /\ IF config.kind = "twin" THEN TwinEvent(<<k, q>>) ELSE SingleEvent(<<k, q>>)
        /\ hold' = [hold EXCEPT ![q] = IF @ = "due" THEN "due"
                                       ELSE IF k = "edge" THEN "running" ELSE "off"]
        /\ UNCHANGED <<config, down, input>> /\ Installed' = Installed
  BY <1>1, DeliverIs
<1>3. Len(edges) = 1 /\ (k = "edge" <=> q \in down) /\ \A x \in Pins : hold[x] # "due"
  BY <1>1, <1>2 DEF InTime
<1>4. edges' = <<>>
  BY <1>2, <1>3
<1>5. Felt' = down /\ Felt = IF k = "edge" THEN down \ {q} ELSE down \union {q}
  BY <1>2, <1>4 DEF Felt
<1>6. UNCHANGED <<first, pressed, late>>
  BY <1>2 DEF input
<1>7. \A x \in Pins : hold'[x] # "off" => x \in Felt'
  <2> SUFFICES ASSUME NEW x \in Pins, hold'[x] # "off" PROVE x \in down
    BY <1>5
  <2>1. CASE x = q
    BY <1>1, <1>2, <1>3, <2>1 DEF ButtonsTypes, ButtonsTypeOK
  <2>2. CASE x # q
    <3>1. hold[x] # "off"
      BY <1>1, <1>2, <2>2 DEF ButtonsTypes, ButtonsTypeOK
    <3> QED  BY <1>1, <1>5, <2>2, <3>1 DEF InTime
  <2> QED  BY <2>1, <2>2
<1>8. InTime'
  <2>1. Felt' \union down' \subseteq pressed' /\ (pressed' # {} => first' \in pressed')
    BY <1>1, <1>2, <1>5, <1>6 DEF InTime
  <2> QED  BY <1>4, <1>7, <2>1 DEF InTime
<1>9. Felt' = (IF k = "edge" THEN Felt \union {q} ELSE Felt \ {q}) /\ (k = "edge" <=> q \notin Felt)
  BY <1>3, <1>5
<1> QED  BY <1>1, <1>2, <1>4, <1>5, <1>8, <1>9

\* an event that is handled,
LEMMA DeliverKeepsTimed == ASSUME Untimed, Timed, Deliver PROVE Timed'
<1> SUFFICES ASSUME ~late' PROVE Timed'
  BY DEF Timed
<1>1. ~late /\ UNCHANGED <<config, first, pressed, late>> /\ ButtonsTypes
  BY DEF Deliver, input, Untimed
<1>2. PICK k \in {"edge", "up"}, q \in Installed :
        /\ edges[1][2] = q /\ edges # <<>>
        /\ IF config.kind = "twin" THEN TwinEvent(<<k, q>>) ELSE SingleEvent(<<k, q>>)
        /\ k = "edge" <=> q \notin Felt
        /\ Felt' = IF k = "edge" THEN Felt \union {q} ELSE Felt \ {q}
  BY <1>1, DeliverInTime
<1>3. InTime /\ InTime' /\ Felt' = down /\ edges' = <<>> /\ Felt \subseteq pressed /\ Felt' \subseteq pressed
      /\ (pressed # {} => first \in pressed)
  BY <1>1, DeliverInTime DEF InTime
<1>4. Allowed' = Allowed
  BY <1>1 DEF Allowed
<1>5. CASE config.kind = "twin"
  <2>1. /\ TwinEvent(<<k, q>>) /\ q \in Twin /\ TwinKnows /\ Felt' \subseteq Twin
        /\ (TwinUp <=> Felt' = {})
    BY <1>1, <1>2, <1>3, <1>5, EventsOf DEF Timed, TwinUp, ButtonsTypes
  <2>2. CASE twin.at = "idle"
    <3>1. Felt = {} /\ k = "edge" /\ first = q /\ calls = {}
      BY <1>2, <2>1, <2>2 DEF TwinKnows, FirstPress
    <3>2. twin' = At("hold", q) /\ calls' = {}
      BY <1>1, <2>1, <2>2, <3>1, TwinEventIs
    <3>3. TwinKnows'
      BY <1>1, <1>2, <3>1, <3>2 DEF TwinKnows, At
    <3> QED  BY <1>1, <1>3, <1>5, <3>3 DEF Timed
  <2>3. CASE twin.at = "hold"
    <3>1. Felt = {twin.pin} /\ first = twin.pin /\ calls = {} /\ twin.pin \in Twin
      BY <1>1, <2>1, <2>3, TwinEventIs DEF TwinKnows
    <3>2. CASE k = "edge"
      <4>1. q # twin.pin /\ Felt' = Twin
        BY <1>2, <2>1, <3>1, <3>2 DEF Twin
      <4>2. (twin' = At("contAB", q) /\ calls' = {}) \/ (twin' = Wait /\ calls' = {<<"short", "ab">>})
        BY <1>1, <2>1, <2>3, <3>1, <3>2, <4>1, TwinEventIs
      <4>3. <<"short", "ab">> \in Allowed
        BY <1>3, <4>1, AllowedAre
      <4>4. Twin # {}
        BY DEF Twin
      <4>5. TwinKnows'
        BY <1>4, <4>1, <4>2, <4>3, <4>4 DEF TwinKnows, At, Wait
      <4> QED  BY <1>1, <1>3, <1>5, <4>5 DEF Timed
    <3>3. CASE k = "up"
      <4>1. q = twin.pin /\ Felt' = {}
        BY <1>2, <3>1, <3>3
      <4>2. twin' = IdlePair /\ calls' = {<<"short", first>>}
        BY <1>1, <2>1, <2>3, <3>1, <3>3, TwinEventIs
      <4>3. <<"short", first>> \in Allowed
        BY AllowedAre
      <4>4. TwinKnows'
        BY <1>3, <1>4, <4>1, <4>2, <4>3 DEF TwinKnows, IdlePair, At
      <4> QED  BY <1>1, <1>3, <1>5, <4>4 DEF Timed
    <3> QED  BY <3>2, <3>3
  <2>4. CASE twin.at = "cont"
    <3>1. Felt = {twin.pin} /\ calls = {<<"long", first>>}
      BY <2>1, <2>4 DEF TwinKnows
    <3>2. calls' = calls /\ twin' = IF Felt' = {} THEN IdlePair ELSE Wait
      BY <1>1, <2>1, <2>4, TwinEventIs
    <3>3. <<"long", first>> \in Allowed
      BY AllowedAre
    <3>4. TwinKnows'
      BY <1>3, <1>4, <3>1, <3>2, <3>3 DEF TwinKnows, IdlePair, Wait, At
    <3> QED  BY <1>1, <1>3, <1>5, <3>4 DEF Timed
  <2>5. CASE twin.at = "contAB"
    <3>1. Felt = Twin /\ calls = {}
      BY <2>1, <2>5 DEF TwinKnows
    <3>2. k = "up" /\ Felt' # {}
      BY <1>2, <2>1, <3>1 DEF Twin
    <3>3. twin' = Wait /\ calls' = {<<"short", "ab">>}
      BY <1>1, <2>1, <2>5, <3>1, <3>2, TwinEventIs
    <3>4. <<"short", "ab">> \in Allowed
      BY <1>3, <3>1, AllowedAre
    <3>5. TwinKnows'
      BY <1>4, <3>2, <3>3, <3>4 DEF TwinKnows, Wait, At
    <3> QED  BY <1>1, <1>3, <1>5, <3>5 DEF Timed
  <2>6. CASE twin.at = "wait4release"
    <3>1. \E c \in Allowed : calls = {c}
      BY <2>1, <2>6 DEF TwinKnows
    <3>2. calls' = calls /\ twin' = IF Felt' = {} THEN IdlePair ELSE Wait
      BY <1>1, <2>1, <2>6, TwinEventIs
    <3>3. TwinKnows'
      BY <1>3, <1>4, <3>1, <3>2 DEF TwinKnows, IdlePair, Wait, At
    <3> QED  BY <1>1, <1>3, <1>5, <3>3 DEF Timed
  <2> QED  BY <1>1, <2>1, <2>2, <2>3, <2>4, <2>5, <2>6, TwinEventIs
<1>6. CASE config.kind # "twin"
  <2>1. /\ q = Single /\ SingleEvent(<<k, Single>>) /\ SingleKnows /\ Felt \subseteq {Single}
        /\ config.kind \in {"button", "longPress", "shortLong"}
    BY <1>1, <1>2, <1>3, <1>6, EventsOf DEF Timed, Kinds, SingleKnows
  <2>2. /\ pressed' \subseteq {Single} /\ pressed # {} /\ pressed' # {} /\ first = Single
        /\ <<"short", Single>> \in Allowed' /\ <<"long", Single>> \in Allowed'
    <3>1. pressed \subseteq {Single} /\ pressed # {}
      BY <1>2, <1>3, <2>1 DEF SingleKnows
    <3> QED  BY <1>1, <1>3, <1>4, <3>1, AllowedAre
  <2>3. calls' \subseteq {<<"short", Single>>, <<"long", Single>>}
    BY <2>1, SingleEventIs DEF SingleKnows
  <2>4. config.kind = "button" => <<"long", Single>> \notin calls'
    <3>1. config.kind = "button" => calls' = calls \union {<<"short", Single>>} \/ calls' = calls
      BY <2>1, SingleEventIs
    <3>2. config.kind = "button" => <<"long", Single>> \notin calls
      BY <2>1 DEF SingleKnows
    <3>3. <<"short", Single>> # <<"long", Single>>
      OBVIOUS
    <3> QED  BY <3>1, <3>2, <3>3
  <2>5. config.kind = "longPress" => <<"short", Single>> \notin calls'
    BY <2>1, SingleEventIs DEF SingleKnows
  <2>6. CASE k = "edge"
    <3>1. Felt = {} /\ Felt' = {Single} /\ calls = {}
      BY <1>2, <2>1, <2>6 DEF SingleKnows, FirstPress
    <3>2. config.kind = "shortLong" => calls' = {} /\ isLong' = FALSE
      BY <2>1, <2>6, <3>1, SingleEventIs
    <3>3. SingleKnows'
      BY <1>1, <1>3, <2>2, <2>3, <2>4, <2>5, <3>1, <3>2 DEF SingleKnows
    <3> QED  BY <1>1, <1>3, <1>6, <3>3 DEF Timed
  <2>7. CASE k = "up"
    <3>1. Felt = {Single} /\ Felt' = {}
      BY <1>2, <2>1, <2>7
    <3>2. config.kind = "shortLong" => calls' = {<<"short", Single>>} \/ calls' = {<<"long", Single>>}
      BY <2>1, <2>7, <3>1, SingleEventIs DEF SingleKnows
    <3>3. SingleKnows'
      BY <1>1, <1>3, <2>2, <2>3, <2>4, <2>5, <3>1, <3>2 DEF SingleKnows
    <3> QED  BY <1>1, <1>3, <1>6, <3>3 DEF Timed
  <2> QED  BY <2>6, <2>7
<1> QED  BY <1>5, <1>6

\* A hold in time is of a button that is felt, with no edge pending.
LEMMA HeldKeepsTimed == ASSUME Untimed, Timed, NEW p \in Installed, Held(p) PROVE Timed'
<1> SUFFICES ASSUME ~late' PROVE Timed'
  BY DEF Timed
<1>1. /\ ~late /\ UNCHANGED <<config, first, pressed, late, down, edges>> /\ ButtonsTypes
      /\ hold[p] = "due"
      /\ hold' = [hold EXCEPT ![p] = IF config.repeat /\ p \in down THEN "running" ELSE "off"]
      /\ IF config.kind = "twin" THEN TwinEvent(<<"hold", p>>) ELSE SingleEvent(<<"hold", p>>)
  BY HeldIs DEF Untimed, input
<1>2. InTime /\ p \in Pins
  BY <1>1, EventsOf DEF Timed
<1>3. edges = <<>> /\ p \in Felt /\ Felt = down /\ Felt' = Felt
  BY <1>1, <1>2 DEF InTime, Felt
<1>4. InTime'
  <2>1. \A x \in Pins : hold'[x] # "off" => hold[x] # "off"
    BY <1>1 DEF ButtonsTypes, ButtonsTypeOK
  <2>2. \A x \in Pins : hold'[x] # "off" => x \in Felt'
    BY <1>2, <1>3, <2>1 DEF InTime
  <2>3. Felt' \union down' \subseteq pressed' /\ (pressed' # {} => first' \in pressed')
    BY <1>1, <1>2, <1>3 DEF InTime
  <2> QED  BY <1>1, <1>3, <2>2, <2>3 DEF InTime
<1>5. Allowed' = Allowed /\ Felt \subseteq pressed /\ (pressed # {} => first \in pressed)
  BY <1>1, <1>2 DEF Allowed, InTime
<1>6. CASE config.kind = "twin"
  <2>1. TwinEvent(<<"hold", p>>) /\ p \in Twin /\ TwinKnows /\ ~TwinUp
    BY <1>1, <1>3, <1>6, EventsOf DEF Timed, TwinUp
  <2>2. twin.at # "idle"
    BY <1>3, <2>1 DEF TwinKnows
  <2>3. CASE twin.at = "hold"
    <3>1. p = twin.pin /\ first = p /\ calls = {} /\ Felt = {p}
      BY <1>3, <2>1, <2>3 DEF TwinKnows
    <3>2. \/ twin' = At("cont", p) /\ calls' = {<<"long", p>>}
          \/ twin' = Wait /\ calls' = {<<"short", p>>}
      BY <1>1, <2>1, <2>3, <3>1, TwinEventIs
    <3>3. <<"short", p>> \in Allowed
      BY <3>1, AllowedAre
    <3>4. TwinKnows'
      BY <1>1, <1>3, <1>5, <3>1, <3>2, <3>3 DEF TwinKnows, At, Wait
    <3> QED  BY <1>1, <1>4, <1>6, <3>4 DEF Timed
  <2>4. CASE twin.at = "cont"
    <3>1. p = twin.pin /\ first = p /\ calls = {<<"long", p>>} /\ Felt = {p}
      BY <1>3, <2>1, <2>4 DEF TwinKnows
    <3>2. twin' = twin /\ calls' = calls
      BY <1>1, <2>1, <2>4, <3>1, TwinEventIs
    <3>3. TwinKnows'
      BY <1>1, <1>3, <2>4, <3>1, <3>2 DEF TwinKnows
    <3> QED  BY <1>1, <1>4, <1>6, <3>3 DEF Timed
  <2>5. CASE twin.at = "contAB"
    <3>1. Felt = Twin /\ calls = {}
      BY <2>1, <2>5 DEF TwinKnows
    <3>2. \/ twin' = Wait /\ calls' = {<<"long", "ab">>}
          \/ twin' = twin /\ calls' = calls
      BY <1>1, <2>1, <2>5, <3>1, TwinEventIs
    <3>3. <<"long", "ab">> \in Allowed /\ Felt # {}
      BY <1>3, <1>5, <3>1, AllowedAre
    <3>4. TwinKnows'
      BY <1>3, <1>5, <2>5, <3>1, <3>2, <3>3 DEF TwinKnows, Wait, At
    <3> QED  BY <1>1, <1>4, <1>6, <3>4 DEF Timed
  <2>6. CASE twin.at = "wait4release"
    <3>1. (\E c \in Allowed : calls = {c}) /\ twin' = Wait /\ calls' = calls
      BY <1>1, <2>1, <2>6, TwinEventIs DEF TwinKnows
    <3>2. TwinKnows'
      BY <1>3, <1>5, <3>1 DEF TwinKnows, Wait, At
    <3> QED  BY <1>1, <1>4, <1>6, <3>2 DEF Timed
  <2> QED  BY <1>1, <2>1, <2>2, <2>3, <2>4, <2>5, <2>6, TwinEventIs
<1>7. CASE config.kind # "twin"
  <2>1. /\ p = Single /\ SingleEvent(<<"hold", Single>>) /\ SingleKnows
        /\ config.kind \in {"button", "longPress", "shortLong"}
    BY <1>1, <1>7, EventsOf DEF Timed, Kinds
  <2>2. /\ pressed \subseteq {Single} /\ pressed # {} /\ first = Single /\ Felt = {Single}
        /\ <<"long", Single>> \in Allowed'
    <3>1. pressed \subseteq {Single} /\ pressed # {} /\ Felt = {Single}
      BY <1>3, <1>5, <2>1 DEF SingleKnows
    <3> QED  BY <1>5, <3>1, AllowedAre
  <2>3. calls' \subseteq {<<"short", Single>>, <<"long", Single>>} /\ isLong' = TRUE
    BY <2>1, SingleEventIs DEF SingleKnows
  <2>4. config.kind = "button" => <<"long", Single>> \notin calls'
    BY <2>1, SingleEventIs DEF SingleKnows
  <2>5. config.kind = "longPress" => <<"short", Single>> \notin calls'
    BY <2>1, SingleEventIs DEF SingleKnows
  <2>6. config.kind = "shortLong" => calls' = {<<"long", Single>>}
    BY <2>1, <2>2, SingleEventIs DEF SingleKnows
  <2>7. SingleKnows'
    BY <1>1, <1>3, <2>2, <2>3, <2>4, <2>5, <2>6 DEF SingleKnows
  <2> QED  BY <1>1, <1>4, <1>7, <2>7 DEF Timed
<1> QED  BY <1>6, <1>7

\* and a hold time that passes.
LEMMA HoldTimeKeepsTimed ==
  ASSUME Untimed, Timed, NEW p \in Installed, HoldTimePasses(p)
  PROVE  Timed'
<1> SUFFICES ASSUME ~late' PROVE Timed'
  BY DEF Timed
<1>1. /\ ~late /\ edges = <<>> /\ hold[p] = "running" /\ hold' = [hold EXCEPT ![p] = "due"]
      /\ UNCHANGED <<config, down, edges, twin, isLong, first, pressed, calls>>
  BY DEF HoldTimePasses
<1>2. InTime /\ p \in Pins /\ hold \in [Pins -> {"off", "running", "due"}]
  BY <1>1, EventsOf DEF Timed, Untimed, ButtonsTypes, ButtonsTypeOK
<1>3. Felt' = Felt /\ Allowed' = Allowed
  BY <1>1 DEF Felt, Allowed
<1>4. InTime'
  <2>1. \A x \in Pins : hold'[x] # "off" => hold[x] # "off"
    BY <1>1, <1>2
  <2> QED  BY <1>1, <1>2, <1>3, <2>1 DEF InTime
<1>5. (TwinKnows => TwinKnows') /\ (SingleKnows => SingleKnows')
  BY <1>1, <1>3 DEF TwinKnows, SingleKnows, FirstPress
<1> QED  BY <1>1, <1>4, <1>5 DEF Timed

\* Together, for one button of each kind and for two that make a twin.
LEMMA ButtonsInvariant == ButtonsSpec => []ButtonsInv
<1>1. ButtonsInv <=> Untimed /\ Timed
  BY DEF ButtonsInv, Untimed, Timed
<1>2. Untimed /\ Timed /\ [ButtonsNext]_buttonVars => Timed'
  <2> SUFFICES ASSUME Untimed, Timed, [ButtonsNext]_buttonVars PROVE Timed'
    OBVIOUS
  <2>1. CASE Deliver
    BY <2>1, DeliverKeepsTimed
  <2>2. ASSUME NEW p \in Installed, Edge(p) PROVE Timed'
    BY <2>2, EdgeKeepsTimed
  <2>3. ASSUME NEW p \in Installed, HoldTimePasses(p) PROVE Timed'
    BY <2>3, HoldTimeKeepsTimed
  <2>4. ASSUME NEW p \in Installed, Held(p) PROVE Timed'
    BY <2>4, HeldKeepsTimed
  <2>5. CASE UNCHANGED buttonVars
    BY <2>5 DEF buttonVars, input, Timed, InTime, TwinKnows, SingleKnows, Felt, Allowed,
                FirstPress
  <2> QED  BY <2>1, <2>2, <2>3, <2>4, <2>5 DEF ButtonsNext
<1> QED  BY <1>1, <1>2, ButtonsStart, UntimedSteps, PTL DEF ButtonsSpec

\* One input of a button leads to one kind of action, as long as its events are
\* delivered in time; and a short-long button that was pressed did one of the two
\* (TwinButton._change_state, ShortLongPressButton).
THEOREM OneActionAtATime == ButtonsSpec => []OneActionPerInput
<1>1. ButtonsInv => OneActionPerInput
  <2> SUFFICES ASSUME ButtonsInv, ~late
               PROVE  /\ Cardinality(calls) <= 1 /\ calls \subseteq Allowed
                      /\ pressed # {} /\ AtRest /\ config.kind = "shortLong" => calls # {}
    BY DEF OneActionPerInput, Allowed
  <2>1. InTime /\ IF config.kind = "twin" THEN TwinKnows ELSE SingleKnows
    BY DEF ButtonsInv
  <2>2. calls = {} \/ \E c \in Allowed : calls = {c}
    <3>1. CASE config.kind = "twin"
      <4>1. <<"long", first>> \in Allowed
        BY AllowedAre
      <4> QED  BY <2>1, <3>1, <4>1 DEF TwinKnows
    <3>2. CASE config.kind # "twin"
      <4>1. SingleKnows /\ config.kind \in {"button", "longPress", "shortLong"}
        BY <2>1, <3>2, EventsOf DEF ButtonsInv, Kinds
      <4>2. calls # {} => first = Single
        BY <2>1, <4>1 DEF SingleKnows, InTime
      <4>3. calls # {} => <<"short", Single>> \in Allowed /\ <<"long", Single>> \in Allowed
        BY <4>2, AllowedAre
      <4>4. CASE config.kind = "button"
        BY <4>1, <4>3, <4>4 DEF SingleKnows
      <4>5. CASE config.kind = "longPress"
        BY <4>1, <4>3, <4>5 DEF SingleKnows
      <4>6. CASE config.kind = "shortLong"
        BY <4>1, <4>6 DEF SingleKnows
      <4> QED  BY <4>1, <4>4, <4>5, <4>6
    <3> QED  BY <3>1, <3>2
  <2>3. Cardinality(calls) <= 1
    <3>1. Cardinality({}) = 0 /\ \A c : Cardinality({c}) = 1
      BY FS_EmptySet, FS_Singleton
    <3> QED  BY <2>2, <3>1
  <2>4. pressed # {} /\ AtRest /\ config.kind = "shortLong" => calls # {}
    BY <2>1 DEF SingleKnows, Felt, AtRest, Pending
  <2> QED  BY <2>2, <2>3, <2>4
<1> QED  BY <1>1, ButtonsInvariant, PTL

----------------------------------------------------------------------------
(* The parts side by side.                                                    *)

allVars == <<part, deviceVars, podcastsVars>>

\* Each part of the composition behaves as its own specification allows: the rest
\* never changes its state, and the composition starts it in a state it may start in.
THEOREM PartsKeepTheirSpecs ==
  Spec => /\ ButtonsSpec /\ LedSpec /\ KeysSpec /\ BatterySpec
          /\ PodcastSpec /\ CacheSpec /\ ListsSpec
<1>1. Init => /\ ButtonsInit /\ LedInit /\ KeysInit /\ BatteryInit
              /\ PodcastInit /\ CacheInit /\ ListsInit
  BY DEF Init
<1>2. [Next]_allVars => [ButtonsNext]_buttonVars /\ [LedNext]_ledVars
  BY DEF Next, DevicesNext, PodcastsNext, allVars, deviceVars
<1>3. [Next]_allVars => [KeysNext]_keyVars /\ [BatteryNext]_batteryVars
  BY DEF Next, DevicesNext, PodcastsNext, allVars, deviceVars
<1>4. [Next]_allVars => [PodcastNext]_podcastVars
  BY DEF Next, DevicesNext, PodcastsNext, allVars, podcastsVars
<1>5. [Next]_allVars => [CacheNext]_cacheVars /\ [ListsNext]_listVars
  BY DEF Next, DevicesNext, PodcastsNext, allVars, podcastsVars
<1>6. Spec => Init /\ [][Next]_allVars
  BY DEF Spec, allVars
<1> QED
  BY <1>1, <1>2, <1>3, <1>4, <1>5, <1>6, PTL
  DEF ButtonsSpec, LedSpec, KeysSpec, BatterySpec, PodcastSpec, CacheSpec, ListsSpec

\* What the box kept of the network's lists and episodes can be relied on: the cache
\* holds whole episodes within its limit and no damaged list is served, whatever
\* failed and whenever the daemon was killed; of an episode not written back a power
\* cut may leave less (EpisodeCache, the feed and content caches).
THEOREM KeptCanBeReliedOn == Spec => []KeptIsWhole
BY PartsKeepTheirSpecs, CacheIsKept, DamagedListsAreNeverServed, PTL DEF KeptIsWhole

\* Each device's state is one its driver can be in, and the battery monitor warns by
\* an earlier reading than the one that shuts the box down, whatever is read, but for
\* the two cases WarnedBeforeShutdown names.
THEOREM DevicesAreSound == Spec => []DevicesInv
<1>1. LedInv => LedTypeOK
  BY DEF LedInv, LedTypes
<1>2. KeysInv => KeysTypeOK
  BY DEF KeysInv, KeysTypes
<1>3. BatterySpec => [](BatteryTypeOK /\ WarnedBeforeShutdown)
  BY ShutdownsAreAnnounced
<1> QED
  BY <1>1, <1>2, <1>3, PartsKeepTheirSpecs, LedInvariant, KeysInvariant, TwinIsNeverStuck, PTL
  DEF DevicesInv

\* What the single parts promise, they promise side by side: one action per input of
\* a button, the LED at the level asked for, one listener per device, an episode
\* completed only when heard and a position that can be resumed.
THEOREM PartsKeepTheirPromises ==
  Spec => [](OneActionPerInput /\ LedIsRestored /\ OneListenerPerDevice
               /\ CompletedWasHeard /\ IncompleteIsResumable)
BY PartsKeepTheirSpecs, OneActionAtATime, LedShowsItsLevel, NoKeyCountsTwice,
   CompletedEpisodesWereHeard, PositionsAreResumable, PTL
=============================================================================
