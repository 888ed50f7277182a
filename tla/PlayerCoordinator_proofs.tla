---------------------- MODULE PlayerCoordinator_proofs ----------------------
(***************************************************************************)
(* Proofs about the hand-off, for any number of backends, devices and      *)
(* calling threads.                                                        *)
(***************************************************************************)
EXTENDS PlayerCoordinator, TLAPS

\* The variables of the model keep their types, whoever calls.
THEOREM TypeCorrect == Spec => []TypeOK
<1>1. Init => TypeOK
  BY NamesAssumption DEF Init, TypeOK, Steps
<1>2. TypeOK /\ [Next]_vars => TypeOK'
  <2> SUFFICES ASSUME TypeOK, [Next]_vars PROVE TypeOK'
    OBVIOUS
  <2> USE NamesAssumption DEF TypeOK, Steps, Goto, Hush, CallbackEffect, audio
  <2>1. ASSUME NEW n \in Names, Register(n) PROVE TypeOK'
    BY <2>1 DEF Register
  <2>2. ASSUME NEW n \in Names, LateStop(n) PROVE TypeOK'
    <3>1. overrun[n] - 1 \in Nat
      BY <2>2 DEF LateStop
    <3>2. QED
      BY <2>2, <3>1 DEF LateStop
  <2>3. ASSUME NEW t \in Threads, Snapshot(t) PROVE TypeOK'
    BY <2>3 DEF Snapshot
  <2>4. ASSUME NEW t \in Threads, Pause(t) PROVE TypeOK'
    BY <2>4 DEF Pause
  <2>5. ASSUME NEW t \in Threads, StartStop(t) PROVE TypeOK'
    BY <2>5 DEF StartStop
  <2>6. ASSUME NEW t \in Threads, WorkerStop(t) PROVE TypeOK'
    BY <2>6 DEF WorkerStop
  <2>7. ASSUME NEW t \in Threads, Joined(t) PROVE TypeOK'
    BY <2>7 DEF Joined
  <2>8. ASSUME NEW t \in Threads, JoinTimeout(t) PROVE TypeOK'
    <3>1. overrun' \in [Names -> Nat]
      <4>1. CASE outgoing[t] \in Names
        BY <2>8, <4>1 DEF JoinTimeout
      <4>2. CASE outgoing[t] \notin Names
        <5>1. overrun' = overrun
          BY <2>8, <4>2 DEF JoinTimeout
        <5>2. QED
          BY <5>1
      <4>3. QED
        BY <4>1, <4>2
    <3>2. QED
      BY <2>8, <3>1 DEF JoinTimeout
  <2>9. ASSUME NEW t \in Threads, Cleanup(t) PROVE TypeOK'
    BY <2>9 DEF Cleanup
  <2>10. ASSUME NEW t \in Threads, Swap(t) PROVE TypeOK'
    BY <2>10 DEF Swap
  <2>11. ASSUME NEW t \in Threads, Finish(t) PROVE TypeOK'
    BY <2>11 DEF Finish
  <2>12. ASSUME NEW t \in Threads, NEW n \in Names, Call(t, n) PROVE TypeOK'
    BY <2>12 DEF Call
  <2>13. ASSUME NEW d \in Devices, Silence(d) PROVE TypeOK'
    BY <2>13 DEF Silence
  <2>14. ASSUME NEW t \in Threads, NEW n \in Names, NEW m \in Names,
                PassiveControl(t, n, m)
         PROVE  TypeOK'
    BY <2>14 DEF PassiveControl
  <2>15. CASE UNCHANGED vars
    BY <2>15 DEF vars
  <2>16. QED
    BY <2>1, <2>2, <2>3, <2>4, <2>5, <2>6, <2>7, <2>8, <2>9, <2>10, <2>11,
       <2>12, <2>13, <2>14, <2>15 DEF Next, CallerStep
<1>3. QED
  BY <1>1, <1>2, PTL DEF Spec

-----------------------------------------------------------------------------

\* The inductive invariant of the hand-off, when every caller holds the plugs
\* lock for the whole call, as plugs.call makes it do.
LEMMA HandoffInvariant ==
  ASSUME Unlocked = {}
  PROVE  Spec => []HandoffInv
<1>1. Init => HandoffInv
  BY NamesAssumption DEF Init, HandoffInv, TypeOK, Steps, ExclusivePlayback
<1>2. TypeOK /\ TypeOK' /\ HandoffInv /\ [Next]_vars => HandoffInv'
  <2> SUFFICES ASSUME TypeOK, TypeOK', HandoffInv, [Next]_vars
               PROVE  HandoffInv'
    OBVIOUS
  <2> USE NamesAssumption DEF HandoffInv, ExclusivePlayback, Goto, audio
  <2>1. ASSUME NEW n \in Names, Register(n) PROVE HandoffInv'
    BY <2>1 DEF Register, TypeOK
  <2>2. ASSUME NEW n \in Names, LateStop(n) PROVE HandoffInv'
    BY <2>2 DEF LateStop, CallbackEffect, Hush, TypeOK
  <2>3. ASSUME NEW t \in Threads, Snapshot(t) PROVE HandoffInv'
    BY <2>3 DEF Snapshot, TypeOK, Steps
  <2>4. ASSUME NEW t \in Threads, Pause(t) PROVE HandoffInv'
    BY <2>4 DEF Pause, CallbackEffect, Hush, TypeOK, Steps
  <2>5. ASSUME NEW t \in Threads, StartStop(t) PROVE HandoffInv'
    BY <2>5 DEF StartStop, TypeOK, Steps
  <2>6. ASSUME NEW t \in Threads, WorkerStop(t) PROVE HandoffInv'
    BY <2>6 DEF WorkerStop, CallbackEffect, Hush, TypeOK
  <2>7. ASSUME NEW t \in Threads, Joined(t) PROVE HandoffInv'
    BY <2>7 DEF Joined, TypeOK, Steps
  <2>8. ASSUME NEW t \in Threads, JoinTimeout(t) PROVE HandoffInv'
    BY <2>8 DEF JoinTimeout, TypeOK, Steps
  <2>9. ASSUME NEW t \in Threads, Cleanup(t) PROVE HandoffInv'
    BY <2>9 DEF Cleanup, TypeOK, Steps
  <2>10. ASSUME NEW t \in Threads, Swap(t) PROVE HandoffInv'
    BY <2>10 DEF Swap, TypeOK, Steps
  <2>11. ASSUME NEW t \in Threads, Finish(t) PROVE HandoffInv'
    BY <2>11 DEF Finish, TypeOK, Steps
  <2>12. ASSUME Unlocked = {}, NEW t \in Threads, NEW n \in Names, Call(t, n)
         PROVE  HandoffInv'
    BY <2>12 DEF Call, TypeOK, Steps
  <2>13. ASSUME NEW d \in Devices, Silence(d) PROVE HandoffInv'
    BY <2>13 DEF Silence, Hush, TypeOK
  <2>14. ASSUME NEW t \in Threads, NEW n \in Names, NEW m \in Names,
                Unlocked = {}, PassiveControl(t, n, m)
         PROVE  HandoffInv'
    BY <2>14 DEF PassiveControl, TypeOK
  <2>15. CASE UNCHANGED vars
    BY <2>15 DEF vars, TypeOK
  <2>16. QED
    BY <2>1, <2>2, <2>3, <2>4, <2>5, <2>6, <2>7, <2>8, <2>9, <2>10, <2>11,
       <2>12, <2>13, <2>14, <2>15 DEF Next, CallerStep
<1>3. QED
  BY <1>1, <1>2, TypeCorrect, PTL DEF Spec

\* While callers hold the plugs lock, a backend whose pause works is audible
\* only while it owns the slot.
THEOREM OnlyTheActiveBackendPlays ==
  ASSUME Unlocked = {}
  PROVE  Spec => []ExclusivePlayback
<1>1. HandoffInv => ExclusivePlayback
  BY DEF HandoffInv
<1>2. QED
  BY <1>1, HandoffInvariant, PTL

\* While callers hold the plugs lock, the clean-up status of a backend is
\* published before another backend gets the slot.
THEOREM CleanupIsNotGatedOut ==
  ASSUME Unlocked = {}
  PROVE  Spec => []CleanupWhileActive
<1>1. HandoffInv => CleanupWhileActive
  BY DEF HandoffInv, CleanupWhileActive
<1>2. QED
  BY <1>1, HandoffInvariant, PTL

-----------------------------------------------------------------------------

\* Whatever other callers hold, one that takes the plugs lock has it for as long as
\* its call is under way.
LEMMA CallersHoldTheLock ==
  Spec => [](\A t \in Threads \ Unlocked : step[t] # "idle" => callLock = t)
<1> DEFINE Held == \A t \in Threads \ Unlocked : step[t] # "idle" => callLock = t
<1>1. Init => Held
  BY DEF Init
<1>2. TypeOK /\ Held /\ [Next]_vars => Held'
  <2> SUFFICES ASSUME TypeOK, Held, [Next]_vars PROVE Held'
    OBVIOUS
  <2> USE NamesAssumption DEF TypeOK, Goto
  <2>1. ASSUME NEW t \in Threads, NEW n \in Names, Call(t, n) PROVE Held'
    BY <2>1 DEF Call
  <2>2. ASSUME NEW t \in Threads, Finish(t) PROVE Held'
    BY <2>2 DEF Finish
  <2>3. ASSUME NEW t \in Threads,
               Snapshot(t) \/ Pause(t) \/ StartStop(t) \/ Joined(t) \/ JoinTimeout(t)
                 \/ Cleanup(t) \/ Swap(t)
        PROVE  Held'
    BY <2>3 DEF Snapshot, Pause, StartStop, Joined, JoinTimeout, Cleanup, Swap
  <2>4. ASSUME UNCHANGED <<step, callLock>> PROVE Held'
    BY <2>4
  <2>5. QED
    BY <2>1, <2>2, <2>3, <2>4 DEF Next, CallerStep, vars, Register, LateStop,
       WorkerStop, PassiveControl, Silence
<1>3. QED
  BY <1>1, <1>2, TypeCorrect, PTL DEF Spec

\* For any backends that wedge or go through plugs and any callers, locked or not:
\* only the stop of such a backend is ever late, and one that goes through plugs does
\* not land in the middle of a call that holds the plugs lock.
THEOREM StopsFallBetweenCalls == Spec => LateStopsFallBetweenCalls
<1> DEFINE Held == \A t \in Threads \ Unlocked : step[t] # "idle" => callLock = t
           Falls == \A n \in Names :
                      /\ overrun'[n] > overrun[n] => n \in ThroughPlugs \union Wedges
                      /\ overrun'[n] < overrun[n] /\ n \in ThroughPlugs =>
                           \A t \in Threads \ Unlocked : step[t] = "idle"
<1>1. TypeOK /\ Held /\ [Next]_vars => Falls
  <2> SUFFICES ASSUME TypeOK, Held, [Next]_vars PROVE Falls
    OBVIOUS
  <2>1. ASSUME NEW t \in Threads, JoinTimeout(t) PROVE Falls
    BY <2>1 DEF JoinTimeout, LockFreeFor, TypeOK
  <2>2. ASSUME NEW n \in Names, LateStop(n) PROVE Falls
    BY <2>2, NamesAssumption DEF LateStop, LockFreeFor, TypeOK
  <2>3. ASSUME UNCHANGED overrun PROVE Falls
    BY <2>3 DEF TypeOK
  <2>4. QED
    BY <2>1, <2>2, <2>3 DEF Next, CallerStep, vars, Register, Snapshot, Pause,
       StartStop, WorkerStop, Joined, Cleanup, Swap, Finish, Call, Silence,
       PassiveControl
<1>2. QED
  BY <1>1, TypeCorrect, CallersHoldTheLock, PTL DEF Spec, LateStopsFallBetweenCalls

\* While callers hold the plugs lock and pauses work, the threads, locks, stop
\* workers and timeouts of the hand-off are invisible: it implements the
\* abstract slot, whose hand-off is one step taken in silence.
THEOREM HandoffRefinesActiveSlot ==
  ASSUME Unlocked = {}, DeafPause = {}
  PROVE  Spec => ImplementsActiveSlot
<1>1. Init => AS!Init
  BY DEF Init, AS!Init
<1>2. ASSUME Unlocked = {}, DeafPause = {}, TypeOK, HandoffInv, [Next]_vars
      PROVE  [AS!Next]_(AS!avars)
  <2> USE <1>2, NamesAssumption DEF Goto, audio, AS!avars
  <2>1. ASSUME NEW n \in Names, Register(n) PROVE [AS!Next]_(AS!avars)
    BY <2>1 DEF Register, AS!Next, AS!Claim
  <2>2. ASSUME NEW n \in Names, Hush(Device[n]), current' = current
        PROVE  AS!Next
    BY <2>2 DEF Hush, AS!Next, AS!Silence
  <2>3. ASSUME NEW n \in Names, LateStop(n) PROVE [AS!Next]_(AS!avars)
    BY <2>2, <2>3 DEF LateStop, CallbackEffect
  <2>4. ASSUME NEW t \in Threads, Pause(t) PROVE [AS!Next]_(AS!avars)
    <3>1. outgoing[t] \in Names
      BY <2>4 DEF Pause, HandoffInv, TypeOK
    <3>2. QED
      BY <2>2, <2>4, <3>1 DEF Pause, CallbackEffect
  <2>5. ASSUME NEW t \in Threads, WorkerStop(t) PROVE [AS!Next]_(AS!avars)
    <3>1. outgoing[t] \in Names
      BY <2>5 DEF WorkerStop, HandoffInv, TypeOK
    <3>2. QED
      BY <2>2, <2>5, <3>1 DEF WorkerStop, CallbackEffect
  <2>6. ASSUME NEW t \in Threads, Swap(t) PROVE [AS!Next]_(AS!avars)
    <3>1. target[t] \in Names /\ AS!OnlySounding({})
      BY <2>6 DEF Swap, HandoffInv, AS!OnlySounding
    <3>2. QED
      BY <2>6, <3>1 DEF Swap, AS!Next, AS!Handoff
  <2>7. ASSUME NEW t \in Threads, Finish(t) PROVE [AS!Next]_(AS!avars)
    <3>1. target[t] \in Names /\ current = target[t]
      BY <2>7 DEF Finish, HandoffInv
    <3>2. AS!OnlySounding({target[t]})
      BY <3>1 DEF HandoffInv, ExclusivePlayback, AS!OnlySounding
    <3>3. QED
      BY <2>7, <3>1, <3>2 DEF Finish, AS!Next, AS!Play
  <2>8. ASSUME NEW d \in Devices, Silence(d) PROVE [AS!Next]_(AS!avars)
    BY <2>8 DEF Silence, Hush, AS!Next, AS!Silence
  <2>9. ASSUME NEW t \in Threads,
               \/ Snapshot(t) \/ StartStop(t) \/ Joined(t) \/ JoinTimeout(t)
               \/ Cleanup(t) \/ (\E n \in Names : Call(t, n))
        PROVE  UNCHANGED AS!avars
    BY <2>9 DEF Snapshot, StartStop, Joined, JoinTimeout, Cleanup, Call
  <2>10. ASSUME NEW t \in Threads, NEW n \in Names, NEW m \in Names,
                PassiveControl(t, n, m)
         PROVE  [AS!Next]_(AS!avars)
    BY <2>10 DEF PassiveControl, AS!Next, AS!Restart
  <2>11. CASE UNCHANGED vars
    BY <2>11 DEF vars
  <2>12. QED
    BY <2>1, <2>3, <2>4, <2>5, <2>6, <2>7, <2>8, <2>9, <2>10, <2>11
       DEF Next, CallerStep
<1>3. QED
  BY <1>1, <1>2, TypeCorrect, HandoffInvariant, PTL
     DEF Spec, ImplementsActiveSlot, AS!Spec
=============================================================================
