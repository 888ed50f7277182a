---------------------------- MODULE Timers_proofs ----------------------------
(***************************************************************************)
(* Proofs about a timer, for any number of iterations, intervals and runs, *)
(* and about the timers of the fade-out, for any number of starts.         *)
(***************************************************************************)
EXTENDS MCTimers, TLAPS

(* One timer.                                                                 *)

\* Types, apart from the Booleans.
Counters ==
  /\ endless \in BOOLEAN
  /\ left \in 0..Iterations
  /\ runs \in Nat
  /\ calls \in 0..(Iterations + 1)
  /\ late \in 0..Lost
  /\ thread \in {"dead", "begin", "wait", "look", "woken", "clear", "call", "busy",
                 "end", "leave"}

\* A cancel that was not lost keeps the event up, so the thread does not get as
\* far as another call.
Cancelled ==
  /\ late \in {0, 1} => cmdCancel /\ event /\ thread # "clear"
  /\ late = 1 => thread # "call"
  /\ late # 2
  /\ caller = "wake" => cmdCancel

\* The countdown: what is left and what was called add up to the iterations.
Countdown ==
  /\ left = 0 => thread \in {"dead", "end", "leave"}
  /\ cmdCancel /\ late = NotCancelled => thread \in {"leave", "dead"}
  /\ ~endless =>
       /\ thread \in {"begin", "wait", "look", "woken", "clear", "call"} =>
            calls + left = Iterations
       /\ thread = "busy" => calls + left = Iterations + 1
       /\ thread \in {"end", "leave", "dead"} /\ late = NotCancelled /\ runs > 0 =>
            calls = Iterations

\* What a caller is about to publish is out of date only once the thread ended.
Display ==
  /\ RunningIsShown
  /\ caller = "send" /\ ~reading => thread = "dead"

TimerInv == Counters /\ Cancelled /\ Countdown /\ Display

\* A timer's thread, its event and its count agree with what callers asked for.
LEMMA TimerInvariant == Spec => []TimerInv
<1> USE TimerAssumption DEF NotCancelled, Cancelling, Lost
<1>1. Init => TimerInv
  BY DEF Init, TimerInv, Counters, Cancelled, Countdown, Display, RunningIsShown
<1>2. TimerInv /\ [Next]_vars => TimerInv'
  <2> SUFFICES ASSUME TimerInv, [Next]_vars PROVE TimerInv'
    OBVIOUS
  <2> USE DEF TimerInv, Counters, Cancelled, Countdown, Display, RunningIsShown,
              callVars, Cap, Alive
  <2>1. CASE Begin
    BY <2>1 DEF Begin
  <2>2. CASE Wait
    BY <2>2 DEF Wait
  <2>3. CASE Look
    BY <2>3 DEF Look
  <2>4. CASE Woken
    BY <2>4 DEF Woken
  <2>5. CASE Clear
    BY <2>5 DEF Clear
  <2>6. CASE CallFunction
    BY <2>6 DEF CallFunction
  <2>7. CASE Return
    BY <2>7 DEF Return
  <2>8. CASE End
    BY <2>8 DEF End
  <2>9. CASE Leave
    BY <2>9 DEF Leave
  <2>10. CASE SetFlag
    BY <2>10 DEF SetFlag
  <2>11. CASE Wake
    BY <2>11 DEF Wake
  <2>12. CASE Restart
    BY <2>12 DEF Restart, NewThread
  <2>13. CASE Send
    BY <2>13 DEF Send
  <2>14. ASSUME NEW w \in Intervals, Start(w) PROVE TimerInv'
    BY <2>14 DEF Start, NewThread
  <2>15. ASSUME NEW w \in Intervals, SetTimeout(w) PROVE TimerInv'
    BY <2>15 DEF SetTimeout
  <2>16. CASE Cancel
    BY <2>16 DEF Cancel
  <2>17. CASE Trigger
    BY <2>17 DEF Trigger
  <2>18. CASE Publish
    BY <2>18 DEF Publish
  <2>19. CASE UNCHANGED vars
    BY <2>19 DEF vars
  <2>20. QED
    BY <2>1, <2>2, <2>3, <2>4, <2>5, <2>6, <2>7, <2>8, <2>9, <2>10, <2>11, <2>12,
       <2>13, <2>14, <2>15, <2>16, <2>17, <2>18, <2>19
       DEF Next, ThreadStep, CallerStep
<1>3. QED
  BY <1>1, <1>2, PTL DEF Spec

\* A caller that is to restart the timer has a thread in its budget.
Budget ==
  /\ restart => runs < MaxRuns
  /\ caller = "restart" => restart
  /\ caller \in {"idle", "send"} => ~restart

\* The variables keep their types; the run counter keeps its bound because no
\* call can begin while set_timeout has yet to restart the timer.
THEOREM TimerTypes == Spec => []TypeOK
<1> USE TimerAssumption DEF NotCancelled, Cancelling, Lost
<1> DEFINE Inv == TypeOK /\ Budget
<1>1. Init => Inv
  <2> SUFFICES ASSUME Init PROVE TypeOK /\ Budget
    OBVIOUS
  <2>1. Budget
    BY DEF Init, Budget
  <2>2. /\ left \in 0..Iterations
        /\ runs \in 0..MaxRuns
        /\ calls \in 0..(Iterations + 1)
        /\ late \in 0..Lost
    BY DEF Init
  <2>3. QED
    BY <2>1, <2>2 DEF Init, TypeOK
<1>2. TimerInv /\ Inv /\ [Next]_vars => Inv'
  <2> SUFFICES ASSUME TimerInv, Inv, [Next]_vars PROVE Inv'
    OBVIOUS
  <2> USE DEF TimerInv, Counters, Countdown, TypeOK, Budget, callVars, Cap, Alive
  <2>1. CASE Begin
    BY <2>1 DEF Begin
  <2>2. CASE Wait
    BY <2>2 DEF Wait
  <2>3. CASE Look
    BY <2>3 DEF Look
  <2>4. CASE Woken
    BY <2>4 DEF Woken
  <2>5. CASE Clear
    BY <2>5 DEF Clear
  <2>6. CASE CallFunction
    BY <2>6 DEF CallFunction
  <2>7. CASE Return
    BY <2>7 DEF Return
  <2>8. CASE End
    BY <2>8 DEF End
  <2>9. CASE Leave
    BY <2>9 DEF Leave
  <2>10. CASE SetFlag
    BY <2>10 DEF SetFlag
  <2>11. CASE Wake
    BY <2>11 DEF Wake
  <2>12. CASE Restart
    <3>1. CASE Alive
      BY <2>12, <3>1 DEF Restart, NewThread
    <3>2. CASE ~Alive
      <4>1. runs < MaxRuns /\ runs' = runs + 1
        BY <2>12, <3>2 DEF Restart, NewThread
      <4>2. Budget'
        BY <2>12, <3>2 DEF Restart, NewThread
      <4>3. left' \in 0..Iterations /\ calls' \in 0..(Iterations + 1) /\ late' \in 0..Lost
        BY <2>12, <3>2 DEF Restart, NewThread
      <4>4. runs' \in 0..MaxRuns
        BY <4>1
      <4>5. QED
        BY <2>12, <3>2, <4>2, <4>3, <4>4 DEF Restart, NewThread
    <3>3. QED
      BY <3>1, <3>2
  <2>13. CASE Send
    BY <2>13 DEF Send
  <2>14. ASSUME NEW w \in Intervals, Start(w) PROVE Inv'
    <3>1. CASE Alive
      BY <2>14, <3>1 DEF Start, NewThread
    <3>2. CASE ~Alive
      <4>1. runs < MaxRuns /\ runs' = runs + 1
        BY <2>14, <3>2 DEF Start, NewThread
      <4>2. Budget'
        BY <2>14, <3>2 DEF Start, NewThread
      <4>3. left' \in 0..Iterations /\ calls' \in 0..(Iterations + 1) /\ late' \in 0..Lost
        BY <2>14, <3>2 DEF Start, NewThread
      <4>4. runs' \in 0..MaxRuns
        BY <4>1
      <4>5. QED
        BY <2>14, <3>2, <4>2, <4>3, <4>4 DEF Start, NewThread
    <3>3. QED
      BY <3>1, <3>2
  <2>15. ASSUME NEW w \in Intervals, SetTimeout(w) PROVE Inv'
    BY <2>15 DEF SetTimeout
  <2>16. CASE Cancel
    BY <2>16 DEF Cancel
  <2>17. CASE Trigger
    BY <2>17 DEF Trigger
  <2>18. CASE Publish
    BY <2>18 DEF Publish
  <2>19. CASE UNCHANGED vars
    BY <2>19 DEF vars
  <2>20. QED
    BY <2>1, <2>2, <2>3, <2>4, <2>5, <2>6, <2>7, <2>8, <2>9, <2>10, <2>11, <2>12,
       <2>13, <2>14, <2>15, <2>16, <2>17, <2>18, <2>19
       DEF Next, ThreadStep, CallerStep
<1>3. Inv => TypeOK
  OBVIOUS
<1>4. QED
  BY <1>1, <1>2, <1>3, TimerInvariant, PTL DEF Spec

\* After a cancel that was not lost at most one more call begins.
THEOREM CancelledTimersCallOnceMore == Spec => []AtMostOneCallAfterCancel
<1>1. TimerInv => AtMostOneCallAfterCancel
  BY DEF TimerInv, Cancelled, AtMostOneCallAfterCancel
<1>2. QED
  BY <1>1, TimerInvariant, PTL

\* A limited run that nobody cancels makes exactly its calls.
THEOREM UncancelledRunsAreComplete == Spec => []UncancelledRunIsComplete
<1>1. TimerInv => UncancelledRunIsComplete
  BY DEF TimerInv, Countdown, UncancelledRunIsComplete
<1>2. QED
  BY <1>1, TimerInvariant, PTL

\* A timer that is under way is never shown as stopped.
THEOREM RunningTimersAreShown == Spec => []RunningIsShown
<1>1. TimerInv => RunningIsShown
  BY DEF TimerInv, Display
<1>2. QED
  BY <1>1, TimerInvariant, PTL

----------------------------------------------------------------------------
(* The timers of the fade-out.                                                *)

FadeSpec == FadeInit /\ [][FadeNext]_fadeVars

Thread == [pc : {"off", "wait", "call", "asked"}, cancelled : BOOLEAN]

FadeTypes ==
  /\ started \in 0..MaxStarts /\ quiet \subseteq Starts /\ calm \in BOOLEAN
  /\ client # "none" /\ restarting => started < MaxStarts
  /\ client = "create" => restarting
  /\ shutdown \in [Starts -> Thread] /\ lead \in [Starts -> Thread] /\ fade \in [Starts -> Thread]
  /\ DOMAIN faded = Starts
  /\ \A g \in Starts : shutdown[g].pc # "asked" /\ fade[g].pc # "asked"

\* A thread that will do nothing more.
Silent(t) == t.pc = "off" \/ (t.pc = "wait" /\ t.cancelled)
Doomed(t) == t.pc # "off" => t.cancelled

QuietIsSilent ==
  \A g \in quiet : g <= started /\ Silent(shutdown[g]) /\ Silent(lead[g]) /\ Silent(fade[g])

\* What the call of start or cancel has reached of the last start's timers.  Its fade
\* is the one that fadeout_timer names, unless one of another start takes its place;
\* and a start that was settled makes no new fade meanwhile.
CancelledSoFar ==
  /\ client \in {"lead", "fade", "reset"} /\ started \in Starts => Doomed(shutdown[started])
  /\ client \in {"fade", "reset"} /\ started \in Starts => Doomed(lead[started])
  /\ client \in {"shutdown", "lead", "fade", "reset"} /\ calm =>
       started \in Starts /\ lead[started].pc # "asked"
  /\ client = "reset" /\ calm /\ fadeTimer = started => Doomed(fade[started])

FadeInv == FadeTypes /\ QuietIsSilent /\ CancelledSoFar

\* The fade-out begins with no timer under way.
LEMMA FadeStarts == FadeInit => FadeInv
<1> SUFFICES ASSUME FadeInit PROVE FadeInv
  OBVIOUS
<1>1. Off \in Thread /\ Off.pc = "off"
  BY DEF Off, Thread
<1>2. FadeTypes
  <2>1. 0 \in 0..MaxStarts
    BY FadeAssumption
  <2>2. shutdown = [g \in Starts |-> Off] /\ lead = shutdown /\ fade = shutdown
    BY DEF FadeInit
  <2>3. \A g \in Starts : shutdown[g] = Off /\ fade[g] = Off
    BY <2>2
  <2>4. shutdown \in [Starts -> Thread] /\ DOMAIN faded = Starts
    BY <1>1, <2>2 DEF FadeInit
  <2>5. started = 0 /\ quiet = {} /\ calm = FALSE /\ client = "none"
    BY DEF FadeInit
  <2> QED  BY <1>1, <2>1, <2>2, <2>3, <2>4, <2>5 DEF FadeTypes
<1>3. QuietIsSilent /\ CancelledSoFar
  BY DEF FadeInit, QuietIsSilent, CancelledSoFar
<1> QED  BY <1>2, <1>3 DEF FadeInv

\* Cancelling marks one thread, if it is alive, and leaves the others alone.
LEMMA CancelOneIs ==
  ASSUME NEW threads \in [Starts -> Thread], NEW g
  PROVE  /\ CancelOne(threads, g) \in [Starts -> Thread]
         /\ \A h \in Starts : /\ CancelOne(threads, g)[h].pc = threads[h].pc
                              /\ Silent(threads[h]) => Silent(CancelOne(threads, g)[h])
                              /\ Doomed(threads[h]) => Doomed(CancelOne(threads, g)[h])
         /\ g \in Starts => Doomed(CancelOne(threads, g)[g])
<1>1. \A h \in Starts : CancelOne(threads, g)[h] =
        IF h = g /\ threads[h].pc # "off" THEN [threads[h] EXCEPT !.cancelled = TRUE] ELSE threads[h]
  BY DEF CancelOne, IsAlive
<1>2. \A t \in Thread : /\ [t EXCEPT !.cancelled = TRUE] \in Thread
                             /\ [t EXCEPT !.cancelled = TRUE].pc = t.pc
                             /\ [t EXCEPT !.cancelled = TRUE].cancelled
  BY DEF Thread
<1>3. CancelOne(threads, g) \in [Starts -> Thread]
  BY <1>2 DEF CancelOne
<1>4. \A h \in Starts : threads[h] \in Thread
  OBVIOUS
<1> QED  BY <1>1, <1>2, <1>3, <1>4 DEF Silent, Doomed

\* A thread that wakes up calls its function unless it was cancelled.
LEMMA WakeUpIs ==
  ASSUME NEW t \in Thread, t.pc = "wait"
  PROVE  /\ WakeUp(t) \in Thread /\ WakeUp(t).pc \in {"off", "call"}
         /\ t.cancelled => WakeUp(t).pc = "off"
BY DEF WakeUp, Thread, Off

\* A start or a cancel goes one step on.
LEMMA FadeCallerSteps ==
  ASSUME FadeInv,
         \/ \E start \in BOOLEAN : CallTimers(start)
         \/ CancelShutdown \/ CancelLead \/ CancelFade \/ ResetState \/ RefuseStart \/ StartTimers
  PROVE  FadeInv'
<1> USE FadeAssumption
<1>0. FadeTypes /\ QuietIsSilent /\ CancelledSoFar
  BY DEF FadeInv
<1>1. ASSUME NEW start \in BOOLEAN, CallTimers(start) PROVE FadeInv'
  <2>1. /\ client = "none" /\ client' = "shutdown" /\ calm' = Settled
        /\ restarting' = start /\ (start => started < MaxStarts)
        /\ UNCHANGED <<started, shutdown, lead, fade, faded, quiet>>
    BY <1>1 DEF CallTimers, fades
  <2>2. Settled \in BOOLEAN /\ (Settled => started > 0 /\ lead[started].pc \in {"off", "wait"})
    BY DEF Settled
  <2>3. FadeTypes' /\ QuietIsSilent'
    BY <1>0, <2>1, <2>2 DEF FadeTypes, QuietIsSilent
  <2>4. Settled => started \in Starts
    BY <1>0, <2>2 DEF FadeTypes, Starts
  <2> QED  BY <2>1, <2>2, <2>3, <2>4 DEF FadeInv, CancelledSoFar
<1>2. CASE CancelShutdown
  <2>1. /\ client = "shutdown" /\ client' = "lead" /\ shutdown' = CancelOne(shutdown, started)
        /\ UNCHANGED <<restarting, started, lead, calm, quiet, fade, faded, fadeTimer>>
    BY <1>2 DEF CancelShutdown, fades
  <2>2. /\ shutdown' \in [Starts -> Thread]
        /\ \A h \in Starts : /\ shutdown'[h].pc = shutdown[h].pc
                             /\ Silent(shutdown[h]) => Silent(shutdown'[h])
        /\ started \in Starts => Doomed(shutdown'[started])
    <3> DEFINE after == CancelOne(shutdown, started)
    <3>1. shutdown \in [Starts -> Thread]
      BY <1>0 DEF FadeTypes
    <3>2. /\ after \in [Starts -> Thread]
          /\ \A h \in Starts : /\ after[h].pc = shutdown[h].pc
                               /\ Silent(shutdown[h]) => Silent(after[h])
          /\ started \in Starts => Doomed(after[started])
      BY <3>1, CancelOneIs
    <3> HIDE DEF after
    <3>3. shutdown' = after
      BY <2>1 DEF after
    <3> QED  BY <3>2, <3>3
  <2>3. FadeTypes' /\ QuietIsSilent'
    BY <1>0, <2>1, <2>2 DEF FadeTypes, QuietIsSilent
  <2> QED  BY <1>0, <2>1, <2>2, <2>3 DEF FadeInv, CancelledSoFar
<1>3. CASE CancelLead
  <2>1. /\ client = "lead" /\ client' = "fade" /\ lead' = CancelOne(lead, started)
        /\ UNCHANGED <<restarting, started, shutdown, calm, quiet, fade, faded, fadeTimer>>
    BY <1>3 DEF CancelLead, fades
  <2>2. /\ lead' \in [Starts -> Thread]
        /\ \A h \in Starts : /\ lead'[h].pc = lead[h].pc
                             /\ Silent(lead[h]) => Silent(lead'[h])
        /\ started \in Starts => Doomed(lead'[started])
    <3> DEFINE after == CancelOne(lead, started)
    <3>1. lead \in [Starts -> Thread]
      BY <1>0 DEF FadeTypes
    <3>2. /\ after \in [Starts -> Thread]
          /\ \A h \in Starts : /\ after[h].pc = lead[h].pc
                               /\ Silent(lead[h]) => Silent(after[h])
          /\ started \in Starts => Doomed(after[started])
      BY <3>1, CancelOneIs
    <3> HIDE DEF after
    <3>3. lead' = after
      BY <2>1 DEF after
    <3> QED  BY <3>2, <3>3
  <2>3. FadeTypes' /\ QuietIsSilent'
    BY <1>0, <2>1, <2>2 DEF FadeTypes, QuietIsSilent
  <2> QED  BY <1>0, <2>1, <2>2, <2>3 DEF FadeInv, CancelledSoFar
<1>4. CASE CancelFade
  <2>1. /\ client = "fade" /\ client' = "reset" /\ fade' = CancelOne(fade, fadeTimer)
        /\ UNCHANGED <<restarting, started, shutdown, lead, calm, quiet, faded, fadeTimer>>
    BY <1>4 DEF CancelFade
  <2>2. /\ fade' \in [Starts -> Thread]
        /\ \A h \in Starts : /\ fade'[h].pc = fade[h].pc
                             /\ Silent(fade[h]) => Silent(fade'[h])
        /\ fadeTimer \in Starts => Doomed(fade'[fadeTimer])
    <3> DEFINE after == CancelOne(fade, fadeTimer)
    <3>1. fade \in [Starts -> Thread]
      BY <1>0 DEF FadeTypes
    <3>2. /\ after \in [Starts -> Thread]
          /\ \A h \in Starts : /\ after[h].pc = fade[h].pc
                               /\ Silent(fade[h]) => Silent(after[h])
          /\ fadeTimer \in Starts => Doomed(after[fadeTimer])
      BY <3>1, CancelOneIs
    <3> HIDE DEF after
    <3>3. fade' = after
      BY <2>1 DEF after
    <3> QED  BY <3>2, <3>3
  <2>3. FadeTypes' /\ QuietIsSilent'
    BY <1>0, <2>1, <2>2 DEF FadeTypes, QuietIsSilent
  <2> QED  BY <1>0, <2>1, <2>2, <2>3 DEF FadeInv, CancelledSoFar
<1>5. CASE ResetState
  <2>1. /\ client = "reset" /\ client' = (IF restarting THEN "create" ELSE "none")
        /\ UNCHANGED <<restarting, started, shutdown, lead, fade, faded, calm>>
        /\ quiet' = IF Settled /\ calm THEN quiet \union {started} ELSE quiet
    BY <1>5 DEF ResetState, fades
  <2>2. CASE Settled /\ calm
    <3>1. started \in Starts /\ started \in Nat
      BY <1>0, <2>1, <2>2 DEF CancelledSoFar, FadeTypes, Starts
    <3>2. /\ shutdown[started].pc \in {"off", "wait"} /\ lead[started].pc \in {"off", "wait"}
          /\ fade[started].pc \in {"off", "wait"}
          /\ fade[started].pc # "off" => fadeTimer = started
      BY <2>2 DEF Settled, IsAlive
    <3>3. /\ Doomed(shutdown[started]) /\ Doomed(lead[started])
          /\ fadeTimer = started => Doomed(fade[started])
      BY <1>0, <2>1, <2>2, <3>1 DEF CancelledSoFar
    <3>4. Silent(shutdown[started]) /\ Silent(lead[started]) /\ Silent(fade[started])
      BY <3>2, <3>3 DEF Silent, Doomed
    <3>5. FadeTypes' /\ QuietIsSilent'
      BY <1>0, <2>1, <2>2, <3>1, <3>4 DEF FadeTypes, QuietIsSilent
    <3> QED  BY <2>1, <3>5 DEF FadeInv, CancelledSoFar
  <2>3. CASE ~(Settled /\ calm)
    <3>1. FadeTypes' /\ QuietIsSilent'
      BY <1>0, <2>1, <2>3 DEF FadeTypes, QuietIsSilent
    <3> QED  BY <2>1, <3>1 DEF FadeInv, CancelledSoFar
  <2> QED  BY <2>2, <2>3
<1>6. CASE RefuseStart
  BY <1>0, <1>6 DEF RefuseStart, fades, FadeInv, FadeTypes, QuietIsSilent, CancelledSoFar
<1>7. CASE StartTimers
  <2>1. /\ client = "create" /\ client' = "none" /\ started' = started + 1
        /\ shutdown' = [shutdown EXCEPT ![started + 1] = Waiting]
        /\ lead' = [lead EXCEPT ![started + 1] = Waiting]
        /\ UNCHANGED <<restarting, quiet, calm, fade, faded>>
    BY <1>7 DEF StartTimers, fades
  <2>2. Waiting \in Thread /\ Waiting.pc = "wait"
    BY DEF Waiting, Thread
  <2>3. FadeTypes'
    <3>1. started' \in 0..MaxStarts
      BY <1>0, <2>1 DEF FadeTypes
    <3>2. shutdown' \in [Starts -> Thread] /\ lead' \in [Starts -> Thread]
      BY <1>0, <2>1, <2>2 DEF FadeTypes
    <3>3. \A g \in Starts : shutdown'[g].pc # "asked"
      BY <1>0, <2>1, <2>2 DEF FadeTypes
    <3> QED  BY <1>0, <2>1, <3>1, <3>2, <3>3 DEF FadeTypes
  <2>4. QuietIsSilent'
    <3> SUFFICES ASSUME NEW g \in quiet
                 PROVE  g <= started + 1 /\ Silent(shutdown'[g]) /\ Silent(lead'[g]) /\ Silent(fade'[g])
      BY <2>1 DEF QuietIsSilent
    <3>1. g \in Starts /\ g \in Nat /\ g <= started /\ started \in Nat /\ g # started + 1
      BY <1>0 DEF FadeTypes, QuietIsSilent, Starts
    <3>2. shutdown'[g] = shutdown[g] /\ lead'[g] = lead[g] /\ fade'[g] = fade[g]
      BY <1>0, <2>1, <3>1 DEF FadeTypes
    <3> QED  BY <1>0, <3>1, <3>2 DEF QuietIsSilent
  <2> QED  BY <2>1, <2>3, <2>4 DEF FadeInv, CancelledSoFar
<1> QED  BY <1>1, <1>2, <1>3, <1>4, <1>5, <1>6, <1>7

\* One of the threads goes a step on, or the volume is turned.
LEMMA FadeThreadSteps ==
  ASSUME FadeInv,
         \/ \E g \in Starts : WakeShutdown(g) \/ WakeLead(g) \/ WakeFade(g) \/ Shutdown(g)
                               \/ AskVolume(g) \/ StartFade(g) \/ FadeStep(g)
         \/ TurnVolume
  PROVE  FadeInv'
<1>0. FadeTypes /\ QuietIsSilent /\ CancelledSoFar
  BY DEF FadeInv
<1>1. Off \in Thread /\ Off.pc = "off" /\ Waiting \in Thread /\ Waiting.pc = "wait"
  BY DEF Off, Waiting, Thread
<1>2. ASSUME NEW g \in Starts, WakeShutdown(g) PROVE FadeInv'
  <2>1. /\ shutdown[g].pc = "wait" /\ shutdown' = [shutdown EXCEPT ![g] = WakeUp(shutdown[g])]
        /\ UNCHANGED <<restarting, started, lead, client, calm, quiet, fade, faded, fadeTimer>>
    BY <1>2 DEF WakeShutdown, clientVars, fades
  <2>2. /\ WakeUp(shutdown[g]) \in Thread /\ WakeUp(shutdown[g]).pc \in {"off", "call"}
        /\ shutdown[g].cancelled => WakeUp(shutdown[g]).pc = "off"
    BY <1>0, <2>1, WakeUpIs DEF FadeTypes
  <2>3. /\ \A h \in Starts : (Silent(shutdown[h]) => Silent(shutdown'[h]))
                               /\ (Doomed(shutdown[h]) => Doomed(shutdown'[h]))
    BY <1>0, <2>1, <2>2 DEF FadeTypes, Silent, Doomed
  <2>4. FadeTypes' /\ QuietIsSilent'
    BY <1>0, <2>1, <2>2, <2>3 DEF FadeTypes, QuietIsSilent
  <2> QED  BY <1>0, <2>1, <2>3, <2>4 DEF FadeInv, CancelledSoFar
<1>3. ASSUME NEW g \in Starts, WakeLead(g) PROVE FadeInv'
  <2>1. /\ lead[g].pc = "wait" /\ lead' = [lead EXCEPT ![g] = WakeUp(lead[g])]
        /\ UNCHANGED <<restarting, started, shutdown, client, calm, quiet, fade, faded, fadeTimer>>
    BY <1>3 DEF WakeLead, clientVars, fades
  <2>2. /\ WakeUp(lead[g]) \in Thread /\ WakeUp(lead[g]).pc \in {"off", "call"}
        /\ lead[g].cancelled => WakeUp(lead[g]).pc = "off"
    BY <1>0, <2>1, WakeUpIs DEF FadeTypes
  <2>3. \A h \in Starts : /\ Silent(lead[h]) => Silent(lead'[h])
                          /\ Doomed(lead[h]) => Doomed(lead'[h])
                          /\ lead[h].pc # "asked" => lead'[h].pc # "asked"
    BY <1>0, <2>1, <2>2 DEF FadeTypes, Silent, Doomed
  <2>4. FadeTypes' /\ QuietIsSilent'
    BY <1>0, <2>1, <2>2, <2>3 DEF FadeTypes, QuietIsSilent
  <2> QED  BY <1>0, <2>1, <2>3, <2>4 DEF FadeInv, CancelledSoFar
<1>4. ASSUME NEW g \in Starts, WakeFade(g) PROVE FadeInv'
  <2>1. /\ fade[g].pc = "wait" /\ fade' = [fade EXCEPT ![g] = WakeUp(fade[g])]
        /\ UNCHANGED <<restarting, started, shutdown, lead, client, calm, quiet, faded, fadeTimer>>
    BY <1>4 DEF WakeFade, clientVars
  <2>2. /\ WakeUp(fade[g]) \in Thread /\ WakeUp(fade[g]).pc \in {"off", "call"}
        /\ fade[g].cancelled => WakeUp(fade[g]).pc = "off"
    BY <1>0, <2>1, WakeUpIs DEF FadeTypes
  <2>3. \A h \in Starts : /\ Silent(fade[h]) => Silent(fade'[h])
                          /\ Doomed(fade[h]) => Doomed(fade'[h])
    BY <1>0, <2>1, <2>2 DEF FadeTypes, Silent, Doomed
  <2>4. FadeTypes' /\ QuietIsSilent'
    BY <1>0, <2>1, <2>2, <2>3 DEF FadeTypes, QuietIsSilent
  <2> QED  BY <1>0, <2>1, <2>3, <2>4 DEF FadeInv, CancelledSoFar
<1>5. ASSUME NEW g \in Starts, Shutdown(g) PROVE FadeInv'
  <2>1. /\ client = "none" /\ shutdown' = [shutdown EXCEPT ![g] = Off]
        /\ UNCHANGED <<restarting, started, lead, client, calm, quiet, fade, faded>>
    BY <1>5 DEF Shutdown, clientVars, fades
  <2>2. FadeTypes' /\ QuietIsSilent'
    BY <1>0, <1>1, <2>1 DEF FadeTypes, QuietIsSilent, Silent
  <2> QED  BY <2>1, <2>2 DEF FadeInv, CancelledSoFar
<1>6. ASSUME NEW g \in Starts, AskVolume(g) PROVE FadeInv'
  <2> DEFINE next == IF loudness = 0 THEN Off ELSE [lead[g] EXCEPT !.pc = "asked"]
  <2>1. /\ lead[g].pc = "call" /\ client = "none" /\ lead' = [lead EXCEPT ![g] = next]
        /\ UNCHANGED <<restarting, started, shutdown, client, calm, quiet, fade, faded>>
    BY <1>6 DEF AskVolume, clientVars, fades
  <2>2. next \in Thread
    BY <1>0, <1>1 DEF FadeTypes, Thread
  <2>3. ~Silent(lead[g])
    BY <2>1 DEF Silent
  <2> HIDE DEF next
  <2>4. FadeTypes'
    BY <1>0, <2>1, <2>2 DEF FadeTypes
  <2>5. QuietIsSilent'
    BY <1>0, <2>1, <2>3 DEF FadeTypes, QuietIsSilent
  <2> QED  BY <2>1, <2>4, <2>5 DEF FadeInv, CancelledSoFar
<1>7. ASSUME NEW g \in Starts, StartFade(g) PROVE FadeInv'
  <2>1. /\ lead[g].pc = "asked" /\ fadeTimer' = g /\ lead' = [lead EXCEPT ![g] = Off]
        /\ \/ fade' = fade
           \/ fade' = [fade EXCEPT ![g] = Waiting]
        /\ UNCHANGED <<restarting, started, shutdown, client, calm, quiet, faded>>
    BY <1>7 DEF StartFade, clientVars
  <2>2. g \notin quiet
    BY <1>0, <2>1 DEF QuietIsSilent, Silent
  <2>3. \A h \in Starts : /\ Doomed(lead[h]) => Doomed(lead'[h])
                          /\ lead[h].pc # "asked" => lead'[h].pc # "asked"
    BY <1>0, <1>1, <2>1 DEF FadeTypes, Doomed
  <2>4. client = "reset" /\ calm => g # started
    BY <1>0, <2>1 DEF CancelledSoFar
  <2>5. FadeTypes'
    BY <1>0, <1>1, <2>1 DEF FadeTypes
  <2>6. QuietIsSilent'
    BY <1>0, <2>1, <2>2 DEF FadeTypes, QuietIsSilent
  <2> QED  BY <1>0, <2>1, <2>3, <2>4, <2>5, <2>6 DEF FadeInv, CancelledSoFar
<1>8. ASSUME NEW g \in Starts, FadeStep(g) PROVE FadeInv'
  <2> DEFINE next == IF faded[g] + 1 = Steps THEN Off ELSE [fade[g] EXCEPT !.pc = "wait"]
  <2>1. /\ fade[g].pc = "call" /\ client = "none" /\ fade' = [fade EXCEPT ![g] = next]
        /\ faded' = [faded EXCEPT ![g] = @ + 1]
        /\ UNCHANGED <<restarting, started, shutdown, lead, client, calm, quiet>>
    BY <1>8 DEF FadeStep, clientVars
  <2>2. next \in Thread /\ next.pc # "asked"
    BY <1>0, <1>1 DEF FadeTypes, Thread
  <2>3. ~Silent(fade[g])
    BY <2>1 DEF Silent
  <2> HIDE DEF next
  <2>4. FadeTypes'
    BY <1>0, <2>1, <2>2 DEF FadeTypes
  <2>5. QuietIsSilent'
    BY <1>0, <2>1, <2>3 DEF FadeTypes, QuietIsSilent
  <2> QED  BY <2>1, <2>4, <2>5 DEF FadeInv, CancelledSoFar
<1>9. CASE TurnVolume
  BY <1>0, <1>9 DEF TurnVolume, clientVars, fades, FadeInv, FadeTypes, QuietIsSilent, CancelledSoFar
<1> QED  BY <1>2, <1>3, <1>4, <1>5, <1>6, <1>7, <1>8, <1>9

\* A fade-out that was cancelled has no timer that could still change the volume.
LEMMA FadeInvariant == FadeSpec => []FadeInv
<1>1. FadeInv /\ [FadeNext]_fadeVars => FadeInv'
  <2> SUFFICES ASSUME FadeInv, [FadeNext]_fadeVars PROVE FadeInv'
    OBVIOUS
  <2>1. CASE FadeNext
    BY <2>1, FadeCallerSteps, FadeThreadSteps DEF FadeNext
  <2>2. CASE UNCHANGED fadeVars
    BY <2>2 DEF fadeVars, FadeInv, FadeTypes, QuietIsSilent, CancelledSoFar
  <2> QED  BY <2>1, <2>2
<1> QED  BY <1>1, FadeStarts, PTL DEF FadeSpec

\* A start that a cancel silenced neither shuts the box down nor turns the volume any
\* more, for any number of starts and steps of the fade, wherever their threads lie
\* (cancel, _start_fadeout).
THEOREM CancelledFadesAreSilent == FadeSpec => CancelSilences
<1> DEFINE Kept == \A g \in quiet : faded'[g] = faded[g] /\ shutdown'[g].pc # "call"
<1>1. FadeInv /\ FadeInv' /\ [FadeNext]_fadeVars => [Kept]_fadeVars
  <2> SUFFICES ASSUME FadeInv, FadeInv', FadeNext, NEW g \in quiet
               PROVE  faded'[g] = faded[g] /\ shutdown'[g].pc # "call"
    OBVIOUS
  <2>1. /\ g \in Starts /\ DOMAIN faded = Starts
        /\ fade[g].pc # "call"
    BY DEF FadeInv, FadeTypes, QuietIsSilent, Silent
  <2>2. quiet \subseteq quiet'
    BY DEF FadeNext, CallTimers, CancelShutdown, CancelLead, CancelFade, ResetState, RefuseStart,
           StartTimers, WakeShutdown, WakeLead, WakeFade, Shutdown, AskVolume, StartFade,
           FadeStep, TurnVolume, clientVars
  <2>3. faded' = faded \/ \E h \in Starts : FadeStep(h)
    BY DEF FadeNext, CallTimers, CancelShutdown, CancelLead, CancelFade, ResetState, RefuseStart,
           StartTimers, WakeShutdown, WakeLead, WakeFade, Shutdown, AskVolume, StartFade,
           TurnVolume, fades
  <2>4. faded'[g] = faded[g]
    BY <2>1, <2>3 DEF FadeStep
  <2>5. shutdown'[g].pc # "call"
    BY <2>2 DEF FadeInv, QuietIsSilent, Silent
  <2> QED  BY <2>4, <2>5
<1> QED  BY <1>1, FadeInvariant, PTL DEF FadeSpec, CancelSilences

----------------------------------------------------------------------------
(* The timer and the fade-out side by side.                                   *)

sumVars == <<part, vars, fadeVars>>

\* Side by side the two keep what they promise alone: a cancel that was not lost lets
\* one more call begin at most, an uncancelled run makes all its calls, a timer that
\* is under way is shown, and a fade-out that was cancelled is silent.
THEOREM TimersKeepTheirPromises ==
  SumSpec => /\ [](UncancelledRunIsComplete /\ AtMostOneCallAfterCancel /\ RunningIsShown)
             /\ CancelSilences
<1>1. SumInit => Init /\ FadeInit
  BY DEF SumInit
<1>2. [SumNext]_sumVars => [Next]_vars /\ [FadeNext]_fadeVars
  BY DEF SumNext, sumVars
<1>3. SumSpec => SumInit /\ [][SumNext]_sumVars
  BY PTL DEF SumSpec, sumVars
<1>4. SumSpec => Spec /\ FadeSpec
  BY <1>1, <1>2, <1>3, PTL DEF Spec, FadeSpec
<1> QED
  BY <1>4, UncancelledRunsAreComplete, CancelledTimersCallOnceMore, RunningTimersAreShown,
     CancelledFadesAreSilent, PTL
=============================================================================
