---------------------------- MODULE Daemon_proofs ----------------------------
(***************************************************************************)
(* Proofs about the daemon and what runs in it.  The plugs lock and the    *)
(* daemon's life, for any packages, threads and depth of calls; the RFID   *)
(* reader and its watchdog, for any cards; the cards database, for any     *)
(* cards and entries; the publishing of last values, for any topics,       *)
(* values, subscribers and lengths of the queues between them.             *)
(***************************************************************************)
EXTENDS MCJukeBox, PublishServer, FunctionTheorems, FiniteSetTheorems,
        SequenceTheorems, TLAPS

(* The plugs lock and the daemon.                                             *)

Places == {"idle", "wait", "run", "blocking"}

LockTypeOK ==
  /\ lock \in LockState
  /\ pc \in [Threads -> Places]
  /\ frames \in [Threads -> 0..MaxDepth]
  /\ dropped \in [Threads -> LockState]
  /\ stolen \in BOOLEAN

\* What makes the counting inductive: a free lock has depth 0, a thread outside of
\* a call has no frames, and, while nobody has given up another's lock, one in a
\* blocking section remembers the lock with all its frames, and will be the owner
\* again.
Remembers(t) == dropped[t] = [owner |-> t, depth |-> frames[t]] /\ frames[t] # 0

LockInv ==
  /\ LockTypeOK
  /\ lock.owner = Nobody <=> lock.depth = 0
  /\ \A t \in Threads :
       /\ dropped[t].owner = Nobody <=> dropped[t].depth = 0
       /\ pc[t] \in {"idle", "wait"} => frames[t] = 0
       /\ ~stolen /\ pc[t] = "blocking" => Remembers(t)
  /\ LockCountsFrames

\* The lock's owner and depth agree with the calls on the threads' stacks, after
\* every step, until a thread gives up a lock that is another's.
LEMMA LockInvariant == Spec => []LockInv
<1>0. Nobody \notin Threads /\ MaxDepth \in Nat \ {0}
  BY JukeBoxAssumption
<1> USE <1>0 DEF LockState
<1>1. Init => LockInv
  <2> SUFFICES ASSUME Init PROVE LockInv
    OBVIOUS
  <2>0. Free \in LockState /\ 0 \in 0..MaxDepth
    BY DEF Free
  <2>1. LockTypeOK
    <3>1. stolen \in BOOLEAN
      BY DEF Init
    <3> QED
      BY <2>0, <3>1, Zenon DEF Init, LockTypeOK, Places
  <2>2. lock = Free /\ ~stolen /\ dropped = [t \in Threads |-> Free]
    BY DEF Init
  <2>3. LockMatchesCalls /\ \A t \in Threads : pc[t] = "idle" /\ frames[t] = 0
    BY DEF Init, LockMatchesCalls, Free
  <2> QED
    BY <2>1, <2>2, <2>3 DEF LockInv, LockCountsFrames, Free
<1>2. LockInv /\ [Next]_vars => LockInv'
  <2> SUFFICES ASSUME LockInv, [Next]_vars PROVE LockInv'
    OBVIOUS
  <2> USE DEF LockInv, LockTypeOK, LockCountsFrames, LockMatchesCalls, Places, Remembers
  <2>1. ASSUME NEW t \in Threads, Call(t) PROVE LockInv'
    BY <2>1 DEF Call
  <2>2. ASSUME NEW t \in Threads, Enter(t) PROVE LockInv'
    BY <2>2 DEF Enter, Acquire
  <2>3. ASSUME NEW t \in Threads, Nest(t) PROVE LockInv'
    BY <2>3 DEF Nest, Acquire
  <2>4. ASSUME NEW t \in Threads, Return(t) PROVE LockInv'
    BY <2>4 DEF Return, Free
  <2>5. ASSUME NEW t \in Threads, Drop(t) PROVE LockInv'
    <3>1. CASE lock.depth = 0
      BY <2>5, <3>1 DEF Drop
    <3>2. CASE lock.depth # 0
      <4>1. LockTypeOK' /\ ((lock.owner = Nobody) <=> (lock.depth = 0))'
        BY <2>5, <3>2 DEF Drop, Free
      <4>2. ASSUME NEW u \in Threads
            PROVE  /\ (dropped'[u].owner = Nobody) <=> (dropped'[u].depth = 0)
                   /\ pc'[u] \in {"idle", "wait"} => frames'[u] = 0
        BY <2>5, <3>2, <4>2 DEF Drop
      <4>3. ASSUME ~stolen' PROVE lock = [owner |-> t, depth |-> frames[t]] /\ ~stolen
        <5>1. ~stolen /\ lock.owner = t
          BY <2>5, <3>2, <4>3 DEF Drop
        <5> QED
          BY <2>5, <3>2, <5>1 DEF Drop
      <4>4. ASSUME ~stolen' PROVE LockMatchesCalls'
        BY <2>5, <3>2, <4>3, <4>4 DEF Drop, Free
      <4>5. ASSUME ~stolen', NEW u \in Threads, pc'[u] = "blocking" PROVE Remembers(u)'
        BY <2>5, <3>2, <4>3, <4>5 DEF Drop
      <4> QED
        BY <4>1, <4>2, <4>4, <4>5
    <3> QED
      BY <3>1, <3>2
  <2>6. ASSUME NEW t \in Threads, Regain(t) PROVE LockInv'
    <3>1. LockTypeOK' /\ ((lock.owner = Nobody) <=> (lock.depth = 0))'
      BY <2>6 DEF Regain, Free
    <3>2. \A u \in Threads :
            /\ (dropped'[u].owner = Nobody) <=> (dropped'[u].depth = 0)
            /\ pc'[u] \in {"idle", "wait"} => frames'[u] = 0
            /\ ~stolen' /\ pc'[u] = "blocking" => Remembers(u)'
      BY <2>6 DEF Regain, Free
    <3>3. ASSUME ~stolen PROVE LockMatchesCalls'
      <4>1. lock' = [owner |-> t, depth |-> frames[t]] /\ frames[t] \in 1..MaxDepth
        BY <2>6, <3>3 DEF Regain
      <4>2. ASSUME NEW u \in Threads, pc[u] = "run", frames[u] > 0 PROVE FALSE
        <5>1. lock.owner = u
          BY <4>2, <3>3
        <5>2. lock.owner = Nobody
          BY <2>6 DEF Regain, Free
        <5> QED
          BY <5>1, <5>2
      <4> QED
        BY <2>6, <4>1, <4>2 DEF Regain
    <3> QED
      BY <2>6, <3>1, <3>2, <3>3 DEF Regain
  <2>7. CASE UNCHANGED locking
    BY <2>7 DEF locking
  <2>8. ASSUME NEW t \in Threads, Detach(t) PROVE LockInv'
    BY <2>8 DEF Detach
  <2>9. QED
    BY <2>1, <2>2, <2>3, <2>4, <2>5, <2>6, <2>7, <2>8
       DEF Next, ThreadStep, vars, Load, Finalize, Report, BadRequest, FirstSignal,
           LaterSignal, StopPlayer, CloseNext, SaveConfig, ThreadsEnd, JoinEnds
<1>3. QED
  BY <1>1, <1>2, PTL DEF Spec

\* The plugs lock's depth is the number of calls on its owner's stack, however often
\* nested calls gave it up and took it back, and whatever runs beside them without
\* the lock, until such a call meets a blocking section while the lock is held.
THEOREM NestedCallsKeepTheLock == Spec => []LockCountsFrames
BY LockInvariant, PTL DEF LockInv

-----------------------------------------------------------------------------
(* The daemon from its start to its end *)

\* What has happened once the daemon has begun to shut down: the steps of
\* exit_gracefully are taken in order, and the registry does not change any more.
ShutdownSteps ==
  /\ signals = 0 <=> shutdown = "none"
  /\ stage \in {"load", "report", "serve"} => signals = 0
  /\ shutdown \in {"none", "stop"} => closed = <<>>
  /\ saved <=> shutdown \in {"wait", "done"}
  /\ saved => ToClose = {}
  /\ exit = "orderly" => saved
  /\ exit # "none" <=> stage = "gone"

\* What is closed was loaded after everything that is not closed yet.
ClosedInOrder ==
  /\ closed \in Seq(Packages)
  /\ \A i, j \in DOMAIN Order, k \in DOMAIN closed :
       closed[k] = Order[i] /\ Order[j] \in ToClose => i > j

\* An interrupted call keeps the lock: its frame is below the signal handler.
Caught == caught /\ ~stolen

CaughtKeepsLock ==
  Caught => /\ lock.owner = Main
            /\ stage \in {"join", "gone"}
            /\ shutdown = "stop"

DaemonIInv ==
  /\ DaemonInv
  /\ ShutdownSteps /\ ClosedInOrder /\ CaughtKeepsLock

\* To append a package that was loaded after all that remain keeps the order, and
\* to close one leaves the others.
LEMMA CloseInOrder ==
  ASSUME TypeOK, ClosedInOrder, OrderlyExitIsComplete, NEW p \in ToClose,
         ClosesNext(p), closed' = Append(closed, p), UNCHANGED registry
  PROVE  /\ closed' \in Seq(Packages) /\ Range(closed') = Range(closed) \union {p}
         /\ \A i, j \in DOMAIN Order, k, m \in DOMAIN closed' :
              closed'[k] = Order[i] /\ closed'[m] = Order[j] /\ k < m => i > j
         /\ ClosedInOrder'
<1> USE JukeBoxAssumption
<1>0. /\ p \in Packages /\ closed \in Seq(Packages) /\ Order \in Seq(Packages)
      /\ UNCHANGED <<plugins, exits>>
  BY DEF ToClose, TypeOK, ClosedInOrder, registry
<1>1. /\ closed' \in Seq(Packages)
      /\ Len(closed') = Len(closed) + 1 /\ DOMAIN closed' = 1..Len(closed) + 1
      /\ closed'[Len(closed) + 1] = p
      /\ \A k \in 1..Len(closed) : closed'[k] = closed[k]
      /\ DOMAIN closed = 1..Len(closed) /\ Len(closed) \in Nat
  BY <1>0
<1>2. Range(closed') = Range(closed) \union {p}
  BY <1>1 DEF Range
<1>3. \A i, j \in DOMAIN Order, k \in DOMAIN closed :
        closed[k] = Order[i] /\ Order[j] = p => i > j
  BY DEF ClosedInOrder
<1>4. \A i, j \in DOMAIN Order : Order[i] = p /\ Order[j] \in ToClose \ {p} => i > j
  <2>1. ASSUME NEW i \in DOMAIN Order, NEW j \in DOMAIN Order, Order[i] = p,
               Order[j] \in ToClose \ {p}
        PROVE  i > j
    <3>1. ~(i < j)
      BY <2>1 DEF ClosesNext, LoadedBefore
    <3>2. i # j
      BY <2>1
    <3>3. i \in Nat /\ j \in Nat
      BY <1>0
    <3> QED
      BY <3>1, <3>2, <3>3
  <2> QED
    BY <2>1
<1>5. ToClose' = ToClose \ {p}
  BY <1>0, <1>2 DEF ToClose
<1>6. ClosedInOrder'
  BY <1>1, <1>4, <1>5 DEF ClosedInOrder
<1>7. \A i, j \in DOMAIN Order, k, m \in DOMAIN closed' :
        closed'[k] = Order[i] /\ closed'[m] = Order[j] /\ k < m => i > j
  BY <1>1, <1>3 DEF OrderlyExitIsComplete
<1> QED
  BY <1>1, <1>2, <1>6, <1>7

\* What the daemon has loaded, called and closed agrees with the stage it is in,
\* after every step.
LEMMA DaemonInvariant == Spec => []DaemonIInv
<1> USE JukeBoxAssumption DEF DaemonIInv, DaemonInv, Caught
<1>1. Init => DaemonIInv
  <2> SUFFICES ASSUME Init PROVE DaemonIInv
    OBVIOUS
  <2>1. Range(closed) = {} /\ closed = <<>> /\ closed \in Seq(Packages)
    BY DEF Init, Range
  <2>2. TypeOK
    <3>1. next \in 1..Len(Order) + 1
      BY DEF Init
    <3>2. /\ lock \in LockState /\ (lock.owner = Nobody <=> lock.depth = 0)
          /\ frames \in [Threads -> 0..MaxDepth] /\ dropped \in [Threads -> LockState]
      BY DEF Init, LockState, Free
    <3>3. saved \in BOOLEAN /\ caught \in BOOLEAN /\ stolen \in BOOLEAN
      BY DEF Init
    <3>4. /\ stage = "load" /\ exits = {} /\ live = {} /\ plugins = {} /\ failed = {}
          /\ pc \in [Threads -> {"idle", "wait", "run", "blocking"}]
          /\ signals \in 0..3 /\ shutdown = "none" /\ exit = "none"
      BY DEF Init
    <3> QED
      BY <2>1, <3>1, <3>2, <3>3, <3>4 DEF TypeOK
  <2> QED
    BY <2>1, <2>2 DEF Init, OrderlyExitIsComplete, InterruptedCallIsLost,
       ServesOnlyWithPublishing, ShutdownSteps, ClosedInOrder, CaughtKeepsLock, ToClose
<1>2. DaemonIInv /\ LockInv /\ LockInv' /\ [Next]_vars => DaemonIInv'
  <2> SUFFICES ASSUME DaemonIInv, LockInv, LockInv', [Next]_vars PROVE DaemonIInv'
    OBVIOUS
  <2>lock. /\ lock' \in LockState /\ (lock.owner = Nobody <=> lock.depth = 0)'
           /\ (pc \in [Threads -> {"idle", "wait", "run", "blocking"}])'
           /\ (frames \in [Threads -> 0..MaxDepth])' /\ (dropped \in [Threads -> LockState])'
           /\ (stolen \in BOOLEAN)'
    BY DEF LockInv, LockTypeOK, Places
  <2> USE DEF TypeOK, ShutdownSteps
  <2>1. ASSUME NEW outcome \in LoadOutcomes, Load(outcome) PROVE DaemonIInv'
    <3>1. /\ Order[next] \in Packages /\ next' \in 1..Len(Order) + 1
          /\ UNCHANGED <<stage, lock, pc, frames, dropped, stolen, signals, shutdown,
                         closed, saved, caught, exit>>
      BY <2>1 DEF Load, locking, ending
    <3>2. /\ (exits \subseteq live)' /\ (live \subseteq plugins)' /\ exits \subseteq exits'
          /\ (plugins \subseteq Packages)' /\ (failed \subseteq Packages)'
      BY <2>1, <3>1 DEF Load, LoadOutcomes
    <3>3. stage = "load" /\ closed = <<>> /\ ~saved /\ ~Caught /\ exit # "orderly"
      BY <2>1 DEF Load, CaughtKeepsLock
    <3>4. TypeOK' /\ ShutdownSteps'
      BY <3>1, <3>2, <3>3, <2>lock DEF Range
    <3> QED
      BY <3>1, <3>3, <3>4 DEF OrderlyExitIsComplete, InterruptedCallIsLost,
         ServesOnlyWithPublishing, ClosedInOrder, CaughtKeepsLock
  <2>2. CASE Finalize
    BY <2>2, <2>lock DEF Finalize, registry, locking, ending, OrderlyExitIsComplete,
       InterruptedCallIsLost, ServesOnlyWithPublishing, ClosedInOrder, CaughtKeepsLock,
       ToClose
  <2>3. CASE Report
    BY <2>3, <2>lock DEF Report, CriticalMissing, registry, locking, OrderlyExitIsComplete,
       InterruptedCallIsLost, ServesOnlyWithPublishing, ClosedInOrder, CaughtKeepsLock,
       ToClose
  <2>4. CASE BadRequest
    BY <2>4, <2>lock DEF BadRequest, registry, locking, OrderlyExitIsComplete,
       InterruptedCallIsLost, ServesOnlyWithPublishing, ClosedInOrder, CaughtKeepsLock,
       ToClose
  <2>5. ASSUME NEW t \in Threads, ThreadStep(t) PROVE DaemonIInv'
    <3>1. UNCHANGED <<stage, registry, ending>>
      BY <2>5 DEF ThreadStep, Call, Detach, Enter, Nest, Return, Drop, Regain
    <3>2. stolen => stolen'
      BY <2>5 DEF ThreadStep, Call, Detach, Enter, Nest, Return, Drop, Regain
    <3>3. Caught /\ ~stolen' => lock' = lock
      <4> SUFFICES ASSUME Caught, ~stolen' PROVE lock' = lock
        OBVIOUS
      <4>1. lock.owner = Main /\ stage \in {"join", "gone"}
        BY DEF CaughtKeepsLock
      <4>2. Running(t) => t # Main
        BY <4>1 DEF Running
      <4>3. lock # Free
        BY <4>1 DEF Free, Threads
      <4> QED
        BY <2>5, <4>1, <4>2, <4>3
           DEF ThreadStep, Call, Detach, Enter, Nest, Return, Drop, Regain, Acquire, Threads
    <3> QED
      BY <3>1, <3>2, <3>3, <2>lock DEF registry, ending, OrderlyExitIsComplete,
         InterruptedCallIsLost, ServesOnlyWithPublishing, ClosedInOrder, CaughtKeepsLock,
         ToClose
  <2>6. CASE FirstSignal
    BY <2>6, <2>lock DEF FirstSignal, registry, locking, OrderlyExitIsComplete,
       InterruptedCallIsLost, ServesOnlyWithPublishing, ClosedInOrder, CaughtKeepsLock,
       ToClose
  <2>7. CASE LaterSignal
    BY <2>7, <2>lock DEF LaterSignal, registry, locking, OrderlyExitIsComplete,
       InterruptedCallIsLost, ServesOnlyWithPublishing, ClosedInOrder, CaughtKeepsLock,
       ToClose
  <2>8. CASE StopPlayer
    <3>1. ~Caught
      BY <2>8 DEF StopPlayer, CaughtKeepsLock, Free, Threads
    <3> QED
      BY <2>8, <3>1, <2>lock DEF StopPlayer, Alive, registry, locking,
         OrderlyExitIsComplete, InterruptedCallIsLost, ServesOnlyWithPublishing,
         ClosedInOrder, CaughtKeepsLock, ToClose
  <2>9. CASE CloseNext
    <3>1. PICK p \in ToClose : ClosesNext(p) /\ closed' = Append(closed, p)
      BY <2>9 DEF CloseNext
    <3>2. /\ UNCHANGED <<stage, registry, locking, signals, shutdown, saved, caught, exit>>
          /\ shutdown = "close" /\ ~saved /\ exit # "orderly" /\ ~Caught
      BY <2>9 DEF CloseNext, CaughtKeepsLock
    <3>3. /\ closed' \in Seq(Packages) /\ Range(closed') = Range(closed) \union {p}
          /\ \A i, j \in DOMAIN Order, k, m \in DOMAIN closed' :
               closed'[k] = Order[i] /\ closed'[m] = Order[j] /\ k < m => i > j
          /\ ClosedInOrder'
      BY <3>1, <3>2, CloseInOrder
    <3>4. TypeOK' /\ ShutdownSteps'
      BY <3>2, <3>3, <2>lock DEF registry, locking, ToClose
    <3> QED
      BY <3>2, <3>3, <3>4 DEF registry, locking, OrderlyExitIsComplete,
         InterruptedCallIsLost, ServesOnlyWithPublishing, CaughtKeepsLock
  <2>10. CASE SaveConfig
    BY <2>10, <2>lock DEF SaveConfig, Alive, registry, locking, OrderlyExitIsComplete,
       InterruptedCallIsLost, ServesOnlyWithPublishing, ClosedInOrder, CaughtKeepsLock,
       ToClose
  <2>11. CASE ThreadsEnd
    BY <2>11, <2>lock DEF ThreadsEnd, Alive, registry, locking, OrderlyExitIsComplete,
       InterruptedCallIsLost, ServesOnlyWithPublishing, ClosedInOrder, CaughtKeepsLock,
       ToClose
  <2>12. CASE JoinEnds
    <3>1. Range(closed) = exits /\ exit' = "orderly" => saved
      BY <2>12 DEF JoinEnds, ToClose
    <3> QED
      BY <2>12, <3>1, <2>lock DEF JoinEnds, registry, locking, OrderlyExitIsComplete,
         InterruptedCallIsLost, ServesOnlyWithPublishing, ClosedInOrder, CaughtKeepsLock,
         ToClose
  <2>13. CASE UNCHANGED vars
    BY <2>13 DEF vars, registry, locking, ending, OrderlyExitIsComplete,
       InterruptedCallIsLost, ServesOnlyWithPublishing, ClosedInOrder, CaughtKeepsLock,
       ToClose
  <2> QED
    BY <2>1, <2>2, <2>3, <2>4, <2>5, <2>6, <2>7, <2>8, <2>9, <2>10, <2>11, <2>12,
       <2>13 DEF Next
<1> QED
  BY <1>1, <1>2, LockInvariant, PTL DEF Spec

\* An orderly exit is complete and in order whatever the packages and their failures
\* and whichever calls run without the plugs lock; and none comes from within a call,
\* until a call without the lock gives that call's lock up.
THEOREM DaemonEndsWell == Spec => []DaemonInv
BY DaemonInvariant, PTL DEF DaemonIInv

----------------------------------------------------------------------------
(* The RFID reader and its watchdog.                                        *)

\* ReaderSpec without its fairness: what follows from it follows from ReaderSpec.
ReaderMoves == ReaderInit /\ [][ReaderNext]_rfidVars

Plain(c) == c \in Cards /\ Kind[c] = "plain"

\* What makes the two properties inductive: the event is only up, and the
\* watchdog only armed, on account of a card whose removal counts; a card in
\* its action is the previous one, unless it repeats; and a card that has acted
\* is still the previous one, read within same_id_delay.
ReaderInv ==
  /\ ReaderTypeOK
  /\ valid => Plain(previous)
  /\ trigger => Plain(armedBy)
  /\ ~timedOut /\ watch # "call" => Plain(armedBy)
  /\ reader = "act" => card \in Cards /\ ~delayOver
  /\ reader = "act" /\ Kind[card] # "fast" => previous = card
  /\ lying # NoCard /\ Kind[lying] # "fast" /\ actions > 0 =>
       actions = 1 /\ lying = previous /\ ~delayOver /\ reader # "act"

\* The removal event is set, and the card valid, only on behalf of the card that
\* asked for it.
LEMMA ReaderInvariant == ReaderMoves => []ReaderInv
<1>1. ReaderInit => ReaderInv
  <2>1. ReaderInit => ReaderTypeOK
    <3>1. 0 \in 0..2
      OBVIOUS
    <3>2. QED
      BY <3>1, Zenon DEF ReaderInit, ReaderTypeOK
  <2>2. QED
    BY <2>1 DEF ReaderInit, ReaderInv
<1>2. ReaderInv /\ [ReaderNext]_rfidVars => ReaderInv'
  <2> SUFFICES ASSUME ReaderInv, [ReaderNext]_rfidVars PROVE ReaderInv'
    OBVIOUS
  <2> USE CardsAssumption DEF ReaderInv, ReaderTypeOK, Plain, Kinds, readerVars
  <2>1. CASE ReadNothing
    BY <2>1 DEF ReadNothing
  <2>2. CASE ReadSame
    BY <2>2 DEF ReadSame, SetTrigger
  <2>3. CASE ReadNew
    BY <2>3 DEF ReadNew, SetTrigger, Rereading
  <2>4. CASE Act
    BY <2>4 DEF Act
  <2>5. CASE Rest
    BY <2>5 DEF Rest
  <2>6. CASE Sleep
    BY <2>6 DEF Sleep, Rereading
  <2>7. CASE WaitTimesOut
    BY <2>7 DEF WaitTimesOut
  <2>8. CASE Look
    BY <2>8 DEF Look
  <2>9. CASE CallRemoval
    BY <2>9 DEF CallRemoval
  <2>10. ASSUME NEW c \in Cards, Place(c) PROVE ReaderInv'
    BY <2>10 DEF Place
  <2>11. CASE Take
    BY <2>11 DEF Take
  <2>12. CASE DelayPasses
    BY <2>12 DEF DelayPasses
  <2>13. CASE UNCHANGED rfidVars
    BY <2>13 DEF rfidVars
  <2>14. QED
    BY <2>1, <2>2, <2>3, <2>4, <2>5, <2>6, <2>7, <2>8, <2>9, <2>10, <2>11, <2>12,
       <2>13 DEF ReaderNext, ReaderStep, WatchdogStep
<1>3. QED
  BY <1>1, <1>2, PTL DEF ReaderMoves

\* A removal action is only decided upon after a card whose removal counts was
\* read since the last one, whatever the two threads do in between.
THEOREM RemovalsAreEarned == ReaderMoves => EveryRemovalIsEarned
<1>1. ReaderInv /\ [ReaderNext]_rfidVars
        => [watch # "call" /\ watch' = "call"
              => armedBy # NoCard /\ Kind[armedBy] = "plain"]_rfidVars
  <2> SUFFICES ASSUME ReaderInv, ReaderNext, watch # "call", watch' = "call"
               PROVE  armedBy # NoCard /\ Kind[armedBy] = "plain"
    BY DEF rfidVars
  <2>1. Look
    BY DEF ReaderNext, ReaderStep, WatchdogStep, ReadNothing, ReadSame, ReadNew, Act,
           Rest, Sleep, WaitTimesOut, CallRemoval, Place, Take, DelayPasses, SetTrigger,
           ReaderInv, ReaderTypeOK
  <2>2. Plain(armedBy)
    BY <2>1 DEF Look, ReaderInv
  <2>3. QED
    BY <2>2, CardsAssumption DEF Plain
<1>2. QED
  BY <1>1, ReaderInvariant, PTL DEF ReaderMoves, EveryRemovalIsEarned

\* A card that lies on the reader acts once, unless it asks to repeat.
THEOREM LyingCardsActOnce == ReaderMoves => []LyingCardActsOnce
<1>1. ReaderInv => LyingCardActsOnce
  BY DEF ReaderInv, ReaderTypeOK, LyingCardActsOnce
<1>2. QED
  BY <1>1, ReaderInvariant, PTL

\* The reader keeps its types, and an id to compare with whenever it takes a
\* repeated read for a sign that the card still lies there.
THEOREM ReaderTypes == ReaderMoves => []ReaderTypeOK
<1>1. ReaderInv => ReaderTypeOK
  BY DEF ReaderInv
<1>2. QED
  BY <1>1, ReaderInvariant, PTL

----------------------------------------------------------------------------
(* The cards database: the data, its baseline and the file at each step.    *)

CardsSpec == CardsInit /\ [][CardsNext]_cardsVars

Workers == {"rpc", "scan"}
Values == Entries \cup {Absent}
Databases == [Ids -> Values]

Unlocked == {"none", "rsync", "read", "lock"}
Writing == {"copy", "load", "open", "write", "clear"}
OfOneCard == {"register", "delete", "scan"}

DataTypes ==
  /\ db \in Databases /\ baseline \in Databases /\ remote \in Databases
  /\ file \in Databases \cup {Torn}
  /\ copy \in Databases \cup {Torn}
  /\ promised \in [Ids -> Values \cup {Torn}] /\ lost \subseteq Ids

CallTypes ==
  /\ call \in [Workers -> [pc : Unlocked \cup {"change", "end"} \cup Writing,
                           do : OfOneCard \cup {"none", "save", "all"},
                           id : Ids \cup {{}}, entry : Values, force : BOOLEAN]]
  /\ \A t \in Workers :
       /\ call[t].do \in OfOneCard => call[t].id \in Ids
       /\ Doing(t, "read") => call[t].do = "scan"
       /\ Doing(t, "copy") => call[t].do = "all"

\* One thread at a time changes and writes.
OneWriter ==
  \A t \in Workers :
    /\ call[t].pc \in {"change"} \cup Writing => holder = t
    /\ holder = t => call[t].pc \in {"change", "end"} \cup Writing

\* A synchronisation that has come past rsync has a copy, which stays.
CopyIsThere ==
  \A t \in Workers :
    call[t].do \in {"scan", "all"} /\ call[t].pc \notin {"none", "rsync", "end"}
      => copy \in Databases

\* A change on its way to the file.
Underway ==
  \A t \in Workers :
    /\ call[t].pc \in {"write", "copy"} => file = Torn
    /\ Doing(t, "load") => file \in Databases
    /\ Doing(t, "clear") => file = db
    /\ Doing(t, "load") => promised = [c \in Ids |-> Torn]
    /\ call[t].pc \in {"open", "write"} /\ call[t].do \in {"register", "delete"} =>
         db[call[t].id] = call[t].entry

\* What was promised is in the data, or withdrawn, or was lost.
DataIsAsPromised == \A c \in Ids \ lost : promised[c] \in {Torn, db[c]}

FileIsAsPromised == file # Torn => \A c \in Ids \ lost : promised[c] \in {Torn, file[c]}

\* While nobody writes, the file is what it was at the baseline, or cut off.
AtRest ==
  (\A t \in Workers : call[t].pc \notin Writing) =>
    /\ file \in {baseline, Torn}
    /\ file = Torn => writeFailed

CardsInv ==
  /\ DataTypes /\ CallTypes /\ OneWriter
  /\ CopyIsThere /\ Underway /\ DataIsAsPromised /\ FileIsAsPromised /\ AtRest

-----------------------------------------------------------------------------

\* One thread writes cards.yaml at a time; the data, the file and its copy hold the
\* completed edits between and during writes.
LEMMA CardsInvariant == CardsSpec => []CardsInv
<1> USE DEF Workers, Values, Databases, Unlocked, Writing, OfOneCard, Doing, To, promises
<1>1. CardsInit => CardsInv
  <2> SUFFICES ASSUME CardsInit PROVE CardsInv
    OBVIOUS
  <2>1. Empty \in Databases /\ remote \in Databases
    <3>1. Empty \in Databases
      BY DEF Empty
    <3>2. \A c \in Ids, e \in Entries : [Empty EXCEPT ![c] = e] \in Databases
      BY <3>1
    <3> QED
      BY <3>1, <3>2 DEF CardsInit
  <2>2. DataTypes /\ DataIsAsPromised /\ FileIsAsPromised
    BY <2>1 DEF CardsInit, DataTypes, DataIsAsPromised, FileIsAsPromised
  <2>3. CallTypes /\ OneWriter /\ CopyIsThere /\ Underway /\ AtRest
    BY <2>1, DatabaseAssumption
       DEF CardsInit, CallTypes, OneWriter, CopyIsThere, Underway, AtRest, NoWork
  <2> QED
    BY <2>2, <2>3 DEF CardsInv
<1>2. CardsInv /\ [CardsNext]_cardsVars => CardsInv'
  <2> SUFFICES ASSUME CardsInv, [CardsNext]_cardsVars PROVE CardsInv'
    OBVIOUS
  <2> USE DEF CardsInv, DataTypes, CallTypes, OneWriter, CopyIsThere, Underway,
              DataIsAsPromised, FileIsAsPromised, AtRest
  <2>1. ASSUME NEW c \in Ids, NEW e \in Entries, NEW force \in BOOLEAN,
               Edit("register", c, e, force)
        PROVE  CardsInv'
    BY <2>1 DEF Edit
  <2>2. ASSUME NEW c \in Ids, NEW force \in BOOLEAN, Edit("delete", c, Absent, force)
        PROVE  CardsInv'
    BY <2>2 DEF Edit
  <2>3. CASE Edit("save", {}, Absent, FALSE)
    BY <2>3 DEF Edit
  <2>4. CASE Sync("rpc", "all", {})
    BY <2>4 DEF Sync, NoWork
  <2>5. ASSUME NEW c \in Ids, Sync("scan", "scan", c) PROVE CardsInv'
    BY <2>5 DEF Sync, NoWork
  <2>6. ASSUME NEW t \in Workers, NotReached(t) PROVE CardsInv'
    BY <2>6 DEF NotReached
  <2>7. ASSUME NEW t \in Workers, Rsync(t) PROVE CardsInv'
    BY <2>7 DEF Rsync
  <2>8. ASSUME NEW t \in Workers, ReadCopy(t) PROVE CardsInv'
    BY <2>8 DEF ReadCopy
  <2>9. ASSUME NEW t \in Workers, LockDatabase(t) PROVE CardsInv'
    BY <2>9 DEF LockDatabase
  <2>10. ASSUME NEW t \in Workers, ChangeEntry(t) PROVE CardsInv'
    <3>0. holder = t /\ call[t].id \in Ids
      BY <2>10 DEF ChangeEntry
    <3>1. CASE MayEdit(call[t])
      <4>1. /\ db' = [db EXCEPT ![call[t].id] = call[t].entry]
            /\ promised' = [promised EXCEPT ![call[t].id] = Torn]
            /\ lost' = lost \ {call[t].id}
            /\ call' = [call EXCEPT ![t].pc = IF call[t].force THEN "open" ELSE "end"]
            /\ UNCHANGED <<baseline, file, remote, copy, holder, writeFailed>>
        BY <2>10, <3>1 DEF ChangeEntry, Withdraw
      <4>2. (DataTypes /\ CallTypes /\ DataIsAsPromised /\ FileIsAsPromised)'
        BY <3>0, <4>1
      <4>3. (OneWriter /\ CopyIsThere /\ Underway)'
        BY <2>10, <3>0, <4>1 DEF ChangeEntry
      <4>4. AtRest'
        BY <2>10, <3>0, <4>1 DEF ChangeEntry
      <4> QED
        BY <4>2, <4>3, <4>4
    <3>2. CASE ~MayEdit(call[t])
      <4>1. /\ UNCHANGED <<db, promised, lost, baseline, file, remote, copy, holder, writeFailed>>
            /\ call' = [call EXCEPT ![t].pc = "end"]
        BY <2>10, <3>2 DEF ChangeEntry, promises
      <4> QED
        BY <2>10, <3>0, <4>1 DEF ChangeEntry
    <3> QED
      BY <3>1, <3>2
  <2>11. ASSUME NEW t \in Workers, ChangeByScan(t) PROVE CardsInv'
    <3>0. holder = t /\ call[t].id \in Ids
      BY <2>11 DEF ChangeByScan
    <3>1. /\ db' = [db EXCEPT ![call[t].id] = call[t].entry]
          /\ promised' = [promised EXCEPT ![call[t].id] = Torn]
          /\ lost' = lost \ {call[t].id}
          /\ call' = [call EXCEPT ![t].pc = IF db' = baseline THEN "end" ELSE "open"]
          /\ UNCHANGED <<baseline, file, remote, copy, holder, writeFailed>>
      BY <2>11 DEF ChangeByScan, Withdraw
    <3>2. (DataTypes /\ CallTypes /\ DataIsAsPromised /\ FileIsAsPromised)'
      BY <3>0, <3>1
    <3>3. (OneWriter /\ CopyIsThere /\ Underway)'
      BY <2>11, <3>0, <3>1 DEF ChangeByScan
    <3>4. AtRest'
      BY <2>11, <3>0, <3>1 DEF ChangeByScan
    <3> QED
      BY <3>2, <3>3, <3>4
  <2>12. ASSUME NEW t \in Workers, SaveIfChanged(t) PROVE CardsInv'
    BY <2>12 DEF SaveIfChanged
  <2>13. ASSUME NEW t \in Workers, CopyOver(t) PROVE CardsInv'
    BY <2>13 DEF CopyOver
  <2>14. ASSUME NEW t \in Workers, Copied(t) PROVE CardsInv'
    BY <2>14 DEF Copied
  <2>15. ASSUME NEW t \in Workers, LoadFile(t) PROVE CardsInv'
    BY <2>15, DatabaseAssumption DEF LoadFile
  <2>16. ASSUME NEW t \in Workers, OpenFile(t) PROVE CardsInv'
    BY <2>16 DEF OpenFile
  <2>17. ASSUME NEW t \in Workers, WriteFile(t) PROVE CardsInv'
    BY <2>17 DEF WriteFile
  <2>18. ASSUME NEW t \in Workers, WriteFails(t) PROVE CardsInv'
    BY <2>18 DEF WriteFails
  <2>19. ASSUME NEW t \in Workers, ClearModified(t) PROVE CardsInv'
    BY <2>19, DatabaseAssumption DEF ClearModified
  <2>20. ASSUME NEW t \in Workers, End(t) PROVE CardsInv'
    BY <2>20 DEF End, NoWork
  <2>21. ASSUME NEW c \in Ids, NEW e \in Values, RemoteEdit(c, e) PROVE CardsInv'
    BY <2>21 DEF RemoteEdit
  <2>22. ASSUME NEW left \in {db, file, Torn}, Restart(left) PROVE CardsInv'
    <3>1. Empty \in Databases /\ Torn \notin Databases
      BY DatabaseAssumption DEF Empty
    <3>2. /\ file' = IF left = Torn THEN Empty ELSE left
          /\ db' = file' /\ baseline' = file'
          /\ lost' = IF left = Torn THEN {c \in Ids : promised[c] # Torn} ELSE lost
          /\ holder' = "none" /\ call' = [t \in Workers |-> NoWork]
          /\ UNCHANGED <<remote, copy, promised>>
      BY <2>22 DEF Restart
    <3>3. file' \in Databases
      BY <3>1, <3>2
    <3>4. (DataTypes /\ AtRest)'
      BY <3>1, <3>2, <3>3
    <3>5. (CallTypes /\ OneWriter /\ CopyIsThere /\ Underway)'
      BY <3>2 DEF NoWork
    <3>6. DataIsAsPromised'
      <4>1. CASE left = Torn
        BY <3>2, <4>1
      <4>2. CASE left # Torn /\ left = db
        BY <3>2, <4>2
      <4>3. CASE left # Torn /\ left = file
        BY <3>2, <4>3
      <4> QED
        BY <4>1, <4>2, <4>3
    <3>7. FileIsAsPromised'
      BY <3>2, <3>6
    <3> QED
      BY <3>4, <3>5, <3>6, <3>7
  <2>23. CASE UNCHANGED cardsVars
    BY <2>23 DEF cardsVars
  <2>24. CASE CardsExit \/ CardsCrash
    BY <2>22, <2>24 DEF CardsExit, CardsCrash
  <2>25. ASSUME NEW t \in Workers,
                \/ NotReached(t) \/ Rsync(t) \/ ReadCopy(t) \/ LockDatabase(t)
                \/ ChangeEntry(t) \/ ChangeByScan(t) \/ SaveIfChanged(t)
                \/ CopyOver(t) \/ Copied(t) \/ LoadFile(t)
                \/ OpenFile(t) \/ WriteFile(t) \/ WriteFails(t)
                \/ ClearModified(t) \/ End(t)
         PROVE  CardsInv'
    BY ONLY <2>25, <2>6, <2>7, <2>8, <2>9, <2>10, <2>11, <2>12, <2>13, <2>14,
            <2>15, <2>16, <2>17, <2>18, <2>19, <2>20, Zenon
  <2> HIDE DEF CardsInv, Values
  <2> QED
    BY <2>1, <2>2, <2>3, <2>4, <2>5, <2>21, <2>23, <2>24, <2>25 DEF CardsNext, Values
<1> QED
  BY <1>1, <1>2, PTL DEF CardsSpec

\* For any cards and entries: a completed register or delete is in the data until
\* the card is changed again or a start finds the file cut off, also after writes
\* that failed, and in the file while that is whole; and data that differs from a
\* whole file is marked as modified.
THEOREM CompletedEditsAreKept == CardsSpec => []CardsAreKept
<1>1. CardsInv => CardsAreKept
  BY DEF CardsInv, CardsAreKept, OneWriter, DataIsAsPromised, FileIsAsPromised, AtRest,
         Workers, Writing
<1> QED
  BY <1>1, CardsInvariant, PTL

----------------------------------------------------------------------------
(* The publishing of last values.                                           *)

Entry == Contents \union {Nothing}
Messages == [topic : Topics, content : Entry]
Commands == {Resend, CloseServer}

\* A topic's messages come from the one thread that publishes it.
PublishTypeOK ==
  /\ state \in [Topics -> Entry]
  /\ kept \in [Topics -> Entry]
  /\ DOMAIN waiting = Topics \union {"rpc"}
  /\ waiting["rpc"] \in Seq(Commands)
  /\ \A t \in Topics : waiting[t] \in Seq([topic : {t}, content : Entry])
  /\ noticed \subseteq Subscribers
  /\ joined \subseteq Subscribers
  /\ inbox \in [Subscribers -> Seq(Messages)]
  /\ seen \in [Subscribers -> [Topics -> Entry]]

\* The last message on its way about a topic says what the plugin knows.
LastIsLatest ==
  \A t \in Topics :
    IF waiting[t] = <<>> THEN kept[t] = state[t]
    ELSE waiting[t][Len(waiting[t])].content = state[t]

\* Of messages, and of what was shown before them: the last word on t is v.
Shows(messages, before, t, v) ==
  \/ About(messages, t) = {} /\ before = v
  \/ \E i \in About(messages, t) :
       messages[i].content = v /\ \A j \in About(messages, t) : j <= i

SubscribersFollow ==
  \A t \in Topics, s \in joined \ noticed :
    kept[t] # Nothing => Shows(inbox[s], seen[s][t], t, kept[t])

PublishInv == PublishTypeOK /\ LastIsLatest /\ SubscribersFollow

----------------------------------------------------------------------------
(* The last word on a topic.                                                  *)

\* What a subscriber will show is the last message about the topic, or what it shows
\* already.
LEMMA LastWordIsShown ==
  ASSUME NEW s, NEW t, NEW v, inbox[s] \in Seq(Messages),
         Shows(inbox[s], seen[s][t], t, v)
  PROVE  WillShow(s, t) = v
<1>1. About(inbox[s], t) \subseteq Nat
  BY DEF About
<1>2. CASE About(inbox[s], t) = {}
  BY <1>2 DEF WillShow, Shows
<1>3. CASE About(inbox[s], t) # {}
  <2>1. PICK i \in About(inbox[s], t) :
          inbox[s][i].content = v /\ \A j \in About(inbox[s], t) : j <= i
    BY <1>3 DEF Shows
  <2>2. Max(About(inbox[s], t)) = i
    <3> DEFINE A == About(inbox[s], t)
    <3> HIDE DEF A
    <3>1. i \in A /\ A \subseteq Nat /\ \A j \in A : i >= j
      BY <1>1, <2>1 DEF A
    <3>2. \A k \in A : (\A j \in A : k >= j) => k = i
      BY <3>1
    <3>3. Max(A) = i
      BY <3>1, <3>2 DEF Max
    <3> QED  BY <3>3 DEF A
  <2> QED  BY <1>3, <2>1, <2>2 DEF WillShow
<1> QED  BY <1>2, <1>3

\* Messages about other topics do not change that,
LEMMA OtherTopicsKeepTheWord ==
  ASSUME NEW q \in Seq(Messages), NEW r \in Seq(Messages), NEW t, NEW before, NEW v,
         Shows(q, before, t, v), About(r, t) = {}
  PROVE  Shows(q \o r, before, t, v)
<1>1. About(q \o r, t) = About(q, t)
  <2>1. \A i \in DOMAIN q : i \in DOMAIN (q \o r) /\ (q \o r)[i] = q[i]
    OBVIOUS
  <2>2. \A i \in DOMAIN (q \o r) : i \notin DOMAIN q =>
          (i - Len(q)) \in DOMAIN r /\ (q \o r)[i] = r[i - Len(q)]
    OBVIOUS
  <2> QED  BY <2>1, <2>2 DEF About
<1>2. \A i \in About(q, t) : (q \o r)[i] = q[i]
  BY DEF About
<1> QED  BY <1>1, <1>2 DEF Shows

\* a message about the topic becomes the last one,
LEMMA NewWordIsLast ==
  ASSUME NEW q \in Seq(Messages), NEW r \in Seq(Messages), NEW t, NEW before, NEW v,
         NEW i \in DOMAIN r, About(r, t) = {i}, r[i].content = v
  PROVE  Shows(q \o r, before, t, v)
<1>1. Len(q) + i \in DOMAIN (q \o r) /\ (q \o r)[Len(q) + i] = r[i]
  OBVIOUS
<1>2. \A j \in DOMAIN (q \o r) : j \notin DOMAIN q =>
        j - Len(q) \in DOMAIN r /\ (q \o r)[j] = r[j - Len(q)]
  OBVIOUS
<1>3. \A j \in About(q \o r, t) : j <= Len(q) + i
  <2> TAKE j \in About(q \o r, t)
  <2>1. CASE j \in DOMAIN q
    BY <2>1
  <2>2. CASE j \notin DOMAIN q
    <3>1. j - Len(q) \in About(r, t)
      BY <1>2, <2>2 DEF About
    <3> QED  BY <3>1, <2>2 DEF About
  <2> QED  BY <2>1, <2>2
<1>4. Len(q) + i \in About(q \o r, t)
  BY <1>1 DEF About
<1> QED  BY <1>1, <1>3, <1>4 DEF Shows

\* and a message received is shown from then on.
LEMMA ReceivingKeepsTheWord ==
  ASSUME NEW q \in Seq(Messages), q # <<>>, NEW t, NEW before, NEW v,
         Shows(q, before, t, v)
  PROVE  Shows(Tail(q), IF Head(q).topic = t THEN Head(q).content ELSE before, t, v)
<1>1. \A i \in DOMAIN Tail(q) : i + 1 \in DOMAIN q /\ Tail(q)[i] = q[i + 1]
  OBVIOUS
<1>2. \A i \in DOMAIN q : i # 1 => i - 1 \in DOMAIN Tail(q) /\ Tail(q)[i - 1] = q[i]
  OBVIOUS
<1>3. Head(q) = q[1] /\ 1 \in DOMAIN q
  OBVIOUS
<1>4. \A i : i \in About(Tail(q), t) <=> i \in Nat /\ i # 0 /\ i + 1 \in About(q, t)
  BY <1>1, <1>2 DEF About
<1>5. CASE About(q, t) = {}
  BY <1>3, <1>4, <1>5 DEF Shows, About
<1>6. CASE \E i \in About(q, t) : q[i].content = v /\ \A j \in About(q, t) : j <= i
  <2>1. PICK i \in About(q, t) : q[i].content = v /\ \A j \in About(q, t) : j <= i
    BY <1>6
  <2>2. i \in DOMAIN q /\ i \in Nat \ {0}
    BY <2>1 DEF About
  <2>3. CASE i = 1
    <3>1. About(Tail(q), t) = {}
      BY <1>4, <2>1, <2>3 DEF About
    <3>2. Head(q).topic = t /\ Head(q).content = v
      BY <1>3, <2>1, <2>3 DEF About
    <3> QED  BY <3>1, <3>2 DEF Shows
  <2>4. CASE i # 1
    <3>1. i - 1 \in About(Tail(q), t) /\ Tail(q)[i - 1].content = v
      BY <1>2, <2>1, <2>2, <2>4 DEF About
    <3>2. \A j \in About(Tail(q), t) : j <= i - 1
      BY <1>4, <2>1, <2>2 DEF About
    <3> QED  BY <3>1, <3>2 DEF Shows
  <2> QED  BY <2>3, <2>4
<1> QED  BY <1>5, <1>6 DEF Shows

\* What LastValueCache.send sends: each topic that has a value once, with it.
LEMMA EachKeptValueOnce ==
  ASSUME kept \in [Topics -> Entry]
  PROVE  /\ KeptMessages \in Seq(Messages)
         /\ \A t \in Topics : kept[t] # Nothing =>
              \E i \in DOMAIN KeptMessages :
                About(KeptMessages, t) = {i} /\ KeptMessages[i].content = kept[t]
<1> DEFINE Valued == {t \in Topics : kept[t] # Nothing}
           M == {Message(t, kept[t]) : t \in Valued}
           f == [t \in Valued |-> Message(t, kept[t])]
           n == Cardinality(M)
<1>1. IsFiniteSet(M) /\ n \in Nat
  <2>1. IsFiniteSet(Valued)
    <3>1. Valued \in SUBSET Topics
      OBVIOUS
    <3> QED  BY <3>1, FS_Subset, PublishAssumption
  <2>2. f \in Surjection(Valued, M)
    <3>1. f \in [Valued -> M]
      OBVIOUS
    <3>2. \A m \in M : \E t \in Valued : f[t] = m
      OBVIOUS
    <3> HIDE DEF f, M, Valued
    <3> QED  BY <3>1, <3>2, Fun_IsSurj
  <2> HIDE DEF f, M, Valued
  <2>3. IsFiniteSet(M)
    BY <2>1, <2>2, FS_Surjection
  <2> QED  BY <2>3, FS_CardinalityType
<1>2. KeptMessages \in [1..n -> M] /\ IsInjective(KeptMessages)
  <2>1. KeptMessages = SetToSeq(M)
    BY DEF KeptMessages
  <2> HIDE DEF M
  <2>2. ExistsBijection(1..n, M)
    BY <1>1, FS_CardinalityType
  <2>3. \E g \in [1..n -> M] : IsInjective(g)
    BY <2>2 DEF ExistsBijection, Bijection, Injection
  <2> QED  BY <2>1, <2>3 DEF SetToSeq
<1>3. KeptMessages \in Surjection(1..n, M)
  <2>1. KeptMessages \in Injection(1..n, M)
    BY <1>2 DEF Injection
  <2>2. IsFiniteSet(1..n) /\ Cardinality(1..n) = Cardinality(M)
    <3>1. 1 \in Int /\ n \in Int /\ (1 > n => n = 0)
      BY <1>1
    <3>2. IsFiniteSet(1..n) /\ Cardinality(1..n) = IF 1 > n THEN 0 ELSE n - 1 + 1
      BY <3>1, FS_Interval
    <3> HIDE DEF n
    <3> QED  BY <3>1, <3>2, <1>1 DEF n
  <2> HIDE DEF n, M
  <2> QED  BY <1>1, <2>1, <2>2, FS_Injection
<1>4. M \subseteq Messages /\ \A m \in M : m.content = kept[m.topic]
  BY DEF Message, Messages
<1>5. KeptMessages \in Seq(Messages) /\ DOMAIN KeptMessages = 1..n
  <2> HIDE DEF M, n
  <2>1. KeptMessages \in [1..n -> Messages]
    BY <1>2, <1>4
  <2> QED  BY <1>1, <2>1
<1>6. ASSUME NEW t \in Topics, kept[t] # Nothing
      PROVE  \E i \in DOMAIN KeptMessages :
               About(KeptMessages, t) = {i} /\ KeptMessages[i].content = kept[t]
  <2>1. PICK i \in 1..n : KeptMessages[i] = Message(t, kept[t])
    <3>1. Message(t, kept[t]) \in M
      BY <1>6
    <3> HIDE DEF M, n
    <3> QED  BY <1>3, <3>1 DEF Surjection
  <2>2. \A j \in 1..n : KeptMessages[j] \in M
    BY <1>2
  <2>3. \A j \in 1..n : KeptMessages[j].topic = t => KeptMessages[j] = Message(t, kept[t])
    BY <2>2 DEF Message
  <2> HIDE DEF M, n
  <2>4. \A j \in 1..n : KeptMessages[j].topic = t => j = i
    BY <1>2, <2>1, <2>3 DEF IsInjective
  <2>5. KeptMessages[i].topic = t /\ KeptMessages[i].content = kept[t]
    BY <2>1 DEF Message
  <2> QED  BY <1>5, <2>4, <2>5 DEF About
<1> QED  BY <1>5, <1>6

----------------------------------------------------------------------------
(* The steps.                                                                 *)

\* What is sent to all that have subscribed.
LEMMA SendingToAll ==
  ASSUME PublishTypeOK, NEW r \in Seq(Messages), SendAll(r)
  PROVE  /\ inbox' \in [Subscribers -> Seq(Messages)]
         /\ \A s \in joined : inbox'[s] = inbox[s] \o r
BY DEF PublishTypeOK, SendAll

\* The cache is sent: everybody that is subscribed now knows it.
LEMMA CacheIsSent ==
  ASSUME PublishTypeOK, SendAll(KeptMessages)
  PROVE  /\ inbox' \in [Subscribers -> Seq(Messages)]
         /\ \A t \in Topics, s \in joined :
              kept[t] # Nothing => Shows(inbox'[s], seen[s][t], t, kept[t])
<1>1. /\ KeptMessages \in Seq(Messages)
      /\ \A t \in Topics : kept[t] # Nothing =>
           \E i \in DOMAIN KeptMessages :
             About(KeptMessages, t) = {i} /\ KeptMessages[i].content = kept[t]
  BY EachKeptValueOnce DEF PublishTypeOK
<1>2. /\ inbox' \in [Subscribers -> Seq(Messages)]
      /\ \A s \in joined : inbox'[s] = inbox[s] \o KeptMessages
  BY <1>1, SendingToAll
<1>3. ASSUME NEW t \in Topics, NEW s \in joined, kept[t] # Nothing
      PROVE  Shows(inbox'[s], seen[s][t], t, kept[t])
  <2>1. PICK i \in DOMAIN KeptMessages :
          About(KeptMessages, t) = {i} /\ KeptMessages[i].content = kept[t]
    BY <1>1, <1>3
  <2>2. inbox[s] \in Seq(Messages)
    BY DEF PublishTypeOK
  <2>3. Shows(inbox[s] \o KeptMessages, seen[s][t], t, kept[t])
    BY <1>1, <2>1, <2>2, NewWordIsLast
  <2> QED  BY <1>2, <2>3
<1> QED  BY <1>2, <1>3

\* A value is forwarded: it is the last word on its topic, and no word on others.
LEMMA ValueIsForwarded ==
  ASSUME PublishInv, NEW m \in Messages, Forward(m)
  PROVE  /\ kept' \in [Topics -> Entry] /\ kept'[m.topic] = m.content
         /\ \A t \in Topics : t # m.topic => kept'[t] = kept[t]
         /\ inbox' \in [Subscribers -> Seq(Messages)]
         /\ \A t \in Topics, s \in joined \ noticed :
              kept'[t] # Nothing => Shows(inbox'[s], seen[s][t], t, kept'[t])
<1> DEFINE r == IF m.content = Nothing /\ kept[m.topic] = Nothing THEN <<>> ELSE <<m>>
<1>1. /\ kept' \in [Topics -> Entry] /\ kept'[m.topic] = m.content
      /\ \A t \in Topics : t # m.topic => kept'[t] = kept[t]
  BY DEF Forward, Messages, PublishInv, PublishTypeOK
<1>2. r \in Seq(Messages) /\ SendAll(r)
  BY DEF Forward
<1>3. r = <<>> \/ (r = <<m>> /\ DOMAIN r = {1} /\ r[1] = m)
  OBVIOUS
<1>4. m.content # Nothing => r = <<m>>
  OBVIOUS
<1> HIDE DEF r
<1>5. /\ inbox' \in [Subscribers -> Seq(Messages)]
      /\ \A s \in joined : inbox'[s] = inbox[s] \o r
  BY <1>2, SendingToAll DEF PublishInv
<1>6. ASSUME NEW t \in Topics, NEW s \in joined \ noticed, kept'[t] # Nothing
      PROVE  Shows(inbox'[s], seen[s][t], t, kept'[t])
  <2>1. inbox[s] \in Seq(Messages) /\ inbox'[s] = inbox[s] \o r
    BY <1>5 DEF PublishInv, PublishTypeOK
  <2>2. CASE t = m.topic
    <3>1. About(r, t) = {1} /\ r[1].content = kept'[t] /\ 1 \in DOMAIN r
      BY <1>1, <1>3, <1>4, <1>6, <2>2 DEF About
    <3> QED  BY <1>2, <2>1, <3>1, NewWordIsLast
  <2>3. CASE t # m.topic
    <3>1. About(r, t) = {}
      BY <1>3, <2>3 DEF About
    <3>2. kept'[t] = kept[t] /\ Shows(inbox[s], seen[s][t], t, kept[t])
      BY <1>1, <1>6, <2>3 DEF PublishInv, SubscribersFollow
    <3> QED  BY <1>2, <2>1, <3>1, <3>2, OtherTopicsKeepTheWord
  <2> QED  BY <2>2, <2>3
<1> QED  BY <1>1, <1>5, <1>6

\* What is under way to a subscriber ends with what its publisher published last.
LEMMA PublishInvariant == PublishSpec => []PublishInv
<1>1. PublishInit => PublishInv
  <2> SUFFICES ASSUME PublishInit PROVE PublishInv
    OBVIOUS
  <2>1. PublishTypeOK
    BY DEF PublishInit, PublishTypeOK, Entry
  <2>2. LastIsLatest /\ SubscribersFollow
    BY DEF PublishInit, LastIsLatest, SubscribersFollow
  <2> QED  BY <2>1, <2>2 DEF PublishInv
<1>2. PublishInv /\ [PublishNext]_publishVars => PublishInv'
  <2> SUFFICES ASSUME PublishInv, [PublishNext]_publishVars PROVE PublishInv'
    OBVIOUS
  <2>0. "rpc" \notin Topics /\ Resend \notin Messages /\ CloseServer \notin Messages
        /\ Resend # CloseServer
    BY PublishAssumption DEF Resend, CloseServer, Message, Messages
  <2>1. ASSUME NEW t \in Topics, NEW v \in Contents \union {Nothing}, Publish(t, v)
        PROVE  PublishInv'
    <3>1. /\ waiting' = [waiting EXCEPT ![t] = Append(@, Message(t, v))]
          /\ state' = [state EXCEPT ![t] = v]
          /\ UNCHANGED <<kept, noticed, joined, inbox, seen>>
      BY <2>1 DEF Publish, Post
    <3>2. Message(t, v) \in [topic : {t}, content : Entry] /\ Message(t, v).content = v
      BY DEF Message, Entry
    <3>3. /\ waiting'[t] = Append(waiting[t], Message(t, v))
          /\ waiting'[t] \in Seq([topic : {t}, content : Entry])
          /\ \A u \in Topics \union {"rpc"} : u # t => waiting'[u] = waiting[u]
          /\ DOMAIN waiting' = Topics \union {"rpc"}
      BY <3>1, <3>2 DEF PublishInv, PublishTypeOK
    <3>4. waiting'[t] # <<>> /\ waiting'[t][Len(waiting'[t])] = Message(t, v)
      <4>1. waiting[t] \in Seq([topic : {t}, content : Entry])
        BY DEF PublishInv, PublishTypeOK
      <4> QED  BY <3>2, <3>3, <4>1, AppendProperties
    <3>5. PublishTypeOK'
      BY <2>0, <3>1, <3>3 DEF PublishInv, PublishTypeOK, Entry
    <3>6. LastIsLatest'
      BY <3>1, <3>2, <3>3, <3>4 DEF PublishInv, PublishTypeOK, LastIsLatest
    <3>7. SubscribersFollow'
      BY <3>1 DEF PublishInv, SubscribersFollow
    <3> QED  BY <3>5, <3>6, <3>7 DEF PublishInv
  <2>2. ASSUME NEW m \in Commands, Command(m) PROVE PublishInv'
    <3>1. /\ waiting' = [waiting EXCEPT !["rpc"] = Append(@, m)]
          /\ UNCHANGED <<state, kept, noticed, joined, inbox, seen>>
      BY <2>2 DEF Command, Post
    <3>2. /\ waiting'["rpc"] \in Seq(Commands) /\ DOMAIN waiting' = Topics \union {"rpc"}
          /\ \A t \in Topics : waiting'[t] = waiting[t]
      BY <2>0, <3>1 DEF PublishInv, PublishTypeOK
    <3>3. PublishTypeOK'
      BY <3>1, <3>2 DEF PublishInv, PublishTypeOK
    <3>4. LastIsLatest' /\ SubscribersFollow'
      BY <3>1, <3>2 DEF PublishInv, LastIsLatest, SubscribersFollow
    <3> QED  BY <3>3, <3>4 DEF PublishInv
  <2>3. ASSUME NEW thread \in DOMAIN waiting, HandleMessage(thread) PROVE PublishInv'
    <3> DEFINE m == Head(waiting[thread])
    <3>1. /\ waiting' = [waiting EXCEPT ![thread] = Tail(@)] /\ waiting[thread] # <<>>
          /\ UNCHANGED <<state, noticed, joined, seen>>
      BY <2>3 DEF HandleMessage
    <3>2. CASE thread = "rpc"
      <4>1. m \in Commands /\ Tail(waiting["rpc"]) \in Seq(Commands)
        BY <3>1, <3>2 DEF PublishInv, PublishTypeOK
      <4>2. /\ waiting'["rpc"] \in Seq(Commands) /\ DOMAIN waiting' = Topics \union {"rpc"}
            /\ \A t \in Topics : waiting'[t] = waiting[t]
        BY <2>0, <3>1, <3>2, <4>1 DEF PublishInv, PublishTypeOK
      <4>3. kept' = kept /\ (inbox' = inbox \/ SendAll(KeptMessages))
        BY <2>3, <2>0, <4>1 DEF HandleMessage, Commands
      <4>4. inbox' \in [Subscribers -> Seq(Messages)]
        BY <4>3, CacheIsSent DEF PublishInv, PublishTypeOK
      <4>5. PublishTypeOK' /\ LastIsLatest'
        BY <3>1, <4>2, <4>3, <4>4 DEF PublishInv, PublishTypeOK, LastIsLatest
      <4>6. SubscribersFollow'
        BY <3>1, <4>3, CacheIsSent DEF PublishInv, SubscribersFollow
      <4> QED  BY <4>5, <4>6 DEF PublishInv
    <3>3. CASE thread # "rpc"
      <4>1. thread \in Topics
        BY <3>3 DEF PublishInv, PublishTypeOK
      <4>2. /\ waiting[thread] \in Seq([topic : {thread}, content : Entry])
            /\ m \in [topic : {thread}, content : Entry]
        <5>1. waiting[thread] \in Seq([topic : {thread}, content : Entry])
          BY <4>1 DEF PublishInv, PublishTypeOK
        <5> QED  BY <3>1, <5>1, HeadTailProperties
      <4>3. m \in Messages /\ m.topic = thread
        BY <4>1, <4>2 DEF Messages
      <4> HIDE DEF m
      <4>4. Forward(m)
        BY <2>3, <2>0, <4>3 DEF HandleMessage, m
      <4>5. /\ kept' \in [Topics -> Entry] /\ kept'[thread] = m.content
            /\ \A t \in Topics : t # thread => kept'[t] = kept[t]
            /\ inbox' \in [Subscribers -> Seq(Messages)]
            /\ SubscribersFollow'
        BY <4>3, <4>4, <3>1, ValueIsForwarded DEF SubscribersFollow
      <4>6. /\ waiting'[thread] = Tail(waiting[thread])
            /\ waiting'[thread] \in Seq([topic : {thread}, content : Entry])
            /\ DOMAIN waiting' = Topics \union {"rpc"}
            /\ \A t \in Topics \union {"rpc"} : t # thread => waiting'[t] = waiting[t]
        BY <3>1, <4>1, <4>2 DEF PublishInv, PublishTypeOK
      <4>7. PublishTypeOK'
        BY <3>1, <3>3, <4>1, <4>5, <4>6 DEF PublishInv, PublishTypeOK
      <4>8. IF waiting'[thread] = <<>> THEN kept'[thread] = state[thread]
            ELSE waiting'[thread][Len(waiting'[thread])].content = state[thread]
        <5>1. waiting[thread][Len(waiting[thread])].content = state[thread]
          BY <3>1, <4>1 DEF PublishInv, LastIsLatest
        <5>2. CASE Tail(waiting[thread]) = <<>>
          <6>1. m = waiting[thread][Len(waiting[thread])]
            <7>1. Len(waiting[thread]) = 1
              <8>1. Len(Tail(waiting[thread])) = Len(waiting[thread]) - 1
                BY <3>1, <4>2, HeadTailProperties
              <8>2. Len(Tail(waiting[thread])) = 0 /\ Len(waiting[thread]) \in Nat
                BY <4>2, <5>2, LenProperties
              <8> QED  BY <8>1, <8>2
            <7> QED  BY <3>1, <4>2, <7>1 DEF m
          <6> QED  BY <4>5, <4>6, <5>1, <5>2, <6>1
        <5>3. CASE Tail(waiting[thread]) # <<>>
          <6>1. Tail(waiting[thread])[Len(Tail(waiting[thread]))]
                  = waiting[thread][Len(waiting[thread])]
            BY <3>1, <4>2, <5>3
          <6> QED  BY <4>6, <5>1, <5>3, <6>1
        <5> QED  BY <5>2, <5>3
      <4>9. LastIsLatest'
        BY <3>1, <4>1, <4>5, <4>6, <4>8 DEF PublishInv, LastIsLatest
      <4> QED  BY <4>5, <4>7, <4>9 DEF PublishInv
    <3> QED  BY <3>2, <3>3
  <2>4. ASSUME NEW s \in Subscribers, HandleSubscription(s) PROVE PublishInv'
    BY <2>4, CacheIsSent DEF HandleSubscription, PublishInv, PublishTypeOK, LastIsLatest,
       SubscribersFollow
  <2>5. ASSUME NEW s \in Subscribers, Join(s) PROVE PublishInv'
    BY <2>5 DEF Join, PublishInv, PublishTypeOK, LastIsLatest, SubscribersFollow
  <2>6. ASSUME NEW s \in Subscribers, DropOff(s) PROVE PublishInv'
    BY <2>6 DEF DropOff, PublishInv, PublishTypeOK, LastIsLatest, SubscribersFollow
  <2>7. ASSUME NEW s \in Subscribers, Receive(s) PROVE PublishInv'
    <3> DEFINE m == Head(inbox[s])
    <3>1. /\ inbox[s] \in Seq(Messages) /\ inbox[s] # <<>> /\ m \in Messages
          /\ Tail(inbox[s]) \in Seq(Messages)
      BY <2>7 DEF Receive, PublishInv, PublishTypeOK
    <3>2. /\ seen' = [seen EXCEPT ![s][m.topic] = m.content]
          /\ inbox' = [inbox EXCEPT ![s] = Tail(@)]
          /\ UNCHANGED <<state, waiting, kept, noticed, joined>>
      BY <2>7 DEF Receive
    <3> HIDE DEF m
    <3>3. /\ inbox' \in [Subscribers -> Seq(Messages)] /\ inbox'[s] = Tail(inbox[s])
          /\ seen' \in [Subscribers -> [Topics -> Entry]]
          /\ \A t \in Topics : seen'[s][t] = IF m.topic = t THEN m.content ELSE seen[s][t]
          /\ \A u \in Subscribers : u # s => inbox'[u] = inbox[u] /\ seen'[u] = seen[u]
      BY <3>1, <3>2 DEF PublishInv, PublishTypeOK, Messages
    <3>4. PublishTypeOK' /\ LastIsLatest'
      BY <3>2, <3>3 DEF PublishInv, PublishTypeOK, LastIsLatest
    <3>5. SubscribersFollow'
      <4> SUFFICES ASSUME NEW t \in Topics, NEW u \in joined \ noticed, kept[t] # Nothing
                   PROVE  Shows(inbox'[u], seen'[u][t], t, kept[t])
        BY <3>2 DEF SubscribersFollow
      <4>1. Shows(inbox[u], seen[u][t], t, kept[t]) /\ u \in Subscribers
        BY DEF PublishInv, SubscribersFollow, PublishTypeOK
      <4>2. CASE u = s
        <5>1. Shows(Tail(inbox[s]), IF m.topic = t THEN m.content ELSE seen[s][t],
                    t, kept[t])
          BY <3>1, <4>1, <4>2, ReceivingKeepsTheWord DEF m
        <5> QED  BY <3>3, <4>2, <5>1
      <4>3. CASE u # s
        BY <3>3, <4>1, <4>3
      <4> QED  BY <4>2, <4>3
    <3> QED  BY <3>4, <3>5 DEF PublishInv
  <2>8. CASE UNCHANGED publishVars
    BY <2>8 DEF publishVars, PublishInv, PublishTypeOK, LastIsLatest, SubscribersFollow
  <2> QED
    BY <2>1, <2>2, <2>3, <2>4, <2>5, <2>6, <2>7, <2>8 DEF PublishNext, Commands
<1> QED  BY <1>1, <1>2, PTL DEF PublishSpec

\* Whoever is subscribed, whenever it came or came back and whatever was lost with
\* its connection, ends up with the last value of every topic that has one, which
\* is what the publishing plugin last knew when nothing is on its way to the server
\* (PublishServer, "get full state update").
THEOREM SubscribersAreCurrent == PublishSpec => []JoinedIsCurrent
<1>1. PublishInv => JoinedIsCurrent
  <2> SUFFICES ASSUME PublishInv PROVE JoinedIsCurrent
    OBVIOUS
  <2>1. \A t \in Topics : waiting[t] = <<>> => kept[t] = state[t]
    BY DEF PublishInv, LastIsLatest
  <2>2. ASSUME NEW t \in Topics, NEW s \in joined \ noticed, kept[t] # Nothing
        PROVE  WillShow(s, t) = kept[t]
    <3>1. inbox[s] \in Seq(Messages) /\ Shows(inbox[s], seen[s][t], t, kept[t])
      BY <2>2 DEF PublishInv, PublishTypeOK, SubscribersFollow
    <3> QED  BY <3>1, LastWordIsShown
  <2> QED  BY <2>1, <2>2 DEF JoinedIsCurrent
<1> QED  BY <1>1, PublishInvariant, PTL

----------------------------------------------------------------------------
(* The daemon, its reader and its cards database side by side.                *)

sumVars == <<part, vars, rfidVars, cardsVars>>

\* A behaviour of the daemon, its readers and its cards is a behaviour of each.
LEMMA DaemonPartsKeepTheirSpecs == SumSpec => Spec /\ ReaderMoves /\ CardsSpec
<1>1. SumInit => Init /\ ReaderInit /\ CardsInit
  BY DEF SumInit
<1>2. [SumNext]_sumVars => [Next]_vars /\ [ReaderNext]_rfidVars /\ [CardsNext]_cardsVars
  BY DEF SumNext, sumVars
<1>3. SumSpec => SumInit /\ [][SumNext]_sumVars /\ WF_vars(JoinEnds)
  BY PTL DEF SumSpec, sumVars
<1> QED  BY <1>1, <1>2, <1>3, PTL DEF Spec, ReaderMoves, CardsSpec

\* Side by side the three keep what they promise alone: the lock counts its calls and
\* an orderly exit is complete, a card that lies on the reader acts once, no removal
\* is unearned, and the edits of the cards are kept.
THEOREM DaemonKeepsItsPromises ==
  SumSpec => /\ [](DaemonInv /\ LockCountsFrames)
             /\ [](LyingCardActsOnce /\ CardsAreKept)
             /\ EveryRemovalIsEarned
<1>1. Spec => []DaemonInv
  BY DaemonEndsWell
<1>2. Spec => []LockCountsFrames
  BY NestedCallsKeepTheLock
<1> QED
  BY <1>1, <1>2, DaemonPartsKeepTheirSpecs, LyingCardsActOnce, CompletedEditsAreKept,
     RemovalsAreEarned, PTL
=============================================================================
