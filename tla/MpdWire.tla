------------------------------- MODULE MpdWire -------------------------------
(* The wire to MPD: one re-entrant lock (MPDClientWrapper) around every        *)
(* command, taken by the callers, who hold the plugs lock, by the thread that  *)
(* polls MPD's status, and by the threads the coordinator runs stop_fn on.     *)
(*                                                                             *)
(* A thread is the sequence of the operations it has still to do; entering the *)
(* wire lock reconnects, and a reconnect that raises leaves the lock taken.    *)
EXTENDS Integers, Sequences, FiniteSets

CONSTANTS
  Callers,      \* the threads that call plugins: RPC server, card readers
  Stoppers,     \* bound: as many of the coordinator's worker threads at a time
  NoThread,
  MaxLeaks,     \* bound: how many reconnects raise
  MaxAsks       \* bound: how often MPD is asked again for the end of an update

Threads == Callers \cup Stoppers \cup {"poll"}

ASSUME WireAssumption == MaxLeaks \in Nat /\ MaxAsks \in Nat /\ NoThread \notin Threads

VARIABLES
  todo,      \* what each thread has still to do, <<>> for an idle one
  plugs,     \* [owner, depth] of the plugs lock
  wire,      \* [owner, depth] of MPDClientWrapper's lock
  current,   \* the coordinator's active backend
  joining,   \* the worker each caller waits for
  rebuild,   \* who has cleared MPD's queue and not yet started it
  leaks      \* the number of reconnects that raised

wireVars == <<todo, plugs, wire, current, joining, rebuild, leaks>>

----------------------------------------------------------------------------
(* The operations' programs.  "cmd" is a command whose error the method raises, *)
(* "try" one whose error is swallowed, "catch" the end of a hand-off's try block. *)

Free == [owner |-> NoThread, depth |-> 0]
Call(ops) == <<"plugs+">> \o ops \o <<"plugs-">>
Locked(ops) == <<"wire+">> \o ops \o <<"wire-">>

Control == Locked(<<"cmd">>)                               \* stop, pause, toggle, seek, rewind
Settings == Locked(<<"try">>)                              \* shuffle, repeat
SetVolume == Locked(<<"cmd">>) \o Locked(<<"cmd">>)         \* setvol, then get_volume
\* update, then _db_wait_for_update: asked again until the update is through.
UpdateWait == Locked(<<"cmd">>) \o Locked(<<"cmd">>) \o [i \in 1..MaxAsks |-> "ask"]
Play == <<"mpd">> \o Locked(<<"cmd">>)                     \* play, resume
Queue(ops) == Locked(<<"clear">> \o ops \o <<"play">>)       \* clear, fill, play
Rebuild == Queue(<<"try">>)                                \* addid of each song
PlayFolder == <<"mpd">> \o Rebuild                         \* play_folder, play_single
PlayAlbum == <<"mpd">> \o Queue(Locked(<<"try">>))
Passive == <<"podcast">> \o Rebuild                        \* play_single_passive
Replay == Locked(PlayFolder)
Skip == Call(<<>>) \o Locked(<<"cmd">>)             \* prev, next
ListAlbums == Locked(Locked(<<"try">>))
\* run_callbacks takes the wire lock as its context.
PlayCard(second) == Locked(<<"try">>) \o second

Operations == {Control, Settings, SetVolume, Play, PlayFolder, PlayAlbum, Passive,
               Replay, Skip, ListAlbums, UpdateWait}
                \cup {PlayCard(second) : second \in {PlayFolder, Control, Replay}}

\* One poll: status, currentsong, and for a podcast's URL the podcast player's status.
Polls == {Locked(<<"try">>) \o Locked(<<"try">>) \o overlay : overlay \in {<<>>, Call(<<>>)}}

\* pause_fn and, on the worker, stop_fn of the outgoing backend; the podcast's
\* call MPD as plugins do.  Both catch what they raise.
SwapTo(backend) == IF backend = "mpd" THEN "swap to mpd" ELSE "swap to podcast"
PauseOf(backend) == (IF backend = "mpd" THEN Control ELSE Call(Control)) \o <<"catch">>
StopOf(backend) == IF backend = "mpd" THEN Control ELSE Call(Control)

----------------------------------------------------------------------------
WireInit ==
  /\ todo = [t \in Threads |-> <<>>]
  /\ plugs = Free /\ wire = Free
  /\ current \in {"mpd", "podcast"}
  /\ joining = [c \in Callers |-> NoThread]
  /\ rebuild = NoThread /\ leaks = 0

Idle(t) == todo[t] = <<>>
At(t, op) == ~Idle(t) /\ Head(todo[t]) = op
Next1(t) == [todo EXCEPT ![t] = Tail(@)]

MayEnter(lock, t) == lock.owner \in {NoThread, t}
Enter(lock, t) == [owner |-> t, depth |-> lock.depth + 1]
\* Variant: as if the lock were not re-entrant.
ExitWhole(lock, n) == IF n = 0 THEN lock ELSE Free
Exit(lock, n) == IF lock.depth > n THEN [lock EXCEPT !.depth = @ - n] ELSE Free

\* How many more blocks of a lock the first n operations leave than they enter.
Count(ops, n, op) == Cardinality({i \in 1..n : ops[i] = op})
WireLeft(ops, n) == Count(ops, n, "wire-") - Count(ops, n, "wire+")
PlugsLeft(ops, n) == Count(ops, n, "plugs-") - Count(ops, n, "plugs+")

\* An exception leaves every block up to the one that catches it, or all of them.
CaughtAt(ops, n) ==
  /\ ops[n] = "catch" \/ n = Len(ops)
  /\ \A i \in 1..(n - 1) : ops[i] # "catch"
Raise(t, held) ==
  \E n \in {m \in 1..Len(todo[t]) : CaughtAt(todo[t], m)} :
    /\ todo' = [todo EXCEPT ![t] = SubSeq(@, n + 1, Len(@))]
    /\ plugs' = Exit(plugs, PlugsLeft(todo[t], n))
    /\ wire' = Exit(held, WireLeft(todo[t], n))

\* plugs.call, while there are threads left for the hand-offs that may come.
Begin(c) ==
  /\ Idle(c) /\ Cardinality({w \in Stoppers : Idle(w)}) > Cardinality({d \in Callers : ~Idle(d)})
  /\ todo' = [todo EXCEPT ![c] = Call(<<"method">>)]
  /\ UNCHANGED <<plugs, wire, current, joining, rebuild, leaks>>

\* Which method it is matters once the plugs lock is taken.
Method(c) ==
  /\ At(c, "method")
  /\ \E ops \in Operations : todo' = [todo EXCEPT ![c] = ops \o Tail(@)]
  /\ UNCHANGED <<plugs, wire, current, joining, rebuild, leaks>>

Poll ==
  /\ Idle("poll") /\ \E ops \in Polls : todo' = [todo EXCEPT !["poll"] = ops]
  /\ UNCHANGED <<plugs, wire, current, joining, rebuild, leaks>>

EnterPlugs(t) ==
  /\ At(t, "plugs+") /\ MayEnter(plugs, t)
  /\ plugs' = Enter(plugs, t) /\ todo' = Next1(t)
  /\ UNCHANGED <<wire, current, joining, rebuild, leaks>>

ExitPlugs(t) ==
  /\ At(t, "plugs-") /\ plugs' = Exit(plugs, 1) /\ todo' = Next1(t)
  /\ UNCHANGED <<wire, current, joining, rebuild, leaks>>

\* MPDClientWrapper.__enter__: the lock, then _try_connect.
EnterWire(t) ==
  /\ At(t, "wire+") /\ MayEnter(wire, t)
  /\ wire' = Enter(wire, t) /\ todo' = Next1(t)
  /\ UNCHANGED <<plugs, current, joining, rebuild, leaks>>

\* _try_connect raises: no __exit__ for this level.  The poll's thread ends with
\* what it runs ("dead" is no operation).
ReconnectRaises(t) ==
  /\ At(t, "wire+") /\ MayEnter(wire, t) /\ leaks < MaxLeaks
  /\ leaks' = leaks + 1
  /\ IF t = "poll"
     THEN /\ wire' = Enter(wire, t) /\ todo' = [todo EXCEPT ![t] = <<"dead">>]
          /\ UNCHANGED plugs
     ELSE Raise(t, Enter(wire, t))
  /\ rebuild' = IF rebuild = t THEN NoThread ELSE rebuild
  /\ UNCHANGED <<current, joining>>

ExitWire(t) ==
  /\ At(t, "wire-") /\ wire' = Exit(wire, 1) /\ todo' = Next1(t)
  /\ UNCHANGED <<plugs, current, joining, rebuild, leaks>>

\* A command that MPD carries out, an empty block's end, or an error swallowed.
Command(t) ==
  /\ \E op \in {"cmd", "try", "catch"} : At(t, op)
  /\ todo' = Next1(t)
  /\ UNCHANGED <<plugs, wire, current, joining, rebuild, leaks>>

\* _db_is_updating once more, or the update is through.
Ask(t) ==
  /\ At(t, "ask")
  /\ todo' = Next1(t) \/ todo' = [todo EXCEPT ![t] = Locked(<<"cmd">>) \o Tail(@)]
  /\ UNCHANGED <<plugs, wire, current, joining, rebuild, leaks>>

CommandRaises(t) ==
  /\ \E op \in {"cmd", "clear", "play"} : At(t, op)
  /\ Raise(t, wire)
  /\ rebuild' = IF rebuild = t THEN NoThread ELSE rebuild
  /\ UNCHANGED <<current, joining, leaks>>

Clear(t) ==
  /\ At(t, "clear") /\ rebuild' = t /\ todo' = Next1(t)
  /\ UNCHANGED <<plugs, wire, current, joining, leaks>>

StartQueue(t) ==
  /\ At(t, "play") /\ rebuild' = NoThread /\ todo' = Next1(t)
  /\ UNCHANGED <<plugs, wire, current, joining, leaks>>

----------------------------------------------------------------------------
(* PlayerCoordinator.activate.                                                *)

Activate(c, backend) ==
  /\ At(c, backend)
  /\ todo' = [todo EXCEPT ![c] =
       IF current = backend THEN Tail(@)
       ELSE PauseOf(current) \o <<"fork", "join", SwapTo(backend)>> \o Tail(@)]
  /\ UNCHANGED <<plugs, wire, current, joining, rebuild, leaks>>

Fork(c, w) ==
  /\ At(c, "fork") /\ Idle(w)
  /\ todo' = [todo EXCEPT ![c] = Tail(@), ![w] = StopOf(current)]
  /\ joining' = [joining EXCEPT ![c] = w]
  /\ UNCHANGED <<plugs, wire, current, rebuild, leaks>>

\* Variant: wait for the worker however long it takes.
JoinWithoutTimeout(c) ==
  /\ At(c, "join") /\ Idle(joining[c])
  /\ joining' = [joining EXCEPT ![c] = NoThread] /\ todo' = Next1(c)
  /\ UNCHANGED <<plugs, wire, current, rebuild, leaks>>

\* worker.join(timeout): the worker has ended or the time is up.
Join(c) ==
  /\ At(c, "join")
  /\ joining' = [joining EXCEPT ![c] = NoThread] /\ todo' = Next1(c)
  /\ UNCHANGED <<plugs, wire, current, rebuild, leaks>>

Swap(c, backend) ==
  /\ At(c, SwapTo(backend))
  /\ current' = backend /\ todo' = Next1(c)
  /\ UNCHANGED <<plugs, wire, joining, rebuild, leaks>>

----------------------------------------------------------------------------
EnterLock(t) == EnterPlugs(t) \/ EnterWire(t)
Go(t) ==
  \/ ExitPlugs(t) \/ ExitWire(t) \/ Command(t) \/ Ask(t) \/ CommandRaises(t)
  \/ Clear(t) \/ StartQueue(t)
Step(t) == EnterLock(t) \/ Go(t) \/ ReconnectRaises(t)

Decide(c) ==
  \/ Method(c) \/ \E w \in Stoppers : Fork(c, w)
  \/ \E backend \in {"mpd", "podcast"} : Activate(c, backend) \/ Swap(c, backend)

WireNext ==
  \/ Poll \/ \E c \in Callers : 
       Begin(c) \/ Step(c) \/ Decide(c) \/ Join(c)
  \/ \E t \in Stoppers \cup {"poll"} : Step(t)

----------------------------------------------------------------------------
(* Properties.                                                                *)

\* Between the clear of MPD's queue and the play of the new one no other thread
\* commands MPD, whatever nested block was left in between and whoever waits with
\* a stop: the one who rebuilds holds the wire (_trigger_play_folder, play_album,
\* call_with_retry).
QueueRebuiltWhole == rebuild # NoThread => wire.owner = rebuild

\* Every call of the MPD player ends, also replay, which waits for the outgoing
\* backend's stop while it holds the wire that stop needs, and every poll does,
\* as long as no reconnect raised (replay, activate, __enter__).
CallsEnd == \A t \in Callers \cup {"poll"} : ~Idle(t) ~> (Idle(t) \/ leaks > 0)

\* "Lazy reconnect: each __enter__ (and acquire()) calls _try_connect so a
\* transient socket loss self-heals" (mpd_client.py:68): after a reconnect that
\* raised, calls still end.
ReconnectSelfHeals == \A t \in Callers \cup {"poll"} : ~Idle(t) ~> Idle(t)
=============================================================================
