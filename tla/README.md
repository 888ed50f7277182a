# Phoniebox (RPi-Jukebox-RFID): a TLA+ verification project

The Phoniebox is a Raspberry Pi jukebox. A Python daemon, `src/src/jukebox`,
loads plugins, serves RPCs over ZeroMQ, reads RFID cards, plays through MPD,
Spotify Connect and a podcast player, watches buttons, sound devices and a
battery, and publishes its status to a React Web UI and to MQTT. These modules
model what of it runs concurrently or outlives a failure. TLC checks them on
small instances; TLAPS proves the safety properties of all passing runs, invariants
and action properties alike, for every instance, some under a hypothesis that
section 5 names. The liveness properties are TLC's alone.

Paths below are relative to `src/src/jukebox` unless they start with `src/`.

## 1. The system

### 1.1 How the parts interact

* **Calls.** Every RPC, card action, GPIO event and most timer functions end up
  in `plugs.call`, which looks the function up and runs it with one re-entrant
  lock held for the whole call (`jukebox/plugs.py:834-889`). A call may be
  started with `as_thread`, and the thread then holds no lock.
  `_DropLockForBlockingCall` gives the lock back in the middle of a call.
* **Shared state.** `coordinator.current()` is the slot that names the active
  backend. Backends claim it before they play; publishers read it to decide
  whether to speak. The podcast player plays through MPD's connection, so MPD
  and podcasts share one audio device and Spotify has another.
* **Other locks.** MPD's wire has a re-entrant lock of its own, which callers, the
  poll thread and the stop workers of a hand-off meet at. MPD's store, the podcast
  record, the configuration handlers and the callback lists each have one; the
  Spotify player has none that both its threads use. PulseAudio's connection is
  passed on by two events under a lock.
* **Messages.** Every thread has a publisher; a server thread forwards messages
  and keeps the last value of each topic for late subscribers. The Web UI and the
  MQTT bridge are subscribers.
* **Files.** The status file of MPD, the podcast record, the caches, the Spotify
  credentials, cards.yaml and jukebox.yaml are what a restart finds.

### 1.2 Inventory

| component | state | what is hard | what makes it correct | module |
|---|---|---|---|---|
| player coordinator (`components/player/coordinator.py`) | backends, slot | lock released between snapshot and swap, stops that outlive their join, callbacks that fail | one backend audible; clean-up before the swap; no call hangs | PlayerCoordinator, ActiveSlot |
| plugin calls, daemon (`jukebox/plugs.py`, `jukebox/daemon.py`) | packages, the lock, exit stages | loads that fail half-way; a lock given up in a nested call; signals in the middle of a call | the lock counts the calls; exits are complete or forced, never half | JukeBox |
| MPD player (`components/playermpd`) | markers, folder store, wire lock | markers against what is loaded; saves out of order; a stop that needs the wire its waiter holds | a swipe acts on its card; a queue is built by one thread; the resume position survives | CardSwipe, MpdWire, MpdStore |
| MPD cover art | files, write queue | a worker that must survive bad files; a flush at any moment | a queued cover gets written | CoverCache |
| podcast player (`components/playerpodcast`) | flag, episode, record, cache | position and episode come from different places; crash between two writes | a completed episode was heard; a cached file is whole | PodcastPlayback, EpisodeCache, FetchedLists |
| Spotify player (`components/playerspotify`) | token, client, device, status | refresh against logout and login; poll against command | the status follows the device | SpotifyPlayer, CardSwipe |
| playerstatus of all backends | topic | gate read before the hand-off | the display ends up with what plays | HandoffStatus |
| timers (`jukebox/multitimer.py`) | event, flag, thread, countdown | test and clear of the event are two steps | calls made = iterations; cancel ends | MultiTimer |
| fade-out, idle (`components/timers`) | three timers; two timers | one timer's function makes the next timer while all are cancelled | a shutdown that was called off stays off | FadeOut, IdleShutdown |
| RFID reader (`components/rfid/reader`) | previous card, event | two threads and a person | one action per placement, one removal per card | RfidReader |
| cards (`components/rfid/cards`, `jukebox/cfghandler.py`, `components/synchronisation`) | cards.yaml in memory and on disk | a scan's sync against registrations; writes that fail | a registered card is kept | CardsDatabase |
| volume (`components/volume`) | sinks, limit, connection | hand-shake of two events; sinks that come and go | one user of the connection; the limit holds | PulseVolume |
| publisher (`jukebox/publishing`) | last values | late and slow subscribers | a subscriber gets the last value | PublishServer |
| MQTT (`components/mqtt`) | connection, throttle | lost connections, two bridge threads, skipped messages | the broker shows the last status | MqttBridge |
| GPIO (`components/gpio`) | button and LED states | holds, releases and late edges; flashes in threads | one action per press; the LED as it was | GpioButtons, GpioLed |
| input devices (`components/controls`) | listener threads | devices that vanish; two activations | one listener per device | KeyListeners |
| battery (`components/battery_monitor`) | filters | fixed point; thresholds | a warning before the shutdown | BatteryMonitor |

`PROJECT.json` lists every component with its status, and 40 hazards with the
line at which each bites and the property that would catch it.

## 2. How the project is laid out

Each component is a module: its state, one action per operation or per step at
which the code gives up a lock, calls out or blocks, its properties at the end.
`ActiveSlot` is an abstract specification, `HandoffStatus` extends
`PlayerCoordinator`. `*_proofs` hold proofs.

The `MC*` modules give constants their values. Several run parts that do not
share state **side by side**: a variable `part`, chosen in the first state, says
whose behaviour this one is, and the other parts stay in an initial state. This
makes one run of several small models; it adds no interleaving between them and
takes none away, since each part contains all the threads that touch its state.
Where one part stands for something of another (a coordinator's `pause` is one of
the Spotify player's commands, a reader is one of the daemon's callers), the MC
module says so.

Definitions whose comment begins with "Variant:" are plausible bugs of the
definition after them. No specification uses one: they exist so that each checked
property can be seen to fail when the code is changed in that way.

Variables whose comment says *history* are not the program's; they record what a
property needs to know of the past, or that something happened which the property
excuses. *bound* marks what only keeps the state space finite.

## 3. The modules

### 3.1 PlayerCoordinator, ActiveSlot, HandoffStatus

A caller thread walks through `step`: `idle`, `snapshot`, `pause`, `stop`,
`join`, `cleanup`, `swap`, `body`. Each step ends where `_activate_impl` releases
a lock, calls out, or blocks. `callLock` is the holder of `plugs._lock_module`;
callers in `Unlocked` are as_thread calls. `worker[t]` is the stop worker a
caller joins; `overrun[n]` counts the workers of backend n that missed the five
seconds. `LockFreeFor` is what a callback through `plugs.call` needs: the calling
thread re-enters its own lock, the worker thread does not. `sounding[d]` says
whose content is audible on a device; `Finish` is the caller's own playback
command, which may fail. `Device` maps MPD and podcasts to one wire.
`PassiveControl` is next, prev or toggle of a backend that does not own the slot:
the header of `coordinator.py` (lines 38-61) rules that these never activate, so
they may start a device behind the slot's back. `strays` remembers the devices
they started, until somebody silences or uses the device.

`ActiveSlot` is what the rest of the daemon may rely on: the slot moves only when
all devices are silent, and only the slot's backend starts to play, but for the
strays. `ImplementsActiveSlot` states that the hand-off implements it with
`slot <- current`. `HandoffStatus` adds the publishers: each reads its device,
checks the gate and sends, in three steps between which the hand-off may move. The
podcast player is a backend without a publisher: while it has the slot nothing is
sent, and the display rests.

### 3.2 CardSwipe

Player calls hold the call lock, so a call is one step with its hand-off inside.
The exception is the podcast player's stop, which waits for that very lock:
`LateStop` lands after the call. The three decisions are `IsSecondFolder`
(`decide_swipe`), `Retap` with the feed comparison in `SwipePodcast`
(`decide_second_swipe`, `play_card`) and `IsSecondUri` (`decide_spotify_swipe`).
Their markers are records beside their saved copies; `Reboot` takes either what
was saved last (a crash) or what was in memory (an orderly exit). Starts fail the
ways the code checks for: no feed, MPD refuses, no device, playlist unresolved
after `activate()`.

The second swipe comes to the configured action. `SecondFolder` has all of MPD's
(`toggle`, `play`, `skip`, `rewind`, `replay`, `replay_if_stopped`, and `custom`,
whose call is whatever step comes next), `SecondPodcast` the podcast player's
(`toggle`, `next_episode`, `none`). Since the setting is a parameter of the swipe,
a behaviour may use several; every behaviour of one setting is among them.
`Retap` is given what the *buffered* status says of MPD, which may be either answer
(`Retaps`). The podcast player's stop, on its own or late, may raise in MPD's stop
and then leaves the flag up. `next_episode` raises the flag without claiming the
slot. Both are remembered in `unbound`, history: the flag is up although the
podcast player is not what will be stopped next.

### 3.3 MPD: MpdWire, MpdStore, CoverCache

**MpdWire.** A thread is the list of operations it has still to do (`todo`), and
each method of the player is such a list: `plugs+`, `wire+`, commands, `wire-`,
`mpd`/`podcast` for an `activate` on the way. Both locks are `[owner, depth]`.
`EnterLock` reconnects; a reconnect that raises leaves the wire taken
(`leaks`, bounded). `Raise` unwinds a list up to the next `catch` or to its end and
leaves as many blocks of each lock as lie open there (`WireLeft`, `PlugsLeft`: the
exits among the operations skipped, less the entries skipped with them). `Queue` is
what every way of playing something new has in common: clear, fill and play in one
block of the wire. `ask` is one more question whether MPD's database update is
through, at most `MaxAsks` of them. `Decide` and `Join` are the two halves of a
hand-off, and `StopOf` runs on a thread of the coordinator's. `rebuild` remembers
who has cleared MPD's queue and not started it yet.

**MpdStore.** `memory` and `disk` are the status file's content reduced to the
folder played last, the one swiped last and the set of folders with an entry;
`pointer` is the folder `current_folder_status` belongs to. `SetPlayed`, the entry,
the pointer, the snapshot and the write of one `play_folder` are steps of their
own; `PlayerMPD.exit` saves on another thread; writes fail, the daemon crashes.

**CoverCache.** `write_queue` and its worker, `flush_cache` at any moment, songs
whose tags cannot be read.

### 3.4 Podcasts: PodcastPlayback, EpisodeCache, FetchedLists

**PodcastPlayback.** `mpd` is the server, `shown` the buffer that
the poll merges into (a stopped MPD reports no position, so the old one stays),
`player` the player's own flag and episode, `store` the saved positions and
marks. A call decides on the second swipe, takes the flag down in a later step if it
was stale (`ClearStale`), fetches the feed, resolves its episode (which takes as long
as a download), drives MPD and notes what it did; the position thread looks at the
player, asks for the buffer under the plugs lock, reads it and compares. `Misread`
names the three windows in which its second look cannot see that the position is
another song's. `is_podcast_active` likewise reads the buffer first and takes the flag
down in a second step (`IsPodcastActive`, `ClearGone`), and `stop` stops MPD first
(`StopMpd`, `StopPodcast`), with the poll, and for a hand-off's worker whole calls, in
between. `halting` says whether a stop is between its steps and was overtaken by a
start, `astray` (history) that the flag was taken down after a reading that was
behind, by an overtaken stop or by a restart. A second swipe with `next_episode` is
`NextEpisode`, one with `none` changes nothing.

**EpisodeCache.** What each file holds, the metadata in memory and as saved. A
download asks, evicts entry by entry, writes, renames and saves; each may fail, and
the daemon may be killed or the power go between any two. The metadata is synced
before its rename, the episode is not: it is `volatile` until the kernel has written
it back (`WriteBack`), and a power cut may leave it `hollow`, which nothing notices.
A body that is cut off is an error when its length was declared (urllib3's default
from version 2 on; requests is not pinned); when it was not, the file is `unsized`,
and a short one looks whole. `CacheRestart` is what the next start loads and cleans up.

**FetchedLists.** A podcast feed is one file, a Spotify list comes page by page
into a cache in memory that is written to one file. Requests fail, files are cut
off; a list counts by how many of its pages are there. A feed's answer yields as
much as could be parsed (`bozo` is only warned of), and that is kept: `parsed`,
history, is how much it was.

### 3.5 SpotifyPlayer

The RPC thread and the status loop each run the same call: look whether the token
has expired, renew it (open the credential file, write it, keep the token if the
manager is still the same), hand it to the client, call Spotify, store what that
means for the status. Beside it `login`, `logout`, new credentials, emptied
credentials and restarts. Every call may fail. `device` is what Spotify plays,
which others change too.

### 3.6 Timers: MultiTimer, FadeOut, IdleShutdown

**MultiTimer.** `thread` is where `run_limited`/`run_endless` is. `wait` ends
because of the event or of time, `look` tests the return of wait, `woken` tests
`_cmd_cancel`, `clear` clears the event. Callers are serial among themselves but
not with the thread: `caller` splits `cancel()` into its flag and its event,
`set_timeout()` into cancel and start, `publish()` into reading and sending.
`late` is history: has `cancel()` returned, how many calls began since, and was
the cancel *lost*, that is, did its event fall between the thread's test of the
flag and its clearing of the event.

**FadeOut.** Each `start` makes a shutdown timer and one that starts the fade, by
its own thread; the old ones' threads may still run. Of a timer there is left
where its thread is. `cancel` stops three timers one after the other.
**IdleShutdown** has the idle check, and the timer that it is meant to start.

### 3.7 The reader and the cards: RfidReader, CardsDatabase

**RfidReader.** `reader` and `watch` are the two threads; `lying` is the card on
the reader, moved by `Place` and `Take` at any time. Time is reduced to two
facts: a card that lies there is re-read before the watchdog's second is over,
and the repeat delay is not over before the next read. The kinds of cards are
those the code tells apart: `plain` (removal counts), `ignoreRemoval`, `fast`
(ignore_same_id_delay), `unknown` (no entry, or one that does not decode).

**CardsDatabase.** `db`, `baseline` (what the handler's hash was taken of) and
`file`; the RPC thread registers, deletes, saves and synchronises everything, the
reader's thread synchronises the card it reads. The file is emptied when it is
opened and written after; a write may fail, a crash may leave it `Torn`.
`promised` is history: what the last completed registration or deletion of a
card said, until the card is changed by something else. A write that fails leaves
the file `Torn`, with all cards gone from it, and the data in memory as it was
(`writeFailed`); the next start reads a torn file as no cards at all, and `lost`
remembers which promises went with it.

### 3.8 JukeBox

`Load` takes the packages in the order of jukebox.yaml, with the four ways a load can
fail and what each leaves behind; then `Finalize`, `Report` (the critical packages),
and serving. Threads call, nest, give the lock up for a blocking section and take it
back (`Drop`, `Regain`). A caller in `Detached` runs as a thread without the lock;
`stolen`, history, says that it gave up another thread's. A signal puts the handler on
top of whatever the main thread is doing; `StopPlayer`, `CloseNext`, `SaveConfig` are
`exit_gracefully` on its thread, `JoinEnds` the join with its time-out. `CloseNext`
runs the exit of the package that `close_down` comes to next: of those in `ToClose`
one that was loaded before none of the others (`ClosesNext`).

### 3.9 PulseVolume

The monitor thread listens, is asked to stop listening (`Park`), waits until the
caller is through and goes on; events that come meanwhile are dropped. `op` is
what the caller wants the connection for: volume, mute, limit, output, toggle.
`OthersSet`, `CardComes`, `CardGoes` are the sound server's own doings. Levels are
0, `Full` = 1 and `TooLoud`, which only others can set.

### 3.10 Devices: GpioButtons, GpioLed, KeyListeners, BatteryMonitor

**GpioButtons.** Edges wait in one queue (at most `MaxLag`), holds are threads of
their own. The twin button's state machine is the function `FromIdle`, `FromHold`,
`FromCont`, ... from state and event to state and action; the twin reads the
pins, not the edges, to see whether both are up.
**GpioLed.** A flash thread saves the level when it starts and writes it back
when it ends; a switch stops the thread before. **KeyListeners.** The two
plugins' `activate` with its housekeeping, the listener's attempts to open its
device, `stop`. PulseAudio's monitor is closed after the bluetooth plugin, so it may
activate during and after the exit. `crossing` and `crossed` (history) are the callers
that were inside `activate` together with another, or with the exit, and the
listeners they started, `unstopped` those started after the exit.
**BatteryMonitor.** One `publish_status` per sample: both filters in fixed point, from
whatever the first sample was, the thresholds, and the configured actions, each of
which may be missing.

### 3.11 Outside: PublishServer, MqttBridge

**PublishServer.** One queue per publishing thread, the server's cache, an inbox
per subscriber that is sent all kept values whenever anybody subscribes; clients
come, drop off and come back. **MqttBridge.** Each (re)connection starts a bridge
thread that never ends; all of them share the throttle's memory. The age of what
was sent last is `fresh` (under 500 ms), `recent` (under 30 s) or `old`. The
playerstatus is published again and again only while the backend that owns the slot
has a status loop (`gate`), and a new thread is sent what was `published` last.

## 4. What the runs show

| run | result | bounds | shows |
|---|---|---|---|
| `handoff` | passes | 3 backends, 2 callers, 2 overdue stops per backend, a Spotify stop that may wedge; Spotify: 1 set of credentials, 2 managers, 1 restart | exclusive playback, the inductive invariant, refinement of ActiveSlot, every call returns; the Spotify status follows the device |
| `swipe_cards` | passes | 2 folders, 2 series, an episode of one, 2 URIs, all 8 second-swipe settings of MPD and 3 of the podcast player, 1 overdue stop | swipes act on their own card, and claim the slot but for the settings that leave it |
| `timers` | passes | 3 iterations, both modes, 2 intervals, 2 runs; fade: 2 starts, 3 steps | complete runs, at most one late call, cancel ends, a timer under way is shown; what was called off stays off |
| `daemon` | passes | 3 packages, the main thread and a caller that runs as a thread, calls nested twice; 5 cards of 4 kinds; a database of 2 cards | the lock counts the calls, exits, earned removals, one action per placement, cards are kept |
| `volume` | passes | 2 callers, 2 sinks, 3 levels | one user of the connection, the limit, the volume shown, commands return |
| `devices` | passes | 3 late edges; 2 flashes; 2 devices, 2 listeners, 2 retries; 9 voltages, a glitch to 0 and low first readings among them; 2 episodes, 2 starts; 3 cached episodes of size 1, 2, 2 with a limit of 3; 1 feed, 2 lists of 2 pages | one action per press, the LED restored, one listener per device, warned before shut down, the podcast record, the caches |
| `mpd` | passes | 2 callers, 2 workers, 1 reconnect that raises, 1 repeated question; 2 folders; 1 song with tags and 1 without, queue of 3 | queues built by one thread, calls end, resume position, covers |
| `comms` | passes | 3 backends, 1 caller, a Spotify pause that may raise; 2 subscribers, 2 readings, 2 bridges | the display, the broker and late subscribers end up with what is |
| `daemon_detached` | violation | a caller started with as_thread | a blocking section without the lock takes another thread's |
| `mpd_reconnect` | violation | as `mpd` | a reconnect that raises leaves the wire taken for ever |
| `spotify_logout` | violation | 2 sets of credentials | a refresh under way during the logout brings the token back |
| `idle_shutdown` | violation | 2 statuses | the idle shutdown never starts |

Why the bounds are enough.

* *Threads.* Two callers suffice for each pair of calls that interleave; where the
  plugs lock admits one at a time, the second is there to wait. The threads with
  a role of their own (poll, position thread, watchdog, monitor, worker) are all
  there. In `comms` there is one caller: those that hold the plugs lock run one after
  the other, which one caller does as well as two, and the threads that do run beside
  it, the stop workers and the publishers, are there. With three starts instead of two
  the podcast part of `devices` has 10 million states, which TLC has checked as well.
* *Contents.* Two folders, series, URIs, episodes, cards are the smallest set in
  which a marker or a position can be another one's. The folders and the URIs are
  interchangeable, so `swipe_cards`, which checks safety only, uses their
  permutations as symmetry. Two plain cards and one of each other kind let every
  kind precede every other. The cached episodes are such that a new one needs
  nothing, one or two old ones evicted.
* *Repetition.* Two runs of a timer, two starts of a fade, two bridge threads and
  two managers are the smallest number in which one could leak into the next;
  three iterations have a first, a middle and a last one. Two pages are the
  smallest list that can be half there.
* *Limits of queues.* Queues are bounded by the guard of whoever puts (`MaxLag`,
  `MaxInbox`, `MaxHeard`, `MaxQueue`); each is longer than what a consumer looks
  at in one step.
* *Faults.* Reboots, crashes, failed requests and failed writes are not bounded,
  except for the reconnect that raises (one leak wedges the wire) and Spotify's
  restarts.

CHECK_DEADLOCK FALSE is said where a system really stops: a daemon that ended, a
timer out of its bound on runs, a box that shut down.

### 4.1 What the properties say

**Hand-off.** `ExclusivePlayback`: no backend with a working pause is audible
unless it owns the slot; a backend in `DeafPause` (whose callbacks raise) is
excepted, for the code logs and goes on, and so is a device that a passive control
started since. `ActiveBackendIsShown`: the display ends up with the backend that
plays if that has a status loop, and comes to rest while one without has the slot.
`StatusFollowsDevice`: so does the Spotify player's own status.

**Swipes.** `UriSwipeSelectsItsCard`: a Spotify swipe that succeeds ends with its
own content on the device. `SwipeInv` has `SecondUriSwipeIsRecognised`: a second
swipe pauses what the first started. `SeriesTapSelectsItsFeed`: a series tap ends
on that series, whichever action is set, unless a stop is overdue or failed, the flag
went up without the slot, or the buffered status is behind. `SwipesTakeEffect`: the
first folder swipe after a boot plays, and a swipe claims the slot, but for second
swipes with `toggle`, `skip`, `rewind`, `replay_if_stopped` or a custom action, and
those of the podcast player with `next_episode` or `none`.

**Daemon.** `LockCountsFrames`: the lock's depth is the number of calls on its owner's
stack, until a call without the lock has given up another thread's (without that
excuse it is `LockMatchesCalls`, which `daemon_detached` refutes). `DaemonInv`: an
orderly exit closed every package once, in the reverse order, and saved the
configuration; a signal in the middle of an RPC never leads to an orderly exit (the
shutdown thread needs the lock that the interrupted frame holds); no requests are
served without publishing.

**Podcasts.** `CompletedWasHeard`: a completed episode was heard to the threshold
since the feed was last reset, the windows of `Misread` apart.
`IncompleteIsResumable`: what the queue still offers is not resumed at its end.
`FlagIsNotLost`: while MPD has an episode of the cache loaded and has not stopped, the
flag that routes next and prev is up, unless since that start it was taken down after
a reading that was behind, by a stop that a start overtook, or by a restart.

**Memory that survives.** `ResumeTargetSurvives` (MPD's folder) holds through crashes,
failed writes and restarts. `KeptIsWhole`: an episode that is served is whole but for
one a power cut emptied before it was written back; a list is whole, a feed is what
could be parsed of it. `CardsAreKept`: a completed edit is in memory, and in the file
whenever that can be read; the file cannot be read only while it is written or after
a write that failed, and only a start that finds it so loses cards.

**The others.** `OneListenerPerDevice` speaks of the listeners that no crossing
activation started. `WarnedBeforeShutdown`, in `DevicesInv`: a box with a warning
action is warned by a reading before the one that shuts it down, unless that one
reading lies further below the shutdown's threshold than the warning's lies above it,
or is the first after a start with a low battery. `StatusIsShown`: the broker ends up
with the status of a backend that keeps the slot and publishes.

The other properties are explained where they are defined.

### 4.2 Fairness

* `PlayerCoordinator`: a running thread goes on, `join(timeout=5)` returns, and a
  stop that does not wedge finishes. Nobody has to make a call.
* `HandoffStatus`: the loops run for ever. A device that fails to answer sometimes
  does not fail for ever (strong fairness of reading); one that never answers
  again could not be shown by any code.
* `SpotifyPlayer`: the loop polls again, at most five minutes after an error;
  each call to Spotify ends, by its time-out if by nothing else; of calls repeated
  for ever one succeeds (strong fairness of the refresh and the poll).
* `MultiTimer`: the timer thread and a call once begun are scheduled. The wait
  ends by itself after the interval.
* `RfidReader`: both daemon threads loop for ever; the person is under no
  fairness.
* `JukeBox`: only that the handler's join ends, which its time-out guarantees.
  Plugin exits are promised nothing.
* `PulseVolume`: threads run; a thread that waits for the lock gets it now and
  then, and the repeated `event_listen_stop` meets the monitor between two events
  (strong fairness of `Lock` and `Park`).
* `MpdWire`: a thread that may go on does; one that waits for a lock gets it when
  it is free again and again. The join has its time-out. `CoverCache`: its worker
  runs.
* `MqttBridge`: a backend that keeps the slot goes on polling (`Poll` is gated, and
  weakly fair only while the gate is open), the threads and the time go on. The broker is
  promised nothing: `StatusIsShown` is about a connection that holds.
* `IdleShutdown`: both timers go on.

## 5. What is proved

Every safety property of a passing run, invariant or action property, is stated by
a theorem that holds for every value of the constants under the ASSUMEs of the
modules and the hypotheses named below. `PROJECT.json` lists the theorems.

A component's proof shows its own specification without fairness (`LedSpec`,
`CardsSpec`, `ReaderMoves`, ...): safety needs none. Where a run puts several
components side by side, a last theorem (`TimersKeepTheirPromises`,
`DaemonKeepsItsPromises`, `MpdKeepsItsPromises`, `KeptCanBeReliedOn`,
`DevicesAreSound`, `PartsKeepTheirPromises`) carries the results over to the
composed specification that the run checks, by showing that a step of it is a step
or a stutter of each component.

### 5.1 Hypotheses

* `Unlocked = {}`: all callers of player methods come through `plugs.call` without
  as_thread. It is what the run `handoff` assumes as well. `StopsFallBetweenCalls`
  needs no such hypothesis, nor do the theorems of the daemon: there a call without the
  lock is one of the steps, and what it spoils is in the property (`stolen`).
* `DeafPause = {}` (refinement of `ActiveSlot` only, and the run `handoff`): no
  backend's pause raises. The run `comms` has one that does.

Nothing is assumed of the battery's samples, of the order of exits, of which writes
survive a power cut or of what a feed's answer holds: each is a step or a parameter.

### 5.2 The arguments, module by module

**PlayerCoordinator_proofs.** Exclusive playback is not inductive as it stands: the
swap could bring in a backend while the old one sounds. `HandoffInv` adds that
whoever is inside a call owns the call lock (so there is one), that the slot still
names the backend being taken over from up to the swap, and that nothing with a
working pause is audible from the end of the pause to the swap. The pause
establishes that; `Finish` needs the lock to break it. `StopsFallBetweenCalls` needs
less and holds for locked and unlocked callers side by side: a caller that takes the
lock has it for as long as its call lasts (`CallersHoldTheLock`), so an overdue stop
of the podcast player, which waits for that lock, finds no such caller under way.
`HandoffRefinesActiveSlot`: the swap is the abstract hand-off, pauses and stops are
`Silence`, `Finish` is `Play`, a passive control is `Restart`, the rest stutters.

**CardSwipe_proofs.** `SwipeIInv` adds four facts to the types. `LastIsOfItem`: the
persisted feed is that of the episode in memory. `SwipesAreMarked`:
a marker in memory names something that was swiped since boot, and once a URI was,
Spotify's card is such a one. `DeviceHasWhatWasPlayed`: what Spotify started last
since boot is on the device. Together they say that a second swipe finds its own
marker and a first one does not find another's. `FlagMeansFeed`: while the podcast
flag is up, no stop is overdue and it is not `unbound`, the podcast player owns the slot
and MPD's queue is empty or of the feed that was started. Only this makes a toggle land on the
series that was tapped, and an overdue stop, one that
failed and a `next_episode` without the slot are exactly what breaks it. One lemma per
handler says what the handler leaves in the three markers; the reboot is the step
that uses the saved copies.

**Timers_proofs.** `TimerInv` = `Counters`, `Cancelled`, `Countdown`, `Display`. A
cancel that was not lost keeps the flag and the event up and the thread away from
`clear`, so it cannot reach a second call. Calls made and calls left add up to the
iterations at every point of the loop. What a publisher has read as "stopped" stays
true until it is sent, because a start has to wait for the publisher to finish.
`TimerTypes` adds `Budget`, that a restart in progress has a run left in the bound.
`FadeInv`: a start that is *quiet* has three threads that are each off or wait with
their flag up (`QuietIsSilent`); and since a cancel stops the three timers one after
the other, `CancelledSoFar` says which of them each point of the call has already
doomed, and that a calm call is not crossed by a thread that makes the next timer.

**Daemon_proofs.**
* *The lock.* A thread in a blocking section is not the lock's owner, so counting
  the owner's frames does not survive the next step. `LockInv` adds that a thread
    outside of a call has no frames, and that one in a blocking section remembers the
  lock with all of its frames and gets exactly that back, until a thread without the
  lock drops it while another is in a call (`stolen`): from there on only the types hold.
* *The exit.* `DaemonInv` is not inductive: it speaks of the end. `ShutdownSteps`
  says what each stage of `exit_gracefully` has done and that the registry no longer
  changes, `ClosedInOrder` that whatever is closed was loaded after whatever is not,
  which a step keeps because it closes the last of the rest. `CaughtKeepsLock`: an
  interrupted call's frame lies below the signal handler, so its lock is never given
  back, unless it is stolen, and the shutdown thread stays at its first call.
* *The reader.* `ReaderInv`: the event is only up, and the watchdog only armed, on
  account of a plain card, and a card which has acted is still `previous` with its
  delay running.
* *The cards.* `CardsInv` says what holds of the file at each step of a change
  (`Underway`), that the data keeps every promise (`DataIsAsPromised`) and so does the
  file when it can be read (`FileIsAsPromised`), and that while nobody writes, the
  file is what it was at the baseline, or cut off by a write that failed (`AtRest`). A
  synchronisation keeps the copy it found, because no later rsync removes one.
* *Last values.* `LastIsLatest`: the last message under way about a topic says what
  its plugin knows. `SubscribersFollow`: for whoever has joined, the last word on a
  topic, in the inbox or already shown, is the value the server keeps. The lemmas say
  that sending the whole cache once more, which happens whenever anybody subscribes,
  ends with the same last words.

**PulseVolume_proofs.** The two events carry no name, so what keeps rounds apart is
`Phases` (each event is up only in its own part of a round, and only while the
monitor is parked) with `OneRound` (whoever is past the lock has it).
`SoftMaxHolds` speaks of the moments at which nobody has a command under way;
`SoftMaxInv` of all: the active output is within the limit (muted or not, or it is
excused), or a thread has set the limit in force and will still apply it, and since
the limit is set under the lock, before it is applied, that thread is the last one.
`ShownInv`: what was published last is true, or the event that corrects it is on its
way or was dropped.

**Mpd_proofs.**
* *The store.* `StoreInv` says how far each step of `play_folder` has brought the
  memory, and that the snapshot either saver is about to write names the folder that
  is then the target.
* *The wire.* The property is about a thread's *remaining program*, so the invariant
  is too. `Fits(todo, d)`, for a thread that holds the wire d times: it never leaves
  more blocks than it is in; a place where exceptions are caught, or its end, is
  outside of all blocks entered on the way, so `Raise` gives back exactly what is
  held there; and a queue that is cleared is started before the block is left
  (`PlayFollows`). A program may be put in front of any other if it is `Whole`: ends
  as deep as it began. That each of the player's programs is (`ProgramsAreWhole`) is
  shown by construction (`WholeJoin`, `BlockJoin`, `LockedIsBlock`, `QueueIsBlock`),
  and `StepKeepsWireInv` needs then only that each operation is one of: go on, do
  something first, start anew, raise. A reconnect that raises makes the owner hold
  the wire deeper than its program knows: `Fits` is monotone in d (`FitsMore`).

**Podcasts_proofs.**
* *The record.* `PositionsAreResumable` follows from the one way positions are
  updated. `CompletedEpisodesWereHeard` needs `PlaybackInv`: a position past the
  threshold, in MPD or in the merged buffer, was heard, and what the position thread
  has read belongs to the episode it began with whenever that is still the current
  one and nothing was misread. `FlagSurvives` needs `ReadingsHold`: what a call has read
  of the buffer and not acted upon yet is still so, or is marked as behind, because
  only calls change what MPD has loaded, and a stop under way has left MPD stopped.
* *The cache.* The limit is on the files, the code counts the metadata. `CacheInv`
  ties them: what is tracked fits into the recorded total, in memory and as saved
  (`TotalsCover`); each file is tracked but for the one just renamed
  (`FilesAreTracked`); while a job evicts, what it has yet to free is what the total
  says is missing, and once it fetches there is room (`RoomIsMade`). The eviction
  loop runs over the order of the metadata, so its lemmas are about taking an element
  out of a sequence without repetition (`TakingOut`, `TouchedIsLast`); sums are the
  folds of the community modules, of which only finiteness and one-element steps are
  used.
* *The lists.* A list enters the cache only when its last page is there, a feed's file
  is unreadable or holds what was parsed last.

**Devices_proofs.**
* *The LED.* `LedInv`: with one caller and one flash thread, the level that was set is
  on the pin or kept by the thread; two threads at once are excused as in the property.
* *The listeners.* `KeysInv`: whoever is inside `activate` is alone there, or has been
  marked as `crossing` with everybody inside; for one that is not, no listener but a
  crossed one is at its device, and those it does not know were told to stop.
* *The battery.* `BatteryInv`: where a warning is configured, the filtered voltage is
  above its threshold until it came, but for a first reading. The warning and the
  shutdown are decided by the same filtered voltage, which goes at most half of the
  way to each sample, so from a voltage that has not been warned of only a sample that
  is `TooLow` gets below the shutdown's threshold at once. The filters stay between
  the lowest and the highest sample (`FilterStaysBetween`). `FastGoesHalfWay` is what
  the fixed-point filter does, with integer division, for any `Unit`.
* *The buttons.* Two layers. `Untimed` holds however late edges and holds come: a
  press that is yet to be delivered, or that a state waits for, is followed by its
  release, so a released twin cannot be stuck (`TwinIsNeverStuck`). `Timed` adds,
  while nothing is late, what each state knows: the pins as far as delivered
  (`Felt`), and the actions so far. It gives `OneActionPerInput`.

### 5.3 Only model-checked

* Liveness: `CallReturns`, `StatusFollowsDevice`, `CancelEnds`, `SignalEndsDaemon`,
  `RemovalFollows`, `CommandReturns`, `CallsEnd`, `QueuedCoverIsWritten`,
  `ActiveBackendIsShown`, `StatusIsShown`. Their fairness is about ENABLED, which the
  prover does not reach.
* What recursive definitions and filtered sequences compute for every input
  (`SelectSeq` in the resolution of a podcast queue): induction over data is out of
  reach. The proofs above use of such operators no more than their results' types.
* That the MC modules' part variable chooses one part: the composed theorems do not
  need it.


## 6. Behaviour that breaks stronger statements

Seen while modelling. The first four are the violation runs (PROJECT.json
"findings" quotes the lines); the others are visible in the models or the source,
and the properties are stated so as not to claim more than the code does.

**The four runs.** A blocking section entered by a thread without the lock takes
another's (`jukebox/plugs.py:167`). A reconnect that raises leaves MPD's wire lock
taken (`playermpd/mpd_client.py:106`). A logout during a token refresh does not
last (`playerspotify/spotify_auth.py:250`). The idle shutdown cannot be built
(`timers/idle_shutdown_timer.py:133`), so it never comes.

**Players.**
* Hand-offs away from the podcast player take five seconds and stop late; the late
  stop may land on what plays by then. The same five seconds delay a `replay`
  out of a podcast. as_thread activations are not atomic.
* A playing podcast is never published as playerstatus (`playermpd/__init__.py:389`,
  `playerspotify/__init__.py:502`): while it owns the slot the display keeps what was
  sent last, which may be "spotify playing", read before the hand-off and sent after
  the clean-up; and over MQTT a change that the throttle held back just before the
  hand-off is not sent until another backend takes over.
* A stop of the podcast player that raises in MPD's stop leaves its flag up
  (`playerpodcast/__init__.py:1029-1040`), and one that a start overtakes takes the new
  episode's flag down. `is_podcast_active` and the second swipe may take it down after
  a reading of the buffer that is behind. `next_episode` as a second swipe plays without
  claiming the slot.
* The second swipe of a folder acts on a folder started from the Web UI; a URI
  started in-app is paused by its first swipe; after a reboot the first tap of a
  podcast starts nothing; an episode card toggles another episode of its feed.
* Markers of Spotify survive a reboot: a first swipe may resume a device that has
  nothing loaded. Its status after a stop becomes "paused" with the next poll, so
  `replay_if_stopped` does not replay. `device_id`, once known, is never looked
  for again. An expired token whose refresh fails at start-up keeps the plugin
  from loading. Once the credentials are emptied, a logout leaves the file.
* next and prev do nothing on an episode that has been completed; a completed
  episode's card resumes at its end; the exit saves whatever position the buffer
  last had. `total_size_bytes` of the cache drifts, and without content-length
  nothing is evicted. The downloaded file is renamed without a sync
  (`playerpodcast/episode_downloader.py:298-302`): after a power cut a tracked episode
  may be empty. A feed that is cut off is kept for an hour as far as it could be parsed.
* An mp3 without tags answers CACHE_PENDING for ever; half a cover stays after a
  crash. The first save of a new folder may take the old one's position over.
* Credential, feed and list files are written in place. `clear_cache` of feeds
  and lists is called by nobody; a fetch that fails returns nothing though an
  older copy exists.

**Timers and reader.**
* `set_timeout` of a running timer ends it. A cancel whose event falls between the
  thread's test of the flag and its `event.clear()` is lost. `publish()` may send
  "running" after the thread sent its end.
* A cancel between the steps of a fade-out's start leaves the timers made after it.
  `finalize` of the timers assigns a local `timer_fade_volume`; its atexit
  uses a name that is not defined.
* The reader's event may be cleared between the end of the watchdog's wait and its
  test: a card that lies there is then taken for removed. The removal action waits
  for the call lock and may pause a card placed since.

**Cards.** `register_card` stores its `args` as `kwargs`. A crash during a save
or a write that fails leaves a truncated cards.yaml, which then loads as nothing: all
cards are gone, unless the daemon saves again before. A failed rsync still
makes `sync_all` overwrite the database, with the last copy.

**Volume.** A muted sink escapes the soft maximum until it is unmuted. Events that
come during a command are dropped. Once the monitor is gone, later commands wait
for ever, with the plugs lock.

**Daemon.** Failed finalizers are not counted as failures; publishing that fails
in its initializer counts as loaded; a request that is not JSON ends the daemon.
After a time-out of 200 ms the RPC client's socket refuses later requests.

**Devices.** `bluetooth_audio_buttons.activate` asks its live listeners for an
attribute they do not have, so a second sound device gets none, and what the comment
there calls "no issue" raises. It may activate during and after its exit, and such a
listener is never told to stop. An LED flashed by
two threads at once keeps the light of the first flash. The battery's shutdown
also runs the warning; one reading that is low enough shuts the box down without a
warning before it.

**Outside.** The MQTT bridge subscribes to nothing at the broker, so commands never
arrive; "online" after a reconnect within 30 s is throttled, and a value that
changed within 500 ms is never sent again unless the box publishes it again; each
connection leaves another thread running. Revoking a topic without a value raises in
the server; a subscriber that comes back keeps a topic that was revoked meanwhile.

## 7. Not modelled

* Players: library listings and searches, playlists and their edits, shuffle and
  repeat (which start and stop nothing), Spotify's waiting times after errors, the
  OAuth exchange itself, feed parsing, the fields of a folder's entry.
* Timers: a function that raises; `GenericMultiTimerClass` but for the two uses.
* Reader: `stop()`, hardware errors, callbacks on card detection (they publish).
* Volume: card profiles. GPIO: rotary encoders, melodies, parsing of gpio.yaml.
* rsync, ssh, shell commands, hardware drivers, installers, the Web UI, the CLI,
  the playlist generator and the table of rpc aliases: I/O or data, with no protocol
  state of the daemon's own.

## 8. Plan

1. Refinements: an abstract card database (a map that a completed edit changes
   at once), an abstract cache of last values, with the detailed modules shown to
   implement them as the hand-off implements `ActiveSlot`. The inductive invariants
   of section 5 are what those proofs would rest on.
2. The fields of a folder's entry in MpdStore, with the poll's merge into the
   wrong folder (`playermpd/state_store.py:285`).
3. RfidReader composed with PlayerCoordinator: the removal action that pauses a
   card placed since.
