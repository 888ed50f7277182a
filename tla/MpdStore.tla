------------------------------ MODULE MpdStore -------------------------------
(* What MPD's player remembers (MPDStateStore): the folder to resume, the one  *)
(* swiped last and the folders that have an entry, in memory and in the status *)
(* file.  The calls that play folders (one at a time, they hold the plugs      *)
(* lock) and the exit's save run at the same time; every save is a snapshot    *)
(* under the state lock and a write outside it.                                *)
EXTENDS Naturals, FiniteSets

CONSTANTS
  Folders,      \* the folders of the music library
  Nothing       \* no folder

ASSUME StoreAssumption == Nothing \notin Folders

VARIABLES
  memory,    \* [played, swiped, entries]: music_player_status
  pointer,   \* the folder current_folder_status is the entry of
  disk,      \* the status file
  player,    \* [pc, folder, shot]: the call of play_folder
  closing,   \* [pc, shot]: PlayerMPD.exit
  target,    \* history: the folder of the last play_folder that has saved
  excused    \* history: a write failed, or the exit's save crossed another

storeVars == <<memory, pointer, disk, player, closing, target, excused>>

Blank == [played |-> Nothing, swiped |-> Nothing, entries |-> {}]
NoCall == [pc |-> "none", folder |-> Nothing, shot |-> Blank]
Running == closing.pc = "none"

StoreInit ==
  /\ memory = Blank /\ pointer = Nothing /\ disk = Blank
  /\ player = NoCall /\ closing = [pc |-> "none", shot |-> Blank]
  /\ target = Nothing /\ excused = FALSE

\* PlayerMPD.__init__: the file is loaded, the entry of the folder to resume is
\* the current one if there is one, the marker is cleared (in memory).
Boot(file) ==
  /\ memory' = [file EXCEPT !.swiped = Nothing]
  /\ pointer' = IF file.played \in file.entries THEN file.played ELSE Nothing
  /\ player' = NoCall /\ closing' = [pc |-> "none", shot |-> Blank]

\* atomic_write_json_safe: the whole snapshot or, logged, nothing.
Write(shot, ok) == disk' = IF ok THEN shot ELSE disk

----------------------------------------------------------------------------
(* play_card and play_folder.                                                 *)

\* decide_swipe; on a second swipe of the same folder the action may be none of
\* the store's business, or replay.
SwipeCard(f, replay) ==
  /\ player.pc = "none"
  /\ memory' = [memory EXCEPT !.swiped = f]
  /\ player' = IF memory.swiped # f THEN [NoCall EXCEPT !.pc = "played", !.folder = f]
               ELSE IF replay /\ memory.played # Nothing
                    THEN [NoCall EXCEPT !.pc = "played", !.folder = memory.played]
               ELSE NoCall
  /\ UNCHANGED <<pointer, disk, closing, target, excused>>

WebFolder(f) ==
  /\ player.pc = "none"
  /\ player' = [NoCall EXCEPT !.pc = "played", !.folder = f]
  /\ UNCHANGED <<memory, pointer, disk, closing, target, excused>>

\* Variant: the folder is taken to have an entry.
SetPlayedOnly ==
  /\ player.pc = "played"
  /\ memory' = [memory EXCEPT !.played = player.folder]
  /\ player' = [player EXCEPT !.pc = "point"]
  /\ excused' = (excused \/ closing.pc = "write")
  /\ UNCHANGED <<pointer, disk, closing, target>>

\* set_last_played_folder.
SetPlayed ==
  /\ player.pc = "played"
  /\ memory' = [memory EXCEPT !.played = player.folder]
  /\ player' = [player EXCEPT !.pc = "entry"]
  /\ excused' = (excused \/ closing.pc = "write")
  /\ UNCHANGED <<pointer, disk, closing, target>>

\* ensure_folder_entry under the lock; set_current_folder_status follows outside.
EnsureEntry ==
  /\ player.pc = "entry"
  /\ memory' = [memory EXCEPT !.entries = @ \cup {player.folder}]
  /\ player' = [player EXCEPT !.pc = "point"]
  /\ UNCHANGED <<pointer, disk, closing, target, excused>>

PointAtEntry ==
  /\ player.pc = "point"
  /\ pointer' = player.folder
  /\ player' = [player EXCEPT !.pc = "save"]
  /\ UNCHANGED <<memory, disk, closing, target, excused>>

Snapshot ==
  /\ player.pc = "save"
  /\ player' = [player EXCEPT !.pc = "write", !.shot = memory]
  /\ UNCHANGED <<memory, pointer, disk, closing, target, excused>>

WriteSnapshot(ok) ==
  /\ player.pc = "write"
  /\ Write(player.shot, ok)
  /\ target' = player.folder
  /\ excused' = (excused \/ ~ok \/ closing.pc = "write")
  /\ player' = [player EXCEPT !.pc = "trigger", !.shot = Blank]
  /\ UNCHANGED <<memory, pointer, closing>>

\* _trigger_play_folder: nothing of the store, and it may raise.
Trigger ==
  /\ player.pc = "trigger"
  /\ player' = NoCall
  /\ UNCHANGED <<memory, pointer, disk, closing, target, excused>>

----------------------------------------------------------------------------
(* The end of the daemon.                                                     *)

\* exit: cancel the poll, disconnect, save, while a call may still be under way.
ExitSnapshot ==
  /\ Running
  /\ closing' = [pc |-> "write", shot |-> memory]
  /\ excused' = (excused \/ player.pc \notin {"none", "trigger"})
  /\ UNCHANGED <<memory, pointer, disk, player, target>>

ExitWrite(ok) ==
  /\ closing.pc = "write"
  /\ Write(closing.shot, ok)
  /\ closing' = [pc |-> "done", shot |-> Blank]
  /\ UNCHANGED <<memory, pointer, player, target, excused>>

\* The next start, after an exit or out of a crash.
Restart ==
  /\ Boot(disk)
  /\ target' = disk.played
  /\ excused' = (disk.played \notin disk.entries \cup {Nothing})
  /\ UNCHANGED disk

StoreNext ==
  \/ \E f \in Folders : WebFolder(f) \/ \E replay \in BOOLEAN : SwipeCard(f, replay)
  \/ SetPlayed \/ EnsureEntry \/ PointAtEntry \/ Snapshot \/ Trigger
  \/ \E ok \in BOOLEAN : WriteSnapshot(ok) \/ ExitWrite(ok)
  \/ ExitSnapshot \/ Restart

----------------------------------------------------------------------------
(* Properties.                                                                *)

\* The folder to resume survives every end of the daemon: the file names the
\* folder of the last play_folder that has saved, has its entry for it, and a
\* start finds that entry again, unless a write failed or the exit saved in the
\* middle of a call (_record_play_folder_state, save, __init__).
ResumeTargetSurvives ==
  ~excused => /\ disk.played = target
              /\ target # Nothing => target \in disk.entries
=============================================================================
