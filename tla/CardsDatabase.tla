---------------------------- MODULE CardsDatabase ----------------------------
(* The card database: a ConfigHandler whose content, baseline (the hash of the *)
(* last load or save) and YAML file are changed by the cards plugin's calls,    *)
(* by the synchronisation of all cards and, in the card reader's thread, by the *)
(* synchronisation of the card that is being read.  The handler's lock is taken *)
(* around a change and its save; the file is opened, which empties it, and then *)
(* written.                                                                     *)
EXTENDS Naturals

CONSTANTS
  Ids,          \* card ids
  Entries,      \* what a card may be registered for
  Absent,       \* no entry
  Torn          \* the file while it is written, or cut off

ASSUME DatabaseAssumption ==
  Absent \notin Entries /\ Torn \notin [Ids -> Entries \cup {Absent}]

Empty == [c \in Ids |-> Absent]

VARIABLES
  db,           \* cfg_cards' _data
  baseline,     \* the data its _hash was taken of
  file,         \* cards.yaml
  remote,       \* cards.yaml on the remote server
  copy,         \* sync_temp_cards.yaml, Torn if there is none
  holder,       \* who holds cfg_cards' lock
  call,         \* [rpc, scan]: what each thread does
  promised,     \* history: what the last completed register or delete of a card said
  lost,         \* history: the cards whose entry went with a file that was cut off
                \* when the daemon started
  writeFailed   \* history: the last write of the file has failed

promises == <<promised, lost>>
cardsVars == <<db, baseline, file, remote, copy, holder, call, promises, writeFailed>>

NoWork == [pc |-> "none", do |-> "none", id |-> {}, entry |-> Absent, force |-> FALSE]

CardsInit ==
  /\ db = Empty /\ baseline = Empty /\ file = Empty
  /\ remote = Empty \/ \E c \in Ids, e \in Entries : remote = [Empty EXCEPT ![c] = e]
  /\ copy = Torn /\ holder = "none"
  /\ call = [t \in {"rpc", "scan"} |-> NoWork]
  /\ promised = [c \in Ids |-> Torn] /\ lost = {} /\ writeFailed = FALSE

Doing(t, pc) == call[t].pc = pc
To(t, pc) == [call EXCEPT ![t].pc = pc]

----------------------------------------------------------------------------
(* What the threads are asked to do.                                          *)

\* register_card and delete_card, with auto_save or without, save_card_database.
Edit(do, c, entry, force) ==
  /\ Doing("rpc", "none")
  /\ call' = [call EXCEPT !.rpc = [pc |-> "lock", do |-> do, id |-> c, entry |-> entry, force |-> force]]
  /\ UNCHANGED <<db, baseline, file, remote, copy, holder, promises, writeFailed>>

\* sync_all, and sync_card_database in the callback of a card that was received.
Sync(t, do, c) ==
  /\ Doing(t, "none")
  /\ call' = [call EXCEPT ![t] = [NoWork EXCEPT !.pc = "rsync", !.do = do, !.id = c]]
  /\ UNCHANGED <<db, baseline, file, remote, copy, holder, promises, writeFailed>>

\* The server or its file cannot be reached: nothing is done.
NotReached(t) ==
  /\ Doing(t, "rsync") /\ call' = To(t, "end")
  /\ UNCHANGED <<db, baseline, file, remote, copy, holder, promises, writeFailed>>

\* _sync_paths: an rsync that fails leaves the last copy, which is used all the same.
Rsync(t) ==
  /\ Doing(t, "rsync")
  /\ copy' \in {remote, copy}
  /\ call' = To(t, IF copy' = Torn THEN "end" ELSE IF call[t].do = "scan" THEN "read" ELSE "lock")
  /\ UNCHANGED <<db, baseline, file, remote, holder, promises, writeFailed>>

\* The card's entry is read from the copy before the database is locked.
ReadCopy(t) ==
  /\ Doing(t, "read")
  /\ call' = [call EXCEPT ![t].entry = copy[call[t].id],
                          ![t].pc = IF copy[call[t].id] = Absent THEN "end" ELSE "lock"]
  /\ UNCHANGED <<db, baseline, file, remote, copy, holder, promises, writeFailed>>

----------------------------------------------------------------------------
(* Under the lock.                                                            *)

LockDatabase(t) ==
  /\ Doing(t, "lock") /\ holder = "none"
  /\ holder' = t /\ call' = To(t, "change")
  /\ UNCHANGED <<db, baseline, file, remote, copy, promises, writeFailed>>

\* History: a card that is changed is promised nothing, until that is written.
Withdraw(c) ==
  /\ promised' = [promised EXCEPT ![c] = Torn]
  /\ lost' = lost \ {c}

\* An existing card is registered only with overwrite, which is left to the entry
\* asked for; one that is not there cannot be deleted.  Both raise.
MayEdit(work) == work.do = "delete" => db[work.id] # Absent

\* register and delete save when told to, whether the data differs or not.
ChangeEntry(t) ==
  /\ Doing(t, "change") /\ call[t].do \in {"register", "delete"}
  /\ IF MayEdit(call[t])
     THEN /\ db' = [db EXCEPT ![call[t].id] = call[t].entry]
          /\ Withdraw(call[t].id)
          /\ call' = To(t, IF call[t].force THEN "open" ELSE "end")
     ELSE call' = To(t, "end") /\ UNCHANGED <<db, promises>>
  /\ UNCHANGED <<baseline, file, remote, copy, holder, writeFailed>>

\* Variant: the whole copy takes the database's place.
ChangeByScanAll(t) ==
  /\ Doing(t, "change") /\ call[t].do = "scan"
  /\ db' = copy
  /\ Withdraw(call[t].id)
  /\ call' = To(t, IF db' = baseline THEN "end" ELSE "open")
  /\ UNCHANGED <<baseline, file, remote, copy, holder, writeFailed>>

\* The one card's entry is taken over, and saved if that changed anything.
ChangeByScan(t) ==
  /\ Doing(t, "change") /\ call[t].do = "scan"
  /\ db' = [db EXCEPT ![call[t].id] = call[t].entry]
  /\ Withdraw(call[t].id)
  /\ call' = To(t, IF db' = baseline THEN "end" ELSE "open")
  /\ UNCHANGED <<baseline, file, remote, copy, holder, writeFailed>>

SaveIfChanged(t) ==
  /\ Doing(t, "change") /\ call[t].do = "save"
  /\ call' = To(t, IF db = baseline THEN "end" ELSE "open")
  /\ UNCHANGED <<db, baseline, file, remote, copy, holder, promises, writeFailed>>

\* sync_all: the copy is copied over the file, the file loaded.
CopyOver(t) ==
  /\ Doing(t, "change") /\ call[t].do = "all"
  /\ file' = Torn /\ call' = To(t, "copy")
  /\ UNCHANGED <<db, baseline, remote, copy, holder, promises, writeFailed>>

Copied(t) ==
  /\ Doing(t, "copy")
  /\ file' = copy /\ writeFailed' = FALSE /\ call' = To(t, "load")
  /\ promised' = [c \in Ids |-> Torn] /\ lost' = {}
  /\ UNCHANGED <<db, baseline, remote, copy, holder>>

\* load_yaml, config_dict.
LoadFile(t) ==
  /\ Doing(t, "load")
  /\ db' = file /\ baseline' = file
  /\ call' = To(t, "end")
  /\ UNCHANGED <<file, remote, copy, holder, promises, writeFailed>>

\* write_yaml opens the file, which empties it.
OpenFile(t) ==
  /\ Doing(t, "open")
  /\ file' = Torn /\ call' = To(t, "write")
  /\ UNCHANGED <<db, baseline, remote, copy, holder, promises, writeFailed>>

WriteFile(t) ==
  /\ Doing(t, "write")
  /\ file' = db /\ writeFailed' = FALSE
  /\ IF call[t].do \in {"register", "delete"}
       THEN /\ promised' = [promised EXCEPT ![call[t].id] = call[t].entry]
            /\ lost' = lost \ {call[t].id}
       ELSE UNCHANGED promises
  /\ call' = To(t, "clear")
  /\ UNCHANGED <<db, baseline, remote, copy, holder>>

\* A disk that is full: the exception leaves the file as it is, with none of the
\* entries it had before, and the lock.
WriteFails(t) ==
  /\ Doing(t, "write") \/ Doing(t, "copy")
  /\ writeFailed' = TRUE /\ call' = To(t, "end")
  /\ UNCHANGED <<db, baseline, file, remote, copy, holder, promises>>

\* clear_modified.
ClearModified(t) ==
  /\ Doing(t, "clear")
  /\ baseline' = db /\ call' = To(t, "end")
  /\ UNCHANGED <<db, file, remote, copy, holder, promises, writeFailed>>

End(t) ==
  /\ Doing(t, "end")
  /\ holder' = IF holder = t THEN "none" ELSE holder
  /\ call' = [call EXCEPT ![t] = NoWork]
  /\ UNCHANGED <<db, baseline, file, remote, copy, promises, writeFailed>>
----------------------------------------------------------------------------
(* The server, and the end of the daemon.                                     *)

RemoteEdit(c, e) ==
  /\ remote[c] # e /\ remote' = [remote EXCEPT ![c] = e]
  /\ UNCHANGED <<db, baseline, file, copy, holder, call, promises, writeFailed>>

\* The next start loads the file; one that is cut off has to be removed by hand,
\* and one that is missing is written anew, empty.
Restart(left) ==
  /\ file' = IF left = Torn THEN Empty ELSE left
  /\ db' = file' /\ baseline' = file' /\ writeFailed' = FALSE
  /\ lost' = IF left = Torn THEN {c \in Ids : promised[c] # Torn} ELSE lost
  /\ holder' = "none" /\ call' = [t \in {"rpc", "scan"} |-> NoWork]
  /\ UNCHANGED <<remote, copy, promised>>

\* The orderly end saves what has changed, which may fail like any write.
CardsExit ==
  /\ \A t \in {"rpc", "scan"} : Doing(t, "none")
  /\ \E left \in IF db # baseline THEN {db, Torn} ELSE {file} : Restart(left)

CardsCrash == Restart(file)

CardsNext ==
  \/ \E c \in Ids, e \in Entries, force \in BOOLEAN : Edit("register", c, e, force)
  \/ \E c \in Ids, force \in BOOLEAN : Edit("delete", c, Absent, force)
  \/ Edit("save", {}, Absent, FALSE)
  \/ Sync("rpc", "all", {})
  \/ \E c \in Ids : Sync("scan", "scan", c)
  \/ \E t \in {"rpc", "scan"} :
       \/ NotReached(t) \/ Rsync(t) \/ ReadCopy(t) \/ LockDatabase(t)
       \/ ChangeEntry(t) \/ ChangeByScan(t) \/ SaveIfChanged(t)
       \/ CopyOver(t) \/ Copied(t) \/ LoadFile(t)
       \/ OpenFile(t) \/ WriteFile(t) \/ WriteFails(t) \/ ClearModified(t) \/ End(t)
  \/ \E c \in Ids, e \in Entries \cup {Absent} : RemoteEdit(c, e)
  \/ CardsExit \/ CardsCrash

----------------------------------------------------------------------------

\* What a completed register or delete has said of a card is so until the card is
\* changed again or all cards are synchronised, whatever the scan of another card
\* fetches meanwhile ("only the state of the specific cardId is updated",
\* synchronisation/rfidcards): in the data, also after a write that has failed, and
\* in the file, unless that is cut off, as it is only while it is written or after
\* a write that has failed.  What a start finds cut off is lost, and nothing else.
\* And data that differs from a whole file is marked as modified, for the save at
\* the end; a cut-off file is written again by that save only if the data is.
CardsAreKept ==
  /\ \A c \in Ids \ lost :
       /\ promised[c] \in {Torn, db[c]}
       /\ file # Torn => promised[c] \in {Torn, file[c]}
  /\ holder = "none" =>
       \/ file = Torn /\ writeFailed
       \/ file # Torn /\ (db = baseline => file = db)
=============================================================================
