-------------------------- MODULE StatePersistence --------------------------
(***************************************************************************)
(* sfu_state.json and its backup: how StateManager saves the cameras, what *)
(* a boot reads back and which of them AppState restores.                  *)
(*                                                                         *)
(* A save copies the old file over the backup and then overwrites the file *)
(* in place, so it is several steps here: the process may be killed        *)
(* between any two of them and each of them may fail (a full disk).  The   *)
(* write lock of the state manager is held for the whole save, so no other *)
(* operation of the state manager runs in between.                         *)
(*                                                                         *)
(* add_camera and remove_camera change the registry first and the state    *)
(* manager later; add_camera waits for the signaling server in between.    *)
(* run() awaits add_camera, and remove_camera is left to a shutdown: here  *)
(* they may be under way for several rooms at once, but one per room.      *)
(***************************************************************************)
EXTENDS Naturals, FiniteSets

CONSTANTS
    Rooms,       \* room names, the keys of PersistentState::cameras
    BootModes,   \* USE_TEST_STREAM of the boots: "restore" (off), "test" (on)
    Faults,      \* what may go wrong: "crash", "copy", "write", "start", "stop"
    Absent,      \* no such file
    Torn         \* a file that is empty or cut off: it does not parse

Snapshots == [Rooms -> {"absent", "running", "error"}]

ASSUME KnownBootModes == BootModes \subseteq {"restore", "test"}
ASSUME KnownFaults == Faults \subseteq {"crash", "copy", "write", "start", "stop"}
ASSUME DistinctFiles ==
    Absent # Torn /\ Absent \notin Snapshots /\ Torn \notin Snapshots

VARIABLES
    main,      \* state_file_path
    backup,    \* backup_file_path
    mem,       \* StateManager::state
    pc,        \* the process: "down", "loading" (load_or_create), "up"
    todo,      \* cameras_to_restore not yet restored
    saving,    \* where save() is: "idle", "requested", "copying", "write", "writing"
    cameras,   \* AppState::cameras
    adding,    \* rooms whose add_camera has inserted but not yet marked
    removing,  \* rooms whose remove_camera has taken the camera out, no more
    acked,     \* history: rooms whose addition was saved, and not removed since
    exposed    \* history: a boot ignored the file, or a save its backup

files == <<main, backup>>
process == <<mem, pc, todo, cameras, adding, removing>>
vars == <<files, process, saving, acked, exposed>>

Empty == [r \in Rooms |-> "absent"]

\* get_running_cameras, and all rooms of a snapshot.
Running(s) == {r \in Rooms : s[r] = "running"}
Known(s) == {r \in Rooms : s[r] # "absent"}

\* Mutant: the backup is not tried.
Loaded_NoBackup(m, b) == IF m \in Snapshots THEN m ELSE Empty

\* Mutant: the file is taken without parsing it.
Loaded_Unparsed(m, b) == IF m # Absent THEN m ELSE Empty

\* What load_or_create ends up with.  The backup is only looked at when the
\* main file exists.
Loaded(m, b) ==
    IF m \in Snapshots THEN m
    ELSE IF m = Torn /\ b \in Snapshots THEN b
    ELSE Empty

-----------------------------------------------------------------------------

Init ==
    /\ main = Absent
    /\ backup = Absent
    /\ mem = Empty
    /\ pc = "down"
    /\ todo = {}
    /\ saving = "idle"
    /\ cameras = {}
    /\ adding = {}
    /\ removing = {}
    /\ acked = {}
    /\ exposed = FALSE

\* run() restores the cameras before it adds one.
Restored == pc = "up" /\ todo = {}

\* No operation on the room is under way.
Free(room) == room \notin adding \cup removing

\* The process ends; without the fault "crash" only when nothing is under way.
Stop ==
    /\ pc # "down"
    /\ \/ "crash" \in Faults
       \/ Restored /\ saving = "idle" /\ adding \cup removing = {}
    /\ pc' = "down"
    /\ mem' = Empty
    /\ todo' = {}
    /\ saving' = "idle"
    /\ cameras' = {}
    /\ adding' = {}
    /\ removing' = {}
    /\ UNCHANGED <<files, acked, exposed>>

\* run(): in test stream mode the file is not read at all, and the first save
\* overwrites it.
BootTest ==
    /\ pc = "down"
    /\ "test" \in BootModes
    /\ pc' = "up"
    /\ exposed' = TRUE
    /\ UNCHANGED <<files, mem, todo, saving, cameras, adding, removing, acked>>

\* load_or_create: whatever was read is saved at once.
BootRestore ==
    /\ pc = "down"
    /\ "restore" \in BootModes
    /\ pc' = "loading"
    /\ mem' = Loaded(main, backup)
    /\ saving' = "requested"
    /\ UNCHANGED <<files, todo, cameras, adding, removing, acked, exposed>>

-----------------------------------------------------------------------------
(* StateManager::save.                                                     *)

\* Mutant: no backup is made.
BeginCopy_NoBackup ==
    /\ saving = "requested"
    /\ saving' = "write"
    /\ exposed' = (exposed \/ main = Torn)
    /\ UNCHANGED <<files, process, acked>>

\* The backup is truncated before the copy; without a main file there is
\* nothing to copy.
BeginCopy ==
    /\ saving = "requested"
    /\ saving' = IF main = Absent THEN "write" ELSE "copying"
    /\ backup' = IF main = Absent THEN backup ELSE Torn
    /\ exposed' = (exposed \/ main = Torn)
    /\ UNCHANGED <<main, process, acked>>

EndCopy ==
    /\ saving = "copying"
    /\ saving' = "write"
    /\ backup' = main
    /\ UNCHANGED <<main, process, acked, exposed>>

\* A failed copy is a warning: the save goes on.  It fails before or after the
\* backup was truncated.
CopyFails ==
    /\ "copy" \in Faults
    /\ \/ saving = "requested" /\ main # Absent
       \/ saving = "copying"
    /\ saving' = "write"
    /\ exposed' = TRUE
    /\ UNCHANGED <<files, process, acked>>

\* fs::write truncates the file and then fills it.
BeginWrite ==
    /\ saving = "write"
    /\ saving' = "writing"
    /\ main' = Torn
    /\ UNCHANGED <<backup, process, acked, exposed>>

\* How the caller goes on when save returns: load_or_create hands the running
\* cameras to the restore loop, or the boot goes on without restoring.
\* Everybody else logs the error.
SaveReturns(ok) ==
    /\ saving' = "idle"
    /\ pc' = "up"
    /\ todo' = IF pc # "loading" THEN todo ELSE IF ok THEN Running(mem) ELSE {}
    /\ UNCHANGED <<mem, cameras, adding, removing>>

EndWrite ==
    /\ saving = "writing"
    /\ main' = mem
    /\ SaveReturns(TRUE)
    /\ acked' = acked \cup ((cameras \ adding) \cap Known(mem))
    /\ UNCHANGED <<backup, exposed>>

\* The file cannot be opened, or cannot be filled.
WriteFails ==
    /\ "write" \in Faults
    /\ saving \in {"write", "writing"}
    /\ SaveReturns(FALSE)
    /\ UNCHANGED <<files, acked, exposed>>

-----------------------------------------------------------------------------
(* AppState.                                                               *)

\* restore_camera_from_state: the pipeline was created and started.
Restore(room) ==
    /\ room \in todo
    /\ saving = "idle"
    /\ todo' = todo \ {room}
    /\ cameras' = cameras \cup {room}
    /\ UNCHANGED <<files, mem, pc, saving, adding, removing, acked, exposed>>

\* Mutant: the camera enters the registry before it is started.
RestoreFails_Registers(room) ==
    /\ "start" \in Faults
    /\ room \in todo
    /\ saving = "idle"
    /\ todo' = todo \ {room}
    /\ cameras' = cameras \cup {room}
    /\ mem' = [mem EXCEPT ![room] = "error"]
    /\ saving' = "requested"
    /\ UNCHANGED <<files, pc, adding, removing, acked, exposed>>

\* It did not start: the persisted camera is marked, and only that is saved.
RestoreFails(room) ==
    /\ "start" \in Faults
    /\ room \in todo
    /\ saving = "idle"
    /\ todo' = todo \ {room}
    /\ mem' = [mem EXCEPT ![room] = "error"]
    /\ saving' = "requested"
    /\ UNCHANGED <<files, pc, cameras, adding, removing, acked, exposed>>

\* add_camera, for a room that may already be there: the started camera enters
\* the registry.  The server is told about it before the state manager is.
InsertCamera(room) ==
    /\ Restored
    /\ Free(room)
    /\ cameras' = cameras \cup {room}
    /\ adding' = adding \cup {room}
    /\ UNCHANGED <<files, mem, pc, todo, saving, removing, acked, exposed>>

\* It goes on when the server was told, or could not be: the camera is marked
\* and saved.
MarkAdded(room) ==
    /\ room \in adding
    /\ saving = "idle"
    /\ adding' = adding \ {room}
    /\ mem' = [mem EXCEPT ![room] = "running"]
    /\ saving' = "requested"
    /\ UNCHANGED <<files, pc, todo, cameras, removing, acked, exposed>>

\* remove_camera of a registered room: the camera leaves the registry.
TakeOut(room) ==
    /\ Restored
    /\ Free(room)
    /\ room \in cameras
    /\ cameras' = cameras \ {room}
    /\ removing' = removing \cup {room}
    /\ acked' = acked \ {room}
    /\ UNCHANGED <<files, mem, pc, todo, saving, adding, exposed>>

\* Its pipeline stopped: the persisted entry goes too.
MarkRemoved(room) ==
    /\ room \in removing
    /\ saving = "idle"
    /\ removing' = removing \ {room}
    /\ mem' = [mem EXCEPT ![room] = "absent"]
    /\ saving' = "requested"
    /\ UNCHANGED <<files, pc, todo, cameras, adding, acked, exposed>>

\* It did not: remove_camera returns early and the persisted entry stays.
RemoveFails(room) ==
    /\ "stop" \in Faults
    /\ room \in removing
    /\ removing' = removing \ {room}
    /\ UNCHANGED <<files, mem, pc, todo, saving, cameras, adding, acked, exposed>>

Next ==
    \/ Stop
    \/ BootTest
    \/ BootRestore
    \/ BeginCopy
    \/ EndCopy
    \/ CopyFails
    \/ BeginWrite
    \/ EndWrite
    \/ WriteFails
    \/ \E room \in Rooms :
          \/ Restore(room)
          \/ RestoreFails(room)
          \/ InsertCamera(room)
          \/ MarkAdded(room)
          \/ TakeOut(room)
          \/ MarkRemoved(room)
          \/ RemoveFails(room)

Spec == Init /\ [][Next]_vars

-----------------------------------------------------------------------------
(* Properties.                                                             *)

\* Every variable keeps its type: what is loaded always parses.
TypeOK ==
    /\ main \in Snapshots \cup {Absent, Torn}
    /\ backup \in Snapshots \cup {Absent, Torn}
    /\ mem \in Snapshots
    /\ pc \in {"down", "loading", "up"}
    /\ todo \subseteq Rooms
    /\ saving \in {"idle", "requested", "copying", "write", "writing"}
    /\ cameras \subseteq Rooms
    /\ adding \subseteq Rooms
    /\ removing \subseteq Rooms
    /\ acked \subseteq Rooms
    /\ exposed \in BOOLEAN

\* What a restart in this state would start from.
Recoverable == Loaded(main, backup)

\* As long as no boot ignored the file and no save went on without a good
\* backup, a camera whose addition was saved is in what a restart would load, at
\* whatever step of a later save the process is killed.
AckedIsRecoverable == ~exposed => acked \subseteq Known(Recoverable)

\* The only steps that change what a restart would load to something that is
\* not the state being saved: the backup copy of an unreadable file, and
\* overwriting the file when the backup is not a copy of it.
LossIsConfined ==
    [][\/ Recoverable' \in {Recoverable, mem}
       \/ saving = "requested" /\ main = Torn
       \/ saving = "write" /\ backup # main]_vars

\* Whatever failed to be saved, restored or stopped, a camera of the registry
\* whose add_camera does not still wait for the server is marked as running, so
\* the next complete save makes the next boot restore it.  (A process killed
\* while add_camera waits forgets the camera.)
RegistryIsMarked == cameras \ adding \subseteq Running(mem)

=============================================================================
