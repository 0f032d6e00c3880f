------------------------------ MODULE StateStore -----------------------------
(***************************************************************************)
(* StateStore::save and load (crates/streamdeck-core/src/state.rs): the    *)
(* steps of one save on the file system, each of which may fail, and what  *)
(* a killed process or a power loss leaves between two of them.            *)
(*                                                                         *)
(* A kill leaves the files as the running system shows them.  A power loss *)
(* keeps what fsync wrote; the name state.json then stands for any of the  *)
(* files it stood for since the directory was last synced.  (What the      *)
(* system writes back by itself only leaves it fewer of them.)             *)
(*                                                                         *)
(* A definition named Faulty... is a mutant: the code with a possible bug. *)
(***************************************************************************)
CONSTANTS
    States,     \* the states that are saved
    NoState,    \* the file is missing
    Torn        \* the file holds a part of a state, or nothing

ASSUME StoreAssumption ==
    /\ NoState \notin States
    /\ Torn \notin States
    /\ Torn # NoState

VARIABLES
    step,       \* where `save` is, or "idle"
    saving,     \* what it saves, and how hard
    temporary,  \* state.json.tmp, as a program sees it
    synced,     \* the temporary file is on the disk as a program sees it
    file,       \* state.json, as a program sees it
    onDisk,     \* what state.json may hold after a power loss
    promised    \* auxiliary: state.json is as the last Critical save that
                \* returned Ok left it

storeVars == << step, saving, temporary, synced, file, onDisk, promised >>

-----------------------------------------------------------------------------
Durability == {"Normal", "Critical"}
Steps == {"create_dir", "open", "write", "sync", "rename", "sync_dir"}
Whole == States \cup {NoState}

StoreTypeOK ==
    /\ step \in Steps \cup {"idle"}
    /\ saving \in [state : Whole, durability : Durability]
    /\ temporary \in Whole \cup {Torn}
    /\ synced \in BOOLEAN
    /\ file \in Whole
    /\ onDisk \subseteq Whole
    /\ promised \in BOOLEAN

Resting(content) == [state |-> content, durability |-> "Normal"]

StoreInit ==
    /\ step = "idle"
    /\ file \in Whole
    /\ saving = Resting(NoState)
    /\ temporary = NoState
    /\ synced = FALSE
    /\ onDisk = {file}
    /\ promised = FALSE

-----------------------------------------------------------------------------
StartSave(s, durability) ==
    /\ step = "idle"
    /\ step' = "create_dir"
    /\ saving' = [state |-> s, durability |-> durability]
    /\ UNCHANGED << temporary, synced, file, onDisk, promised >>

CreateDirectory ==
    /\ step = "create_dir"
    /\ step' = "open"
    /\ UNCHANGED << saving, temporary, synced, file, onDisk, promised >>

\* Opening truncates.
OpenTemporary ==
    /\ step = "open"
    /\ step' = "write"
    /\ temporary' = Torn
    /\ synced' = FALSE
    /\ UNCHANGED << saving, file, onDisk, promised >>

WriteAll ==
    /\ step = "write"
    /\ step' = "sync"
    /\ temporary' = saving.state
    /\ UNCHANGED << saving, synced, file, onDisk, promised >>

SyncAll ==
    /\ step = "sync"
    /\ step' = "rename"
    /\ synced' = TRUE
    /\ UNCHANGED << saving, temporary, file, onDisk, promised >>

Finish ==
    /\ step' = "idle"
    /\ saving' = Resting(NoState)

\* `save` returns Ok.  After Critical the caller may rely on the state.
ReturnOk ==
    /\ Finish
    /\ promised' = (saving.durability = "Critical")

FaultySyncsDirectory(durability) == FALSE

SyncsDirectory(durability) == durability = "Critical"

\* Until the directory is on the disk the name may still stand for the file
\* before, and for an unsynced file its content may be missing.
Rename ==
    /\ step = "rename"
    /\ file' = temporary
    /\ onDisk' = onDisk \cup {temporary} \cup (IF synced THEN {} ELSE {Torn})
    /\ temporary' = NoState
    /\ synced' = FALSE
    /\ IF SyncsDirectory(saving.durability)
         THEN step' = "sync_dir" /\ promised' = FALSE /\ UNCHANGED saving
         ELSE ReturnOk

SyncDirectory ==
    /\ step = "sync_dir"
    /\ onDisk' = {file}
    /\ UNCHANGED << temporary, synced, file >>
    /\ ReturnOk

\* A step fails: `save` removes the temporary file, unless the directory could
\* not be made, and ignores that this may fail too.
FailSave ==
    /\ step # "idle"
    /\ Finish
    /\ temporary' \in IF step = "create_dir" THEN {temporary} ELSE {temporary, NoState}
    /\ synced' = FALSE
    /\ UNCHANGED << file, onDisk, promised >>

SaveStep ==
    \/ CreateDirectory
    \/ OpenTemporary
    \/ WriteAll
    \/ SyncAll
    \/ Rename
    \/ SyncDirectory

-----------------------------------------------------------------------------
\* The process dies between two steps, or during one.
Killed ==
    /\ Finish
    /\ synced' = FALSE
    /\ UNCHANGED << temporary, file, onDisk, promised >>

PowerLost ==
    /\ \E content \in onDisk : file' = content /\ onDisk' = {content}
    /\ Finish
    /\ temporary' \in {NoState, Torn, temporary}
    /\ synced' = FALSE
    /\ UNCHANGED promised

\* `load`: a missing file yields the defaults.
Loaded(defaults) == IF file = NoState THEN defaults ELSE file

StoreNext ==
    \/ \E s \in States, d \in Durability : StartSave(s, d)
    \/ SaveStep
    \/ FailSave
    \/ Killed
    \/ PowerLost

StoreSpec == StoreInit /\ [][StoreNext]_storeVars

-----------------------------------------------------------------------------
Durable == INSTANCE DurableState WITH
    stored <- file,
    recoverable <- onDisk,
    offered <- saving.state

\* The temporary file, the two syncs and the rename implement a state file that
\* is never torn and never falls back behind a Critical save that returned.
ImplementsDurable == Durable!DurableSpec

=============================================================================
