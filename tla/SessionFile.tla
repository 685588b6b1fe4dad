---------------------------- MODULE SessionFile ----------------------------
(***************************************************************************)
(* openclaw/core/memory_store.go, type FileMemoryStore, and the saves of   *)
(* core/session.go: the objects of one session, in the manager's map, in   *)
(* the hands of a turn and in the cache of the store, and its file.  Turns *)
(* and commands save the session they work on; one that is evicted is      *)
(* saved in the background, while a turn may still hold it and go on       *)
(* changing and saving it.  Nothing orders the saves of a session, and all *)
(* of them write to the same temporary path.  GetSession and DeleteSession *)
(* share a lock stripe that SaveSession does not take.                     *)
(*                                                                         *)
(* An object has fields of its own and points to a checkpoint.  SaveSession*)
(* is given a copy: it has the fields for itself and shares the checkpoint,*)
(* which turns complete in place (ManagerMarkCheckpointCompleted).         *)
(*                                                                         *)
(* A save that has a file open keeps writing to it after it was renamed or *)
(* removed.  A document is written with one write at offset zero and read  *)
(* up to its end, so that what can be read of a file is the document       *)
(* written last, or nothing.                                               *)
(***************************************************************************)
EXTENDS Naturals, FiniteSets

CONSTANTS
    Saver,        \* goroutines that save the session, one save at a time
    Background,   \* those started by queueBestEffortPersist
    MaxVersion,   \* bound: changes of the session
    PersistRetries,  \* MaxRetries of Persist
    Redacting     \* the store has a redaction, which copies the checkpoint too

ASSUME SessionFileAssumption ==
    /\ Background \subseteq Saver /\ IsFiniteSet(Saver)
    /\ MaxVersion \in Nat \ {0} /\ PersistRetries \in Nat
    /\ Redacting \in BOOLEAN

\* A session object: which one it is, the version of its fields, its
\* checkpoint, and whether that is completed.
SessionObject == [id : Nat, own : Nat, cell : Nat, done : BOOLEAN]
Nil == [id |-> 0, own |-> 0, cell |-> 0, done |-> FALSE]

\* What a file says of an object.
Document == [own : Nat, done : BOOLEAN]
Empty == [own |-> 0, done |-> FALSE]    \* a file that was opened and not written yet
Absent == [own |-> MaxVersion + 1, done |-> FALSE]    \* no file at a path
Encoded(o) == [own |-> o.own, done |-> o.done]

VARIABLES
    clock,     \* the version made last
    memory,    \* the object in the manager's map, or Nil
    stray,     \* the object a turn still holds after it was dropped from the map
    cache,     \* sessionCache: the object it holds, or Nil
    file,      \* what is at filePath: a document, Empty or Absent
    tmp,       \* what is at tempPath
    save,      \* per saver: where it is, the object it saves, the copy it saves it
               \* by, its attempts, and where the file is that it has open
    load,      \* the one GetSession under way: where it is, what it has read
    delete,    \* where the one DeleteSession under way is
    overlapped,  \* history: a save has met another one, or a deletion
    split        \* history: the session was loaded while another object of it was
                 \* still held or being saved

objects == <<memory, stray, cache>>
fileVars == <<clock, memory, stray, cache, file, tmp, save, load, delete, overlapped, split>>

Resting == [pc |-> "idle", from |-> Nil, copy |-> Nil, fd |-> "none", attempt |-> 0]
NoLoad == [pc |-> "idle", read |-> Empty]

Saving == {s \in Saver : save[s].pc # "idle"}

Stripe == load.pc = "idle" /\ delete = "idle"   \* the stripe is free

\* The open files after the file at one path has been moved or removed.
Moved(sv, from, to) ==
    [s \in Saver |-> IF sv[s].fd = from THEN [sv[s] EXCEPT !.fd = to] ELSE sv[s]]

Present == {memory, stray, cache} \cup {save[s].from : s \in Saver} \cup {save[s].copy : s \in Saver}

Unused(S) == CHOOSE n \in 1..Cardinality(S) + 1 : n \notin S
NewId == Unused({o.id : o \in Present})
NewCell == Unused({o.cell : o \in Present})

FileInit ==
    /\ clock = 1
    /\ memory = [id |-> 1, own |-> 1, cell |-> 1, done |-> FALSE]
    /\ stray = Nil /\ cache = Nil
    /\ file = Absent /\ tmp = Absent
    /\ save = [s \in Saver |-> Resting]
    /\ load = NoLoad
    /\ delete = "idle"
    /\ overlapped = FALSE /\ split = FALSE
-----------------------------------------------------------------------------
(* Turns and commands, on the session in the map or on one they still hold *)

Held == {memory, stray} \ {Nil}

\* What is seen of an object wherever it is held, once o has become new, and
\* wherever its checkpoint is pointed to, once that is completed.
Assigned(p, o, new) == IF p.id = o.id THEN new ELSE p
Completed(p, o) == IF p.cell = o.cell THEN [p EXCEPT !.done = TRUE] ELSE p

\* An assignment to fields of an object, with a new checkpoint or without.
Change(o, renew) ==
    /\ clock < MaxVersion
    /\ clock' = clock + 1
    /\ \E new \in {[o EXCEPT !.own = clock + 1,
                             !.cell = IF renew THEN NewCell ELSE @,
                             !.done = IF renew THEN FALSE ELSE @]} :
          /\ memory' = Assigned(memory, o, new)
          /\ stray' = Assigned(stray, o, new)
          /\ cache' = Assigned(cache, o, new)
          /\ save' = [s \in Saver |-> [save[s] EXCEPT !.from = Assigned(@, o, new)]]
    /\ UNCHANGED <<file, tmp, load, delete, overlapped, split>>

\* ManagerMarkCheckpointCompleted, in place.
CompleteCheckpoint(o) ==
    /\ ~o.done
    /\ memory' = Completed(memory, o)
    /\ stray' = Completed(stray, o)
    /\ cache' = Completed(cache, o)
    /\ save' = [s \in Saver |-> [save[s] EXCEPT !.from = Completed(@, o), !.copy = Completed(@, o)]]
    /\ UNCHANGED <<clock, file, tmp, load, delete, overlapped, split>>

\* The turn that held a dropped session ends.
LetGo ==
    /\ stray # Nil
    /\ stray' = Nil
    /\ UNCHANGED <<clock, memory, cache, file, tmp, save, load, delete, overlapped, split>>

\* The session leaves the map; a turn may be holding it (bound: one such turn).
Dropped ==
    /\ memory # Nil
    /\ memory' = Nil
    /\ stray' \in {stray} \cup (IF stray = Nil THEN {memory} ELSE {})

RemoveActive ==
    /\ Dropped
    /\ UNCHANGED <<clock, cache, file, tmp, save, load, delete, overlapped, split>>
-----------------------------------------------------------------------------
(* Persist: SaveSession, up to PersistRetries + 1 times. *)

Start(s, o) ==
    /\ save[s].pc = "idle"
    /\ save' = [save EXCEPT ![s] = [Resting EXCEPT !.pc = "open", !.from = o]]
    /\ overlapped' = (overlapped \/ Saving # {} \/ delete # "idle")
    /\ UNCHANGED <<clock, cache, file, tmp, load, delete, split>>

\* A turn or a command saves the session it works on.
StartPersist(s, o) ==
    /\ s \notin Background
    /\ Start(s, o)
    /\ UNCHANGED <<memory, stray>>

\* The sweep or an admission drops the session; a goroutine saves it.
EvictSession(s) ==
    /\ s \in Background
    /\ Dropped
    /\ Start(s, memory)

\* The session is copied for the call and the temporary file opened with
\* O_TRUNC: the file that is there, or a new one.
OpenTmp(s) ==
    /\ save[s].pc = "open"
    /\ tmp' = Empty
    /\ save' = [save EXCEPT ![s].pc = "write", ![s].fd = "tmp",
                            ![s].copy = [save[s].from EXCEPT !.id = Nil.id,
                                           !.cell = IF Redacting THEN NewCell ELSE @]]
    /\ UNCHANGED <<clock, objects, file, load, delete, overlapped, split>>

\* Mutated form: the temporary file is renamed before it is written.
WriteTmpLate(s) ==
    /\ save[s].pc = "write"
    /\ save' = [save EXCEPT ![s].pc = "rename", ![s].fd = "none"]
    /\ UNCHANGED <<clock, objects, file, tmp, load, delete, overlapped, split>>

\* Encode and Sync.
WriteTmp(s) ==
    /\ save[s].pc = "write"
    /\ tmp' = IF save[s].fd = "tmp" THEN Encoded(save[s].copy) ELSE tmp
    /\ file' = IF save[s].fd = "file" THEN Encoded(save[s].copy) ELSE file
    /\ save' = [save EXCEPT ![s].pc = "rename", ![s].fd = "none"]
    /\ UNCHANGED <<clock, objects, load, delete, overlapped, split>>

\* Whatever is at the temporary path is removed; Persist tries again or
\* gives up.
SaveErrs(s) ==
    /\ tmp' = Absent
    /\ save' = [Moved(save, "tmp", "gone") EXCEPT ![s] =
                   IF save[s].attempt < PersistRetries
                   THEN [save[s] EXCEPT !.pc = "open", !.copy = Nil, !.fd = "none", !.attempt = @ + 1]
                   ELSE Resting]
    /\ UNCHANGED <<clock, objects, file, load, delete, overlapped, split>>

\* A full disk, or the context of a command.
WriteFails(s) == save[s].pc = "write" /\ SaveErrs(s)

\* The temporary file is gone, or cannot be moved.
RenameFails(s) == save[s].pc = "rename" /\ SaveErrs(s)

Rename(s) ==
    /\ save[s].pc = "rename"
    /\ tmp # Absent
    /\ file' = tmp
    /\ tmp' = Absent
    /\ save' = [Moved(Moved(save, "file", "gone"), "tmp", "file") EXCEPT ![s].pc = "cache"]
    /\ UNCHANGED <<clock, objects, load, delete, overlapped, split>>

\* Mutated form: the cache keeps what it has.
CacheSavedOnce(s) ==
    /\ save[s].pc = "cache"
    /\ cache' = IF cache = Nil THEN [save[s].copy EXCEPT !.id = NewId] ELSE cache
    /\ save' = [save EXCEPT ![s] = Resting]
    /\ UNCHANGED <<clock, memory, stray, file, tmp, load, delete, overlapped, split>>

\* The cache takes the copy, which still points to the checkpoint of the
\* session that was saved.
CacheSaved(s) ==
    /\ save[s].pc = "cache"
    /\ cache' = [save[s].copy EXCEPT !.id = NewId]
    /\ save' = [save EXCEPT ![s] = Resting]
    /\ UNCHANGED <<clock, memory, stray, file, tmp, load, delete, overlapped, split>>

PersistStep(s) ==
    OpenTmp(s) \/ WriteTmp(s) \/ WriteFails(s) \/ RenameFails(s) \/ Rename(s) \/ CacheSaved(s)
-----------------------------------------------------------------------------
(* GetSession: the cache answers, or the file is read under the stripe.  An *)
(* admission makes the object it gets the session in memory.                *)

Admit(o) ==
    IF memory = Nil
    THEN memory' = o /\ split' = (split \/ stray # Nil \/ Saving # {})
    ELSE UNCHANGED <<memory, split>>

CacheHit ==
    /\ memory = Nil
    /\ cache # Nil
    /\ Admit(cache)
    /\ UNCHANGED <<clock, stray, cache, file, tmp, save, load, delete, overlapped>>

\* There is neither a cached session nor a file: a new session begins.
NothingStored ==
    /\ memory = Nil
    /\ Stripe
    /\ cache = Nil
    /\ file = Absent
    /\ Admit([id |-> NewId, own |-> 1, cell |-> NewCell, done |-> FALSE])
    /\ UNCHANGED <<clock, stray, cache, file, tmp, save, load, delete, overlapped>>

ReadFile ==
    /\ Stripe
    /\ cache = Nil
    /\ file # Absent
    /\ load' = [pc |-> "read", read |-> file]
    /\ UNCHANGED <<clock, objects, file, tmp, save, delete, overlapped, split>>

\* loadSessionFromFile: an object of its own.
Decoded(d) == [id |-> NewId, own |-> d.own, cell |-> NewCell, done |-> d.done]

\* Mutated form: what was read replaces what the cache holds.
CacheLoadedAnyway ==
    /\ load.pc = "read"
    /\ load.read # Empty
    /\ cache' = Decoded(load.read)
    /\ Admit(cache')
    /\ load' = NoLoad
    /\ UNCHANGED <<clock, stray, file, tmp, save, delete, overlapped>>

\* A save that came first has filled the cache: its session is the canonical one.
CacheLoaded ==
    /\ load.pc = "read"
    /\ load.read # Empty
    /\ cache' = IF cache = Nil THEN Decoded(load.read) ELSE cache
    /\ Admit(cache')
    /\ load' = NoLoad
    /\ UNCHANGED <<clock, stray, file, tmp, save, delete, overlapped>>

\* The file could not be opened, or not decoded: whatever file is there now
\* is moved away, or stays when it cannot be.
Quarantine ==
    /\ load.pc = "read"
    /\ \/ file' = Absent /\ save' = Moved(save, "file", "gone")
       \/ UNCHANGED <<file, save>>
    /\ load' = NoLoad
    /\ UNCHANGED <<clock, objects, tmp, delete, overlapped, split>>
-----------------------------------------------------------------------------
(* DeleteSession, under the stripe. *)

DeleteCached ==
    /\ Stripe
    /\ cache' = Nil
    /\ delete' = "file"
    /\ overlapped' = (overlapped \/ Saving # {})
    /\ UNCHANGED <<clock, memory, stray, file, tmp, save, load, split>>

DeleteFile ==
    /\ delete = "file"
    /\ file' = Absent
    /\ save' = Moved(save, "file", "gone")
    /\ delete' = "tmp"
    /\ UNCHANGED <<clock, objects, tmp, load, overlapped, split>>

\* The file cannot be removed: the session is gone from the cache alone.
DeleteFails ==
    /\ delete = "file"
    /\ delete' = "idle"
    /\ UNCHANGED <<clock, objects, file, tmp, save, load, overlapped, split>>

DeleteTmp ==
    /\ delete = "tmp"
    /\ tmp' = Absent
    /\ save' = Moved(save, "tmp", "gone")
    /\ delete' = "idle"
    /\ UNCHANGED <<clock, objects, file, load, overlapped, split>>
-----------------------------------------------------------------------------
\* The process dies and starts again; an open temporary file stays behind.
Die ==
    /\ memory' = Nil /\ stray' = Nil /\ cache' = Nil
    /\ save' = [s \in Saver |-> Resting]
    /\ load' = NoLoad
    /\ delete' = "idle"
    /\ UNCHANGED <<clock, file, tmp, overlapped, split>>

FileNext ==
    \/ \E o \in Held :
          \/ \E renew \in BOOLEAN : Change(o, renew)
          \/ CompleteCheckpoint(o)
          \/ \E s \in Saver : StartPersist(s, o)
    \/ LetGo \/ RemoveActive
    \/ \E s \in Saver : EvictSession(s) \/ PersistStep(s)
    \/ CacheHit \/ NothingStored \/ ReadFile \/ CacheLoaded \/ Quarantine
    \/ DeleteCached \/ DeleteFile \/ DeleteFails \/ DeleteTmp
    \/ Die

FileSpec == FileInit /\ [][FileNext]_fileVars
-----------------------------------------------------------------------------
FileTypeOK ==
    /\ clock \in 1..MaxVersion
    /\ memory \in SessionObject /\ stray \in SessionObject /\ cache \in SessionObject
    /\ file \in Document /\ tmp \in Document
    /\ save \in [Saver -> [pc : {"idle", "open", "write", "rename", "cache"},
                           from : SessionObject, copy : SessionObject,
                           fd : {"none", "tmp", "file", "gone"}, attempt : Nat]]
    /\ load \in [pc : {"idle", "read"}, read : Document]
    /\ delete \in {"idle", "file", "tmp"}
    /\ overlapped \in BOOLEAN /\ split \in BOOLEAN

\* "Atomic writes": the file of a session always holds a whole document,
\* whenever the process dies (the temporary file and the rename of
\* SaveSession).
FileIsWhole == file # Empty

\* That holds as long as no two saves, and no save and deletion, of the
\* session meet, wherever the process dies.
WholeUnlessOverlap == ~overlapped => FileIsWhole

\* An object tells what the file says, or something later.
NotBehind(o) ==
    file # Absent =>
        /\ file.own <= o.own
        /\ file.own = o.own /\ file.done => o.done

\* In that case the cache of the store is not behind the file once nothing is
\* under way: it never gives out an older session, nor one that would resume
\* a checkpoint the file has as completed.  It is often ahead: loads hand out
\* the cached object itself, saves cache a copy that shares its checkpoint
\* with the turn that goes on, and a stray turn saves beside both.
CacheNotBehind ==
    ~overlapped /\ Saving = {} /\ delete = "idle" /\ cache # Nil => NotBehind(cache)

\* An admitted session is not behind the file either, unless it was loaded
\* while a turn still held the object that was evicted, or its save was not
\* over (queueBestEffortPersist): then the two objects are saved over each
\* other.
MemoryNotBehind ==
    ~overlapped /\ ~split /\ memory # Nil => NotBehind(memory)
=============================================================================
