---------------------------- MODULE ObjectStore -----------------------------
(***************************************************************************)
(* The store backends (store/memory.go, fs.go, s3.go, postgres.go): how    *)
(* SaveSnapshot replaces the latest snapshot.  All but the database put    *)
(* two objects, a version and then the latest pointer; the filesystem puts *)
(* an object by writing a temporary file and renaming it.  Saves do not    *)
(* overlap: the manager holds its mutex.  SaveBootstrap is the same code   *)
(* with other keys.                                                        *)
(***************************************************************************)
EXTENDS Integers

CONSTANTS
  Snapshots,  \* what can be saved
  Keys,       \* names of versioned objects
  KeyOf,      \* snapshotKey: time to the second, and the id's first digits
  LatestKey,  \* latestSnapshotKey
  Missing,    \* there is no such object
  Torn,       \* a file that is not completely written
  NoSave      \* no save is running

ASSUME StoreAssumption ==
  /\ KeyOf \in [Snapshots -> Keys]
  /\ LatestKey \notin Keys
  /\ Missing \notin Snapshots
  /\ Torn \notin Snapshots
  /\ Torn # Missing
  /\ NoSave \notin Snapshots

VARIABLES
  backend,  \* StoreBackend: what the configuration selects
  objects,  \* what is stored under each key
  tmp,      \* the temporary file beside each key
  saving,   \* the snapshot being saved
  pc,       \* where the save is
  target,   \* which of the two puts it is at
  answer    \* what the last save answered

vars == <<backend, objects, tmp, saving, pc, target, answer>>

AllKeys == Keys \cup {LatestKey}

Content == Snapshots \cup {Missing, Torn}

Backends == {"memory", "fs", "s3", "postgres"}

TypeOK ==
  /\ backend \in Backends
  /\ objects \in [AllKeys -> Content]
  /\ tmp \in [AllKeys -> Content]
  /\ saving \in Snapshots \cup {NoSave}
  /\ pc \in {"idle", "put", "writing", "written"}
  /\ target \in {"version", "latest"}
  /\ answer \in {"none", "ok", "error"}

Nowhere == [k \in AllKeys |-> Missing]

Init ==
  /\ backend \in Backends
  /\ objects = Nowhere
  /\ tmp = Nowhere
  /\ saving = NoSave
  /\ pc = "idle"
  /\ target = "version"
  /\ answer = "none"

-----------------------------------------------------------------------------
\* Mutant: the pointer first, then the version.
KeySwapped == IF target = "latest" THEN KeyOf[saving] ELSE LatestKey

\* The key the save is about to put.
Key == IF target = "version" THEN KeyOf[saving] ELSE LatestKey

Return(reply) ==
  /\ pc' = "idle"
  /\ saving' = NoSave
  /\ target' = "version"
  /\ answer' = reply

\* One put is done: on to the second, or back to the caller.
Advance ==
  IF target = "version"
  THEN /\ pc' = "put"
       /\ target' = "latest"
       /\ UNCHANGED <<saving, answer>>
  ELSE Return("ok")

SaveSnapshot(s) ==
  /\ pc = "idle"
  /\ saving' = s
  /\ pc' = "put"
  /\ target' = "version"
  /\ answer' = "none"
  /\ UNCHANGED <<backend, objects, tmp>>

\* FS.put: create the temporary file, write it, rename it.
CreateFile ==
  /\ backend = "fs"
  /\ pc = "put"
  /\ tmp' = [tmp EXCEPT ![Key] = Torn]
  /\ pc' = "writing"
  /\ UNCHANGED <<backend, objects, saving, target, answer>>

\* Mutant: the object itself is written.
WriteFileInPlace ==
  /\ pc = "writing"
  /\ objects' = [objects EXCEPT ![Key] = Torn]
  /\ tmp' = [tmp EXCEPT ![Key] = saving]
  /\ pc' = "written"
  /\ UNCHANGED <<backend, saving, target, answer>>

WriteFile ==
  /\ pc = "writing"
  /\ tmp' = [tmp EXCEPT ![Key] = saving]
  /\ pc' = "written"
  /\ UNCHANGED <<backend, objects, saving, target, answer>>

Rename ==
  /\ pc = "written"
  /\ objects' = [objects EXCEPT ![Key] = tmp[Key]]
  /\ tmp' = [tmp EXCEPT ![Key] = Missing]
  /\ Advance
  /\ UNCHANGED backend

\* A step of FS.put fails; what it wrote to the temporary file stays.
FileFails ==
  /\ backend = "fs"
  /\ pc # "idle"
  /\ Return("error")
  /\ UNCHANGED <<backend, objects, tmp>>

\* S3.put and Memory.put.
Put ==
  /\ backend \in {"memory", "s3"}
  /\ pc = "put"
  /\ objects' = [objects EXCEPT ![Key] = saving]
  /\ Advance
  /\ UNCHANGED <<backend, tmp>>

\* Mutant: an error of the second put is not reported.
PutFailsSilently ==
  /\ backend = "s3"
  /\ pc = "put"
  /\ objects' \in {objects, [objects EXCEPT ![Key] = saving]}
  /\ Return(IF target = "latest" THEN "ok" ELSE "error")
  /\ UNCHANGED <<backend, tmp>>

\* A request to the object store fails; it may have been carried out.
PutFails ==
  /\ backend = "s3"
  /\ pc = "put"
  /\ objects' \in {objects, [objects EXCEPT ![Key] = saving]}
  /\ Return("error")
  /\ UNCHANGED <<backend, tmp>>

\* Postgres: one call inserts the row that a load then finds as the newest.
Inserted ==
  [k \in AllKeys |->
     IF k \in {KeyOf[saving], LatestKey} THEN saving ELSE objects[k]]

Insert ==
  /\ backend = "postgres"
  /\ pc = "put"
  /\ objects' = Inserted
  /\ Return("ok")
  /\ UNCHANGED <<backend, tmp>>

\* The call fails, before or after the database committed it.
InsertFails ==
  /\ backend = "postgres"
  /\ pc = "put"
  /\ objects' \in {objects, Inserted}
  /\ Return("error")
  /\ UNCHANGED <<backend, tmp>>

\* The process dies; a request that was sent may still be carried out.
Crash ==
  /\ \/ /\ backend = "memory"
        /\ objects' = Nowhere
     \/ /\ backend # "memory"
        /\ UNCHANGED objects
     \/ /\ backend = "s3"
        /\ pc = "put"
        /\ objects' = [objects EXCEPT ![Key] = saving]
     \/ /\ backend = "postgres"
        /\ pc = "put"
        /\ objects' = Inserted
  /\ pc' = "idle"
  /\ saving' = NoSave
  /\ target' = "version"
  /\ answer' = "none"
  /\ UNCHANGED <<backend, tmp>>

Next ==
  \/ \E s \in Snapshots : SaveSnapshot(s)
  \/ CreateFile \/ WriteFile \/ Rename \/ FileFails
  \/ Put \/ PutFails
  \/ Insert \/ InsertFails
  \/ Crash

Spec == Init /\ [][Next]_vars

-----------------------------------------------------------------------------
(***************************************************************************)
(* Properties.                                                             *)
(***************************************************************************)
\* LoadLatestSnapshot.
LoadLatestSnapshot == objects[LatestKey]

Abstract == INSTANCE Register WITH latest <- LoadLatestSnapshot,
                                   volatile <- (backend = "memory")

\* Every backend is the register the manager relies on: whatever step of a
\* save fails, or the process dies at, the latest snapshot is the old one or
\* the new one, whole, and it is the new one when the save answered "ok".
IsRegister == Abstract!Spec

\* No load finds a file that was not completely written, under any key
\* (FS.put renames a finished file).
NothingTorn == \A k \in AllKeys : objects[k] # Torn

\* The latest snapshot is always there as a version too: whatever interrupts a
\* save, the object under its version key was written before the pointer.  (A
\* snapshot with the same key, same second and same id, may have replaced it.)
LatestIsVersioned ==
  LoadLatestSnapshot # Missing
  => \E s \in Snapshots : /\ KeyOf[s] = KeyOf[LoadLatestSnapshot]
                          /\ objects[KeyOf[s]] = s
=============================================================================
