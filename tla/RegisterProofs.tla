--------------------------- MODULE RegisterProofs ---------------------------
(***************************************************************************)
(* Every store backend implements the register the manager relies on, for  *)
(* any set of snapshots and any naming of their versions.                  *)
(***************************************************************************)
EXTENDS ObjectStore, TLAPS

\* What holds between two steps of a save: nothing torn is stored, a finished
\* temporary file is the snapshot being saved, and the version of a snapshot
\* is stored before its pointer is touched.
StoreInv ==
  /\ TypeOK
  /\ NothingTorn
  /\ LatestIsVersioned
  /\ pc = "idle" <=> saving = NoSave
  /\ pc \in {"writing", "written"} => backend = "fs"
  /\ pc = "written" => tmp[Key] = saving
  /\ target = "latest" => pc # "idle" /\ objects[KeyOf[saving]] = saving

\* While a save runs it has a snapshot, and the key it puts is a key.
LEMMA SavingKey ==
  ASSUME StoreInv, pc # "idle"
  PROVE  /\ saving \in Snapshots
         /\ KeyOf[saving] \in Keys
         /\ Key \in AllKeys
         /\ target = "version" => Key = KeyOf[saving]
         /\ target = "latest" => Key = LatestKey
         /\ KeyOf[saving] # LatestKey
BY StoreAssumption DEF StoreInv, TypeOK, Key, AllKeys

\* Storing the snapshot being saved under the key of this put keeps the
\* stored objects good, and completes the version at the first put.
LEMMA StoredKeeps ==
  ASSUME StoreInv, pc # "idle",
         objects' = [objects EXCEPT ![Key] = saving]
  PROVE  /\ objects' \in [AllKeys -> Content]
         /\ NothingTorn'
         /\ LatestIsVersioned'
         /\ objects'[KeyOf[saving]] = saving
<1>1. objects \in [AllKeys -> Content]
  BY DEF StoreInv, TypeOK
<1>2. saving \in Content /\ saving # Torn
  BY SavingKey, StoreAssumption DEF Content
<1>3. /\ objects' \in [AllKeys -> Content]
      /\ objects'[Key] = saving
      /\ \A k \in AllKeys : k # Key => objects'[k] = objects[k]
  BY <1>1, <1>2, SavingKey
<1>4. NothingTorn'
  BY <1>2, <1>3 DEF StoreInv, NothingTorn
<1>5. objects'[KeyOf[saving]] = saving
  <2>1. CASE target = "version"
    BY <2>1, <1>3, SavingKey
  <2>2. CASE target = "latest"
    BY <2>2, <1>3, SavingKey DEF StoreInv, AllKeys
  <2> QED BY <2>1, <2>2 DEF StoreInv, TypeOK
<1>6. LatestIsVersioned'
  <2>1. CASE target = "latest"
    <3>1. objects'[LatestKey] = saving
      BY <2>1, <1>3, SavingKey
    <3> QED BY <3>1, <1>5, SavingKey DEF LatestIsVersioned, LoadLatestSnapshot
  <2>2. CASE target = "version"
    <3>1. objects'[LatestKey] = objects[LatestKey]
      BY <2>2, <1>3, SavingKey DEF AllKeys
    <3> SUFFICES ASSUME objects'[LatestKey] # Missing
                 PROVE  \E s \in Snapshots :
                          /\ KeyOf[s] = KeyOf[objects'[LatestKey]]
                          /\ objects'[KeyOf[s]] = s
      BY DEF LatestIsVersioned, LoadLatestSnapshot
    <3>2. PICK s \in Snapshots : /\ KeyOf[s] = KeyOf[objects[LatestKey]]
                                 /\ objects[KeyOf[s]] = s
      BY <3>1 DEF StoreInv, LatestIsVersioned, LoadLatestSnapshot
    <3>3. CASE KeyOf[s] = KeyOf[saving]
      BY <3>1, <3>2, <3>3, <1>5, SavingKey
    <3>4. CASE KeyOf[s] # KeyOf[saving]
      <4>1. KeyOf[s] \in AllKeys
        BY StoreAssumption DEF AllKeys
      <4>2. objects'[KeyOf[s]] = s
        BY <4>1, <3>4, <3>2, <2>2, <1>3, SavingKey
      <4> QED BY <4>2, <3>1, <3>2
    <3> QED BY <3>3, <3>4
  <2> QED BY <2>1, <2>2 DEF StoreInv, TypeOK
<1> QED BY <1>3, <1>4, <1>5, <1>6

\* The same for the row a database call inserts.
LEMMA InsertedKeeps ==
  ASSUME StoreInv, pc # "idle", objects' = Inserted
  PROVE  /\ objects' \in [AllKeys -> Content]
         /\ NothingTorn'
         /\ LatestIsVersioned'
         /\ objects'[LatestKey] = saving
<1>1. objects \in [AllKeys -> Content]
  BY DEF StoreInv, TypeOK
<1>2. saving \in Content /\ saving # Torn
  BY SavingKey, StoreAssumption DEF Content
<1>3. LatestKey \in AllKeys /\ KeyOf[saving] \in AllKeys
  BY SavingKey DEF AllKeys
<1>4. objects' \in [AllKeys -> Content]
  BY <1>1, <1>2 DEF Inserted
<1>5. NothingTorn'
  BY <1>1, <1>2 DEF StoreInv, NothingTorn, Inserted
<1>6. objects'[LatestKey] = saving /\ objects'[KeyOf[saving]] = saving
  BY <1>3 DEF Inserted
<1>7. LatestIsVersioned'
  BY <1>6, SavingKey DEF LatestIsVersioned, LoadLatestSnapshot
<1> QED BY <1>4, <1>5, <1>6, <1>7

\* Answering the caller, with the stored objects good, keeps the invariant.
LEMMA ReturnKeeps ==
  ASSUME StoreInv,
         objects' \in [AllKeys -> Content], NothingTorn', LatestIsVersioned',
         tmp' \in [AllKeys -> Content], backend' = backend,
         pc' = "idle", saving' = NoSave, target' = "version",
         answer' \in {"none", "ok", "error"}
  PROVE  StoreInv'
BY DEF StoreInv, TypeOK

LEMMA StoreInitial == Init => StoreInv
<1> SUFFICES ASSUME Init PROVE StoreInv
  OBVIOUS
<1>1. /\ Nowhere \in [AllKeys -> Content]
      /\ \A k \in AllKeys : Nowhere[k] = Missing
      /\ LatestKey \in AllKeys
  BY DEF Nowhere, Content, AllKeys
<1>2. NothingTorn /\ LatestIsVersioned
  BY <1>1, StoreAssumption
  DEF Init, NothingTorn, LatestIsVersioned, LoadLatestSnapshot
<1> QED BY <1>1, <1>2 DEF Init, StoreInv, TypeOK

LEMMA StoreInductive == StoreInv /\ [Next]_vars => StoreInv'
<1> SUFFICES ASSUME StoreInv, [Next]_vars PROVE StoreInv'
  OBVIOUS
<1>1. CASE \E s \in Snapshots : SaveSnapshot(s)
  <2>1. PICK s \in Snapshots : SaveSnapshot(s)
    BY <1>1
  <2> QED BY <2>1, StoreAssumption
          DEF SaveSnapshot, StoreInv, TypeOK, NothingTorn, LatestIsVersioned,
              LoadLatestSnapshot
<1>2. CASE CreateFile
  <2>1. tmp' \in [AllKeys -> Content]
    BY <1>2, SavingKey DEF CreateFile, StoreInv, TypeOK, Content
  <2> QED BY <1>2, <2>1 DEF CreateFile, StoreInv, TypeOK, NothingTorn,
              LatestIsVersioned, LoadLatestSnapshot
<1>3. CASE WriteFile
  <2>1. saving \in Content /\ Key \in AllKeys
    BY <1>3, SavingKey DEF WriteFile, Content
  <2>2. tmp' \in [AllKeys -> Content] /\ tmp'[Key] = saving
    BY <1>3, <2>1 DEF WriteFile, StoreInv, TypeOK
  <2>3. Key' = Key
    BY <1>3 DEF WriteFile, Key
  <2> QED BY <1>3, <2>2, <2>3 DEF WriteFile, StoreInv, TypeOK, NothingTorn,
              LatestIsVersioned, LoadLatestSnapshot
<1>4. CASE Rename
  <2>1. objects' = [objects EXCEPT ![Key] = saving] /\ pc # "idle"
    BY <1>4 DEF Rename, StoreInv
  <2>2. tmp' \in [AllKeys -> Content]
    BY <1>4 DEF Rename, StoreInv, TypeOK, Content
  <2>3. CASE target = "version"
    BY <1>4, <2>1, <2>2, <2>3, StoredKeeps
    DEF Rename, Advance, StoreInv, TypeOK
  <2>4. CASE target # "version"
    BY <1>4, <2>1, <2>2, <2>4, StoredKeeps, ReturnKeeps
    DEF Rename, Advance, Return
  <2> QED BY <2>3, <2>4
<1>5. CASE FileFails
  BY <1>5, ReturnKeeps
  DEF FileFails, Return, StoreInv, TypeOK, NothingTorn, LatestIsVersioned,
      LoadLatestSnapshot
<1>6. CASE Put
  <2>1. objects' = [objects EXCEPT ![Key] = saving] /\ pc # "idle"
    BY <1>6 DEF Put
  <2>2. CASE target = "version"
    BY <1>6, <2>1, <2>2, StoredKeeps DEF Put, Advance, StoreInv, TypeOK
  <2>3. CASE target # "version"
    BY <1>6, <2>1, <2>3, StoredKeeps, ReturnKeeps
    DEF Put, Advance, Return, StoreInv, TypeOK
  <2> QED BY <2>2, <2>3
<1>7. CASE PutFails
  <2>1. CASE objects' = objects
    BY <1>7, <2>1, ReturnKeeps
    DEF PutFails, Return, StoreInv, TypeOK, NothingTorn, LatestIsVersioned,
        LoadLatestSnapshot
  <2>2. CASE objects' = [objects EXCEPT ![Key] = saving]
    BY <1>7, <2>2, StoredKeeps, ReturnKeeps
    DEF PutFails, Return, StoreInv, TypeOK
  <2> QED BY <1>7, <2>1, <2>2 DEF PutFails
<1>8. CASE Insert
  BY <1>8, InsertedKeeps, ReturnKeeps DEF Insert, Return, StoreInv, TypeOK
<1>9. CASE InsertFails
  <2>1. CASE objects' = objects
    BY <1>9, <2>1, ReturnKeeps
    DEF InsertFails, Return, StoreInv, TypeOK, NothingTorn, LatestIsVersioned,
        LoadLatestSnapshot
  <2>2. CASE objects' = Inserted
    BY <1>9, <2>2, InsertedKeeps, ReturnKeeps
    DEF InsertFails, Return, StoreInv, TypeOK
  <2> QED BY <1>9, <2>1, <2>2 DEF InsertFails
<1>10. CASE Crash
  <2>1. CASE objects' = Nowhere
    <3>1. /\ Nowhere \in [AllKeys -> Content]
          /\ \A k \in AllKeys : Nowhere[k] = Missing
          /\ LatestKey \in AllKeys
      BY DEF Nowhere, Content, AllKeys
    <3>2. NothingTorn' /\ LatestIsVersioned'
      BY <2>1, <3>1, StoreAssumption
      DEF NothingTorn, LatestIsVersioned, LoadLatestSnapshot
    <3> QED BY <1>10, <2>1, <3>1, <3>2, ReturnKeeps DEF Crash, StoreInv, TypeOK
  <2>2. CASE objects' = objects
    BY <1>10, <2>2, ReturnKeeps
    DEF Crash, StoreInv, TypeOK, NothingTorn, LatestIsVersioned,
        LoadLatestSnapshot
  <2>3. CASE pc = "put" /\ objects' = [objects EXCEPT ![Key] = saving]
    BY <1>10, <2>3, StoredKeeps, ReturnKeeps DEF Crash, StoreInv, TypeOK
  <2>4. CASE pc = "put" /\ objects' = Inserted
    BY <1>10, <2>4, InsertedKeeps, ReturnKeeps DEF Crash, StoreInv, TypeOK
  <2> QED BY <1>10, <2>1, <2>2, <2>3, <2>4 DEF Crash
<1>11. CASE UNCHANGED vars
  BY <1>11 DEF vars, StoreInv, TypeOK, NothingTorn, LatestIsVersioned,
               LoadLatestSnapshot, Key
<1> QED
  BY <1>1, <1>2, <1>3, <1>4, <1>5, <1>6, <1>7, <1>8, <1>9, <1>10, <1>11
  DEF Next

LEMMA StoreInvariant == Spec => []StoreInv
BY StoreInitial, StoreInductive, PTL DEF Spec

\* No load ever finds a file that was not completely written.
THEOREM NeverTorn == Spec => []NothingTorn
<1>1. StoreInv => NothingTorn
  BY DEF StoreInv
<1> QED BY <1>1, StoreInvariant, PTL

\* The latest pointer never runs ahead of the versions.
THEOREM PointerHasVersion == Spec => []LatestIsVersioned
<1>1. StoreInv => LatestIsVersioned
  BY DEF StoreInv
<1> QED BY <1>1, StoreInvariant, PTL

\* A put that is not the last one leaves the latest snapshot alone; the last
\* one makes it the snapshot being saved.
LEMMA StoredLatest ==
  ASSUME StoreInv, pc # "idle",
         objects' = [objects EXCEPT ![Key] = saving]
  PROVE  /\ target = "version" => LoadLatestSnapshot' = LoadLatestSnapshot
         /\ target # "version" => LoadLatestSnapshot' = saving
<1>1. objects \in [AllKeys -> Content] /\ LatestKey \in AllKeys
  BY DEF StoreInv, TypeOK, AllKeys
<1> QED BY <1>1, SavingKey DEF LoadLatestSnapshot, StoreInv, TypeOK

\* Every step of a backend is a step of the register or leaves it as it is.
LEMMA StepRefines ==
  StoreInv /\ [Next]_vars => [Abstract!Next]_(Abstract!vars)
<1> SUFFICES ASSUME StoreInv, [Next]_vars
             PROVE  [Abstract!Next]_(Abstract!vars)
  OBVIOUS
<1> USE DEF Abstract!Next, Abstract!vars
<1>s. pc # "idle" => saving # NoSave
  BY DEF StoreInv
<1>1. CASE \E s \in Snapshots : SaveSnapshot(s)
  BY <1>1 DEF SaveSnapshot, Abstract!Begin, StoreInv, LoadLatestSnapshot
<1>2. CASE CreateFile
  BY <1>2 DEF CreateFile, LoadLatestSnapshot
<1>3. CASE WriteFile
  BY <1>3 DEF WriteFile, LoadLatestSnapshot
<1>4. CASE Rename
  <2>1. objects' = [objects EXCEPT ![Key] = saving] /\ pc # "idle"
    BY <1>4 DEF Rename, StoreInv
  <2> QED BY <1>4, <1>s, <2>1, StoredLatest
          DEF Rename, Advance, Return, Abstract!Succeed
<1>5. CASE FileFails
  BY <1>5, <1>s DEF FileFails, Return, Abstract!Fail, LoadLatestSnapshot
<1>6. CASE Put
  <2>1. objects' = [objects EXCEPT ![Key] = saving] /\ pc # "idle"
    BY <1>6 DEF Put
  <2> QED BY <1>6, <1>s, <2>1, StoredLatest
          DEF Put, Advance, Return, Abstract!Succeed
<1>7. CASE PutFails
  <2>1. LoadLatestSnapshot' \in {LoadLatestSnapshot, saving}
    BY <1>7, StoredLatest DEF PutFails, LoadLatestSnapshot
  <2> QED BY <1>7, <1>s, <2>1 DEF PutFails, Return, Abstract!Fail
<1>8. CASE Insert
  BY <1>8, <1>s, InsertedKeeps
  DEF Insert, Return, Abstract!Succeed, LoadLatestSnapshot
<1>9. CASE InsertFails
  <2>1. LoadLatestSnapshot' \in {LoadLatestSnapshot, saving}
    BY <1>9, InsertedKeeps DEF InsertFails, LoadLatestSnapshot
  <2> QED BY <1>9, <1>s, <2>1 DEF InsertFails, Return, Abstract!Fail
<1>10. CASE Crash
  <2>1. IF backend = "memory" THEN LoadLatestSnapshot' = Missing
        ELSE \/ LoadLatestSnapshot' = LoadLatestSnapshot
             \/ saving # NoSave /\ LoadLatestSnapshot' = saving
    <3>1. CASE backend = "memory"
      BY <1>10, <3>1 DEF Crash, LoadLatestSnapshot, Nowhere, AllKeys
    <3>2. CASE backend # "memory" /\ objects' = objects
      BY <3>2 DEF LoadLatestSnapshot
    <3>3. CASE /\ backend = "s3" /\ pc = "put"
               /\ objects' = [objects EXCEPT ![Key] = saving]
      BY <3>3, <1>s, StoredLatest
    <3>4. CASE backend = "postgres" /\ pc = "put" /\ objects' = Inserted
      BY <3>4, <1>s, InsertedKeeps DEF LoadLatestSnapshot
    <3> QED BY <1>10, <3>1, <3>2, <3>3, <3>4 DEF Crash
  <2> QED BY <1>10, <2>1 DEF Crash, Abstract!Crash
<1>11. CASE UNCHANGED vars
  BY <1>11 DEF vars, LoadLatestSnapshot
<1> QED
  BY <1>1, <1>2, <1>3, <1>4, <1>5, <1>6, <1>7, <1>8, <1>9, <1>10, <1>11
  DEF Next

LEMMA InitialRefines == Init => Abstract!Init
BY DEF Init, Abstract!Init, LoadLatestSnapshot, Nowhere, AllKeys

\* Every backend implements the register: the failure outcomes the manager's
\* model lets a save have are all there are (store/store.go, Store).
THEOREM BackendIsRegister == Spec => IsRegister
BY InitialRefines, StepRefines, StoreInvariant, PTL
DEF Spec, IsRegister, Abstract!Spec
=============================================================================
