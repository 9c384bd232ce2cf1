-------------------------- MODULE DeviceStoreProofs --------------------------
(***************************************************************************)
(* The list of paired phones and the encrypted file, for any devices, keys *)
(* and plaintexts.  The list needs only that a device revoked has no       *)
(* position in it.  The file needs what is true between the steps of       *)
(* SaveToFile: whole contents are those of the save that touched the file  *)
(* last, and while one writes, it is that save.                            *)
(***************************************************************************)
EXTENDS DeviceStore, FiniteSetTheorems, TLAPS

Plain == Data \cup {Empty}

ListTypes ==
  /\ m_devices \in Seq(Info)
  /\ \A i, j \in DOMAIN m_devices : m_devices[i].id = m_devices[j].id => i = j
  /\ revoked \subseteq Ids

FileTypes ==
  /\ saves \in 0 .. MaxSaves
  /\ file \in [data : Plain, whole : BOOLEAN]
  /\ saver \in [pc : {"idle", "open", "write"}, data : Plain]
  /\ latest \in Plain /\ loaded \in Plain

\* A revoked device has no entry.
Out == \A d \in revoked : \A i \in DOMAIN m_devices : m_devices[i].id # d

\* Between any two steps of a save, and after a crash at any of them.
FileIsLatest ==
  /\ file.whole => file.data = latest
  /\ saver.pc = "write" => latest = saver.data

Inv == ListTypes /\ FileTypes /\ Out /\ FileIsLatest

-----------------------------------------------------------------------------
\* The list

\* RegisterDevice replaces the only entry with the id, or appends one.
LEMMA RegisterInv ==
  ASSUME Inv, NEW info \in Info, RegisterDevice(info)
  PROVE  ListTypes' /\ Out'
  <1>1. /\ m_devices \in Seq(Info) /\ revoked \subseteq Ids
        /\ \A i, j \in DOMAIN m_devices : m_devices[i].id = m_devices[j].id => i = j
    BY DEF Inv, ListTypes
  <1>2. revoked' = revoked \ {info.id}
    BY DEF RegisterDevice
  <1>3. \A d \in revoked' : d # info.id /\ \A i \in DOMAIN m_devices : m_devices[i].id # d
    BY <1>2 DEF Inv, Out
  <1>4. CASE Positions(info.id) = {}
    <2>1. m_devices' = Append(m_devices, info)
      BY <1>4 DEF RegisterDevice
    <2>2. \A i \in DOMAIN m_devices : m_devices[i].id # info.id
      BY <1>4 DEF Positions
    <2>3. /\ m_devices' \in Seq(Info)
          /\ Len(m_devices') = Len(m_devices) + 1
          /\ \A i \in 1 .. Len(m_devices) : m_devices'[i] = m_devices[i]
          /\ m_devices'[Len(m_devices) + 1] = info
      BY <1>1, <2>1
    <2>4. \A i \in DOMAIN m_devices' :
            \/ i \in DOMAIN m_devices /\ m_devices'[i] = m_devices[i]
            \/ i = Len(m_devices) + 1 /\ m_devices'[i] = info
      BY <1>1, <2>3
    <2>5. \A i, j \in DOMAIN m_devices' : m_devices'[i].id = m_devices'[j].id => i = j
      BY <1>1, <2>2, <2>4
    <2>6. Out'
      BY <1>3, <2>4 DEF Out
    <2>7. QED
      BY <1>1, <1>2, <2>3, <2>5, <2>6 DEF ListTypes
  <1>5. CASE Positions(info.id) # {}
    <2>1. PICK p \in DOMAIN m_devices : m_devices[p].id = info.id
      BY <1>5 DEF Positions
    <2>2. Positions(info.id) = {p}
      BY <1>1, <2>1 DEF Positions
    <2>3. Min(Positions(info.id)) = p
      BY <1>1, <2>2 DEF Min
    <2>4. m_devices' = [m_devices EXCEPT ![p] = info]
      BY <1>5, <2>3 DEF RegisterDevice
    <2>5. m_devices' \in Seq(Info) /\ DOMAIN m_devices' = DOMAIN m_devices
      BY <1>1, <2>4
    <2>6. \A i \in DOMAIN m_devices : m_devices'[i] = IF i = p THEN info ELSE m_devices[i]
      BY <1>1, <2>4
    <2>7. \A i, j \in DOMAIN m_devices' : m_devices'[i].id = m_devices'[j].id => i = j
      BY <1>1, <2>1, <2>5, <2>6
    <2>8. Out'
      BY <1>3, <2>5, <2>6 DEF Out
    <2>9. QED
      BY <1>1, <1>2, <2>5, <2>7, <2>8 DEF ListTypes
  <1>6. QED
    BY <1>4, <1>5

\* What RevokeDevice keeps are entries of other devices, none of them twice.
LEMMA RevokeInv ==
  ASSUME Inv, NEW d \in Ids, RevokeDevice(d)
  PROVE  ListTypes' /\ Out'
  <1>1. /\ m_devices \in Seq(Info) /\ revoked \subseteq Ids
        /\ \A i, j \in DOMAIN m_devices : m_devices[i].id = m_devices[j].id => i = j
    BY DEF Inv, ListTypes
  <1>2. Cardinality(Others(d)) \in Nat
    <2>1. IsFiniteSet(1 .. Len(m_devices))
      BY <1>1, FS_Interval
    <2>2. Others(d) \subseteq 1 .. Len(m_devices)
      BY <1>1 DEF Others
    <2>3. QED
      BY <2>1, <2>2, FS_Subset, FS_CardinalityType
  <1> DEFINE n == Cardinality(Others(d))
  <1> HIDE DEF n
  <1>3. PICK kept \in [1 .. n -> Others(d)] :
          /\ \A i, j \in DOMAIN kept : i < j => kept[i] < kept[j]
          /\ m_devices' = [i \in DOMAIN kept |-> m_devices[kept[i]]]
    BY DEF RevokeDevice, n
  <1>4. /\ DOMAIN m_devices' = 1 .. n
        /\ \A i \in 1 .. n : /\ kept[i] \in DOMAIN m_devices
                             /\ m_devices[kept[i]].id # d
                             /\ m_devices'[i] = m_devices[kept[i]]
    BY <1>3 DEF Others, Positions
  <1>5. m_devices' \in Seq(Info)
    <2>1. m_devices' = [i \in 1 .. n |-> m_devices[kept[i]]]
      BY <1>3
    <2>2. \A i \in 1 .. n : m_devices[kept[i]] \in Info
      BY <1>1, <1>4
    <2>3. QED
      BY <1>2, <2>1, <2>2 DEF n
  <1>6. ASSUME NEW i \in 1 .. n, NEW j \in 1 .. n, m_devices'[i].id = m_devices'[j].id
        PROVE  i = j
    <2>1. kept[i] = kept[j]
      BY <1>1, <1>4, <1>6
    <2>2. kept[i] \in Nat /\ ~(kept[i] < kept[j]) /\ ~(kept[j] < kept[i])
      BY <1>1, <1>4, <2>1
    <2>3. ~(i < j) /\ ~(j < i)
      BY <1>3, <2>2
    <2>4. QED
      BY <1>2, <2>3 DEF n
  <1>7. Out'
    <2>1. ASSUME NEW x \in revoked', NEW i \in DOMAIN m_devices'
          PROVE  m_devices'[i].id # x
      <3>1. i \in 1 .. n /\ kept[i] \in DOMAIN m_devices
        BY <1>4
      <3>2. x \in revoked \/ x = d
        BY DEF RevokeDevice
      <3>3. QED
        BY <1>4, <3>1, <3>2 DEF Inv, Out
    <2>2. QED
      BY <2>1 DEF Out
  <1>8. QED
    BY <1>1, <1>4, <1>5, <1>6, <1>7 DEF ListTypes, RevokeDevice

\* An entry with another flag is an entry of the same device.
LEMMA FlagInfo ==
  ASSUME NEW e \in Info, NEW flag \in BOOLEAN
  PROVE  /\ [e EXCEPT !.isPrimary = flag] \in Info
         /\ [e EXCEPT !.isPrimary = flag].id = e.id
  BY DEF Info

\* SetPrimaryDevice writes flags and leaves every id where it is.
LEMMA SetPrimaryInv ==
  ASSUME Inv, NEW d \in Ids, SetPrimaryDevice(d)
  PROVE  ListTypes' /\ Out'
  <1>1. /\ m_devices \in Seq(Info) /\ revoked \subseteq Ids /\ revoked' = revoked
        /\ \A i, j \in DOMAIN m_devices : m_devices[i].id = m_devices[j].id => i = j
    BY DEF Inv, ListTypes, SetPrimaryDevice
  <1> DEFINE flagged(i) == [m_devices[i] EXCEPT !.isPrimary = (m_devices[i].id = d)]
  <1>2. m_devices' = [i \in 1 .. Len(m_devices) |-> flagged(i)]
    BY <1>1 DEF SetPrimaryDevice
  <1>3. ASSUME NEW i \in 1 .. Len(m_devices)
        PROVE  flagged(i) \in Info /\ flagged(i).id = m_devices[i].id
    <2>1. m_devices[i] \in Info /\ (m_devices[i].id = d) \in BOOLEAN
      BY <1>1
    <2>2. QED
      BY <2>1, FlagInfo, Zenon
  <1> HIDE DEF flagged
  <1>4. /\ m_devices' \in Seq(Info) /\ DOMAIN m_devices' = DOMAIN m_devices
        /\ \A i \in DOMAIN m_devices : m_devices'[i] = flagged(i)
    BY <1>1, <1>2, <1>3
  <1>5. \A i \in DOMAIN m_devices : m_devices'[i].id = m_devices[i].id
    BY <1>1, <1>3, <1>4
  <1>6. Out'
    BY <1>1, <1>4, <1>5 DEF Inv, Out
  <1>7. QED
    BY <1>1, <1>4, <1>5, <1>6 DEF ListTypes

-----------------------------------------------------------------------------
\* The file

\* A save leaves whole contents behind only when they are its own.
LEMMA FileStepInv ==
  ASSUME Inv, FileStep
  PROVE  FileTypes' /\ FileIsLatest'
  <1>1. /\ saves \in 0 .. MaxSaves
        /\ file \in [data : Plain, whole : BOOLEAN]
        /\ saver \in [pc : {"idle", "open", "write"}, data : Plain]
        /\ latest \in Plain /\ loaded \in Plain
    BY DEF Inv, FileTypes
  <1>2. /\ file.whole => file.data = latest
        /\ saver.pc = "write" => latest = saver.data
    BY DEF Inv, FileIsLatest
  <1>3. Empty \in Plain /\ Idle \in [pc : {"idle", "open", "write"}, data : Plain]
    BY DEF Plain, Idle
  <1>4. ASSUME NEW x \in Plain, SaveToFile(x)
        PROVE  FileTypes' /\ FileIsLatest'
    <2>1. saver' = Idle \/ saver' = [pc |-> "open", data |-> x]
      BY <1>4 DEF SaveToFile
    <2>2. /\ saver' \in [pc : {"idle", "open", "write"}, data : Plain]
          /\ saver'.pc # "write"
      BY <1>3, <2>1 DEF Idle
    <2>3. saves' \in 0 .. MaxSaves
      BY <1>1, <1>4, StoreAssumption DEF SaveToFile
    <2>4. QED
      BY <1>1, <1>2, <1>4, <2>2, <2>3 DEF SaveToFile, FileTypes, FileIsLatest
  <1>5. CASE OpenFile
    <2>1. CASE saver' = Idle /\ UNCHANGED <<file, latest>>
      <3>1. saver'.pc # "write"
        BY <2>1 DEF Idle
      <3>2. QED
        BY <1>1, <1>2, <1>3, <1>5, <2>1, <3>1 DEF OpenFile, FileTypes, FileIsLatest
    <2>2. CASE /\ file' = Absent /\ latest' = saver.data
               /\ saver' = [saver EXCEPT !.pc = "write"]
      <3>1. file' \in [data : Plain, whole : BOOLEAN] /\ ~file'.whole
        BY <1>3, <2>2 DEF Absent
      <3>2. /\ saver' \in [pc : {"idle", "open", "write"}, data : Plain]
            /\ saver'.data = saver.data /\ saver.data \in Plain
        BY <1>1, <2>2
      <3>3. QED
        BY <1>1, <1>5, <2>2, <3>1, <3>2 DEF OpenFile, FileTypes, FileIsLatest
    <2>3. QED
      BY <1>5, <2>1, <2>2 DEF OpenFile
  <1>6. CASE WriteFile
    <2>1. /\ file' \in [data : Plain, whole : BOOLEAN]
          /\ file'.whole => file'.data = saver.data
      <3>1. CASE file' = Absent
        BY <1>3, <3>1 DEF Absent
      <3>2. ASSUME NEW w \in BOOLEAN, file' = [data |-> saver.data, whole |-> w]
            PROVE  /\ file' \in [data : Plain, whole : BOOLEAN]
                   /\ file'.data = saver.data
        BY <1>1, <3>2
      <3>3. QED
        BY <1>6, <3>1, <3>2 DEF WriteFile
    <2>2. saver' = Idle /\ saver'.pc # "write" /\ latest = saver.data
      BY <1>2, <1>6 DEF WriteFile, Idle
    <2>3. QED
      BY <1>1, <1>3, <1>6, <2>1, <2>2 DEF WriteFile, FileTypes, FileIsLatest
  <1>7. CASE LoadFromFile
    <2>1. loaded' \in Plain
      BY <1>1, <1>3, <1>7 DEF LoadFromFile, DecryptData
    <2>2. QED
      BY <1>1, <1>2, <1>7, <2>1 DEF LoadFromFile, FileTypes, FileIsLatest
  <1>8. QED
    BY <1>4, <1>5, <1>6, <1>7 DEF FileStep, Plain

\* A crash leaves an empty list, and of a save that was writing at most a
\* cut ciphertext.
LEMMA CrashInv ==
  ASSUME Inv, Crash
  PROVE  Inv'
  <1>1. /\ m_devices \in Seq(Info) /\ revoked \subseteq Ids
        /\ saves \in 0 .. MaxSaves
        /\ file \in [data : Plain, whole : BOOLEAN]
        /\ saver \in [pc : {"idle", "open", "write"}, data : Plain]
        /\ latest \in Plain
    BY DEF Inv, ListTypes, FileTypes
  <1>2. Empty \in Plain /\ Idle \in [pc : {"idle", "open", "write"}, data : Plain]
    BY DEF Plain, Idle
  <1>3. m_devices' = <<>> /\ m_devices' \in Seq(Info) /\ DOMAIN m_devices' = {}
    BY DEF Crash
  <1>4. revoked' \subseteq Ids
    <2>1. \A i \in DOMAIN m_devices : m_devices[i].id \in Ids
      <3>1. \A i \in DOMAIN m_devices : m_devices[i] \in Info
        BY <1>1
      <3>2. \A e \in Info : e.id \in Ids
        BY DEF Info
      <3>3. QED
        BY <3>1, <3>2
    <2>2. QED
      BY <1>1, <2>1 DEF Crash
  <1>5. ListTypes' /\ Out'
    BY <1>3, <1>4 DEF ListTypes, Out
  <1>6. /\ file' \in [data : Plain, whole : BOOLEAN]
        /\ file'.whole => file'.data = latest
    <2>1. CASE file' = file
      BY <1>1, <2>1 DEF Inv, FileIsLatest
    <2>2. CASE file' = [data |-> saver.data, whole |-> FALSE]
      BY <1>1, <2>2
    <2>3. QED
      BY <2>1, <2>2 DEF Crash
  <1>7. saver' = Idle /\ saver'.pc # "write" /\ loaded' = Empty /\ saves' = saves /\ latest' = latest
    BY DEF Crash, Idle
  <1>8. FileTypes' /\ FileIsLatest'
    BY <1>1, <1>2, <1>6, <1>7 DEF FileTypes, FileIsLatest
  <1>9. QED
    BY <1>5, <1>8 DEF Inv

-----------------------------------------------------------------------------
\* The store

\* An empty list and no file.
LEMMA InitInv == Init => Inv
  <1> SUFFICES ASSUME Init PROVE Inv
    OBVIOUS
  <1>1. ListTypes /\ Out
    BY DEF Init, ListTypes, Out
  <1>2. Empty \in Plain /\ Idle \in [pc : {"idle", "open", "write"}, data : Plain] /\ Idle.pc = "idle"
    BY DEF Plain, Idle
  <1>3. Absent \in [data : Plain, whole : BOOLEAN] /\ ~Absent.whole
    BY <1>2 DEF Absent
  <1>4. saves \in 0 .. MaxSaves
    BY StoreAssumption DEF Init
  <1>5. FileTypes /\ FileIsLatest
    BY <1>2, <1>3, <1>4 DEF Init, FileTypes, FileIsLatest
  <1>6. QED
    BY <1>1, <1>5 DEF Inv

\* Every operation of the list and of the file keeps the invariant.
LEMMA NextInv == Inv /\ [Next]_vars => Inv'
  <1> SUFFICES ASSUME Inv, [Next]_vars PROVE Inv'
    OBVIOUS
  <1>1. CASE UNCHANGED fileVars /\ ListTypes' /\ Out'
    BY <1>1 DEF Inv, FileTypes, FileIsLatest, fileVars
  <1>2. CASE UNCHANGED listVars /\ FileTypes' /\ FileIsLatest'
    BY <1>2 DEF Inv, ListTypes, Out, listVars
  <1>3. CASE ListStep /\ UNCHANGED fileVars
    <2>1. ListTypes' /\ Out'
      BY <1>3, RegisterInv, RevokeInv, SetPrimaryInv DEF ListStep
    <2>2. QED
      BY <1>1, <1>3, <2>1
  <1>4. CASE FileStep /\ UNCHANGED listVars
    BY <1>2, <1>4, FileStepInv
  <1>5. CASE Crash
    BY <1>5, CrashInv
  <1>6. CASE UNCHANGED vars
    <2>1. UNCHANGED fileVars /\ ListTypes' /\ Out'
      BY <1>6 DEF vars, fileVars, Inv, ListTypes, Out
    <2>2. QED
      BY <1>1, <2>1
  <1>7. QED
    BY <1>3, <1>4, <1>5, <1>6 DEF Next

\* The variables keep their types and no device is listed twice, whatever is
\* registered, revoked and made primary in whatever order.
THEOREM StoreTypeCorrect == Spec => []TypeOK
  <1>1. Inv => TypeOK
    BY DEF Inv, ListTypes, FileTypes, TypeOK, Plain
  <1>2. QED
    BY InitInv, NextInv, <1>1, PTL DEF Spec

\* GetPublicKeyHandle returns NULL for a revoked device until RegisterDevice
\* is called for it, after any operations and any crash.
THEOREM RevokedIsOutAlways == Spec => []RevokedIsOut
  <1>1. Inv => RevokedIsOut
    BY DEF Inv, Out, RevokedIsOut, GetPublicKeyHandle, GetDevice, Positions
  <1>2. QED
    BY InitInv, NextInv, <1>1, PTL DEF Spec

\* LoadFromFile returns the plaintext of the save that last truncated the
\* file or fails, wherever crashes stopped earlier saves.
THEOREM LoadIsLatestOrNothingAlways == Spec => LoadIsLatestOrNothing
  <1>1. Inv /\ [Next]_vars => [loaded' # loaded => loaded' \in {latest, Empty}]_vars
    <2> SUFFICES ASSUME Inv, Next, loaded' # loaded
                 PROVE  loaded' \in {latest, Empty}
      OBVIOUS
    <2>1. CASE Crash
      BY <2>1 DEF Crash
    <2>2. CASE LoadFromFile
      BY <2>2 DEF LoadFromFile, DecryptData, Inv, FileIsLatest
    <2>3. QED
      BY <2>1, <2>2 DEF Next, ListStep, FileStep, fileVars, SaveToFile, OpenFile, WriteFile
  <1>2. QED
    BY InitInv, NextInv, <1>1, PTL DEF Spec, LoadIsLatestOrNothing

=============================================================================
