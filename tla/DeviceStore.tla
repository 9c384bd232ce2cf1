----------------------------- MODULE DeviceStore -----------------------------
(***************************************************************************)
(* The list of paired phones (windows/agent/MultiDeviceManager.cpp) and    *)
(* the encrypted file (windows/agent/DpapiStorage.cpp).  The list is kept  *)
(* in memory only: SaveStore encrypts it and drops the result, LoadStore   *)
(* reads nothing.  The file is written by whoever calls SaveToFile, and a  *)
(* crash can come between any two of its steps.                            *)
(***************************************************************************)
EXTENDS Naturals, Sequences, SequencesExt

CONSTANTS
  Ids,          \* device ids
  PublicKeys,   \* raw public keys
  NoKeyBytes,   \* an empty rawPublicKey, and the NULL handle
  Data,         \* plaintexts that are not empty
  Empty,        \* the empty plaintext
  MaxSaves      \* bound: calls of SaveToFile

ASSUME StoreAssumption == NoKeyBytes \notin PublicKeys /\ Empty \notin Data /\ MaxSaves \in Nat

Info == [id : Ids, key : PublicKeys \cup {NoKeyBytes}, isPrimary : BOOLEAN]

\* On disk there is no byte, or the ciphertext of a plaintext, whole or cut.
Absent == [data |-> Empty, whole |-> FALSE]

VARIABLES
  m_devices,    \* the list
  revoked,      \* history: ids revoked and not registered since
  file,         \* what is on disk
  saver,        \* [pc, data]: SaveToFile
  saves,        \* calls of SaveToFile so far
  latest,       \* history: the plaintext of the save that last touched the file
  loaded        \* what the last LoadFromFile returned; Empty for false

listVars == <<m_devices, revoked>>
fileVars == <<file, saver, saves, latest, loaded>>
vars == <<m_devices, revoked, file, saver, saves, latest, loaded>>

Idle == [pc |-> "idle", data |-> Empty]

Init ==
  /\ m_devices = <<>> /\ revoked = {}
  /\ file = Absent /\ saver = Idle /\ saves = 0 /\ latest = Empty /\ loaded = Empty

-----------------------------------------------------------------------------
\* The list.  Each operation ends in SaveStore, whose result it returns and
\* which leaves the list alone.

\* EncryptData refuses an empty plaintext; CryptProtectData may fail.
EncryptData(plaintextIsEmpty) == IF plaintextIsEmpty THEN {FALSE} ELSE BOOLEAN
SaveStore(list) == EncryptData(list = <<>>)

Positions(d) == {i \in DOMAIN m_devices : m_devices[i].id = d}
Others(d) == DOMAIN m_devices \ Positions(d)

\* Mutant: a device that is known already is added once more.
RegisterAppends(info) ==
  /\ m_devices' = Append(m_devices, info)
  /\ revoked' = revoked \ {info.id}

RegisterDevice(info) ==
  /\ m_devices' = IF Positions(info.id) = {} THEN Append(m_devices, info)
                  ELSE [m_devices EXCEPT ![Min(Positions(info.id))] = info]
  /\ revoked' = revoked \ {info.id}

\* Mutant: the device stays when the shorter list cannot be saved.
RevokeIfSaved(d) ==
  LET rest == SelectSeq(m_devices, LAMBDA e : e.id # d)
  IN  \E ok \in SaveStore(rest) :
        /\ m_devices' = IF ok THEN rest ELSE m_devices
        /\ revoked' = revoked \cup {d}

\* std::remove_if and erase: every entry with the id goes, the others stay in
\* the order they had.  For the last entry SaveStore, and so RevokeDevice,
\* returns false; the entry is gone all the same.
RevokeDevice(d) ==
  /\ \E kept \in [1 .. Cardinality(Others(d)) -> Others(d)] :
       /\ \A i, j \in DOMAIN kept : i < j => kept[i] < kept[j]
       /\ m_devices' = [i \in DOMAIN kept |-> m_devices[kept[i]]]
  /\ revoked' = revoked \cup {d}

\* Every flag is written, though false is returned for an unknown id.
SetPrimaryDevice(d) ==
  /\ m_devices' = [i \in DOMAIN m_devices |->
                     [m_devices[i] EXCEPT !.isPrimary = (m_devices[i].id = d)]]
  /\ UNCHANGED revoked

\* GetDevice: the first entry with the id, if there is one.
GetDevice(d) == IF Positions(d) = {} THEN {} ELSE {m_devices[Min(Positions(d))]}

\* GetPublicKeyHandle: the key that is imported, or NULL.
GetPublicKeyHandle(d) ==
  IF GetDevice(d) = {} THEN NoKeyBytes ELSE (CHOOSE e \in GetDevice(d) : TRUE).key

-----------------------------------------------------------------------------
\* The file

\* SaveToFile: nothing is touched when the plaintext cannot be encrypted.
SaveToFile(data) ==
  /\ saver.pc = "idle" /\ saves < MaxSaves
  /\ saves' = saves + 1
  /\ \E ok \in EncryptData(data = Empty) :
       saver' = IF ok THEN [pc |-> "open", data |-> data] ELSE Idle
  /\ UNCHANGED <<file, latest, loaded>>

\* Mutant: the old contents are written over instead of cut off first.
OpenKeeps ==
  /\ saver.pc = "open"
  /\ saver' = [saver EXCEPT !.pc = "write"] /\ latest' = saver.data
  /\ UNCHANGED <<file, saves, loaded>>

\* std::ofstream truncates what is there; or the file cannot be opened.
OpenFile ==
  /\ saver.pc = "open"
  /\ \/ /\ file' = Absent /\ latest' = saver.data
        /\ saver' = [saver EXCEPT !.pc = "write"]
     \/ saver' = Idle /\ UNCHANGED <<file, latest>>
  /\ UNCHANGED <<saves, loaded>>

\* Bytes reach the disk, all of them or a part; what good() said of the write
\* before the stream was flushed does not tell which.
WriteFile ==
  /\ saver.pc = "write"
  /\ file' \in {Absent} \cup {[data |-> saver.data, whole |-> w] : w \in BOOLEAN}
  /\ saver' = Idle
  /\ UNCHANGED <<saves, latest, loaded>>

\* DecryptData: CryptUnprotectData refuses a ciphertext that is not whole.
DecryptData(blob) == IF blob.whole THEN blob.data ELSE Empty

\* LoadFromFile, which may run while another thread saves.
LoadFromFile ==
  /\ loaded' = DecryptData(file)
  /\ UNCHANGED <<file, saver, saves, latest>>

\* The process ends where it is, and comes back with LoadStore's empty list.
Crash ==
  /\ m_devices' = <<>> /\ revoked' = revoked \cup {m_devices[i].id : i \in DOMAIN m_devices}
  /\ saver' = Idle /\ loaded' = Empty
  /\ IF saver.pc = "write" THEN \/ UNCHANGED file
                                \/ file' = [data |-> saver.data, whole |-> FALSE]
     ELSE UNCHANGED file
  /\ UNCHANGED <<saves, latest>>

ListStep ==
  \/ \E info \in Info : RegisterDevice(info)
  \/ \E d \in Ids : RevokeDevice(d) \/ SetPrimaryDevice(d)

FileStep == (\E x \in Data \cup {Empty} : SaveToFile(x)) \/ OpenFile \/ WriteFile \/ LoadFromFile

Next == (ListStep /\ UNCHANGED fileVars) \/ (FileStep /\ UNCHANGED listVars) \/ Crash

Spec == Init /\ [][Next]_vars

-----------------------------------------------------------------------------
\* Properties

\* The variables have their types, and no device is listed twice, so that
\* revoking it or looking it up concerns one entry (RegisterDevice).
TypeOK ==
  /\ m_devices \in Seq(Info)
  /\ \A i, j \in DOMAIN m_devices : m_devices[i].id = m_devices[j].id => i = j
  /\ revoked \subseteq Ids /\ saves \in 0 .. MaxSaves
  /\ file \in [data : Data \cup {Empty}, whole : BOOLEAN]
  /\ saver \in [pc : {"idle", "open", "write"}, data : Data \cup {Empty}]
  /\ {latest, loaded} \subseteq Data \cup {Empty}

\* MultiDeviceManager gives no key for a revoked device until it is registered
\* again, whether or not RevokeDevice called itself successful, and no setting
\* of a primary and no registration of another device brings it back.  This is
\* about its list: DeviceRegistry and the file are not told of a revocation.
RevokedIsOut == \A d \in revoked : GetPublicKeyHandle(d) = NoKeyBytes

\* A load returns the plaintext of the save that last touched the file or
\* nothing at all: never an older one, wherever a crash or a full disk
\* stopped a save.
LoadIsLatestOrNothing == [][loaded' # loaded => loaded' \in {latest, Empty}]_vars

=============================================================================
