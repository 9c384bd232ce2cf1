--------------------------- MODULE DeviceRegistry ---------------------------
(***************************************************************************)
(* The device registry of the agent (windows/agent/DeviceRegistry.cpp):    *)
(* device id -> CNG key handle.  A handle is an address: a destroyed one   *)
(* may be handed out again by a later import.                              *)
(***************************************************************************)
EXTENDS Protocol

CONSTANTS
  Handles,      \* BCRYPT_KEY_HANDLE values CNG can return
  NullHandle    \* NULL, and "no entry in m_devices"

VARIABLES
  devices,      \* m_devices: device -> hPublicKey
  keyOf         \* CNG: handle -> imported key, NoKey when not alive

ASSUME NullHandleAssumption == NullHandle \notin Handles

registryVars == <<devices, keyOf>>

RegistryTypeOK ==
  /\ devices \in [Devices -> Handles \cup {NullHandle}]
  /\ keyOf \in [Handles -> Keys \cup {NoKey}]

RegistryInit ==
  /\ devices = [d \in Devices |-> NullHandle]
  /\ keyOf = [h \in Handles |-> NoKey]

\* BCryptImportKeyPair returns some handle that is not alive.
FreeHandles == {h \in Handles : keyOf[h] = NoKey}

\* Mutant: the replaced handle is not destroyed.
RegisterLeaking(d, k, h) ==
  /\ h \in FreeHandles
  /\ keyOf' = [keyOf EXCEPT ![h] = k]
  /\ devices' = [devices EXCEPT ![d] = h]

\* DeviceRegistry::RegisterDevice and RegisterDeviceDer: the new key is
\* imported into h, then the handle the entry held is destroyed.
Register(d, k, h) ==
  /\ h \in FreeHandles
  /\ keyOf' = [x \in Handles |-> IF x = h THEN k
                                 ELSE IF x = devices[d] THEN NoKey ELSE keyOf[x]]
  /\ devices' = [devices EXCEPT ![d] = h]

\* DeviceRegistry::UnregisterDevice of a device that is registered.
Unregister(d) ==
  /\ devices[d] # NullHandle
  /\ keyOf' = [keyOf EXCEPT ![devices[d]] = NoKey]
  /\ devices' = [devices EXCEPT ![d] = NullHandle]

\* DeviceRegistry::GetDevicePublicKey: isEnabled is never cleared, so an
\* entry is all it takes.  The handle outlives the lock.
GetDevicePublicKey(d) == devices[d]

=============================================================================
