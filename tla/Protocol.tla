------------------------------ MODULE Protocol ------------------------------
(***************************************************************************)
(* The identities and codes that the Windows components share              *)
(* (windows/common/Protocol.h).  Sessions, devices, PCs, challenge nonces  *)
(* and keys are opaque: the code only ever compares them for equality.     *)
(***************************************************************************)
EXTENDS Naturals

CONSTANTS
  Sessions,     \* 16-byte session ids
  Devices,      \* 16-byte device ids
  PCs,          \* 16-byte host ids
  Challenges,   \* 32-byte nonces
  Keys,         \* EC P-256 key pairs, named by the public half
  NoKey         \* no key: a destroyed handle, or bytes no key signed

ASSUME NoKeyAssumption == NoKey \notin Keys

\* What AuthPayload::Deserialize and the length test before it can reject.
ParseErrors ==
  {"INVALID_REQUEST", "INVALID_PROTOCOL_VERSION", "INVALID_ALGORITHM"}

ErrorCode ==
  ParseErrors \cup
  {"SUCCESS", "UNKNOWN_DEVICE", "INVALID_SIGNATURE", "CHALLENGE_NOT_FOUND",
   "CHALLENGE_EXPIRED", "CHALLENGE_ALREADY_CONSUMED", "DEVICE_MISMATCH",
   "PC_MISMATCH"}

\* The canonical payload P, without the fields Deserialize fixes (domain,
\* version, algorithm) and without the expiration, which nothing reads.
AuthPayload == [session : Sessions, device : Devices, pc : PCs, challenge : Challenges]

=============================================================================
