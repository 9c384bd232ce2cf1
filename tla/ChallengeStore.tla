--------------------------- MODULE ChallengeStore ---------------------------
(***************************************************************************)
(* The challenge store of the agent (windows/agent/ChallengeStore.cpp):    *)
(* session id -> challenge record, every operation under one mutex and     *)
(* therefore one atomic step of whoever calls it.  An entry is overwritten *)
(* by AddChallenge and marked, but never erased.                           *)
(***************************************************************************)
EXTENDS Protocol

CONSTANTS
  TTL,          \* DEFAULT_CHALLENGE_TTL_MS, in clock ticks
  MaxTime,      \* bound: the last reading of the clock that is explored
  NoRecord      \* m_store has no entry for a session

VARIABLE store  \* m_store

ASSUME TimeAssumption == TTL \in Nat /\ MaxTime \in Nat

Time == 0 .. MaxTime

\* The creation timestamp is expires - TTL and is never read.
ChallengeRecord ==
  [device : Devices, pc : PCs, challenge : Challenges, expires : 0 .. (MaxTime + TTL),
   state : {"OUTSTANDING", "CONSUMED", "EXPIRED"}]

ASSUME NoRecordAssumption == NoRecord \notin ChallengeRecord \cup Devices

StoreTypeOK == store \in [Sessions -> ChallengeRecord \cup {NoRecord}]

StoreInit == store = [s \in Sessions |-> NoRecord]

StateIs(s, st) == store[s] # NoRecord /\ store[s].state = st

\* Mutant: only the mark counts, the timestamp is not compared.
LapsedByMark(rec, t) == rec.state = "EXPIRED"

Lapsed(rec, t) == rec.state = "EXPIRED" \/ t > rec.expires

\* Mutant: the CONSUMED test is missing.
ValidateReusable(session, device, pc, challenge, t) ==
  LET rec == store[session]
  IN  IF rec = NoRecord           THEN "CHALLENGE_NOT_FOUND"
      ELSE IF Lapsed(rec, t)      THEN "CHALLENGE_EXPIRED"
      ELSE IF rec.device # device THEN "DEVICE_MISMATCH"
      ELSE "SUCCESS"

\* ChallengeStore::ValidateChallenge: the checks in the order of the code.
\* The same chain opens ConsumeChallenge and ValidateAndConsumeChallenge.
ValidateChallenge(session, device, pc, challenge, t) ==
  LET rec == store[session]
  IN  IF rec = NoRecord              THEN "CHALLENGE_NOT_FOUND"
      ELSE IF rec.state = "CONSUMED" THEN "CHALLENGE_ALREADY_CONSUMED"
      ELSE IF Lapsed(rec, t)         THEN "CHALLENGE_EXPIRED"
      ELSE IF rec.device # device    THEN "DEVICE_MISMATCH"
      ELSE IF rec.pc # pc            THEN "PC_MISMATCH"
      ELSE IF rec.challenge # challenge THEN "CHALLENGE_NOT_FOUND"
      ELSE "SUCCESS"

\* Mutant: the record is copied, and the copy is marked.
MarkCopy(s, st) == UNCHANGED store

Mark(s, st) == store' = [store EXCEPT ![s].state = st]

AddChallenge(s, rec) == store' = [store EXCEPT ![s] = rec]

\* ChallengeStore::ValidateAndConsumeChallenge, whose body ConsumeChallenge
\* repeats: err is the code returned.
ValidateAndConsumeChallenge(session, device, pc, challenge, t, err) ==
  /\ err = ValidateChallenge(session, device, pc, challenge, t)
  /\ CASE err = "SUCCESS"           -> Mark(session, "CONSUMED")
       [] err = "CHALLENGE_EXPIRED" -> Mark(session, "EXPIRED")
       [] OTHER                     -> UNCHANGED store

\* Mutant: the OUTSTANDING test is missing.
ExpireAny(t) ==
  store' = [s \in Sessions |->
              IF store[s] # NoRecord /\ t > store[s].expires
              THEN [store[s] EXCEPT !.state = "EXPIRED"]
              ELSE store[s]]

\* ChallengeStore::ExpireChallenges: every overdue outstanding record is
\* marked in one locked pass.
ExpireChallenges(t) ==
  store' = [s \in Sessions |->
              IF StateIs(s, "OUTSTANDING") /\ t > store[s].expires
              THEN [store[s] EXCEPT !.state = "EXPIRED"]
              ELSE store[s]]

=============================================================================
