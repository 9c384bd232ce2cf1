--------------------------- MODULE ConfirmedUnlock ---------------------------
(***************************************************************************)
(* What agent and phone together promise the owner of the PC: it unlocks   *)
(* for a request that it has made itself and that the user of the phone    *)
(* had confirmed when the PC took the answer and read its clock, which did *)
(* not call the request late.  The clock may be set, so a late request may *)
(* be on time again, and the unlock comes some time after the reading.     *)
(***************************************************************************)
CONSTANT Requests

VARIABLES
  asked,        \* the requests the PC has made
  confirmed,    \* those the user has confirmed, other PCs' among them
  late,         \* those the PC's clock now calls overdue
  judging,      \* the one whose answer is being judged, if it came in time
  unlocked      \* those it has unlocked for

vars == <<asked, confirmed, late, judging, unlocked>>

Init == asked = {} /\ confirmed = {} /\ late = {} /\ judging = {} /\ unlocked = {}

Ask(r) ==
  /\ r \notin asked
  /\ asked' = asked \cup {r}
  /\ UNCHANGED <<confirmed, late, judging, unlocked>>

Confirm(r) ==
  /\ confirmed' = confirmed \cup {r}
  /\ UNCHANGED <<asked, late, judging, unlocked>>

\* The clock moves, or is set.
Tick(L) ==
  /\ L \subseteq asked
  /\ late' = L
  /\ UNCHANGED <<asked, confirmed, judging, unlocked>>

\* An answer is taken that names r, and the clock is read.
Judge(r) ==
  /\ judging = {} /\ r \in (asked \cap confirmed) \ late
  /\ judging' = {r}
  /\ UNCHANGED <<asked, confirmed, late, unlocked>>

\* The answer fails a check.
Refuse ==
  /\ judging' = {}
  /\ UNCHANGED <<asked, confirmed, late, unlocked>>

Unlock(r) ==
  /\ r \in judging
  /\ judging' = {}
  /\ unlocked' = unlocked \cup {r}
  /\ UNCHANGED <<asked, confirmed, late>>

Next ==
  \/ \E r \in Requests : Ask(r) \/ Confirm(r) \/ Judge(r) \/ Unlock(r)
  \/ \E L \in SUBSET Requests : Tick(L)
  \/ Refuse

Spec == Init /\ [][Next]_vars

=============================================================================
