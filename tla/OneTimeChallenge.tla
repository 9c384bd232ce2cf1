-------------------------- MODULE OneTimeChallenge --------------------------
(***************************************************************************)
(* What the agent promises its callers about unlock requests: a session is *)
(* open to at most one device at a time; it is granted only while open,    *)
(* and being granted, consumed or lapsed closes it.                        *)
(***************************************************************************)
EXTENDS Naturals

CONSTANTS Sessions, Devices, Nobody

VARIABLES
  openTo,       \* session -> the device whose answer is awaited, or Nobody
  granted       \* session -> how often an unlock was granted

vars == <<openTo, granted>>

Init ==
  /\ openTo = [s \in Sessions |-> Nobody]
  /\ granted = [s \in Sessions |-> 0]

Issue(s, d) ==
  /\ openTo' = [openTo EXCEPT ![s] = d]
  /\ UNCHANGED granted

\* Sessions close without a grant: they lapse, or are consumed by hand.
Close(S) ==
  /\ \A s \in S : openTo[s] # Nobody
  /\ openTo' = [s \in Sessions |-> IF s \in S THEN Nobody ELSE openTo[s]]
  /\ UNCHANGED granted

Grant(s) ==
  /\ openTo[s] # Nobody
  /\ openTo' = [openTo EXCEPT ![s] = Nobody]
  /\ granted' = [granted EXCEPT ![s] = @ + 1]

Next ==
  \/ \E s \in Sessions, d \in Devices : Issue(s, d)
  \/ \E S \in SUBSET Sessions : Close(S)
  \/ \E s \in Sessions : Grant(s)

Spec == Init /\ [][Next]_vars

=============================================================================
