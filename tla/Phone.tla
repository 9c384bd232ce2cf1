-------------------------------- MODULE Phone --------------------------------
(***************************************************************************)
(* The unlock flow of the phone app (engine/UnlockController.kt with       *)
(* BiometricSigner, KeyManager and MainActivity) on top of its transport.  *)
(* A request is checked on the thread of the receive loop and posted to    *)
(* the UI thread; there the prompt is shown, and when the user confirms    *)
(* the answer is signed and sent on whatever connection is current.        *)
(***************************************************************************)
EXTENDS PhoneTransport, Protocol

CONSTANTS
  DeviceId,     \* the id the app gives itself
  MaxKeys,      \* bound: keys generated over the life of the app
  NoRequest     \* no prompt is shown

ASSUME PhoneAssumption == DeviceId \in Devices /\ MaxKeys \in Nat \ {0}

VARIABLES
  uiQueue,      \* requests posted with runOnUiThread
  prompt,       \* [req, gen]: the request whose callback the prompt on screen has, and
                \* the key generation its CryptoObject was made with
  key,          \* [gen, valid]: the key under the alias, and whether it still signs
  confirmed     \* history: the requests the user confirmed

phoneVars == <<uiQueue, prompt, key, confirmed>>

\* The body of UNLOCK_REQ, without the creation time, which nothing reads.
UnlockRequest == [session : Sessions, pc : PCs, challenge : Challenges, expires : Nat]

NoPrompt == [req |-> NoRequest, gen |-> 0]

\* MainActivity.onCreate has made sure of a key.
PhoneInit ==
  /\ TransportInit
  /\ uiQueue = <<>> /\ prompt = NoPrompt
  /\ key = [gen |-> 1, valid |-> TRUE]
  /\ confirmed = {}

\* The UI thread is between two tasks, and the activity is there.
UIFree == snd.pc = "idle" /\ ~Busy(UI)
Alive == call[UI].pc = "new"

-----------------------------------------------------------------------------
\* handleUnlockRequest, up to runOnUiThread: the one look at the expiry.
Accepts(q, nowMs) == nowMs <= q.expires

\* onFrameReceived on the thread of receive loop t.
OnFrameReceived(t, nowMs) ==
  LET q == Head(inbound[rx[t].in])
  IN  /\ LoopReads(t, FALSE)
      /\ uiQueue' = IF Accepts(q, nowMs) THEN Append(uiQueue, q) ELSE uiQueue
      /\ UNCHANGED <<prompt, key, confirmed>>

\* The process is gone, and with it every thread, socket and pending task.
Died ==
  /\ isConnected' = FALSE /\ socket' = Null /\ inputStream' = Null /\ outputStream' = Null
  /\ open' = {} /\ snd' = Silent
  /\ call' = [t \in Threads |-> IF Busy(t) THEN [pc |-> "done", retry |-> FALSE] ELSE call[t]]
  /\ rx' = [t \in Taps |-> IF rx[t].pc = "none" THEN NoLoop ELSE [NoLoop EXCEPT !.pc = "done"]]
  /\ uiQueue' = <<>> /\ prompt' = NoPrompt
  /\ UNCHANGED <<peers, inbound, outbound, overlapped, key, confirmed>>

\* ProtocolEncoder.encode with the signature of key generation g.
Answer(q, g) ==
  [payload |-> [session |-> q.session, device |-> DeviceId, pc |-> q.pc,
                challenge |-> q.challenge],
   sig |-> g]

\* Mutant: the signature is made when the prompt is built, before the user
\* has confirmed anything.
ConfirmEarly ==
  /\ UIFree /\ uiQueue # <<>> /\ key.valid
  /\ uiQueue' = Tail(uiQueue)
  /\ SendFrame(Answer(Head(uiQueue), key.gen))
  /\ UNCHANGED <<members, wires, call, rx, overlapped, prompt, key, confirmed>>

\* The posted task: the prompt is shown.  While one is on screen a second
\* authenticate either hands it the new callback, the CryptoObject staying
\* that of the first, or is ignored.
ShowPrompt ==
  /\ UIFree /\ uiQueue # <<>> /\ key.valid
  /\ uiQueue' = Tail(uiQueue)
  /\ \/ Alive /\ prompt = NoPrompt /\ prompt' = [req |-> Head(uiQueue), gen |-> key.gen]
     \/ prompt # NoPrompt /\ prompt' \in {prompt, [prompt EXCEPT !.req = Head(uiQueue)]}
     \/ ~Alive /\ UNCHANGED prompt
  /\ UNCHANGED <<transportVars, key, confirmed>>

\* The same with a key that a new enrolment has invalidated: it is not found,
\* or initSign throws on the UI thread, where nothing catches it.
NoKeyToSign ==
  /\ UIFree /\ uiQueue # <<>> /\ ~key.valid
  /\ \/ uiQueue' = Tail(uiQueue) /\ UNCHANGED <<transportVars, prompt, key, confirmed>>
     \/ Died

\* onAuthenticationSucceeded: sign, then sendFrame; or sign throws, which a
\* key replaced in the meantime can cause.
Confirm ==
  /\ UIFree /\ prompt # NoPrompt
  /\ prompt' = NoPrompt
  /\ confirmed' = confirmed \cup {prompt.req}
  /\ \/ SendFrame(Answer(prompt.req, prompt.gen))
     \/ key # [gen |-> prompt.gen, valid |-> TRUE] /\ UNCHANGED snd
  /\ UNCHANGED <<members, wires, call, rx, overlapped, uiQueue, key>>

\* onAuthenticationError: cancelled, locked out, timed out.  A finger that is
\* not recognized (onAuthenticationFailed) leaves the prompt as it is.
Decline ==
  /\ UIFree /\ prompt # NoPrompt
  /\ prompt' = NoPrompt
  /\ UNCHANGED <<transportVars, uiQueue, key, confirmed>>

\* sendFrame has returned to onSuccess, which reports an unlock if it was sent,
\* to a callback that MainActivity never sets.
ReportSent ==
  /\ SendReturns
  /\ UNCHANGED <<members, wires, call, rx, overlapped, uiQueue, prompt, key, confirmed>>

\* "Re-generate Keystore Key": the alias is overwritten.
GenerateKey ==
  /\ UIFree /\ Alive /\ key.gen < MaxKeys
  /\ key' = [gen |-> key.gen + 1, valid |-> TRUE]
  /\ UNCHANGED <<transportVars, uiQueue, prompt, confirmed>>

\* The user enrols a finger: setInvalidatedByBiometricEnrollment.
Enrol ==
  /\ key.valid
  /\ key' = [key EXCEPT !.valid = FALSE]
  /\ UNCHANGED <<transportVars, uiQueue, prompt, confirmed>>

\* The activity is destroyed: the prompt goes with it.
OnDestroy ==
  /\ Stop
  /\ prompt' = NoPrompt
  /\ UNCHANGED <<uiQueue, key, confirmed>>

\* What the app does by itself.
PhoneRuns ==
  \/ /\ \/ CallRuns(UI) \/ SendRuns
        \/ \E t \in Taps : LoopReads(t, TRUE)
     /\ UNCHANGED phoneVars
  \/ ShowPrompt \/ NoKeyToSign \/ ReportSent

ThreadRuns(t) == (ConnectRuns(t) \/ LoopRuns(t)) /\ UNCHANGED phoneVars

\* What the user and the system do to it, confirming apart.
User ==
  \/ \E t \in Taps : StartConnection(t) /\ UNCHANGED phoneVars
  \/ Decline \/ GenerateKey \/ Enrol \/ OnDestroy \/ Died

PhoneTypeOK ==
  /\ TransportTypeOK
  /\ uiQueue \in Seq(UnlockRequest)
  /\ prompt.req \in UnlockRequest \cup {NoRequest} /\ prompt.gen \in 0 .. MaxKeys
  /\ key \in [gen : 1 .. MaxKeys, valid : BOOLEAN]
  /\ confirmed \subseteq UnlockRequest

=============================================================================
