---------------------------- MODULE PhonePairing ----------------------------
(***************************************************************************)
(* One phone connecting to, pairing with and losing one Server: the        *)
(* ConnectionRepository and the parts of MainActivity and                  *)
(* ServerSessionStore it works with, composed with the Server of Pairing.  *)
(*                                                                         *)
(* A flow is a coroutine of the main thread: testConnection, restoreSession*)
(* or the resolution of a refused control page; it gives the thread up at  *)
(* each request, and a request with its answer is one step.  The request   *)
(* that completes a pairing is a job of its own, served and answered apart.*)
(* The other phones' requests do not matter to this one.                   *)
(***************************************************************************)
EXTENDS Pairing

CONSTANTS
    Flows,          \* coroutines that connect, and the dialogs they open
    Kinds,          \* the mishaps of an instance, of AllKinds
    MaxMishaps,     \* bound: mishaps, failing saves of the Server included
    MaxOps,         \* bound: operations of a repository
    MaxPages,       \* bound: re-creations of the activity and deaths of the process
    MaxRevokes      \* bound: revocations at the Server

(* A request is lost, an answer is lost, the answer of a completion comes  *)
(* after its timeout, a commit of the preferences fails, the activity is   *)
(* stopped, it is re-created, the process dies.                            *)
AllKinds == {"request", "answer", "late", "flash", "stop", "recreate", "death"}

ASSUME PhoneAssumption ==
    /\ Kinds \subseteq AllKinds
    /\ {MaxMishaps, MaxOps, MaxPages, MaxRevokes} \subseteq Nat
    /\ None \notin Flows
    /\ None \notin [op : Nat, pairing : Pairings]

VARIABLES
    saved,      \* the key of the session, as the process reads it, or None
    flash,      \* the same on disk
    operation,  \* ConnectionRepository.operation
    pending,    \* ConnectionRepository.pending
    flow,       \* the coroutines: where each waits and what it holds
    dialog,     \* the pairing dialog of each flow
    front,      \* the dialog pairingDialogGeneration names, or None
    job,        \* the completion each dialog has in flight
    ui,         \* the screen: main page, control page, its terminal error
    page,       \* number of the activity instance
    mishaps, revokes

phone_vars == <<saved, flash, operation, pending, flow, dialog, front, job, ui, page, mishaps, revokes>>
server_vars == <<sessions, store_vars, now, faults, restarts, history>>
all_vars == <<server_vars, phone_vars>>

Idle == [pc |-> "idle", kind |-> "none", op |-> 0, key |-> None]
NoJob == [pc |-> "idle", pairing |-> None, op |-> 0, page |-> 0, key |-> None]

PhoneInit ==
    /\ Init
    /\ saved = None /\ flash = None
    /\ operation = 0 /\ pending = None
    /\ flow = [f \in Flows |-> Idle]
    /\ dialog = [f \in Flows |-> "none"] /\ front = None
    /\ job = [f \in Flows |-> NoJob]
    /\ ui = "main" /\ page = 0 /\ mishaps = 0 /\ revokes = 0

Mishap(kind) ==
    /\ kind \in Kinds /\ mishaps + faults < MaxMishaps
    /\ mishaps' = mishaps + 1
Fine == UNCHANGED mishaps

(* commitRecords: backup, active, readback.  A failing commit of active    *)
(* has already changed what the process reads; the next commit that        *)
(* succeeds writes all of it.                                              *)
Saved(key) == saved' = key /\ flash' = key /\ Fine
SaveFailed(key) == Mishap("flash") /\ saved' \in {saved, key} /\ UNCHANGED flash
Unsaved == UNCHANGED <<saved, flash>>

(* What the user can reach: a dialog on the screen covers the page.        *)
Uncovered == \A f \in Flows : dialog[f] = "none"
Free(f) == flow[f].pc = "idle" /\ dialog[f] = "none" /\ job[f].pc = "idle"

At(f, pc) == flow' = [flow EXCEPT ![f].pc = pc]
Ends(f) == flow' = [flow EXCEPT ![f] = Idle]

(* A flow that the user did not cancel or replace meanwhile.               *)
AnyOperation(f) == TRUE
StillWanted(f) == flow[f].kind = "test" => flow[f].op = operation

-----------------------------------------------------------------------------
(* Starting *)

(* testConnection: a new operation, and no pairing to complete any more.   *)
Test(f) ==
    /\ ui = "main" /\ Uncovered /\ Free(f) /\ operation < MaxOps
    /\ operation' = operation + 1
    /\ pending' = None
    /\ flow' = [flow EXCEPT ![f] = [Idle EXCEPT !.pc = "identity", !.kind = "test", !.op = operation + 1]]
    /\ UNCHANGED <<server_vars, saved, flash, dialog, front, job, ui, page, mishaps, revokes>>

(* handleAuthorizationFailure: a request of the control page was refused.  *)
Refused(f) ==
    /\ ui = "control" /\ Free(f) /\ saved \notin DOMAIN store
    /\ \A g \in Flows : flow[g].kind # "control"
    /\ flow' = [flow EXCEPT ![f] = [Idle EXCEPT !.pc = "resolve", !.kind = "control"]]
    /\ UNCHANGED <<server_vars, saved, flash, operation, pending, dialog, front, job, ui, page, mishaps, revokes>>

(* returnToPairing cancels the control page's coroutine.                    *)
Return ==
    /\ ui # "main" /\ Uncovered
    /\ ui' = "main"
    /\ flow' = [f \in Flows |-> IF flow[f].kind = "control" THEN Idle ELSE flow[f]]
    /\ UNCHANGED <<server_vars, saved, flash, operation, pending, dialog, front, job, page, mishaps, revokes>>

-----------------------------------------------------------------------------
(* A flow goes on *)

NeverUsable == FALSE
Usable == saved # None

(* The identity answers, or it does not.  A session with a readable key is *)
(* tried before a pairing is asked for.                                    *)
Identity(f) ==
    /\ flow[f].pc = "identity"
    /\ \/ Mishap("request") /\ Ends(f)
       \/ /\ Fine
          /\ IF ~StillWanted(f) THEN Ends(f)
             ELSE IF Usable THEN flow' = [flow EXCEPT ![f].pc = "actions", ![f].key = saved]
             ELSE IF flow[f].kind = "test" THEN At(f, "create") ELSE Ends(f)
    /\ UNCHANGED <<server_vars, saved, flash, operation, pending, dialog, front, job, ui, page, revokes>>

(* Where a flow goes when its session could not be tried: testConnection   *)
(* asks for a pairing, restoreSession stays on the main page.              *)
NotTried(f) ==
    IF StillWanted(f) /\ flow[f].kind = "test" THEN At(f, "create") ELSE Ends(f)

(* listActions with the session's key: authorised, refused, failed at the  *)
(* Server (a last_seen that cannot be saved) or lost.                      *)
Actions(f) ==
    /\ flow[f].pc = "actions"
    /\ \/ /\ Mishap("request") \/ Mishap("answer")
          /\ NotTried(f)
          /\ UNCHANGED <<server_vars, saved, flash, ui>>
       \/ /\ Request(flow[f].key, FALSE) /\ Fine
          /\ NotTried(f)
          /\ UNCHANGED <<saved, flash, ui>>
       \/ /\ Request(flow[f].key, TRUE)
          /\ Ends(f)
          /\ IF StillWanted(f)
             THEN /\ ui' = "control"
                  /\ IF saved = None THEN Unsaved /\ Fine    \* recordAuthorized: no record left
                     ELSE Saved(saved) \/ SaveFailed(saved)
             ELSE UNCHANGED ui /\ Unsaved /\ Fine
       \/ /\ flow[f].key \notin DOMAIN store /\ Fine
          /\ IF StillWanted(f) THEN At(f, "resolve") ELSE Ends(f)
          /\ UNCHANGED <<server_vars, saved, flash, ui>>
    /\ UNCHANGED <<operation, pending, dialog, front, job, page, revokes>>

(* Where a flow goes once the refusal is confirmed, and when it is not.    *)
Confirmed(f) ==
    /\ IF flow[f].kind = "test" THEN At(f, "create") ELSE Ends(f)
    /\ ui' = IF flow[f].kind = "control" THEN "error" ELSE ui
Unconfirmed(f) ==
    /\ Ends(f)
    /\ ui' = IF flow[f].kind = "control" THEN "error" ELSE ui

(* resolveAuthorizationFailure: the identity is read again, then the       *)
(* session of that Server is removed.                                      *)
Resolve(f) ==
    /\ flow[f].pc = "resolve"
    /\ \/ Mishap("request") /\ Unsaved /\ Unconfirmed(f)
       \/ saved = None /\ Unsaved /\ Fine /\ Confirmed(f)
       \/ saved # None /\ Saved(None) /\ Confirmed(f)
       \/ saved # None /\ SaveFailed(None) /\ Unconfirmed(f)
    /\ UNCHANGED <<server_vars, operation, pending, dialog, front, job, page, revokes>>

(* createPairing: lost, cancelled meanwhile (cancelPairing follows), or    *)
(* the request to complete and its dialog.                                 *)
CreatePairing(f) ==
    /\ flow[f].pc = "create"
    /\ \/ /\ Mishap("request") /\ Ends(f)
          /\ UNCHANGED <<server_vars, pending, dialog, front>>
       \/ /\ \E p \in Pairings : Create(p)
          /\ Mishap("answer") /\ Ends(f)
          /\ UNCHANGED <<pending, dialog, front>>
       \/ \E p \in Pairings :
          /\ Create(p) /\ Fine
          /\ IF StillWanted(f)
             THEN /\ pending' = [op |-> flow[f].op, pairing |-> p]
                  /\ dialog' = [dialog EXCEPT ![f] = "open"]
                  /\ front' = f
                  /\ Ends(f)
             ELSE /\ flow' = [flow EXCEPT ![f].pc = "cancel", ![f].key = p]
                  /\ UNCHANGED <<pending, dialog, front>>
    /\ UNCHANGED <<saved, flash, operation, job, ui, page, revokes>>

CancelPairing(f) ==
    /\ flow[f].pc = "cancel"
    /\ \/ Fine /\ Cancel(flow[f].key)
       \/ Fine /\ ~Live(sessions[flow[f].key]) /\ UNCHANGED server_vars
       \/ Mishap("request") /\ UNCHANGED server_vars
    /\ Ends(f)
    /\ UNCHANGED <<saved, flash, operation, pending, dialog, front, job, ui, page, revokes>>

-----------------------------------------------------------------------------
(* The pairing dialog and its completion *)

(* submitIfReady: the dialog in front sends the code, and takes no input   *)
(* until pair() returns.                                                   *)
Submit(f) ==
    /\ front = f /\ dialog[f] = "open" /\ job[f].pc = "idle"
    /\ pending # None /\ pending.op = operation
    /\ dialog' = [dialog EXCEPT ![f] = "submitting"]
    /\ job' = [job EXCEPT ![f] = [NoJob EXCEPT !.pc = "sent", !.pairing = pending.pairing,
                                              !.op = pending.op, !.page = page]]
    /\ UNCHANGED <<server_vars, saved, flash, operation, pending, flow, front, ui, page, mishaps, revokes>>

(* The Server's part: complete_pairing, and the key it issued if it did.   *)
Issued == IF born' = born THEN None ELSE CHOOSE k \in Keys : born'[k] # born[k]

Serve(f) ==
    /\ job[f].pc = "sent"
    /\ IF Live(sessions[job[f].pairing]) THEN Complete(job[f].pairing) ELSE UNCHANGED server_vars
    /\ job' = [job EXCEPT ![f].pc = "served", ![f].key = Issued]
    /\ UNCHANGED <<saved, flash, operation, pending, flow, dialog, front, ui, page, mishaps, revokes>>

(* pair() still belongs to the operation and the request it began with,    *)
(* and its dialog is still the one in front.                               *)
Current(f) ==
    /\ job[f].op = operation
    /\ pending # None /\ pending.pairing = job[f].pairing

Reopened(f) == dialog' = [dialog EXCEPT ![f] = "open"] /\ UNCHANGED front
Dismissed(f) == dialog' = [dialog EXCEPT ![f] = "none"] /\ front' = None

(* What pair() makes of its result, and the dialog of what pair() returns; *)
(* a dialog that is no longer in front is not touched.                     *)
Returns(f, paired) ==
    /\ job' = [job EXCEPT ![f] = NoJob]
    /\ IF job[f].page # page THEN UNCHANGED <<pending, dialog, front, ui>>
       ELSE /\ pending' = IF Current(f) /\ paired THEN None ELSE pending
            /\ IF front # f THEN UNCHANGED <<dialog, front, ui>>
               ELSE IF ~Current(f) THEN Dismissed(f) /\ UNCHANGED ui
               ELSE IF paired THEN Dismissed(f) /\ ui' = "control"
               ELSE Reopened(f) /\ UNCHANGED ui

(* saveNewCredential reads the session back before it says it is saved.    *)
Unchecked(committed) == TRUE
Verified(committed) == committed

(* The answer in time: the key is saved and then the dialog told, or the   *)
(* refusal is.                                                             *)
Answer(f) ==
    /\ job[f].pc = "served"
    /\ \/ job[f].key = None /\ Unsaved /\ Fine /\ Returns(f, FALSE)
       \/ job[f].key # None /\ Saved(job[f].key) /\ Returns(f, Verified(TRUE))
       \/ job[f].key # None /\ SaveFailed(job[f].key) /\ Returns(f, Verified(FALSE))
    /\ UNCHANGED <<server_vars, operation, flow, page, revokes>>

(* The request or its answer is lost with an error of the network.         *)
Fails(f) ==
    /\ \/ job[f].pc = "sent" /\ Mishap("request")
       \/ job[f].pc = "served" /\ Mishap("answer")
    /\ Unsaved /\ Returns(f, FALSE)
    /\ UNCHANGED <<server_vars, operation, flow, page, revokes>>

(* PAIRING_COMMIT_TIMEOUT_MILLIS: withTimeout throws a cancellation, which *)
(* ends the coroutine that would have told the dialog.                     *)
TimesOut(f) ==
    /\ job[f].pc \in {"sent", "served"} /\ Mishap("late")
    /\ job' = [job EXCEPT ![f] = NoJob]
    /\ UNCHANGED <<server_vars, saved, flash, operation, pending, flow, dialog, front, ui, page, revokes>>

(* cancelCurrent *)
CancelCurrent == operation' = operation + 1 /\ pending' = None

(* The user closes a dialog that takes input.                              *)
Closable(f) == dialog[f] = "open"

Close(f) ==
    /\ Closable(f)
    /\ dialog' = [dialog EXCEPT ![f] = "none"]
    /\ IF front = f THEN CancelCurrent /\ front' = None ELSE UNCHANGED <<operation, pending, front>>
    /\ UNCHANGED <<server_vars, saved, flash, flow, job, ui, page, mishaps, revokes>>

-----------------------------------------------------------------------------
(* The rest of the phone's life, and the Server's *)

(* Self revocation on the control page: the Server, then the session.      *)
SelfRevoke ==
    /\ ui = "control" /\ Uncovered /\ saved # None
    /\ Revoke(saved, TRUE)
    /\ \/ Mishap("answer") /\ Unsaved /\ UNCHANGED ui
       \/ (Saved(None) \/ SaveFailed(None)) /\ ui' = "main"
    /\ UNCHANGED <<operation, pending, flow, dialog, front, job, page, revokes>>

(* onStop *)
Stop ==
    /\ Mishap("stop")
    /\ CancelCurrent /\ front' = None
    /\ UNCHANGED <<server_vars, saved, flash, flow, dialog, job, ui, page, revokes>>

(* A new activity with a repository of its own: the coroutines of the old  *)
(* one are cancelled, except a completion, which is NonCancellable; then   *)
(* restoreSession.                                                         *)
NewPage(f) ==
    /\ page < MaxPages /\ page' = page + 1
    /\ operation' = 0 /\ pending' = None
    /\ dialog' = [g \in Flows |-> "none"] /\ front' = None /\ ui' = "main"
    /\ flow' = [g \in Flows |->
                   IF g = f /\ saved' # None THEN [Idle EXCEPT !.pc = "identity", !.kind = "restore"]
                   ELSE Idle]
    /\ UNCHANGED <<server_vars, revokes>>

Recreate(f) ==
    /\ "recreate" \in Kinds /\ Fine
    /\ UNCHANGED <<saved, flash, job>>
    /\ NewPage(f)

Death(f) ==
    /\ "death" \in Kinds /\ Fine
    /\ saved' = flash /\ UNCHANGED flash
    /\ job' = [g \in Flows |-> NoJob]
    /\ NewPage(f)

(* Another manager of the devices revokes this phone; the Server restarts. *)
RevokedElsewhere ==
    /\ revokes < MaxRevokes /\ revokes' = revokes + 1
    /\ \E k \in Keys : Revoke(k, TRUE)
    /\ UNCHANGED <<saved, flash, operation, pending, flow, dialog, front, job, ui, page, mishaps>>

ServerRestarts == Restart /\ UNCHANGED phone_vars

(* The Server's own page lists the requests, which ends and drops them; the *)
(* clock.  A device's name is nothing the phone reads.                     *)
ServerActs == (List \/ Tick) /\ UNCHANGED phone_vars

PhoneNext ==
    \/ \E f \in Flows :
          \/ Test(f) \/ Refused(f) \/ Identity(f) \/ Actions(f) \/ Resolve(f)
          \/ CreatePairing(f) \/ CancelPairing(f)
          \/ Submit(f) \/ Serve(f) \/ Answer(f) \/ Fails(f) \/ TimesOut(f) \/ Close(f)
          \/ Recreate(f) \/ Death(f)
    \/ Return \/ SelfRevoke \/ Stop \/ RevokedElsewhere \/ ServerRestarts \/ ServerActs

PhoneSpec == PhoneInit /\ [][PhoneNext]_all_vars

(* The Server serves what reaches it and an answer that arrives is handled;*)
(* nothing else is promised, least of all what the user does.              *)
PhoneFairSpec ==
    /\ PhoneSpec
    /\ \A f \in Flows : WF_all_vars(Serve(f)) /\ WF_all_vars(Answer(f))

-----------------------------------------------------------------------------

PhoneTypeOK ==
    /\ {saved, flash} \subseteq Keys \cup {None}
    /\ operation \in Nat /\ page \in 0..MaxPages
    /\ pending \in {None} \cup [op : Nat, pairing : Pairings]
    /\ front \in Flows \cup {None}
    /\ \A f \in Flows :
         /\ flow[f].pc \in {"idle", "identity", "actions", "resolve", "create", "cancel"}
         /\ dialog[f] \in {"none", "open", "submitting"}
         /\ job[f].pc \in {"idle", "sent", "served"}
         /\ job[f].pc # "idle" /\ job[f].page = page => dialog[f] = "submitting"

(* A dialog in front always has a request its code can complete: an older  *)
(* operation that comes back late neither opens a dialog nor replaces what *)
(* the newer one waits for (ConnectionRepository's operation counter).     *)
DialogHasRequest == front # None => pending # None /\ pending.op = operation

(* "Only when the pairing succeeded and the session is safely saved does   *)
(* the phone enter the control page": when a completion opens it, the      *)
(* Server's key is the session on disk.                                    *)
PairedIsSaved ==
    [][\A f \in Flows :
          dialog[f] = "submitting" /\ dialog'[f] = "none" /\ ui' = "control" =>
              saved' = job[f].key /\ flash' = job[f].key]_all_vars

(* No ghost device: a device of the Server is the one the phone can use,   *)
(* or the answer that brings its key is on its way.                        *)
Ghosts == {k \in DOMAIN store :
              k # saved /\ \A f \in Flows : job[f].pc = "served" => job[f].key # k}
NoGhostAlways == Ghosts = {}

(* A session is removed although its key is valid.                         *)
RemovesValid == saved # None /\ saved' = None /\ saved \in DOMAIN store'

(* As long as nothing is lost, stopped or re-created and every save        *)
(* succeeds, no order of tests, completions, cancellations, revocations    *)
(* and restarts of the Server leaves a device behind; but a refusal that   *)
(* removes a newer session does (resolveAuthorizationFailure).             *)
NoGhost ==
    [][mishaps' = 0 /\ page' = 0 /\ faults' = 0 /\ ~RemovesValid =>
           Ghosts' \subseteq Ghosts]_all_vars

(* A session is removed only when its key is invalid: what was refused is  *)
(* what is removed.                                                        *)
RemovesOnlyInvalid == [][page' = page => ~RemovesValid]_all_vars

(* After a failure the user can correct the input: a dialog that sent a    *)
(* code takes input again or closes.                                       *)
DialogEnds == \A f \in Flows : dialog[f] = "submitting" ~> dialog[f] # "submitting"
=============================================================================
