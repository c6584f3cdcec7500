----------------------------- MODULE SellerCore -----------------------------
(***************************************************************************)
(* The delivery half of the keeper's ERC-8183 seller agent: notifyFunded,  *)
(* the background deliveries and the funded-job sweep of                   *)
(* services/keeper/agent/src/sellerCore.ts, with the doWorkAndSubmit that  *)
(* executor.ts overrides.                                                  *)
(*                                                                         *)
(* One JavaScript process runs every handler, so the code between two      *)
(* awaits is one step; what is interleaved are the awaits: the caller's    *)
(* pre-verification, any number of sweeps, and any number of deliveries.   *)
(* A delivery that is timed out is only forgotten, not stopped: it goes on *)
(* as a straggler beside the retry of the same job.                        *)
(***************************************************************************)
EXTENDS Naturals, FiniteSets

CONSTANTS
  Jobs,      \* job ids on the commerce contract
  Signed,    \* the jobs that carry the quote this agent signed
  Workable,  \* the jobs whose task the EquityMux API can turn into an output
  NoJob,     \* the job_id of a bare notification
  Callers,   \* request handlers that may be open at once (bound)
  Sweeps,    \* sweeps that may be open at once (bound)
  Slots,     \* deliveries of one job that may be open at once (bound)
  MaxFaults  \* faults of a behaviour: throws, timeouts, restarts (bound)

ASSUME SignedAssumption    == Signed \subseteq Jobs
ASSUME WorkableAssumption  == Workable \subseteq Jobs
ASSUME NoJobAssumption     == NoJob \notin Jobs
ASSUME MaxFaultsAssumption == MaxFaults \in Nat

Status  == {"open", "funded", "submitted", "expired"}
Verdict == {"ok", "transient", "permanent"}

(***************************************************************************)
(* A delivery awaits verifySignedJob ("verify"), jobSpec and the analysis  *)
(* ("work"), the gate of submitWorkflow ("submit"), its transaction        *)
(* ("wait") or, once it is on chain, the receipt ("mined"). "adrift" is a  *)
(* transaction still in the mempool with nobody waiting for it.            *)
(***************************************************************************)
Phase == {"idle", "verify", "work", "submit", "wait", "mined", "adrift"}

VARIABLES
  canSubmit, \* FALSE for a wallet kind for which submit can never succeed
  chain,    \* status of each job on the commerce contract
  phase,    \* what each delivery of each job awaits
  live,     \* deliveries of each job their runJob still awaits (not timed out)
  inflight, \* job ids in flight, or terminally handled by this process
  sweep,    \* the open sweeps: the pending-job scan, then the list it returned
  notify,   \* the open notify_funded requests
  faults    \* faults so far

vars == <<canSubmit, chain, phase, live, inflight, sweep, notify, faults>>

NoSweep  == [pc |-> "idle", found |-> {}]
NoNotify == [pc |-> "idle", job |-> NoJob, verdict |-> "transient"]

Request == [pc : {"idle", "limit", "preverify", "ready"},
            job : Jobs \cup {NoJob}, verdict : Verdict]

TypeOK ==
  /\ canSubmit \in BOOLEAN
  /\ chain \in [Jobs -> Status]
  /\ phase \in [Jobs -> [Slots -> Phase]]
  /\ live \in [Jobs -> SUBSET Slots]
  /\ inflight \in SUBSET Jobs
  /\ sweep \in [Sweeps -> [pc : {"idle", "scan", "found"}, found : SUBSET Jobs]]
  /\ notify \in [Callers -> Request]
  /\ \A c \in Callers :
       notify[c].pc \in {"preverify", "ready"} => notify[c].job \in Jobs
  /\ faults \in 0..MaxFaults

Init ==
  /\ canSubmit \in BOOLEAN
  /\ chain = [j \in Jobs |-> "open"]
  /\ phase = [j \in Jobs |-> [k \in Slots |-> "idle"]]
  /\ live = [j \in Jobs |-> {}]
  /\ inflight = {}
  /\ sweep = [s \in Sweeps |-> NoSweep]
  /\ notify = [c \in Callers |-> NoNotify]
  /\ faults = 0

-----------------------------------------------------------------------------
\* A fault is always possible until the bound is used up.
Fault == faults < MaxFaults /\ faults' = faults + 1

(***************************************************************************)
(* What verifySignedJob answers: permanent for a quote that is not ours or *)
(* that has expired, transient for a job not funded yet, and non-OK of     *)
(* either kind for a job already submitted.                                *)
(***************************************************************************)
Verdicts(j) ==
  LET void == j \notin Signed \/ chain[j] = "expired" IN
  {v \in Verdict : /\ v = "ok" <=> ~void /\ chain[j] = "funded"
                   /\ void => v = "permanent"
                   /\ ~void /\ chain[j] = "open" => v = "transient"}

FreeSlot(j) == CHOOSE k \in Slots : phase[j][k] = "idle"

\* spawnJob for every job of D: the jobs already in flight are left alone.
SpawnJobs(D, start) ==
  LET new == D \ inflight IN
  /\ \A j \in new : \E k \in Slots : phase[j][k] = "idle"
  /\ inflight' = inflight \cup D
  /\ phase' = [j \in Jobs |-> IF j \in new
                              THEN [phase[j] EXCEPT ![FreeSlot(j)] = start]
                              ELSE phase[j]]
  /\ live' = [j \in Jobs |-> IF j \in new THEN live[j] \cup {FreeSlot(j)}
                                          ELSE live[j]]

SpawnSweep(s) ==
  /\ sweep[s].pc = "idle"
  /\ sweep' = [sweep EXCEPT ![s].pc = "scan"]

\* Slip: the slot is freed by the delivery itself, so by a straggler too.
SlipStragglerFrees(j, k, terminal) ==
  /\ live' = [live EXCEPT ![j] = @ \ {k}]
  /\ inflight' = IF terminal THEN inflight ELSE inflight \ {j}

\* The task runJob of a delivery is over; only a terminal outcome keeps the
\* job in inflight. What a straggler comes to is heard by nobody.
Untrack(j, k, terminal) ==
  /\ live' = [live EXCEPT ![j] = @ \ {k}]
  /\ inflight' = IF k \in live[j] /\ ~terminal THEN inflight \ {j} ELSE inflight

Ends(j, k, terminal) ==
  /\ phase' = [phase EXCEPT ![j][k] = "idle"]
  /\ Untrack(j, k, terminal)

Moves(j, k, from, to) ==
  /\ phase[j][k] = from
  /\ phase' = [phase EXCEPT ![j][k] = to]

-----------------------------------------------------------------------------
(* The chain, as the buyers and the clock drive it. *)

Fund(j) ==
  /\ chain[j] = "open"
  /\ chain' = [chain EXCEPT ![j] = "funded"]
  /\ UNCHANGED <<canSubmit, phase, live, inflight, sweep, notify, faults>>

Expire(j) ==
  /\ chain[j] = "funded"
  /\ chain' = [chain EXCEPT ![j] = "expired"]
  /\ UNCHANGED <<canSubmit, phase, live, inflight, sweep, notify, faults>>

(* notify_funded *)

NotifyArrives(c, job) ==
  /\ notify[c].pc = "idle"
  /\ notify' = [notify EXCEPT ![c] = [NoNotify EXCEPT !.pc = "limit", !.job = job]]
  /\ UNCHANGED <<canSubmit, chain, phase, live, inflight, sweep, faults>>

\* Rate limited, or the limiter is unavailable, or the id does not parse.
NotifyRefused(c) ==
  /\ notify[c].pc = "limit"
  /\ notify' = [notify EXCEPT ![c] = NoNotify]
  /\ Fault
  /\ UNCHANGED <<canSubmit, chain, phase, live, inflight, sweep>>

NotifyBare(c, s) ==
  /\ notify[c].pc = "limit" /\ notify[c].job = NoJob
  /\ SpawnSweep(s)
  /\ notify' = [notify EXCEPT ![c] = NoNotify]
  /\ UNCHANGED <<canSubmit, chain, phase, live, inflight, faults>>

\* Slip: a bare notification falls through to the pre-verification.
SlipBareIsNamed(c) ==
  /\ notify[c].pc = "limit"
  /\ notify' = [notify EXCEPT ![c].pc = "preverify"]
  /\ UNCHANGED <<canSubmit, chain, phase, live, inflight, sweep, faults>>

NotifyNamed(c) ==
  /\ notify[c].pc = "limit" /\ notify[c].job # NoJob
  /\ notify' = [notify EXCEPT ![c].pc = "preverify"]
  /\ UNCHANGED <<canSubmit, chain, phase, live, inflight, sweep, faults>>

\* The chain is read here; the handler goes on with the answer later.
PreverifyReads(c) ==
  /\ notify[c].pc = "preverify"
  /\ \E v \in Verdicts(notify[c].job) :
       notify' = [notify EXCEPT ![c] = [@ EXCEPT !.pc = "ready", !.verdict = v]]
  /\ UNCHANGED <<canSubmit, chain, phase, live, inflight, sweep, faults>>

PreverifyFails(c) ==
  /\ notify[c].pc = "preverify"
  /\ notify' = [notify EXCEPT ![c] = [@ EXCEPT !.pc = "ready", !.verdict = "transient"]]
  /\ Fault
  /\ UNCHANGED <<canSubmit, chain, phase, live, inflight, sweep>>

NotifyRejected(c) ==
  /\ notify[c].pc = "ready" /\ notify[c].verdict = "permanent"
  /\ notify' = [notify EXCEPT ![c] = NoNotify]
  /\ UNCHANGED <<canSubmit, chain, phase, live, inflight, sweep, faults>>

\* Slip: `verified` is not reset when the pre-verification does not say OK.
SlipAlwaysVerified(c, s) ==
  /\ notify[c].pc = "ready" /\ notify[c].verdict # "permanent"
  /\ SpawnJobs({notify[c].job}, "work")
  /\ SpawnSweep(s)
  /\ notify' = [notify EXCEPT ![c] = NoNotify]
  /\ UNCHANGED <<canSubmit, chain, faults>>

NotifyAccepted(c, s) ==
  /\ notify[c].pc = "ready" /\ notify[c].verdict # "permanent"
  /\ SpawnJobs({notify[c].job}, IF notify[c].verdict = "ok" THEN "work" ELSE "verify")
  /\ SpawnSweep(s)
  /\ notify' = [notify EXCEPT ![c] = NoNotify]
  /\ UNCHANGED <<canSubmit, chain, faults>>

(* sweep *)

SweepScans(s) ==
  /\ sweep[s].pc = "scan"
  /\ sweep' = [sweep EXCEPT ![s] =
                 [pc |-> "found", found |-> {j \in Jobs : chain[j] = "funded"}]]
  /\ UNCHANGED <<canSubmit, chain, phase, live, inflight, notify, faults>>

\* The scan throws, or its deadline fires.
SweepFails(s) ==
  /\ sweep[s].pc = "scan"
  /\ sweep' = [sweep EXCEPT ![s] = NoSweep]
  /\ Fault
  /\ UNCHANGED <<canSubmit, chain, phase, live, inflight, notify>>

SweepSpawns(s) ==
  /\ sweep[s].pc = "found"
  /\ SpawnJobs(sweep[s].found, "verify")
  /\ sweep' = [sweep EXCEPT ![s] = NoSweep]
  /\ UNCHANGED <<canSubmit, chain, notify, faults>>

-----------------------------------------------------------------------------
(* fulfillJob and doWorkAndSubmit *)

VerifyPasses(j, k) ==
  /\ "ok" \in Verdicts(j)
  /\ Moves(j, k, "verify", "work")
  /\ UNCHANGED <<canSubmit, chain, live, inflight, sweep, notify, faults>>

\* Slip: every refusal is taken for a permanent one.
SlipRefusalIsFinal(j, k) ==
  /\ phase[j][k] = "verify"
  /\ \E v \in Verdicts(j) \ {"ok"} : Ends(j, k, TRUE)
  /\ UNCHANGED <<canSubmit, chain, sweep, notify, faults>>

VerifyRefuses(j, k) ==
  /\ phase[j][k] = "verify"
  /\ \E v \in Verdicts(j) \ {"ok"} : Ends(j, k, v = "permanent")
  /\ UNCHANGED <<canSubmit, chain, sweep, notify, faults>>

WorkSucceeds(j, k) ==
  /\ k \in live[j] /\ j \in Workable
  /\ Moves(j, k, "work", "submit")
  /\ UNCHANGED <<canSubmit, chain, live, inflight, sweep, notify, faults>>

\* The API cannot serve the task, or the abort of a timeout stops the request.
WorkFails(j, k) ==
  /\ phase[j][k] = "work"
  /\ j \notin Workable \/ k \notin live[j]
  /\ Ends(j, k, FALSE)
  /\ UNCHANGED <<canSubmit, chain, sweep, notify, faults>>

\* submitWorkflow re-verifies FUNDED and broadcasts.
SubmitBroadcasts(j, k) ==
  /\ canSubmit /\ chain[j] = "funded"
  /\ Moves(j, k, "submit", "wait")
  /\ UNCHANGED <<canSubmit, chain, live, inflight, sweep, notify, faults>>

SubmitRefused(j, k) ==
  /\ phase[j][k] = "submit" /\ chain[j] # "funded"
  /\ Ends(j, k, FALSE)
  /\ UNCHANGED <<canSubmit, chain, sweep, notify, faults>>

\* executor.ts does not catch SubmitPermanentlyUnsupportedError.
SubmitUnsupported(j, k) ==
  /\ phase[j][k] = "submit" /\ ~canSubmit
  /\ Ends(j, k, FALSE)
  /\ UNCHANGED <<canSubmit, chain, sweep, notify, faults>>

\* The commerce contract takes the submission of a funded job only.
TxLands(j, k) ==
  /\ phase[j][k] \in {"wait", "adrift"} /\ chain[j] = "funded"
  /\ chain' = [chain EXCEPT ![j] = "submitted"]
  /\ phase' = [phase EXCEPT ![j][k] = IF @ = "wait" THEN "mined" ELSE "idle"]
  /\ UNCHANGED <<canSubmit, live, inflight, sweep, notify, faults>>

TxReverts(j, k) ==
  /\ phase[j][k] \in {"wait", "adrift"} /\ chain[j] # "funded"
  /\ Ends(j, k, FALSE)
  /\ UNCHANGED <<canSubmit, chain, sweep, notify, faults>>

\* Slip: the slot is cleared on success (the bug sellerCore.ts:362 recalls).
SlipClearedOnSuccess(j, k) ==
  /\ phase[j][k] = "mined"
  /\ Ends(j, k, FALSE)
  /\ UNCHANGED <<canSubmit, chain, sweep, notify, faults>>

SubmitReturns(j, k) ==
  /\ phase[j][k] = "mined"
  /\ Ends(j, k, TRUE)
  /\ UNCHANGED <<canSubmit, chain, sweep, notify, faults>>

(* What goes wrong *)

\* Slip: an error is a terminal outcome.
SlipErrorIsFinal(j, k) ==
  /\ phase[j][k] \notin {"idle", "adrift"}
  /\ phase' = [phase EXCEPT ![j][k] = IF @ = "wait" THEN "adrift" ELSE "idle"]
  /\ Untrack(j, k, TRUE)
  /\ Fault
  /\ UNCHANGED <<canSubmit, chain, sweep, notify>>

\* An await of the delivery rejects; a transaction already sent is not unsent.
DeliveryThrows(j, k) ==
  /\ phase[j][k] \notin {"idle", "adrift"}
  /\ phase' = [phase EXCEPT ![j][k] = IF @ = "wait" THEN "adrift" ELSE "idle"]
  /\ Untrack(j, k, FALSE)
  /\ Fault
  /\ UNCHANGED <<canSubmit, chain, sweep, notify>>

\* Slip: a timed-out job keeps its slot.
SlipTimeoutIsFinal(j, k) ==
  /\ k \in live[j]
  /\ Untrack(j, k, TRUE)
  /\ Fault
  /\ UNCHANGED <<canSubmit, chain, phase, sweep, notify>>

\* Slip: the ceiling covers the analysis and not the submission.
SlipSubmitUnbounded(j, k) ==
  /\ k \in live[j] /\ phase[j][k] \in {"verify", "work"}
  /\ Untrack(j, k, FALSE)
  /\ Fault
  /\ UNCHANGED <<canSubmit, chain, phase, sweep, notify>>

\* withTimeout rejects: runJob frees the slot, the delivery itself goes on.
DeliveryTimesOut(j, k) ==
  /\ k \in live[j]
  /\ Untrack(j, k, FALSE)
  /\ Fault
  /\ UNCHANGED <<canSubmit, chain, phase, sweep, notify>>

\* A crash, SIGTERM or the reaping of an idle runtime, then a fresh process.
Restart ==
  /\ phase' = [j \in Jobs |-> [k \in Slots |->
                 IF phase[j][k] \in {"wait", "adrift"} THEN "adrift" ELSE "idle"]]
  /\ live' = [j \in Jobs |-> {}]
  /\ inflight' = {}
  /\ sweep' = [s \in Sweeps |-> NoSweep]
  /\ notify' = [c \in Callers |-> NoNotify]
  /\ Fault
  /\ UNCHANGED <<canSubmit, chain>>

-----------------------------------------------------------------------------
DeliveryStep(j, k) ==
  \/ VerifyPasses(j, k)
  \/ VerifyRefuses(j, k)
  \/ WorkSucceeds(j, k)
  \/ WorkFails(j, k)
  \/ SubmitBroadcasts(j, k)
  \/ SubmitRefused(j, k)
  \/ SubmitUnsupported(j, k)
  \/ TxLands(j, k)
  \/ TxReverts(j, k)
  \/ SubmitReturns(j, k)

NotifyStep(c) ==
  \/ NotifyNamed(c)
  \/ PreverifyReads(c)
  \/ NotifyRejected(c)
  \/ \E s \in Sweeps : NotifyBare(c, s) \/ NotifyAccepted(c, s)

SweepStep(s) == SweepScans(s) \/ SweepSpawns(s)

Next ==
  \/ \E j \in Jobs : Fund(j) \/ Expire(j)
  \/ \E c \in Callers : \E job \in Jobs \cup {NoJob} : NotifyArrives(c, job)
  \/ \E c \in Callers : NotifyStep(c) \/ NotifyRefused(c) \/ PreverifyFails(c)
  \/ \E s \in Sweeps : SweepStep(s) \/ SweepFails(s)
  \/ \E j \in Jobs, k \in Slots :
       DeliveryStep(j, k) \/ DeliveryThrows(j, k) \/ DeliveryTimesOut(j, k)
  \/ Restart

Spec == Init /\ [][Next]_vars

(***************************************************************************)
(* Fairness. The awaits of the process and the chain's mempool make        *)
(* progress; nothing in the process calls sweep() on a timer, so a retry   *)
(* needs a buyer who keeps notifying until the job has left "funded".      *)
(***************************************************************************)
Progress ==
  /\ \A c \in Callers : WF_vars(NotifyStep(c))
  /\ \A s \in Sweeps : WF_vars(SweepStep(s))
  /\ \A j \in Jobs, k \in Slots : WF_vars(DeliveryStep(j, k))

BuyersPersist ==
  \A j \in Signed : SF_vars(\E c \in Callers : NotifyArrives(c, j))

FairSpec == Spec /\ Progress /\ BuyersPersist

(***************************************************************************)
(* With the timers alone: every RPC, API call and transaction may hang for *)
(* ever, only setTimeout and code that awaits nothing are sure to run.     *)
(***************************************************************************)
Timers ==
  /\ \A s \in Sweeps : WF_vars(SweepFails(s)) /\ WF_vars(SweepSpawns(s))
  /\ \A j \in Jobs, k \in Slots : WF_vars(DeliveryTimesOut(j, k))

TimerSpec == Spec /\ Timers

-----------------------------------------------------------------------------
Retired == {j \in inflight : live[j] = {}}
Working == {j \in Jobs : live[j] # {}}

\* isBusy(): some background task is still in `tasks`.
IsBusy == Working # {} \/ \E s \in Sweeps : sweep[s].pc # "idle"

(***************************************************************************)
(* spawnJob's promise (sellerCore.ts:321-326): however notifications,      *)
(* sweeps and timeouts interleave, at most one delivery of a job is        *)
(* awaited, and while it is the job is in inflight.                        *)
(***************************************************************************)
OneDelivery ==
  \A j \in Jobs : /\ \A k1, k2 \in live[j] : k1 = k2
                  /\ live[j] # {} => j \in inflight

(***************************************************************************)
(* A job this process has closed to further retries (sellerCore.ts:358)    *)
(* has nothing left to deliver: no signed job that is still open or funded *)
(* is ever dropped, whatever failed or timed out before.                   *)
(***************************************************************************)
RetiredIsSettled ==
  \A j \in Retired : j \in Signed => chain[j] \in {"submitted", "expired"}

(***************************************************************************)
(* "VERIFY before working" (sellerCore.ts:393): paid work and submissions  *)
(* happen only for jobs that carry our quote and that a buyer has funded,  *)
(* also when the verdict was read before an await and used after it.       *)
(***************************************************************************)
PaidWorkOnly ==
  \A j \in Jobs, k \in Slots :
    phase[j][k] \in {"work", "submit", "wait", "mined", "adrift"} =>
      j \in Signed /\ chain[j] # "open"

(***************************************************************************)
(* The race the comment at sellerCore.ts:358-364 tells of: as long as      *)
(* nothing fails, a job that has been submitted is never verified, worked  *)
(* on or submitted again, even by a sweep or a notification that read the  *)
(* chain while the job was still funded.                                   *)
(***************************************************************************)
NoRedelivery ==
  faults = 0 =>
    \A j \in Jobs, k \in Slots :
      chain[j] = "submitted" => phase[j][k] \in {"idle", "mined"}

(***************************************************************************)
(* The facts that make these properties inductive: what an awaited         *)
(* delivery, a receipt, a verdict in a handler's hand and a behaviour      *)
(* without faults say about the other variables.                           *)
(***************************************************************************)
LiveIsRunning ==
  \A j \in Jobs : \A k \in live[j] : phase[j][k] \notin {"idle", "adrift"}

MinedIsSubmitted ==
  \A j \in Jobs, k \in Slots : phase[j][k] = "mined" => chain[j] = "submitted"

VerdictHolds ==
  \A c \in Callers :
    notify[c].pc = "ready" /\ notify[c].verdict = "ok" =>
      notify[c].job \in Signed /\ chain[notify[c].job] # "open"

NoStraggler ==
  faults = 0 =>
    \A j \in Jobs :
      /\ \A k \in Slots : phase[j][k] # "idle" => k \in live[j]
      /\ chain[j] = "submitted" => j \in inflight

IInv ==
  /\ TypeOK
  /\ OneDelivery
  /\ RetiredIsSettled
  /\ PaidWorkOnly
  /\ NoRedelivery
  /\ LiveIsRunning
  /\ MinedIsSubmitted
  /\ VerdictHolds
  /\ NoStraggler

(***************************************************************************)
(* The detailed protocol keeps the ledger's promise: one delivery answers  *)
(* for a job at a time, retirement is only for settled jobs and lasts as   *)
(* long as the process, submissions are only for signed jobs.              *)
(***************************************************************************)
Ledger == INSTANCE DeliveryLedger WITH working <- Working, retired <- Retired

KeepsLedger == Ledger!Spec

(***************************************************************************)
(* A funded job that can be served leaves "funded" (it is submitted, or    *)
(* its buyer lets it expire), in spite of a bounded number of failures,    *)
(* timeouts and restarts, if its buyer keeps notifying: no interleaving    *)
(* leaves it in inflight with nobody working on it.                        *)
(***************************************************************************)
FundedIsServed ==
  \A j \in Signed \cap Workable :
    canSubmit /\ chain[j] = "funded" ~> chain[j] # "funded"

(***************************************************************************)
(* sellerCore.ts:59-65: the ceilings keep a hang from pinning the runtime. *)
(* Once the callers are quiet, isBusy() becomes false for good even if no  *)
(* RPC, API call or transaction ever answers again. (Behaviours that reach *)
(* the bound on faults are left out: there the model stops the timers.)    *)
(***************************************************************************)
Quiet == \A c \in Callers : notify[c].pc = "idle"

NeverPinned ==
  [](faults < MaxFaults) => (<>[]Quiet => <>[]~IsBusy)

(***************************************************************************)
(* sellerCore.ts:201 and unifiedMain.ts:506-512 say of /ping's HEALTHY_BUSY*)
(* that it is shown while any background delivery is in flight, so that    *)
(* the runtime is not reaped before the delivery lands.                    *)
(***************************************************************************)
BusyWhileDelivering ==
  (\E j \in Jobs, k \in Slots : phase[j][k] \notin {"idle", "adrift"}) => IsBusy

(***************************************************************************)
(* sellerCore.ts:447-448 says of a wallet for which submit can never       *)
(* succeed: the job is skipped permanently, not retried.                   *)
(***************************************************************************)
UnsupportedIsSkipped ==
  [][\A j \in Jobs, k \in Slots :
       SubmitUnsupported(j, k) /\ k \in live[j] => j \in inflight']_vars
=============================================================================
