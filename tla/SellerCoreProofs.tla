-------------------------- MODULE SellerCoreProofs --------------------------
(***************************************************************************)
(* The safety properties of SellerCore for every set of jobs, callers,     *)
(* sweeps and delivery slots and every bound on the faults.                *)
(***************************************************************************)
EXTENDS SellerCore, TLAPS

USE SignedAssumption, NoJobAssumption, MaxFaultsAssumption

\* A free slot exists wherever SpawnJobs starts a delivery.
LEMMA FreeSlotIsFree ==
  ASSUME NEW j \in Jobs, \E k \in Slots : phase[j][k] = "idle"
  PROVE  FreeSlot(j) \in Slots /\ phase[j][FreeSlot(j)] = "idle"
BY DEF FreeSlot

-----------------------------------------------------------------------------
(* Type correctness. *)

\* What SpawnJobs leaves is of the types of TypeOK.
LEMMA SpawnTyped ==
  ASSUME TypeOK, NEW D \in SUBSET Jobs, NEW start \in Phase, SpawnJobs(D, start)
  PROVE  /\ phase' \in [Jobs -> [Slots -> Phase]]
         /\ live' \in [Jobs -> SUBSET Slots]
         /\ inflight' \in SUBSET Jobs
<1>1. \A j \in D \ inflight : FreeSlot(j) \in Slots
  BY FreeSlotIsFree DEF SpawnJobs
<1>2. QED
  BY <1>1 DEF SpawnJobs, TypeOK

\* Init establishes the types.
LEMMA InitTypeOK == Init => TypeOK
BY DEF Init, TypeOK, Request, Status, Phase, Verdict, NoSweep, NoNotify

\* A handler's request stays a request when a field is set.
LEMMA RequestTyped ==
  ASSUME TypeOK, NEW c \in Callers, NEW r \in Request,
         r.pc \in {"preverify", "ready"} => r.job \in Jobs,
         notify' = [notify EXCEPT ![c] = r]
  PROVE  /\ notify' \in [Callers -> Request]
         /\ \A b \in Callers : notify'[b].pc \in {"preverify", "ready"} => notify'[b].job \in Jobs
BY DEF TypeOK

\* Every step of a notification keeps the types.
LEMMA NotifyTypeOK ==
  ASSUME TypeOK, NEW c \in Callers,
         \/ \E job \in Jobs \cup {NoJob} : NotifyArrives(c, job)
         \/ NotifyStep(c)
         \/ NotifyRefused(c)
         \/ PreverifyFails(c)
  PROVE  TypeOK'
<1> USE DEF Verdict
<1>1. ASSUME NEW job \in Jobs \cup {NoJob}, NotifyArrives(c, job)
      PROVE  TypeOK'
  <2> DEFINE r == [NoNotify EXCEPT !.pc = "limit", !.job = job]
  <2>1. r \in Request /\ r.pc = "limit"
    BY DEF NoNotify, Request
  <2>2. QED
    BY <1>1, <2>1, RequestTyped DEF NotifyArrives, TypeOK
<1>2. CASE NotifyRefused(c)
  BY <1>2 DEF NotifyRefused, NoNotify, Fault, Request, TypeOK
<1>3. CASE PreverifyFails(c)
  <2> DEFINE r == [notify[c] EXCEPT !.pc = "ready", !.verdict = "transient"]
  <2>1. r \in Request /\ r.job \in Jobs
    BY <1>3 DEF PreverifyFails, Request, TypeOK
  <2>2. QED
    BY <1>3, <2>1, RequestTyped DEF PreverifyFails, Fault, TypeOK
<1>4. CASE NotifyNamed(c)
  BY <1>4 DEF NotifyNamed, Request, TypeOK
<1>5. CASE PreverifyReads(c)
  <2>1. PICK v \in Verdicts(notify[c].job) :
           notify' = [notify EXCEPT ![c] = [@ EXCEPT !.pc = "ready", !.verdict = v]]
    BY <1>5 DEF PreverifyReads
  <2> DEFINE r == [notify[c] EXCEPT !.pc = "ready", !.verdict = v]
  <2>2. v \in Verdict
    BY <2>1 DEF Verdicts
  <2>3. r \in Request /\ r.job \in Jobs
    <3>1. notify[c] \in Request /\ notify[c].job \in Jobs
      BY <1>5 DEF PreverifyReads, TypeOK
    <3>2. QED
      BY <2>2, <3>1 DEF Request
  <2>4. QED
    BY <1>5, <2>1, <2>3, RequestTyped DEF PreverifyReads, TypeOK
<1>6. CASE NotifyRejected(c)
  BY <1>6 DEF NotifyRejected, NoNotify, Request, TypeOK
<1>7. ASSUME NEW s \in Sweeps, NotifyBare(c, s)
      PROVE  TypeOK'
  BY <1>7 DEF NotifyBare, SpawnSweep, NoNotify, Request, TypeOK
<1>8. ASSUME NEW s \in Sweeps, NotifyAccepted(c, s)
      PROVE  TypeOK'
  <2>1. /\ phase' \in [Jobs -> [Slots -> Phase]]
        /\ live' \in [Jobs -> SUBSET Slots]
        /\ inflight' \in SUBSET Jobs
    <3>1. notify[c].job \in Jobs
      BY <1>8 DEF NotifyAccepted, TypeOK
    <3>2. (IF notify[c].verdict = "ok" THEN "work" ELSE "verify") \in Phase
      BY DEF Phase
    <3>3. QED
      BY <1>8, <3>1, <3>2, SpawnTyped, ZenonT(40) DEF NotifyAccepted
  <2>2. QED
    BY <1>8, <2>1, ZenonT(40) DEF NotifyAccepted, SpawnSweep, NoNotify, Request, TypeOK
<1>9. QED
  BY <1>1, <1>2, <1>3, <1>4, <1>5, <1>6, <1>7, <1>8 DEF NotifyStep

\* Every step of a sweep keeps the types.
LEMMA SweepTypeOK ==
  ASSUME TypeOK, NEW s \in Sweeps, SweepStep(s) \/ SweepFails(s)
  PROVE  TypeOK'
<1>1. CASE SweepScans(s)
  BY <1>1 DEF SweepScans, TypeOK
<1>2. CASE SweepFails(s)
  BY <1>2 DEF SweepFails, NoSweep, Fault, TypeOK
<1>3. CASE SweepSpawns(s)
  <2>1. sweep[s].found \in SUBSET Jobs /\ "verify" \in Phase
    BY DEF TypeOK, Phase
  <2>2. QED
    BY <1>3, <2>1, SpawnTyped DEF SweepSpawns, NoSweep, TypeOK
<1>4. QED
  BY <1>1, <1>2, <1>3 DEF SweepStep

\* Every step of a delivery keeps the types.
LEMMA DeliveryTypeOK ==
  ASSUME TypeOK, NEW j \in Jobs, NEW k \in Slots,
         DeliveryStep(j, k) \/ DeliveryThrows(j, k) \/ DeliveryTimesOut(j, k)
  PROVE  TypeOK'
<1> USE DEF Phase, Untrack
<1>1. CASE VerifyPasses(j, k) \/ WorkSucceeds(j, k) \/ SubmitBroadcasts(j, k)
  <2>1. \E p \in Phase : phase' = [phase EXCEPT ![j][k] = p]
    BY <1>1 DEF VerifyPasses, WorkSucceeds, SubmitBroadcasts, Moves
  <2>2. UNCHANGED <<canSubmit, chain, live, inflight, sweep, notify, faults>>
    BY <1>1 DEF VerifyPasses, WorkSucceeds, SubmitBroadcasts
  <2>3. QED
    BY <2>1, <2>2 DEF TypeOK
<1>2. CASE VerifyRefuses(j, k)
  BY <1>2 DEF VerifyRefuses, Ends, TypeOK
<1>3. CASE \/ WorkFails(j, k) \/ SubmitRefused(j, k) \/ SubmitUnsupported(j, k)
           \/ TxReverts(j, k) \/ SubmitReturns(j, k)
  <2>1. Ends(j, k, TRUE) \/ Ends(j, k, FALSE)
    BY <1>3 DEF WorkFails, SubmitRefused, SubmitUnsupported, TxReverts, SubmitReturns
  <2>2. UNCHANGED <<canSubmit, chain, sweep, notify, faults>>
    BY <1>3 DEF WorkFails, SubmitRefused, SubmitUnsupported, TxReverts, SubmitReturns
  <2>3. CASE Ends(j, k, TRUE)
    BY <2>2, <2>3 DEF Ends, TypeOK
  <2>4. CASE Ends(j, k, FALSE)
    BY <2>2, <2>4 DEF Ends, TypeOK
  <2>5. QED
    BY <2>1, <2>3, <2>4
<1>4. CASE TxLands(j, k)
  BY <1>4 DEF TxLands, Status, TypeOK
<1>5. CASE DeliveryThrows(j, k)
  BY <1>5 DEF DeliveryThrows, Fault, TypeOK
<1>6. CASE DeliveryTimesOut(j, k)
  BY <1>6 DEF DeliveryTimesOut, Fault, TypeOK
<1>7. QED
  BY <1>1, <1>2, <1>3, <1>4, <1>5, <1>6 DEF DeliveryStep

\* Every step keeps the types.
LEMMA NextTypeOK == TypeOK /\ [Next]_vars => TypeOK'
<1> SUFFICES ASSUME TypeOK, [Next]_vars PROVE TypeOK'
  OBVIOUS
<1>1. ASSUME NEW j \in Jobs, Fund(j) \/ Expire(j)
      PROVE  TypeOK'
  BY <1>1 DEF Fund, Expire, Status, TypeOK
<1>2. CASE Restart
  BY <1>2 DEF Restart, Fault, NoSweep, NoNotify, Request, Verdict, Phase, TypeOK
<1>3. CASE UNCHANGED vars
  BY <1>3 DEF vars, TypeOK
<1>4. QED
  BY <1>1, <1>2, <1>3, NotifyTypeOK, SweepTypeOK, DeliveryTypeOK DEF Next

(***************************************************************************)
(* The state of the seller is always of the shape TypeOK gives it.         *)
(***************************************************************************)
THEOREM TypeCorrect == Spec => []TypeOK
<1>1. QED
  BY InitTypeOK, NextTypeOK, PTL DEF Spec
-----------------------------------------------------------------------------
(***************************************************************************)
(* The inductive invariant, job by job: a step touches the state of the    *)
(* jobs it acts on and leaves what IInv says of the others alone.          *)
(***************************************************************************)
JobInv(i) ==
  /\ \A k1, k2 \in live[i] : k1 = k2
  /\ live[i] # {} => i \in inflight
  /\ i \in inflight /\ live[i] = {} /\ i \in Signed => chain[i] \in {"submitted", "expired"}
  /\ \A k \in Slots : phase[i][k] \in {"work", "submit", "wait", "mined", "adrift"} =>
                         i \in Signed /\ chain[i] # "open"
  /\ \A k \in live[i] : phase[i][k] \notin {"idle", "adrift"}
  /\ \A k \in Slots : phase[i][k] = "mined" => chain[i] = "submitted"
  /\ faults = 0 =>
       /\ \A k \in Slots : phase[i][k] # "idle" => k \in live[i]
       /\ chain[i] = "submitted" => /\ i \in inflight
                                    /\ \A k \in Slots : phase[i][k] \in {"idle", "mined"}

\* The inductive invariant, read job by job.
LEMMA JobByJob == IInv <=> TypeOK /\ VerdictHolds /\ \A i \in Jobs : JobInv(i)
BY DEF IInv, JobInv, OneDelivery, RetiredIsSettled, Retired, PaidWorkOnly, NoRedelivery,
       LiveIsRunning, MinedIsSubmitted, NoStraggler, TypeOK

\* A step that leaves a job alone keeps what is known of it.
LEMMA Frame ==
  ASSUME NEW i \in Jobs, JobInv(i),
         chain'[i] = chain[i], phase'[i] = phase[i], live'[i] = live[i],
         i \in inflight' <=> i \in inflight, faults' = 0 => faults = 0
  PROVE  JobInv(i)'
BY DEF JobInv

\* Taking up jobs that are not in flight.
LEMMA SpawnKeeps ==
  ASSUME TypeOK, \A i \in Jobs : JobInv(i), NEW D \in SUBSET Jobs, NEW start \in Phase,
         SpawnJobs(D, start), chain' = chain, faults' = faults,
         \/ start = "verify"
         \/ start = "work" /\ \A i \in D : i \in Signed /\ chain[i] # "open",
         NEW i \in Jobs
  PROVE  JobInv(i)'
<1>1. CASE i \in D \ inflight
  <2> DEFINE k == FreeSlot(i)
  <2>1. k \in Slots /\ phase[i][k] = "idle"
    BY <1>1, FreeSlotIsFree DEF SpawnJobs
  <2>2. live[i] = {}
    BY <1>1 DEF JobInv
  <2>3. /\ phase'[i] = [phase[i] EXCEPT ![k] = start]
        /\ live'[i] = {k}
        /\ i \in inflight'
    BY <1>1, <2>2 DEF SpawnJobs
  <2>4. phase[i] \in [Slots -> Phase]
    BY DEF TypeOK
  <2>5. \A l \in Slots : phase'[i][l] = IF l = k THEN start ELSE phase[i][l]
    BY <2>3, <2>4
  <2>6. QED
    BY <1>1, <2>1, <2>2, <2>3, <2>5 DEF JobInv
<1>2. CASE i \notin D \ inflight
  BY <1>2, Frame DEF SpawnJobs
<1>3. QED
  BY <1>1, <1>2

\* The end of a delivery; a terminal outcome needs a job that is settled.
LEMMA EndKeeps ==
  ASSUME TypeOK, \A i \in Jobs : JobInv(i), NEW j \in Jobs, NEW k \in Slots, NEW t \in BOOLEAN,
         NEW p \in Phase, phase' = [phase EXCEPT ![j][k] = p], Untrack(j, k, t),
         \/ p = "idle"
         \/ p = "adrift" /\ phase[j][k] = "wait" /\ faults' # 0,
         t /\ j \in Signed => chain[j] \in {"submitted", "expired"},
         ~t /\ faults' = 0 => phase[j][k] # "mined",
         chain' = chain, faults' = 0 => faults = 0,
         NEW i \in Jobs
  PROVE  JobInv(i)'
<1>1. CASE i # j
  BY <1>1, Frame DEF Untrack, TypeOK
<1>2. CASE i = j
  <2>1. \A l \in Slots : phase'[i][l] = IF l = k THEN p ELSE phase[i][l]
    BY <1>2 DEF TypeOK
  <2>2. live'[i] = live[i] \ {k}
    BY <1>2 DEF Untrack, TypeOK
  <2>3. k \notin live[i] => (i \in inflight' <=> i \in inflight)
    BY <1>2 DEF Untrack
  <2>4. k \in live[i] => live'[i] = {} /\ (i \in inflight' => t)
    BY <1>2, <2>2 DEF Untrack, JobInv
  <2>5. live[i] \subseteq Slots
    BY DEF TypeOK
  <2>6. CASE k \in live[i]
    <3>1. faults' = 0 => t \/ chain[i] # "submitted"
      BY <1>2, <2>6, <2>5 DEF JobInv
    <3>2. t => i \in inflight'
      BY <1>2, <2>6 DEF JobInv, Untrack
    <3>3. \A l \in Slots : l # k => l \notin live[i]
      BY <2>6 DEF JobInv
    <3>4. QED
      BY <1>2, <2>1, <2>2, <2>4, <2>5, <2>6, <3>1, <3>2, <3>3 DEF JobInv
  <2>7. CASE k \notin live[i]
    BY <1>2, <2>1, <2>2, <2>3, <2>5, <2>7 DEF JobInv
  <2>8. QED
    BY <2>6, <2>7
<1>3. QED
  BY <1>1, <1>2
-----------------------------------------------------------------------------
\* A delivery that awaits something else, on a chain and a ledger left alone.
LEMMA MoveKeeps ==
  ASSUME TypeOK, \A i \in Jobs : JobInv(i), NEW j \in Jobs, NEW k \in Slots,
         NEW from \in {"verify", "work", "submit"}, NEW to \in {"work", "submit", "wait"},
         Moves(j, k, from, to),
         j \in Signed /\ chain[j] # "open",
         chain' = chain, live' = live, inflight' = inflight, faults' = faults,
         NEW i \in Jobs
  PROVE  JobInv(i)'
<1>1. CASE i # j
  BY <1>1, Frame DEF Moves, TypeOK
<1>2. CASE i = j
  <2>1. \A l \in Slots : phase'[i][l] = IF l = k THEN to ELSE phase[i][l]
    BY <1>2 DEF Moves, TypeOK
  <2>2. live[i] \subseteq Slots
    BY DEF TypeOK
  <2>3. faults = 0 /\ chain[i] = "submitted" => FALSE
    BY <1>2 DEF JobInv, Moves
  <2>4. QED
    BY <1>2, <2>1, <2>2, <2>3 DEF JobInv, Moves
<1>3. QED
  BY <1>1, <1>2

\* Every step of a delivery keeps what is known of every job.
LEMMA DeliveryKeeps ==
  ASSUME TypeOK, \A i \in Jobs : JobInv(i), NEW j \in Jobs, NEW k \in Slots,
         DeliveryStep(j, k) \/ DeliveryThrows(j, k) \/ DeliveryTimesOut(j, k)
  PROVE  \A i \in Jobs : JobInv(i)'
<1> USE DEF Phase
<1>1. CASE VerifyPasses(j, k)
  BY <1>1, MoveKeeps DEF VerifyPasses, Verdicts
<1>2. CASE WorkSucceeds(j, k)
  BY <1>2, MoveKeeps DEF WorkSucceeds, Moves, JobInv
<1>3. CASE SubmitBroadcasts(j, k)
  BY <1>3, MoveKeeps DEF SubmitBroadcasts, Moves, JobInv
<1>4. CASE VerifyRefuses(j, k)
  <2>1. PICK v \in Verdicts(j) \ {"ok"} : Ends(j, k, v = "permanent")
    BY <1>4 DEF VerifyRefuses
  <2> DEFINE t == (v = "permanent")
  <2>2. t /\ j \in Signed => chain[j] \in {"submitted", "expired"}
    BY <2>1 DEF Verdicts, TypeOK, Status
  <2>3. QED
    BY <1>4, <2>1, <2>2, EndKeeps DEF VerifyRefuses, Ends
<1>5. CASE \/ WorkFails(j, k) \/ SubmitRefused(j, k) \/ SubmitUnsupported(j, k)
           \/ TxReverts(j, k)
  <2>1. Ends(j, k, FALSE) /\ phase[j][k] # "mined"
    BY <1>5 DEF WorkFails, SubmitRefused, SubmitUnsupported, TxReverts
  <2>2. UNCHANGED <<canSubmit, chain, faults>>
    BY <1>5 DEF WorkFails, SubmitRefused, SubmitUnsupported, TxReverts
  <2>3. QED
    BY <2>1, <2>2, EndKeeps DEF Ends
<1>6. CASE SubmitReturns(j, k)
  <2>1. chain[j] = "submitted"
    BY <1>6 DEF SubmitReturns, JobInv
  <2>2. QED
    BY <1>6, <2>1, EndKeeps DEF SubmitReturns, Ends
<1>7. CASE TxLands(j, k)
  <2> SUFFICES ASSUME NEW i \in Jobs PROVE JobInv(i)'
    OBVIOUS
  <2>1. CASE i # j
    BY <1>7, <2>1, Frame DEF TxLands, TypeOK
  <2>2. CASE i = j
    <3>1. \A l \in Slots : phase'[i][l] =
            IF l = k THEN (IF phase[i][k] = "wait" THEN "mined" ELSE "idle") ELSE phase[i][l]
      BY <1>7, <2>2 DEF TxLands, TypeOK
    <3>2. chain'[i] = "submitted" /\ live' = live /\ inflight' = inflight /\ faults' = faults
      BY <1>7, <2>2 DEF TxLands, TypeOK
    <3>3. phase[i][k] \in {"wait", "adrift"} /\ chain[i] = "funded"
      BY <1>7, <2>2 DEF TxLands
    <3>4. live[i] \subseteq Slots
      BY DEF TypeOK
    <3>5. faults = 0 => /\ k \in live[i] /\ i \in inflight
                        /\ \A l \in Slots : l # k => phase[i][l] = "idle"
      BY <2>2, <3>3 DEF JobInv
    <3>6. faults = 0 => phase[i][k] = "wait"
      BY <3>3, <3>5 DEF JobInv
    <3>7. i \in Signed /\ \A l \in live[i] : l = k => phase[i][k] = "wait"
      BY <2>2, <3>3 DEF JobInv
    <3>8. QED
      BY <2>2, <3>1, <3>2, <3>3, <3>4, <3>5, <3>6, <3>7 DEF JobInv
  <2>3. QED
    BY <2>1, <2>2
<1>8. CASE DeliveryThrows(j, k)
  <2> DEFINE p == IF phase[j][k] = "wait" THEN "adrift" ELSE "idle"
  <2>1. phase' = [phase EXCEPT ![j][k] = p]
    BY <1>8 DEF DeliveryThrows, TypeOK
  <2>2. faults' # 0
    BY <1>8 DEF DeliveryThrows, Fault, TypeOK
  <2>3. chain' = chain /\ Untrack(j, k, FALSE)
    BY <1>8 DEF DeliveryThrows
  <2>4. CASE phase[j][k] = "wait"
    BY <2>1, <2>2, <2>3, <2>4, EndKeeps
  <2>5. CASE phase[j][k] # "wait"
    BY <2>1, <2>2, <2>3, <2>5, EndKeeps
  <2>6. QED
    BY <2>4, <2>5
<1>9. CASE DeliveryTimesOut(j, k)
  <2> SUFFICES ASSUME NEW i \in Jobs PROVE JobInv(i)'
    OBVIOUS
  <2>1. CASE i # j
    BY <1>9, <2>1, Frame DEF DeliveryTimesOut, Untrack, Fault, TypeOK
  <2>2. CASE i = j
    <3>1. faults' # 0 /\ chain' = chain /\ phase' = phase
      BY <1>9 DEF DeliveryTimesOut, Fault, TypeOK
    <3>2. live'[i] = {} /\ i \notin inflight'
      BY <1>9, <2>2 DEF DeliveryTimesOut, Untrack, JobInv, TypeOK
    <3>3. QED
      BY <2>2, <3>1, <3>2 DEF JobInv
  <2>3. QED
    BY <2>1, <2>2
<1>10. QED
  BY <1>1, <1>2, <1>3, <1>4, <1>5, <1>6, <1>7, <1>8, <1>9 DEF DeliveryStep

\* Every step of a notification or of a sweep keeps what is known of every job.
LEMMA HandlerKeeps ==
  ASSUME TypeOK, VerdictHolds, \A i \in Jobs : JobInv(i),
         \/ \E c \in Callers :
              \/ \E job \in Jobs \cup {NoJob} : NotifyArrives(c, job)
              \/ NotifyStep(c) \/ NotifyRefused(c) \/ PreverifyFails(c)
         \/ \E s \in Sweeps : SweepStep(s) \/ SweepFails(s)
  PROVE  \A i \in Jobs : JobInv(i)'
<1> SUFFICES ASSUME NEW i \in Jobs PROVE JobInv(i)'
  OBVIOUS
<1>1. CASE /\ UNCHANGED <<chain, phase, live, inflight>>
           /\ faults' = 0 => faults = 0
  BY <1>1, Frame
<1>2. ASSUME NEW c \in Callers, NEW s \in Sweeps, NotifyAccepted(c, s)
      PROVE  JobInv(i)'
  <2> DEFINE D == {notify[c].job}
             start == IF notify[c].verdict = "ok" THEN "work" ELSE "verify"
  <2>1. D \in SUBSET Jobs /\ start \in Phase
    BY <1>2 DEF NotifyAccepted, TypeOK, Phase
  <2>2. \/ start = "verify"
        \/ start = "work" /\ \A d \in D : d \in Signed /\ chain[d] # "open"
    BY <1>2 DEF NotifyAccepted, VerdictHolds
  <2>3. SpawnJobs(D, start) /\ chain' = chain /\ faults' = faults
    BY <1>2 DEF NotifyAccepted
  <2>4. QED
    BY <2>1, <2>2, <2>3, SpawnKeeps
<1>3. ASSUME NEW s \in Sweeps, SweepSpawns(s)
      PROVE  JobInv(i)'
  <2>1. sweep[s].found \in SUBSET Jobs /\ "verify" \in Phase
    BY DEF TypeOK, Phase
  <2>2. SpawnJobs(sweep[s].found, "verify") /\ chain' = chain /\ faults' = faults
    BY <1>3 DEF SweepSpawns
  <2>3. QED
    BY <2>1, <2>2, SpawnKeeps
<1>4. ASSUME NEW c \in Callers,
             \/ \E job \in Jobs \cup {NoJob} : NotifyArrives(c, job)
             \/ NotifyNamed(c) \/ PreverifyReads(c) \/ NotifyRejected(c)
             \/ \E s \in Sweeps : NotifyBare(c, s)
             \/ NotifyRefused(c) \/ PreverifyFails(c)
      PROVE  /\ UNCHANGED <<chain, phase, live, inflight>>
             /\ faults' = 0 => faults = 0
  <2>1. UNCHANGED <<chain, phase, live, inflight>>
    BY <1>4 DEF NotifyArrives, NotifyNamed, PreverifyReads, NotifyRejected, NotifyBare,
                NotifyRefused, PreverifyFails
  <2>2. UNCHANGED faults \/ Fault
    BY <1>4 DEF NotifyArrives, NotifyNamed, PreverifyReads, NotifyRejected, NotifyBare,
                NotifyRefused, PreverifyFails
  <2>3. QED
    BY <2>1, <2>2 DEF Fault, TypeOK
<1>5. ASSUME NEW s \in Sweeps, SweepScans(s) \/ SweepFails(s)
      PROVE  /\ UNCHANGED <<chain, phase, live, inflight>>
             /\ faults' = 0 => faults = 0
  BY <1>5 DEF SweepScans, SweepFails, Fault, TypeOK
<1>6. QED
  BY <1>1, <1>2, <1>3, <1>4, <1>5 DEF NotifyStep, SweepStep

\* Funding and expiry only add to what a job may be retired or worked on for.
LEMMA ChainKeeps ==
  ASSUME TypeOK, \A i \in Jobs : JobInv(i), NEW j \in Jobs, Fund(j) \/ Expire(j)
  PROVE  \A i \in Jobs : JobInv(i)'
<1> SUFFICES ASSUME NEW i \in Jobs PROVE JobInv(i)'
  OBVIOUS
<1>1. UNCHANGED <<phase, live, inflight, faults>>
  BY DEF Fund, Expire
<1>2. CASE chain'[i] = chain[i]
  BY <1>1, <1>2, Frame
<1>3. CASE chain'[i] # chain[i]
  <2>1. \/ chain[i] = "open" /\ chain'[i] = "funded"
        \/ chain[i] = "funded" /\ chain'[i] = "expired"
    BY <1>3 DEF Fund, Expire, TypeOK
  <2>2. QED
    BY <1>1, <2>1 DEF JobInv
<1>4. QED
  BY <1>2, <1>3

\* After a restart nothing is in flight and only lost transactions are left.
LEMMA RestartKeeps ==
  ASSUME TypeOK, \A i \in Jobs : JobInv(i), Restart
  PROVE  \A i \in Jobs : JobInv(i)'
<1> SUFFICES ASSUME NEW i \in Jobs PROVE JobInv(i)'
  OBVIOUS
<1>1. live'[i] = {} /\ i \notin inflight' /\ faults' # 0 /\ chain' = chain
  BY DEF Restart, Fault, TypeOK
<1>2. \A k \in Slots : phase'[i][k] = IF phase[i][k] \in {"wait", "adrift"} THEN "adrift" ELSE "idle"
  BY DEF Restart
<1>3. QED
  BY <1>1, <1>2 DEF JobInv

\* A verdict in a handler's hand stays true: no job becomes open again.
LEMMA VerdictKeeps ==
  ASSUME TypeOK, VerdictHolds, [Next]_vars
  PROVE  VerdictHolds'
<1>1. \A j \in Jobs : chain'[j] = "open" => chain[j] = "open"
  <2>1. CASE chain' = chain
    BY <2>1
  <2>2. ASSUME NEW j \in Jobs, NEW k \in Slots, Fund(j) \/ Expire(j) \/ TxLands(j, k)
        PROVE  \A i \in Jobs : chain'[i] = "open" => chain[i] = "open"
    BY <2>2 DEF Fund, Expire, TxLands, TypeOK
  <2>3. ASSUME NEW j \in Jobs, Fund(j) \/ Expire(j)
        PROVE  \A i \in Jobs : chain'[i] = "open" => chain[i] = "open"
    BY <2>3 DEF Fund, Expire, TypeOK
  <2>4. QED
    BY <2>1, <2>2, <2>3, ZenonT(40)
    DEF Next, vars, NotifyArrives, NotifyStep, NotifyNamed, PreverifyReads,
       NotifyRejected, NotifyBare, NotifyAccepted, NotifyRefused, PreverifyFails, SweepStep,
       SweepScans, SweepSpawns, SweepFails, DeliveryStep, VerifyPasses, VerifyRefuses,
       WorkSucceeds, WorkFails, SubmitBroadcasts, SubmitRefused, SubmitUnsupported, TxReverts,
       SubmitReturns, DeliveryThrows, DeliveryTimesOut, Restart
<1>2. ASSUME NEW c \in Callers, PreverifyReads(c)
      PROVE  VerdictHolds'
  BY <1>2 DEF PreverifyReads, Verdicts, VerdictHolds, TypeOK
<1>3. CASE \A c \in Callers : notify'[c].pc = "ready" /\ notify'[c].verdict = "ok" =>
             notify[c].pc = "ready" /\ notify[c].verdict = "ok" /\ notify'[c].job = notify[c].job
  BY <1>1, <1>3 DEF VerdictHolds, TypeOK
<1>4. CASE notify' = notify
  BY <1>1, <1>4 DEF VerdictHolds, TypeOK
<1>5. ASSUME NEW c \in Callers,
             \/ \E job \in Jobs \cup {NoJob} : NotifyArrives(c, job)
             \/ NotifyNamed(c) \/ NotifyRejected(c) \/ NotifyRefused(c) \/ PreverifyFails(c)
             \/ \E s \in Sweeps : NotifyBare(c, s) \/ NotifyAccepted(c, s)
      PROVE  \A b \in Callers : notify'[b].pc = "ready" /\ notify'[b].verdict = "ok" =>
             notify[b].pc = "ready" /\ notify[b].verdict = "ok" /\ notify'[b].job = notify[b].job
  <2>1. \E r : /\ notify' = [notify EXCEPT ![c] = r]
               /\ r.pc = "ready" => r.verdict = "transient"
    <3>1. ASSUME NEW job \in Jobs \cup {NoJob}, NotifyArrives(c, job)
          PROVE  /\ notify' = [notify EXCEPT ![c] = [NoNotify EXCEPT !.pc = "limit", !.job = job]]
                 /\ [NoNotify EXCEPT !.pc = "limit", !.job = job].pc = "limit"
      BY <3>1 DEF NotifyArrives, NoNotify
    <3>2. CASE NotifyNamed(c)
      <4> DEFINE r == [notify[c] EXCEPT !.pc = "preverify"]
      <4>1. notify' = [notify EXCEPT ![c] = r]
        BY <3>2 DEF NotifyNamed
      <4>2. r.pc = "preverify"
        BY DEF Request, TypeOK
      <4>3. QED
        BY <4>1, <4>2
    <3>3. CASE PreverifyFails(c)
      <4> DEFINE r == [notify[c] EXCEPT !.pc = "ready", !.verdict = "transient"]
      <4>1. notify' = [notify EXCEPT ![c] = r]
        BY <3>3 DEF PreverifyFails
      <4>2. r.verdict = "transient"
        BY DEF Request, TypeOK
      <4>3. QED
        BY <4>1, <4>2
    <3>4. CASE notify' = [notify EXCEPT ![c] = NoNotify]
      <4>1. NoNotify.pc = "idle"
        BY DEF NoNotify
      <4>2. QED
        BY <3>4, <4>1
    <3>5. QED
      BY <1>5, <3>1, <3>2, <3>3, <3>4
         DEF NotifyRejected, NotifyRefused, NotifyBare, NotifyAccepted
  <2>2. QED
    BY <2>1 DEF TypeOK
<1>6. CASE Restart
  BY <1>6 DEF Restart, NoNotify, VerdictHolds
<1>7. QED
  BY <1>2, <1>3, <1>4, <1>5, <1>6, ZenonT(40)
  DEF Next, vars, NotifyStep, SweepStep, SweepScans, SweepSpawns,
     SweepFails, DeliveryStep, VerifyPasses, VerifyRefuses, WorkSucceeds, WorkFails,
     SubmitBroadcasts, SubmitRefused, SubmitUnsupported, TxLands, TxReverts, SubmitReturns,
     DeliveryThrows, DeliveryTimesOut, Fund, Expire

\* A fresh process on a fresh contract satisfies the invariant.
LEMMA InitIInv == Init => IInv
BY InitTypeOK, JobByJob DEF Init, JobInv, VerdictHolds, NoNotify

\* Every step of the seller, its callers and the chain keeps the invariant.
LEMMA NextIInv == IInv /\ [Next]_vars => IInv'
<1> SUFFICES ASSUME IInv, [Next]_vars PROVE IInv'
  OBVIOUS
<1>1. TypeOK /\ VerdictHolds /\ \A i \in Jobs : JobInv(i)
  BY JobByJob
<1>2. TypeOK' /\ VerdictHolds'
  BY <1>1, NextTypeOK, VerdictKeeps
<1>3. \A i \in Jobs : JobInv(i)'
  <2>1. CASE UNCHANGED vars
    BY <1>1, <2>1, Frame DEF vars
  <2>2. CASE Restart
    BY <1>1, <2>2, RestartKeeps
  <2>3. ASSUME NEW j \in Jobs, Fund(j) \/ Expire(j)
        PROVE  \A i \in Jobs : JobInv(i)'
    BY <1>1, <2>3, ChainKeeps
  <2>4. ASSUME NEW j \in Jobs, NEW k \in Slots,
               DeliveryStep(j, k) \/ DeliveryThrows(j, k) \/ DeliveryTimesOut(j, k)
        PROVE  \A i \in Jobs : JobInv(i)'
    BY <1>1, <2>4, DeliveryKeeps
  <2>5. QED
    BY <1>1, <2>1, <2>2, <2>3, <2>4, HandlerKeeps DEF Next
<1>4. QED
  BY <1>2, <1>3 DEF IInv, JobInv, OneDelivery, RetiredIsSettled, Retired, PaidWorkOnly,
     NoRedelivery, LiveIsRunning, MinedIsSubmitted, NoStraggler, TypeOK

(***************************************************************************)
(* The inductive invariant, for every value of the constants.              *)
(***************************************************************************)
THEOREM Invariance == Spec => []IInv
BY InitIInv, NextIInv, PTL DEF Spec

(***************************************************************************)
(* However notifications, sweeps, timeouts and restarts interleave, at     *)
(* most one delivery of a job is awaited.                                  *)
(***************************************************************************)
THEOREM AtMostOneDelivery == Spec => []OneDelivery
<1>1. IInv => OneDelivery
  BY DEF IInv
<1>2. QED
  BY <1>1, Invariance, PTL

(***************************************************************************)
(* A job closed to retries has been submitted, has expired or was never    *)
(* one this agent signed.                                                  *)
(***************************************************************************)
THEOREM NothingDropped == Spec => []RetiredIsSettled
<1>1. IInv => RetiredIsSettled
  BY DEF IInv
<1>2. QED
  BY <1>1, Invariance, PTL

(***************************************************************************)
(* Paid work is done only for signed jobs that have been funded.           *)
(***************************************************************************)
THEOREM VerifiedBeforeWork == Spec => []PaidWorkOnly
<1>1. IInv => PaidWorkOnly
  BY DEF IInv
<1>2. QED
  BY <1>1, Invariance, PTL

(***************************************************************************)
(* Without faults a submitted job is not taken up again.                   *)
(***************************************************************************)
THEOREM SubmittedOnce == Spec => []NoRedelivery
<1>1. IInv => NoRedelivery
  BY DEF IInv
<1>2. QED
  BY <1>1, Invariance, PTL

(***************************************************************************)
(* While nothing has failed, isBusy() is true of every delivery under way: *)
(* what the comment at sellerCore.ts:201 says of the heartbeat holds up to *)
(* the first fault. What breaks it is a straggler, which only a timeout or *)
(* a restart makes.                                                        *)
(***************************************************************************)
THEOREM BusyWithoutFaults == Spec => [](faults = 0 => BusyWhileDelivering)
<1>1. IInv => (faults = 0 => BusyWhileDelivering)
  BY DEF IInv, NoStraggler, BusyWhileDelivering, IsBusy, Working
<1>2. QED
  BY <1>1, Invariance, PTL

\* A wallet that cannot submit leaves no transaction behind.
Unsent ==
  ~canSubmit => \A j \in Jobs : /\ chain[j] # "submitted"
                                /\ \A k \in Slots : phase[j][k] \notin {"wait", "adrift"}

LEMMA InitUnsent == Init => Unsent
BY DEF Init, Unsent

\* A job taken up starts at its verification or at its work.
LEMMA SpawnUnsent ==
  ASSUME TypeOK, Unsent, UNCHANGED <<canSubmit, chain>>,
         NEW D \in SUBSET Jobs, NEW start \in {"verify", "work"}, SpawnJobs(D, start)
  PROVE  Unsent'
<1>1. ASSUME NEW j \in Jobs, NEW k \in Slots
      PROVE  phase'[j][k] = phase[j][k] \/ phase'[j][k] = start
  BY <1>1, FreeSlotIsFree DEF SpawnJobs, TypeOK
<1>2. QED
  BY <1>1 DEF Unsent

LEMMA DeliveryUnsent ==
  ASSUME TypeOK, Unsent, NEW i \in Jobs, NEW l \in Slots,
         DeliveryStep(i, l) \/ DeliveryThrows(i, l) \/ DeliveryTimesOut(i, l)
  PROVE  Unsent'
<1> SUFFICES ASSUME ~canSubmit', NEW j \in Jobs, NEW k \in Slots
             PROVE  chain'[j] # "submitted" /\ phase'[j][k] \notin {"wait", "adrift"}
  BY DEF Unsent
<1>1. UNCHANGED canSubmit
  BY Zenon DEF DeliveryStep, VerifyPasses, VerifyRefuses, WorkSucceeds, WorkFails, SubmitBroadcasts,
     SubmitRefused, SubmitUnsupported, TxLands, TxReverts, SubmitReturns, DeliveryThrows,
     DeliveryTimesOut
<1>2. ~canSubmit
  BY <1>1, Zenon
<1>3. chain[j] # "submitted" /\ phase[j][k] \notin {"wait", "adrift"}
      /\ phase[i][l] \notin {"wait", "adrift"}
  BY <1>2 DEF Unsent
<1>4. chain' = chain
  BY <1>2, <1>3 DEF DeliveryStep, VerifyPasses, VerifyRefuses, WorkSucceeds, WorkFails,
     SubmitBroadcasts, SubmitRefused, SubmitUnsupported, TxLands, TxReverts, SubmitReturns,
     DeliveryThrows, DeliveryTimesOut
<1>5. phase' = phase \/ \E to \in {"work", "submit", "idle"} : phase' = [phase EXCEPT ![i][l] = to]
  <2>1. CASE DeliveryStep(i, l)
    BY <2>1, <1>2, <1>3 DEF DeliveryStep, VerifyPasses, VerifyRefuses, WorkSucceeds, WorkFails,
       SubmitBroadcasts, SubmitRefused, SubmitUnsupported, TxLands, TxReverts, SubmitReturns,
       Moves, Ends
  <2>2. CASE DeliveryThrows(i, l)
    BY <2>2, <1>3 DEF DeliveryThrows, TypeOK
  <2>3. CASE DeliveryTimesOut(i, l)
    BY <2>3 DEF DeliveryTimesOut
  <2>4. QED
    BY <2>1, <2>2, <2>3
<1>6. phase'[j][k] \in {phase[j][k], "work", "submit", "idle"}
  BY <1>5 DEF TypeOK
<1>7. QED
  BY <1>3, <1>4, <1>6

LEMMA NextUnsent == TypeOK /\ Unsent /\ [Next]_vars => Unsent'
<1> SUFFICES ASSUME TypeOK, Unsent, [Next]_vars PROVE Unsent'
  OBVIOUS
<1>1. ASSUME NEW j \in Jobs, Fund(j) \/ Expire(j)
      PROVE  Unsent'
  BY <1>1 DEF Fund, Expire, Unsent, TypeOK
<1>2. CASE Restart
  BY <1>2 DEF Restart, Unsent, TypeOK
<1>3. CASE UNCHANGED vars
  BY <1>3 DEF vars, Unsent
<1>4. ASSUME NEW c \in Callers, NEW s \in Sweeps, NotifyAccepted(c, s)
      PROVE  Unsent'
  <2>1. {notify[c].job} \in SUBSET Jobs
    BY <1>4 DEF NotifyAccepted, TypeOK
  <2>2. (IF notify[c].verdict = "ok" THEN "work" ELSE "verify") \in {"verify", "work"}
    OBVIOUS
  <2>3. QED
    BY <1>4, <2>1, <2>2, SpawnUnsent DEF NotifyAccepted
<1>5. ASSUME NEW s \in Sweeps, SweepSpawns(s)
      PROVE  Unsent'
  <2>1. PICK D \in SUBSET Jobs, start \in {"verify", "work"} : SpawnJobs(D, start)
    BY <1>5 DEF SweepSpawns, TypeOK
  <2>2. QED
    BY <1>5, <2>1, SpawnUnsent DEF SweepSpawns
<1>6. ASSUME UNCHANGED <<canSubmit, chain, phase>>
      PROVE  Unsent'
  BY <1>6 DEF Unsent
<1>7. ASSUME NEW c \in Callers, NEW job \in Jobs \cup {NoJob}, NotifyArrives(c, job)
      PROVE  Unsent'
  BY <1>6, <1>7 DEF NotifyArrives
<1>8. ASSUME NEW c \in Callers, NotifyStep(c) \/ NotifyRefused(c) \/ PreverifyFails(c)
      PROVE  Unsent'
  BY <1>4, <1>6, <1>8 DEF NotifyStep, NotifyNamed, PreverifyReads, NotifyRejected, NotifyBare,
     NotifyRefused, PreverifyFails
<1>9. ASSUME NEW s \in Sweeps, SweepStep(s) \/ SweepFails(s)
      PROVE  Unsent'
  BY <1>5, <1>6, <1>9 DEF SweepStep, SweepScans, SweepFails
<1>10. QED
  BY <1>1, <1>2, <1>3, <1>7, <1>8, <1>9, DeliveryUnsent DEF Next

(***************************************************************************)
(* With a wallet kind whose submit cannot succeed, no signed job is ever   *)
(* closed to retries before it has expired: it is fetched, worked on and   *)
(* refused again for as long as its buyer asks, which is what the code     *)
(* does where sellerCore.ts:447-448 says that it is skipped permanently.   *)
(***************************************************************************)
THEOREM NeverSkipped ==
  Spec => [](~canSubmit => \A j \in Retired \cap Signed : chain[j] = "expired")
<1>1. Spec => []Unsent
  BY InitUnsent, NextUnsent, TypeCorrect, PTL DEF Spec
<1>2. IInv /\ Unsent => (~canSubmit => \A j \in Retired \cap Signed : chain[j] = "expired")
  BY DEF IInv, TypeOK, Unsent, RetiredIsSettled, Retired
<1>3. QED
  BY <1>1, <1>2, Invariance, PTL

-----------------------------------------------------------------------------
(* Refinement of DeliveryLedger. *)

\* What a step does to the jobs it does not act on: nothing the ledger sees.
LEMMA LedgerStutter ==
  UNCHANGED <<chain, live, inflight>> => UNCHANGED <<chain, Working, Retired>>
BY DEF Working, Retired

\* To the ledger, SpawnJobs takes up the jobs that were not in flight.
LEMMA SpawnIsStart ==
  ASSUME IInv, NEW D \in SUBSET Jobs, NEW start, SpawnJobs(D, start), chain' = chain
  PROVE  Ledger!Start(D \ inflight)
<1>1. \A j \in D \ inflight : FreeSlot(j) \in Slots
  BY FreeSlotIsFree DEF SpawnJobs
<1>2. \A j \in Jobs : /\ j \in D \ inflight => live'[j] # {}
                      /\ j \notin D \ inflight => live'[j] = live[j]
  BY <1>1 DEF SpawnJobs
<1>3. Working \subseteq inflight
  BY DEF IInv, OneDelivery, Working
<1>4. Working' = Working \cup (D \ inflight)
  BY <1>2 DEF Working
<1>5. inflight' = inflight \cup D /\ inflight \subseteq Jobs
  BY DEF SpawnJobs, IInv, TypeOK
<1>6. Retired' = Retired
  BY <1>2, <1>5 DEF Retired
<1>7. QED
  BY <1>3, <1>4, <1>6 DEF Ledger!Start, Retired

\* To the ledger, the end of a delivery gives its job back or retires it.
LEMMA UntrackIsGiveBackOrRetire ==
  ASSUME IInv, NEW j \in Jobs, NEW k \in Slots, NEW t \in BOOLEAN, Untrack(j, k, t), chain' = chain,
         t /\ j \in Signed => chain[j] \in {"submitted", "expired"}
  PROVE  Ledger!GiveBack(j) \/ Ledger!Retire(j) \/ UNCHANGED Ledger!vars
<1>1. CASE k \notin live[j]
  <2>1. live' = live /\ inflight' = inflight
    BY <1>1 DEF Untrack, IInv, TypeOK
  <2>2. QED
    BY <2>1, LedgerStutter DEF Ledger!vars
<1>2. CASE k \in live[j]
  <2>1. live[j] = {k} /\ j \in inflight
    BY <1>2 DEF IInv, OneDelivery
  <2>2. \A i \in Jobs : live'[i] = IF i = j THEN {} ELSE live[i]
    BY <2>1 DEF Untrack, IInv, TypeOK
  <2>3. j \in Working /\ Working' = Working \ {j}
    BY <2>1, <2>2 DEF Working
  <2>4. CASE t
    <3>1. inflight' = inflight
      BY <2>4 DEF Untrack
    <3>2. Retired' = Retired \cup {j}
      BY <2>1, <2>2, <3>1 DEF Retired, IInv, TypeOK
    <3>3. QED
      BY <2>3, <2>4, <3>2 DEF Ledger!Retire
  <2>5. CASE ~t
    <3>1. inflight' = inflight \ {j}
      BY <1>2, <2>5 DEF Untrack
    <3>2. Retired' = Retired
      BY <2>1, <2>2, <3>1 DEF Retired, IInv, TypeOK
    <3>3. QED
      BY <2>3, <3>2 DEF Ledger!GiveBack
  <2>6. QED
    BY <2>4, <2>5
<1>3. QED
  BY <1>1, <1>2

\* Every step of a delivery is a step of the ledger or a stutter.
LEMMA DeliveryRefines ==
  ASSUME IInv, NEW j \in Jobs, NEW k \in Slots,
         DeliveryStep(j, k) \/ DeliveryThrows(j, k) \/ DeliveryTimesOut(j, k)
  PROVE  \/ Ledger!GiveBack(j) \/ Ledger!Retire(j) \/ Ledger!Deliver(j)
         \/ UNCHANGED Ledger!vars
<1>1. CASE VerifyPasses(j, k) \/ WorkSucceeds(j, k) \/ SubmitBroadcasts(j, k)
  <2>1. UNCHANGED <<chain, live, inflight>>
    BY <1>1 DEF VerifyPasses, WorkSucceeds, SubmitBroadcasts
  <2>2. QED
    BY <2>1, LedgerStutter DEF Ledger!vars
<1>2. CASE VerifyRefuses(j, k)
  <2>1. PICK v \in Verdicts(j) \ {"ok"} : Ends(j, k, v = "permanent")
    BY <1>2 DEF VerifyRefuses
  <2>2. v = "permanent" /\ j \in Signed => chain[j] \in {"submitted", "expired"}
    BY <2>1 DEF Verdicts, IInv, TypeOK, Status
  <2>3. QED
    BY <1>2, <2>1, <2>2, UntrackIsGiveBackOrRetire DEF VerifyRefuses, Ends
<1>3. CASE \/ WorkFails(j, k) \/ SubmitRefused(j, k) \/ SubmitUnsupported(j, k)
           \/ TxReverts(j, k) \/ DeliveryThrows(j, k) \/ DeliveryTimesOut(j, k)
  <2>1. Untrack(j, k, FALSE)
    BY <1>3 DEF WorkFails, SubmitRefused, SubmitUnsupported, TxReverts, Ends,
                DeliveryThrows, DeliveryTimesOut
  <2>2. chain' = chain
    BY <1>3 DEF WorkFails, SubmitRefused, SubmitUnsupported, TxReverts,
                DeliveryThrows, DeliveryTimesOut
  <2>3. QED
    BY <2>1, <2>2, UntrackIsGiveBackOrRetire
<1>4. CASE SubmitReturns(j, k)
  <2>1. chain[j] = "submitted"
    BY <1>4 DEF SubmitReturns, IInv, MinedIsSubmitted
  <2>2. QED
    BY <1>4, <2>1, UntrackIsGiveBackOrRetire DEF SubmitReturns, Ends
<1>5. CASE TxLands(j, k)
  <2>1. Working' = Working /\ Retired' = Retired
    BY <1>5 DEF TxLands, Working, Retired
  <2>2. j \in Signed
    BY <1>5 DEF TxLands, IInv, PaidWorkOnly
  <2>3. QED
    BY <1>5, <2>1, <2>2 DEF TxLands, Ledger!Deliver, Ledger!Advance
<1>6. QED
  BY <1>1, <1>2, <1>3, <1>4, <1>5 DEF DeliveryStep

\* Every step of a notification or of a sweep is one of the ledger or a stutter.
LEMMA HandlerRefines ==
  ASSUME IInv,
         \/ \E c \in Callers :
              \/ \E job \in Jobs \cup {NoJob} : NotifyArrives(c, job)
              \/ NotifyStep(c) \/ NotifyRefused(c) \/ PreverifyFails(c)
         \/ \E s \in Sweeps : SweepStep(s) \/ SweepFails(s)
  PROVE  (\E D \in SUBSET Jobs : Ledger!Start(D)) \/ UNCHANGED Ledger!vars
<1>1. ASSUME NEW c \in Callers, NEW s \in Sweeps, NotifyAccepted(c, s)
      PROVE  \E D \in SUBSET Jobs : Ledger!Start(D)
  <2>1. {notify[c].job} \in SUBSET Jobs
    BY <1>1 DEF NotifyAccepted, IInv, TypeOK
  <2>2. QED
    BY <1>1, <2>1, SpawnIsStart DEF NotifyAccepted
<1>2. ASSUME NEW s \in Sweeps, SweepSpawns(s)
      PROVE  \E D \in SUBSET Jobs : Ledger!Start(D)
  <2>1. sweep[s].found \in SUBSET Jobs
    BY DEF IInv, TypeOK
  <2>2. QED
    BY <1>2, <2>1, SpawnIsStart DEF SweepSpawns
<1>3. CASE UNCHANGED <<chain, live, inflight>>
  BY <1>3, LedgerStutter DEF Ledger!vars
<1>4. QED
  BY <1>1, <1>2, <1>3 DEF NotifyStep, SweepStep, NotifyArrives, NotifyNamed, PreverifyReads,
     NotifyRejected, NotifyBare, NotifyRefused, PreverifyFails, SweepScans, SweepFails

(***************************************************************************)
(* The seller implements the ledger: initially no job is claimed, and each *)
(* of its steps is a step of the ledger or leaves it alone.                *)
(***************************************************************************)
THEOREM LedgerKept == Spec => KeepsLedger
<1>1. Init => Ledger!Init
  BY DEF Init, Ledger!Init, Working, Retired
<1>2. IInv /\ [Next]_vars => [Ledger!Next]_(Ledger!vars)
  <2> SUFFICES ASSUME IInv, [Next]_vars PROVE Ledger!Next \/ UNCHANGED Ledger!vars
    OBVIOUS
  <2>1. CASE UNCHANGED vars
    BY <2>1, LedgerStutter DEF vars, Ledger!vars
  <2>2. CASE Restart
    <3>1. Working' = {} /\ Retired' = {} /\ chain' = chain
      BY <2>2 DEF Restart, Working, Retired
    <3>2. QED
      BY <3>1 DEF Ledger!Next, Ledger!Restart
  <2>3. ASSUME NEW j \in Jobs, Fund(j) \/ Expire(j)
        PROVE  Ledger!Next
    <3>1. Working' = Working /\ Retired' = Retired
      BY <2>3 DEF Fund, Expire, Working, Retired
    <3>2. QED
      BY <2>3, <3>1 DEF Fund, Expire, Ledger!Next, Ledger!Fund, Ledger!Expire, Ledger!Advance
  <2>4. ASSUME NEW j \in Jobs, NEW k \in Slots,
               DeliveryStep(j, k) \/ DeliveryThrows(j, k) \/ DeliveryTimesOut(j, k)
        PROVE  Ledger!Next \/ UNCHANGED Ledger!vars
    BY <2>4, DeliveryRefines DEF Ledger!Next
  <2>5. QED
    BY <2>1, <2>2, <2>3, <2>4, HandlerRefines DEF Next, Ledger!Next
<1>3. QED
  BY <1>1, <1>2, Invariance, PTL DEF Spec, KeepsLedger, Ledger!Spec
=============================================================================
