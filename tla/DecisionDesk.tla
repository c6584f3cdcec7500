---------------------------- MODULE DecisionDesk ----------------------------
(***************************************************************************)
(* The decision desk (apps/web/app/page.tsx): the state of the page, the   *)
(* requests it has under way, and what their answers leave on the screen.  *)
(* The service behind it keeps nothing between requests, so an answer is   *)
(* computed when it arrives, from what the request carried.                *)
(*                                                                         *)
(* The controls that are disabled while busy are guards here. Inspecting   *)
(* a route is never disabled.                                              *)
(***************************************************************************)
EXTENDS ExposureDecision, FiniteSets

CONSTANTS
  Texts,        \* intents the user may type
  Samples,      \* intents of the sample buttons
  FirstText,    \* INITIAL_INTENT
  Policies,     \* policies the user may leave in the form
  Captures,     \* snapshots that capture may return
  MaxRuns       \* runs of one page (bound)

ASSUME DeskAssumption ==
  /\ Texts \subseteq Intent /\ Samples \subseteq Intent /\ FirstText \in Intent
  /\ Policies \subseteq Policy
  /\ Captures \subseteq Snapshot
  /\ MaxRuns \in Nat

VARIABLES
  text, mode,        \* the request form
  policy,            \* the policy form
  baseline,          \* the policy that Restore asks for
  receipt,           \* the receipt shown, or Nothing
  comparison,        \* the comparison shown, or Nothing
  inspected,         \* the token of the open route, or None
  challengeActive,   \* the receipt is the liquidity challenge's
  busy, comparisonPending, error,
  proof, lanes,      \* what the last verification said
  requestVersion,    \* runs so far
  calls,             \* requests under way, each with what its closure holds
  preceding          \* history: the receipt the challenge started from

form    == <<text, mode, policy, baseline>>
shown   == <<receipt, comparison, inspected, challengeActive, preceding>>
checked == <<proof, lanes>>
vars    == <<form, shown, checked, busy, comparisonPending, error, calls, requestVersion>>

Nothing == [nothing |-> TRUE]
Idle    == <<"idle", "idle", "idle">>
Lane    == {"idle", "pending", "pass", "fail"}

Loading         == [kind |-> "load"]
Running(v, t)   == [kind |-> "run", version |-> v, text |-> t, mode |-> mode, policy |-> policy]
Comparing(p, w) == [kind |-> "compare", why |-> w, receipt |-> receipt, policy |-> p,
                    active |-> challengeActive]
Hashing         == [kind |-> "hash", receipt |-> receipt]
Replaying(c, l) == [kind |-> "replay", receipt |-> c.receipt, lane |-> l]

Init ==
  /\ text = FirstText /\ mode = "RECORDED" /\ policy = DefaultPolicy /\ baseline = DefaultPolicy
  /\ receipt = Nothing /\ comparison = Nothing /\ inspected = None
  /\ challengeActive = FALSE /\ preceding = Nothing
  /\ busy = TRUE /\ comparisonPending = FALSE /\ error = FALSE
  /\ proof = "" /\ lanes = Idle
  /\ requestVersion = 0
  /\ calls = {Loading}

-----------------------------------------------------------------------------
\* What the user does

\* Typing into the form; every control of it is disabled while busy.
Edits ==
  /\ ~busy
  /\ \/ text' \in Texts /\ UNCHANGED <<mode, policy>>
     \/ mode' \in {"LIVE", "RECORDED"} /\ UNCHANGED <<text, policy>>
     \/ receipt # Nothing /\ policy' \in Policies /\ UNCHANGED <<text, mode>>
  /\ UNCHANGED <<baseline, shown, checked, busy, comparisonPending, error, calls, requestVersion>>

Inspects ==
  /\ receipt # Nothing
  /\ inspected' \in {r.token : r \in receipt.decision.routes} \cup {None}
  /\ UNCHANGED <<form, receipt, comparison, challengeActive, preceding, checked,
                 busy, comparisonPending, error, calls, requestVersion>>

\* Slip: the controls stay enabled.
SlipStaysEnabled(pending) ==
  /\ comparisonPending' = pending /\ error' = FALSE
  /\ proof' = "" /\ lanes' = Idle /\ UNCHANGED busy

\* A run or a comparison begins: what was verified is cleared.
Begins(pending) ==
  /\ busy' = TRUE /\ comparisonPending' = pending /\ error' = FALSE
  /\ proof' = "" /\ lanes' = Idle

Runs(t) ==
  /\ ~busy /\ requestVersion < MaxRuns
  /\ requestVersion' = requestVersion + 1
  /\ text' = t
  /\ Begins(FALSE)
  /\ calls' = calls \cup {Running(requestVersion', t)}
  /\ UNCHANGED <<mode, policy, baseline, shown>>

Submits   == Runs(text)
Explores  == \E t \in Samples : Runs(t)

Asks(p, why) ==
  /\ ~busy /\ receipt # Nothing
  /\ Begins(TRUE)
  /\ calls' = calls \cup {Comparing(p, why)}
  /\ UNCHANGED <<form, shown, requestVersion>>

Dirty == policy # receipt.policy

Applies == receipt # Nothing /\ Dirty /\ Asks(policy, "apply")

ChallengeFloor == 100000

Challenged(p) == [p EXCEPT !.liquidity = ChallengeFloor]

\* Slip: the challenge takes the form along.
SlipChallengesForm ==
  /\ receipt # Nothing /\ ~challengeActive
  /\ Asks(Challenged(policy), "challenge")

Challenges ==
  /\ receipt # Nothing /\ ~challengeActive
  /\ Asks(Challenged(receipt.policy), "challenge")

Restores == comparison # Nothing /\ Asks(baseline, "restore")

Verifies ==
  /\ ~busy /\ receipt # Nothing
  /\ busy' = TRUE /\ error' = FALSE
  /\ proof' = "PENDING" /\ lanes' = <<"pending", "pending", "pending">>
  /\ calls' = calls \cup {Hashing}
  /\ UNCHANGED <<form, shown, comparisonPending, requestVersion>>

-----------------------------------------------------------------------------
\* What comes back

\* Slip: an answer does not end the wait.
SlipNeverDone(c) == calls' = calls \ {c} /\ UNCHANGED busy

\* A request ends, and with it the page is no longer busy.
Ends(c) == calls' = calls \ {c} /\ busy' = FALSE

\* The policy of a new receipt is what the form shows and what Restore asks for.
Shows(r) == receipt' = r /\ policy' = r.policy /\ baseline' = r.policy

Loads(s) ==
  /\ Loading \in calls
  /\ s.label = "RECORDED" /\ s.ticker = FirstText.ticker
  /\ Decides(FirstText, DefaultPolicy, s)
  /\ Shows(Decide(FirstText, DefaultPolicy, s))
  /\ Ends(Loading)
  /\ UNCHANGED <<text, mode, comparison, inspected, challengeActive, preceding, checked,
                 comparisonPending, error, requestVersion>>

\* Slip: the comparison of the last snapshot stays.
SlipKeepsComparison(r) ==
  /\ Shows(r)
  /\ challengeActive' = FALSE /\ preceding' = Nothing /\ inspected' = None
  /\ UNCHANGED comparison

ShowsRun(r) ==
  /\ Shows(r)
  /\ inspected' = None /\ challengeActive' = FALSE /\ comparison' = Nothing
  /\ preceding' = Nothing

Decided(c, s) ==
  /\ c \in calls /\ c.kind = "run"
  /\ s.label = c.mode /\ s.ticker = c.text.ticker
  /\ Decides(c.text, c.policy, s)
  /\ c.version = requestVersion
  /\ ShowsRun(Decide(c.text, c.policy, s))
  /\ Ends(c)
  /\ UNCHANGED <<text, mode, checked, comparisonPending, error, requestVersion>>

\* Slip: the challenge itself becomes the baseline.
SlipBaselineIsShown(c, r) == r.policy

Baseline(c, r) ==
  IF c.why = "challenge" /\ ~c.active THEN c.receipt.policy
  ELSE IF c.why = "apply" THEN r.policy
  ELSE baseline

Compared(c) ==
  /\ c \in calls /\ c.kind = "compare"
  /\ Compares(c.receipt, c.policy)
  /\ LET r == WhatIf(c.receipt, c.policy) IN
       /\ baseline' = Baseline(c, r)
       /\ receipt' = r /\ policy' = r.policy
       /\ comparison' = [receipt |-> r, previous |-> c.receipt, changes |-> Changes(c.receipt, r)]
  /\ challengeActive' = (c.why = "challenge")
  /\ preceding' = IF c.why = "challenge" THEN c.receipt ELSE Nothing
  /\ comparisonPending' = FALSE
  /\ Ends(c)
  /\ UNCHANGED <<text, mode, inspected, checked, error, requestVersion>>

\* The browser's own hash of the receipt; the replay is asked for next.
Hashed(c) ==
  /\ c \in calls /\ c.kind = "hash"
  /\ lanes' = <<"pass", "pending", "pending">>
  /\ calls' = (calls \ {c}) \cup {Replaying(c, "pass")}
  /\ UNCHANGED <<form, shown, proof, busy, comparisonPending, error, requestVersion>>

Lit(b) == IF b THEN "pass" ELSE "fail"

Replayed(c) ==
  /\ c \in calls /\ c.kind = "replay"
  /\ Replayable(c.receipt)
  /\ lanes' = <<c.lane, Lit(DecisionMatches(c.receipt)), Lit(ProvenanceMatches(c.receipt))>>
  /\ proof' = IF c.lane = "pass" /\ Replays(c.receipt) THEN "MATCH" ELSE "MISMATCH"
  /\ Ends(c)
  /\ UNCHANGED <<form, shown, comparisonPending, error, requestVersion>>

\* The request fails: refused, the service is away, or the browser cannot hash.
Fails(c) ==
  /\ c \in calls
  /\ error' = TRUE
  /\ lanes' = IF c.kind \in {"hash", "replay"} THEN <<lanes[1], "fail", "fail">> ELSE lanes
  /\ comparisonPending' = FALSE
  /\ Ends(c)
  /\ UNCHANGED <<form, shown, proof, requestVersion>>

Answered ==
  \E c \in calls :
    \/ \E s \in Captures : Loads(s) \/ Decided(c, s)
    \/ Compared(c) \/ Hashed(c) \/ Replayed(c) \/ Fails(c)

UserActs == Edits \/ Inspects \/ Submits \/ Explores \/ Applies \/ Challenges \/ Restores \/ Verifies

Next == UserActs \/ Answered

Spec == Init /\ [][Next]_vars /\ WF_vars(Answered)

-----------------------------------------------------------------------------
\* Properties

ReceiptOK(r) ==
  /\ r.snapshot \in Captures /\ r.intent \in Texts \cup Samples \cup {FirstText}
  /\ r.policy \in Policy /\ r.label \in {"LIVE", "RECORDED"}
  /\ r.decision.selected \in Nat \cup {None}
  /\ r.decision.routes \subseteq [token : Nat, price : Int, blockers : SUBSET Rules]

\* The page holds forms, receipts and requests of the kinds it declares.
TypeOK ==
  /\ text \in Texts \cup Samples \cup {FirstText} /\ mode \in {"LIVE", "RECORDED"}
  /\ policy \in Policy /\ baseline \in Policy
  /\ receipt = Nothing \/ ReceiptOK(receipt)
  /\ preceding = Nothing \/ ReceiptOK(preceding)
  /\ comparison # Nothing => comparison.changes \subseteq Nat
  /\ inspected \in Nat \cup {None}
  /\ {challengeActive, busy, comparisonPending, error} \subseteq BOOLEAN
  /\ proof \in {"", "PENDING", "MATCH", "MISMATCH"}
  /\ lanes \in Lane \X Lane \X Lane
  /\ requestVersion \in 0..MaxRuns
  /\ \A c \in calls : c.kind \in {"load", "run", "compare", "hash", "replay"}

\* The disabled controls are all that keeps two requests from answering into
\* the same screen: compare and verify carry no version (page.tsx:122, 151).
OneRequestAtATime == Cardinality(calls) = IF busy THEN 1 ELSE 0

\* Whatever the chain of runs and comparisons, the receipt on the screen
\* replays: its decision follows from the snapshot and the policy it carries.
ReceiptReplays == receipt # Nothing => Replays(receipt)

\* The limits stated in the text bind every receipt, under every what-if
\* policy (decisions.py:278).
LimitsPersist ==
  receipt # Nothing =>
    /\ receipt.intent.maxPremium # None => receipt.policy.premium <= receipt.intent.maxPremium
    /\ receipt.intent.maxSlippage # None => receipt.policy.slippage <= receipt.intent.maxSlippage

\* The comparison on the screen is about the receipt on the screen, both of its
\* sides judge the same snapshot and intent, and the open route is one of that
\* receipt, whatever arrived since it was opened (design.md:11).
ComparisonIsOfTheReceipt ==
  /\ comparison # Nothing =>
       /\ comparison.receipt = receipt
       /\ comparison.previous.snapshot = receipt.snapshot
       /\ comparison.previous.intent = receipt.intent
  /\ inspected # None => receipt # Nothing /\ \E r \in receipt.decision.routes : r.token = inspected

\* Restore brings back the very receipt the challenge started from, edits in
\* the form and failed requests in between notwithstanding (design.md:17).
RestoreReturns ==
  [][\A c \in calls : c.kind = "compare" /\ c.why = "restore" /\ challengeActive /\ Compared(c)
        => receipt' = preceding]_vars

\* Under a stricter policy the same snapshot shortlists no more, and what led
\* and still qualifies still leads.
StricterShortlistsLess ==
  [][(receipt # Nothing /\ comparison' # comparison /\ comparison' # Nothing
        /\ Stricter(receipt'.policy, receipt.policy)) =>
       LET before == Viable(receipt.decision.routes)
           after  == Viable(receipt'.decision.routes)
       IN  /\ after \subseteq before
           /\ receipt'.decision.selected \in {r.token : r \in after} \cup {None}
           /\ (\E r \in after : r.token = receipt.decision.selected)
                => receipt'.decision.selected = receipt.decision.selected]_vars

\* What the session (ResearchSession) sees of the page.
Question == IF receipt = Nothing THEN Nothing
            ELSE [snapshot |-> receipt.snapshot, intent |-> receipt.intent]

Poses(s, intent)  == Analysable(intent) /\ WellFormed(s, intent)
Binds(intent, p)  == Admissible(p) /\ Effective(intent, p) = p

Session == INSTANCE ResearchSession WITH
  Intents <- Texts \cup Samples \cup {FirstText}, Policies <- Policy, FirstPolicy <- DefaultPolicy,
  question <- Question, chosen <- baseline, challenged <- challengeActive,
  screen <- receipt, beside <- comparison

\* Requests, failures and disabled controls notwithstanding, the page keeps the
\* session: each answer acts on the screen it finds, the challenge changes the
\* liquidity floor and nothing else, and Restore chooses what was chosen.
KeepsSession == Session!Spec

\* The page does not stay busy: every request answers or fails.
BusyEnds == busy ~> ~busy
=============================================================================
