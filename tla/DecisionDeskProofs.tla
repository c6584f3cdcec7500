------------------------- MODULE DecisionDeskProofs -------------------------
(***************************************************************************)
(* What TLAPS proves of the decision desk for every set of texts, policies *)
(* and captures: whatever the chain of runs, comparisons, challenges and   *)
(* failures, the receipt shown replays, keeps the limits of its text,      *)
(* stands beside a comparison and a route of its own, narrows under a      *)
(* stricter policy, and Restore brings back the receipt the challenge      *)
(* started from.                                                           *)
(***************************************************************************)
EXTENDS DecisionDesk, FiniteSetTheorems, WellFoundedInduction, TLAPS

\* A receipt that decide or compare has made.
Genuine(r) ==
  /\ r = Receipt(r.snapshot, r.intent, r.policy)
  /\ r.intent \in Intent /\ r.policy \in Policy
  /\ Admissible(r.policy) /\ Analysable(r.intent) /\ WellFormed(r.snapshot, r.intent)
  /\ Effective(r.intent, r.policy) = r.policy

\* What the closure of a request under way may rely on.
InFlight(c) ==
  /\ c.kind = "load" => ~challengeActive
  /\ c.kind = "run" => c.text \in Intent /\ c.policy \in Policy
  /\ c.kind = "compare" =>
       /\ Genuine(c.receipt) /\ c.receipt = receipt /\ c.policy \in Policy
       /\ c.why = "challenge" => ~c.active
       /\ c.why = "restore" /\ challengeActive => c.policy = preceding.policy

FormOK == text \in Intent /\ policy \in Policy /\ baseline \in Policy

Alone == IF busy THEN \E c : calls = {c} ELSE calls = {}

ReceiptGenuine == receipt = Nothing \/ Genuine(receipt)

ChallengeKnown ==
  challengeActive =>
    /\ Genuine(preceding) /\ baseline = preceding.policy
    /\ receipt # Nothing
    /\ preceding.snapshot = receipt.snapshot /\ preceding.intent = receipt.intent

IInv == FormOK /\ Alone /\ ReceiptGenuine /\ ChallengeKnown /\ \A c \in calls : InFlight(c)

-----------------------------------------------------------------------------
\* Limits and receipts

\* A limit is capped once and for all, and never above what the text states.
LEMMA CappedOnce ==
  ASSUME NEW limit \in Nat, NEW stated \in Nat \cup {None}
  PROVE  /\ Capped(limit, stated) \in Nat
         /\ Capped(limit, stated) <= limit
         /\ stated # None => Capped(limit, stated) <= stated
         /\ Capped(Capped(limit, stated), stated) = Capped(limit, stated)
BY DEF Capped, None

\* The effective policy is a policy, no looser than the one asked for, and its own effective policy.
LEMMA EffectiveOnce ==
  ASSUME NEW intent \in Intent, NEW p \in Policy
  PROVE  LET e == Effective(intent, p)
         IN  /\ e \in Policy /\ Effective(intent, e) = e
             /\ Admissible(p) => Admissible(e)
<1> DEFINE e == Effective(intent, p)
<1>1. intent.maxPremium \in Nat \cup {None} /\ intent.maxSlippage \in Nat \cup {None}
  BY DEF Intent
<1>2. p.premium \in Nat /\ p.slippage \in Nat
  BY DEF Policy
<1>3. /\ e.premium = Capped(p.premium, intent.maxPremium)
      /\ e.slippage = Capped(p.slippage, intent.maxSlippage)
      /\ e.parity = p.parity /\ e.liquidity = p.liquidity
  BY DEF Effective, Policy
<1>4. e \in Policy
  BY <1>1, <1>2, CappedOnce DEF Effective, Policy
<1>5. Effective(intent, e) = e
  <2>1. /\ Capped(e.premium, intent.maxPremium) = e.premium
        /\ Capped(e.slippage, intent.maxSlippage) = e.slippage
    BY <1>1, <1>2, <1>3, CappedOnce
  <2> HIDE DEF e
  <2> QED
    BY <1>4, <2>1, ZenonT(40) DEF Effective, Policy
<1>6. Admissible(p) => Admissible(e)
  <2>1. /\ e.premium \in Nat /\ e.premium <= p.premium
        /\ e.slippage \in Nat /\ e.slippage <= p.slippage
    BY <1>1, <1>2, <1>3, CappedOnce, ZenonT(40)
  <2> HIDE DEF e
  <2> QED
    BY <1>2, <1>3, <2>1, SMT DEF Admissible
<1> QED
  BY <1>4, <1>5, <1>6

\* What a receipt made of these three carries.
LEMMA ReceiptFields ==
  ASSUME NEW s, NEW i, NEW p
  PROVE  LET r == Receipt(s, i, p)
         IN  /\ r.snapshot = s /\ r.intent = i /\ r.policy = p
             /\ r.label = s.label /\ r.decision = Analysis(s, p)
BY DEF Receipt, Body

\* Under the effective policy a snapshot that can be analysed gives a genuine receipt.
LEMMA EffectiveReceipt ==
  ASSUME NEW s, NEW i \in Intent, NEW p \in Policy,
         Admissible(p), Analysable(i), WellFormed(s, i)
  PROVE  Genuine(Receipt(s, i, Effective(i, p)))
<1> DEFINE e == Effective(i, p)
           r == Receipt(s, i, e)
<1>1. e \in Policy /\ Admissible(e) /\ Effective(i, e) = e
  BY EffectiveOnce
<1> HIDE DEF e
<1>2. r.snapshot = s /\ r.intent = i /\ r.policy = e
  BY ReceiptFields
<1> QED
  BY <1>1, <1>2 DEF Genuine, e

\* A genuine receipt replays.
LEMMA GenuineReplays ==
  ASSUME NEW r, Genuine(r)
  PROVE  Replays(r)
<1>1. r.label = r.snapshot.label /\ r.decision = Analysis(r.snapshot, r.policy)
  <2> DEFINE q == Receipt(r.snapshot, r.intent, r.policy)
  <2>1. q.label = r.snapshot.label /\ q.decision = Analysis(r.snapshot, r.policy)
    BY ReceiptFields
  <2>2. q = r
    BY DEF Genuine
  <2> QED
    BY <2>1, <2>2
<1> QED
  BY <1>1 DEF Genuine, Replays, Replayable, DecisionMatches, ProvenanceMatches

\* The limits of the text bind a genuine receipt.
LEMMA GenuineLimits ==
  ASSUME NEW r, Genuine(r)
  PROVE  /\ r.intent.maxPremium # None => r.policy.premium <= r.intent.maxPremium
         /\ r.intent.maxSlippage # None => r.policy.slippage <= r.intent.maxSlippage
<1>1. /\ r.policy.premium \in Nat /\ r.policy.slippage \in Nat
      /\ r.intent.maxPremium \in Nat \cup {None} /\ r.intent.maxSlippage \in Nat \cup {None}
  BY DEF Genuine, Policy, Intent
<1>2. /\ r.policy.premium = Capped(r.policy.premium, r.intent.maxPremium)
      /\ r.policy.slippage = Capped(r.policy.slippage, r.intent.maxSlippage)
  BY DEF Genuine, Effective, Policy
<1> QED
  BY <1>1, <1>2, CappedOnce

\* A comparison judges the snapshot and the intent of the receipt it starts from.
LEMMA WhatIfGenuine ==
  ASSUME NEW r, Genuine(r), NEW p \in Policy, Admissible(p)
  PROVE  /\ Genuine(WhatIf(r, p))
         /\ WhatIf(r, p).snapshot = r.snapshot /\ WhatIf(r, p).intent = r.intent
<1>1. Genuine(Receipt(r.snapshot, r.intent, Effective(r.intent, p)))
  BY EffectiveReceipt DEF Genuine
<1> QED
  BY <1>1, ReceiptFields DEF WhatIf

\* Asking again for the policy of a genuine receipt gives that receipt again.
LEMMA SamePolicySameReceipt ==
  ASSUME NEW r, Genuine(r), NEW q, q.snapshot = r.snapshot, q.intent = r.intent
  PROVE  WhatIf(q, r.policy) = r
BY DEF WhatIf, Genuine

-----------------------------------------------------------------------------
\* Stricter policies

\* A share priced within a limit of its reference is within every wider one.
LEMMA WiderLimit ==
  ASSUME NEW d \in Int, NEW n \in Nat, NEW a \in Nat, NEW b \in Nat, a <= b
  PROVE  /\ d <= a * n => d <= b * n
         /\ d \in -a * n .. a * n => d \in -b * n .. b * n
<1>1. a * n \in Int /\ b * n \in Int /\ a * n <= b * n
  BY SMT
<1>2. (-a) * n = -(a * n) /\ (-b) * n = -(b * n)
  BY SMT
<1> QED
  BY <1>1, <1>2, SMT

\* Whatever stops a representation under a policy stops it under a stricter one.
THEOREM StricterBlocksMore ==
  ASSUME NEW p \in Policy, NEW q \in Policy, Stricter(p, q), NEW rep \in Representation,
         NEW rule \in Rules, Passes(rule, rep, p)
  PROVE  Passes(rule, rep, q)
<1>1. rule \in {"issuer", "price", "reference", "premium", "parity", "market", "attestation",
                "liquidity"}
  BY DEF Rules
<1>2. CASE rule = "issuer"
  BY <1>2 DEF Passes, Stricter
<1>3. CASE rule = "price"
  BY <1>3 DEF Passes
<1>4. CASE rule = "reference"
  BY <1>4 DEF Passes
<1>5. CASE rule = "market"
  BY <1>5 DEF Passes, Stricter, Policy
<1>6. CASE rule = "attestation"
  BY <1>6 DEF Passes, Stricter, Policy
<1>7. CASE rule = "liquidity"
  BY <1>7 DEF Passes, Stricter, Policy
<1>8. CASE rule \in {"premium", "parity"} /\ ~Comparable(rep)
  BY <1>8 DEF Passes
<1>9. CASE rule \in {"premium", "parity"} /\ Comparable(rep)
  <2>1. /\ rep.reference \in Nat /\ Deviation(rep) \in Int
        /\ p.premium \in Nat /\ q.premium \in Nat /\ p.premium <= q.premium
        /\ p.parity \in Nat /\ q.parity \in Nat /\ p.parity <= q.parity
    BY <1>9, SMT DEF Comparable, Independent, Deviation, BPS, Representation, Policy, Stricter
  <2>2. CASE rule = "premium"
    BY <1>9, <2>1, <2>2, WiderLimit DEF Passes
  <2>3. CASE rule = "parity"
    BY <1>9, <2>1, <2>3, WiderLimit DEF Passes
  <2> QED
    BY <1>9, <2>2, <2>3
<1> QED
  BY <1>1, <1>2, <1>3, <1>4, <1>5, <1>6, <1>7, <1>8, <1>9

-----------------------------------------------------------------------------
\* The desk

DefaultIsAPolicy == DefaultPolicy \in Policy

LEMMA DefaultOK == DefaultIsAPolicy
BY DEF DefaultIsAPolicy, DefaultPolicy, Policy, Issuers

LEMMA InitHolds == Init => IInv
<1> SUFFICES ASSUME Init PROVE IInv
  OBVIOUS
<1>1. FormOK
  BY DeskAssumption, DefaultOK DEF Init, FormOK, DefaultIsAPolicy
<1>2. Alone
  BY DEF Init, Alone
<1>3. \A c \in calls : InFlight(c)
  <2> SUFFICES ASSUME NEW c \in calls PROVE InFlight(c)
    OBVIOUS
  <2>1. c = Loading
    BY DEF Init
  <2>2. c.kind # "run" /\ c.kind # "compare"
    BY <2>1 DEF Loading
  <2> QED
    BY <2>2 DEF Init, InFlight
<1> QED
  BY <1>1, <1>2, <1>3 DEF Init, IInv, ReceiptGenuine, ChallengeKnown

-----------------------------------------------------------------------------
\* One step each

\* Requests under way do not mind what the user types or opens while they are.
LEMMA EditsHold ==
  ASSUME IInv, Edits PROVE IInv'
<1>1. FormOK'
  BY DeskAssumption DEF IInv, FormOK, Edits
<1>2. calls = {} /\ Alone'
  BY DEF IInv, Alone, Edits
<1>3. ReceiptGenuine' /\ ChallengeKnown'
  BY DEF IInv, ReceiptGenuine, ChallengeKnown, Edits, shown
<1> QED
  BY <1>1, <1>2, <1>3 DEF IInv, Edits

LEMMA InspectsHold ==
  ASSUME IInv, Inspects PROVE IInv'
BY DEF Inspects, IInv, FormOK, Alone, ReceiptGenuine, ChallengeKnown, InFlight, form

\* A request that the user sends is alone, and its closure holds what is on the screen.
LEMMA SendHolds ==
  ASSUME IInv, ~busy, busy', NEW c, InFlight(c)', calls' = calls \cup {c},
         FormOK', UNCHANGED <<shown, baseline>>
  PROVE  IInv'
<1>1. calls = {}
  BY DEF IInv, Alone
<1>2. calls' = {c}
  BY <1>1
<1>3. Alone' /\ \A d \in calls' : InFlight(d)'
  BY <1>2 DEF Alone
<1>4. ReceiptGenuine' /\ ChallengeKnown'
  BY DEF IInv, ReceiptGenuine, ChallengeKnown, shown
<1> QED
  BY <1>3, <1>4 DEF IInv

LEMMA RunsHold ==
  ASSUME IInv, NEW t \in Intent, Runs(t) PROVE IInv'
<1> PICK c : c = Running(requestVersion', t)
  OBVIOUS
<1>1. /\ c.kind = "run" /\ c.kind \notin {"load", "compare"} /\ c.text = t /\ c.policy = policy
  BY DEF Running
<1>2. InFlight(c)'
  BY <1>1 DEF IInv, FormOK, InFlight, Runs
<1>3. FormOK'
  BY DEF IInv, FormOK, Runs
<1> QED
  BY <1>2, <1>3, SendHolds DEF Runs, Begins

LEMMA AsksHold ==
  ASSUME IInv, NEW p \in Policy, NEW why, Asks(p, why),
         why = "challenge" => ~challengeActive,
         why = "restore" /\ challengeActive => p = preceding.policy
  PROVE  IInv'
<1> PICK c : c = Comparing(p, why)
  OBVIOUS
<1>1. /\ c.kind = "compare" /\ c.kind \notin {"load", "run"} /\ c.why = why /\ c.receipt = receipt
      /\ c.policy = p /\ c.active = challengeActive
  BY DEF Comparing
<1>2. Genuine(receipt)
  BY DEF IInv, ReceiptGenuine, Asks
<1>3. UNCHANGED <<receipt, challengeActive, preceding>>
  BY DEF Asks, shown
<1>4. InFlight(c)'
  BY <1>1, <1>2, <1>3 DEF InFlight
<1>5. FormOK' /\ UNCHANGED <<shown, baseline>>
  BY DEF IInv, FormOK, Asks, form
<1> QED
  BY <1>4, <1>5, SendHolds DEF Asks, Begins

LEMMA VerifiesHold ==
  ASSUME IInv, Verifies PROVE IInv'
<1> PICK c : c = Hashing
  OBVIOUS
<1>1. c.kind \notin {"load", "run", "compare"}
  BY DEF Hashing
<1>2. InFlight(c)'
  BY <1>1 DEF InFlight
<1>3. FormOK' /\ UNCHANGED <<shown, baseline>>
  BY DEF IInv, FormOK, Verifies, form
<1> QED
  BY <1>2, <1>3, SendHolds DEF Verifies

\* A policy in which the challenge's floor replaces the user's is a policy.
LEMMA ChallengeIsAPolicy ==
  ASSUME NEW p \in Policy PROVE Challenged(p) \in Policy
<1>1. ChallengeFloor \in Nat
  BY SMT DEF ChallengeFloor
<1> QED
  BY <1>1 DEF Challenged, Policy

LEMMA UserHolds ==
  ASSUME IInv, UserActs PROVE IInv'
<1>1. CASE Edits
  BY <1>1, EditsHold
<1>2. CASE Inspects
  BY <1>2, InspectsHold
<1>3. CASE Submits
  BY <1>3, RunsHold DEF Submits, IInv, FormOK
<1>4. CASE Explores
  BY <1>4, RunsHold, DeskAssumption DEF Explores
<1>5. CASE Applies
  BY <1>5, AsksHold DEF Applies, IInv, FormOK
<1>6. CASE Challenges
  <2>1. Genuine(receipt)
    BY <1>6 DEF Challenges, IInv, ReceiptGenuine
  <2>2. Challenged(receipt.policy) \in Policy
    BY <2>1, ChallengeIsAPolicy DEF Genuine
  <2> QED
    BY <1>6, <2>2, AsksHold DEF Challenges
<1>7. CASE Restores
  BY <1>7, AsksHold DEF Restores, IInv, FormOK, ChallengeKnown
<1>8. CASE Verifies
  BY <1>8, VerifiesHold
<1> QED
  BY <1>1, <1>2, <1>3, <1>4, <1>5, <1>6, <1>7, <1>8 DEF UserActs

\* Once the only request under way has ended, none is.
LEMMA EndsAlone ==
  ASSUME IInv, NEW c \in calls, Ends(c)
  PROVE  calls' = {} /\ Alone'
<1>1. calls = {c}
  BY DEF IInv, Alone
<1> QED
  BY <1>1 DEF Ends, Alone

LEMMA LoadsHold ==
  ASSUME IInv, NEW s, Loads(s) PROVE IInv'
<1> PICK r : r = Decide(FirstText, DefaultPolicy, s)
  OBVIOUS
<1>1. Genuine(r)
  BY EffectiveReceipt, DefaultOK, DeskAssumption
     DEF Loads, Decides, Decide, DefaultIsAPolicy
<1>2. receipt' = r /\ policy' = r.policy /\ baseline' = r.policy
  BY DEF Loads, Shows
<1>3. calls' = {} /\ Alone'
  BY EndsAlone DEF Loads
<1>4. FormOK'
  BY <1>1, <1>2 DEF IInv, FormOK, Loads, Genuine
<1>5. ~challengeActive /\ ~challengeActive'
  BY DEF IInv, InFlight, Loads, Loading
<1> QED
  BY <1>1, <1>2, <1>3, <1>4, <1>5 DEF IInv, ReceiptGenuine, ChallengeKnown

LEMMA DecidedHolds ==
  ASSUME IInv, NEW c, NEW s, Decided(c, s) PROVE IInv'
<1> PICK r : r = Decide(c.text, c.policy, s)
  OBVIOUS
<1>1. Genuine(r)
  <2>1. c.text \in Intent /\ c.policy \in Policy
    BY DEF IInv, InFlight, Decided
  <2> QED
    BY <2>1, EffectiveReceipt DEF Decided, Decides, Decide
<1>2. /\ receipt' = r /\ policy' = r.policy /\ baseline' = r.policy
      /\ challengeActive' = FALSE /\ text' = text
  BY DEF Decided, ShowsRun, Shows
<1>3. calls' = {} /\ Alone'
  BY EndsAlone DEF Decided
<1>4. FormOK'
  BY <1>1, <1>2 DEF IInv, FormOK, Genuine
<1> QED
  BY <1>1, <1>2, <1>3, <1>4 DEF IInv, ReceiptGenuine, ChallengeKnown

LEMMA ComparedHolds ==
  ASSUME IInv, NEW c, Compared(c) PROVE IInv'
<1> PICK r : r = WhatIf(c.receipt, c.policy)
  OBVIOUS
<1>1. /\ Genuine(c.receipt) /\ c.receipt = receipt /\ c.policy \in Policy
      /\ c.why = "challenge" => ~c.active
  BY DEF IInv, InFlight, Compared
<1>2. Genuine(r) /\ r.snapshot = receipt.snapshot /\ r.intent = receipt.intent
  BY <1>1, WhatIfGenuine DEF Compared, Compares
<1>3. /\ receipt' = r /\ policy' = r.policy /\ baseline' = Baseline(c, r) /\ text' = text
      /\ challengeActive' = (c.why = "challenge")
      /\ preceding' = IF c.why = "challenge" THEN c.receipt ELSE Nothing
  BY DEF Compared
<1>4. calls' = {} /\ Alone'
  BY EndsAlone DEF Compared
<1>5. Baseline(c, r) \in Policy
  BY <1>1, <1>2 DEF Baseline, Genuine, IInv, FormOK
<1>6. FormOK'
  BY <1>2, <1>3, <1>5 DEF IInv, FormOK, Genuine
<1>7. ReceiptGenuine'
  BY <1>2, <1>3 DEF ReceiptGenuine
<1>8. ChallengeKnown'
  <2>1. SUFFICES ASSUME c.why = "challenge"
                 PROVE  /\ Genuine(preceding') /\ baseline' = preceding'.policy
                        /\ receipt' # Nothing
                        /\ preceding'.snapshot = receipt'.snapshot
                        /\ preceding'.intent = receipt'.intent
    BY <1>3 DEF ChallengeKnown
  <2>2. preceding' = receipt /\ baseline' = receipt.policy
    BY <2>1, <1>1, <1>3 DEF Baseline
  <2>3. r # Nothing
    BY <1>2 DEF Genuine, Receipt, Body, Nothing
  <2> QED
    BY <2>2, <2>3, <1>1, <1>2, <1>3
<1> QED
  BY <1>4, <1>6, <1>7, <1>8 DEF IInv

LEMMA HashedHolds ==
  ASSUME IInv, NEW c, Hashed(c) PROVE IInv'
<1> PICK d : d = Replaying(c, "pass")
  OBVIOUS
<1>1. d.kind \notin {"load", "run", "compare"}
  BY DEF Replaying
<1>2. calls = {c} /\ busy
  BY DEF IInv, Alone, Hashed
<1>3. calls' = {d} /\ busy'
  BY <1>2 DEF Hashed
<1>4. Alone' /\ \A e \in calls' : InFlight(e)'
  BY <1>1, <1>3 DEF Alone, InFlight
<1>5. FormOK' /\ ReceiptGenuine' /\ ChallengeKnown'
  BY DEF IInv, FormOK, ReceiptGenuine, ChallengeKnown, Hashed, form, shown
<1> QED
  BY <1>4, <1>5 DEF IInv

\* An answer that changes nothing of what is shown.
LEMMA LeavesHold ==
  ASSUME IInv, NEW c \in calls, Ends(c), UNCHANGED <<form, shown>>
  PROVE  IInv'
<1>1. calls' = {} /\ Alone'
  BY EndsAlone
<1>2. FormOK' /\ ReceiptGenuine' /\ ChallengeKnown'
  BY DEF IInv, FormOK, ReceiptGenuine, ChallengeKnown, form, shown
<1> QED
  BY <1>1, <1>2 DEF IInv

LEMMA AnsweredHolds ==
  ASSUME IInv, Answered PROVE IInv'
<1>1. PICK c \in calls : \/ \E s \in Captures : Loads(s) \/ Decided(c, s)
                         \/ Compared(c) \/ Hashed(c) \/ Replayed(c) \/ Fails(c)
  BY DEF Answered
<1>2. CASE \E s \in Captures : Loads(s)
  BY <1>2, LoadsHold
<1>3. CASE \E s \in Captures : Decided(c, s)
  BY <1>3, DecidedHolds
<1>4. CASE Compared(c)
  BY <1>4, ComparedHolds
<1>5. CASE Hashed(c)
  BY <1>5, HashedHolds
<1>6. CASE Replayed(c)
  BY <1>6, LeavesHold DEF Replayed
<1>7. CASE Fails(c)
  BY <1>7, LeavesHold DEF Fails
<1> QED
  BY <1>1, <1>2, <1>3, <1>4, <1>5, <1>6, <1>7

LEMMA StutterHolds ==
  ASSUME IInv, UNCHANGED vars PROVE IInv'
BY DEF IInv, FormOK, Alone, ReceiptGenuine, ChallengeKnown, InFlight, vars, form, shown

\* IInv, that the receipt is genuine, that one request is under way at most and
\* that the baseline of a challenge is the policy it started from, always holds.
THEOREM Invariance == Spec => []IInv
<1>1. Init => IInv
  BY InitHolds
<1>2. IInv /\ [Next]_vars => IInv'
  BY UserHolds, AnsweredHolds, StutterHolds DEF Next
<1> QED
  BY <1>1, <1>2, PTL DEF Spec

\* The receipt on the screen replays, whatever chain of requests led to it.
THEOREM ReceiptReplaysHolds == Spec => []ReceiptReplays
<1>1. IInv => ReceiptReplays
  BY GenuineReplays DEF IInv, ReceiptGenuine, ReceiptReplays
<1> QED
  BY <1>1, Invariance, PTL

\* No what-if policy lifts the limits stated in the text.
THEOREM LimitsPersistHolds == Spec => []LimitsPersist
<1>1. IInv => LimitsPersist
  BY GenuineLimits DEF IInv, ReceiptGenuine, LimitsPersist
<1> QED
  BY <1>1, Invariance, PTL

\* There is one request under way while the page is busy, and none otherwise.
THEOREM OneRequestHolds == Spec => []OneRequestAtATime
<1>1. IInv => OneRequestAtATime
  BY FS_EmptySet, FS_Singleton DEF IInv, Alone, OneRequestAtATime
<1> QED
  BY <1>1, Invariance, PTL

\* Restore brings back the very receipt the challenge started from.
THEOREM RestoreReturnsHolds == Spec => RestoreReturns
<1> DEFINE Back == \A c \in calls : c.kind = "compare" /\ c.why = "restore" /\ challengeActive
                                      /\ Compared(c) => receipt' = preceding
<1>1. IInv /\ [Next]_vars => [Back]_vars
  <2>1. SUFFICES ASSUME IInv, NEW c \in calls, c.kind = "compare", c.why = "restore",
                        challengeActive, Compared(c)
                 PROVE  receipt' = preceding
    OBVIOUS
  <2>2. c.receipt = receipt /\ c.policy = preceding.policy
    BY <2>1 DEF IInv, InFlight
  <2>3. /\ Genuine(preceding)
        /\ receipt.snapshot = preceding.snapshot /\ receipt.intent = preceding.intent
    BY <2>1 DEF IInv, ChallengeKnown
  <2>4. receipt' = WhatIf(receipt, preceding.policy)
    BY <2>1, <2>2 DEF Compared
  <2> QED
    BY <2>3, <2>4, SamePolicySameReceipt
<1> QED
  BY <1>1, Invariance, PTL DEF Spec, RestoreReturns
-----------------------------------------------------------------------------
\* The shortlist

\* A set of naturals that is not empty has a least element.
LEMMA LeastNatural ==
  ASSUME NEW T, T \subseteq Nat, T # {}
  PROVE  \E n \in T : \A m \in T : n <= m
<1> DEFINE R == {ss \in Nat \X Nat : ss[1] < ss[2]}
<1>1. IsWellFoundedOn(R, Nat)
  BY NatLessThanWellFounded DEF OpToRel
<1>2. \A m, n \in Nat : m < n => <<m, n>> \in R
  OBVIOUS
<1> HIDE DEF R
<1>3. PICK n \in T : \A m \in T : ~ (<<m, n>> \in R)
  BY <1>1, WFMin
<1>4. \A m \in T : ~ (m < n)
  BY <1>2, <1>3
<1> QED
  BY <1>3, <1>4

Rows == [token : Nat, price : Int, blockers : SUBSET Rules]

\* A row carries what it was made of.
LEMMA RowFields ==
  ASSUME NEW rep \in Representation, NEW p
  PROVE  /\ Row(rep, p) \in Rows
         /\ Row(rep, p).token = rep.token /\ Row(rep, p).price = rep.price
         /\ Row(rep, p).blockers = Blockers(rep, p)
<1>1. rep.token \in Nat /\ rep.price \in Int
  BY DEF Representation
<1>2. Blockers(rep, p) \in SUBSET Rules
  BY DEF Blockers
<1> QED
  BY <1>1, <1>2 DEF Row, Rows

\* What nothing blocks has a price.
LEMMA ViableIsPriced ==
  ASSUME NEW rep \in Representation, NEW p, Blockers(rep, p) = {}
  PROVE  rep.price > 0
<1>1. "price" \in Rules
  BY DEF Rules
<1>2. Passes("price", rep, p)
  BY <1>1 DEF Blockers
<1> QED
  BY <1>2 DEF Passes, Priced

\* The routes of an analysis are the rows of its snapshot, and what is viable has a price.
LEMMA RoutesOfAnalysis ==
  ASSUME NEW s \in Snapshot, NEW p
  PROVE  LET R == Analysis(s, p).routes
         IN  /\ R = {Row(s.reps[k], p) : k \in DOMAIN s.reps}
             /\ Analysis(s, p).selected = Selected(R)
             /\ \A k \in DOMAIN s.reps : s.reps[k] \in Representation
             /\ R \subseteq Rows
             /\ \A r \in Viable(R) : r.price > 0
<1> DEFINE R == {Row(s.reps[k], p) : k \in DOMAIN s.reps}
<1>1. Analysis(s, p).routes = R /\ Analysis(s, p).selected = Selected(R)
  BY DEF Analysis
<1>2. \A k \in DOMAIN s.reps : s.reps[k] \in Representation
  BY DEF Snapshot
<1>3. R \subseteq Rows
  BY <1>2, RowFields
<1>4. ASSUME NEW r \in Viable(R) PROVE r.price > 0
  <2>1. PICK k \in DOMAIN s.reps : r = Row(s.reps[k], p)
    BY DEF Viable
  <2>2. r.blockers = {}
    BY DEF Viable
  <2> QED
    BY <1>2, <2>1, <2>2, RowFields, ViableIsPriced
<1> QED
  BY <1>1, <1>2, <1>3, <1>4

\* The route that is selected comes before every other that is viable.
LEMMA SelectedIsFirst ==
  ASSUME NEW R, R \subseteq Rows, Viable(R) # {}, \A r \in Viable(R) : r.price > 0
  PROVE  \E f \in Viable(R) : Selected(R) = f.token /\ \A o \in Viable(R) : ~Before(o, f)
<1> DEFINE V == Viable(R)
           First(f) == \A o \in V : ~Before(o, f)
<1>1. \A r \in V : r.price \in Nat /\ r.token \in Nat
  <2> SUFFICES ASSUME NEW r \in V PROVE r.price \in Nat /\ r.token \in Nat
    OBVIOUS
  <2>1. r \in Rows /\ r.price > 0
    BY DEF Viable
  <2>2. r.price \in Int /\ r.token \in Nat
    BY <2>1 DEF Rows
  <2> QED
    BY <2>1, <2>2
<1>2. PICK n \in {r.price : r \in V} : \A m \in {r.price : r \in V} : n <= m
  <2>1. {r.price : r \in V} \subseteq Nat /\ {r.price : r \in V} # {}
    BY <1>1
  <2> QED
    BY <2>1, LeastNatural
<1> DEFINE W == {r \in V : r.price = n}
<1>3. PICK t \in {r.token : r \in W} : \A m \in {r.token : r \in W} : t <= m
  <2>1. {r.token : r \in W} \subseteq Nat /\ {r.token : r \in W} # {}
    BY <1>1, <1>2
  <2> QED
    BY <2>1, LeastNatural
<1>4. PICK f \in W : f.token = t
  BY <1>3
<1>5. f \in V /\ First(f)
  <2> SUFFICES ASSUME NEW o \in V PROVE ~Before(o, f)
    BY <1>4
  <2>1. /\ o.price \in Nat /\ o.token \in Nat /\ n \in Nat /\ t \in Nat
        /\ f.price = n /\ f.token = t /\ n <= o.price
    BY <1>1, <1>2, <1>4
  <2>2. o.price = n => t <= o.token
    BY <1>3
  <2> QED
    BY <2>1, <2>2 DEF Before
<1>6. Selected(R) = (CHOOSE r \in V : First(r)).token
  BY DEF Selected
<1> HIDE DEF V, First
<1>7. PICK g \in V : g = (CHOOSE r \in V : First(r)) /\ First(g)
  BY <1>5
<1> QED
  BY <1>6, <1>7 DEF V, First

\* What is selected is the token of a viable route, or None where there is none.
LEMMA SelectedTyped ==
  ASSUME NEW R, R \subseteq Rows, \A r \in Viable(R) : r.price > 0
  PROVE  Selected(R) \in {r.token : r \in Viable(R)} \cup {None} /\ Selected(R) \in Nat \cup {None}
<1>1. CASE Viable(R) = {}
  BY <1>1 DEF Selected
<1>2. CASE Viable(R) # {}
  <2>1. PICK f \in Viable(R) : Selected(R) = f.token
    BY <1>2, SelectedIsFirst
  <2>2. f.token \in Nat
    BY DEF Viable, Rows
  <2> QED
    BY <2>1, <2>2
<1> QED
  BY <1>1, <1>2

\* Every viable row of a snapshot is one under a laxer policy.
LEMMA StaysViable ==
  ASSUME NEW s \in Snapshot, NEW p \in Policy, NEW q \in Policy, Stricter(p, q)
  PROVE  Viable(Analysis(s, p).routes) \subseteq Viable(Analysis(s, q).routes)
<1> SUFFICES ASSUME NEW r \in Viable(Analysis(s, p).routes)
             PROVE  r \in Viable(Analysis(s, q).routes)
  OBVIOUS
<1>1. PICK k \in DOMAIN s.reps : r = Row(s.reps[k], p)
  BY RoutesOfAnalysis DEF Viable
<1>2. s.reps[k] \in Representation
  BY RoutesOfAnalysis
<1>3. r.blockers = {} /\ r.blockers = Blockers(s.reps[k], p)
  BY <1>1, <1>2, RowFields DEF Viable
<1>4. Blockers(s.reps[k], q) = {}
  <2>1. \A rule \in Rules : Passes(rule, s.reps[k], p)
    BY <1>3 DEF Blockers
  <2>2. \A rule \in Rules : Passes(rule, s.reps[k], q)
    BY <1>2, <2>1, StricterBlocksMore
  <2> QED
    BY <2>2 DEF Blockers
<1>5. r = Row(s.reps[k], q)
  BY <1>1, <1>3, <1>4 DEF Row
<1>6. r \in Analysis(s, q).routes
  BY <1>5, RoutesOfAnalysis
<1> QED
  BY <1>6, <1>3 DEF Viable

\* Tokens tell the rows of a snapshot apart.
LEMMA TokenIsOneRow ==
  ASSUME NEW s \in Snapshot, NEW p,
         \A i, j \in DOMAIN s.reps : s.reps[j].token = s.reps[i].token => i = j,
         NEW a \in Analysis(s, p).routes, NEW b \in Analysis(s, p).routes, a.token = b.token
  PROVE  a = b
<1>1. PICK i \in DOMAIN s.reps : a = Row(s.reps[i], p)
  BY RoutesOfAnalysis
<1>2. PICK j \in DOMAIN s.reps : b = Row(s.reps[j], p)
  BY RoutesOfAnalysis
<1>3. a.token = s.reps[i].token /\ b.token = s.reps[j].token
  BY <1>1, <1>2, RoutesOfAnalysis, RowFields
<1> QED
  BY <1>1, <1>2, <1>3

\* Of two rows one comes first, unless they have the same price and token.
LEMMA OneIsFirst ==
  ASSUME NEW a \in Rows, NEW b \in Rows, ~Before(a, b), ~Before(b, a)
  PROVE  a.token = b.token
<1>1. a.price \in Int /\ b.price \in Int /\ a.token \in Nat /\ b.token \in Nat
  BY DEF Rows
<1> QED
  BY <1>1 DEF Before

(***************************************************************************)
(* decisions.py: for any snapshot, a stricter policy shortlists no more,   *)
(* and the route that led leads on if it still qualifies.                  *)
(***************************************************************************)
THEOREM StricterShortlist ==
  ASSUME NEW s \in Snapshot, NEW p \in Policy, NEW q \in Policy, Stricter(p, q),
         \A i, j \in DOMAIN s.reps : s.reps[j].token = s.reps[i].token => i = j
  PROVE  LET before == Viable(Analysis(s, q).routes)
             after  == Viable(Analysis(s, p).routes)
         IN  /\ after \subseteq before
             /\ Analysis(s, p).selected \in {r.token : r \in after} \cup {None}
             /\ (\E r \in after : r.token = Analysis(s, q).selected)
                  => Analysis(s, p).selected = Analysis(s, q).selected
<1> DEFINE Rq == Analysis(s, q).routes
           Rp == Analysis(s, p).routes
<1>1. /\ Rq \subseteq Rows /\ Rp \subseteq Rows
      /\ \A r \in Viable(Rq) : r.price > 0
      /\ \A r \in Viable(Rp) : r.price > 0
      /\ Analysis(s, p).selected = Selected(Rp) /\ Analysis(s, q).selected = Selected(Rq)
  BY RoutesOfAnalysis
<1>2. Viable(Rp) \subseteq Viable(Rq) /\ Viable(Rp) \subseteq Rp /\ Viable(Rq) \subseteq Rq
  BY StaysViable DEF Viable
<1>3. \A a, b \in Rq : a.token = b.token => a = b
  BY TokenIsOneRow
<1> HIDE DEF Rq, Rp
<1>4. Selected(Rp) \in {r.token : r \in Viable(Rp)} \cup {None}
  BY <1>1, SelectedTyped
<1>5. ASSUME NEW r \in Viable(Rp), r.token = Selected(Rq)
      PROVE  Selected(Rp) = Selected(Rq)
  <2>1. Viable(Rp) # {} /\ Viable(Rq) # {}
    BY <1>2, <1>5
  <2>2. PICK f \in Viable(Rq) : Selected(Rq) = f.token /\ \A o \in Viable(Rq) : ~Before(o, f)
    BY <1>1, <2>1, SelectedIsFirst
  <2>3. PICK g \in Viable(Rp) : Selected(Rp) = g.token /\ \A o \in Viable(Rp) : ~Before(o, g)
    BY <1>1, <2>1, SelectedIsFirst
  <2>4. f = r
    BY <1>2, <1>3, <1>5, <2>2
  <2>5. ~Before(g, f) /\ ~Before(f, g)
    BY <1>2, <2>2, <2>3, <2>4
  <2>6. f \in Rows /\ g \in Rows
    BY <1>1, <1>2, <2>2, <2>3
  <2> QED
    BY <2>2, <2>3, <2>5, <2>6, OneIsFirst
<1> QED
  BY <1>1, <1>2, <1>4, <1>5 DEF Rq, Rp

-----------------------------------------------------------------------------
(* What stands beside the receipt.                                         *)

Stated == Texts \cup Samples \cup {FirstText}

\* What an answer may rely on besides InFlight: the page is empty before its first receipt.
Kept(c) ==
  /\ c.kind \in {"load", "run", "compare", "hash", "replay"}
  /\ c.kind = "load" => receipt = Nothing /\ comparison = Nothing /\ inspected = None
  /\ c.kind = "run" => c.text \in Stated
  /\ c.kind = "replay" => c.lane \in Lane

Typed ==
  /\ text \in Stated /\ mode \in {"LIVE", "RECORDED"}
  /\ inspected \in Nat \cup {None}
  /\ challengeActive \in BOOLEAN /\ busy \in BOOLEAN
  /\ comparisonPending \in BOOLEAN /\ error \in BOOLEAN
  /\ proof \in {"", "PENDING", "MATCH", "MISMATCH"}
  /\ lanes \in Lane \X Lane \X Lane
  /\ requestVersion \in 0..MaxRuns

\* The receipts that may be on the screen.
Sound(r) == Genuine(r) /\ r.snapshot \in Captures /\ r.intent \in Stated

Beside ==
  /\ receipt = Nothing \/ Sound(receipt)
  /\ preceding = Nothing \/ Sound(preceding)
  /\ comparison # Nothing =>
       /\ Sound(receipt) /\ Sound(comparison.previous)
       /\ comparison.changes = Changes(comparison.previous, receipt)

SInv == Typed /\ Beside /\ ComparisonIsOfTheReceipt /\ \A c \in calls : Kept(c)

\* A genuine receipt holds the analysis of its snapshot.
LEMMA GenuineAnalysis ==
  ASSUME NEW r, Genuine(r)
  PROVE  /\ r.decision = Analysis(r.snapshot, r.policy) /\ r.label = r.snapshot.label
         /\ r # Nothing
<1>1. Replays(r)
  BY GenuineReplays
<1>2. r # Nothing
  BY DEF Genuine, Receipt, Body, Nothing
<1> QED
  BY <1>1, <1>2 DEF Replays, DecisionMatches, ProvenanceMatches

\* The tokens a snapshot is about, whatever the policy.
TokensOf(s) == {s.reps[k].token : k \in DOMAIN s.reps}

LEMMA SoundRoutes ==
  ASSUME NEW r, Sound(r)
  PROVE  /\ r.snapshot \in Snapshot
         /\ r.decision.routes \subseteq Rows
         /\ r.decision.selected \in Nat \cup {None}
         /\ {x.token : x \in r.decision.routes} = TokensOf(r.snapshot)
<1>1. r.snapshot \in Snapshot
  BY DeskAssumption DEF Sound
<1>2. r.decision = Analysis(r.snapshot, r.policy)
  BY GenuineAnalysis DEF Sound
<1> PICK s \in Snapshot : s = r.snapshot
  BY <1>1
<1> PICK p : p = r.policy
  OBVIOUS
<1> DEFINE R == Analysis(s, p).routes
<1>3. /\ R = {Row(s.reps[k], p) : k \in DOMAIN s.reps}
      /\ R \subseteq Rows /\ Analysis(s, p).selected = Selected(R)
      /\ \A x \in Viable(R) : x.price > 0
      /\ \A k \in DOMAIN s.reps : s.reps[k] \in Representation
  BY RoutesOfAnalysis
<1> HIDE DEF R
<1>4. \A k \in DOMAIN s.reps : Row(s.reps[k], p).token = s.reps[k].token
  BY <1>3, RowFields
<1>5. {x.token : x \in R} = TokensOf(s)
  BY <1>3, <1>4 DEF TokensOf
<1>6. Selected(R) \in Nat \cup {None}
  BY <1>3, SelectedTyped
<1> QED
  BY <1>1, <1>2, <1>3, <1>5, <1>6 DEF R

LEMMA SoundIsOK ==
  ASSUME NEW r, Sound(r)
  PROVE  ReceiptOK(r)
<1>1. r.label \in {"LIVE", "RECORDED"}
  BY SoundRoutes, GenuineAnalysis DEF Sound, Snapshot
<1>2. r.snapshot \in Captures /\ r.intent \in Stated /\ r.policy \in Policy
  BY DEF Sound, Genuine
<1> QED
  BY <1>1, <1>2, SoundRoutes DEF ReceiptOK, Stated, Rows

\* What changes between two receipts are tokens of the later one.
LEMMA ChangesAreTokens ==
  ASSUME NEW a, NEW b, Sound(b)
  PROVE  Changes(a, b) \subseteq Nat
<1>1. b.decision.routes \subseteq Rows
  BY SoundRoutes
<1>2. {x.token : x \in b.decision.routes} \subseteq Nat
  BY <1>1 DEF Rows
<1> QED
  BY <1>2 DEF Changes

-----------------------------------------------------------------------------

LEMMA ShownInit == Init => SInv
<1> SUFFICES ASSUME Init PROVE SInv
  OBVIOUS
<1>1. Typed
  <2>1. text \in Stated /\ mode \in {"LIVE", "RECORDED"}
    BY DEF Init, Stated
  <2>2. Idle \in Lane \X Lane \X Lane
    BY DEF Idle, Lane
  <2>3. 0 \in 0..MaxRuns
    BY DeskAssumption
  <2> QED
    BY <2>1, <2>2, <2>3 DEF Init, Typed
<1>2. Beside /\ ComparisonIsOfTheReceipt
  BY DEF Init, Beside, ComparisonIsOfTheReceipt
<1>3. \A c \in calls : Kept(c)
  <2> SUFFICES ASSUME NEW c \in calls PROVE Kept(c)
    OBVIOUS
  <2>1. c = Loading
    BY DEF Init
  <2>2. c.kind = "load"
    BY <2>1 DEF Loading
  <2> QED
    BY <2>2 DEF Init, Kept
<1> QED
  BY <1>1, <1>2, <1>3 DEF SInv

\* Nothing of what is shown is lost while a request is sent or fails.
LEMMA ShownKept ==
  ASSUME SInv, UNCHANGED shown
  PROVE  Beside' /\ ComparisonIsOfTheReceipt'
BY DEF SInv, Beside, ComparisonIsOfTheReceipt, shown

LEMMA EditsShown ==
  ASSUME SInv, IInv, Edits PROVE SInv'
<1>1. UNCHANGED shown
  BY DEF Edits
<1>2. Typed'
  BY <1>1 DEF SInv, Typed, Edits, Stated, shown, checked
<1>3. calls' = {}
  BY DEF IInv, Alone, Edits
<1> QED
  BY <1>1, <1>2, <1>3, ShownKept DEF SInv

LEMMA InspectsShown ==
  ASSUME SInv, Inspects PROVE SInv'
<1>1. /\ receipt # Nothing
      /\ inspected' \in {r.token : r \in receipt.decision.routes} \cup {None}
      /\ UNCHANGED <<form, receipt, comparison, challengeActive, preceding, checked,
                     busy, comparisonPending, error, calls, requestVersion>>
  BY DEF Inspects
<1>2. Sound(receipt)
  BY <1>1 DEF SInv, Beside
<1>3. receipt.decision.routes \subseteq Rows
  BY <1>2, SoundRoutes
<1>4. inspected' \in Nat \cup {None}
  BY <1>1, <1>3 DEF Rows
<1>5. Typed'
  BY <1>1, <1>4 DEF SInv, Typed, form, checked
<1>6. Beside'
  BY <1>1 DEF SInv, Beside
<1>7. ComparisonIsOfTheReceipt'
  BY <1>1 DEF SInv, ComparisonIsOfTheReceipt
<1>8. \A c \in calls' : Kept(c)'
  BY <1>1 DEF SInv, Kept
<1> QED
  BY <1>5, <1>6, <1>7, <1>8 DEF SInv

\* Of what is typed, an action of the user leaves the page's own fields legal.
LEMMA SendShown ==
  ASSUME SInv, IInv, ~busy, NEW c, calls' = calls \cup {c}, UNCHANGED shown,
         c.kind \in {"run", "compare", "hash"}, c.kind = "run" => c.text \in Stated, Typed'
  PROVE  SInv'
<1>1. calls' = {c}
  BY DEF IInv, Alone
<1>2. \A d \in calls' : Kept(d)'
  BY <1>1 DEF Kept
<1> QED
  BY <1>2, ShownKept DEF SInv

LEMMA RunsShown ==
  ASSUME SInv, IInv, NEW t \in Stated, Runs(t) PROVE SInv'
<1> PICK c : c = Running(requestVersion', t)
  OBVIOUS
<1>1. c.kind = "run" /\ c.text = t
  BY DEF Running
<1>2. /\ requestVersion' = requestVersion + 1 /\ requestVersion < MaxRuns /\ text' = t
      /\ busy' = TRUE /\ comparisonPending' = FALSE /\ error' = FALSE
      /\ proof' = "" /\ lanes' = Idle
      /\ UNCHANGED <<mode, policy, baseline, shown>>
  BY DEF Runs, Begins
<1>3. requestVersion' \in 0..MaxRuns
  <2>1. requestVersion \in 0..MaxRuns /\ requestVersion < MaxRuns
    BY <1>2, Zenon DEF SInv, Typed
  <2>2. MaxRuns \in Nat
    BY DeskAssumption, Zenon
  <2>3. requestVersion + 1 \in 0..MaxRuns
    BY <2>1, <2>2, SMT
  <2> QED
    BY <1>2, <2>3, Zenon
<1>4. Idle \in Lane \X Lane \X Lane
  BY DEF Idle, Lane
<1>5. Typed'
  BY <1>2, <1>3, <1>4 DEF SInv, Typed, shown
<1> QED
  BY <1>1, <1>2, <1>5, SendShown DEF Runs

LEMMA AsksShown ==
  ASSUME SInv, IInv, NEW p, NEW why, Asks(p, why) PROVE SInv'
<1> PICK c : c = Comparing(p, why)
  OBVIOUS
<1>1. c.kind = "compare" /\ c.kind # "run"
  BY DEF Comparing
<1>2. /\ busy' = TRUE /\ comparisonPending' = TRUE /\ error' = FALSE
      /\ proof' = "" /\ lanes' = Idle
      /\ UNCHANGED <<form, shown, requestVersion>>
  BY DEF Asks, Begins
<1>3. Idle \in Lane \X Lane \X Lane
  BY DEF Idle, Lane
<1>4. Typed'
  BY <1>2, <1>3 DEF SInv, Typed, form, shown
<1> QED
  BY <1>1, <1>2, <1>4, SendShown DEF Asks

LEMMA VerifiesShown ==
  ASSUME SInv, IInv, Verifies PROVE SInv'
<1> PICK c : c = Hashing
  OBVIOUS
<1>1. c.kind = "hash" /\ c.kind # "run"
  BY DEF Hashing
<1>2. /\ busy' = TRUE /\ error' = FALSE
      /\ proof' = "PENDING" /\ lanes' = <<"pending", "pending", "pending">>
      /\ UNCHANGED <<form, shown, comparisonPending, requestVersion>>
  BY DEF Verifies
<1>3. <<"pending", "pending", "pending">> \in Lane \X Lane \X Lane
  BY DEF Lane
<1>4. Typed'
  BY <1>2, <1>3 DEF SInv, Typed, form, shown
<1> QED
  BY <1>1, <1>2, <1>4, SendShown DEF Verifies

LEMMA UserShown ==
  ASSUME SInv, IInv, UserActs PROVE SInv'
<1>1. CASE Edits
  BY <1>1, EditsShown
<1>2. CASE Inspects
  BY <1>2, InspectsShown
<1>3. CASE Submits
  <2>1. text \in Stated
    BY DEF SInv, Typed
  <2> QED
    BY <1>3, <2>1, RunsShown DEF Submits
<1>4. CASE Explores
  BY <1>4, RunsShown DEF Explores, Stated
<1>5. CASE Applies
  BY <1>5, AsksShown DEF Applies
<1>6. CASE Challenges
  BY <1>6, AsksShown DEF Challenges
<1>7. CASE Restores
  BY <1>7, AsksShown DEF Restores
<1>8. CASE Verifies
  BY <1>8, VerifiesShown
<1> QED
  BY <1>1, <1>2, <1>3, <1>4, <1>5, <1>6, <1>7, <1>8 DEF UserActs

-----------------------------------------------------------------------------

\* What decide answers is sound.
LEMMA DecideSound ==
  ASSUME NEW i \in Intent, i \in Stated, NEW p \in Policy, NEW s \in Captures, Decides(i, p, s)
  PROVE  Sound(Decide(i, p, s))
<1>1. Genuine(Decide(i, p, s))
  BY EffectiveReceipt DEF Decides, Decide
<1>2. Decide(i, p, s).snapshot = s /\ Decide(i, p, s).intent = i
  BY ReceiptFields DEF Decide
<1> QED
  BY <1>1, <1>2 DEF Sound

\* Once the only request has ended no other is held to anything.
LEMMA AnswerShown ==
  ASSUME IInv, NEW c \in calls, Ends(c), Typed', Beside', ComparisonIsOfTheReceipt'
  PROVE  SInv'
<1>1. calls' = {}
  BY EndsAlone
<1> QED
  BY <1>1 DEF SInv

LEMMA LoadsShown ==
  ASSUME SInv, IInv, NEW s \in Captures, Loads(s) PROVE SInv'
<1> PICK r : r = Decide(FirstText, DefaultPolicy, s)
  OBVIOUS
<1>1. Sound(r)
  <2>1. FirstText \in Intent /\ FirstText \in Stated
    BY DeskAssumption DEF Stated
  <2> QED
    BY <2>1, DecideSound, DefaultOK DEF Loads, DefaultIsAPolicy
<1>2. /\ receipt' = r /\ busy' = FALSE
      /\ UNCHANGED <<text, mode, comparison, inspected, challengeActive, preceding, checked,
                     comparisonPending, error, requestVersion>>
  BY DEF Loads, Shows, Ends
<1>3. receipt = Nothing /\ comparison = Nothing /\ inspected = None
  <2>1. Loading \in calls /\ Loading.kind = "load"
    BY DEF Loads, Loading
  <2> QED
    BY <2>1 DEF SInv, Kept
<1>4. Typed'
  BY <1>2 DEF SInv, Typed, checked
<1>5. Beside' /\ ComparisonIsOfTheReceipt'
  BY <1>1, <1>2, <1>3 DEF SInv, Beside, ComparisonIsOfTheReceipt
<1>6. PICK c \in calls : c = Loading /\ Ends(c)
  BY DEF Loads
<1> QED
  BY <1>4, <1>5, <1>6, AnswerShown

LEMMA DecidedShown ==
  ASSUME SInv, IInv, NEW c, NEW s \in Captures, Decided(c, s) PROVE SInv'
<1> PICK r : r = Decide(c.text, c.policy, s)
  OBVIOUS
<1>1. Sound(r)
  <2>1. c.text \in Intent /\ c.policy \in Policy
    BY DEF IInv, InFlight, Decided
  <2>2. c.text \in Stated
    BY DEF SInv, Kept, Decided
  <2> QED
    BY <2>1, <2>2, DecideSound DEF Decided
<1>2. /\ receipt' = r /\ inspected' = None /\ challengeActive' = FALSE
      /\ comparison' = Nothing /\ preceding' = Nothing /\ busy' = FALSE
      /\ UNCHANGED <<text, mode, checked, comparisonPending, error, requestVersion>>
  BY DEF Decided, ShowsRun, Shows, Ends
<1>3. Typed'
  BY <1>2 DEF SInv, Typed, checked
<1>4. Beside' /\ ComparisonIsOfTheReceipt'
  BY <1>1, <1>2 DEF Beside, ComparisonIsOfTheReceipt
<1>5. c \in calls /\ Ends(c)
  BY DEF Decided
<1> QED
  BY <1>3, <1>4, <1>5, AnswerShown

\* What a comparison asks for is what it answers, over the snapshot of the screen.
LEMMA ComparedSound ==
  ASSUME SInv, IInv, NEW c, Compared(c)
  PROVE  /\ c \in calls /\ Ends(c)
         /\ c.receipt = receipt /\ Sound(receipt)
         /\ Sound(WhatIf(receipt, c.policy)) /\ receipt' = WhatIf(receipt, c.policy)
         /\ WhatIf(receipt, c.policy).snapshot = receipt.snapshot
         /\ WhatIf(receipt, c.policy).intent = receipt.intent
<1>1. c \in calls /\ Ends(c) /\ receipt' = WhatIf(c.receipt, c.policy)
  BY DEF Compared
<1>2. Genuine(c.receipt) /\ c.receipt = receipt /\ c.policy \in Policy
  BY DEF IInv, InFlight, Compared
<1>3. Admissible(c.policy)
  BY DEF Compared, Compares
<1>4. Sound(receipt)
  BY <1>2, GenuineAnalysis DEF SInv, Beside
<1>5. /\ Genuine(WhatIf(receipt, c.policy))
      /\ WhatIf(receipt, c.policy).snapshot = receipt.snapshot
      /\ WhatIf(receipt, c.policy).intent = receipt.intent
  BY <1>2, <1>3, WhatIfGenuine
<1>6. Sound(WhatIf(receipt, c.policy))
  BY <1>4, <1>5 DEF Sound
<1> QED
  BY <1>1, <1>2, <1>4, <1>5, <1>6

LEMMA ComparedShown ==
  ASSUME SInv, IInv, NEW c, Compared(c) PROVE SInv'
<1> PICK r : r = WhatIf(receipt, c.policy)
  OBVIOUS
<1>1. /\ c \in calls /\ Ends(c) /\ c.receipt = receipt /\ Sound(receipt) /\ Sound(r)
      /\ receipt' = r /\ r.snapshot = receipt.snapshot /\ r.intent = receipt.intent
  BY ComparedSound
<1>2. /\ comparison' = [receipt |-> r, previous |-> receipt, changes |-> Changes(receipt, r)]
      /\ challengeActive' = (c.why = "challenge")
      /\ preceding' = IF c.why = "challenge" THEN receipt ELSE Nothing
      /\ comparisonPending' = FALSE
      /\ UNCHANGED <<text, mode, inspected, checked, error, requestVersion>>
  BY <1>1 DEF Compared
<1>3. busy' = FALSE
  BY <1>1 DEF Ends
<1>4. challengeActive' \in BOOLEAN
  BY <1>2
<1>5. Typed'
  BY <1>2, <1>3, <1>4 DEF SInv, Typed, checked
<1>6. /\ comparison'.receipt = r /\ comparison'.previous = receipt
      /\ comparison'.changes = Changes(receipt, r)
  BY <1>2
<1>7. preceding' = Nothing \/ Sound(preceding')
  BY <1>1, <1>2
<1>8. Sound(receipt') /\ Sound(comparison'.previous)
      /\ comparison'.changes = Changes(comparison'.previous, receipt')
  BY <1>1, <1>6
<1>9. Beside'
  <2>1. /\ receipt' = Nothing \/ Sound(receipt')
        /\ preceding' = Nothing \/ Sound(preceding')
        /\ comparison' # Nothing =>
             /\ Sound(receipt') /\ Sound(comparison'.previous)
             /\ comparison'.changes = Changes(comparison'.previous, receipt')
    BY <1>7, <1>8
  <2> QED
    BY <2>1 DEF Beside
<1>10. inspected' # None => receipt' # Nothing
                              /\ \E x \in receipt'.decision.routes : x.token = inspected'
  <2> SUFFICES ASSUME inspected' # None
               PROVE  receipt' # Nothing /\ \E x \in r.decision.routes : x.token = inspected'
    BY <1>1
  <2>1. \E x \in receipt.decision.routes : x.token = inspected
    BY <1>2 DEF SInv, ComparisonIsOfTheReceipt
  <2>2. {x.token : x \in receipt.decision.routes} = {x.token : x \in r.decision.routes}
    <3>1. {x.token : x \in receipt.decision.routes} = TokensOf(receipt.snapshot)
      BY <1>1, SoundRoutes
    <3>2. {x.token : x \in r.decision.routes} = TokensOf(r.snapshot)
      BY <1>1, SoundRoutes
    <3> QED
      BY <1>1, <3>1, <3>2
  <2>3. \E x \in r.decision.routes : x.token = inspected
    BY <2>1, <2>2
  <2>4. r # Nothing
    BY <1>1, GenuineAnalysis DEF Sound
  <2> QED
    BY <1>1, <1>2, <2>3, <2>4
<1>11. ComparisonIsOfTheReceipt'
  <2>1. /\ comparison'.receipt = receipt' /\ comparison'.previous.snapshot = receipt'.snapshot
        /\ comparison'.previous.intent = receipt'.intent
    BY <1>1, <1>6
  <2> QED
    BY <1>10, <2>1 DEF ComparisonIsOfTheReceipt
<1> QED
  BY <1>1, <1>5, <1>9, <1>11, AnswerShown

LEMMA HashedShown ==
  ASSUME SInv, IInv, NEW c, Hashed(c) PROVE SInv'
<1> PICK d : d = Replaying(c, "pass")
  OBVIOUS
<1>1. d.kind = "replay" /\ d.kind \notin {"load", "run"} /\ d.lane = "pass"
  BY DEF Replaying
<1>2. /\ lanes' = <<"pass", "pending", "pending">>
      /\ UNCHANGED <<form, shown, proof, busy, comparisonPending, error, requestVersion>>
  BY DEF Hashed
<1>3. <<"pass", "pending", "pending">> \in Lane \X Lane \X Lane /\ "pass" \in Lane
  BY DEF Lane
<1>4. calls = {c} /\ calls' = {d}
  BY DEF IInv, Alone, Hashed
<1>5. \A e \in calls' : Kept(e)'
  BY <1>1, <1>3, <1>4 DEF Kept
<1>6. Typed'
  BY <1>2, <1>3 DEF SInv, Typed, form, shown
<1> QED
  BY <1>2, <1>5, <1>6, ShownKept DEF SInv

LEMMA ReplayedShown ==
  ASSUME SInv, IInv, NEW c, Replayed(c) PROVE SInv'
<1>1. /\ c \in calls /\ Ends(c) /\ busy' = FALSE
      /\ lanes' = <<c.lane, Lit(DecisionMatches(c.receipt)), Lit(ProvenanceMatches(c.receipt))>>
      /\ UNCHANGED <<form, shown, comparisonPending, error, requestVersion>>
  BY DEF Replayed, Ends
<1>2. proof' \in {"MATCH", "MISMATCH"}
  BY DEF Replayed
<1>3. \A b : Lit(b) \in Lane
  BY DEF Lit, Lane
<1>4. c.lane \in Lane
  BY DEF SInv, Kept, Replayed
<1>5. lanes' \in Lane \X Lane \X Lane
  BY <1>1, <1>3, <1>4
<1>6. Typed'
  BY <1>1, <1>2, <1>5 DEF SInv, Typed, form, shown
<1> QED
  BY <1>1, <1>6, ShownKept, AnswerShown

LEMMA FailsShown ==
  ASSUME SInv, IInv, NEW c, Fails(c) PROVE SInv'
<1>1. /\ c \in calls /\ Ends(c) /\ busy' = FALSE /\ error' = TRUE /\ comparisonPending' = FALSE
      /\ lanes' = IF c.kind \in {"hash", "replay"} THEN <<lanes[1], "fail", "fail">> ELSE lanes
      /\ UNCHANGED <<form, shown, proof, requestVersion>>
  BY DEF Fails, Ends
<1>2. lanes \in Lane \X Lane \X Lane
  BY DEF SInv, Typed
<1>3. <<lanes[1], "fail", "fail">> \in Lane \X Lane \X Lane
  BY <1>2 DEF Lane
<1>4. lanes' \in Lane \X Lane \X Lane
  BY <1>1, <1>2, <1>3
<1>5. Typed'
  BY <1>1, <1>4 DEF SInv, Typed, form, shown
<1> QED
  BY <1>1, <1>5, ShownKept, AnswerShown

LEMMA AnsweredShown ==
  ASSUME SInv, IInv, Answered PROVE SInv'
<1>1. PICK c \in calls : \/ \E s \in Captures : Loads(s) \/ Decided(c, s)
                         \/ Compared(c) \/ Hashed(c) \/ Replayed(c) \/ Fails(c)
  BY DEF Answered
<1>2. CASE \E s \in Captures : Loads(s)
  BY <1>2, LoadsShown
<1>3. CASE \E s \in Captures : Decided(c, s)
  BY <1>3, DecidedShown
<1>4. CASE Compared(c)
  BY <1>4, ComparedShown
<1>5. CASE Hashed(c)
  BY <1>5, HashedShown
<1>6. CASE Replayed(c)
  BY <1>6, ReplayedShown
<1>7. CASE Fails(c)
  BY <1>7, FailsShown
<1> QED
  BY <1>1, <1>2, <1>3, <1>4, <1>5, <1>6, <1>7

LEMMA StutterShown ==
  ASSUME SInv, UNCHANGED vars PROVE SInv'
<1>1. UNCHANGED shown
  BY DEF vars
<1>2. Typed'
  BY DEF SInv, Typed, vars, form, shown, checked
<1>3. \A c \in calls' : Kept(c)'
  BY DEF SInv, Kept, vars, shown
<1> QED
  BY <1>1, <1>2, <1>3, ShownKept DEF SInv

\* SInv, what the page shows beside its receipt and what a request may rely on, always holds.
LEMMA ShownInvariance == Spec => []SInv
<1>1. Init => SInv
  BY ShownInit
<1>2. IInv /\ SInv /\ [Next]_vars => SInv'
  BY UserShown, AnsweredShown, StutterShown DEF Next
<1> QED
  BY <1>1, <1>2, Invariance, PTL DEF Spec

\* page.tsx: the form, the receipts and the requests of the page keep their kinds.
THEOREM TypeCorrect == Spec => []TypeOK
<1>1. IInv /\ SInv => TypeOK
  <2> SUFFICES ASSUME IInv, SInv PROVE TypeOK
    OBVIOUS
  <2>1. policy \in Policy /\ baseline \in Policy
    BY DEF IInv, FormOK
  <2>2. (receipt = Nothing \/ ReceiptOK(receipt)) /\ (preceding = Nothing \/ ReceiptOK(preceding))
    BY SoundIsOK DEF SInv, Beside
  <2>3. comparison # Nothing => comparison.changes \subseteq Nat
    BY ChangesAreTokens DEF SInv, Beside
  <2>4. {challengeActive, busy, comparisonPending, error} \subseteq BOOLEAN
    BY DEF SInv, Typed
  <2>5. \A c \in calls : c.kind \in {"load", "run", "compare", "hash", "replay"}
    BY DEF SInv, Kept
  <2> QED
    BY <2>1, <2>2, <2>3, <2>4, <2>5 DEF TypeOK, SInv, Typed, Stated
<1> QED
  BY <1>1, Invariance, ShownInvariance, PTL

\* page.tsx: the comparison and the open route shown are those of the receipt shown,
\* whatever was opened and whatever arrived since.
THEOREM ComparisonHolds == Spec => []ComparisonIsOfTheReceipt
<1>1. SInv => ComparisonIsOfTheReceipt
  BY DEF SInv
<1> QED
  BY <1>1, ShownInvariance, PTL

\* decisions.py and page.tsx: a comparison under a stricter policy shortlists no
\* more, and what led and still qualifies still leads.
THEOREM StricterHolds == Spec => StricterShortlistsLess
<1> DEFINE Narrows ==
      (receipt # Nothing /\ comparison' # comparison /\ comparison' # Nothing
         /\ Stricter(receipt'.policy, receipt.policy)) =>
        LET before == Viable(receipt.decision.routes)
            after  == Viable(receipt'.decision.routes)
        IN  /\ after \subseteq before
            /\ receipt'.decision.selected \in {r.token : r \in after} \cup {None}
            /\ (\E r \in after : r.token = receipt.decision.selected)
                 => receipt'.decision.selected = receipt.decision.selected
<1>1. ASSUME IInv, SInv, NEW c, Compared(c), Stricter(receipt'.policy, receipt.policy)
      PROVE  Narrows
  <2> PICK r : r = WhatIf(receipt, c.policy)
    OBVIOUS
  <2>1. /\ receipt' = r /\ Sound(receipt) /\ Sound(r) /\ r.snapshot = receipt.snapshot
    BY <1>1, ComparedSound
  <2>2. /\ receipt.snapshot \in Snapshot
        /\ receipt.policy \in Policy /\ receipt'.policy \in Policy
    BY <2>1, SoundRoutes DEF Sound, Genuine
  <2>3. PICK s \in Snapshot, p \in Policy, q \in Policy :
          s = receipt.snapshot /\ p = receipt'.policy /\ q = receipt.policy
    BY <2>2
  <2>4. receipt.decision = Analysis(s, q) /\ receipt'.decision = Analysis(s, p)
    BY <2>1, <2>3, GenuineAnalysis DEF Sound
  <2>5. \A i, j \in DOMAIN s.reps : s.reps[j].token = s.reps[i].token => i = j
    BY <2>1, <2>3 DEF Sound, Genuine, WellFormed
  <2>6. Stricter(p, q)
    BY <1>1, <2>3
  <2>7. LET before == Viable(Analysis(s, q).routes)
            after  == Viable(Analysis(s, p).routes)
        IN  /\ after \subseteq before
            /\ Analysis(s, p).selected \in {x.token : x \in after} \cup {None}
            /\ (\E x \in after : x.token = Analysis(s, q).selected)
                 => Analysis(s, p).selected = Analysis(s, q).selected
    BY <2>5, <2>6, StricterShortlist
  <2> QED
    BY <2>4, <2>7
<1>2. ASSUME [Next]_vars, comparison' # comparison, comparison' # Nothing
      PROVE  \E c : Compared(c)
  <2>1. ~UNCHANGED shown
    BY <1>2 DEF shown
  <2>2. ~UserActs
    BY <1>2, <2>1 DEF UserActs, Edits, Inspects, Submits, Explores, Runs, Applies, Challenges,
                      Restores, Asks, Verifies
  <2>3. ~UNCHANGED vars
    BY <2>1 DEF vars
  <2>4. Answered
    BY <1>2, <2>2, <2>3 DEF Next
  <2>5. PICK c \in calls : \/ \E s \in Captures : Loads(s) \/ Decided(c, s)
                           \/ Compared(c) \/ Hashed(c) \/ Replayed(c) \/ Fails(c)
    BY <2>4 DEF Answered
  <2>6. \A s : ~Loads(s) /\ ~Decided(c, s)
    BY <1>2 DEF Loads, Decided, ShowsRun
  <2>7. ~Hashed(c) /\ ~Replayed(c) /\ ~Fails(c)
    BY <2>1 DEF Hashed, Replayed, Fails
  <2> QED
    BY <2>5, <2>6, <2>7
<1>3. IInv /\ SInv /\ [Next]_vars => [Narrows]_vars
  BY <1>1, <1>2
<1> QED
  BY <1>3, Invariance, ShownInvariance, PTL DEF Spec, StricterShortlistsLess

-----------------------------------------------------------------------------
(* Refinement of ResearchSession *)

\* The policy of the screen is the one chosen last, challenged or not.
Chosen ==
  receipt # Nothing =>
    receipt.policy = IF challengeActive THEN Challenged(baseline) ELSE baseline

\* What the policy of a comparison under way was made of is still there.
Meant(c) ==
  c.kind = "compare" =>
    /\ c.why \in {"apply", "challenge", "restore"}
    /\ c.why = "challenge" => ~challengeActive /\ c.policy = Challenged(receipt.policy)
    /\ c.why = "restore" => c.policy = baseline

CInv == Chosen /\ \A c \in calls : Meant(c)

\* What the session sees, and what a comparison was made of.
seen == <<receipt, comparison, challengeActive, baseline>>

\* A challenge leaves the limits of the text as they are.
LEMMA ChallengeWithin ==
  ASSUME NEW intent \in Intent, NEW p \in Policy, Effective(intent, p) = p
  PROVE  Effective(intent, Challenged(p)) = Challenged(p)
<1> PICK q \in Policy : q = Challenged(p)
  BY ChallengeIsAPolicy
<1>1. q.premium = p.premium /\ q.slippage = p.slippage
  BY DEF Challenged, Policy
<1>2. /\ Capped(p.premium, intent.maxPremium) = p.premium
      /\ Capped(p.slippage, intent.maxSlippage) = p.slippage
  BY DEF Effective, Policy
<1>3. /\ Capped(q.premium, intent.maxPremium) = q.premium
      /\ Capped(q.slippage, intent.maxSlippage) = q.slippage
  BY <1>1, <1>2
<1>4. Effective(intent, q) = q
  BY <1>3, ZenonT(40) DEF Effective, Policy
<1> QED
  BY <1>4

\* The chosen policy is within the limits of the question on the screen.
LEMMA ChosenWithin ==
  ASSUME IInv, Chosen, receipt # Nothing
  PROVE  baseline \in Policy /\ Binds(receipt.intent, baseline)
<1>1. Genuine(receipt)
  BY DEF IInv, ReceiptGenuine
<1>2. CASE challengeActive
  BY <1>2 DEF IInv, ChallengeKnown, Genuine, Binds
<1>3. CASE ~challengeActive
  BY <1>1, <1>3 DEF Chosen, Genuine, Binds
<1> QED
  BY <1>2, <1>3

\* A comparison is a choice of the reader's, or the challenge of the last one.
LEMMA ComparedMeans ==
  ASSUME IInv, SInv, CInv, NEW c, Compared(c)
  PROVE  /\ Chosen'
         /\ challengeActive' \in BOOLEAN
         /\ challengeActive' => ~challengeActive /\ baseline' = baseline
         /\ ~challengeActive' => baseline' \in Policy /\ Binds(receipt.intent, baseline')
<1> PICK r : r = WhatIf(receipt, c.policy)
  OBVIOUS
<1>1. /\ c \in calls /\ c.receipt = receipt /\ Sound(receipt) /\ Sound(r) /\ receipt' = r
      /\ r.snapshot = receipt.snapshot /\ r.intent = receipt.intent
  BY ComparedSound
<1>2. Genuine(receipt) /\ Genuine(r) /\ receipt # Nothing
  BY <1>1, GenuineAnalysis DEF Sound
<1>3. r.policy = Effective(receipt.intent, c.policy)
  BY ReceiptFields DEF WhatIf
<1>4. baseline' = Baseline(c, r) /\ challengeActive' = (c.why = "challenge")
  BY <1>1 DEF Compared
<1>5. /\ c.why \in {"apply", "challenge", "restore"}
      /\ c.why = "challenge" => ~challengeActive /\ ~c.active /\ c.policy = Challenged(receipt.policy)
      /\ c.why = "restore" => c.policy = baseline
  BY <1>1 DEF CInv, Meant, IInv, InFlight, Compared
<1>6. CASE c.why = "challenge"
  <2>1. baseline = receipt.policy /\ baseline' = receipt.policy
    BY <1>1, <1>2, <1>4, <1>5, <1>6 DEF CInv, Chosen, Baseline
  <2>2. r.policy = Challenged(receipt.policy)
    BY <1>2, <1>3, <1>5, <1>6, ChallengeWithin DEF Genuine
  <2> QED
    BY <1>1, <1>4, <1>5, <1>6, <2>1, <2>2 DEF Chosen
<1>7. CASE c.why = "apply"
  <2>1. baseline' = r.policy /\ ~challengeActive'
    BY <1>4, <1>7 DEF Baseline
  <2>2. r.policy \in Policy /\ Binds(receipt.intent, r.policy)
    BY <1>1, <1>2 DEF Genuine, Binds
  <2> QED
    BY <1>1, <1>4, <2>1, <2>2 DEF Chosen
<1>8. CASE c.why = "restore"
  <2>1. baseline' = baseline /\ ~challengeActive'
    BY <1>4, <1>8 DEF Baseline
  <2>2. baseline \in Policy /\ Binds(receipt.intent, baseline)
    BY <1>2, ChosenWithin DEF CInv
  <2>3. r.policy = baseline
    BY <1>3, <1>5, <1>8, <2>2 DEF Binds
  <2> QED
    BY <1>1, <1>4, <2>1, <2>2, <2>3 DEF Chosen
<1> QED
  BY <1>5, <1>6, <1>7, <1>8

-----------------------------------------------------------------------------

\* While a request is sent, fails or is about a receipt only, the session sees nothing.
LEMMA SendMeans ==
  ASSUME IInv, CInv, ~busy, NEW c, Meant(c)', calls' = calls \cup {c}, UNCHANGED seen
  PROVE  CInv'
<1>1. calls' = {c}
  BY DEF IInv, Alone
<1> QED
  BY <1>1 DEF CInv, Chosen, seen

LEMMA UserMeans ==
  ASSUME IInv, CInv, UserActs
  PROVE  CInv' /\ UNCHANGED seen
<1>1. CASE Edits \/ Inspects
  <2>1. UNCHANGED <<calls, seen>>
    BY <1>1 DEF Edits, Inspects, form, shown, seen
  <2> QED
    BY <2>1 DEF CInv, Chosen, Meant, seen
<1>2. ASSUME NEW t, Runs(t) PROVE CInv' /\ UNCHANGED seen
  <2> PICK c : c = Running(requestVersion', t)
    OBVIOUS
  <2>1. c.kind = "run"
    BY DEF Running
  <2>2. ~busy /\ calls' = calls \cup {c} /\ UNCHANGED seen
    BY <1>2 DEF Runs, shown, seen
  <2>3. Meant(c)'
    BY <2>1 DEF Meant
  <2> QED
    BY <2>2, <2>3, SendMeans
<1>3. ASSUME NEW p, NEW why \in {"apply", "challenge", "restore"}, Asks(p, why),
             why = "challenge" => ~challengeActive /\ p = Challenged(receipt.policy),
             why = "restore" => p = baseline
      PROVE  CInv' /\ UNCHANGED seen
  <2> PICK c : c = Comparing(p, why)
    OBVIOUS
  <2>1. c.kind = "compare" /\ c.why = why /\ c.policy = p
    BY DEF Comparing
  <2>2. ~busy /\ calls' = calls \cup {c} /\ UNCHANGED seen
    BY <1>3 DEF Asks, form, shown, seen
  <2>3. Meant(c)'
    BY <1>3, <2>1, <2>2 DEF Meant, seen
  <2> QED
    BY <2>2, <2>3, SendMeans
<1>4. CASE Verifies
  <2> PICK c : c = Hashing
    OBVIOUS
  <2>1. c.kind = "hash"
    BY DEF Hashing
  <2>2. ~busy /\ calls' = calls \cup {c} /\ UNCHANGED seen
    BY <1>4 DEF Verifies, form, shown, seen
  <2>3. Meant(c)'
    BY <2>1 DEF Meant
  <2> QED
    BY <2>2, <2>3, SendMeans
<1> QED
  BY <1>1, <1>2, <1>3, <1>4 DEF UserActs, Submits, Explores, Applies, Challenges, Restores

\* What is seen is all that the session's variables are made of.
LEMMA SeenIsAll == UNCHANGED seen => UNCHANGED Session!vars
BY DEF seen, Question, Session!vars

\* A genuine receipt under the chosen policy is what the session shows.
LEMMA GenuineShows ==
  ASSUME NEW r, Genuine(r), receipt' = r, Chosen'
  PROVE  Question' = [snapshot |-> r.snapshot, intent |-> r.intent] /\ Session!Shows
<1>1. r = Receipt(r.snapshot, r.intent, r.policy) /\ r # Nothing
  BY GenuineAnalysis DEF Genuine
<1> PICK q : q = [snapshot |-> r.snapshot, intent |-> r.intent]
  OBVIOUS
<1>2. Question' = q /\ q.snapshot = r.snapshot /\ q.intent = r.intent
  BY <1>1 DEF Question
<1>3. r.policy = IF challengeActive' THEN Challenged(baseline') ELSE baseline'
  BY <1>1 DEF Chosen
<1>4. r.policy = (Session!Judging)'
  BY <1>3 DEF Session!Judging
<1>5. receipt' = Receipt(Question'.snapshot, Question'.intent, (Session!Judging)')
  BY <1>1, <1>2, <1>4
<1> QED
  BY <1>2, <1>5 DEF Session!Shows

\* A new receipt is the research of a new question.
LEMMA DecideRefines ==
  ASSUME NEW s \in Captures, NEW intent \in Stated, NEW p \in Policy, NEW r,
         intent \in Intent, Decides(intent, p, s), r = Decide(intent, p, s),
         Shows(r), challengeActive' = FALSE, comparison' = Nothing
  PROVE  Chosen' /\ Session!Next
<1>1. Genuine(r) /\ r.snapshot = s /\ r.intent = intent
  BY EffectiveReceipt, ReceiptFields DEF Decides, Decide
<1>2. receipt' = r /\ baseline' = r.policy
  BY DEF Shows
<1>3. Chosen'
  BY <1>2 DEF Chosen
<1>4. Question' = [snapshot |-> s, intent |-> intent] /\ Session!Shows
  BY <1>1, <1>2, <1>3, GenuineShows
<1>5. Poses(s, intent) /\ baseline' \in Policy /\ Binds(intent, baseline')
  BY <1>1, <1>2 DEF Genuine, Poses, Binds
<1>6. Session!Research(s, intent)
  BY <1>4, <1>5 DEF Session!Research
<1> QED
  BY <1>3, <1>6 DEF Session!Next, Stated

LEMMA ComparedRefines ==
  ASSUME IInv, SInv, CInv, NEW c, Compared(c)
  PROVE  Chosen' /\ Session!Next
<1> PICK r : r = WhatIf(receipt, c.policy)
  OBVIOUS
<1>1. /\ c \in calls /\ c.receipt = receipt /\ Sound(receipt) /\ Sound(r) /\ receipt' = r
      /\ r.snapshot = receipt.snapshot /\ r.intent = receipt.intent
  BY ComparedSound
<1>2. Genuine(r) /\ receipt # Nothing
  BY <1>1, GenuineAnalysis DEF Sound
<1>3. /\ Chosen' /\ challengeActive' \in BOOLEAN
      /\ challengeActive' => ~challengeActive /\ baseline' = baseline
      /\ ~challengeActive' => baseline' \in Policy /\ Binds(receipt.intent, baseline')
  BY ComparedMeans
<1>4. Question' = [snapshot |-> receipt.snapshot, intent |-> receipt.intent] /\ Session!Shows
  BY <1>1, <1>2, <1>3, GenuineShows
<1> PICK q : q = [snapshot |-> receipt.snapshot, intent |-> receipt.intent]
  OBVIOUS
<1>5. Question = q /\ Question' = q /\ q.intent = receipt.intent /\ q # Nothing
  BY <1>2, <1>4 DEF Question, Nothing
<1>6. comparison' = [receipt |-> r, previous |-> receipt, changes |-> Changes(receipt, r)]
  BY <1>1 DEF Compared
<1>7. Session!Rejudges
  BY <1>1, <1>4, <1>5, <1>6 DEF Session!Rejudges
<1>8. CASE challengeActive'
  BY <1>3, <1>7, <1>8 DEF Session!Challenge, Session!Next
<1>9. CASE ~challengeActive'
  BY <1>3, <1>5, <1>7, <1>9 DEF Session!Choose, Session!Next
<1> QED
  BY <1>3, <1>8, <1>9

\* An answer is a step of the session, or is about what the session does not show.
LEMMA AnswerRefines ==
  ASSUME IInv, SInv, CInv, Answered
  PROVE  CInv' /\ (Session!Next \/ UNCHANGED Session!vars)
<1>1. PICK c \in calls : \/ \E s \in Captures : Loads(s) \/ Decided(c, s)
                         \/ Compared(c) \/ Hashed(c) \/ Replayed(c) \/ Fails(c)
  BY DEF Answered
<1>2. ASSUME NEW s \in Captures, Loads(s) PROVE CInv' /\ Session!Next
  <2>1. calls' = {}
    BY <1>2, EndsAlone DEF Loads
  <2>2. /\ ~challengeActive /\ comparison = Nothing
        /\ UNCHANGED <<challengeActive, comparison>>
    BY <1>2 DEF Loads, Loading, IInv, InFlight, SInv, Kept
  <2>3. challengeActive' = FALSE /\ comparison' = Nothing
    BY <2>2 DEF SInv, Typed
  <2>4. FirstText \in Intent /\ FirstText \in Stated /\ DefaultPolicy \in Policy
    BY DeskAssumption, DefaultOK DEF Stated, DefaultIsAPolicy
  <2>5. Chosen' /\ Session!Next
    BY <1>2, <2>3, <2>4, DecideRefines DEF Loads
  <2> QED
    BY <2>1, <2>5 DEF CInv
<1>3. ASSUME NEW s \in Captures, Decided(c, s) PROVE CInv' /\ Session!Next
  <2>1. calls' = {}
    BY <1>3, EndsAlone DEF Decided
  <2>2. c.text \in Intent /\ c.text \in Stated /\ c.policy \in Policy
    BY <1>3 DEF Decided, IInv, InFlight, SInv, Kept
  <2>3. Chosen' /\ Session!Next
    BY <1>3, <2>2, DecideRefines DEF Decided, ShowsRun
  <2> QED
    BY <2>1, <2>3 DEF CInv
<1>4. CASE Compared(c)
  <2>1. calls' = {}
    BY <1>4, EndsAlone DEF Compared
  <2> QED
    BY <1>4, <2>1, ComparedRefines DEF CInv
<1>5. CASE Hashed(c)
  <2> PICK d : d = Replaying(c, "pass")
    OBVIOUS
  <2>1. d.kind = "replay"
    BY DEF Replaying
  <2>2. calls = {c}
    BY <1>5 DEF IInv, Alone, Hashed
  <2>3. calls' = {d} /\ UNCHANGED seen
    BY <1>5, <2>2 DEF Hashed, form, shown, seen
  <2>4. CInv'
    BY <2>1, <2>3 DEF CInv, Chosen, Meant, seen
  <2> QED
    BY <2>3, <2>4, SeenIsAll
<1>6. CASE Replayed(c) \/ Fails(c)
  <2>1. calls' = {}
    BY <1>6, EndsAlone DEF Replayed, Fails
  <2>2. UNCHANGED seen
    BY <1>6 DEF Replayed, Fails, form, shown, seen
  <2>3. CInv'
    BY <2>1, <2>2 DEF CInv, Chosen, seen
  <2> QED
    BY <2>2, <2>3, SeenIsAll
<1> QED
  BY <1>1, <1>2, <1>3, <1>4, <1>5, <1>6

\* The page keeps the session, for every set of texts, policies and captures:
\* with its requests taken away, each answer is one step on the screen it finds.
THEOREM SessionKept == Spec => KeepsSession
<1>1. Init => CInv /\ Session!Init
  <2> SUFFICES ASSUME Init PROVE CInv /\ Session!Init
    OBVIOUS
  <2>1. \A c \in calls : Meant(c)
    <3> PICK l : l = Loading
      OBVIOUS
    <3>1. l.kind = "load" /\ calls = {l}
      BY DEF Init, Loading
    <3> QED
      BY <3>1 DEF Meant
  <2>2. CInv
    BY <2>1 DEF Init, CInv, Chosen
  <2>3. Session!Init
    BY DEF Init, Session!Init, Question
  <2> QED
    BY <2>2, <2>3
<1>2. IInv /\ SInv /\ CInv /\ [Next]_vars => CInv' /\ [Session!Next]_(Session!vars)
  <2> SUFFICES ASSUME IInv, SInv, CInv, [Next]_vars
               PROVE  CInv' /\ (Session!Next \/ UNCHANGED Session!vars)
    OBVIOUS
  <2>1. CASE UNCHANGED vars
    <3>1. UNCHANGED <<calls, seen>>
      BY <2>1 DEF vars, form, shown, seen
    <3>2. CInv'
      BY <3>1 DEF CInv, Chosen, Meant, seen
    <3> QED
      BY <3>1, <3>2, SeenIsAll
  <2>2. CASE UserActs
    BY <2>2, UserMeans, SeenIsAll
  <2>3. CASE Answered
    BY <2>3, AnswerRefines
  <2> QED
    BY <2>1, <2>2, <2>3 DEF Next
<1> QED
  BY <1>1, <1>2, Invariance, ShownInvariance, PTL DEF Spec, KeepsSession, Session!Spec

-----------------------------------------------------------------------------
(* What a comparison asks for *)

\* A stricter limit is no wider once the text's own limit has capped both.
LEMMA CappedOrder ==
  ASSUME NEW a \in Nat, NEW b \in Nat, a <= b, NEW stated \in Nat \cup {None}
  PROVE  Capped(a, stated) <= Capped(b, stated)
BY SMT DEF Capped, None

LEMMA EffectiveOrder ==
  ASSUME NEW intent \in Intent, NEW p \in Policy, NEW q \in Policy, Stricter(p, q)
  PROVE  Stricter(Effective(intent, p), Effective(intent, q))
<1> PICK e : e = Effective(intent, p)
  OBVIOUS
<1> PICK f : f = Effective(intent, q)
  OBVIOUS
<1>1. /\ e.premium = Capped(p.premium, intent.maxPremium) /\ e.parity = p.parity
      /\ e.platforms = p.platforms /\ e.attest = p.attest /\ e.closed = p.closed
      /\ e.liquidity = p.liquidity
  BY DEF Effective, Policy
<1>2. /\ f.premium = Capped(q.premium, intent.maxPremium) /\ f.parity = q.parity
      /\ f.platforms = q.platforms /\ f.attest = q.attest /\ f.closed = q.closed
      /\ f.liquidity = q.liquidity
  BY DEF Effective, Policy
<1>3. e.premium <= f.premium
  <2>1. /\ p.premium \in Nat /\ q.premium \in Nat /\ p.premium <= q.premium
        /\ intent.maxPremium \in Nat \cup {None}
    BY DEF Policy, Intent, Stricter
  <2> QED
    BY <1>1, <1>2, <2>1, CappedOrder
<1> QED
  BY <1>1, <1>2, <1>3 DEF Stricter

\* decisions.py: of two policies that may be compared with a receipt, the
\* stricter one shortlists no more, whatever the text of the receipt caps, and
\* what leads under the other and still qualifies leads here.
THEOREM StricterWhatIf ==
  ASSUME NEW r, Genuine(r), r.snapshot \in Snapshot,
         NEW p \in Policy, NEW q \in Policy, Stricter(p, q)
  PROVE  LET before == WhatIf(r, q).decision
             after  == WhatIf(r, p).decision
         IN  /\ Viable(after.routes) \subseteq Viable(before.routes)
             /\ (\E x \in Viable(after.routes) : x.token = before.selected)
                  => after.selected = before.selected
<1> PICK s \in Snapshot : s = r.snapshot
  OBVIOUS
<1> PICK e \in Policy : e = Effective(r.intent, p)
  BY EffectiveOnce DEF Genuine
<1> PICK f \in Policy : f = Effective(r.intent, q)
  BY EffectiveOnce DEF Genuine
<1>1. WhatIf(r, p).decision = Analysis(s, e) /\ WhatIf(r, q).decision = Analysis(s, f)
  BY ReceiptFields DEF WhatIf
<1>2. Stricter(e, f)
  BY EffectiveOrder DEF Genuine
<1>3. \A i, j \in DOMAIN s.reps : s.reps[j].token = s.reps[i].token => i = j
  BY DEF Genuine, WellFormed
<1>4. /\ Viable(Analysis(s, e).routes) \subseteq Viable(Analysis(s, f).routes)
      /\ (\E x \in Viable(Analysis(s, e).routes) : x.token = Analysis(s, f).selected)
           => Analysis(s, e).selected = Analysis(s, f).selected
  BY <1>2, <1>3, StricterShortlist
<1> QED
  BY <1>1, <1>4
=============================================================================
