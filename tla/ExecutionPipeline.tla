------------------------- MODULE ExecutionPipeline -------------------------
(***************************************************************************)
(* One POST /api/intent: run_intent (api/main.py) and Pipeline.run         *)
(* (services/pipeline.py) over the state machine, the tournament, the      *)
(* wallet CLI (providers/baw.py) and the receipts table.                   *)
(*                                                                         *)
(* Requests run in their own threads. They share the active constitution,  *)
(* the clock and the wallet, whose orders live on when the request that    *)
(* asked for them has timed out, failed or died with the process.          *)
(*                                                                         *)
(* Of a constitution only the slippage cap is kept, the one rule whose     *)
(* number is used again after the evaluation; the other rules together     *)
(* pass, fail or ask for a confirmation.                                   *)
(*                                                                         *)
(* _simulate answers SKIP in this commit, so that the steps after it wait  *)
(* for an adapter that binds the simulation to the swap; SimOutcomes says  *)
(* what the adapter answers, {"SKIP"} being the program as it stands.      *)
(***************************************************************************)
EXTENDS Integers, Sequences

CONSTANTS
  Requests,            \* requests of a behaviour
  Routes,              \* representations discovery may return
  Caps,                \* slippage caps a constitution may set
  Slips,               \* expected slippages a quote may carry
  HardCap,             \* MAX_SLIPPAGE_BPS_HARD
  SimOutcomes,         \* what _simulate may answer
  MaxSimAge,           \* MAX_SIMULATION_AGE_S
  MaxClock,            \* the clock stops here (bound)
  MaxFaults            \* no crash after so many faults (bound)

Unknown == -1   \* a quote that states no slippage
NoCap   == -1   \* no constitution has been approved
NoRoute == "none"

\* What _execute asks for where the quote's slippage is falsy, in basis points.
DefaultSlip == 50

\* A simulation that passed without a calldata hash is "UNBOUND".
Simulation == {"PASS", "UNBOUND", "FAIL", "SKIP"}
Passed     == {"PASS", "UNBOUND"}

ASSUME CapAssumption ==
  /\ Caps \subseteq Nat /\ Slips \subseteq Nat
  /\ HardCap \in Nat

ASSUME SimulationAssumption == SimOutcomes \subseteq Simulation

ASSUME BoundAssumption ==
  MaxSimAge \in Nat /\ MaxClock \in Nat /\ MaxFaults \in Nat

-----------------------------------------------------------------------------
(* services/state_machine.py *)

Allowed ==
  [INTENT_RECEIVED          |-> {"INTENT_COMPILED", "POLICY_REJECTED"},
   INTENT_COMPILED          |-> {"AWAITING_POLICY_APPROVAL", "DISCOVERING"},
   AWAITING_POLICY_APPROVAL |-> {"DISCOVERING", "POLICY_REJECTED"},
   DISCOVERING              |-> {"QUOTING", "NO_VALID_ROUTE"},
   QUOTING                  |-> {"POLICY_EVALUATION", "NO_VALID_ROUTE"},
   POLICY_EVALUATION        |-> {"SIMULATING", "NO_VALID_ROUTE",
                                 "AWAITING_CONFIRMATION", "POLICY_REJECTED"},
   NO_VALID_ROUTE           |-> {},
   SIMULATING               |-> {"AWAITING_CONFIRMATION", "READY", "SIMULATION_FAILED"},
   SIMULATION_FAILED        |-> {},
   AWAITING_CONFIRMATION    |-> {"READY", "POLICY_REJECTED"},
   READY                    |-> {"EXECUTING", "POLICY_REJECTED"},
   EXECUTING                |-> {"PENDING_CONFIRMATION", "EXECUTION_FAILED"},
   PENDING_CONFIRMATION     |-> {"CONFIRMED", "EXECUTION_FAILED"},
   CONFIRMED                |-> {},
   EXECUTION_FAILED         |-> {},
   POLICY_REJECTED          |-> {}]

ExecState == DOMAIN Allowed

\* The transitions of path, one after the other, are all allowed.
Legal(from, path) ==
  /\ path[1] \in Allowed[from]
  /\ \A i \in 2..Len(path) : path[i] \in Allowed[path[i - 1]]

-----------------------------------------------------------------------------
VARIABLES
  settings, \* EXECUTION_ENABLED, DEMO_MODE and REQUIRE_CONFIRMATION, read once
  active,   \* slippage cap of the active constitution
  now,      \* time.time()
  run,      \* what each request holds in its locals
  order,    \* the wallet's order for each request, if it has one
  receipt,  \* the row save_receipt wrote for each request
  faults    \* lost replies, exceptions and crashes so far

vars == <<settings, active, now, run, order, receipt, faults>>

Slip    == Slips \cup {Unknown}
Time    == 0..MaxClock

\* A candidate some other rule rejects is as one that was not quoted.
NoQuote == [slip |-> Unknown, rest |-> "fail"]
Quote   == [slip : Slip, rest : {"pass", "confirm"}] \cup {NoQuote}

(***************************************************************************)
(* A request awaits discovery, the wallet's quote of each candidate, the   *)
(* reply to its swap or the poll of its order, then assembles its receipt. *)
(* "raised" is an exception out of the handler: HTTP 500 and no receipt.   *)
(***************************************************************************)
Pc == {"idle", "discover", "quote", "simulate", "gate", "execute", "swap", "poll",
       "report", "done", "raised"}

Run == [pc : Pc, state : ExecState, confirm : BOOLEAN, cap : Caps \cup {NoCap},
        quotes : [Routes -> Quote], asked : SUBSET Routes, reps : SUBSET Routes,
        route : Routes \cup {NoRoute}, needs : BOOLEAN,
        sim : SimOutcomes \cup {"SKIP"}, simAt : Time, swapAt : Time,
        slip : Slip \cup {DefaultSlip}, order : BOOLEAN]

Fresh == [pc |-> "idle", state |-> "INTENT_RECEIVED", confirm |-> FALSE, cap |-> NoCap,
          quotes |-> [x \in Routes |-> NoQuote], asked |-> {}, reps |-> {},
          route |-> NoRoute, needs |-> TRUE,
          sim |-> "SKIP", simAt |-> 0, swapAt |-> 0, slip |-> Unknown, order |-> FALSE]

Receipt   == [state : ExecState, order : BOOLEAN]
NoReceipt == [state |-> "INTENT_RECEIVED", order |-> FALSE]

Settings == [executes : BOOLEAN, demo : BOOLEAN, confirms : BOOLEAN]

TypeOK ==
  /\ settings \in Settings
  /\ active \in Caps \cup {NoCap}
  /\ now \in Time
  /\ run \in [Requests -> Run]
  /\ order \in [Requests -> {"none", "asked", "open", "FINISHED", "FAILED"}]
  /\ receipt \in [Requests -> Receipt]
  /\ faults \in Nat

Init ==
  /\ settings \in Settings
  /\ active = NoCap
  /\ now = 0
  /\ run = [r \in Requests |-> Fresh]
  /\ order = [r \in Requests |-> "none"]
  /\ receipt = [r \in Requests |-> NoReceipt]
  /\ faults = 0

-----------------------------------------------------------------------------
Fault == faults' = faults + 1

(***************************************************************************)
(* The request goes on as to, after the transitions of path; one that is   *)
(* not allowed raises InvalidTransition out of the handler.                *)
(***************************************************************************)
Goes(r, path, to) ==
  run' = [run EXCEPT ![r] =
            IF Legal(run[r].state, path)
            THEN [to EXCEPT !.state = path[Len(path)]]
            ELSE [to EXCEPT !.pc = "raised"]]

Here(r, pc)  == run[r].pc = pc
To(r, pc)    == [run[r] EXCEPT !.pc = pc]
LowOf(a, b)  == IF a <= b THEN a ELSE b

-----------------------------------------------------------------------------
(* The world: the clock, the owner and the wallet's servers. *)

Tick ==
  /\ now < MaxClock
  /\ now' = now + 1
  /\ UNCHANGED <<settings, active, run, order, receipt, faults>>

\* constitution_approve: the new row is the only active one.
Approve(cap) ==
  /\ active' = cap
  /\ UNCHANGED <<settings, now, run, order, receipt, faults>>

\* A swap request reaches the order book, perhaps after its CLI was killed.
OrderOpens(r) ==
  /\ order[r] = "asked"
  /\ order' = [order EXCEPT ![r] = "open"]
  /\ UNCHANGED <<settings, active, now, run, receipt, faults>>

\* The wallet refuses the swap, or the request never reaches it.
OrderLost(r) ==
  /\ order[r] = "asked"
  /\ order' = [order EXCEPT ![r] = "none"]
  /\ UNCHANGED <<settings, active, now, run, receipt, faults>>

OrderEnds(r) ==
  /\ order[r] = "open"
  /\ \E end \in {"FINISHED", "FAILED"} : order' = [order EXCEPT ![r] = end]
  /\ UNCHANGED <<settings, active, now, run, receipt, faults>>

-----------------------------------------------------------------------------
(* Pipeline.run *)

Starts(r, confirm) ==
  /\ Here(r, "idle") /\ active # NoCap
  /\ Goes(r, <<"INTENT_COMPILED", "DISCOVERING">>,
          [To(r, "discover") EXCEPT !.confirm = confirm, !.cap = active])
  /\ UNCHANGED <<settings, active, now, order, receipt, faults>>

DiscoversNone(r) ==
  /\ Here(r, "discover")
  /\ Goes(r, <<"NO_VALID_ROUTE">>, To(r, "report"))
  /\ UNCHANGED <<settings, active, now, order, receipt, faults>>

Discovers(r, reps) ==
  /\ Here(r, "discover") /\ reps # {}
  /\ Goes(r, <<"QUOTING">>, [To(r, "quote") EXCEPT !.reps = reps])
  /\ UNCHANGED <<settings, active, now, order, receipt, faults>>

\* A candidate is quoted, or left NO_QUOTE; recorded data is never quoted.
Quotes(r, x, q) ==
  /\ Here(r, "quote") /\ x \in run[r].reps \ run[r].asked
  /\ q = NoQuote \/ ~settings.demo
  /\ run' = [run EXCEPT ![r] = [run[r] EXCEPT !.asked = @ \cup {x}, !.quotes[x] = q]]
  /\ UNCHANGED <<settings, active, now, order, receipt, faults>>

\* The slippage rule of the engine; an unknown slippage is not judged.
WithinCap(q, cap) == q.slip # Unknown => q.slip <= LowOf(cap, HardCap)

Eligible(r) ==
  {x \in run[r].reps : LET q == run[r].quotes[x] IN
                       q.rest # "fail" /\ WithinCap(q, run[r].cap)}

Quoted(r) == Here(r, "quote") /\ run[r].asked = run[r].reps

EvaluatesNone(r) ==
  /\ Quoted(r) /\ Eligible(r) = {}
  /\ Goes(r, <<"POLICY_EVALUATION", "NO_VALID_ROUTE">>, To(r, "report"))
  /\ UNCHANGED <<settings, active, now, order, receipt, faults>>

\* Slip: POLICY_EVALUATION is left out (the regression of tests/test_pipeline.py:4).
SlipSkipsEvaluation(r, x) ==
  /\ Quoted(r) /\ x \in Eligible(r)
  /\ Goes(r, <<"SIMULATING">>,
          [To(r, "simulate") EXCEPT !.route = x,
             !.needs = run[r].quotes[x].rest = "confirm" \/ settings.confirms])
  /\ UNCHANGED <<settings, active, now, order, receipt, faults>>

\* Slip: the constitution's own confirmation rules are not asked.
SlipOnlySystemAsks(r, x) ==
  /\ Quoted(r) /\ x \in Eligible(r)
  /\ Goes(r, <<"POLICY_EVALUATION", "SIMULATING">>,
          [To(r, "simulate") EXCEPT !.route = x, !.needs = settings.confirms])
  /\ UNCHANGED <<settings, active, now, order, receipt, faults>>

\* x has the best score of the candidates that survive.
Evaluates(r, x) ==
  /\ Quoted(r) /\ x \in Eligible(r)
  /\ Goes(r, <<"POLICY_EVALUATION", "SIMULATING">>,
          [To(r, "simulate") EXCEPT !.route = x,
             !.needs = run[r].quotes[x].rest = "confirm" \/ settings.confirms])
  /\ UNCHANGED <<settings, active, now, order, receipt, faults>>

SimulationStops(r, sim) ==
  /\ Here(r, "simulate") /\ sim \notin Passed
  /\ Goes(r, <<"SIMULATION_FAILED">>, [To(r, "report") EXCEPT !.sim = sim, !.simAt = now])
  /\ UNCHANGED <<settings, active, now, order, receipt, faults>>

SimulationPasses(r, sim) ==
  /\ Here(r, "simulate") /\ sim \in Passed
  /\ run' = [run EXCEPT ![r] = [To(r, "gate") EXCEPT !.sim = sim, !.simAt = now]]
  /\ UNCHANGED <<settings, active, now, order, receipt, faults>>

AwaitsConfirmation(r) ==
  /\ Here(r, "gate") /\ run[r].needs /\ ~run[r].confirm
  /\ Goes(r, <<"AWAITING_CONFIRMATION">>, To(r, "report"))
  /\ UNCHANGED <<settings, active, now, order, receipt, faults>>

KillSwitch(r) ==
  /\ Here(r, "gate") /\ (run[r].needs => run[r].confirm) /\ ~settings.executes
  /\ Goes(r, <<"READY", "POLICY_REJECTED">>, To(r, "report"))
  /\ UNCHANGED <<settings, active, now, order, receipt, faults>>

Authorizes(r) ==
  /\ Here(r, "gate") /\ (run[r].needs => run[r].confirm) /\ settings.executes
  /\ Goes(r, <<"READY", "EXECUTING">>, To(r, "execute"))
  /\ UNCHANGED <<settings, active, now, order, receipt, faults>>

-----------------------------------------------------------------------------
(* Pipeline._execute *)

\* _execute may swap: it looks again at the settings and at the simulation.
MaySwap(r) ==
  /\ settings.executes /\ ~settings.demo
  /\ run[r].sim = "PASS" /\ now - run[r].simAt <= MaxSimAge

Fails(r) == Goes(r, <<"EXECUTION_FAILED">>, To(r, "report"))

ExecuteRefuses(r) ==
  /\ Here(r, "execute") /\ ~MaySwap(r)
  /\ Fails(r)
  /\ UNCHANGED <<settings, active, now, order, receipt, faults>>

\* The slippage of a swap: the quote's, unless it states none or zero, both falsy.
AskedSlip(q) == IF q.slip \in {Unknown, 0} THEN DefaultSlip ELSE q.slip

Swaps(r) ==
  /\ Here(r, "execute") /\ MaySwap(r)
  /\ run' = [run EXCEPT ![r] =
               [To(r, "swap") EXCEPT !.swapAt = now,
                  !.slip = AskedSlip(run[r].quotes[run[r].route])]]
  /\ order' = [order EXCEPT ![r] = "asked"]
  /\ UNCHANGED <<settings, active, now, receipt, faults>>

\* Slip: a swap whose order is not in the book yet counts as refused.
SlipImpatient(r) ==
  /\ Here(r, "swap") /\ order[r] \in {"none", "asked"}
  /\ Fails(r)
  /\ UNCHANGED <<settings, active, now, order, receipt, faults>>

SwapRefused(r) ==
  /\ Here(r, "swap") /\ order[r] = "none"
  /\ Fails(r)
  /\ UNCHANGED <<settings, active, now, order, receipt, faults>>

\* Slip: an orderId counts as success.
SlipOrderIsSuccess(r) ==
  /\ Here(r, "swap") /\ order[r] \in {"open", "FINISHED", "FAILED"}
  /\ Goes(r, <<"PENDING_CONFIRMATION", "CONFIRMED">>,
          [To(r, "report") EXCEPT !.order = TRUE])
  /\ UNCHANGED <<settings, active, now, order, receipt, faults>>

SwapReplies(r) ==
  /\ Here(r, "swap") /\ order[r] \in {"open", "FINISHED", "FAILED"}
  /\ run' = [run EXCEPT ![r] = [To(r, "poll") EXCEPT !.order = TRUE]]
  /\ UNCHANGED <<settings, active, now, order, receipt, faults>>

\* Slip: a swap that was not answered is tried again.
SlipRetries(r) ==
  /\ Here(r, "swap") /\ faults < MaxFaults
  /\ run' = [run EXCEPT ![r] = To(r, "execute")]
  /\ Fault
  /\ UNCHANGED <<settings, active, now, order, receipt>>

\* baw times out, or answers with an error or no orderId, whatever it has done.
SwapUnanswered(r) ==
  /\ Here(r, "swap")
  /\ Fails(r)
  /\ Fault
  /\ UNCHANGED <<settings, active, now, order, receipt>>

PollFinished(r) ==
  /\ Here(r, "poll") /\ order[r] = "FINISHED"
  /\ Goes(r, <<"PENDING_CONFIRMATION", "CONFIRMED">>, To(r, "report"))
  /\ UNCHANGED <<settings, active, now, order, receipt, faults>>

PollFailed(r) ==
  /\ Here(r, "poll") /\ order[r] = "FAILED"
  /\ Fails(r)
  /\ UNCHANGED <<settings, active, now, order, receipt, faults>>

\* Slip: the poll has no deadline.
SlipPollsForever(r) ==
  /\ Here(r, "poll") /\ order[r] \in {"none", "asked"}
  /\ Goes(r, <<"PENDING_CONFIRMATION">>, To(r, "report"))
  /\ UNCHANGED <<settings, active, now, order, receipt, faults>>

\* 90 seconds of polls that failed or that found the order open.
PollGivesUp(r) ==
  /\ Here(r, "poll")
  /\ Goes(r, <<"PENDING_CONFIRMATION">>, To(r, "report"))
  /\ UNCHANGED <<settings, active, now, order, receipt, faults>>

-----------------------------------------------------------------------------
\* _receipt, after one more call of a provider, and save_receipt.
Reports(r) ==
  /\ Here(r, "report")
  /\ receipt' = [receipt EXCEPT ![r] = [state |-> run[r].state, order |-> run[r].order]]
  /\ run' = [run EXCEPT ![r].pc = "done"]
  /\ UNCHANGED <<settings, active, now, order, faults>>

\* An exception nothing catches: a provider's, a malformed reply, the database's.
Raises(r) ==
  /\ run[r].pc \in {"discover", "quote", "swap", "poll", "report"}
  /\ run' = [run EXCEPT ![r].pc = "raised"]
  /\ Fault
  /\ UNCHANGED <<settings, active, now, order, receipt>>

\* The process dies under its requests; orders and receipts survive.
Crash ==
  /\ faults < MaxFaults
  /\ run' = [r \in Requests |-> IF run[r].pc \in {"idle", "done"} THEN run[r]
                                ELSE [run[r] EXCEPT !.pc = "raised"]]
  /\ Fault
  /\ UNCHANGED <<settings, active, now, order, receipt>>

-----------------------------------------------------------------------------
RunStep(r) ==
  \/ DiscoversNone(r)
  \/ \E reps \in SUBSET Routes : Discovers(r, reps)
  \/ \E x \in Routes, q \in Quote : Quotes(r, x, q)
  \/ EvaluatesNone(r)
  \/ \E x \in Routes : Evaluates(r, x)
  \/ \E sim \in SimOutcomes : SimulationStops(r, sim) \/ SimulationPasses(r, sim)
  \/ AwaitsConfirmation(r)
  \/ KillSwitch(r)
  \/ Authorizes(r)
  \/ ExecuteRefuses(r)
  \/ Swaps(r)
  \/ SwapRefused(r)
  \/ SwapReplies(r)
  \/ PollFinished(r)
  \/ PollFailed(r)
  \/ PollGivesUp(r)
  \/ Reports(r)

WalletStep(r) == OrderOpens(r) \/ OrderLost(r) \/ OrderEnds(r)

Next ==
  \/ Tick
  \/ \E cap \in Caps : Approve(cap)
  \/ \E r \in Requests, confirm \in BOOLEAN : Starts(r, confirm)
  \/ \E r \in Requests :
       RunStep(r) \/ SwapUnanswered(r) \/ Raises(r) \/ WalletStep(r)
  \/ Crash

Spec == Init /\ [][Next]_vars

(***************************************************************************)
(* Fairness. The steps of a request run to their end, and baw is killed    *)
(* after its timeout; neither the wallet's servers nor the clock of an     *)
(* order are under the program's control.                                  *)
(***************************************************************************)
FairSpec == Spec /\ \A r \in Requests : WF_vars(RunStep(r)) /\ WF_vars(SwapUnanswered(r))

-----------------------------------------------------------------------------
Ordered(r) == order[r] \in {"open", "FINISHED", "FAILED"}

(***************************************************************************)
(* test_pipeline.py:1-6: on every path the transitions stay inside the     *)
(* declared state machine; without an outside fault no request raises.     *)
(***************************************************************************)
InsideMachine == faults = 0 => \A r \in Requests : run[r].pc # "raised"

(***************************************************************************)
(* SECURITY.md:38-39, in the order the code takes its decisions: whatever  *)
(* happens to the constitution, the clock and other requests meanwhile, a  *)
(* swap is asked for only with the switch on, a bound and recent           *)
(* simulation, a route the request's own constitution admits, and the      *)
(* confirmation that this constitution or the system requires; and, where  *)
(* the quote states a slippage, for one within both caps.                  *)
(***************************************************************************)
Authorized ==
  \A r \in Requests : order[r] # "none" =>
    LET l == run[r] IN
    /\ l.cap \in Caps /\ settings.executes /\ ~settings.demo
    /\ l.sim = "PASS" /\ l.swapAt - l.simAt <= MaxSimAge
    /\ l.route \in Eligible(r)
    /\ settings.confirms \/ l.quotes[l.route].rest = "confirm" => l.confirm
    /\ l.quotes[l.route].slip \notin {Unknown, 0} => l.slip <= LowOf(l.cap, HardCap)

(***************************************************************************)
(* system-architecture.md:27-30: every non-PASS simulation is a stop. A    *)
(* receipt that has got past the simulation belongs to a request whose own *)
(* simulation passed, never to one that was skipped or that failed.        *)
(***************************************************************************)
FailsClosed ==
  \A r \in Requests :
    receipt[r].state \notin {"INTENT_RECEIVED", "NO_VALID_ROUTE", "SIMULATION_FAILED"} =>
      run[r].sim \in {"PASS", "UNBOUND"}

(***************************************************************************)
(* project-overview-pdr.md:55, "An orderId is never reported as success":  *)
(* what a receipt says of an order agrees with the wallet, in spite of     *)
(* lost replies, exceptions, crashes and orders that outlive a request.    *)
(***************************************************************************)
HonestReceipts ==
  \A r \in Requests :
    /\ receipt[r].state = "CONFIRMED" => order[r] = "FINISHED"
    /\ receipt[r].state = "EXECUTION_FAILED" /\ receipt[r].order => order[r] = "FAILED"
    /\ receipt[r].state = "PENDING_CONFIRMATION" => receipt[r].order /\ Ordered(r)

(***************************************************************************)
(* As long as no reply is lost and nothing raises, an order that exists    *)
(* when its request is over is named by the request's receipt.             *)
(***************************************************************************)
OrdersAccounted ==
  faults = 0 =>
    \A r \in Requests : Ordered(r) /\ run[r].pc = "done" => receipt[r].order

(***************************************************************************)
(* The facts that make these properties inductive: what the point a        *)
(* request has reached says of its state machine, of its choices, of its   *)
(* order and of its receipt.                                               *)
(***************************************************************************)
StateAt ==
  [idle |-> "INTENT_RECEIVED", discover |-> "DISCOVERING", quote |-> "QUOTING",
   simulate |-> "SIMULATING", gate |-> "SIMULATING",
   execute |-> "EXECUTING", swap |-> "EXECUTING", poll |-> "EXECUTING"]

BeforeSwap  == {"idle", "discover", "quote", "simulate", "gate", "execute"}
AfterChoice == {"simulate", "gate", "execute", "swap", "poll"}

InPlace(r) == run[r].pc \in DOMAIN StateAt => run[r].state = StateAt[run[r].pc]

Choice(r) ==
  /\ run[r].pc # "idle" => run[r].cap \in Caps
  /\ run[r].pc \in AfterChoice =>
       /\ run[r].route \in Eligible(r)
       /\ settings.confirms \/ run[r].quotes[run[r].route].rest = "confirm" => run[r].needs
  /\ run[r].pc \in AfterChoice \ {"simulate"} => run[r].sim \in {"PASS", "UNBOUND"}
  /\ run[r].pc = "execute" => (run[r].needs => run[r].confirm)

OrderKnown(r) ==
  /\ run[r].pc \in BeforeSwap => order[r] = "none"
  /\ run[r].pc \in BeforeSwap \cup {"swap"} => ~run[r].order
  /\ run[r].pc = "poll" => run[r].order /\ Ordered(r)

Outcome(r) ==
  run[r].pc \in {"report", "done"} =>
    /\ run[r].state = "CONFIRMED" => order[r] = "FINISHED"
    /\ run[r].state = "EXECUTION_FAILED" /\ run[r].order => order[r] = "FAILED"
    /\ run[r].state = "PENDING_CONFIRMATION" => run[r].order /\ Ordered(r)
    /\ run[r].state \notin {"NO_VALID_ROUTE", "SIMULATION_FAILED"} =>
         run[r].sim \in {"PASS", "UNBOUND"}
    /\ faults = 0 /\ ~run[r].order => order[r] = "none"

Written(r) ==
  receipt[r] = IF run[r].pc = "done" THEN [state |-> run[r].state, order |-> run[r].order]
                                     ELSE NoReceipt

IInv ==
  /\ TypeOK
  /\ Authorized
  /\ InsideMachine
  /\ \A r \in Requests :
       InPlace(r) /\ Choice(r) /\ OrderKnown(r) /\ Outcome(r) /\ Written(r)

(***************************************************************************)
(* What the ledger (SwapLedger) sees of a request: the constitution         *)
(* it came in under, whether it may still ask for a swap, the terms of the *)
(* order it asked for, and what its receipt says of that order.            *)
(***************************************************************************)
CapOf(r)  == IF Here(r, "idle") THEN NoCap ELSE run[r].cap
Chances   == {r \in Requests : run[r].pc \in BeforeSwap}
Terms(r)  == IF order[r] = "none" THEN Unknown ELSE run[r].slip

Said(r) ==
  CASE ~Here(r, "done") -> "unwritten"
    [] Here(r, "done") /\ receipt[r].state = "CONFIRMED" -> "bought"
    [] Here(r, "done") /\ receipt[r].state = "PENDING_CONFIRMATION" -> "pending"
    [] Here(r, "done") /\ receipt[r].state = "EXECUTION_FAILED" /\ receipt[r].order -> "failed"
    [] OTHER -> "nothing"

Ledger == INSTANCE SwapLedger WITH
  NoTerms <- Unknown,
  live   <- settings.executes /\ ~settings.demo,
  cap    <- [r \in Requests |-> CapOf(r)],
  chance <- Chances,
  terms  <- [r \in Requests |-> Terms(r)],
  said   <- [r \in Requests |-> Said(r)]

(***************************************************************************)
(* The pipeline keeps the owner's ledger: no request asks twice, however   *)
(* its calls time out, raise or die; the slippage of an order is within    *)
(* the cap of the constitution the request came in under and the system's, *)
(* or is the pipeline's own default, which no cap is applied to, and stays *)
(* what it was; a receipt is final, and honest when it is written.         *)
(***************************************************************************)
KeepsSwapLedger == Ledger!Spec

(***************************************************************************)
(* No step of a request is ever gone back to: a request goes on through    *)
(* the points of Pipeline.run, asking each candidate once, whatever fails  *)
(* or dies around it, so that no number of other requests, lost replies    *)
(* and crashes makes one longer; and one that is over, with its receipt,   *)
(* never changes again.                                                    *)
(***************************************************************************)
Place ==
  [idle |-> 0, discover |-> 1, quote |-> 2, simulate |-> 3, gate |-> 4, execute |-> 5,
   swap |-> 6, poll |-> 7, report |-> 8, done |-> 9, raised |-> 9]

Onward(r) ==
  \/ run'[r] = run[r] /\ receipt'[r] = receipt[r]
  \/ Place[run[r].pc] < Place[run'[r].pc]
  \/ /\ run[r].pc = "quote" /\ run'[r].pc = "quote" /\ run'[r].reps = run[r].reps
     /\ \E x \in run[r].reps \ run[r].asked : run'[r].asked = run[r].asked \cup {x}

RequestsAdvance == [][\A r \in Requests : Onward(r)]_vars

(***************************************************************************)
(* Every request ends, with a receipt or an error, even when the wallet    *)
(* neither answers nor ever finishes the order: the CLI's timeout and the  *)
(* 90 s of polls are enough.                                               *)
(***************************************************************************)
RequestsEnd ==
  \A r \in Requests : run[r].pc # "idle" ~> run[r].pc \in {"done", "raised"}

(***************************************************************************)
(* What schema.py:33 says of a constitution's max_slippage_bps, "expected  *)
(* slippage ceiling", of what is asked of the wallet: the slippage of a    *)
(* swap is within the cap its request came in under. It is not: a quote    *)
(* with no slippage, or one that truncates to 0 bps, is not held to the    *)
(* cap or passes it, and is then swapped at DefaultSlip.                   *)
(***************************************************************************)
AskedWithinCap ==
  \A r \in Requests : order[r] # "none" => run[r].slip <= run[r].cap
=============================================================================
