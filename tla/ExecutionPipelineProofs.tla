---------------------- MODULE ExecutionPipelineProofs ----------------------
(***************************************************************************)
(* Proofs about ExecutionPipeline: its types, and its safety properties    *)
(* through the inductive invariant IInv.                                   *)
(***************************************************************************)
EXTENDS ExecutionPipeline, TLAPS

USE CapAssumption, SimulationAssumption, BoundAssumption

-----------------------------------------------------------------------------
(* Types *)

\* The states of the machine, one by one.
LEMMA StatesTyped ==
  ExecState = {"INTENT_RECEIVED", "INTENT_COMPILED", "AWAITING_POLICY_APPROVAL",
               "DISCOVERING", "QUOTING", "POLICY_EVALUATION", "NO_VALID_ROUTE", "SIMULATING",
               "SIMULATION_FAILED", "AWAITING_CONFIRMATION", "READY", "EXECUTING",
               "PENDING_CONFIRMATION", "CONFIRMED", "EXECUTION_FAILED", "POLICY_REJECTED"}
BY DEF ExecState, Allowed

\* The initial states are well typed.
LEMMA InitTypeOK == Init => TypeOK
<1> SUFFICES ASSUME Init PROVE TypeOK
  OBVIOUS
<1>1. NoQuote \in Quote
  BY DEF Quote
<1>2. Fresh \in Run
  BY <1>1, StatesTyped DEF Fresh, Run, Pc, Simulation, Time, Slip
<1>3. NoReceipt \in Receipt
  BY StatesTyped DEF NoReceipt, Receipt
<1>4. QED
  BY <1>2, <1>3 DEF Init, TypeOK, Time

\* A request that only moves on to another point stays well typed.
LEMMA ToTyped ==
  ASSUME TypeOK, NEW r \in Requests, NEW pc \in Pc
  PROVE  To(r, pc) \in Run
<1>1. run[r] \in Run
  BY DEF TypeOK
<1>2. QED
  BY <1>1 DEF To, Run

\* A request whose transitions end in a state of the machine stays well typed.
LEMMA GoesTyped ==
  ASSUME TypeOK, NEW r \in Requests, NEW to \in Run, NEW path,
         path[Len(path)] \in ExecState, Goes(r, path, to)
  PROVE  run' \in [Requests -> Run]
<1>1. [to EXCEPT !.state = path[Len(path)]] \in Run
  BY DEF Run
<1>2. [to EXCEPT !.pc = "raised"] \in Run
  BY DEF Run, Pc
<1>3. QED
  BY <1>1, <1>2 DEF Goes, TypeOK

\* The steps of the clock, the owner and the wallet keep the types.
LEMMA WorldTypeOK ==
  ASSUME TypeOK,
         \/ Tick
         \/ \E cap \in Caps : Approve(cap)
         \/ \E r \in Requests : WalletStep(r)
  PROVE  TypeOK'
<1>1. CASE Tick
  BY <1>1 DEF Tick, Time, TypeOK
<1>2. CASE \E cap \in Caps : Approve(cap)
  BY <1>2 DEF Approve, TypeOK
<1>3. ASSUME NEW r \in Requests, WalletStep(r) PROVE TypeOK'
  BY <1>3 DEF WalletStep, OrderOpens, OrderLost, OrderEnds, TypeOK
<1>4. QED
  BY <1>1, <1>2, <1>3

\* A step of the handler that only moves along the state machine.
LEMMA MovesTypeOK ==
  ASSUME TypeOK, NEW r \in Requests, NEW to \in Run, NEW path,
         path[Len(path)] \in ExecState, Goes(r, path, to),
         UNCHANGED <<settings, active, now, order, receipt>>, faults' \in Nat
  PROVE  TypeOK'
<1>1. run' \in [Requests -> Run]
  BY GoesTyped
<1>2. QED
  BY <1>1 DEF TypeOK

\* A step of the handler with one transition keeps the types.
LEMMA OneMoveTypeOK ==
  ASSUME TypeOK, NEW r \in Requests, NEW to \in Run, NEW a \in ExecState, Goes(r, <<a>>, to),
         UNCHANGED <<settings, active, now, order, receipt>>, faults' \in Nat
  PROVE  TypeOK'
<1> DEFINE path == <<a>>
<1>1. path[Len(path)] \in ExecState
  OBVIOUS
<1>2. Goes(r, path, to)
  OBVIOUS
<1> HIDE DEF path
<1>3. QED
  BY <1>1, <1>2, MovesTypeOK

\* A step of the handler with two transitions keeps the types.
LEMMA TwoMovesTypeOK ==
  ASSUME TypeOK, NEW r \in Requests, NEW to \in Run, NEW a, NEW b \in ExecState,
         Goes(r, <<a, b>>, to),
         UNCHANGED <<settings, active, now, order, receipt>>, faults' \in Nat
  PROVE  TypeOK'
<1> DEFINE path == <<a, b>>
<1>1. path[Len(path)] \in ExecState
  OBVIOUS
<1>2. Goes(r, path, to)
  OBVIOUS
<1> HIDE DEF path
<1>3. QED
  BY <1>1, <1>2, MovesTypeOK

\* Pipeline.run up to the simulation keeps the types.
LEMMA FrontTypeOK ==
  ASSUME TypeOK, NEW r \in Requests,
         \/ \E confirm \in BOOLEAN : Starts(r, confirm)
         \/ DiscoversNone(r)
         \/ \E reps \in SUBSET Routes : Discovers(r, reps)
         \/ \E x \in Routes, q \in Quote : Quotes(r, x, q)
         \/ EvaluatesNone(r)
         \/ \E x \in Routes : Evaluates(r, x)
  PROVE  TypeOK'
<1>0. run[r] \in Run /\ faults \in Nat
  BY DEF TypeOK
<1>1. ASSUME NEW confirm \in BOOLEAN, Starts(r, confirm)
      PROVE  TypeOK'
  <2> DEFINE to == [To(r, "discover") EXCEPT !.confirm = confirm, !.cap = active]
  <2>1. to \in Run
    BY <1>0 DEF TypeOK, To, Run, Pc
  <2>2. QED
    BY <1>0, <1>1, <2>1, TwoMovesTypeOK, StatesTyped DEF Starts
<1>2. CASE DiscoversNone(r)
  BY <1>0, <1>2, OneMoveTypeOK, ToTyped, StatesTyped DEF DiscoversNone, Pc
<1>3. ASSUME NEW reps \in SUBSET Routes, Discovers(r, reps)
      PROVE  TypeOK'
  <2> DEFINE to == [To(r, "quote") EXCEPT !.reps = reps]
  <2>1. to \in Run
    BY <1>0 DEF To, Run, Pc
  <2>2. QED
    BY <1>0, <1>3, <2>1, OneMoveTypeOK, StatesTyped DEF Discovers
<1>4. ASSUME NEW x \in Routes, NEW q \in Quote, Quotes(r, x, q)
      PROVE  TypeOK'
  <2> DEFINE to == [run[r] EXCEPT !.asked = @ \cup {x}, !.quotes[x] = q]
  <2>1. to \in Run
    BY <1>0 DEF Run
  <2>2. run' = [run EXCEPT ![r] = to]
    BY <1>4 DEF Quotes
  <2>3. QED
    BY <1>4, <2>1, <2>2 DEF Quotes, TypeOK
<1>5. CASE EvaluatesNone(r)
  BY <1>0, <1>5, TwoMovesTypeOK, ToTyped, StatesTyped DEF EvaluatesNone, Pc
<1>6. ASSUME NEW x \in Routes, Evaluates(r, x)
      PROVE  TypeOK'
  <2> DEFINE needs == run[r].quotes[x].rest = "confirm" \/ settings.confirms
             to == [To(r, "simulate") EXCEPT !.route = x, !.needs = needs]
  <2>1. needs \in BOOLEAN
    BY DEF TypeOK, Settings
  <2>2. to \in Run
    BY <1>0, <2>1 DEF To, Run, Pc
  <2>3. QED
    BY <1>0, <1>6, <2>2, TwoMovesTypeOK, StatesTyped DEF Evaluates
<1>7. QED
  BY <1>1, <1>2, <1>3, <1>4, <1>5, <1>6

\* The simulation and the gate keep the types.
LEMMA GateTypeOK ==
  ASSUME TypeOK, NEW r \in Requests,
         \/ \E sim \in SimOutcomes : SimulationStops(r, sim) \/ SimulationPasses(r, sim)
         \/ AwaitsConfirmation(r) \/ KillSwitch(r) \/ Authorizes(r)
  PROVE  TypeOK'
<1>0. run[r] \in Run /\ faults \in Nat /\ now \in Time
  BY DEF TypeOK
<1>1. ASSUME NEW sim \in SimOutcomes, SimulationStops(r, sim)
      PROVE  TypeOK'
  <2> DEFINE to == [To(r, "report") EXCEPT !.sim = sim, !.simAt = now]
  <2>1. to \in Run
    BY <1>0 DEF To, Run, Pc
  <2>2. QED
    BY <1>0, <1>1, <2>1, OneMoveTypeOK, StatesTyped DEF SimulationStops
<1>2. ASSUME NEW sim \in SimOutcomes, SimulationPasses(r, sim)
      PROVE  TypeOK'
  <2> DEFINE to == [To(r, "gate") EXCEPT !.sim = sim, !.simAt = now]
  <2>1. to \in Run
    BY <1>0 DEF To, Run, Pc
  <2>2. QED
    BY <1>2, <2>1 DEF SimulationPasses, TypeOK
<1>3. CASE AwaitsConfirmation(r)
  BY <1>0, <1>3, OneMoveTypeOK, ToTyped, StatesTyped DEF AwaitsConfirmation, Pc
<1>4. CASE KillSwitch(r)
  BY <1>0, <1>4, TwoMovesTypeOK, ToTyped, StatesTyped DEF KillSwitch, Pc
<1>5. CASE Authorizes(r)
  BY <1>0, <1>5, TwoMovesTypeOK, ToTyped, StatesTyped DEF Authorizes, Pc
<1>6. QED
  BY <1>1, <1>2, <1>3, <1>4, <1>5

\* A swap is asked for with a slippage the quotes may state, or with the default;
\* what the quote states is within the caps wherever it was judged.
LEMMA AskedSlipIs ==
  ASSUME NEW q \in Quote, NEW cap \in Nat, WithinCap(q, cap)
  PROVE  /\ AskedSlip(q) \in Slips \cup {DefaultSlip}
         /\ q.slip \in {Unknown, 0} => AskedSlip(q) = DefaultSlip
         /\ q.slip \notin {Unknown, 0} =>
              AskedSlip(q) <= cap /\ AskedSlip(q) <= HardCap /\ AskedSlip(q) <= LowOf(cap, HardCap)
<1>1. q.slip \in Slips \cup {Unknown}
  BY DEF Quote, NoQuote, Slip
<1>2. CASE q.slip \in {Unknown, 0}
  BY <1>2 DEF AskedSlip
<1>3. CASE q.slip \notin {Unknown, 0}
  <2>1. AskedSlip(q) = q.slip /\ q.slip \in Slips /\ q.slip \in Nat
    BY <1>1, <1>3 DEF AskedSlip
  <2>2. q.slip <= LowOf(cap, HardCap)
    BY <1>3 DEF WithinCap
  <2>3. ASSUME NEW a \in Nat, a <= LowOf(cap, HardCap) PROVE a <= cap /\ a <= HardCap
    BY <2>3 DEF LowOf
  <2>4. q.slip <= cap /\ q.slip <= HardCap
    BY <2>1, <2>2, <2>3
  <2>5. QED
    BY <1>3, <2>1, <2>2, <2>4
<1>4. QED
  BY <1>2, <1>3

\* The route of a request about to swap was judged, and so may be asked for.
LEMMA AskedTyped ==
  ASSUME TypeOK, NEW r \in Requests, run[r].cap \in Caps, run[r].route \in Eligible(r)
  PROVE  LET q == run[r].quotes[run[r].route] IN
         /\ AskedSlip(q) \in Slips \cup {DefaultSlip}
         /\ q.slip \in {Unknown, 0} => AskedSlip(q) = DefaultSlip
         /\ q.slip \notin {Unknown, 0} =>
              /\ AskedSlip(q) <= run[r].cap /\ AskedSlip(q) <= HardCap
              /\ AskedSlip(q) <= LowOf(run[r].cap, HardCap)
<1>1. run[r] \in Run
  BY DEF TypeOK
<1>2. run[r].route \in Routes
  BY <1>1 DEF Eligible, Run
<1>3. run[r].quotes[run[r].route] \in Quote
  BY <1>1, <1>2 DEF Run
<1>4. WithinCap(run[r].quotes[run[r].route], run[r].cap) /\ run[r].cap \in Nat
  BY DEF Eligible
<1>5. QED
  BY <1>3, <1>4, AskedSlipIs

\* A request about to swap has chosen an admissible route under a constitution.
Judged(r) == run[r].pc = "execute" => run[r].cap \in Caps /\ run[r].route \in Eligible(r)

\* Pipeline._execute and the receipt keep the types.
LEMMA ExecuteTypeOK ==
  ASSUME TypeOK, NEW r \in Requests, Judged(r),
         \/ ExecuteRefuses(r) \/ Swaps(r) \/ SwapRefused(r) \/ SwapReplies(r)
         \/ SwapUnanswered(r) \/ PollFinished(r) \/ PollFailed(r) \/ PollGivesUp(r)
         \/ Reports(r) \/ Raises(r)
  PROVE  TypeOK'
<1>0. run[r] \in Run /\ faults \in Nat /\ now \in Time
  BY DEF TypeOK
<1>1. CASE ExecuteRefuses(r) \/ SwapRefused(r) \/ SwapUnanswered(r) \/ PollFailed(r)
  <2>1. Fails(r) /\ UNCHANGED <<settings, active, now, order, receipt>>
    BY <1>1 DEF ExecuteRefuses, SwapRefused, SwapUnanswered, PollFailed
  <2>2. faults' \in Nat
    BY <1>0, <1>1 DEF ExecuteRefuses, SwapRefused, SwapUnanswered, PollFailed, Fault
  <2>3. QED
    BY <2>1, <2>2, OneMoveTypeOK, ToTyped, StatesTyped DEF Fails, Pc
<1>2. CASE Swaps(r)
  <2> DEFINE slip == AskedSlip(run[r].quotes[run[r].route])
             to == [To(r, "swap") EXCEPT !.swapAt = now, !.slip = slip]
  <2>1. slip \in Slips \cup {DefaultSlip}
    BY <1>2, AskedTyped DEF Swaps, Here, Judged
  <2>2. run' = [run EXCEPT ![r] = to]
    BY <1>2 DEF Swaps
  <2> HIDE DEF slip
  <2>3. to \in Run
    BY <1>0, <2>1 DEF To, Run, Pc, Slip
  <2>4. QED
    BY <1>2, <2>2, <2>3 DEF Swaps, TypeOK
<1>3. CASE SwapReplies(r)
  <2> DEFINE to == [To(r, "poll") EXCEPT !.order = TRUE]
  <2>1. to \in Run
    BY <1>0 DEF To, Run, Pc
  <2>2. QED
    BY <1>3, <2>1 DEF SwapReplies, TypeOK
<1>4. CASE PollFinished(r)
  BY <1>0, <1>4, TwoMovesTypeOK, ToTyped, StatesTyped DEF PollFinished, Pc
<1>5. CASE PollGivesUp(r)
  BY <1>0, <1>5, OneMoveTypeOK, ToTyped, StatesTyped DEF PollGivesUp, Pc
<1>6. CASE Reports(r)
  <2>1. [state |-> run[r].state, order |-> run[r].order] \in Receipt
    BY <1>0 DEF Run, Receipt
  <2>2. [run[r] EXCEPT !.pc = "done"] \in Run
    BY <1>0 DEF Run, Pc
  <2>3. QED
    BY <1>6, <2>1, <2>2 DEF Reports, TypeOK
<1>7. CASE Raises(r)
  <2>1. [run[r] EXCEPT !.pc = "raised"] \in Run
    BY <1>0 DEF Run, Pc
  <2>2. QED
    BY <1>7, <2>1 DEF Raises, Fault, TypeOK
<1>8. QED
  BY <1>1, <1>2, <1>3, <1>4, <1>5, <1>6, <1>7

\* Every step keeps the types.
LEMMA NextTypeOK == TypeOK /\ (\A r \in Requests : Judged(r)) /\ [Next]_vars => TypeOK'
<1> SUFFICES ASSUME TypeOK, \A r \in Requests : Judged(r), [Next]_vars PROVE TypeOK'
  OBVIOUS
<1>1. CASE Crash
  <2>1. ASSUME NEW r \in Requests
        PROVE  run[r] \in Run /\ [run[r] EXCEPT !.pc = "raised"] \in Run
    <3>1. run[r] \in Run
      BY DEF TypeOK
    <3>2. QED
      BY <3>1 DEF Run, Pc
  <2>2. run' \in [Requests -> Run]
    BY <1>1, <2>1 DEF Crash
  <2>3. QED
    BY <1>1, <2>2 DEF Crash, Fault, TypeOK
<1>2. CASE UNCHANGED vars
  BY <1>2 DEF vars, TypeOK
<1>3. QED
  BY <1>1, <1>2, WorldTypeOK, FrontTypeOK, GateTypeOK, ExecuteTypeOK DEF Next, RunStep

-----------------------------------------------------------------------------
(***************************************************************************)
(* The inductive invariant, request by request: a step touches the state   *)
(* of one request and leaves what IInv says of the others alone.           *)
(***************************************************************************)
Allowance(r) ==
  order[r] # "none" =>
    /\ run[r].cap \in Caps /\ settings.executes /\ ~settings.demo
    /\ run[r].sim = "PASS" /\ run[r].swapAt - run[r].simAt <= MaxSimAge
    /\ run[r].route \in Eligible(r)
    /\ settings.confirms \/ run[r].quotes[run[r].route].rest = "confirm" => run[r].confirm
    /\ run[r].quotes[run[r].route].slip \notin {Unknown, 0} =>
         run[r].slip <= LowOf(run[r].cap, HardCap)

Standing(r) ==
  /\ InPlace(r) /\ Choice(r) /\ OrderKnown(r) /\ Outcome(r) /\ Written(r)
  /\ Allowance(r)
  /\ faults = 0 => run[r].pc # "raised"

\* The inductive invariant, read request by request.
LEMMA RequestByRequest == IInv <=> TypeOK /\ \A r \in Requests : Standing(r)
BY DEF IInv, Standing, Authorized, Allowance, InsideMachine

\* The admissible routes depend on the request's own locals alone.
LEMMA SameEligible ==
  ASSUME NEW r \in Requests, run'[r].reps = run[r].reps,
         run'[r].quotes = run[r].quotes, run'[r].cap = run[r].cap
  PROVE  Eligible(r)' = Eligible(r)
BY DEF Eligible

\* A step that leaves a request alone keeps what is known of it.
LEMMA Frame ==
  ASSUME NEW r \in Requests, Standing(r),
         run'[r] = run[r], order'[r] = order[r], receipt'[r] = receipt[r],
         settings' = settings, faults' = 0 => faults = 0
  PROVE  Standing(r)'
<1>1. Eligible(r)' = Eligible(r)
  BY SameEligible
<1>2. QED
  BY <1>1 DEF Standing, InPlace, Choice, OrderKnown, Outcome, Written, Allowance, Ordered

\* A transition the machine allows is taken.
LEMMA OneMove ==
  ASSUME NEW r \in Requests, NEW to, NEW a, a \in Allowed[run[r].state], Goes(r, <<a>>, to)
  PROVE  run' = [run EXCEPT ![r] = [to EXCEPT !.state = a]]
<1>1. <<a>>[Len(<<a>>)] = a
  OBVIOUS
<1>2. Legal(run[r].state, <<a>>)
  BY DEF Legal
<1>3. QED
  BY <1>1, <1>2 DEF Goes

\* Two transitions the machine allows are both taken.
LEMMA TwoMoves ==
  ASSUME NEW r \in Requests, NEW to, NEW a, NEW b,
         a \in Allowed[run[r].state], b \in Allowed[a], Goes(r, <<a, b>>, to)
  PROVE  run' = [run EXCEPT ![r] = [to EXCEPT !.state = b]]
<1>1. <<a, b>>[Len(<<a, b>>)] = b
  OBVIOUS
<1>2. Legal(run[r].state, <<a, b>>)
  <2>1. Len(<<a, b>>) = 2 /\ <<a, b>>[1] = a /\ <<a, b>>[2] = b
    OBVIOUS
  <2>2. \A i \in 2..2 : i = 2
    OBVIOUS
  <2>3. QED
    BY <2>1, <2>2 DEF Legal
<1>3. QED
  BY <1>1, <1>2 DEF Goes

\* The transitions the handler takes, from the states it takes them in.
LEMMA Transitions ==
  /\ "INTENT_COMPILED" \in Allowed["INTENT_RECEIVED"]
  /\ "DISCOVERING" \in Allowed["INTENT_COMPILED"]
  /\ {"QUOTING", "NO_VALID_ROUTE"} \subseteq Allowed["DISCOVERING"]
  /\ "POLICY_EVALUATION" \in Allowed["QUOTING"]
  /\ {"SIMULATING", "NO_VALID_ROUTE"} \subseteq Allowed["POLICY_EVALUATION"]
  /\ {"AWAITING_CONFIRMATION", "READY", "SIMULATION_FAILED"} \subseteq Allowed["SIMULATING"]
  /\ {"EXECUTING", "POLICY_REJECTED"} \subseteq Allowed["READY"]
  /\ {"PENDING_CONFIRMATION", "EXECUTION_FAILED"} \subseteq Allowed["EXECUTING"]
  /\ "CONFIRMED" \in Allowed["PENDING_CONFIRMATION"]
BY DEF Allowed

-----------------------------------------------------------------------------
(* What each step makes of the request it belongs to *)

\* A step of request r touches nothing of another request.
LEMMA Elsewhere ==
  ASSUME TypeOK, NEW r \in Requests, NEW s \in Requests, s # r,
         \/ \E confirm \in BOOLEAN : Starts(r, confirm)
         \/ RunStep(r) \/ SwapUnanswered(r) \/ Raises(r) \/ WalletStep(r)
  PROVE  /\ run'[s] = run[s] /\ order'[s] = order[s] /\ receipt'[s] = receipt[s]
         /\ settings' = settings /\ (faults' = 0 => faults = 0)
<1> USE DEF TypeOK, Goes
<1>1. ASSUME NEW confirm \in BOOLEAN, Starts(r, confirm)
      PROVE  run'[s] = run[s] /\ UNCHANGED <<settings, order, receipt, faults>>
  BY <1>1 DEF Starts
<1>2. CASE WalletStep(r)
  BY <1>2 DEF WalletStep, OrderOpens, OrderLost, OrderEnds
<1>3. CASE SwapUnanswered(r) \/ Raises(r)
  BY <1>3 DEF SwapUnanswered, Raises, Fails, Fault
<1>4. CASE RunStep(r)
  <2>1. UNCHANGED <<settings, faults>>
    BY <1>4 DEF RunStep, DiscoversNone, Discovers, Quotes, EvaluatesNone, Evaluates,
       SimulationStops, SimulationPasses, AwaitsConfirmation, KillSwitch, Authorizes,
       ExecuteRefuses, Swaps, SwapRefused, SwapReplies, PollFinished, PollFailed,
       PollGivesUp, Reports
  <2>2. order'[s] = order[s] /\ receipt'[s] = receipt[s]
    BY <1>4 DEF RunStep, DiscoversNone, Discovers, Quotes, EvaluatesNone, Evaluates,
       SimulationStops, SimulationPasses, AwaitsConfirmation, KillSwitch, Authorizes,
       ExecuteRefuses, Swaps, SwapRefused, SwapReplies, PollFinished, PollFailed,
       PollGivesUp, Reports
  <2>3. run'[s] = run[s]
    BY <1>4 DEF RunStep, DiscoversNone, Discovers, Quotes, EvaluatesNone, Evaluates,
       SimulationStops, SimulationPasses, AwaitsConfirmation, KillSwitch, Authorizes,
       ExecuteRefuses, Swaps, SwapRefused, SwapReplies, PollFinished, PollFailed,
       PollGivesUp, Reports, Fails
  <2>4. QED
    BY <2>1, <2>2, <2>3
<1>5. QED
  BY <1>1, <1>2, <1>3, <1>4

\* StateAt, point by point.
LEMMA StateAtPoints ==
  /\ DOMAIN StateAt = BeforeSwap \cup AfterChoice
  /\ StateAt["idle"] = "INTENT_RECEIVED" /\ StateAt["discover"] = "DISCOVERING"
  /\ StateAt["quote"] = "QUOTING" /\ StateAt["simulate"] = "SIMULATING"
  /\ StateAt["gate"] = "SIMULATING" /\ StateAt["execute"] = "EXECUTING"
  /\ StateAt["swap"] = "EXECUTING" /\ StateAt["poll"] = "EXECUTING"
BY DEF StateAt, BeforeSwap, AfterChoice

\* A request that has not asked for a swap stands where its locals say it does.
LEMMA UnorderedStanding ==
  ASSUME NEW r \in Requests,
         order'[r] = "none", receipt'[r] = NoReceipt, run'[r].order = FALSE,
         run'[r].pc \in BeforeSwap \cup {"report"}, InPlace(r)', Choice(r)',
         run'[r].pc = "report" =>
           /\ run'[r].state \notin {"CONFIRMED", "PENDING_CONFIRMATION"}
           /\ \/ run'[r].state \in {"NO_VALID_ROUTE", "SIMULATION_FAILED"}
              \/ run'[r].sim \in {"PASS", "UNBOUND"}
  PROVE  Standing(r)'
<1>1. OrderKnown(r)'
  BY DEF OrderKnown, BeforeSwap
<1>2. Outcome(r)'
  BY DEF Outcome, BeforeSwap
<1>3. Written(r)'
  BY DEF Written, BeforeSwap
<1>4. Allowance(r)'
  BY DEF Allowance
<1>5. run'[r].pc # "raised"
  BY DEF BeforeSwap
<1>6. QED
  BY <1>1, <1>2, <1>3, <1>4, <1>5 DEF Standing

\* What a request that has not asked for a swap has.
LEMMA Unordered ==
  ASSUME TypeOK, NEW r \in Requests, Standing(r), run[r].pc \in BeforeSwap
  PROVE  /\ order[r] = "none" /\ receipt[r] = NoReceipt /\ run[r].order = FALSE
         /\ run[r].state = StateAt[run[r].pc]
         /\ run[r].pc # "idle" => run[r].cap \in Caps
<1>1. run[r].order \in BOOLEAN
  BY DEF TypeOK, Run
<1>2. QED
  BY <1>1 DEF Standing, OrderKnown, Written, InPlace, Choice, BeforeSwap, StateAt

\* The steps before the choice of a route.
LEMMA FrontStanding ==
  ASSUME TypeOK, NEW r \in Requests, Standing(r),
         \/ \E confirm \in BOOLEAN : Starts(r, confirm)
         \/ DiscoversNone(r)
         \/ \E reps \in SUBSET Routes : Discovers(r, reps)
         \/ \E x \in Routes, q \in Quote : Quotes(r, x, q)
         \/ EvaluatesNone(r)
  PROVE  Standing(r)'
<1> USE Transitions DEF Here
<1>0. run[r] \in Run /\ run \in [Requests -> Run]
  BY DEF TypeOK
<1>1. ASSUME NEW confirm \in BOOLEAN, Starts(r, confirm)
      PROVE  Standing(r)'
  <2> DEFINE to == [To(r, "discover") EXCEPT !.confirm = confirm, !.cap = active]
  <2>0. run[r].pc = "idle" /\ run[r].state = "INTENT_RECEIVED" /\ active \in Caps
    BY <1>1, Unordered, StateAtPoints DEF Starts, BeforeSwap, TypeOK
  <2>1. run' = [run EXCEPT ![r] = [to EXCEPT !.state = "DISCOVERING"]]
    BY <1>1, <2>0, TwoMoves DEF Starts
  <2>2. /\ run'[r].pc = "discover" /\ run'[r].state = "DISCOVERING"
        /\ run'[r].cap = active /\ run'[r].order = run[r].order
    BY <1>0, <2>1 DEF To, Run
  <2>3. order' = order /\ receipt' = receipt
    BY <1>1 DEF Starts
  <2>4. QED
    BY <2>0, <2>2, <2>3, Unordered, UnorderedStanding, StateAtPoints, ZenonT(40)
       DEF BeforeSwap, InPlace, Choice, AfterChoice
<1>2. CASE DiscoversNone(r) \/ EvaluatesNone(r)
  <2>0. run[r].pc \in {"discover", "quote"}
    BY <1>2 DEF DiscoversNone, EvaluatesNone, Quoted
  <2>1. run' = [run EXCEPT ![r] = [To(r, "report") EXCEPT !.state = "NO_VALID_ROUTE"]]
    <3>1. CASE DiscoversNone(r)
      <4>1. run[r].state = "DISCOVERING"
        BY <3>1, Unordered, StateAtPoints DEF DiscoversNone, BeforeSwap
      <4>2. QED
        BY <3>1, <4>1, OneMove DEF DiscoversNone
    <3>2. CASE EvaluatesNone(r)
      <4>1. run[r].state = "QUOTING"
        BY <3>2, Unordered, StateAtPoints DEF EvaluatesNone, Quoted, BeforeSwap
      <4>2. QED
        BY <3>2, <4>1, TwoMoves DEF EvaluatesNone
    <3>3. QED
      BY <1>2, <3>1, <3>2
  <2>2. /\ run'[r].pc = "report" /\ run'[r].state = "NO_VALID_ROUTE"
        /\ run'[r].cap = run[r].cap /\ run'[r].order = run[r].order
    BY <1>0, <2>1 DEF To, Run
  <2>3. order' = order /\ receipt' = receipt
    BY <1>2 DEF DiscoversNone, EvaluatesNone
  <2>4. QED
    BY <2>0, <2>2, <2>3, Unordered, UnorderedStanding, StateAtPoints, ZenonT(40)
       DEF BeforeSwap, InPlace, Choice, AfterChoice
<1>3. ASSUME NEW reps \in SUBSET Routes, Discovers(r, reps)
      PROVE  Standing(r)'
  <2> DEFINE to == [To(r, "quote") EXCEPT !.reps = reps]
  <2>0. run[r].pc = "discover" /\ run[r].state = "DISCOVERING"
    BY <1>3, Unordered, StateAtPoints DEF Discovers, BeforeSwap
  <2>1. run' = [run EXCEPT ![r] = [to EXCEPT !.state = "QUOTING"]]
    BY <1>3, <2>0, OneMove DEF Discovers
  <2>2. /\ run'[r].pc = "quote" /\ run'[r].state = "QUOTING"
        /\ run'[r].cap = run[r].cap /\ run'[r].order = run[r].order
    BY <1>0, <2>1 DEF To, Run
  <2>3. order' = order /\ receipt' = receipt
    BY <1>3 DEF Discovers
  <2>4. QED
    BY <2>0, <2>2, <2>3, Unordered, UnorderedStanding, StateAtPoints, ZenonT(40)
       DEF BeforeSwap, InPlace, Choice, AfterChoice
<1>4. ASSUME NEW x \in Routes, NEW q \in Quote, Quotes(r, x, q)
      PROVE  Standing(r)'
  <2> DEFINE to == [run[r] EXCEPT !.asked = @ \cup {x}, !.quotes[x] = q]
  <2>0. run[r].pc = "quote" /\ run[r].state = "QUOTING"
    BY <1>4, Unordered, StateAtPoints DEF Quotes, BeforeSwap
  <2>1. run' = [run EXCEPT ![r] = to]
    BY <1>4 DEF Quotes
  <2>2. /\ run'[r].pc = "quote" /\ run'[r].state = "QUOTING"
        /\ run'[r].cap = run[r].cap /\ run'[r].order = run[r].order
    BY <1>0, <2>0, <2>1 DEF Run
  <2>3. order' = order /\ receipt' = receipt
    BY <1>4 DEF Quotes
  <2>4. QED
    BY <2>0, <2>2, <2>3, Unordered, UnorderedStanding, StateAtPoints, ZenonT(40)
       DEF BeforeSwap, InPlace, Choice, AfterChoice
<1>6. QED
  BY <1>1, <1>2, <1>3, <1>4

\* A chosen route stays chosen while the request keeps what it chose it from.
LEMMA ChoiceKept ==
  ASSUME NEW r \in Requests, Choice(r), run[r].pc \in AfterChoice, settings' = settings,
         run'[r].cap = run[r].cap, run'[r].reps = run[r].reps,
         run'[r].quotes = run[r].quotes, run'[r].route = run[r].route,
         run'[r].needs = run[r].needs,
         run'[r].pc \in AfterChoice => run'[r].pc # "simulate",
         run'[r].pc \in AfterChoice => run'[r].sim \in {"PASS", "UNBOUND"},
         run'[r].pc = "execute" => (run'[r].needs => run'[r].confirm)
  PROVE  Choice(r)'
<1>1. Eligible(r)' = Eligible(r)
  BY SameEligible
<1>2. run[r].pc # "idle"
  BY DEF AfterChoice
<1>3. QED
  BY <1>1, <1>2 DEF Choice, AfterChoice

\* The choice of a route.
LEMMA EvaluatesStanding ==
  ASSUME TypeOK, NEW r \in Requests, Standing(r), NEW x \in Routes, Evaluates(r, x)
  PROVE  Standing(r)'
<1> DEFINE needs == run[r].quotes[x].rest = "confirm" \/ settings.confirms
           to == [To(r, "simulate") EXCEPT !.route = x, !.needs = needs]
<1> USE Transitions
<1>0. run[r] \in Run /\ run \in [Requests -> Run]
  BY DEF TypeOK
<1>1. run[r].pc = "quote" /\ run[r].state = "QUOTING"
  <2>1. run[r].pc = "quote"
    BY DEF Evaluates, Quoted, Here
  <2>2. QED
    BY <2>1, Unordered, StateAtPoints DEF BeforeSwap
<1>2. run' = [run EXCEPT ![r] = [to EXCEPT !.state = "SIMULATING"]]
  BY <1>1, TwoMoves, ZenonT(40) DEF Evaluates
<1>3. /\ run'[r].pc = "simulate" /\ run'[r].state = "SIMULATING"
      /\ run'[r].order = run[r].order /\ run'[r].cap = run[r].cap
      /\ run'[r].reps = run[r].reps /\ run'[r].quotes = run[r].quotes
      /\ run'[r].route = x /\ run'[r].needs = needs
  BY <1>0, <1>2 DEF To, Run
<1>4. order' = order /\ receipt' = receipt /\ settings' = settings /\ x \in Eligible(r)
  BY DEF Evaluates
<1>5. Eligible(r)' = Eligible(r)
  BY <1>3, SameEligible
<1>6. Choice(r)'
  <2>1. run'[r].cap \in Caps
    BY <1>1, <1>3, Unordered DEF BeforeSwap
  <2>2. settings'.confirms \/ run'[r].quotes[run'[r].route].rest = "confirm" => run'[r].needs
    BY <1>3, <1>4
  <2>3. QED
    BY <1>3, <1>4, <1>5, <2>1, <2>2 DEF Choice, AfterChoice
<1>7. QED
  BY <1>1, <1>3, <1>4, <1>6, Unordered, UnorderedStanding, StateAtPoints
     DEF BeforeSwap, InPlace

\* The simulation, the confirmation, the switch, and the refusals of _execute.
LEMMA GateStanding ==
  ASSUME TypeOK, NEW r \in Requests, Standing(r),
         \/ \E sim \in SimOutcomes : SimulationStops(r, sim) \/ SimulationPasses(r, sim)
         \/ AwaitsConfirmation(r) \/ KillSwitch(r) \/ Authorizes(r) \/ ExecuteRefuses(r)
  PROVE  Standing(r)'
<1> USE Transitions DEF Here
<1>0. run[r] \in Run /\ run \in [Requests -> Run] /\ Choice(r)
  BY DEF TypeOK, Standing
<1>1. ASSUME NEW sim \in SimOutcomes, SimulationStops(r, sim)
      PROVE  Standing(r)'
  <2> DEFINE to == [To(r, "report") EXCEPT !.sim = sim, !.simAt = now]
  <2>0. run[r].pc = "simulate" /\ run[r].state = "SIMULATING"
    BY <1>1, Unordered, StateAtPoints DEF SimulationStops, BeforeSwap
  <2>1. run' = [run EXCEPT ![r] = [to EXCEPT !.state = "SIMULATION_FAILED"]]
    BY <1>1, <2>0, OneMove DEF SimulationStops
  <2>2. /\ run'[r].pc = "report" /\ run'[r].state = "SIMULATION_FAILED"
        /\ run'[r].cap = run[r].cap /\ run'[r].order = run[r].order
    BY <1>0, <2>1 DEF To, Run
  <2>3. order' = order /\ receipt' = receipt
    BY <1>1 DEF SimulationStops
  <2>4. QED
    BY <2>0, <2>2, <2>3, Unordered, UnorderedStanding, StateAtPoints, ZenonT(40)
       DEF BeforeSwap, InPlace, Choice, AfterChoice
<1>2. ASSUME NEW sim \in SimOutcomes, SimulationPasses(r, sim)
      PROVE  Standing(r)'
  <2> DEFINE to == [To(r, "gate") EXCEPT !.sim = sim, !.simAt = now]
  <2>0. run[r].pc = "simulate" /\ run[r].state = "SIMULATING" /\ sim \in {"PASS", "UNBOUND"}
    BY <1>2, Unordered, StateAtPoints DEF SimulationPasses, BeforeSwap, Passed
  <2>1. run' = [run EXCEPT ![r] = to]
    BY <1>2 DEF SimulationPasses
  <2>2. /\ run'[r].pc = "gate" /\ run'[r].state = "SIMULATING" /\ run'[r].sim = sim
        /\ run'[r].cap = run[r].cap /\ run'[r].order = run[r].order
        /\ run'[r].reps = run[r].reps /\ run'[r].quotes = run[r].quotes
        /\ run'[r].route = run[r].route /\ run'[r].needs = run[r].needs
    BY <1>0, <2>0, <2>1 DEF To, Run
  <2>3. order' = order /\ receipt' = receipt /\ settings' = settings
    BY <1>2 DEF SimulationPasses
  <2>4. Choice(r)'
    BY <1>0, <2>0, <2>2, <2>3, ChoiceKept DEF AfterChoice
  <2>5. QED
    BY <2>0, <2>2, <2>3, <2>4, Unordered, UnorderedStanding, StateAtPoints
       DEF BeforeSwap, InPlace
<1>3. CASE AwaitsConfirmation(r) \/ KillSwitch(r) \/ ExecuteRefuses(r)
  <2> DEFINE ends == {"AWAITING_CONFIRMATION", "POLICY_REJECTED", "EXECUTION_FAILED"}
  <2>0. run[r].pc \in {"gate", "execute"} /\ run[r].sim \in {"PASS", "UNBOUND"}
    BY <1>0, <1>3 DEF AwaitsConfirmation, KillSwitch, ExecuteRefuses, Choice, AfterChoice
  <2>1. PICK end \in ends : run' = [run EXCEPT ![r] = [To(r, "report") EXCEPT !.state = end]]
    <3>1. CASE AwaitsConfirmation(r)
      <4>0. run[r].pc = "gate"
        BY <3>1 DEF AwaitsConfirmation
      <4>1. run[r].state = "SIMULATING"
        BY <4>0, Unordered, StateAtPoints DEF BeforeSwap
      <4>2. QED
        BY <3>1, <4>1, OneMove DEF AwaitsConfirmation
    <3>2. CASE KillSwitch(r)
      <4>0. run[r].pc = "gate"
        BY <3>2 DEF KillSwitch
      <4>1. run[r].state = "SIMULATING"
        BY <4>0, Unordered, StateAtPoints DEF BeforeSwap
      <4>2. QED
        BY <3>2, <4>1, TwoMoves DEF KillSwitch
    <3>3. CASE ExecuteRefuses(r)
      <4>0. run[r].pc = "execute"
        BY <3>3 DEF ExecuteRefuses
      <4>1. run[r].state = "EXECUTING"
        BY <4>0, Unordered, StateAtPoints DEF BeforeSwap
      <4>2. QED
        BY <3>3, <4>1, OneMove DEF ExecuteRefuses, Fails
    <3>4. QED
      BY <1>3, <3>1, <3>2, <3>3
  <2>2. /\ run'[r].pc = "report" /\ run'[r].state = end /\ run'[r].sim = run[r].sim
        /\ run'[r].cap = run[r].cap /\ run'[r].order = run[r].order
    BY <1>0, <2>1 DEF To, Run
  <2>3. order' = order /\ receipt' = receipt
    BY <1>3 DEF AwaitsConfirmation, KillSwitch, ExecuteRefuses
  <2>4. QED
    BY <2>0, <2>2, <2>3, Unordered, UnorderedStanding, StateAtPoints, ZenonT(40)
       DEF BeforeSwap, InPlace, Choice, AfterChoice
<1>4. CASE Authorizes(r)
  <2>0. run[r].pc = "gate" /\ run[r].state = "SIMULATING" /\ (run[r].needs => run[r].confirm)
    <3>1. run[r].pc = "gate"
      BY <1>4 DEF Authorizes
    <3>2. run[r].needs => run[r].confirm
      BY <1>4 DEF Authorizes
    <3>3. run[r].state = "SIMULATING"
      BY <3>1, Unordered, StateAtPoints DEF BeforeSwap
    <3>4. QED
      BY <3>1, <3>2, <3>3
  <2>1. run' = [run EXCEPT ![r] = [To(r, "execute") EXCEPT !.state = "EXECUTING"]]
    BY <1>4, <2>0, TwoMoves DEF Authorizes
  <2>2. /\ run'[r].pc = "execute" /\ run'[r].state = "EXECUTING" /\ run'[r].sim = run[r].sim
        /\ run'[r].cap = run[r].cap /\ run'[r].order = run[r].order
        /\ run'[r].reps = run[r].reps /\ run'[r].quotes = run[r].quotes
        /\ run'[r].route = run[r].route /\ run'[r].needs = run[r].needs
        /\ run'[r].confirm = run[r].confirm
    BY <1>0, <2>1 DEF To, Run
  <2>3. order' = order /\ receipt' = receipt /\ settings' = settings
    BY <1>4 DEF Authorizes
  <2>4. run[r].sim \in {"PASS", "UNBOUND"}
    BY <1>0, <2>0 DEF Choice, AfterChoice
  <2>5. Choice(r)'
    BY <1>0, <2>0, <2>2, <2>3, <2>4, ChoiceKept DEF AfterChoice
  <2>6. QED
    BY <2>0, <2>2, <2>3, <2>5, Unordered, UnorderedStanding, StateAtPoints
       DEF BeforeSwap, InPlace
<1>5. QED
  BY <1>1, <1>2, <1>3, <1>4

-----------------------------------------------------------------------------
(* From the swap to the receipt *)

\* The locals that Allowance looks at.
Kept(r) ==
  /\ run'[r].cap = run[r].cap /\ run'[r].reps = run[r].reps
  /\ run'[r].quotes = run[r].quotes /\ run'[r].route = run[r].route
  /\ run'[r].confirm = run[r].confirm /\ run'[r].sim = run[r].sim
  /\ run'[r].simAt = run[r].simAt /\ run'[r].swapAt = run[r].swapAt
  /\ run'[r].slip = run[r].slip

\* What authorized a swap is not forgotten while its order lives.
LEMMA AllowanceKept ==
  ASSUME NEW r \in Requests, Allowance(r), Kept(r), settings' = settings,
         order'[r] # "none" => order[r] # "none"
  PROVE  Allowance(r)'
<1>1. Eligible(r)' = Eligible(r)
  BY SameEligible DEF Kept
<1>2. QED
  BY <1>1 DEF Allowance, Kept

\* A request that asks the wallet for its swap may do so.
LEMMA SwapsStanding ==
  ASSUME TypeOK, NEW r \in Requests, Standing(r), Swaps(r)
  PROVE  Standing(r)'
<1> DEFINE slip == AskedSlip(run[r].quotes[run[r].route])
           to == [To(r, "swap") EXCEPT !.swapAt = now, !.slip = slip]
<1>0. run[r] \in Run /\ run \in [Requests -> Run] /\ Choice(r)
  BY DEF TypeOK, Standing
<1>1. run[r].pc = "execute" /\ run[r].state = "EXECUTING"
  BY Unordered, StateAtPoints DEF Swaps, Here, BeforeSwap
<1>2. run' = [run EXCEPT ![r] = to]
  BY DEF Swaps
<1> HIDE DEF slip
<1>3. /\ run'[r].pc = "swap" /\ run'[r].state = "EXECUTING" /\ run'[r].sim = run[r].sim
      /\ run'[r].cap = run[r].cap /\ run'[r].order = run[r].order
      /\ run'[r].reps = run[r].reps /\ run'[r].quotes = run[r].quotes
      /\ run'[r].route = run[r].route /\ run'[r].needs = run[r].needs
      /\ run'[r].confirm = run[r].confirm /\ run'[r].simAt = run[r].simAt
      /\ run'[r].swapAt = now /\ run'[r].slip = slip
  BY <1>0, <1>1, <1>2 DEF To, Run
<1>4. receipt' = receipt /\ settings' = settings /\ order'[r] = "asked"
  BY DEF Swaps, TypeOK
<1>5. /\ settings.executes /\ ~settings.demo
      /\ run[r].sim = "PASS" /\ now - run[r].simAt <= MaxSimAge
  BY DEF Swaps, MaySwap
<1>6. Choice(r)'
  BY <1>0, <1>1, <1>3, <1>4, <1>5, ChoiceKept DEF AfterChoice
<1>7. Allowance(r)'
  <2>1. Eligible(r)' = Eligible(r)
    BY <1>3, SameEligible
  <2>2. run[r].cap \in Caps /\ run[r].route \in Eligible(r)
    BY <1>0, <1>1 DEF Choice, AfterChoice
  <2>3. settings.confirms \/ run[r].quotes[run[r].route].rest = "confirm" => run[r].confirm
    BY <1>0, <1>1 DEF Choice, AfterChoice
  <2>4. run[r].quotes[run[r].route].slip \notin {Unknown, 0} => slip <= LowOf(run[r].cap, HardCap)
    BY <2>2, AskedTyped DEF slip
  <2>5. QED
    BY <1>3, <1>4, <1>5, <2>1, <2>2, <2>3, <2>4 DEF Allowance
<1>8. InPlace(r)' /\ OrderKnown(r)' /\ Outcome(r)' /\ Written(r)'
  BY <1>1, <1>3, <1>4, Unordered, StateAtPoints
     DEF InPlace, OrderKnown, Outcome, Written, BeforeSwap
<1>9. QED
  BY <1>3, <1>6, <1>7, <1>8 DEF Standing

\* The wallet answers a swap with an order.
LEMMA SwapRepliesStanding ==
  ASSUME TypeOK, NEW r \in Requests, Standing(r), SwapReplies(r)
  PROVE  Standing(r)'
<1> DEFINE to == [To(r, "poll") EXCEPT !.order = TRUE]
<1>0. run[r] \in Run /\ run \in [Requests -> Run] /\ Choice(r) /\ Allowance(r)
  BY DEF TypeOK, Standing
<1>1. run[r].pc = "swap" /\ run[r].state = "EXECUTING" /\ receipt[r] = NoReceipt
  BY StateAtPoints DEF SwapReplies, Here, Standing, InPlace, Written, AfterChoice
<1>2. run' = [run EXCEPT ![r] = to]
  BY DEF SwapReplies
<1>3. /\ run'[r].pc = "poll" /\ run'[r].state = "EXECUTING" /\ run'[r].order = TRUE
      /\ Kept(r) /\ run'[r].needs = run[r].needs
  BY <1>0, <1>1, <1>2 DEF To, Run, Kept
<1>4. receipt' = receipt /\ settings' = settings /\ order' = order /\ Ordered(r)
  BY DEF SwapReplies, Ordered
<1>5. Choice(r)'
  <2>1. run[r].sim \in {"PASS", "UNBOUND"}
    BY <1>0, <1>1 DEF Choice, AfterChoice
  <2>2. QED
    BY <1>0, <1>1, <1>3, <1>4, <2>1, ChoiceKept DEF AfterChoice, Kept
<1>6. Allowance(r)'
  BY <1>0, <1>3, <1>4, AllowanceKept
<1>7. InPlace(r)' /\ OrderKnown(r)' /\ Outcome(r)' /\ Written(r)'
  BY <1>1, <1>3, <1>4, StateAtPoints
     DEF InPlace, OrderKnown, Outcome, Written, BeforeSwap, Ordered
<1>8. QED
  BY <1>3, <1>5, <1>6, <1>7 DEF Standing

\* The request is over; what its receipt will say is what became of its order.
LEMMA OutcomeStanding ==
  ASSUME TypeOK, NEW r \in Requests, Standing(r),
         \/ SwapRefused(r) \/ SwapUnanswered(r)
         \/ PollFinished(r) \/ PollFailed(r) \/ PollGivesUp(r)
  PROVE  Standing(r)'
<1> USE Transitions
<1>0. /\ run[r] \in Run /\ run \in [Requests -> Run] /\ faults \in Nat
      /\ Choice(r) /\ Allowance(r) /\ OrderKnown(r)
  BY DEF TypeOK, Standing
<1>1. run[r].pc \in {"swap", "poll"}
  BY DEF SwapRefused, SwapUnanswered, PollFinished, PollFailed, PollGivesUp, Here
<1>2. run[r].state = "EXECUTING" /\ receipt[r] = NoReceipt
  BY <1>1, StateAtPoints DEF Standing, InPlace, Written, AfterChoice
<1>3. run[r].sim \in {"PASS", "UNBOUND"} /\ run[r].cap \in Caps
  BY <1>0, <1>1 DEF Choice, AfterChoice
<1>4. receipt' = receipt /\ settings' = settings /\ order' = order
  BY DEF SwapRefused, SwapUnanswered, PollFinished, PollFailed, PollGivesUp
<1>5. ASSUME NEW end, run' = [run EXCEPT ![r] = [To(r, "report") EXCEPT !.state = end]],
             end \in {"CONFIRMED", "PENDING_CONFIRMATION", "EXECUTION_FAILED"},
             end = "CONFIRMED" => order[r] = "FINISHED",
             end = "EXECUTION_FAILED" /\ run[r].order => order[r] = "FAILED",
             end = "PENDING_CONFIRMATION" => run[r].order /\ Ordered(r),
             faults' = 0 /\ ~run[r].order => order[r] = "none"
      PROVE  Standing(r)'
  <2>1. /\ run'[r].pc = "report" /\ run'[r].state = end /\ run'[r].order = run[r].order
        /\ Kept(r)
    BY <1>0, <1>5 DEF To, Run, Kept
  <2>2. Choice(r)'
    BY <1>3, <2>1 DEF Choice, AfterChoice, Kept
  <2>3. Allowance(r)'
    BY <1>0, <1>4, <2>1, AllowanceKept
  <2>4. InPlace(r)' /\ OrderKnown(r)' /\ Written(r)'
    BY <1>2, <1>4, <2>1, StateAtPoints
       DEF InPlace, OrderKnown, Written, BeforeSwap, AfterChoice
  <2>5. Outcome(r)'
    BY <1>3, <1>4, <1>5, <2>1 DEF Outcome, Ordered, Kept
  <2>6. QED
    BY <2>1, <2>2, <2>3, <2>4, <2>5 DEF Standing
<1>6. CASE SwapRefused(r) \/ SwapUnanswered(r) \/ PollFailed(r)
  <2>1. run' = [run EXCEPT ![r] = [To(r, "report") EXCEPT !.state = "EXECUTION_FAILED"]]
    BY <1>2, <1>6, OneMove DEF SwapRefused, SwapUnanswered, PollFailed, Fails
  <2>2. run[r].order => order[r] = "FAILED"
    BY <1>0, <1>6 DEF SwapRefused, SwapUnanswered, PollFailed, Here, OrderKnown
  <2>3. faults' = 0 /\ ~run[r].order => order[r] = "none"
    BY <1>0, <1>6 DEF SwapRefused, SwapUnanswered, PollFailed, Here, OrderKnown, Fault
  <2>4. QED
    BY <1>5, <2>1, <2>2, <2>3
<1>7. CASE PollFinished(r)
  <2>1. run' = [run EXCEPT ![r] = [To(r, "report") EXCEPT !.state = "CONFIRMED"]]
    BY <1>2, <1>7, TwoMoves DEF PollFinished
  <2>2. run[r].order /\ order[r] = "FINISHED"
    BY <1>0, <1>7 DEF PollFinished, Here, OrderKnown
  <2>3. QED
    BY <1>5, <2>1, <2>2
<1>8. CASE PollGivesUp(r)
  <2>1. run' = [run EXCEPT ![r] = [To(r, "report") EXCEPT !.state = "PENDING_CONFIRMATION"]]
    BY <1>2, <1>8, OneMove DEF PollGivesUp
  <2>2. run[r].order /\ Ordered(r)
    BY <1>0, <1>8 DEF PollGivesUp, Here, OrderKnown
  <2>3. QED
    BY <1>5, <2>1, <2>2
<1>9. QED
  BY <1>6, <1>7, <1>8

\* The receipt says what the request says.
LEMMA ReportsStanding ==
  ASSUME TypeOK, NEW r \in Requests, Standing(r), Reports(r)
  PROVE  Standing(r)'
<1>0. /\ run[r] \in Run /\ run \in [Requests -> Run] /\ receipt \in [Requests -> Receipt]
      /\ Choice(r) /\ Allowance(r) /\ Outcome(r)
  BY DEF TypeOK, Standing
<1>1. run[r].pc = "report" /\ run' = [run EXCEPT ![r].pc = "done"]
  BY DEF Reports, Here
<1>2. settings' = settings /\ order' = order /\ faults' = faults
  BY DEF Reports
<1>3. receipt'[r] = [state |-> run[r].state, order |-> run[r].order]
  BY <1>0 DEF Reports
<1>4. /\ run'[r].pc = "done" /\ run'[r].state = run[r].state
      /\ run'[r].order = run[r].order /\ Kept(r)
  BY <1>0, <1>1 DEF Run, Kept
<1>5. Choice(r)'
  BY <1>0, <1>1, <1>4 DEF Choice, AfterChoice, Kept
<1>6. Allowance(r)'
  BY <1>0, <1>2, <1>4, AllowanceKept
<1>7. InPlace(r)' /\ OrderKnown(r)' /\ Written(r)'
  BY <1>3, <1>4, StateAtPoints DEF InPlace, OrderKnown, Written, BeforeSwap, AfterChoice
<1>8. Outcome(r)'
  BY <1>0, <1>1, <1>2, <1>4 DEF Outcome, Ordered, Kept
<1>9. QED
  BY <1>4, <1>5, <1>6, <1>7, <1>8 DEF Standing

\* A request that an exception or a crash has ended leaves its order as it is.
LEMMA RaisedStanding ==
  ASSUME TypeOK, NEW r \in Requests, Standing(r), run[r].pc \notin {"idle", "done"},
         run'[r] = [run[r] EXCEPT !.pc = "raised"],
         settings' = settings, order' = order, receipt' = receipt, Fault
  PROVE  Standing(r)'
<1>0. run[r] \in Run /\ faults \in Nat /\ Choice(r) /\ Allowance(r) /\ Written(r)
  BY DEF TypeOK, Standing
<1>1. run'[r].pc = "raised" /\ Kept(r)
  BY <1>0 DEF Run, Kept
<1>2. faults' # 0
  BY <1>0 DEF Fault
<1>3. Choice(r)'
  BY <1>0, <1>1 DEF Choice, AfterChoice, Kept
<1>4. Allowance(r)'
  BY <1>0, <1>1, AllowanceKept
<1>5. InPlace(r)' /\ OrderKnown(r)' /\ Outcome(r)' /\ Written(r)'
  BY <1>0, <1>1, StateAtPoints
     DEF InPlace, OrderKnown, Outcome, Written, BeforeSwap, AfterChoice
<1>6. QED
  BY <1>1, <1>2, <1>3, <1>4, <1>5 DEF Standing

\* What the wallet does with an order contradicts nothing the request knows.
LEMMA WalletStanding ==
  ASSUME TypeOK, NEW r \in Requests, Standing(r), WalletStep(r)
  PROVE  Standing(r)'
<1>0. order \in [Requests -> {"none", "asked", "open", "FINISHED", "FAILED"}] /\ Allowance(r)
  BY DEF TypeOK, Standing
<1>1. /\ run' = run /\ receipt' = receipt /\ settings' = settings /\ faults' = faults
      /\ order[r] \in {"asked", "open"}
  BY DEF WalletStep, OrderOpens, OrderLost, OrderEnds
<1>2. order[r] = "open" => order'[r] \in {"FINISHED", "FAILED"}
  BY <1>0 DEF WalletStep, OrderOpens, OrderLost, OrderEnds
<1>3. order[r] = "asked" => order'[r] \in {"open", "none"}
  BY <1>0 DEF WalletStep, OrderOpens, OrderLost, OrderEnds
<1>4. Allowance(r)'
  BY <1>0, <1>1, AllowanceKept DEF Kept
<1>5. InPlace(r)' /\ Choice(r)' /\ Written(r)'
  <2>1. Eligible(r)' = Eligible(r)
    BY <1>1, SameEligible
  <2>2. QED
    BY <1>1, <2>1 DEF Standing, InPlace, Choice, Written
<1>6. OrderKnown(r)'
  BY <1>1, <1>2, <1>3 DEF Standing, OrderKnown, Ordered
<1>7. Outcome(r)'
  BY <1>1, <1>2, <1>3 DEF Standing, Outcome, Ordered
<1>8. QED
  BY <1>1, <1>4, <1>5, <1>6, <1>7 DEF Standing

-----------------------------------------------------------------------------
(* The invariant *)

\* The initial states satisfy the inductive invariant.
LEMMA InitIInv == Init => IInv
<1> SUFFICES ASSUME Init PROVE IInv
  OBVIOUS
<1>1. TypeOK
  BY InitTypeOK
<1>2. ASSUME NEW r \in Requests PROVE Standing(r)
  <2>1. run[r] = Fresh /\ order[r] = "none" /\ receipt[r] = NoReceipt
    BY DEF Init
  <2>2. /\ run[r].pc = "idle" /\ run[r].state = "INTENT_RECEIVED" /\ run[r].order = FALSE
    BY <2>1 DEF Fresh
  <2>3. QED
    BY <2>1, <2>2, StateAtPoints DEF Standing, InPlace, Choice, OrderKnown, Outcome, Written,
       Allowance, BeforeSwap, AfterChoice
<1>3. QED
  BY <1>1, <1>2, RequestByRequest

\* Every step of a request keeps what is known of it.
LEMMA OwnStanding ==
  ASSUME TypeOK, NEW r \in Requests, Standing(r),
         \/ \E confirm \in BOOLEAN : Starts(r, confirm)
         \/ RunStep(r) \/ SwapUnanswered(r) \/ Raises(r) \/ WalletStep(r)
  PROVE  Standing(r)'
<1>1. CASE \E confirm \in BOOLEAN : Starts(r, confirm)
  BY <1>1, FrontStanding
<1>2. CASE RunStep(r)
  BY <1>2, FrontStanding, EvaluatesStanding, GateStanding, SwapsStanding, SwapRepliesStanding,
     OutcomeStanding, ReportsStanding DEF RunStep
<1>3. CASE SwapUnanswered(r)
  BY <1>3, OutcomeStanding
<1>4. CASE Raises(r)
  <2>1. run'[r] = [run[r] EXCEPT !.pc = "raised"] /\ run[r].pc \notin {"idle", "done"}
    BY <1>4 DEF Raises, TypeOK
  <2>2. settings' = settings /\ order' = order /\ receipt' = receipt /\ Fault
    BY <1>4 DEF Raises
  <2>3. QED
    BY <2>1, <2>2, RaisedStanding
<1>5. CASE WalletStep(r)
  BY <1>5, WalletStanding
<1>6. QED
  BY <1>1, <1>2, <1>3, <1>4, <1>5

\* Every step keeps the inductive invariant.
LEMMA NextIInv == IInv /\ [Next]_vars => IInv'
<1> SUFFICES ASSUME IInv, [Next]_vars PROVE IInv'
  OBVIOUS
<1>1. TypeOK /\ \A s \in Requests : Standing(s)
  BY RequestByRequest
<1>2. TypeOK'
  <2>1. \A r \in Requests : Judged(r)
    BY <1>1 DEF Standing, Choice, AfterChoice, Judged
  <2>2. QED
    BY <1>1, <2>1, NextTypeOK
<1>3. ASSUME NEW s \in Requests PROVE Standing(s)'
  <2>1. CASE Tick \/ (\E cap \in Caps : Approve(cap)) \/ UNCHANGED vars
    <3>1. UNCHANGED <<settings, run, order, receipt, faults>>
      BY <2>1 DEF Tick, Approve, vars
    <3>2. QED
      BY <1>1, <3>1, Frame
  <2>2. ASSUME NEW r \in Requests,
               \/ \E confirm \in BOOLEAN : Starts(r, confirm)
               \/ RunStep(r) \/ SwapUnanswered(r) \/ Raises(r) \/ WalletStep(r)
        PROVE  Standing(s)'
    <3>1. CASE s = r
      BY <1>1, <2>2, <3>1, OwnStanding
    <3>2. CASE s # r
      <4>1. /\ run'[s] = run[s] /\ order'[s] = order[s] /\ receipt'[s] = receipt[s]
            /\ settings' = settings /\ (faults' = 0 => faults = 0)
        BY <1>1, <2>2, <3>2, Elsewhere
      <4>2. QED
        BY <1>1, <4>1, Frame
    <3>3. QED
      BY <3>1, <3>2
  <2>3. CASE Crash
    <3>1. settings' = settings /\ order' = order /\ receipt' = receipt /\ Fault
      BY <2>3 DEF Crash
    <3>2. CASE run[s].pc \in {"idle", "done"}
      <4>1. run'[s] = run[s]
        BY <2>3, <3>2 DEF Crash
      <4>2. faults' = 0 => faults = 0
        BY <1>1, <3>1 DEF Fault, TypeOK
      <4>3. QED
        BY <1>1, <3>1, <4>1, <4>2, Frame
    <3>3. CASE run[s].pc \notin {"idle", "done"}
      <4>1. run'[s] = [run[s] EXCEPT !.pc = "raised"]
        BY <2>3, <3>3 DEF Crash
      <4>2. QED
        BY <1>1, <3>1, <3>3, <4>1, RaisedStanding
    <3>4. QED
      BY <3>2, <3>3
  <2>4. QED
    BY <2>1, <2>2, <2>3 DEF Next
<1>4. (TypeOK /\ \A r \in Requests : Standing(r))' => IInv'
  BY DEF IInv, Standing, Authorized, Allowance, InsideMachine
<1>5. QED
  BY <1>2, <1>3, <1>4

\* The receipt of a request: what the request says when it is done, else none.
LEMMA ReceiptIs ==
  ASSUME IInv, NEW r \in Requests
  PROVE  \/ /\ run[r].pc = "done" /\ Outcome(r)
            /\ receipt[r].state = run[r].state /\ receipt[r].order = run[r].order
         \/ run[r].pc # "done" /\ receipt[r].state = "INTENT_RECEIVED"
<1>1. Written(r) /\ Outcome(r)
  BY DEF IInv
<1>2. CASE run[r].pc = "done"
  BY <1>1, <1>2 DEF Written
<1>3. CASE run[r].pc # "done"
  <2>1. receipt[r] = NoReceipt
    BY <1>1, <1>3 DEF Written
  <2>2. NoReceipt.state = "INTENT_RECEIVED"
    BY DEF NoReceipt
  <2>3. QED
    BY <1>3, <2>1, <2>2
<1>4. QED
  BY <1>2, <1>3

(***************************************************************************)
(* IInv holds in every state the pipeline reaches.                         *)
(***************************************************************************)
THEOREM Invariance == Spec => []IInv
<1>1. QED
  BY InitIInv, NextIInv, PTL DEF Spec

(***************************************************************************)
(* The pipeline's state is always of the shape TypeOK gives it, however    *)
(* many requests, routes and constitutions there are. (That a swap is      *)
(* asked for with a slippage at all rests on the choice of its route.)     *)
(***************************************************************************)
THEOREM TypeCorrect == Spec => []TypeOK
<1>1. IInv => TypeOK
  BY DEF IInv
<1>2. QED
  BY <1>1, Invariance, PTL

(***************************************************************************)
(* A swap is asked for only with the switch on, a bound and recent         *)
(* simulation, an admissible route and the required confirmation.          *)
(***************************************************************************)
THEOREM SwapsAreAuthorized == Spec => []Authorized
<1>1. IInv => Authorized
  BY DEF IInv
<1>2. QED
  BY <1>1, Invariance, PTL

(***************************************************************************)
(* No path of the handler leaves the declared state machine.               *)
(***************************************************************************)
THEOREM PathsAreLegal == Spec => []InsideMachine
<1>1. IInv => InsideMachine
  BY DEF IInv
<1>2. QED
  BY <1>1, Invariance, PTL

(***************************************************************************)
(* A simulation that is not PASS is a stop.                                *)
(***************************************************************************)
THEOREM SimulationIsAGate == Spec => []FailsClosed
<1>1. IInv => FailsClosed
  BY ReceiptIs DEF FailsClosed, Outcome
<1>2. QED
  BY <1>1, Invariance, PTL

(***************************************************************************)
(* What a receipt says of an order agrees with the wallet.                 *)
(***************************************************************************)
THEOREM ReceiptsAreHonest == Spec => []HonestReceipts
<1>1. IInv => HonestReceipts
  BY ReceiptIs DEF HonestReceipts, Outcome
<1>2. QED
  BY <1>1, Invariance, PTL

(***************************************************************************)
(* Without a lost reply, the receipt names the order that exists.          *)
(***************************************************************************)
THEOREM OrdersAreNamed == Spec => []OrdersAccounted
<1>1. IInv => OrdersAccounted
  <2> SUFFICES ASSUME IInv, faults = 0, NEW r \in Requests, Ordered(r), run[r].pc = "done"
               PROVE  receipt[r].order
    BY DEF OrdersAccounted
  <2>1. run[r].order \in BOOLEAN
    BY DEF IInv, TypeOK, Run
  <2>2. receipt[r].order = run[r].order /\ Outcome(r)
    BY ReceiptIs
  <2>3. QED
    BY <2>1, <2>2 DEF Outcome, Ordered
<1>2. QED
  BY <1>1, Invariance, PTL

\* Nothing was asked of the wallet, and receipts are refusals.
Dormant ==
  \A r \in Requests :
    /\ order[r] = "none"
    /\ receipt[r].state \in {"INTENT_RECEIVED", "NO_VALID_ROUTE", "SIMULATION_FAILED"}

(***************************************************************************)
(* As the repository stands, _simulate always answers SKIP: whatever the   *)
(* settings, the constitutions and the confirmations, nothing is ever      *)
(* asked of the wallet, and a receipt is a refusal.                        *)
(***************************************************************************)
THEOREM NothingIsSwapped ==
  ASSUME SimOutcomes \subseteq {"FAIL", "SKIP"}
  PROVE  Spec => []Dormant
<1>1. IInv => Dormant
  <2> SUFFICES ASSUME IInv, NEW r \in Requests
               PROVE  /\ order[r] = "none"
                      /\ receipt[r].state \in
                           {"INTENT_RECEIVED", "NO_VALID_ROUTE", "SIMULATION_FAILED"}
    BY DEF Dormant
  <2>1. run[r].sim \in {"FAIL", "SKIP"}
    BY DEF IInv, TypeOK, Run
  <2>2. order[r] = "none"
    BY <2>1 DEF IInv, Authorized
  <2>3. QED
    BY <2>1, <2>2, ReceiptIs DEF Outcome
<1>2. QED
  BY <1>1, Invariance, PTL

-----------------------------------------------------------------------------
(* Refinement of SwapLedger *)

\* Nothing of a request changes but what its thread holds.
Beside(r) ==
  /\ UNCHANGED <<settings, active, order, receipt>>
  /\ \A s \in Requests \ {r} : run'[s] = run[s]

\* The locals the ledger reads.
Read(r) ==
  run'[r].cap = run[r].cap /\ run'[r].slip = run[r].slip

\* A step that goes on with the locals of to, whichever way the transitions end.
LEMMA GoesLocals ==
  ASSUME TypeOK, NEW r \in Requests, NEW to \in Run, NEW path, Goes(r, path, to)
  PROVE  /\ run'[r].pc \in {to.pc, "raised"} /\ run'[r].cap = to.cap
         /\ run'[r].slip = to.slip
         /\ \A s \in Requests \ {r} : run'[s] = run[s]
<1>1. CASE Legal(run[r].state, path)
  <2>1. run' = [run EXCEPT ![r] = [to EXCEPT !.state = path[Len(path)]]]
    BY <1>1 DEF Goes
  <2>2. QED
    BY <2>1 DEF TypeOK, Run
<1>2. CASE ~Legal(run[r].state, path)
  <2>1. run' = [run EXCEPT ![r] = [to EXCEPT !.pc = "raised"]]
    BY <1>2 DEF Goes
  <2>2. QED
    BY <2>1 DEF TypeOK, Run
<1>3. QED
  BY <1>1, <1>2

\* What To keeps.
LEMMA ToLocals ==
  ASSUME TypeOK, NEW r \in Requests, NEW pc \in Pc
  PROVE  /\ To(r, pc) \in Run /\ To(r, pc).pc = pc /\ To(r, pc).cap = run[r].cap
         /\ To(r, pc).slip = run[r].slip
<1>1. run[r] \in Run
  BY DEF TypeOK
<1>2. QED
  BY <1>1 DEF To, Run

\* A request before its swap goes on, or is over, and keeps its cap.
LEMMA EarlyLocals ==
  ASSUME TypeOK, NEW r \in Requests,
         \/ DiscoversNone(r)
         \/ \E reps \in SUBSET Routes : Discovers(r, reps)
         \/ \E x \in Routes, q \in Quote : Quotes(r, x, q)
         \/ EvaluatesNone(r)
         \/ \E x \in Routes : Evaluates(r, x)
         \/ \E sim \in SimOutcomes : SimulationStops(r, sim) \/ SimulationPasses(r, sim)
         \/ AwaitsConfirmation(r) \/ KillSwitch(r) \/ Authorizes(r) \/ ExecuteRefuses(r)
  PROVE  /\ run[r].pc \in BeforeSwap \ {"idle"} /\ run'[r].pc \notin {"idle", "done"}
         /\ run'[r].cap = run[r].cap /\ Beside(r)
<1>0. run[r] \in Run /\ run \in [Requests -> Run] /\ now \in Time /\ settings \in Settings
  BY DEF TypeOK
<1>1. CASE DiscoversNone(r) \/ EvaluatesNone(r) \/ AwaitsConfirmation(r) \/ KillSwitch(r)
           \/ ExecuteRefuses(r)
  <2>1. PICK path : Goes(r, path, To(r, "report"))
    BY <1>1 DEF DiscoversNone, EvaluatesNone, AwaitsConfirmation, KillSwitch, ExecuteRefuses, Fails
  <2>2. run[r].pc \in BeforeSwap \ {"idle"} /\ UNCHANGED <<settings, active, order, receipt>>
    BY <1>1 DEF DiscoversNone, EvaluatesNone, AwaitsConfirmation, KillSwitch, ExecuteRefuses,
       Quoted, Here, BeforeSwap
  <2>3. "report" \in Pc
    BY DEF Pc
  <2>4. QED
    BY <2>1, <2>2, <2>3, ToLocals, GoesLocals DEF Beside
<1>2. CASE Authorizes(r)
  <2>1. PICK path : Goes(r, path, To(r, "execute"))
    BY <1>2 DEF Authorizes
  <2>2. run[r].pc \in BeforeSwap \ {"idle"} /\ UNCHANGED <<settings, active, order, receipt>>
    BY <1>2 DEF Authorizes, Here, BeforeSwap
  <2>3. "execute" \in Pc
    BY DEF Pc
  <2>4. QED
    BY <2>1, <2>2, <2>3, ToLocals, GoesLocals DEF Beside
<1>3. ASSUME NEW reps \in SUBSET Routes, Discovers(r, reps)
      PROVE  /\ run[r].pc \in BeforeSwap \ {"idle"} /\ run'[r].pc \notin {"idle", "done"}
             /\ run'[r].cap = run[r].cap /\ Beside(r)
  <2> DEFINE to == [To(r, "quote") EXCEPT !.reps = reps]
  <2>1. to \in Run /\ to.pc = "quote" /\ to.cap = run[r].cap
    BY <1>0 DEF To, Run, Pc
  <2>2. PICK path : Goes(r, path, to)
    BY <1>3 DEF Discovers
  <2>3. run[r].pc = "discover" /\ UNCHANGED <<settings, active, order, receipt>>
    BY <1>3 DEF Discovers, Here
  <2> HIDE DEF to
  <2>4. QED
    BY <2>1, <2>2, <2>3, GoesLocals DEF Beside, BeforeSwap
<1>4. ASSUME NEW x \in Routes, NEW q \in Quote, Quotes(r, x, q)
      PROVE  /\ run[r].pc \in BeforeSwap \ {"idle"} /\ run'[r].pc \notin {"idle", "done"}
             /\ run'[r].cap = run[r].cap /\ Beside(r)
  <2> DEFINE to == [run[r] EXCEPT !.asked = @ \cup {x}, !.quotes[x] = q]
  <2>1. run[r].pc = "quote" /\ UNCHANGED <<settings, active, order, receipt>>
    BY <1>4 DEF Quotes, Here
  <2>2. run' = [run EXCEPT ![r] = to]
    BY <1>4 DEF Quotes
  <2>3. to.pc = run[r].pc /\ to.cap = run[r].cap
    BY <1>0 DEF Run
  <2> HIDE DEF to
  <2>4. QED
    BY <1>0, <2>1, <2>2, <2>3 DEF Beside, BeforeSwap
<1>5. ASSUME NEW x \in Routes, Evaluates(r, x)
      PROVE  /\ run[r].pc \in BeforeSwap \ {"idle"} /\ run'[r].pc \notin {"idle", "done"}
             /\ run'[r].cap = run[r].cap /\ Beside(r)
  <2> DEFINE needs == run[r].quotes[x].rest = "confirm" \/ settings.confirms
             to == [To(r, "simulate") EXCEPT !.route = x, !.needs = needs]
  <2>1. needs \in BOOLEAN
    BY <1>0 DEF Settings
  <2>2. PICK path : Goes(r, path, to)
    BY <1>5 DEF Evaluates
  <2> HIDE DEF needs
  <2>3. to \in Run /\ to.pc = "simulate" /\ to.cap = run[r].cap
    BY <1>0, <2>1 DEF To, Run, Pc
  <2>4. run[r].pc = "quote" /\ UNCHANGED <<settings, active, order, receipt>>
    BY <1>5 DEF Evaluates, Quoted, Here
  <2> HIDE DEF to
  <2>5. QED
    BY <2>2, <2>3, <2>4, GoesLocals DEF Beside, BeforeSwap
<1>6. ASSUME NEW sim \in SimOutcomes, SimulationStops(r, sim)
      PROVE  /\ run[r].pc \in BeforeSwap \ {"idle"} /\ run'[r].pc \notin {"idle", "done"}
             /\ run'[r].cap = run[r].cap /\ Beside(r)
  <2> DEFINE to == [To(r, "report") EXCEPT !.sim = sim, !.simAt = now]
  <2>1. to \in Run /\ to.pc = "report" /\ to.cap = run[r].cap
    BY <1>0 DEF To, Run, Pc
  <2>2. PICK path : Goes(r, path, to)
    BY <1>6 DEF SimulationStops
  <2>3. run[r].pc = "simulate" /\ UNCHANGED <<settings, active, order, receipt>>
    BY <1>6 DEF SimulationStops, Here
  <2> HIDE DEF to
  <2>4. QED
    BY <2>1, <2>2, <2>3, GoesLocals DEF Beside, BeforeSwap
<1>7. ASSUME NEW sim \in SimOutcomes, SimulationPasses(r, sim)
      PROVE  /\ run[r].pc \in BeforeSwap \ {"idle"} /\ run'[r].pc \notin {"idle", "done"}
             /\ run'[r].cap = run[r].cap /\ Beside(r)
  <2> DEFINE to == [To(r, "gate") EXCEPT !.sim = sim, !.simAt = now]
  <2>1. to.pc = "gate" /\ to.cap = run[r].cap
    BY <1>0 DEF To, Run
  <2>2. run' = [run EXCEPT ![r] = to]
    BY <1>7 DEF SimulationPasses
  <2>3. run[r].pc = "simulate" /\ UNCHANGED <<settings, active, order, receipt>>
    BY <1>7 DEF SimulationPasses, Here
  <2> HIDE DEF to
  <2>4. QED
    BY <1>0, <2>1, <2>2, <2>3 DEF Beside, BeforeSwap
<1>8. QED
  BY <1>1, <1>2, <1>3, <1>4, <1>5, <1>6, <1>7

\* After its swap a request keeps the cap it came in under and the slippage it asked for.
LEMMA LateLocals ==
  ASSUME TypeOK, NEW r \in Requests,
         \/ SwapRefused(r) \/ SwapUnanswered(r) \/ SwapReplies(r)
         \/ PollFinished(r) \/ PollFailed(r) \/ PollGivesUp(r)
  PROVE  /\ run[r].pc \in {"swap", "poll"} /\ run'[r].pc \in {"poll", "report", "raised"}
         /\ Read(r) /\ Beside(r)
<1>0. run[r] \in Run /\ run \in [Requests -> Run]
  BY DEF TypeOK
<1>1. run[r].pc \in {"swap", "poll"} /\ UNCHANGED <<settings, active, order, receipt>>
  BY DEF SwapRefused, SwapUnanswered, SwapReplies, PollFinished, PollFailed, PollGivesUp, Here
<1>2. CASE SwapReplies(r)
  <2> DEFINE to == [To(r, "poll") EXCEPT !.order = TRUE]
  <2>1. to.pc = "poll" /\ to.cap = run[r].cap /\ to.slip = run[r].slip
    BY <1>0 DEF To, Run
  <2>2. run' = [run EXCEPT ![r] = to]
    BY <1>2 DEF SwapReplies
  <2> HIDE DEF to
  <2>3. QED
    BY <1>0, <1>1, <2>1, <2>2 DEF Beside, Read
<1>3. CASE ~SwapReplies(r)
  <2>1. PICK path : Goes(r, path, To(r, "report"))
    BY <1>3 DEF SwapRefused, SwapUnanswered, PollFinished, PollFailed, PollGivesUp, Fails
  <2>2. "report" \in Pc
    BY DEF Pc
  <2>3. QED
    BY <1>1, <2>1, <2>2, ToLocals, GoesLocals DEF Beside, Read
<1>4. QED
  BY <1>2, <1>3

\* A request that a step leaves alone looks the same to the ledger.
LEMMA ViewKept ==
  ASSUME NEW s \in Requests, run'[s] = run[s], order'[s] = order[s], receipt'[s] = receipt[s]
  PROVE  /\ CapOf(s)' = CapOf(s) /\ Terms(s)' = Terms(s) /\ Said(s)' = Said(s)
         /\ s \in Chances' <=> s \in Chances
BY DEF CapOf, Terms, Said, Chances, Here

\* The ledger sees nothing of a step that changes none of its views.
LEMMA ViewsKept ==
  ASSUME UNCHANGED <<settings, active, order>>,
         \A s \in Requests : CapOf(s)' = CapOf(s) /\ Terms(s)' = Terms(s) /\ Said(s)' = Said(s)
  PROVE  /\ (settings.executes /\ ~settings.demo)' = (settings.executes /\ ~settings.demo)
         /\ [s \in Requests |-> CapOf(s)]' = [s \in Requests |-> CapOf(s)]
         /\ [s \in Requests |-> Terms(s)]' = [s \in Requests |-> Terms(s)]
         /\ [s \in Requests |-> Said(s)]' = [s \in Requests |-> Said(s)]
OBVIOUS

\* Before its swap, a request goes on unseen or gives up its chance.
LEMMA EarlyRefines ==
  ASSUME NEW r \in Requests, order[r] = "none", Beside(r),
         run[r].pc \in BeforeSwap \ {"idle"}, run'[r].pc \notin {"idle", "done"},
         run'[r].cap = run[r].cap
  PROVE  (\E R \in SUBSET Requests : Ledger!GiveUp(R)) \/ UNCHANGED Ledger!vars
<1>1. \A s \in Requests \ {r} :
        /\ CapOf(s)' = CapOf(s) /\ Terms(s)' = Terms(s) /\ Said(s)' = Said(s)
        /\ s \in Chances' <=> s \in Chances
  BY ViewKept DEF Beside
<1>2. CapOf(r)' = CapOf(r) /\ Terms(r)' = Terms(r) /\ Said(r)' = Said(r) /\ r \in Chances
  BY DEF CapOf, Terms, Said, Chances, Here, Beside, BeforeSwap
<1>3. UNCHANGED <<settings, active, order>>
  BY DEF Beside
<1>4. /\ (settings.executes /\ ~settings.demo)' = (settings.executes /\ ~settings.demo)
      /\ [s \in Requests |-> CapOf(s)]' = [s \in Requests |-> CapOf(s)]
      /\ [s \in Requests |-> Terms(s)]' = [s \in Requests |-> Terms(s)]
      /\ [s \in Requests |-> Said(s)]' = [s \in Requests |-> Said(s)]
  BY <1>1, <1>2, <1>3, ViewsKept
<1>5. CASE r \in Chances'
  <2>1. Chances' = Chances
    BY <1>1, <1>2, <1>5 DEF Chances
  <2>2. QED
    BY <1>3, <1>4, <2>1 DEF Ledger!vars
<1>6. CASE r \notin Chances'
  <2>1. Chances' = Chances \ {r}
    BY <1>1, <1>6 DEF Chances
  <2>2. Ledger!GiveUp({r})
    BY <1>3, <1>4, <2>1 DEF Ledger!GiveUp
  <2>3. QED
    BY <2>2
<1>7. QED
  BY <1>5, <1>6

\* After its swap, a request goes on unseen until its receipt is written.
LEMMA LateRefines ==
  ASSUME NEW r \in Requests, Beside(r), Read(r),
         run[r].pc \notin BeforeSwap \cup {"done"}, run'[r].pc \notin BeforeSwap \cup {"done"}
  PROVE  UNCHANGED Ledger!vars
<1>1. \A s \in Requests \ {r} :
        /\ CapOf(s)' = CapOf(s) /\ Terms(s)' = Terms(s) /\ Said(s)' = Said(s)
        /\ s \in Chances' <=> s \in Chances
  BY ViewKept DEF Beside
<1>2. /\ CapOf(r)' = CapOf(r) /\ Terms(r)' = Terms(r) /\ Said(r)' = Said(r)
      /\ r \notin Chances /\ r \notin Chances'
  BY DEF CapOf, Terms, Said, Chances, Here, Beside, Read, BeforeSwap
<1>3. UNCHANGED <<settings, active, order>>
  BY DEF Beside
<1>4. /\ (settings.executes /\ ~settings.demo)' = (settings.executes /\ ~settings.demo)
      /\ [s \in Requests |-> CapOf(s)]' = [s \in Requests |-> CapOf(s)]
      /\ [s \in Requests |-> Terms(s)]' = [s \in Requests |-> Terms(s)]
      /\ [s \in Requests |-> Said(s)]' = [s \in Requests |-> Said(s)]
  BY <1>1, <1>2, <1>3, ViewsKept
<1>5. Chances' = Chances
  BY <1>1, <1>2 DEF Chances
<1>6. QED
  BY <1>3, <1>4, <1>5 DEF Ledger!vars

\* A request comes in under the constitution that is active.
LEMMA StartsRefines ==
  ASSUME TypeOK, NEW r \in Requests, Standing(r), NEW confirm \in BOOLEAN, Starts(r, confirm)
  PROVE  Ledger!Enter(r)
<1> DEFINE to == [To(r, "discover") EXCEPT !.confirm = confirm, !.cap = active]
<1>0. run[r] \in Run /\ run \in [Requests -> Run]
  BY DEF TypeOK
<1>1. run[r].pc = "idle" /\ active # NoCap
  BY DEF Starts, Here
<1>2. order[r] = "none" /\ run[r].state = "INTENT_RECEIVED"
  BY <1>1, Unordered, StateAtPoints DEF BeforeSwap
<1>3. run' = [run EXCEPT ![r] = [to EXCEPT !.state = "DISCOVERING"]]
  BY <1>2, TwoMoves, Transitions DEF Starts
<1>4. run'[r].pc = "discover" /\ run'[r].cap = active
  BY <1>0, <1>3 DEF To, Run
<1>5. \A s \in Requests \ {r} : run'[s] = run[s]
  BY <1>0, <1>3
<1>6. UNCHANGED <<settings, active, order, receipt>>
  BY DEF Starts
<1>7. \A s \in Requests \ {r} :
        /\ CapOf(s)' = CapOf(s) /\ Terms(s)' = Terms(s) /\ Said(s)' = Said(s)
        /\ s \in Chances' <=> s \in Chances
  BY <1>5, <1>6, ViewKept
<1>8. /\ CapOf(r) = NoCap /\ CapOf(r)' = active /\ Terms(r)' = Terms(r) /\ Said(r)' = Said(r)
      /\ r \in Chances /\ r \in Chances'
  BY <1>1, <1>2, <1>4, <1>6 DEF CapOf, Terms, Said, Chances, Here, BeforeSwap
<1>9. Chances' = Chances
  BY <1>7, <1>8 DEF Chances
<1>10. [s \in Requests |-> CapOf(s)]' = [[s \in Requests |-> CapOf(s)] EXCEPT ![r] = active]
  BY <1>7, <1>8
<1>11. /\ [s \in Requests |-> Terms(s)]' = [s \in Requests |-> Terms(s)]
       /\ [s \in Requests |-> Said(s)]' = [s \in Requests |-> Said(s)]
  BY <1>7, <1>8
<1>12. QED
  BY <1>1, <1>6, <1>8, <1>9, <1>10, <1>11 DEF Ledger!Enter

\* The swap is the one a request may ask for, with the slippage of the
\* route it chose or with the default.
LEMMA SwapsRefines ==
  ASSUME TypeOK, NEW r \in Requests, Standing(r), Swaps(r)
  PROVE  \E slip \in Slips \cup {DefaultSlip} : Ledger!Ask(r, slip)
<1> DEFINE slip == AskedSlip(run[r].quotes[run[r].route])
           to == [To(r, "swap") EXCEPT !.swapAt = now, !.slip = slip]
<1>0. run[r] \in Run /\ run \in [Requests -> Run] /\ Choice(r)
      /\ order \in [Requests -> {"none", "asked", "open", "FINISHED", "FAILED"}]
  BY DEF TypeOK, Standing
<1>1. run[r].pc = "execute" /\ settings.executes /\ ~settings.demo
  BY DEF Swaps, Here, MaySwap
<1>2. run' = [run EXCEPT ![r] = to]
  BY DEF Swaps
<1> HIDE DEF slip
<1>3. run'[r].pc = "swap" /\ run'[r].cap = run[r].cap /\ run'[r].slip = slip
  BY <1>0, <1>2 DEF To, Run
<1>4. \A s \in Requests \ {r} : run'[s] = run[s] /\ order'[s] = order[s]
  BY <1>0, <1>2 DEF Swaps
<1>5. UNCHANGED <<settings, active, receipt>> /\ order' = [order EXCEPT ![r] = "asked"]
      /\ order'[r] = "asked"
  BY <1>0 DEF Swaps
<1>6. \A s \in Requests \ {r} :
        /\ CapOf(s)' = CapOf(s) /\ Terms(s)' = Terms(s) /\ Said(s)' = Said(s)
        /\ s \in Chances' <=> s \in Chances
  BY <1>4, <1>5, ViewKept
<1>7. /\ CapOf(r) = run[r].cap /\ CapOf(r)' = CapOf(r) /\ Said(r)' = Said(r)
      /\ Terms(r)' = slip /\ r \in Chances /\ r \notin Chances'
  BY <1>1, <1>3, <1>5 DEF CapOf, Terms, Said, Chances, Here, BeforeSwap
<1>8. run[r].route \in Eligible(r) /\ run[r].cap \in Caps
  BY <1>0, <1>1 DEF Choice, AfterChoice
<1>9. slip \in Slips \cup {DefaultSlip}
  BY <1>8, AskedTyped DEF slip
<1>10. slip # DefaultSlip => slip <= run[r].cap /\ slip <= HardCap
  BY <1>8, AskedTyped DEF slip
<1>11. run[r].cap # NoCap
  BY <1>8 DEF NoCap
<1>12. Chances' = Chances \ {r}
  BY <1>6, <1>7 DEF Chances
<1>13. [s \in Requests |-> Terms(s)]' = [[s \in Requests |-> Terms(s)] EXCEPT ![r] = slip]
  BY <1>6, <1>7
<1>14. /\ [s \in Requests |-> CapOf(s)]' = [s \in Requests |-> CapOf(s)]
       /\ [s \in Requests |-> Said(s)]' = [s \in Requests |-> Said(s)]
  BY <1>6, <1>7
<1>15. [s \in Requests |-> CapOf(s)][r] = run[r].cap
  BY <1>7
<1>16. Ledger!Ask(r, slip)
  BY <1>1, <1>5, <1>7, <1>10, <1>11, <1>12, <1>13, <1>14, <1>15 DEF Ledger!Ask
<1>17. QED
  BY <1>9, <1>16

\* A receipt is written once, by a request that may ask for nothing more.
LEMMA ReportsRefines ==
  ASSUME TypeOK, NEW r \in Requests, Standing(r), Reports(r)
  PROVE  \E word \in {"nothing", "bought", "failed", "pending"} : Ledger!File(r, word)
<1>0. run[r] \in Run /\ run \in [Requests -> Run] /\ receipt \in [Requests -> Receipt]
      /\ Outcome(r)
  BY DEF TypeOK, Standing
<1>1. run[r].pc = "report" /\ run' = [run EXCEPT ![r].pc = "done"]
  BY DEF Reports, Here
<1>2. run'[r].pc = "done" /\ Read(r) /\ \A s \in Requests \ {r} : run'[s] = run[s]
  BY <1>0, <1>1 DEF Run, Read
<1>3. receipt'[r].state = run[r].state /\ receipt'[r].order = run[r].order
      /\ \A s \in Requests \ {r} : receipt'[s] = receipt[s]
  BY <1>0 DEF Reports
<1>4. UNCHANGED <<settings, active, order>>
  BY DEF Reports
<1>5. \A s \in Requests \ {r} :
        /\ CapOf(s)' = CapOf(s) /\ Terms(s)' = Terms(s) /\ Said(s)' = Said(s)
        /\ s \in Chances' <=> s \in Chances
  BY <1>2, <1>3, <1>4, ViewKept
<1>6. /\ CapOf(r)' = CapOf(r) /\ Terms(r)' = Terms(r) /\ Said(r) = "unwritten"
      /\ r \notin Chances /\ r \notin Chances'
  BY <1>1, <1>2, <1>4 DEF CapOf, Terms, Said, Chances, Here, Read, BeforeSwap
<1>7. Said(r)' \in {"nothing", "bought", "failed", "pending"} /\ Ledger!Honest(r, Said(r)')
  BY <1>0, <1>1, <1>2, <1>3, <1>4 DEF Said, Here, Outcome, Ordered, Ledger!Honest
<1>8. Chances' = Chances
  BY <1>5, <1>6 DEF Chances
<1>9. [s \in Requests |-> Said(s)]' = [[s \in Requests |-> Said(s)] EXCEPT ![r] = Said(r)']
  BY <1>5
<1>10. /\ [s \in Requests |-> CapOf(s)]' = [s \in Requests |-> CapOf(s)]
       /\ [s \in Requests |-> Terms(s)]' = [s \in Requests |-> Terms(s)]
  BY <1>5, <1>6
<1>11. Ledger!File(r, Said(r)')
  BY <1>4, <1>6, <1>7, <1>8, <1>9, <1>10 DEF Ledger!File
<1>12. QED
  BY <1>7, <1>11

\* The wallet does to an order what the ledger lets it do.
LEMMA WalletRefines ==
  ASSUME TypeOK, NEW r \in Requests, WalletStep(r)
  PROVE  \/ Ledger!Opens(r) \/ Ledger!Lost(r)
         \/ \E end \in {"FINISHED", "FAILED"} : Ledger!Closes(r, end)
<1>0. order \in [Requests -> {"none", "asked", "open", "FINISHED", "FAILED"}]
  BY DEF TypeOK
<1>1. UNCHANGED <<settings, active, run, receipt>>
  BY DEF WalletStep, OrderOpens, OrderLost, OrderEnds
<1>2. Chances' = Chances /\ \A s \in Requests : CapOf(s)' = CapOf(s) /\ Said(s)' = Said(s)
  BY <1>1 DEF Chances, CapOf, Said, Here
<1>3. /\ [s \in Requests |-> CapOf(s)]' = [s \in Requests |-> CapOf(s)]
      /\ [s \in Requests |-> Said(s)]' = [s \in Requests |-> Said(s)]
  BY <1>2
<1>4. \A s \in Requests : order'[s] = order[s] => Terms(s)' = Terms(s)
  BY <1>1 DEF Terms
<1>5. CASE OrderOpens(r)
  <2>1. order[r] = "asked" /\ order' = [order EXCEPT ![r] = "open"]
    BY <1>5 DEF OrderOpens
  <2>2. \A s \in Requests : Terms(s)' = Terms(s)
    BY <1>0, <1>1, <1>4, <2>1 DEF Terms
  <2>3. [s \in Requests |-> Terms(s)]' = [s \in Requests |-> Terms(s)]
    BY <2>2
  <2>4. QED
    BY <1>1, <1>2, <1>3, <2>1, <2>3 DEF Ledger!Opens
<1>6. CASE OrderLost(r)
  <2>1. order[r] = "asked" /\ order' = [order EXCEPT ![r] = "none"]
    BY <1>6 DEF OrderLost
  <2>2. Terms(r)' = Unknown /\ \A s \in Requests \ {r} : Terms(s)' = Terms(s)
    BY <1>0, <1>4, <2>1 DEF Terms
  <2>3. [s \in Requests |-> Terms(s)]' = [[s \in Requests |-> Terms(s)] EXCEPT ![r] = Unknown]
    BY <2>2
  <2>4. QED
    BY <1>1, <1>2, <1>3, <2>1, <2>3 DEF Ledger!Lost
<1>7. CASE OrderEnds(r)
  <2>1. PICK end \in {"FINISHED", "FAILED"} :
          order[r] = "open" /\ order' = [order EXCEPT ![r] = end]
    BY <1>7 DEF OrderEnds
  <2>2. \A s \in Requests : Terms(s)' = Terms(s)
    BY <1>0, <1>1, <1>4, <2>1 DEF Terms
  <2>3. [s \in Requests |-> Terms(s)]' = [s \in Requests |-> Terms(s)]
    BY <2>2
  <2>4. Ledger!Closes(r, end)
    BY <1>1, <1>2, <1>3, <2>1, <2>3 DEF Ledger!Closes
  <2>5. QED
    BY <2>4
<1>8. QED
  BY <1>5, <1>6, <1>7 DEF WalletStep

\* A crash takes the chance of every request under way and leaves the orders.
LEMMA CrashRefines ==
  ASSUME TypeOK, \A s \in Requests : Standing(s), Crash
  PROVE  \E R \in SUBSET Requests : Ledger!GiveUp(R)
<1> DEFINE R == {s \in Requests : run[s].pc \notin {"idle", "done"}}
<1>1. UNCHANGED <<settings, active, order, receipt>>
  BY DEF Crash
<1>2. ASSUME NEW s \in Requests, s \notin R
      PROVE  /\ CapOf(s)' = CapOf(s) /\ Terms(s)' = Terms(s) /\ Said(s)' = Said(s)
             /\ s \in Chances' <=> s \in Chances
  <2>1. run'[s] = run[s]
    BY <1>2 DEF Crash
  <2>2. QED
    BY <1>1, <2>1, ViewKept
<1>3. ASSUME NEW s \in Requests, s \in R
      PROVE  /\ CapOf(s)' = CapOf(s) /\ Terms(s)' = Terms(s) /\ Said(s)' = Said(s)
             /\ s \notin Chances'
  <2>1. run'[s] = [run[s] EXCEPT !.pc = "raised"] /\ run[s] \in Run
    BY <1>3 DEF Crash, TypeOK
  <2>2. run'[s].pc = "raised" /\ run'[s].cap = run[s].cap /\ run'[s].slip = run[s].slip
    BY <2>1 DEF Run
  <2>3. QED
    BY <1>1, <1>3, <2>2 DEF CapOf, Terms, Said, Chances, Here, BeforeSwap
<1>4. Chances' = Chances \ R
  BY <1>2, <1>3 DEF Chances
<1>5. /\ (settings.executes /\ ~settings.demo)' = (settings.executes /\ ~settings.demo)
      /\ [s \in Requests |-> CapOf(s)]' = [s \in Requests |-> CapOf(s)]
      /\ [s \in Requests |-> Terms(s)]' = [s \in Requests |-> Terms(s)]
      /\ [s \in Requests |-> Said(s)]' = [s \in Requests |-> Said(s)]
  BY <1>1, <1>2, <1>3, ViewsKept
<1>6. Ledger!GiveUp(R)
  BY <1>1, <1>4, <1>5 DEF Ledger!GiveUp
<1>7. QED
  BY <1>6

\* Every step of a request is a step of the ledger or none.
LEMMA RequestRefines ==
  ASSUME TypeOK, NEW r \in Requests, Standing(r),
         \/ \E confirm \in BOOLEAN : Starts(r, confirm)
         \/ RunStep(r) \/ SwapUnanswered(r) \/ Raises(r) \/ WalletStep(r)
  PROVE  Ledger!Next \/ UNCHANGED Ledger!vars
<1> DEFINE early ==
      \/ DiscoversNone(r)
      \/ \E reps \in SUBSET Routes : Discovers(r, reps)
      \/ \E x \in Routes, q \in Quote : Quotes(r, x, q)
      \/ EvaluatesNone(r)
      \/ \E x \in Routes : Evaluates(r, x)
      \/ \E sim \in SimOutcomes : SimulationStops(r, sim) \/ SimulationPasses(r, sim)
      \/ AwaitsConfirmation(r) \/ KillSwitch(r) \/ Authorizes(r) \/ ExecuteRefuses(r)
    late ==
      \/ SwapRefused(r) \/ SwapUnanswered(r) \/ SwapReplies(r)
      \/ PollFinished(r) \/ PollFailed(r) \/ PollGivesUp(r)
<1>1. CASE \E confirm \in BOOLEAN : Starts(r, confirm)
  BY <1>1, StartsRefines DEF Ledger!Next
<1>2. CASE early
  <2>1. /\ run[r].pc \in BeforeSwap \ {"idle"} /\ run'[r].pc \notin {"idle", "done"}
        /\ run'[r].cap = run[r].cap /\ Beside(r)
    BY <1>2, EarlyLocals
  <2>2. order[r] = "none"
    BY <2>1, Unordered
  <2>3. QED
    BY <2>1, <2>2, EarlyRefines DEF Ledger!Next
<1>3. CASE late
  <2>1. /\ run[r].pc \in {"swap", "poll"} /\ run'[r].pc \in {"poll", "report", "raised"}
        /\ Read(r) /\ Beside(r)
    BY <1>3, LateLocals
  <2>2. QED
    BY <2>1, LateRefines DEF BeforeSwap
<1>4. CASE Swaps(r)
  BY <1>4, SwapsRefines DEF Ledger!Next
<1>5. CASE Reports(r)
  BY <1>5, ReportsRefines DEF Ledger!Next
<1>6. CASE Raises(r)
  <2>1. run[r] \in Run /\ run \in [Requests -> Run]
    BY DEF TypeOK
  <2>2. /\ run[r].pc \in {"discover", "quote", "swap", "poll", "report"}
        /\ run' = [run EXCEPT ![r].pc = "raised"] /\ UNCHANGED <<settings, active, order, receipt>>
    BY <1>6 DEF Raises
  <2>3. run'[r].pc = "raised" /\ Read(r) /\ Beside(r)
    BY <2>1, <2>2 DEF Run, Read, Beside
  <2>4. CASE run[r].pc \in {"discover", "quote"}
    <3>1. run[r].pc \in BeforeSwap \ {"idle"}
      BY <2>4 DEF BeforeSwap
    <3>2. order[r] = "none"
      BY <3>1, Unordered
    <3>3. QED
      BY <2>3, <3>1, <3>2, EarlyRefines DEF Ledger!Next, Read
  <2>5. CASE run[r].pc \in {"swap", "poll", "report"}
    BY <2>3, <2>5, LateRefines DEF BeforeSwap
  <2>6. QED
    BY <2>2, <2>4, <2>5
<1>7. CASE WalletStep(r)
  BY <1>7, WalletRefines DEF Ledger!Next
<1>8. QED
  BY <1>1, <1>2, <1>3, <1>4, <1>5, <1>6, <1>7 DEF RunStep

\* The first state is the ledger's.
LEMMA InitRefines == Init => Ledger!Init
<1> SUFFICES ASSUME Init PROVE Ledger!Init
  OBVIOUS
<1>1. \A r \in Requests : run[r].pc = "idle" /\ order[r] = "none"
  BY DEF Init, Fresh
<1>2. Chances = Requests
  BY <1>1 DEF Chances, BeforeSwap
<1>3. \A r \in Requests : CapOf(r) = NoCap /\ Terms(r) = Unknown /\ Said(r) = "unwritten"
  BY <1>1 DEF CapOf, Terms, Said, Here
<1>4. (settings.executes /\ ~settings.demo) \in BOOLEAN
  OBVIOUS
<1>5. QED
  BY <1>2, <1>3, <1>4 DEF Init, Ledger!Init

(***************************************************************************)
(* The pipeline implements the ledger, for any number of requests, routes  *)
(* and constitutions: each of its steps is a step of the ledger or is not  *)
(* seen by it.                                                             *)
(***************************************************************************)
THEOREM SwapLedgerKept == Spec => KeepsSwapLedger
<1>1. IInv /\ [Next]_vars => [Ledger!Next]_(Ledger!vars)
  <2> SUFFICES ASSUME IInv, [Next]_vars PROVE Ledger!Next \/ UNCHANGED Ledger!vars
    OBVIOUS
  <2>1. TypeOK /\ \A s \in Requests : Standing(s)
    BY RequestByRequest
  <2>2. CASE Tick \/ UNCHANGED vars
    <3>1. UNCHANGED <<settings, active, run, order, receipt>>
      BY <2>2 DEF Tick, vars
    <3>2. Chances' = Chances
      BY <3>1 DEF Chances
    <3>3. \A s \in Requests : CapOf(s)' = CapOf(s) /\ Terms(s)' = Terms(s) /\ Said(s)' = Said(s)
      BY <3>1, ViewKept
    <3>4. QED
      BY <3>1, <3>2, <3>3, ViewsKept DEF Ledger!vars
  <2>3. ASSUME NEW c \in Caps, Approve(c) PROVE Ledger!Next
    <3>1. UNCHANGED <<settings, run, order, receipt>> /\ active' = c
      BY <2>3 DEF Approve
    <3>2. Chances' = Chances
      BY <3>1 DEF Chances
    <3>3. \A s \in Requests : CapOf(s)' = CapOf(s) /\ Terms(s)' = Terms(s) /\ Said(s)' = Said(s)
      BY <3>1, ViewKept
    <3>4. Ledger!Approve(c)
      BY <3>1, <3>2, <3>3 DEF Ledger!Approve
    <3>5. QED
      BY <3>4 DEF Ledger!Next
  <2>4. ASSUME NEW r \in Requests,
               \/ \E confirm \in BOOLEAN : Starts(r, confirm)
               \/ RunStep(r) \/ SwapUnanswered(r) \/ Raises(r) \/ WalletStep(r)
        PROVE  Ledger!Next \/ UNCHANGED Ledger!vars
    BY <2>1, <2>4, RequestRefines
  <2>5. CASE Crash
    BY <2>1, <2>5, CrashRefines DEF Ledger!Next
  <2>6. QED
    BY <2>2, <2>3, <2>4, <2>5 DEF Next
<1>2. QED
  BY <1>1, InitRefines, Invariance, PTL DEF Spec, KeepsSwapLedger, Ledger!Spec

-----------------------------------------------------------------------------
(* A request only goes on. *)

\* The points of a request are in order, and nothing follows a request that is over.
LEMMA Places ==
  /\ \A pc \in Pc : Place[pc] \in 0..9
  /\ \A pc \in Pc \ {"done", "raised"} : Place[pc] < Place["raised"]
BY DEF Place, Pc

\* A step that goes on with locals of a later point goes on, or raises.
LEMMA GoesOnward ==
  ASSUME TypeOK, NEW r \in Requests, NEW to \in Run, NEW path, Goes(r, path, to),
         Place[run[r].pc] < Place[to.pc]
  PROVE  Onward(r)
<1>1. run'[r].pc \in {to.pc, "raised"}
  BY GoesLocals
<1>2. run[r].pc \in Pc /\ to.pc \in Pc
  BY DEF TypeOK, Run
<1>3. Place[run[r].pc] \in 0..9 /\ Place[to.pc] \in 0..9 /\ Place["raised"] = 9
  BY <1>2, Places DEF Place
<1>4. Place[run[r].pc] < Place["raised"]
  BY <1>3
<1>5. QED
  BY <1>1, <1>4 DEF Onward

\* The same for a step that sets the locals of a request itself.
LEMMA SetsOnward ==
  ASSUME TypeOK, NEW r \in Requests, NEW to, run' = [run EXCEPT ![r] = to],
         Place[run[r].pc] < Place[to.pc]
  PROVE  Onward(r)
<1>1. run'[r] = to
  BY DEF TypeOK
<1>2. QED
  BY <1>1 DEF Onward

\* The steps that end in a report, and those that only move on.
LEMMA PlainOnward ==
  ASSUME TypeOK, NEW r \in Requests,
         \/ DiscoversNone(r) \/ EvaluatesNone(r) \/ AwaitsConfirmation(r) \/ KillSwitch(r)
         \/ Authorizes(r) \/ ExecuteRefuses(r) \/ SwapRefused(r) \/ SwapUnanswered(r)
         \/ PollFinished(r) \/ PollFailed(r) \/ PollGivesUp(r)
  PROVE  Onward(r)
<1>1. CASE Authorizes(r)
  <2>1. PICK path : Goes(r, path, To(r, "execute"))
    BY <1>1 DEF Authorizes
  <2>2. run[r].pc = "gate" /\ "execute" \in Pc
    BY <1>1 DEF Authorizes, Here, Pc
  <2>3. To(r, "execute") \in Run /\ To(r, "execute").pc = "execute"
    BY <2>2, ToLocals
  <2>4. Place["gate"] < Place["execute"]
    BY DEF Place
  <2>5. QED
    BY <2>1, <2>2, <2>3, <2>4, GoesOnward
<1>2. CASE ~Authorizes(r)
  <2>1. PICK path : Goes(r, path, To(r, "report"))
    BY <1>2 DEF DiscoversNone, EvaluatesNone, AwaitsConfirmation, KillSwitch, ExecuteRefuses,
       SwapRefused, SwapUnanswered, PollFinished, PollFailed, PollGivesUp, Fails
  <2>2. run[r].pc \in {"discover", "quote", "gate", "execute", "swap", "poll"}
    BY <1>2 DEF DiscoversNone, EvaluatesNone, AwaitsConfirmation, KillSwitch, ExecuteRefuses,
       SwapRefused, SwapUnanswered, PollFinished, PollFailed, PollGivesUp, Quoted, Here
  <2>3. To(r, "report") \in Run /\ To(r, "report").pc = "report"
    BY ToLocals DEF Pc
  <2>4. Place[run[r].pc] < Place["report"]
    BY <2>2 DEF Place
  <2>5. QED
    BY <2>1, <2>3, <2>4, GoesOnward
<1>3. QED
  BY <1>1, <1>2

\* The steps that also keep what was found, quoted, chosen, simulated or ordered.
LEMMA ChoosesOnward ==
  ASSUME TypeOK, NEW r \in Requests,
         \/ \E confirm \in BOOLEAN : Starts(r, confirm)
         \/ \E reps \in SUBSET Routes : Discovers(r, reps)
         \/ \E x \in Routes : Evaluates(r, x)
         \/ \E sim \in SimOutcomes : SimulationStops(r, sim) \/ SimulationPasses(r, sim)
         \/ Swaps(r) \/ SwapReplies(r)
  PROVE  Onward(r)
<1>0. run[r] \in Run /\ run \in [Requests -> Run] /\ now \in Time /\ settings \in Settings
      /\ active \in Caps \cup {NoCap}
  BY DEF TypeOK
<1>1. ASSUME NEW confirm \in BOOLEAN, Starts(r, confirm) PROVE Onward(r)
  <2> DEFINE to == [To(r, "discover") EXCEPT !.confirm = confirm, !.cap = active]
  <2>1. to \in Run /\ to.pc = "discover"
    BY <1>0 DEF To, Run, Pc
  <2>2. run[r].pc = "idle"
    BY <1>1 DEF Starts, Here
  <2>3. PICK path : Goes(r, path, to)
    BY <1>1 DEF Starts
  <2>4. Place["idle"] < Place["discover"]
    BY DEF Place
  <2> HIDE DEF to
  <2>5. QED
    BY <2>1, <2>2, <2>3, <2>4, GoesOnward
<1>2. ASSUME NEW reps \in SUBSET Routes, Discovers(r, reps) PROVE Onward(r)
  <2> DEFINE to == [To(r, "quote") EXCEPT !.reps = reps]
  <2>1. to \in Run /\ to.pc = "quote"
    BY <1>0 DEF To, Run, Pc
  <2>2. run[r].pc = "discover"
    BY <1>2 DEF Discovers, Here
  <2>3. PICK path : Goes(r, path, to)
    BY <1>2 DEF Discovers
  <2>4. Place["discover"] < Place["quote"]
    BY DEF Place
  <2> HIDE DEF to
  <2>5. QED
    BY <2>1, <2>2, <2>3, <2>4, GoesOnward
<1>3. ASSUME NEW x \in Routes, Evaluates(r, x) PROVE Onward(r)
  <2> DEFINE needs == run[r].quotes[x].rest = "confirm" \/ settings.confirms
             to == [To(r, "simulate") EXCEPT !.route = x, !.needs = needs]
  <2>1. needs \in BOOLEAN
    BY <1>0 DEF Settings
  <2>2. PICK path : Goes(r, path, to)
    BY <1>3 DEF Evaluates
  <2> HIDE DEF needs
  <2>3. to \in Run /\ to.pc = "simulate"
    BY <1>0, <2>1 DEF To, Run, Pc
  <2>4. run[r].pc = "quote"
    BY <1>3 DEF Evaluates, Quoted, Here
  <2>5. Place["quote"] < Place["simulate"]
    BY DEF Place
  <2> HIDE DEF to
  <2>6. QED
    BY <2>2, <2>3, <2>4, <2>5, GoesOnward
<1>4. ASSUME NEW sim \in SimOutcomes, SimulationStops(r, sim) PROVE Onward(r)
  <2> DEFINE to == [To(r, "report") EXCEPT !.sim = sim, !.simAt = now]
  <2>1. to \in Run /\ to.pc = "report"
    BY <1>0 DEF To, Run, Pc
  <2>2. PICK path : Goes(r, path, to)
    BY <1>4 DEF SimulationStops
  <2>3. run[r].pc = "simulate"
    BY <1>4 DEF SimulationStops, Here
  <2>4. Place["simulate"] < Place["report"]
    BY DEF Place
  <2> HIDE DEF to
  <2>5. QED
    BY <2>1, <2>2, <2>3, <2>4, GoesOnward
<1>5. ASSUME NEW sim \in SimOutcomes, SimulationPasses(r, sim) PROVE Onward(r)
  <2> DEFINE to == [To(r, "gate") EXCEPT !.sim = sim, !.simAt = now]
  <2>1. to.pc = "gate"
    BY <1>0 DEF To, Run
  <2>2. run' = [run EXCEPT ![r] = to] /\ run[r].pc = "simulate"
    BY <1>5 DEF SimulationPasses, Here
  <2>3. Place["simulate"] < Place["gate"]
    BY DEF Place
  <2> HIDE DEF to
  <2>4. QED
    BY <2>1, <2>2, <2>3, SetsOnward
<1>6. CASE Swaps(r)
  <2> DEFINE slip == AskedSlip(run[r].quotes[run[r].route])
             to == [To(r, "swap") EXCEPT !.swapAt = now, !.slip = slip]
  <2>1. to.pc = "swap"
    BY <1>0 DEF To, Run
  <2>2. run' = [run EXCEPT ![r] = to] /\ run[r].pc = "execute"
    BY <1>6 DEF Swaps, Here
  <2>3. Place["execute"] < Place["swap"]
    BY DEF Place
  <2> HIDE DEF to
  <2>4. QED
    BY <2>1, <2>2, <2>3, SetsOnward
<1>7. CASE SwapReplies(r)
  <2> DEFINE to == [To(r, "poll") EXCEPT !.order = TRUE]
  <2>1. to.pc = "poll"
    BY <1>0 DEF To, Run
  <2>2. run' = [run EXCEPT ![r] = to] /\ run[r].pc = "swap"
    BY <1>7 DEF SwapReplies, Here
  <2>3. Place["swap"] < Place["poll"]
    BY DEF Place
  <2> HIDE DEF to
  <2>4. QED
    BY <2>1, <2>2, <2>3, SetsOnward
<1>8. QED
  BY <1>1, <1>2, <1>3, <1>4, <1>5, <1>6, <1>7

\* A step of one request, and of no other.
LEMMA RequestOnward ==
  ASSUME TypeOK, NEW r \in Requests,
         \/ \E confirm \in BOOLEAN : Starts(r, confirm)
         \/ RunStep(r) \/ SwapUnanswered(r) \/ Raises(r) \/ WalletStep(r)
  PROVE  Onward(r)
<1>0. run[r] \in Run /\ run \in [Requests -> Run]
  BY DEF TypeOK
<1>1. CASE \E x \in Routes, q \in Quote : Quotes(r, x, q)
  <2>1. PICK x \in Routes, q \in Quote : Quotes(r, x, q)
    BY <1>1
  <2> DEFINE to == [run[r] EXCEPT !.asked = @ \cup {x}, !.quotes[x] = q]
  <2>2. run[r].pc = "quote" /\ x \in run[r].reps \ run[r].asked /\ run' = [run EXCEPT ![r] = to]
    BY <2>1 DEF Quotes, Here
  <2>3. to.pc = run[r].pc /\ to.reps = run[r].reps /\ to.asked = run[r].asked \cup {x}
    BY <1>0 DEF Run
  <2> HIDE DEF to
  <2>4. run'[r] = to
    BY <1>0, <2>2
  <2>5. QED
    BY <2>2, <2>3, <2>4 DEF Onward
<1>2. CASE Reports(r)
  <2>1. run'[r].pc = "done" /\ run[r].pc = "report"
    BY <1>0, <1>2 DEF Reports, Here, Run
  <2>2. QED
    BY <2>1 DEF Onward, Place
<1>3. CASE Raises(r)
  <2>1. run'[r].pc = "raised" /\ run[r].pc \in Pc \ {"done", "raised"}
    BY <1>0, <1>3 DEF Raises, Run, Pc
  <2>2. QED
    BY <2>1, Places DEF Onward
<1>4. CASE WalletStep(r)
  <2>1. UNCHANGED <<run, receipt>>
    BY <1>4 DEF WalletStep, OrderOpens, OrderLost, OrderEnds
  <2>2. QED
    BY <2>1 DEF Onward
<1>5. QED
  BY <1>1, <1>2, <1>3, <1>4, PlainOnward, ChoosesOnward DEF RunStep

(***************************************************************************)
(* No step of any request is gone back to, for any number of requests and  *)
(* of faults: with the fairness that the runs assume, this is why each     *)
(* request ends.                                                           *)
(***************************************************************************)
THEOREM NothingIsRetried == Spec => RequestsAdvance
<1>1. TypeOK /\ [Next]_vars => \A r \in Requests : Onward(r)
  <2> SUFFICES ASSUME TypeOK, [Next]_vars, NEW s \in Requests PROVE Onward(s)
    OBVIOUS
  <2>1. CASE Tick \/ (\E c \in Caps : Approve(c)) \/ UNCHANGED vars
    BY <2>1 DEF Tick, Approve, vars, Onward
  <2>2. ASSUME NEW r \in Requests,
               \/ \E confirm \in BOOLEAN : Starts(r, confirm)
               \/ RunStep(r) \/ SwapUnanswered(r) \/ Raises(r) \/ WalletStep(r)
        PROVE  Onward(s)
    <3>1. CASE s = r
      BY <2>2, <3>1, RequestOnward
    <3>2. CASE s # r
      <4>1. run'[s] = run[s] /\ receipt'[s] = receipt[s]
        BY <2>2, <3>2, Elsewhere
      <4>2. QED
        BY <4>1 DEF Onward
    <3>3. QED
      BY <3>1, <3>2
  <2>3. CASE Crash
    <3>1. CASE run[s].pc \in {"idle", "done"}
      <4>1. run'[s] = run[s] /\ receipt' = receipt
        BY <2>3, <3>1 DEF Crash
      <4>2. QED
        BY <4>1 DEF Onward
    <3>2. CASE run[s].pc = "raised"
      <4>1. run[s] \in Run
        BY DEF TypeOK
      <4>2. [run[s] EXCEPT !.pc = "raised"] = run[s]
        BY <3>2, <4>1 DEF Run
      <4>3. run'[s] = run[s] /\ receipt' = receipt
        BY <2>3, <3>2, <4>2 DEF Crash
      <4>4. QED
        BY <4>3 DEF Onward
    <3>3. CASE run[s].pc \notin {"idle", "done", "raised"}
      <4>1. run[s] \in Run /\ run[s].pc \in Pc \ {"done", "raised"}
        BY <3>3 DEF TypeOK, Run
      <4>2. run'[s] = [run[s] EXCEPT !.pc = "raised"]
        BY <2>3, <3>3 DEF Crash
      <4>3. run'[s].pc = "raised"
        BY <4>1, <4>2 DEF Run
      <4>4. QED
        BY <4>1, <4>3, Places DEF Onward
    <3>4. QED
      BY <3>1, <3>2, <3>3
  <2>4. QED
    BY <2>1, <2>2, <2>3 DEF Next
<1>2. QED
  BY <1>1, TypeCorrect, PTL DEF Spec, RequestsAdvance
=============================================================================
