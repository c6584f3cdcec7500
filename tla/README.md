# EquityMux: specifications, model checking and proofs

EquityMux finds the tokenized representations of a US equity on BNB Smart Chain,
judges them by a policy and by the wallet's quotes, and lets one be bought
through an agentic wallet. Around that core it has a web page that explains a
decision and replays it, and a keeper agent that sells analyses for escrowed
payment (ERC-8183). This directory holds TLA+ models of the parts that keep
state or decide something, the TLC configurations that check them, and TLAPS
proofs of the theorems about them.

Contents: [inventory](#inventory) | [modules](#modules) | [runs](#runs-and-bounds) |
[fairness](#fairness) | [proofs](#proofs) | [disagreements](#disagreements-with-the-documentation) |
[abstractions](#abstractions) | [not modelled](#not-modelled) | [how it was built](#how-it-was-built-up)

To repeat everything, in this directory: `tlc -workers 2 -config X.cfg M` for each
run of `PROJECT.json`, and `tlapm M.tla` for each module ending in `Proofs`.

## Inventory

Paths are relative to `src/`; `api/` stands for `services/api/equitymux/`,
`agent/` for `services/keeper/agent/src/`, `web/` for `apps/web/`.

| component | state | operations | hard behaviours | what makes it correct | here |
|---|---|---|---|---|---|
| seller delivery core (`agent/sellerCore.ts`, the override in `agent/executor.ts`, `agent/equitymuxWork.ts`) | `inflight` job ids, background `tasks`; on the chain, the status of each job | `notifyFunded`, `spawn`, `spawnJob`, `runJob`, `fulfillJob`, `doWorkAndSubmit`, `sweep`, `isBusy` | handlers, sweeps and deliveries interleave at every await; a timeout forgets a delivery without stopping it; a restart loses `inflight` while a submission is in the mempool | one awaited delivery per job; nothing signed is dropped; no work unpaid; a funded job is served; `isBusy` is not true for ever | `SellerCore`, `DeliveryLedger` |
| seller signing and server (`agent/signing.ts`, `agent/requestLimits.ts`, `agent/executor.ts`, `agent/unifiedMain.ts`) | what boot found, servers that listen, requests, sliding windows, `studio.toml` | boot, route a request on each carrier, limit it, quote, verify, `/ping`, shutdown | two budgets asked one after the other, each at an await; an injected limiter that answers after its 5 s; a SIGTERM while requests are open | no work that was not charged to both budgets; a price inside its bounds; an exit loses no answer; shutdown ends | `SellerServer`; verification, submission and restart in `SellerCore` |
| seller model, tools and card (`agent/model.ts`, `agent/tools.ts`, `agent/agentCard.ts`) | the steps of a conversation | call the model, call its tools, buy credits | a model that asks for tools without end | at most eight calls | the loop in `SellerServer` |
| execution pipeline (`api/services/pipeline.py`, `state_machine.py`, `receipts.py`) | the state of each request; receipts | `run`, `_execute`, `_simulate`, `_receipt` | early returns; what is read early is used minutes later; the wallet's order outlives the request | a swap only of an authorised route and simulation; receipts agree with the wallet; every path is inside the transition table; one swap per request; every request ends | `ExecutionPipeline`, `SwapLedger` |
| agentic wallet adapter (`api/providers/baw.py`) | none of its own; orders live on the wallet's servers | `quote`, `swap`, `order`, read-only calls | the CLI is killed by a timeout while its order lives on | no reply is taken for a result it does not state | partly, in `ExecutionPipeline` |
| policy engine (`api/policy/engine.py`, `schema.py`) | none: a function of constitution, portfolio, settings, intent, candidate | `evaluate` | optional rules that meet in one minimum; zero against none | ceilings bind; stricter never admits more | `PolicyEngine` |
| route tournament (`api/services/tournament.py`, `api/domain/mathx.py`) | the candidates and their status | `build_candidates`, `quote_all`, `evaluate`, the score and the sort | wallet answers for some candidates only; staleness judged twice | survivors are quoted and admitted; no survivor is better in every respect than the one chosen | `RouteTournament` |
| exposure decisions (`api/services/decisions.py`) | none: a receipt carries its snapshot | `decide`, `replay`, `compare` | chains of comparisons parse the intent again | a receipt replays; stated limits persist; stricter shortlists less | `ExposureDecision` |
| decision desk (`web/app/page.tsx`, `web/lib/canonical.ts`) | form, receipt, comparison, inspection, verification, baseline, requests under way | load, run, apply, challenge, restore, verify, inspect | answers arrive later than the state they were asked from | what is on the screen belongs together; Restore leads back | `DecisionDesk`, `ResearchSession` |
| persistence (`api/services/persistence.py`) | constitutions, receipts, transitions, tasks in SQLite | save, list, read | a constitution that is approved again replaces its row | one active constitution; a policy is stored with its own text | partly, in `WebWorkspace` and `ExecutionPipeline` |
| API and keeper tasks (`api/api/main.py`, `api/services/keeper.py`) | the store | compile, approve, run, verify, submit a task | writes of several clients interleave; an answer is lost after the write | as above | partly, in `WebWorkspace`, `ExecutionPipeline`, `RouteTournament` |
| web pages and proxy (`web/app/*/page.tsx`, `web/components/ReceiptCard.tsx`, `web/app/api/[...path]/route.ts`, `web/lib/public-demo.ts`) | forms, mutations under way, the query cache | type, compile, approve, run, confirm, submit, select, verify, leave | an answer arrives when the form, the card or the page is another; the cache is older than the last write | the demo writes nothing; a policy has its text; a page reads its writes; a verdict is of its card | partly, in `WebWorkspace` |
| host supervisor (`scripts/host-service.mjs`, `ecosystem.config.cjs`) | four processes per run, PM2's state | launch, stop, kill after 8 s, exit | any process of the chain dies first; PM2 starts the next chain before the last is gone | an orderly stop frees the port; a service left by its Windows supervisor ends | `HostService` |
| equity graph and providers (`api/services/graph.py`, `api/providers/`) | TTL caches | concurrent discovery, enrichment, retries | one platform fails; caches filled by slow answers | a reference is a peer's only when there is none of its own | not modelled |
| receipt registry (`packages/contracts/`), compilers of English text, CLI, MCP server, demo, fixtures, developer log | none that matters here | | | | not modelled |

How they interact. The web pages call the API through a proxy. `POST /api/intent`
reads the active constitution from the store, and runs the pipeline in its own
thread; the pipeline asks the graph for representations, lets the tournament
build and quote candidates through the wallet adapter, hands them to the policy
engine, simulates, executes and writes a receipt. `POST /api/decisions` and its
`replay` and `compare` are pure functions the decision desk calls. A keeper task
calls the same graph, tournament and engine without quotes. The seller is another
process: buyers call `notify_funded`, the chain says what is funded, and the work
itself is a keeper task of the API. Each hosted process stands under a chain of two
supervisors, one on Windows and one inside WSL, which PM2 starts again.

Which module stands for which side of an interaction: `SellerServer` ends where
`notify_funded` is accepted, which is where the deliveries of `SellerCore` begin;
`WebWorkspace` takes a run as one step that writes a receipt, and `ExecutionPipeline`
is that step; `ExecutionPipeline` takes the engine's answer as a choice, and
`RouteTournament` with `PolicyEngine` is that answer; `DecisionDesk` computes what the
service answers with the operators of `ExposureDecision`.

The hazards this code is exposed to are listed one by one, with the line where
each bites and the property that would catch it, in `PROJECT.json`.

## Modules

`PROJECT.json` maps every definition to the lines it translates. Operators named
`Slip...` are plausible mistakes in the operator they stand before; they are used
by no specification, and show that each property can fail.

### SellerCore, DeliveryLedger

One JavaScript process, so the code between two awaits is one action. What is
interleaved are: requests of `notify_funded` (`notify`: at the limiter, in the
pre-verification, about to spawn), sweeps (`sweep`: scanning, holding the list the
scan returned), and the deliveries of each job (`phase`, one slot for each that
can be open at once). `live` says which deliveries are still awaited by their
`runJob`; a delivery in `phase` and not in `live` is a straggler that a timeout
left behind. `inflight` is the set of the code. `chain` is the status on the commerce
contract, which moves by itself (`Fund`, `Expire`) and by a submission that lands
(`TxLands`), possibly after the process that sent it has died ("adrift").
`canSubmit` distinguishes a wallet kind for which `submit` can never succeed.
`Restart` loses everything but the chain.

| code | action |
|---|---|
| `notifyFunded` | `NotifyArrives`, then `NotifyRefused` (limiter) or `NotifyBare` / `NotifyNamed`, `PreverifyReads`, `PreverifyFails`, `NotifyRejected`, `NotifyAccepted` |
| `sweep` | `SweepScans`, `SweepFails`, `SweepSpawns` |
| `spawnJob` and the top of `runJob` | `SpawnJobs`, part of the action that calls it |
| `fulfillJob` | `VerifyPasses`, `VerifyRefuses` |
| `doWorkAndSubmit` (as overridden) | `WorkSucceeds`, `WorkFails`, `SubmitBroadcasts`, `SubmitRefused`, `SubmitUnsupported`, `TxLands`, `TxReverts`, `SubmitReturns` |
| the catch and finally of `runJob`, `withTimeout` | `Ends`, `Untrack`; `DeliveryThrows`, `DeliveryTimesOut` |

`DeliveryLedger` is the promise seen from outside: which jobs the process answers
for, which it will not take up again, what the contract received. `KeepsLedger`
says that `SellerCore` implements it, with `working` the jobs that have a live
delivery and `retired` the jobs in `inflight` without one.

### ExecutionPipeline, SwapLedger

One record `run[r]` per request holds the locals of `Pipeline.run`: point of the
handler, state of `state_machine.py`, constitution read at the start, quotes,
route, simulation. Requests share the active constitution (`Approve`), the clock
(`Tick`) and the wallet, whose `order[r]` is opened, lost or ended by actions of
its own whether or not anybody still waits. Every move of the code's state machine
goes through `Goes`, which applies the whole path of transitions of that step and
raises as `InvalidTransition` does if one is not in the table. `Raises` and `Crash`
are exceptions that nothing catches and the death of the process.

The constitution is reduced to its slippage cap, the one limit whose quantity is
used again after the evaluation; the rest of the engine together passes or asks for
confirmation, and a candidate another rule rejects is as one not quoted. What is asked of
the wallet is `AskedSlip` of the quote, as at `pipeline.py:261`: 50 bps (`DefaultSlip`)
where the quote states no slippage or zero. `run[r].slip` keeps it. `_simulate` of this commit always answers SKIP; `SimOutcomes`
is the set of its answers, so `{"SKIP"}` is the program as it stands (theorem
`NothingIsSwapped`) and the larger sets of the runs examine the steps after it,
which the code already contains.

`SwapLedger` is what a request owes the owner of the money, without the handler:
a request comes in under the constitution active then, may ask the wallet for one swap
(`Ask`) while it has its `chance`, within both slippage caps or at the default, or gives up; the wallet's order opens, ends or is lost; its
receipt is filed once, when there is no chance left, and says of the order what the
wallet says or nothing. `KeepsSwapLedger` says that `ExecutionPipeline` implements it, with
`chance` the requests that have not reached the swap and `said` read off the receipt.
`RequestsAdvance` says that the points of the handler are passed in one direction only.

### PolicyEngine, RouteTournament

`PolicyEngine` is the function `evaluate`: `Passes(rule, ...)` for every rule with
its optional limits (`None` is an absent limit; `Capped` the minimum of the ones
present), `Eligible` for all of them, `Asks` for the confirmations.
`Tightens(s, c, d)` is the order on constitutions the monotonicity theorems are about.

`RouteTournament` has an action per call: `Builds` (candidates of a discovery),
`Quotes`, `WalletAway` and `QuotesNothing` (the three ways of `quote_all`),
`Evaluates` (engine, the second judgement of staleness, score, sort, choice). The
keeper's caller skips the quotes and uses an empty portfolio. Prices appear only as
the gap to the reference in basis points and whether both are above zero (`positive`): a
stated reference of zero or less is present for the engine and yields no premium
(`Comparable`). The gap stands for the exact quotient, and the score as the linear form of
`mathx.py` with its floor of zero.

### ExposureDecision, DecisionDesk, ResearchSession

`ExposureDecision` holds `compile_request`, `analyze`, `decide`, `replay` and
`compare` as operators: `Analysable`, `Effective`, `Blockers`, `Selected`,
`Decide`, `Replays`, `WhatIf`, `Changes`. `DecisionDesk` has a variable for each
`useState` and `useRef` of the page that the properties tell apart, and `calls`, the
requests under way with what their closures captured. A user's act begins a request
(`Submits`, `Explores`, `Applies`, `Challenges`, `Restores`, `Verifies`); its
answer (`Loads`, `Decided`, `Compared`, `Hashed`, `Replayed`) or failure
(`Fails`) is a later step; `Inspects` is never disabled. Controls that are disabled while
`busy` are guards. `preceding` is a history variable: the receipt a challenge
started from.

`ResearchSession` is the page without requests, for any notion of analysis (its
`Receipt`, `Poses`, `Binds`, `Challenged` and `Changes` are operator constants): a reader
poses a question, chooses a policy, challenges it; the screen is the analysis of that
question under the policy that judges, beside a comparison with the screen it replaced.
`KeepsSession` says that the desk implements it, with the operators of
`ExposureDecision` and `baseline` as the policy the reader chose: a request is a stutter,
its answer the step. That is why an answer has to find the screen it was asked from.

### SellerServer

`proc` follows `main()` from the secrets to `app.listen`, then to the callbacks of
`close()`. `req[r]` is one request: the budget, the signer, the chain or the model it
waits for. `call[r]` is its last call of a limiter, which lives on when
`checkLimiter` gives up on it; `window` holds the charges of the last window, oldest
first. `paid` is a history: the buckets a request was charged to.

| code | action |
|---|---|
| `main()`: secrets, wallet, rails, `app.listen` | `LoadRuntimeSecrets`, `Materialize`, `Wire`, `Listen` |
| `handleCommerce` of the executor, the `SkillRouter`, the x402 route | `Arrive` with `Routed` |
| `limitCommerceOperation`, `checkLimiter`, `SlidingWindowRequestLimiter` | `Consulted`, `LimiterFails`, `LimiterTimesOut`, `Slide`, `ToCaller`, `Refused` |
| `negotiate`: `clampPrice`, the signer | `ToOperation`, `Sign` |
| `notifyFunded`, seen from its caller | `Verify` |
| the B402 seller, `generateText` with its tools and `stopWhen` | `CallsTools`, `WorkFails`, `Work` |
| the SIGTERM handler; a crash, SIGKILL or second SIGTERM | `Sigterm`, `Closed`; `Kill` |

The process's own limiter answers in the turn it is asked in, which is one of the
behaviours of an injected one, so the run with `Shared = TRUE` covers both.

### WebWorkspace

One user with one page mounted at a time (`page`, `form`), the mutations and the card
verifications under way (`call`, each with what it sent and whether its page is still
`here`), the react-query cache (`cache`, `detail`), and the tables behind the proxy
(`store`). `acked` is a history: the latest write of each table whose answer a page saw.

| code | action |
|---|---|
| `constitution/page.tsx` | `Types`, `Compile`, `Approve`; `Compiles`, `Approves` |
| `terminal/page.tsx`, `routes/page.tsx` | `Types`, `Run`, `RunTournament`, `Confirm`; `Runs` |
| `agent/page.tsx` | `Submit`, `Probe`; `Tasks` |
| `receipts/page.tsx`, `ReceiptCard.tsx` | `Select`, `Detail`, `Verify`; `Verifies` |
| `explorer/page.tsx`, `Nav.tsx` | `Explore`; `Leave` |
| `route.ts`, `public-demo.ts` | `Forwarded`, `publicDemoAllows` |
| the handlers of `main.py` and the tables | `Handled`, `SaveConstitution`, `SaveReceipt`, `SaveTask`; `Elsewhere` for other clients |
| react-query: mount, answer, failure, 10 s, focus, `invalidateQueries` | `Mounted`, `QueryRead`, `QueryShown`, `QueryFails`, `QueryAges`, `Refocus`, `Invalidated` |
| a request refused or lost, an error shown | `Refused`, `Failed` |

### HostService

`chain[i]` holds the four processes of one run: the Windows supervisor, `wsl.exe`, the
supervisor inside WSL and the service; `pm2` is what PM2 is at. Chains overlap when PM2
starts the next one before the last is gone.

| code | action |
|---|---|
| PM2: start, stop, resume, what it makes of an exit (`max_restarts`, `kill_timeout`) | `Launch`, `Stop`, `Resume`, `Notices`, `WinKilled` |
| `stop()`: on the message or a signal; at the end of the input | `WinStops`, `LinSignalled`; `LinStops` |
| its 8 s timer | `WinKills`, `LinKills` |
| `child.once("exit")`, `child.once("error")` | `WinExits`, `LinExits`, `LinStarts` |
| a crash of a process | `WinKilled`, `WslKilled`, `LinKilled`, `SvcExits` |
| `wsl.exe` and the service | `WslEnds`, `Binds`, `SvcExits` |

## Runs and bounds

| run | question | bounds, and why they are enough |
|---|---|---|
| `seller_safety` | is nothing unpaid worked on, nothing signed dropped, the ledger kept, every funded job served? | two jobs, one not signed by the agent, both kinds of wallet; one caller, one sweep, two deliveries per job, one fault. Jobs meet only in `inflight`, in the list of a sweep and in the faults, so two show their interference; a second slot holds the straggler of the one fault |
| `seller_crowd` | one delivery per job, none after submission, and no pinned process | one job, two callers and a sweep, three slots, three faults: the smallest case in which two notifications race each other and a sweep, and two stragglers stand beside a retry |
| `seller_busy`, `seller_unsupported` | two disagreements, see below | the smallest instance with the fault that matters |
| `pipeline_safety` | authorised, honest, inside the machine, one swap per request and never back, ending | one request over two routes; quotes that state no slippage, 0 and 60 bps under caps of 30 and 80 and a ceiling of 100, so that one is above a cap and the default of 50 lies between the caps; one crash, and any number of lost replies and exceptions; every setting; every answer of a simulation; the clock may pass the age limits. Requests share only `active` and `now`, which any environment step may change here; what is proved is for any number of them |
| `pipeline_default` | one disagreement, see below | one request, one route, the answer of a simulation that lets a swap happen; no clock, no faults |
| `tournament_safety` | do ceilings, premium and ages bind, is stricter safe, is the choice sound? | the default and the laxest constitution, the laxest with each rule set, and two with rules that meet in one cap; three settings, six intents, every sequence of at most two out of nine representations of two tokens, which lie on both sides of each limit, one of them with a reference that is not above zero; ages unknown or above the limit, slippages on both sides; each subset answered by the wallet |
| `tournament_premium` | one disagreement | as above |
| `desk_safety` | does what is on the screen belong together, as in a session without requests? | one run after the load, a text with and a text without limits of its own, a sample with another ticker, an admissible and an inadmissible policy besides the default; recorded, live, and ill-formed captures; comparisons without bound |
| `server_safety` | are both budgets kept, prices bounded, answers kept through a shutdown, requests and shutdowns ended? | two requests of one caller or of nobody, so that they compete for the last place of each bucket (`GlobalMax`, `CallerMax` of 1); two ports, so that one may be taken and one server may close first; a list price above its ceiling; two calls of the model, the last one without tools |
| `workspace_safety` | do the demo, the stored policies, the cache and the card hold when answers come late? | two texts with a policy each; two mutations at a time, the fewest of which one overtakes the other; two revisions, two receipts, one task; three tours, each of the pages that share a table |
| `host_safety` | does a stop free the port, and is a service left alone by its supervisors ended? | two chains: the one PM2 lost and the next; two restarts |

Bounds that are parts of the models: `Slots`, `Callers`, `Sweeps` and `MaxFaults` of the seller,
`MaxClock` and `MaxFaults` of the pipeline (it bounds crashes alone), `MaxRoutes` of the tournament, `MaxRuns` of
the desk, `Requests` of the server, `Tours`, `Slots`, `MaxRevision`, `MaxReceipts` and
`MaxTasks` of the workspace, `Chains` of the host (`StepCount` and `MaxRestarts` are
numbers of the code, eight and what PM2 is configured with, made smaller). Nothing
else is capped. A spawn of the seller needs a free slot, so a behaviour that
would open more deliveries of one job than there are slots waits; with one
fault two slots are never exhausted, with three faults the third straggler
may delay a fourth delivery. `NeverPinned` leaves out behaviours that reach the bound on faults, because there
the model would stop a timer the program does not stop; its run allows three, so two
deliveries may hang and be given up. The pipeline's `RequestsEnd` leaves nothing out: a
lost reply and an exception need no bound, because each of them is the last of its request's swap or of the request.
The theorems hold for every value of these bounds.

`TypeOK` is an invariant of two of the runs only (`seller_safety` and `workspace_safety`, where it
ties variables together); that of the other modules is part of their inductive invariant and is
proved.

Symmetry is used in two runs, both of invariants alone: `seller_busy` (the callers and the
sweeps are interchangeable; the slots are not, a `CHOOSE` picks them) and
`workspace_safety` (the slots of the mutations).

Deadlock is checked everywhere but in the tournament runs, where a tournament is
over after its evaluation, in `server_safety`, where the process ends, and in
`workspace_safety`, where the tables fill up to their bounds. In the others the
environment can always do something: a buyer notifies, the owner approves, the user
edits, PM2 starts a chain.

## Fairness

* Seller, `FairSpec`: weak fairness of the steps after each await of handlers, sweeps and
  deliveries (`Progress`). An await of an RPC, of the API or of a transaction either returns or
  throws. Faults (`DeliveryThrows`, `DeliveryTimesOut`, `Restart`) are never fair: they
  may happen, up to the bound. `BuyersPersist` is a strong fairness of the *buyer*, not of
  the code: nothing in the process calls `sweep()` on a timer, so a job whose
  delivery failed is retried only when someone notifies again. `FundedIsServed` is
  therefore conditional on it, and would be false without it.
* Seller, `TimerSpec`: nothing but `setTimeout` and code that awaits nothing is sure to run.
  Every RPC and transaction may hang for ever. `NeverPinned` holds under this alone.
* Pipeline, `FairSpec`: a request's own thread goes on, and `subprocess.run(timeout=...)`
  ends a swap that is not answered (`SwapUnanswered`). The wallet's servers and the
  clock owe nothing: `RequestsEnd` holds with a swap that is never answered and with an order
that stays open for ever.
* Desk, `Spec`: a request that is under way is answered or fails (`Answered`): the service
  waits for nothing but providers, each of them with a timeout and a bounded number of retries
  (`http_timeout_s`, `http_max_retries`), and a connection that breaks is an error. The page and
  the proxy set no timeout of their own, so a service that hangs would keep the page busy: that
  it does not is an assumption here. The user owes nothing.
* Server, `FairSpec`: a request goes on (`Proceeds`) and the callback of `close()` comes when
  its requests are gone. The code bounds what may hang: 5 s for an injected limiter, 30 s for the
  pre-verification, eight steps for the model's loop; the signer is local. That one
  call of the model ends is an assumption: nothing on the x402 rail aborts it. Arrivals, the
  window, a signal and a crash owe nothing.
* Host, `FairSpec`: only the two things the pipe lease consists of. The end of the input is
  delivered to the supervisor inside WSL (`LinStops`), and its 8 s pass (`LinKills`; the
  timer is `unref`ed, but the child keeps the process alive until it fires). The service need
  not obey SIGTERM, `wsl.exe` need not end, PM2 need not go on. That the input ends
  when `wsl.exe` or the Windows supervisor is gone is a fact about WSL the script relies on.
* The tournament and the workspace have no liveness property: one ends by itself, and of the other
  `react-query` and the browser promise nothing that a page would have to keep.

## Proofs

| module | theorem | says |
|---|---|---|
| `SellerCoreProofs` | `TypeCorrect`, `Invariance`, `AtMostOneDelivery`, `NothingDropped`, `VerifiedBeforeWork`, `SubmittedOnce` | the safety properties, for any jobs, callers, sweeps and slots |
| | `BusyWithoutFaults`, `NeverSkipped` | how far the comments hold that `seller_busy` and `seller_unsupported` refute: busy until the first fault; skipped never |
| | `LedgerKept` | `Spec => Ledger!Spec`: the refinement |
| `ExecutionPipelineProofs` | `TypeCorrect`, `Invariance`, `SwapsAreAuthorized`, `PathsAreLegal`, `SimulationIsAGate`, `ReceiptsAreHonest`, `OrdersAreNamed` | the safety properties, for any requests, routes, caps and answers of a simulation |
| | `SwapLedgerKept` | `Spec => KeepsSwapLedger`: the refinement of `SwapLedger`, in which a swap is asked for within both caps or with the default of 50 bps, to which no cap is applied |
| | `NothingIsRetried` | `RequestsAdvance`: no point of the handler is gone back to, a finished request and its receipt do not change |
| | `NothingIsSwapped` | with `SimOutcomes = {"SKIP"}`, the program as it stands, no order exists and every receipt is a refusal |
| `RouteTournamentProofs` | `CeilingsBind`, `StricterAdmitsLess`, `StricterAsksMore` | about the engine, for any numbers: system ceilings, and monotonicity in the constitution |
| | `SmallerIsAdmitted` | monotonicity in the amount and the portfolio: less money, or more room, is admitted too and asks for no further confirmation |
| | `TypeCorrect`, `Invariance`, `CeilingsHold`, `TighteningHolds`, `VerdictsHold`, `QuotedHolds` | the same of whole tournaments |
| | `PremiumHolds` | with its own price stated and a reference above zero, what survives costs no more over its reference than any cap: what `tournament_premium` refutes is left only where a price is missing or a reference is stated as zero or below |
| | `ChoiceHolds` | a route is chosen whenever one survives, and none is better; for any number of candidates |
| `DecisionDeskProofs` | `StricterBlocksMore`, `StricterShortlist`, `StricterWhatIf` | monotonicity of the rules, of the shortlist and of a what-if in the policy, for any snapshot |
| | `SessionKept` | `Spec => KeepsSession`: the refinement of `ResearchSession` |
| | `TypeCorrect`, `Invariance`, `ReceiptReplaysHolds`, `LimitsPersistHolds`, `OneRequestHolds`, `RestoreReturnsHolds`, `ComparisonHolds`, `StricterHolds` | the page, for any texts, policies, captures and number of runs |
| `SellerServerProofs` | `TypeCorrect`, `Invariance`, `BudgetsHold`, `QuotesAreBounded`, `ExitsAreOrderly` | the server, for any requests, callers, ports, budgets and prices |
| | `RequestsGoOn` | a measure of what a request has before it falls with every step that concerns it |
| `WebWorkspaceProofs` | `TypeCorrect`, `Invariance`, `DemoWritesNothing`, `PoliciesHaveTheirText`, `WritesAreRead`, `VerdictsAreOfTheCard` | the pages, for any texts, tours and number of mutations under way |
| `HostServiceProofs` | `Invariance`, `PortIsFreed` | the chains, for any number of them |

Assumptions are the named `ASSUME`s of the modules: which constants are sets of
what, and that limits are natural numbers.

**Seller.** None of the four properties is inductive alone. `IInv` adds: a delivery that
is awaited is running (`LiveIsRunning`), a delivery that saw its receipt
belongs to a submitted job (`MinedIsSubmitted`), a verdict "ok" in a
handler's hand still says that the job is signed and was funded (`VerdictHolds`;
statuses never return to "open", which is why using it after the await is safe), and
without faults every running delivery is awaited and a submitted job is in
`inflight` (`NoStraggler`; this is the fact that keeps a sweep with an old list from
spawning). The refinement uses `IInv` of the state before the step.
`BusyWithoutFaults` is `NoStraggler` read from outside. `NeverSkipped` needs one invariant of its
own, `Unsent`: a wallet that cannot submit has no submission anywhere.

**Pipeline.** `IInv` says, request by request, what each point of the handler implies:
the state of the machine (`InPlace`), that the route was eligible under the request's own
cap and its need of confirmation was computed from it (`Choice`), what is known of the
order (`OrderKnown`), what the outcome says (`Outcome`), and that the row in the table is
that outcome (`Written`). A step of one request leaves the others' conjuncts alone, since
the constitution it read is its own copy; that is the argument for "any
number of requests".

Refinement of the ledger: only `Swaps` takes an `Ask`, and `MaySwap` with `Choice` says that
the route's quote was admitted under the request's own cap. `AskedTyped` turns that into what is
asked: a slippage that is stated and not zero is asked for as it is, so it is within both caps; any
other becomes `DefaultSlip`, of which nothing is known but its value. That exception cannot be
removed, as `pipeline_default` shows. `TypeCorrect` follows from `Invariance`, because the slippage asked
for has a type only where the quote was judged. Everything that ends a request before the swap is a
`GiveUp`, and a crash, which ends several, gives all of them up at once. That a receipt is honest
when filed is `Outcome` and `OrderKnown` of the step before. `NothingIsRetried` numbers the points
of the handler (`Place`); within the quotes it is the set of candidates asked that grows.

**Tournament.** The rules are proved one at a time; the minimum of optional caps is the
lemma everything rests on. A tournament's `IInv` says that before the
evaluation a candidate the pipeline still holds eligible was quoted, and that after it
every status is the engine's verdict. The choice is a `CHOOSE`, so its theorem needs that a best
survivor exists: what a score lacks of its maximum is a natural number, the natural numbers
are well-ordered (`NatLessThanWellFounded` of the library), and among the survivors
that lack least the one with the least position is best. No induction over the list is needed.
`PremiumHolds` rests on `PremiumIsGap`: a candidate's premium is the gap of its prices wherever
both are stated and the reference is above zero (`Comparable`), on its own reference or on a peer's.

**Desk.** `IInv` says that the receipt shown is one that `decide` or `compare` made
(`Genuine`), that one request at most is under way and its closure holds what the
screen shows (`Alone`, `InFlight`), and that during a challenge the baseline is the policy
the challenge started from (`ChallengeKnown`). `SInv`, proved on top of it, is about what stands
beside the receipt: while the first load is under way there is neither a comparison
nor an open route, and the tokens of a receipt's routes are those of its snapshot
whatever its policy, which is why an open route survives a comparison. The
shortlist's head exists by the same well-ordering, over prices and then addresses.

Refinement of the session: `CInv` adds that the policy of the receipt shown is the baseline, or the
baseline challenged while the challenge is active (`Chosen`), and that a comparison under way
asks for what its kind says (`Meant`): the baseline challenged, the baseline, or a policy the
form applied. The answer is then `Research`, `Challenge` or `Choose`, and every other step
stutters. A policy that runs is one the intent leaves as it is (`Binds`), because the limits of the
text have been taken into it before the receipt is made.

**Server.** `IInv` says what each place of a request implies: at a budget, its call is about that
budget and a "yes" was charged; past the budgets, everything it owes was paid
(`Metered`); at the signer its price came from `clampPrice` (`Priced`); while open, its
server has not closed, and only a kill cuts it off (`Placed`). A late answer changes a call
nobody reads, which is the step the invariant is there for. `Windows` is
inductive because sliding only removes charges. `RequestsGoOn` is the safety half of `RequestsEnd`:
the measure `Ahead` weighs the budget, the operation, the calls left to the model and a limiter's
answer still out; what TLC adds is that under the fairness above the next step comes.

**Workspace.** `IInv` says that a draft was compiled from the text beside it, which is
what the lock on the input is for (`FormOK`); that each mutation under way belongs to
what it was sent from, and only while its page is there may it touch the form (`CallOK`);
that each cached answer is as new as its key claims (`Current`); and that in the demo the
tables stay empty, because no write is forwarded.

**Host.** A running service has its supervisor, unless that one was killed (`Supervised`), and
`wsl.exe` does not end before the supervisor it ran (`Waited`).

**Only model-checked.** Liveness under fairness (`FundedIsServed`, `NeverPinned`, the two
`RequestsEnd`, `BusyEnds`, `ShutdownCompletes`, `NoOrphan`) is beyond the prover. Every other
property a passing run checks is also a theorem. The four properties of the runs that end with a
counterexample are false of the code and have none.

## Disagreements with the documentation

Each of these is a run that TLC ends with a counterexample; `PROJECT.json` quotes the lines.

* `seller_busy`: after a timeout `isBusy()` is false while the delivery it forgot goes on.
* `seller_unsupported`: the override in `executor.ts` does not catch
  `SubmitPermanentlyUnsupportedError`; the job is paid for again on every retry.
* `tournament_premium`: an unknown premium is judged by no cap, and the route survives. It is
  unknown where the token's own price is not stated, where the constitution waives the
  reference price, and where a reference is stated as zero (falsy at
  `api/services/tournament.py:55`) or below (a `ValueError` swallowed at `:58`), which still counts as a
  reference at `api/policy/engine.py:282`.
* `pipeline_default`: `api/services/pipeline.py:261` asks for 50 bps wherever the quote's slippage is
  unknown or zero, after the caps were applied, also where the constitution allows 30. It waits
  for a `_simulate` that can pass; the program as it stands swaps nothing (`NothingIsSwapped`).

These were met while modelling and have no run of their own, for the reason given.

* No code reads `max_quote_age_s`, so a quote could be swapped at any age, while `SECURITY.md:38-39`
  requires a "fresh quote (<30 s)" and `docs/project-overview-pdr.md:54` says "A route without
  fresh quote + simulation cannot execute". It too waits for a `_simulate` that can pass; and the
  model keeps no age of a quote, because no code does.
* A run started during a liquidity challenge sends the form, into which the answer of the challenge put
  its floor (`web/app/page.tsx:142`, `:106`), and makes that policy the new baseline. No
  document speaks of later runs, so this is a behaviour to know of and no disagreement: `Runs` and
  `ShowsRun` model it, and `KeepsSession` takes it as a question posed under the form's policy.
* `agent/unifiedMain.ts:455-456` and `:583-585` say that the primary port "must bind (fatal)".
  Under Express 5 the callback of `app.listen` also receives the error of `listen`, and this one logs
  "serving" whatever it is called with: with another port bound, the process goes on. `Listen`
  models what happens; no property would catch it: `ShutdownCompletes` shows only that such a process
  still shuts down.
* `agent/signing.ts:179` keeps the first negotiation handler while the price bounds are read from
  `studio.toml` each time: a currency changed in the file reaches the clamp and not
  the handler. The configuration of a process is fixed in the model.
* `web/app/terminal/page.tsx:129` confirms the text the input holds then, not the one that awaits
  confirmation, and Enter starts a run while another is pending (`Confirm`, `Run`).
  The page itself says that the flag authorises nothing.
* `invalidateQueries` does not restart the first request of a key, nor one of a page that was left;
  its answer may be older than the write and counts as fresh for 10 s. `ReadsItsWrites`
  exempts exactly those (`late`).
* `scripts/host-service.mjs:70`: `wsl.exe` is given the same 8 s as the service behind it, so the
  outer timer may fire first and PM2 may start a chain while the inner one is still stopping;
  the new service then finds its port taken and ends. `OrderlyStopFreesPort` is about
  the stops in which that does not happen.

## Abstractions

* SHA-256 over canonical JSON is taken to be injective, and the browser's canonical
  JSON to agree with the service's (floating-point numbers of live provider data included);
  a hash is then the body itself.
* Parsing (English intents, constitutions, numbers) is represented by its results.
  `Intent` records carry what the parser found. One text may set several limits: the
  sentence "maximum 30 bps slippage" sets the premium limit too (`api/services/intent.py:114`).
* The load of the desk happens once: an effect that is aborted leaves nothing behind. A
  run's answer is compared with `requestVersion` as in the code, though disabled
  controls already keep the versions equal.
* Snapshots and discoveries are the sets a capture or the graph may return, ill-formed ones
  included.
* In the seller's core the work is a success or a failure. What an accepted notification starts is not
  part of `SellerServer`, and a connection kept alive after `close()` that sends another
  request is taken to be closed with its server.
* In the workspace a policy is its hash, with the text it was compiled from. What is typed on the route
  inspector and the agent page is sent as it is and told apart by nothing. The
  explorer is its selection, because its queries are never written. The queries no page writes
  follow the rules of the two that are. The probe of the paid task always answers an
  error, 402 or 501. Clearing the input of the terminal is not told from its start.
  Other clients write receipts and tasks in the tours that have a page for them.
* `HostService` is one role; each role has a chain of its own, and they share nothing.

## Not modelled

* **Equity graph and providers.** Concurrent reads of public services behind a TTL cache, whose only
  state is the cache. What they return is an input of `RouteTournament` and
  `ExposureDecision`, which take every discovery, so no property here rests on them. The hazard
  of the cache (an older answer that replaces a newer one) is listed in `PROJECT.json` as
  not covered.
* **The status of a task row and the transitions table.** Written and listed, never decided on; a row
  that stays QUEUED after a crash is listed as a hazard without a property.
* **The receipt registry contract.** Two guards and an assignment that no code of the repository calls.
* **The compilers of English text.** Regular expressions: pure functions over strings.
* **What the model's tools read, the agent card, the CLI, the MCP server, the demo, fixtures, the
  developer log.** Data, wording, or another entrance to services that are modelled.
* **Envelopes and streaming of the A2A and HTTP carriers; layout, tables and charts of the pages; the
  tunnel.** They hold no state the properties could be about.

## How it was built up

The seller's core came first, as the part where money and concurrency meet, then the pipeline,
the tournament, the desk, and around them the server, the workspace and the host. Each module was
checked by TLC before anything about it was proved, and its inductive invariant too. Of the
hazards in `PROJECT.json` five have no property; they are the places to go on from,
together with an abstract specification of discovery that `graph.py` would implement.
