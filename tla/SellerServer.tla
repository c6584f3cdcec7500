----------------------------- MODULE SellerServer -----------------------------
(***************************************************************************)
(* The process around the seller's core: how main() of unifiedMain.ts      *)
(* comes up, what a request goes through on each carrier (executor.ts, the *)
(* SkillRouter and the x402 route), the two budgets it is charged to       *)
(* (requestLimits.ts), how a quote is priced and signed (signing.ts), the  *)
(* loop of the language model behind the x402 rail (model.ts, tools.ts),   *)
(* and how the process goes down.                                          *)
(*                                                                         *)
(* What an accepted notification starts in the background is the subject   *)
(* of SellerCore.                                                          *)
(***************************************************************************)
EXTENDS Naturals, Sequences, FiniteSets

CONSTANTS
  Requests,   \* the requests that may arrive (bound)
  Callers,    \* identities the operator's edge may put in the trusted header
  Nobody,     \* no trusted identity; also: no price bound, no quote
  Ports,      \* the ports to bind
  GlobalMax,  \* requests of a kind in a window
  CallerMax,  \* requests of a kind and a caller in a window
  StepCount,  \* calls of the language model for one request
  Configs,    \* contents of [payments.erc8183]: price, min_price, max_price
  Shared      \* the operator injected limiters that are not of this process

ASSUME BudgetAssumption == GlobalMax \in Nat /\ CallerMax \in Nat /\ Shared \in BOOLEAN
ASSUME StepsAssumption  == StepCount \in Nat \ {0}
ASSUME PortsAssumption  == IsFiniteSet(Ports) /\ IsFiniteSet(Requests)
ASSUME ConfigAssumption ==
  \A c \in Configs : /\ c.price \in Nat
                     /\ c.min \in Nat /\ c.max \in Nat \cup {Nobody}

Skills   == {"negotiate", "notify_funded"}
Carriers == {"a2a", "text", "x402"}
\* What a request asks for: a skill, a task to cancel, or neither.
Asks     == Skills \cup {"cancel", "prose"}

(***************************************************************************)
(* Where a request is: charged to the process's budget, then to the        *)
(* caller's, then at the signer ("sign"), at the chain ("verify") or in    *)
(* the paid work of the x402 rail ("work"). A request the process left     *)
(* unanswered is "cut".                                                    *)
(***************************************************************************)
Places  == {"away", "global", "caller", "sign", "verify", "work", "done", "cut"}
Open    == {"global", "caller", "sign", "verify", "work"}
Answers == {"none", "quote", "accepted", "rejected", "retry", "fault", "unknown", "served"}

VARIABLES
  proc,     \* what main() is at, or how the process ended
  rail,     \* [payments.erc8183] was there at boot
  x402,     \* the state of the B402 seller is not "disabled"
  bound,    \* ports that listen
  closing,  \* servers whose close() has not called back
  req,      \* the requests
  call,     \* the last call of each request to a limiter, and its answer
  window,   \* the charges of the last SELLER_RATE_LIMIT_WINDOW_SECONDS, oldest first
  config    \* studio.toml

limits == <<call, window>>
setup  == <<rail, x402, bound, config>>
vars   == <<proc, setup, closing, req, limits>>

\* "paid" is a history: the buckets an open request was charged to.
NoRequest == [at |-> "away", port |-> Nobody, ask |-> "prose", caller |-> Nobody,
              paid |-> {}, answer |-> "none", price |-> Nobody, steps |-> 0]
NoCall    == [key |-> Nobody, says |-> "nothing"]

\* A bucket of the process for each operation, and one for each caller of it.
GlobalKeys == {<<s>> : s \in Skills}
CallerKeys == Skills \X Callers
Keys       == GlobalKeys \cup CallerKeys

-----------------------------------------------------------------------------
(* Boot: every step may throw, and main().catch ends the process.          *)

Init ==
  /\ proc = "secrets"
  /\ rail = FALSE /\ x402 = FALSE
  /\ bound = {} /\ closing = {}
  /\ req = [r \in Requests |-> NoRequest]
  /\ call = [r \in Requests |-> NoCall]
  /\ window = <<>>
  /\ config \in Configs

Boots(from, to) ==
  /\ proc = from
  /\ proc' \in {to, "failed"}
  /\ UNCHANGED <<config, closing, req, limits>>

\* The bundle of the secrets manager replaces the environment.
LoadRuntimeSecrets == Boots("secrets", "wallet") /\ UNCHANGED <<rail, x402, bound>>

\* The wallet material is written to disk.
Materialize == Boots("wallet", "wire") /\ UNCHANGED <<rail, x402, bound>>

\* studio.toml decides on the rails; getWallet and B402Seller.create may throw.
Wire == Boots("wire", "listen") /\ rail' \in BOOLEAN /\ x402' \in BOOLEAN /\ UNCHANGED bound

\* Any port may be taken, the primary one too: Express 5 hands the error of listen to
\* the callback, which ignores it. A process that listens nowhere has nothing to wait for.
Listen ==
  /\ proc = "listen"
  /\ bound' \in SUBSET Ports
  /\ proc' = IF bound' = {} THEN "failed" ELSE "serving"
  /\ UNCHANGED <<rail, x402, config, closing, req, limits>>

-----------------------------------------------------------------------------
(* A request: the carrier finds the skill, the skill is charged for.       *)

Up == proc \in {"serving", "closing"}

At(r, place) == req' = [req EXCEPT ![r].at = place]
\* The answer leaves, and the connection is free.
Reply(r, answer) ==
  req' = [req EXCEPT ![r] = [NoRequest EXCEPT !.at = "done", !.answer = answer,
                                              !.price = req[r].price]]

\* limitCommerceOperation asks the bucket of the operation first.
GlobalKey(ask)         == <<ask>>
CallerKey(ask, caller) == <<ask, caller>>
Consults(r, key) == call' = [call EXCEPT ![r] = [key |-> key, says |-> "asked"]]
Settles(r)       == call' = [call EXCEPT ![r] = NoCall]

(***************************************************************************)
(* What the carrier does with a request before the first await: x402 work  *)
(* goes to the B402 seller, a cancellation and a request without a skill   *)
(* are answered at once, and so is a skill whose rail is not configured:   *)
(* as a JSON-RPC error on "a2a", as an {"error": ...} on a text carrier.   *)
(***************************************************************************)
Routed(carrier, ask) ==
  IF carrier = "x402" THEN (IF x402 THEN [at |-> "work", answer |-> "none"]
                                    ELSE [at |-> "done", answer |-> "unknown"])
  ELSE IF ask \notin Skills THEN [at |-> "done", answer |-> "unknown"]
  ELSE IF ~rail THEN [at |-> "done", answer |-> "fault"]
  ELSE [at |-> "global", answer |-> "none"]

Arrive(r, port, carrier, ask, caller) ==
  /\ proc = "serving" /\ port \in bound /\ req[r].at = "away"
  /\ LET to == Routed(carrier, ask) IN
       /\ req' = [req EXCEPT ![r] =
                   IF to.at = "done" THEN [@ EXCEPT !.at = "done", !.answer = to.answer]
                   ELSE [@ EXCEPT !.at = to.at, !.port = port, !.ask = ask,
                                  !.caller = IF to.at = "global" THEN caller ELSE Nobody]]
       /\ IF to.at = "global" THEN Consults(r, GlobalKey(ask)) ELSE UNCHANGED call
  /\ UNCHANGED <<proc, setup, closing, window>>

\* A sliding window admits as many charges as its maximum.
Max(key)   == IF key \in GlobalKeys THEN GlobalMax ELSE CallerMax
Live(key)  == {i \in DOMAIN window : window[i] = key}
Room(key)  == Cardinality(Live(key)) < Max(key)

\* The limiter admits the call, charging it, or refuses it.
Consulted(r) ==
  /\ Up /\ call[r].says = "asked"
  /\ LET key == call[r].key IN
       IF Room(key)
       THEN /\ call' = [call EXCEPT ![r].says = "yes"]
            /\ window' = Append(window, key)
            /\ req' = IF req[r].at \in Open THEN [req EXCEPT ![r].paid = @ \cup {key}]
                                            ELSE req
       ELSE /\ call' = [call EXCEPT ![r].says = "no"]
            /\ UNCHANGED <<window, req>>
  /\ UNCHANGED <<proc, setup, closing>>

\* An injected limiter that fails in its own way.
LimiterFails(r) ==
  /\ Up /\ Shared /\ call[r].says = "asked"
  /\ call' = [call EXCEPT ![r].says = "broken"]
  /\ UNCHANGED <<proc, setup, closing, req, window>>

\* The oldest charge leaves the window.
Slide ==
  /\ Up /\ window # <<>>
  /\ window' = Tail(window)
  /\ UNCHANGED <<proc, setup, closing, req, call>>

\* Slip: nobody waits for the caller's bucket.
SlipCallerUnheard(r) == Up /\ req[r].at = "global"

Waits(r) == Up /\ req[r].at \in {"global", "caller"}

\* checkLimiter gives an injected limiter 5 s; what it decides later reaches nobody.
LimiterTimesOut(r) ==
  /\ Waits(r) /\ Shared
  /\ Reply(r, "retry")
  /\ IF call[r].says = "asked" THEN UNCHANGED call ELSE Settles(r)
  /\ UNCHANGED <<proc, setup, closing, window>>

\* Slip: no ceiling.
SlipFloorOnly(price, lo, hi) == IF price > lo THEN price ELSE lo

\* The price asked for, inside the bounds: the lower one wins where they cross.
Clamp(price, lo, hi) ==
  LET capped == IF hi = Nobody \/ price < hi THEN price ELSE hi
  IN IF capped > lo THEN capped ELSE lo

ClampedPrice == Clamp(config.price, config.min, config.max)

(***************************************************************************)
(* Admitted: on to the caller's own budget, if there is a caller, or to    *)
(* the operation. A quote is priced here, in the turn that asks the signer *)
(* for it; a configuration that does not parse, or names no contract, is   *)
(* thrown.                                                                 *)
(***************************************************************************)
HasCaller(r) == req[r].caller # Nobody

\* Slip: the process's budget is enough.
SlipGlobalIsEnough(r) == TRUE

\* There is no further budget to ask.
Cleared(r) == req[r].at = "global" => ~HasCaller(r)

ToCaller(r) ==
  /\ Waits(r) /\ call[r].says = "yes"
  /\ ~Cleared(r)
  /\ At(r, "caller") /\ Consults(r, CallerKey(req[r].ask, req[r].caller))
  /\ UNCHANGED <<proc, setup, closing, window>>

ToOperation(r) ==
  /\ Waits(r) /\ call[r].says = "yes"
  /\ Cleared(r)
  /\ \/ /\ req[r].ask = "negotiate"
        /\ req' = [req EXCEPT ![r].at = "sign", ![r].price = ClampedPrice]
     \/ req[r].ask = "negotiate" /\ Reply(r, "fault")
     \/ req[r].ask = "notify_funded" /\ At(r, "verify")
  /\ Settles(r)
  /\ UNCHANGED <<proc, setup, closing, window>>

\* Refused is a business answer, a broken limiter a fault.
Refused(r) ==
  /\ Waits(r) /\ call[r].says \in {"no", "broken"}
  /\ Reply(r, IF call[r].says = "no" THEN "retry" ELSE "fault")
  /\ Settles(r)
  /\ UNCHANGED <<proc, setup, closing, window>>

-----------------------------------------------------------------------------
(* The operations.                                                         *)

\* The signer accepts the request and signs, or rejects it, or throws; an
\* accepted quote without a signature is thrown as well.
Sign(r) ==
  /\ Up /\ req[r].at = "sign"
  /\ \E answer \in {"quote", "rejected", "fault"} : Reply(r, answer)
  /\ UNCHANGED <<proc, setup, closing, limits>>

\* notifyFunded: the job id does not parse or the job is refused for good;
\* otherwise, also when the pre-verification fails or takes 30 s, it is accepted.
Verify(r) ==
  /\ Up /\ req[r].at = "verify"
  /\ \E answer \in {"accepted", "rejected"} : Reply(r, answer)
  /\ UNCHANGED <<proc, setup, closing, limits>>

(***************************************************************************)
(* The B402 seller settles and runs the language model, which is built on  *)
(* first use. Each of its calls may ask for tools, which only read; what   *)
(* they answer, or that they failed, goes into the next call.              *)
(***************************************************************************)
AtWork(r) == Up /\ req[r].at = "work"

CallsTools(r) ==
  /\ AtWork(r) /\ req[r].steps + 1 < StepCount
  /\ req' = [req EXCEPT ![r].steps = @ + 1]
  /\ UNCHANGED <<proc, setup, closing, limits>>

\* The settlement fails, the model cannot be built, credits cannot be bought before a
\* call, or the call fails.
WorkFails(r) ==
  /\ AtWork(r) /\ Reply(r, "fault")
  /\ UNCHANGED <<proc, setup, closing, limits>>

\* The model is done, or has had its last call.
Work(r) ==
  /\ AtWork(r) /\ Reply(r, "served")
  /\ UNCHANGED <<proc, setup, closing, limits>>

-----------------------------------------------------------------------------
(* The end.                                                                *)

OpenRequests == {r \in Requests : req[r].at \in Open}

\* The process is gone, and with it what is open and what it counted.
Ends(how) ==
  /\ proc' = how
  /\ req' = [r \in Requests |-> IF r \in OpenRequests THEN [NoRequest EXCEPT !.at = "cut"]
                                                      ELSE req[r]]
  /\ call' = [r \in Requests |-> NoCall] /\ window' = <<>>

\* Every server is closed.
Sigterm ==
  /\ proc = "serving"
  /\ proc' = "closing" /\ closing' = Ports
  /\ UNCHANGED <<setup, req, limits>>

\* Slip: off by one server.
SlipExitsEarly(left) == Cardinality(left) <= 1

\* The last callback exits.
Exits(left) == left = {}

\* Slip: a server that never listened is waited for.
SlipUnboundNeverCloses(port) ==
  /\ proc = "closing" /\ port \in closing \cap bound
  /\ \A r \in OpenRequests : req[r].port # port
  /\ closing' = closing \ {port}
  /\ IF Exits(closing') THEN Ends("exited") ELSE UNCHANGED <<proc, req, call, window>>
  /\ UNCHANGED setup

\* close() calls back once the server holds no request.
Closed(port) ==
  /\ proc = "closing" /\ port \in closing
  /\ \A r \in OpenRequests : req[r].port # port
  /\ closing' = closing \ {port}
  /\ IF Exits(closing') THEN Ends("exited") ELSE UNCHANGED <<proc, req, call, window>>
  /\ UNCHANGED setup

\* A crash, a SIGKILL, or a second SIGTERM: the handler was for one.
Kill ==
  /\ proc \notin {"exited", "failed", "killed"}
  /\ Ends("killed")
  /\ UNCHANGED <<setup, closing>>

-----------------------------------------------------------------------------

Boot == LoadRuntimeSecrets \/ Materialize \/ Wire \/ Listen

\* A request goes on: its limiter, or the 5 s timer, or what it waits for.
Proceeds(r) ==
  \/ Consulted(r) \/ ToCaller(r) \/ ToOperation(r) \/ Refused(r) \/ LimiterTimesOut(r)
  \/ Sign(r) \/ Verify(r) \/ CallsTools(r) \/ WorkFails(r) \/ Work(r)

Next ==
  \/ Boot
  \/ \E r \in Requests :
       \/ \E p \in Ports, c \in Carriers, a \in Asks, id \in Callers \cup {Nobody} :
            Arrive(r, p, c, a, id)
       \/ Proceeds(r)
       \/ LimiterFails(r)
  \/ Slide
  \/ Sigterm
  \/ \E p \in Ports : Closed(p)
  \/ Kill

Spec == Init /\ [][Next]_vars

(***************************************************************************)
(* What the code has a bound for goes on: an injected limiter is given     *)
(* 5 s, the pre-verification 30 s; the signer is local, and a limiter of   *)
(* this process answers at once. That a call of the language model ends is *)
(* an assumption: nothing on the x402 rail aborts it. The callbacks of     *)
(* close() come when the requests are gone.                                *)
(***************************************************************************)
Fairness == /\ \A r \in Requests : WF_vars(Proceeds(r))
            /\ \A p \in Ports : WF_vars(Closed(p))
FairSpec == Spec /\ Fairness
-----------------------------------------------------------------------------
(* Properties.                                                             *)

\* Types of the variables.
TypeOK ==
  /\ proc \in {"secrets", "wallet", "wire", "listen", "serving", "closing",
              "exited", "failed", "killed"}
  /\ rail \in BOOLEAN /\ x402 \in BOOLEAN
  /\ bound \subseteq Ports /\ closing \subseteq Ports
  /\ req \in [Requests -> [at : Places, port : Ports \cup {Nobody}, ask : Asks,
                           caller : Callers \cup {Nobody}, paid : SUBSET Keys,
                           answer : Answers, price : Nat \cup {Nobody}, steps : Nat]]
  /\ call \in [Requests -> [key : Keys \cup {Nobody},
                            says : {"nothing", "asked", "yes", "no", "broken"}]]
  /\ window \in Seq(Keys)
  /\ config \in Configs

\* The buckets an operation is charged to: the process's and, when the edge
\* names a caller, the caller's.
Owes(r) == {GlobalKey(req[r].ask)}
             \cup (IF HasCaller(r) THEN {CallerKey(req[r].ask, req[r].caller)} ELSE {})

\* No window holds more charges than its bucket allows, and nothing is
\* verified, signed or delivered that was not charged to every bucket it owes,
\* whatever an injected limiter decides late (limitCommerceOperation).
WorkIsMetered ==
  /\ \A key \in Keys : Cardinality(Live(key)) <= Max(key)
  /\ \A r \in Requests : req[r].at \in {"sign", "verify"} => Owes(r) \subseteq req[r].paid

\* A quote is signed at a price inside the bounds of studio.toml, whatever the
\* list price, unless the bounds cross (clampPrice).
SignedWithinBounds ==
  config.max = Nobody \/ config.min <= config.max =>
    \A r \in Requests : req[r].answer = "quote" =>
      /\ req[r].price >= config.min
      /\ config.max # Nobody => req[r].price <= config.max

\* An orderly exit leaves no request unanswered, on whichever port it came
\* (the SIGTERM handler of main).
ExitLosesNoAnswer == proc = "exited" => \A r \in Requests : req[r].at # "cut"

\* Every request is answered, or its process is killed.
RequestsEnd == \A r \in Requests : req[r].at \in Open ~> req[r].at \in {"done", "cut"}

\* A SIGTERM ends the process, also when a secondary port was never bound.
ShutdownCompletes == proc = "closing" ~> proc \in {"exited", "killed"}
===============================================================================
