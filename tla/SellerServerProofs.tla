-------------------------- MODULE SellerServerProofs --------------------------
(***************************************************************************)
(* What TLAPS proves of the seller's server for any requests, callers,     *)
(* ports, budgets and price bounds: the budgets hold and are not bypassed, *)
(* quotes stay inside their bounds, and an orderly exit cuts nobody off.   *)
(***************************************************************************)
EXTENDS SellerServer, FiniteSetTheorems, SequenceTheorems, TLAPS

Request == [at : Places, port : Ports \cup {Nobody}, ask : Asks,
            caller : Callers \cup {Nobody}, paid : SUBSET Keys,
            answer : Answers, price : Nat \cup {Nobody}, steps : Nat]
Call    == [key : Keys \cup {Nobody},
            says : {"nothing", "asked", "yes", "no", "broken"}]
Procs   == {"secrets", "wallet", "wire", "listen", "serving", "closing",
            "exited", "failed", "killed"}

\* The call of a request that waits is about the bucket it waits for, and a yes
\* was charged; past the limiters everything owed is paid.
Metered(q, c) ==
  /\ c.says = "asked" => c.key \in Keys
  /\ q.at = "global" => q.ask \in Skills /\ c.key = GlobalKey(q.ask)
  /\ q.at = "caller" => /\ q.ask \in Skills /\ q.caller \in Callers
                        /\ c.key = CallerKey(q.ask, q.caller)
                        /\ GlobalKey(q.ask) \in q.paid
  /\ q.at \in {"global", "caller"} /\ c.says = "yes" => c.key \in q.paid
  /\ q.at \in {"sign", "verify"} =>
       /\ GlobalKey(q.ask) \in q.paid
       /\ q.caller # Nobody => CallerKey(q.ask, q.caller) \in q.paid

\* What is signed was priced by clampPrice.
Priced(q) == q.at = "sign" \/ q.answer = "quote" => q.price = ClampedPrice

\* An open request holds its server open, and only a kill cuts requests off.
Placed(q) ==
  /\ q.at \in Open => q.port \in Ports /\ (proc = "closing" => q.port \in closing)
  /\ q.at = "cut" => proc = "killed"

Windows == \A key \in Keys : Cardinality(Live(key)) <= Max(key)

Requested(q, c) == Metered(q, c) /\ Priced(q) /\ Placed(q)

IInv == TypeOK /\ Windows /\ \A r \in Requests : Requested(req[r], call[r])

-----------------------------------------------------------------------------
\* Buckets and prices

\* The keys of the two buckets are keys.
LEMMA KeysAreKeys ==
  ASSUME NEW ask \in Skills
  PROVE  GlobalKey(ask) \in Keys /\ \A c \in Callers : CallerKey(ask, c) \in Keys
  BY DEF GlobalKey, CallerKey, Keys, GlobalKeys, CallerKeys

\* A bucket's maximum is a number.
LEMMA MaxIsNat == \A key \in Keys : Max(key) \in Nat
  BY BudgetAssumption DEF Max

\* The charges of a bucket in a window are finitely many.
LEMMA LiveIsFinite ==
  ASSUME NEW key, window \in Seq(Keys)
  PROVE  IsFiniteSet(Live(key)) /\ Cardinality(Live(key)) \in Nat
<1>1. Live(key) \subseteq 1..Len(window) /\ IsFiniteSet(1..Len(window))
  BY FS_Interval DEF Live
<1> QED BY <1>1, FS_Subset, FS_CardinalityType

\* A charge adds one to its bucket and nothing to the others.
LEMMA ChargeCounts ==
  ASSUME window \in Seq(Keys), NEW charged \in Keys, NEW key \in Keys,
         window' = Append(window, charged)
  PROVE  Cardinality(Live(key)') = Cardinality(Live(key)) + (IF key = charged THEN 1 ELSE 0)
<1>1. CASE key = charged
  <2>1. Live(key)' = Live(key) \cup {Len(window) + 1} /\ Len(window) + 1 \notin Live(key)
    BY <1>1 DEF Live
  <2> QED BY <1>1, <2>1, LiveIsFinite, FS_AddElement
<1>2. CASE key # charged
  <2>1. Live(key)' = Live(key)
    BY <1>2 DEF Live
  <2> QED BY <1>2, <2>1, LiveIsFinite
<1> QED BY <1>1, <1>2

\* A window that slides holds no more charges of any bucket.
LEMMA SlideCounts ==
  ASSUME window \in Seq(Keys), window # <<>>, NEW key \in Keys, window' = Tail(window)
  PROVE  Cardinality(Live(key)') \in Nat /\ Cardinality(Live(key)') <= Cardinality(Live(key))
<1> DEFINE S == Live(key)
           T == Live(key)'
           f == [i \in T |-> i + 1]
<1>1. f \in [T -> S] /\ \A i, j \in T : f[i] = f[j] => i = j
  BY DEF Live
<1>2. IsFiniteSet(S)
  BY LiveIsFinite
<1>3. f \in Injection(T, S)
  BY <1>1 DEF Injection, IsInjective
<1> HIDE DEF S, T, f
<1>4. Cardinality(T) \in Nat /\ Cardinality(T) <= Cardinality(S)
  BY <1>2, <1>3, FS_Injection, FS_CardinalityType
<1> QED BY <1>4 DEF S, T

\* The price asked for is a number, inside the bounds if they do not cross.
LEMMA ClampInBounds ==
  ASSUME NEW p \in Nat, NEW lo \in Nat, NEW hi \in Nat \cup {Nobody}
  PROVE  /\ Clamp(p, lo, hi) \in Nat /\ Clamp(p, lo, hi) >= lo
         /\ hi # Nobody /\ lo <= hi => Clamp(p, lo, hi) <= hi
  BY DEF Clamp

-----------------------------------------------------------------------------
\* One request at a time

\* The types of what a request and its call are.
LEMMA Types ==
  ASSUME IInv
  PROVE  /\ req \in [Requests -> Request] /\ call \in [Requests -> Call]
         /\ window \in Seq(Keys) /\ config \in Configs
         /\ config.price \in Nat /\ config.min \in Nat /\ config.max \in Nat \cup {Nobody}
         /\ ClampedPrice \in Nat
         /\ proc \in Procs /\ bound \subseteq Ports /\ closing \subseteq Ports
<1>1. config \in Configs /\ req \in [Requests -> Request] /\ call \in [Requests -> Call]
  BY DEF IInv, TypeOK, Request, Call
<1>2. config.price \in Nat /\ config.min \in Nat /\ config.max \in Nat \cup {Nobody}
  BY <1>1, ConfigAssumption
<1>3. ClampedPrice \in Nat
  BY <1>2, ClampInBounds DEF ClampedPrice
<1> QED BY <1>1, <1>2, <1>3 DEF IInv, TypeOK, Procs

\* A step of one request, and of its limiter, keeps the invariant if what becomes of
\* them satisfies its part.
LEMMA OneRequest ==
  ASSUME IInv, NEW r \in Requests, NEW q \in Request, NEW c \in Call,
         req' = [req EXCEPT ![r] = q], call' = [call EXCEPT ![r] = c],
         UNCHANGED <<proc, setup, closing>>,
         window' \in Seq(Keys), Windows', Requested(q, c)
  PROVE  IInv'
<1>1. req' \in [Requests -> Request] /\ call' \in [Requests -> Call]
  BY Types
<1>2. TypeOK'
  BY <1>1 DEF IInv, TypeOK, setup, Request, Call
<1>3. ASSUME NEW x \in Requests PROVE Requested(req[x], call[x])'
  <2>1. req'[x] = (IF x = r THEN q ELSE req[x]) /\ call'[x] = (IF x = r THEN c ELSE call[x])
    BY Types
  <2>2. Requested(req'[x], call'[x])
    BY <2>1 DEF IInv
  <2>3. proc' = proc /\ closing' = closing /\ ClampedPrice' = ClampedPrice
    BY DEF setup, ClampedPrice
  <2> QED BY <2>2, <2>3 DEF Requested, Metered, Priced, Placed
<1> QED BY <1>2, <1>3 DEF IInv

\* Charges that stay or go leave the windows in their bounds.
LEMMA WindowsKept ==
  ASSUME IInv, UNCHANGED window
  PROVE  window' \in Seq(Keys) /\ Windows'
<1>1. \A key \in Keys : Live(key)' = Live(key)
  BY DEF Live
<1> QED BY <1>1 DEF IInv, TypeOK, Windows

\* An answer leaves nothing to keep, but that a quote was priced by the signer.
LEMMA ReplyIInv ==
  ASSUME IInv, NEW r \in Requests, NEW answer \in Answers, NEW c \in Call,
         Reply(r, answer), call' = [call EXCEPT ![r] = c],
         UNCHANGED <<proc, setup, closing, window>>,
         answer = "quote" => req[r].at = "sign", c.says = "asked" => c.key \in Keys
  PROVE  IInv'
<1> DEFINE q == [NoRequest EXCEPT !.at = "done", !.answer = answer, !.price = req[r].price]
<1>1. req[r] \in Request
  BY Types
<1>2. /\ q \in Request /\ q.at = "done" /\ q.answer = answer /\ q.price = req[r].price
  BY <1>1 DEF Request, NoRequest, Places, Asks
<1>3. req' = [req EXCEPT ![r] = q]
  BY DEF Reply
<1>4. Priced(q)
  BY <1>2 DEF IInv, Requested, Priced
<1> HIDE DEF q
<1>5. Requested(q, c)
  BY <1>2, <1>4 DEF Requested, Metered, Placed, Open
<1>6. window' \in Seq(Keys) /\ Windows'
  BY WindowsKept
<1> QED BY <1>2, <1>3, <1>5, <1>6, OneRequest

\* The call of no request.
LEMMA NoCallType == NoCall \in Call
  BY DEF NoCall, Call

-----------------------------------------------------------------------------
\* Steps

\* A request that arrives is answered at once, works, or asks the first bucket.
LEMMA ArriveIInv ==
  ASSUME IInv, NEW r \in Requests, NEW port \in Ports, NEW carrier \in Carriers,
         NEW ask \in Asks, NEW caller \in Callers \cup {Nobody},
         Arrive(r, port, carrier, ask, caller)
  PROVE  IInv'
<1>1. req[r] \in Request /\ call[r] \in Call /\ req[r].at = "away" /\ proc = "serving"
  BY Types DEF Arrive
<1>2. Requested(req[r], call[r])
  BY DEF IInv
<1>3. window' \in Seq(Keys) /\ Windows'
  BY WindowsKept DEF Arrive
<1>4. UNCHANGED <<proc, setup, closing>>
  BY DEF Arrive
<1> DEFINE to == Routed(carrier, ask)
<1>5. CASE to.at = "done"
  <2> DEFINE q == [req[r] EXCEPT !.at = "done", !.answer = to.answer]
  <2>1. to.answer \in {"unknown", "fault"}
    BY <1>5 DEF Routed
  <2>2. q \in Request /\ q.at = "done" /\ q.answer # "quote"
    BY <1>1, <2>1 DEF Request, Places, Answers
  <2>3. req' = [req EXCEPT ![r] = q] /\ call' = [call EXCEPT ![r] = call[r]]
    BY <1>5, Types DEF Arrive
  <2> HIDE DEF q, to
  <2>4. Requested(q, call[r])
    BY <1>2, <2>2 DEF Requested, Metered, Priced, Placed, Open
  <2> QED BY <1>1, <1>3, <1>4, <2>2, <2>3, <2>4, OneRequest
<1>6. CASE to.at = "work"
  <2> DEFINE q == [req[r] EXCEPT !.at = "work", !.port = port, !.ask = ask, !.caller = Nobody]
  <2>1. q \in Request /\ q.at = "work" /\ q.port = port /\ q.answer = req[r].answer /\ q.price = req[r].price
    BY <1>1 DEF Request, Places
  <2>2. req' = [req EXCEPT ![r] = q] /\ call' = [call EXCEPT ![r] = call[r]]
    BY <1>6, Types DEF Arrive
  <2> HIDE DEF q, to
  <2>3. Requested(q, call[r])
    BY <1>1, <1>2, <2>1 DEF Requested, Metered, Priced, Placed, Open
  <2> QED BY <1>1, <1>3, <1>4, <2>1, <2>2, <2>3, OneRequest
<1>7. CASE to.at = "global"
  <2> DEFINE q == [req[r] EXCEPT !.at = "global", !.port = port, !.ask = ask, !.caller = caller]
             c == [key |-> GlobalKey(ask), says |-> "asked"]
  <2>1. ask \in Skills
    BY <1>7 DEF Routed
  <2>2. c \in Call /\ c.key \in Keys
    BY <2>1, KeysAreKeys DEF Call
  <2>3. /\ q \in Request /\ q.at = "global" /\ q.port = port /\ q.ask = ask
        /\ q.answer = req[r].answer /\ q.price = req[r].price
    BY <1>1 DEF Request, Places
  <2>4. req' = [req EXCEPT ![r] = q] /\ call' = [call EXCEPT ![r] = c]
    BY <1>7 DEF Arrive, Consults
  <2>5. c.key = GlobalKey(ask) /\ c.says = "asked"
    OBVIOUS
  <2> HIDE DEF q, to, c
  <2>6. Requested(q, c)
    BY <1>1, <1>2, <2>1, <2>2, <2>3, <2>5 DEF Requested, Metered, Priced, Placed, Open
  <2> QED BY <1>3, <1>4, <2>2, <2>3, <2>4, <2>6, OneRequest
<1> QED BY <1>5, <1>6, <1>7 DEF Routed

\* A limiter that admits a call charges it, and the request that waits has paid.
LEMMA ConsultedIInv ==
  ASSUME IInv, NEW r \in Requests, Consulted(r)
  PROVE  IInv'
<1>1. req[r] \in Request /\ call[r] \in Call /\ call[r].says = "asked"
  BY Types DEF Consulted
<1>2. Requested(req[r], call[r])
  BY DEF IInv
<1>3. UNCHANGED <<proc, setup, closing>>
  BY DEF Consulted
<1> DEFINE key == call[r].key
<1>4. CASE ~Room(key)
  <2> DEFINE c == [call[r] EXCEPT !.says = "no"]
  <2>1. c \in Call /\ c.key = call[r].key /\ c.says = "no"
    BY <1>1 DEF Call
  <2>2. req' = [req EXCEPT ![r] = req[r]] /\ call' = [call EXCEPT ![r] = c] /\ UNCHANGED window
    BY <1>4, Types DEF Consulted
  <2> HIDE DEF c
  <2>3. Requested(req[r], c)
    BY <1>2, <2>1 DEF Requested, Metered
  <2>4. window' \in Seq(Keys) /\ Windows'
    BY <2>2, WindowsKept
  <2> QED BY <1>1, <1>3, <2>1, <2>2, <2>3, <2>4, OneRequest
<1>5. key \in Keys
  BY <1>1, <1>2 DEF Requested, Metered
<1>6. CASE Room(key)
  <2> DEFINE c == [call[r] EXCEPT !.says = "yes"]
             q == IF req[r].at \in Open THEN [req[r] EXCEPT !.paid = @ \cup {key}] ELSE req[r]
  <2>1. c \in Call /\ c.key = key /\ c.says = "yes"
    BY <1>1 DEF Call
  <2>2. /\ q \in Request /\ q.at = req[r].at /\ q.ask = req[r].ask /\ q.caller = req[r].caller
        /\ q.answer = req[r].answer /\ q.price = req[r].price /\ q.port = req[r].port
    BY <1>1, <1>5 DEF Request
  <2>3. q.at \in Open => q.paid = req[r].paid \cup {key}
    BY <1>1 DEF Request
  <2>4. /\ req' = [req EXCEPT ![r] = q] /\ call' = [call EXCEPT ![r] = c]
        /\ window' = Append(window, key)
    BY <1>6, Types DEF Consulted
  <2>5. Requested(q, c)
    <3> HIDE DEF c, q
    <3>1. Metered(q, c)
      BY <1>2, <2>1, <2>2, <2>3 DEF Requested, Metered, Open
    <3>2. Priced(q) /\ Placed(q)
      BY <1>2, <2>2 DEF Requested, Priced, Placed
    <3> QED BY <3>1, <3>2 DEF Requested
  <2>6. window' \in Seq(Keys)
    BY <1>5, <2>4, Types
  <2>7. Windows'
    <3> SUFFICES ASSUME NEW k \in Keys PROVE Cardinality(Live(k)') <= Max(k)
      BY DEF Windows, Max, GlobalKeys, Skills
    <3>1. Cardinality(Live(k)') = Cardinality(Live(k)) + (IF k = key THEN 1 ELSE 0)
      BY <1>5, <2>4, Types, ChargeCounts
    <3>2. Cardinality(Live(k)) <= Max(k) /\ Max(k) \in Nat /\ Cardinality(Live(k)) \in Nat
      BY MaxIsNat, LiveIsFinite, Types DEF IInv, Windows
    <3>3. k = key => Cardinality(Live(k)) < Max(k)
      BY <1>6 DEF Room
    <3> QED BY <3>1, <3>2, <3>3
  <2> HIDE DEF c, q
  <2> QED BY <1>3, <2>1, <2>2, <2>4, <2>5, <2>6, <2>7, OneRequest
<1> QED BY <1>4, <1>6

\* An injected limiter that breaks charges nothing.
LEMMA LimiterFailsIInv ==
  ASSUME IInv, NEW r \in Requests, LimiterFails(r)
  PROVE  IInv'
<1>1. req[r] \in Request /\ call[r] \in Call /\ Requested(req[r], call[r])
  BY Types DEF IInv
<1> DEFINE c == [call[r] EXCEPT !.says = "broken"]
<1>2. c \in Call /\ c.key = call[r].key /\ c.says = "broken"
  BY <1>1 DEF Call
<1>3. /\ req' = [req EXCEPT ![r] = req[r]] /\ call' = [call EXCEPT ![r] = c]
      /\ UNCHANGED <<proc, setup, closing, window>>
  BY Types DEF LimiterFails
<1> HIDE DEF c
<1>4. Requested(req[r], c)
  BY <1>1, <1>2 DEF Requested, Metered
<1> QED BY <1>1, <1>2, <1>3, <1>4, WindowsKept, OneRequest

\* The oldest charge leaves.
LEMMA SlideIInv ==
  ASSUME IInv, Slide
  PROVE  IInv'
<1>1. window \in Seq(Keys) /\ window # <<>> /\ window' = Tail(window)
  BY Types DEF Slide
<1>2. window' \in Seq(Keys)
  BY <1>1
<1>3. UNCHANGED <<proc, setup, closing, req, call>>
  BY DEF Slide
<1>4. TypeOK'
  BY <1>2, <1>3 DEF IInv, TypeOK, setup
<1>5. ASSUME NEW k \in Keys PROVE Cardinality(Live(k)') <= Max(k)
  <2>1. Cardinality(Live(k)') \in Nat /\ Cardinality(Live(k)') <= Cardinality(Live(k))
    BY <1>1, SlideCounts
  <2>2. Cardinality(Live(k)) <= Max(k) /\ Max(k) \in Nat /\ Cardinality(Live(k)) \in Nat
    BY MaxIsNat, LiveIsFinite, Types DEF IInv, Windows
  <2> QED BY <2>1, <2>2
<1>6. Windows'
  BY <1>5 DEF Windows, Max, GlobalKeys, Skills
<1>7. \A r \in Requests : Requested(req[r], call[r])'
  BY <1>3 DEF IInv, Requested, Metered, Priced, Placed, ClampedPrice, setup
<1> QED BY <1>4, <1>6, <1>7 DEF IInv

\* On to the caller's bucket.
LEMMA ToCallerIInv ==
  ASSUME IInv, NEW r \in Requests, ToCaller(r)
  PROVE  IInv'
<1>1. /\ req[r] \in Request /\ call[r] \in Call /\ Requested(req[r], call[r])
      /\ req[r].at = "global" /\ req[r].caller # Nobody /\ call[r].says = "yes"
  BY Types DEF IInv, ToCaller, Waits, Cleared, HasCaller
<1>2. /\ req[r].ask \in Skills /\ req[r].caller \in Callers
      /\ GlobalKey(req[r].ask) \in req[r].paid
  BY <1>1 DEF Requested, Metered, Request
<1> DEFINE q == [req[r] EXCEPT !.at = "caller"]
           c == [key |-> CallerKey(req[r].ask, req[r].caller), says |-> "asked"]
<1>3. /\ q \in Request /\ q.at = "caller" /\ q.ask = req[r].ask /\ q.caller = req[r].caller
      /\ q.paid = req[r].paid /\ q.answer = req[r].answer /\ q.price = req[r].price
      /\ q.port = req[r].port
  BY <1>1 DEF Request, Places
<1>4. /\ c \in Call /\ c.key \in Keys /\ c.key = CallerKey(req[r].ask, req[r].caller)
      /\ c.says = "asked"
  BY <1>2, KeysAreKeys DEF Call
<1>5. /\ req' = [req EXCEPT ![r] = q] /\ call' = [call EXCEPT ![r] = c]
      /\ UNCHANGED <<proc, setup, closing, window>>
  BY DEF ToCaller, At, Consults
<1> HIDE DEF q, c
<1>6. Requested(q, c)
  <2>1. Metered(q, c)
    BY <1>2, <1>3, <1>4 DEF Metered
  <2>2. Priced(q) /\ Placed(q)
    BY <1>1, <1>3 DEF Requested, Priced, Placed, Open
  <2> QED BY <2>1, <2>2 DEF Requested
<1> QED BY <1>3, <1>4, <1>5, <1>6, WindowsKept, OneRequest

\* Past the budgets, to the signer or to the chain.
LEMMA ToOperationIInv ==
  ASSUME IInv, NEW r \in Requests, ToOperation(r)
  PROVE  IInv'
<1>1. /\ req[r] \in Request /\ call[r] \in Call /\ Requested(req[r], call[r])
      /\ req[r].at \in {"global", "caller"} /\ call[r].says = "yes"
      /\ req[r].at = "global" => req[r].caller = Nobody
  BY Types DEF IInv, ToOperation, Waits, Cleared, HasCaller
<1>2. /\ GlobalKey(req[r].ask) \in req[r].paid
      /\ req[r].caller # Nobody => CallerKey(req[r].ask, req[r].caller) \in req[r].paid
  BY <1>1 DEF Requested, Metered
<1>3. /\ call' = [call EXCEPT ![r] = NoCall] /\ NoCall \in Call /\ NoCall.says = "nothing"
      /\ UNCHANGED <<proc, setup, closing, window>>
  BY NoCallType DEF ToOperation, Settles, NoCall
<1>4. CASE req' = [req EXCEPT ![r].at = "sign", ![r].price = ClampedPrice]
  <2> DEFINE q == [req[r] EXCEPT !.at = "sign", !.price = ClampedPrice]
  <2>1. /\ q \in Request /\ q.at = "sign" /\ q.ask = req[r].ask /\ q.caller = req[r].caller
        /\ q.paid = req[r].paid /\ q.price = ClampedPrice /\ q.port = req[r].port
    BY <1>1, Types DEF Request, Places
  <2>2. req' = [req EXCEPT ![r] = q]
    BY <1>4, Types
  <2> HIDE DEF q
  <2>3. Metered(q, NoCall)
    BY <1>2, <1>3, <2>1 DEF Metered
  <2>4. Priced(q) /\ Placed(q)
    BY <1>1, <2>1 DEF Requested, Priced, Placed, Open
  <2> QED BY <1>3, <2>1, <2>2, <2>3, <2>4, WindowsKept, OneRequest DEF Requested
<1>5. CASE Reply(r, "fault")
  BY <1>3, <1>5, ReplyIInv DEF Answers
<1>6. CASE At(r, "verify")
  <2> DEFINE q == [req[r] EXCEPT !.at = "verify"]
  <2>1. /\ q \in Request /\ q.at = "verify" /\ q.ask = req[r].ask /\ q.caller = req[r].caller
        /\ q.paid = req[r].paid /\ q.price = req[r].price /\ q.port = req[r].port
        /\ q.answer = req[r].answer
    BY <1>1 DEF Request, Places
  <2>2. req' = [req EXCEPT ![r] = q]
    BY <1>6 DEF At
  <2> HIDE DEF q
  <2>3. Metered(q, NoCall)
    BY <1>2, <1>3, <2>1 DEF Metered
  <2>4. Priced(q) /\ Placed(q)
    BY <1>1, <2>1 DEF Requested, Priced, Placed, Open
  <2> QED BY <1>3, <2>1, <2>2, <2>3, <2>4, WindowsKept, OneRequest DEF Requested
<1> QED BY <1>4, <1>5, <1>6 DEF ToOperation

\* Every other step of a request answers it, or is a call for tools.
LEMMA AnsweredIInv ==
  ASSUME IInv, NEW r \in Requests,
         Refused(r) \/ LimiterTimesOut(r) \/ Sign(r) \/ Verify(r) \/ WorkFails(r) \/ Work(r)
  PROVE  IInv'
<1>1. call[r] \in Call /\ (call[r].says = "asked" => call[r].key \in Keys)
  BY Types DEF IInv, Requested, Metered
<1>2. call = [call EXCEPT ![r] = call[r]]
  BY Types
<1>3. NoCall \in Call /\ NoCall.says # "asked"
  BY NoCallType DEF NoCall
<1>4. ASSUME Refused(r) \/ LimiterTimesOut(r)
      PROVE  /\ \E answer \in {"retry", "fault"} : Reply(r, answer)
             /\ \E c \in {call[r], NoCall} : call' = [call EXCEPT ![r] = c]
             /\ UNCHANGED <<proc, setup, closing, window>>
  BY <1>2, <1>4 DEF Refused, LimiterTimesOut, Settles
<1>5. ASSUME Sign(r) \/ Verify(r) \/ WorkFails(r) \/ Work(r)
      PROVE  /\ \E answer \in Answers : Reply(r, answer) /\ (answer = "quote" => req[r].at = "sign")
             /\ call' = [call EXCEPT ![r] = call[r]]
             /\ UNCHANGED <<proc, setup, closing, window>>
  BY <1>2, <1>5 DEF Sign, Verify, WorkFails, Work, Answers, limits
<1>6. CASE Refused(r) \/ LimiterTimesOut(r)
  <2>1. PICK answer \in {"retry", "fault"} : Reply(r, answer)
    BY <1>4, <1>6
  <2>2. PICK c \in {call[r], NoCall} : call' = [call EXCEPT ![r] = c]
    BY <1>4, <1>6
  <2>3. answer \in Answers /\ answer # "quote" /\ c \in Call /\ (c.says = "asked" => c.key \in Keys)
    BY <1>1, <1>3 DEF Answers
  <2> QED BY <1>4, <1>6, <2>1, <2>2, <2>3, ReplyIInv
<1>7. CASE Sign(r) \/ Verify(r) \/ WorkFails(r) \/ Work(r)
  BY <1>1, <1>5, <1>7, ReplyIInv
<1> QED BY <1>6, <1>7

\* A call for tools counts one step.
LEMMA CallsToolsIInv ==
  ASSUME IInv, NEW r \in Requests, CallsTools(r)
  PROVE  IInv'
<1>1. /\ req[r] \in Request /\ call[r] \in Call /\ Requested(req[r], call[r])
      /\ req[r].at = "work"
  BY Types DEF IInv, CallsTools, AtWork
<1> DEFINE q == [req[r] EXCEPT !.steps = @ + 1]
<1>2. /\ q \in Request /\ q.at = "work" /\ q.port = req[r].port
      /\ q.price = req[r].price /\ q.answer = req[r].answer
  BY <1>1 DEF Request
<1>3. /\ req' = [req EXCEPT ![r] = q] /\ call' = [call EXCEPT ![r] = call[r]]
      /\ UNCHANGED <<proc, setup, closing, window>>
  BY Types DEF CallsTools, limits
<1> HIDE DEF q
<1>4. Requested(q, call[r])
  BY <1>1, <1>2 DEF Requested, Metered, Priced, Placed, Open
<1> QED BY <1>1, <1>2, <1>3, <1>4, WindowsKept, OneRequest

-----------------------------------------------------------------------------
\* The process

\* Booting and closing touch no request.
LEMMA BootIInv ==
  ASSUME IInv, Boot
  PROVE  IInv'
<1>1. /\ proc' \in Procs /\ proc' # "closing" /\ proc # "killed"
      /\ bound' \subseteq Ports /\ rail' \in BOOLEAN /\ x402' \in BOOLEAN
      /\ UNCHANGED <<config, closing, req, call, window>>
  BY DEF Boot, Boots, LoadRuntimeSecrets, Materialize, Wire, Listen, IInv, TypeOK, Procs, limits
<1>2. TypeOK'
  BY <1>1 DEF IInv, TypeOK, Procs
<1>3. Windows'
  BY <1>1, WindowsKept
<1>4. \A r \in Requests : Requested(req[r], call[r])'
  BY <1>1 DEF IInv, Requested, Metered, Priced, Placed, ClampedPrice
<1> QED BY <1>2, <1>3, <1>4 DEF IInv

\* SIGTERM waits for every port.
LEMMA SigtermIInv ==
  ASSUME IInv, Sigterm
  PROVE  IInv'
<1>1. /\ proc = "serving" /\ proc' = "closing" /\ closing' = Ports
      /\ UNCHANGED <<rail, x402, bound, config, req, call, window>>
  BY DEF Sigterm, setup, limits
<1>2. TypeOK'
  BY <1>1 DEF IInv, TypeOK
<1>3. Windows'
  BY <1>1, WindowsKept
<1>4. \A r \in Requests : Requested(req[r], call[r])'
  BY <1>1 DEF IInv, Requested, Metered, Priced, Placed, ClampedPrice
<1> QED BY <1>2, <1>3, <1>4 DEF IInv

\* The end of the process: what is open is cut, which a kill alone may do.
LEMMA EndsIInv ==
  ASSUME IInv, NEW how \in {"exited", "killed"}, Ends(how), UNCHANGED setup,
         closing' \subseteq Ports, proc # "killed",
         how = "exited" => OpenRequests = {}
  PROVE  IInv'
<1>1. /\ proc' = how /\ call' = [x \in Requests |-> NoCall] /\ window' = <<>>
      /\ req' = [x \in Requests |-> IF x \in OpenRequests THEN [NoRequest EXCEPT !.at = "cut"]
                                                          ELSE req[x]]
  BY DEF Ends
<1> DEFINE cut == [NoRequest EXCEPT !.at = "cut"]
<1>2. cut \in Request /\ cut.at = "cut" /\ cut.answer = "none"
  BY DEF NoRequest, Request, Places, Asks, Answers
<1>3. req' \in [Requests -> Request] /\ call' \in [Requests -> Call]
  BY <1>1, <1>2, NoCallType, Types
<1>4. TypeOK'
  <2>1. /\ window' \in Seq(Keys) /\ proc' \in Procs /\ config' \in Configs
        /\ rail' \in BOOLEAN /\ x402' \in BOOLEAN /\ bound' \subseteq Ports
    BY <1>1 DEF IInv, TypeOK, setup, Procs
  <2> QED BY <1>3, <2>1 DEF TypeOK, Request, Call, Procs
<1>5. Windows'
  <2>1. ASSUME NEW k \in Keys PROVE Cardinality(Live(k)') <= Max(k)
    <3>1. Live(k)' = {}
      BY <1>1 DEF Live
    <3> QED BY <3>1, FS_EmptySet, MaxIsNat
  <2> QED BY <2>1 DEF Windows, Max, GlobalKeys, Skills
<1>6. ASSUME NEW r \in Requests PROVE Requested(req[r], call[r])'
  <2>1. call'[r] = NoCall /\ NoCall.says = "nothing"
    BY <1>1 DEF NoCall
  <2>2. ClampedPrice' = ClampedPrice
    BY DEF setup, ClampedPrice
  <2>3. CASE r \in OpenRequests
    <3>1. req'[r] = cut
      BY <1>1, <2>3
    <3>2. how = "killed"
      BY <2>3
    <3> HIDE DEF cut
    <3> QED BY <1>1, <1>2, <2>1, <3>1, <3>2 DEF Requested, Metered, Priced, Placed, Open
  <2>4. CASE r \notin OpenRequests
    <3>1. req'[r] = req[r] /\ req[r].at \notin Open /\ Requested(req[r], call[r])
      BY <1>1, <2>4 DEF OpenRequests, IInv
    <3> QED BY <1>1, <2>1, <2>2, <3>1 DEF Requested, Metered, Priced, Placed, Open
  <2> QED BY <2>3, <2>4
<1> QED BY <1>4, <1>5, <1>6 DEF IInv

\* A server calls back when it holds no request; the last one exits.
LEMMA ClosedIInv ==
  ASSUME IInv, NEW port \in Ports, Closed(port)
  PROVE  IInv'
<1>1. /\ proc = "closing" /\ closing' = closing \ {port} /\ closing' \subseteq Ports
      /\ UNCHANGED setup /\ \A r \in OpenRequests : req[r].port # port
  BY Types DEF Closed
<1>2. \A r \in OpenRequests : req[r].port \in closing \ {port}
  BY <1>1 DEF OpenRequests, IInv, Requested, Placed
<1>3. CASE closing' = {}
  <2>1. Ends("exited") /\ OpenRequests = {}
    BY <1>1, <1>2, <1>3 DEF Closed, Exits
  <2> QED BY <1>1, <2>1, EndsIInv
<1>4. CASE closing' # {}
  <2>1. UNCHANGED <<proc, req, call, window>>
    BY <1>4 DEF Closed, Exits
  <2>2. TypeOK'
    BY <1>1, <2>1 DEF IInv, TypeOK, setup
  <2>3. Windows'
    BY <2>1, WindowsKept
  <2>4. \A r \in Requests : Requested(req[r], call[r])'
    BY <1>1, <1>2, <2>1 DEF IInv, Requested, Metered, Priced, Placed, ClampedPrice, setup, OpenRequests
  <2> QED BY <2>2, <2>3, <2>4 DEF IInv
<1> QED BY <1>3, <1>4

\* A kill cuts off what is open.
LEMMA KillIInv ==
  ASSUME IInv, Kill
  PROVE  IInv'
  BY EndsIInv, Types DEF Kill

-----------------------------------------------------------------------------

\* The invariant holds at the start.
LEMMA InitIInv == Init => IInv
<1> SUFFICES ASSUME Init PROVE IInv
  OBVIOUS
<1>1. NoRequest \in Request /\ NoRequest.at = "away" /\ NoRequest.answer = "none"
  BY DEF NoRequest, Request, Places, Asks, Answers
<1>2. NoCall \in Call /\ NoCall.says = "nothing"
  BY NoCallType DEF NoCall
<1>3. TypeOK
  <2>1. req \in [Requests -> Request] /\ call \in [Requests -> Call]
    BY <1>1, <1>2 DEF Init
  <2>2. /\ window \in Seq(Keys) /\ proc \in Procs /\ config \in Configs
        /\ bound \subseteq Ports /\ closing \subseteq Ports
    BY DEF Init, Procs
  <2>3. rail \in BOOLEAN /\ x402 \in BOOLEAN
    BY Zenon DEF Init
  <2> QED BY <2>1, <2>2, <2>3 DEF TypeOK, Request, Call, Procs
<1>4. Windows
  <2>1. ASSUME NEW k \in Keys PROVE Live(k) = {}
    BY DEF Init, Live
  <2> QED BY <2>1, FS_EmptySet, MaxIsNat DEF Windows
<1>5. ASSUME NEW r \in Requests PROVE Requested(req[r], call[r])
  <2>1. req[r] = NoRequest /\ call[r] = NoCall
    BY DEF Init
  <2> QED BY <1>1, <1>2, <2>1 DEF Requested, Metered, Priced, Placed, Open
<1> QED BY <1>3, <1>4, <1>5 DEF IInv

\* Every step keeps it.
LEMMA NextIInv == IInv /\ [Next]_vars => IInv'
<1> SUFFICES ASSUME IInv, [Next]_vars PROVE IInv'
  OBVIOUS
<1>1. CASE UNCHANGED vars
  <2>1. UNCHANGED <<proc, rail, x402, bound, config, closing, req, call, window>>
    BY <1>1 DEF vars, setup, limits
  <2>2. Windows'
    BY <2>1, WindowsKept
  <2> QED BY <2>1, <2>2 DEF IInv, TypeOK, Requested, Metered, Priced, Placed, ClampedPrice
<1>2. CASE Boot
  BY <1>2, BootIInv
<1>3. ASSUME NEW r \in Requests, NEW p \in Ports, NEW c \in Carriers, NEW a \in Asks,
             NEW id \in Callers \cup {Nobody}, Arrive(r, p, c, a, id)
      PROVE  IInv'
  BY <1>3, ArriveIInv
<1>4. ASSUME NEW r \in Requests, Proceeds(r) \/ LimiterFails(r)
      PROVE  IInv'
  BY <1>4, ConsultedIInv, ToCallerIInv, ToOperationIInv, AnsweredIInv, CallsToolsIInv,
     LimiterFailsIInv DEF Proceeds
<1>5. CASE Slide
  BY <1>5, SlideIInv
<1>6. CASE Sigterm
  BY <1>6, SigtermIInv
<1>7. ASSUME NEW p \in Ports, Closed(p) PROVE IInv'
  BY <1>7, ClosedIInv
<1>8. CASE Kill
  BY <1>8, KillIInv
<1> QED BY <1>1, <1>2, <1>3, <1>4, <1>5, <1>6, <1>7, <1>8 DEF Next

-----------------------------------------------------------------------------

\* The inductive invariant of the server (Init, Next): types, windows, and what each
\* request has paid, asks and is priced at.
THEOREM Invariance == Spec => []IInv
  BY InitIInv, NextIInv, PTL DEF Spec

\* The variables of the process, its limiters, calls and requests keep their types.
THEOREM TypeCorrect == Spec => []TypeOK
<1>1. IInv => TypeOK
  BY DEF IInv
<1> QED BY <1>1, Invariance, PTL

\* No budget is exceeded in any window, and nothing is signed or verified that did not
\* pay both the global budget and the caller's (limitRequest of requestLimits.ts), for any
\* number of requests between each other's awaits and with a limiter that answers late.
THEOREM BudgetsHold == Spec => []WorkIsMetered
<1>1. IInv => WorkIsMetered
  BY DEF IInv, WorkIsMetered, Windows, Requested, Metered, Owes, HasCaller
<1> QED BY <1>1, Invariance, PTL

\* The price of a quote is inside whichever bounds studio.toml has (clampPrice of
\* signing.ts), for any prices.
THEOREM QuotesAreBounded == Spec => []SignedWithinBounds
<1>1. IInv => SignedWithinBounds
  <2> SUFFICES ASSUME IInv, config.max = Nobody \/ config.min <= config.max,
                      NEW r \in Requests, req[r].answer = "quote"
               PROVE  /\ req[r].price >= config.min
                      /\ config.max # Nobody => req[r].price <= config.max
    BY DEF SignedWithinBounds
  <2>1. req[r].price = Clamp(config.price, config.min, config.max)
    BY DEF IInv, Requested, Priced, ClampedPrice
  <2>2. config.price \in Nat /\ config.min \in Nat /\ config.max \in Nat \cup {Nobody}
    BY Types
  <2>3. /\ Clamp(config.price, config.min, config.max) >= config.min
        /\ config.max # Nobody /\ config.min <= config.max =>
             Clamp(config.price, config.min, config.max) <= config.max
    BY <2>2, ClampInBounds
  <2> QED BY <2>1, <2>3
<1> QED BY <1>1, Invariance, PTL

\* A process that exits by itself, not killed, has answered every request it accepted
\* (the shutdown handler of unifiedMain.ts), for any number of ports and requests.
THEOREM ExitsAreOrderly == Spec => []ExitLosesNoAnswer
<1>1. IInv => ExitLosesNoAnswer
  BY DEF IInv, ExitLosesNoAnswer, Requested, Placed
<1> QED BY <1>1, Invariance, PTL
-----------------------------------------------------------------------------
(***************************************************************************)
(* How much of its way a request has before it: the two budgets, the       *)
(* operation, the calls of the language model that are left, and the       *)
(* answer of a limiter that is still out.                                  *)
(***************************************************************************)
Way(q) == IF q.at = "global" THEN 6
          ELSE IF q.at = "caller" THEN 3
          ELSE IF q.at \in {"sign", "verify"} THEN 1
          ELSE IF q.at = "work" THEN StepCount - q.steps
          ELSE 0
Awaited(c) == IF c.says = "asked" THEN 2 ELSE IF c.says = "nothing" THEN 0 ELSE 1

Ahead(q, c) == Way(q) + Awaited(c)

\* The language model is not called more than StepCount times.
StepsBounded == \A r \in Requests : req[r].steps < StepCount

\* The measure is a number.
LEMMA AheadIsNat ==
  ASSUME NEW q \in Request, NEW c \in Call, q.steps < StepCount
  PROVE  Way(q) \in Nat /\ Awaited(c) \in 0..2 /\ (q.at \in Open => Way(q) > 0)
<1>1. q.steps \in Nat /\ StepCount \in Nat
  BY StepsAssumption DEF Request
<1> QED BY <1>1 DEF Way, Awaited, Open

Onward(r) == \/ UNCHANGED <<req[r], call[r].says>>
             \/ Ahead(req[r], call[r])' < Ahead(req[r], call[r])

\* A step that takes a request to q and its limiter to c.
Takes(r, q, c) == req' = [req EXCEPT ![r] = q] /\ call' = [call EXCEPT ![r] = c]

\* The other requests are where they were.
LEMMA OneMoves ==
  ASSUME IInv, StepsBounded, NEW r \in Requests, NEW q, NEW c, Takes(r, q, c),
         q.steps < StepCount, req[r].at # "away" => Ahead(q, c) < Ahead(req[r], call[r])
  PROVE  StepsBounded' /\ \A x \in Requests : req[x].at # "away" => Onward(x)
<1>1. \A x \in Requests : /\ req'[x] = (IF x = r THEN q ELSE req[x])
                          /\ call'[x] = (IF x = r THEN c ELSE call[x])
  BY Types DEF Takes
<1>2. Ahead(req[r], call[r])' = Ahead(q, c)
  BY <1>1 DEF Ahead, Way, Awaited
<1> QED BY <1>1, <1>2 DEF StepsBounded, Onward

\* An answer ends the way.
LEMMA AnswerMoves ==
  ASSUME IInv, StepsBounded, NEW r \in Requests, NEW answer, Reply(r, answer),
         req[r].at \in Open, NEW c \in {call[r], NoCall}, call' = [call EXCEPT ![r] = c]
  PROVE  StepsBounded' /\ \A x \in Requests : req[x].at # "away" => Onward(x)
<1> DEFINE q == [NoRequest EXCEPT !.at = "done", !.answer = answer, !.price = req[r].price]
<1>1. q.at = "done" /\ q.steps = 0 /\ req' = [req EXCEPT ![r] = q]
  BY DEF NoRequest, Reply
<1> HIDE DEF q
<1>2. Way(q) = 0 /\ q.steps < StepCount
  BY <1>1, StepsAssumption DEF Way
<1>3. /\ Way(req[r]) \in Nat /\ Awaited(call[r]) \in 0..2 /\ Way(req[r]) > 0
  BY Types, AheadIsNat DEF StepsBounded
<1>4. Awaited(NoCall) = 0
  BY DEF Awaited, NoCall
<1>5. Ahead(q, c) < Ahead(req[r], call[r])
  BY <1>2, <1>3, <1>4 DEF Ahead
<1> QED BY <1>1, <1>2, <1>5, OneMoves DEF Takes

\* The limiter's answer is one thing less to wait for.
LEMMA LimiterMoves ==
  ASSUME IInv, StepsBounded, NEW r \in Requests, Consulted(r) \/ LimiterFails(r)
  PROVE  StepsBounded' /\ \A x \in Requests : req[x].at # "away" => Onward(x)
<1>1. /\ req[r] \in Request /\ call[r] \in Call /\ call[r].says = "asked"
      /\ req[r].steps < StepCount
  BY Types DEF StepsBounded, Consulted, LimiterFails
<1> DEFINE paid == [req[r] EXCEPT !.paid = @ \cup {call[r].key}]
<1>2. paid.at = req[r].at /\ paid.steps = req[r].steps
  BY <1>1 DEF Request
<1>3. PICK says \in {"yes", "no", "broken"} : call' = [call EXCEPT ![r].says = says]
  BY DEF Consulted, LimiterFails
<1> DEFINE c == [call[r] EXCEPT !.says = says]
<1>4. c.says = says /\ call' = [call EXCEPT ![r] = c]
  BY <1>1, <1>3, Types DEF Call
<1>5. req' = [req EXCEPT ![r] = paid] \/ req' = [req EXCEPT ![r] = req[r]]
  BY Types DEF Consulted, LimiterFails
<1> HIDE DEF paid, c
<1>6. PICK q \in {paid, req[r]} : req' = [req EXCEPT ![r] = q]
  BY <1>5
<1>7. q.at = req[r].at /\ q.steps = req[r].steps
  BY <1>2, <1>6
<1>8. Way(q) = Way(req[r]) /\ Awaited(c) = 1 /\ Awaited(call[r]) = 2
  BY <1>1, <1>4, <1>7 DEF Way, Awaited
<1>9. Way(req[r]) \in Nat
  BY <1>1, AheadIsNat
<1>10. Ahead(q, c) < Ahead(req[r], call[r])
  BY <1>8, <1>9 DEF Ahead
<1> QED BY <1>1, <1>4, <1>6, <1>7, <1>10, OneMoves DEF Takes

\* Past a budget: to the next one, to the operation, or to an answer.
LEMMA AdmittedMoves ==
  ASSUME IInv, StepsBounded, NEW r \in Requests, ToCaller(r) \/ ToOperation(r)
  PROVE  StepsBounded' /\ \A x \in Requests : req[x].at # "away" => Onward(x)
<1>1. /\ req[r] \in Request /\ req[r].at \in {"global", "caller"} /\ call[r].says = "yes"
      /\ req[r].steps < StepCount
  BY Types DEF StepsBounded, ToCaller, ToOperation, Waits
<1>2. Way(req[r]) >= 3 /\ Way(req[r]) \in Nat /\ Awaited(call[r]) = 1
  BY <1>1 DEF Way, Awaited
<1>3. CASE ToCaller(r)
  <2> DEFINE q == [req[r] EXCEPT !.at = "caller"]
             c == [key |-> CallerKey(req[r].ask, req[r].caller), says |-> "asked"]
  <2>1. q.at = "caller" /\ q.steps = req[r].steps /\ c.says = "asked"
    BY <1>1 DEF Request
  <2>2. Takes(r, q, c)
    BY <1>3 DEF Takes, ToCaller, At, Consults
  <2>3. req[r].at = "global"
    BY <1>3 DEF ToCaller, Cleared
  <2> HIDE DEF q, c
  <2>4. Ahead(q, c) < Ahead(req[r], call[r])
    BY <1>1, <2>1, <2>3 DEF Ahead, Way, Awaited
  <2> QED BY <1>1, <2>1, <2>2, <2>4, OneMoves
<1>4. CASE ToOperation(r)
  <2> DEFINE signs    == [req[r] EXCEPT !.at = "sign", !.price = ClampedPrice]
             verifies == [req[r] EXCEPT !.at = "verify"]
  <2>1. /\ signs.at = "sign" /\ signs.steps = req[r].steps
        /\ verifies.at = "verify" /\ verifies.steps = req[r].steps
    BY <1>1 DEF Request
  <2>2. call' = [call EXCEPT ![r] = NoCall]
    BY <1>4 DEF ToOperation, Settles
  <2>3. Reply(r, "fault") \/ req' = [req EXCEPT ![r] = signs] \/ req' = [req EXCEPT ![r] = verifies]
    BY <1>4, Types DEF ToOperation, At
  <2>4. CASE Reply(r, "fault")
    BY <1>1, <2>2, <2>4, AnswerMoves DEF Open
  <2>5. CASE req' = [req EXCEPT ![r] = signs] \/ req' = [req EXCEPT ![r] = verifies]
    <3> HIDE DEF signs, verifies
    <3>1. PICK q \in {signs, verifies} : req' = [req EXCEPT ![r] = q]
      BY <2>5
    <3>2. q.at \in {"sign", "verify"} /\ q.steps = req[r].steps
      BY <2>1, <3>1
    <3>3. Way(q) = 1 /\ Awaited(NoCall) = 0
      BY <3>2 DEF Way, Awaited, NoCall
    <3>4. Ahead(q, NoCall) < Ahead(req[r], call[r])
      BY <1>2, <3>3 DEF Ahead
    <3> QED BY <1>1, <2>2, <3>1, <3>2, <3>4, OneMoves DEF Takes
  <2> QED BY <2>3, <2>4, <2>5
<1> QED BY <1>3, <1>4

LEMMA AnsweredMoves ==
  ASSUME IInv, StepsBounded, NEW r \in Requests,
         Refused(r) \/ LimiterTimesOut(r) \/ Sign(r) \/ Verify(r) \/ WorkFails(r) \/ Work(r)
  PROVE  StepsBounded' /\ \A x \in Requests : req[x].at # "away" => Onward(x)
<1>1. req[r].at \in Open
  BY DEF Refused, LimiterTimesOut, Waits, Sign, Verify, WorkFails, Work, AtWork, Open
<1>2. \E answer \in Answers : Reply(r, answer)
  BY DEF Refused, LimiterTimesOut, Sign, Verify, WorkFails, Work, Answers
<1>3. call = [call EXCEPT ![r] = call[r]]
  BY Types
<1>4. \E c \in {call[r], NoCall} : call' = [call EXCEPT ![r] = c]
  BY <1>3 DEF Refused, LimiterTimesOut, Settles, Sign, Verify, WorkFails, Work, limits
<1>5. PICK answer \in Answers : Reply(r, answer)
  BY <1>2
<1>6. PICK c \in {call[r], NoCall} : call' = [call EXCEPT ![r] = c]
  BY <1>4
<1> QED BY <1>1, <1>5, <1>6, AnswerMoves

LEMMA CallsToolsMoves ==
  ASSUME IInv, StepsBounded, NEW r \in Requests, CallsTools(r)
  PROVE  StepsBounded' /\ \A x \in Requests : req[x].at # "away" => Onward(x)
<1>1. req[r] \in Request /\ req[r].at = "work" /\ req[r].steps + 1 < StepCount
  BY Types DEF CallsTools, AtWork
<1> DEFINE q == [req[r] EXCEPT !.steps = @ + 1]
<1>2. q.at = "work" /\ q.steps = req[r].steps + 1 /\ req[r].steps \in Nat /\ StepCount \in Nat
  BY <1>1, StepsAssumption DEF Request
<1>3. Takes(r, q, call[r])
  BY Types DEF Takes, CallsTools, limits
<1>4. Awaited(call[r]) \in 0..2
  BY DEF Awaited
<1> HIDE DEF q
<1>5. Ahead(q, call[r]) < Ahead(req[r], call[r])
  BY <1>1, <1>2, <1>4 DEF Ahead, Way
<1> QED BY <1>1, <1>2, <1>3, <1>5, OneMoves

\* A request that arrives disturbs no other.
LEMMA ArriveMoves ==
  ASSUME IInv, StepsBounded, NEW r \in Requests, NEW port \in Ports, NEW carrier \in Carriers,
         NEW ask \in Asks, NEW id \in Callers \cup {Nobody}, Arrive(r, port, carrier, ask, id)
  PROVE  StepsBounded' /\ \A x \in Requests : req[x].at # "away" => Onward(x)
<1> DEFINE to == Routed(carrier, ask)
           closed == [req[r] EXCEPT !.at = "done", !.answer = to.answer]
           open == [req[r] EXCEPT !.at = to.at, !.port = port, !.ask = ask,
                                  !.caller = IF to.at = "global" THEN id ELSE Nobody]
<1>1. req[r] \in Request /\ req[r].at = "away" /\ req[r].steps < StepCount
  BY Types DEF StepsBounded, Arrive
<1>2. closed.steps = req[r].steps /\ open.steps = req[r].steps
  BY <1>1 DEF Request
<1>3. req' = [req EXCEPT ![r] = closed] \/ req' = [req EXCEPT ![r] = open]
  BY Types DEF Arrive
<1>4. \E c : call' = [call EXCEPT ![r] = c]
  <2>1. call = [call EXCEPT ![r] = call[r]]
    BY Types
  <2> QED BY <2>1 DEF Arrive, Consults
<1> HIDE DEF to, closed, open
<1>5. PICK q \in {closed, open} : req' = [req EXCEPT ![r] = q]
  BY <1>3
<1>6. PICK c : call' = [call EXCEPT ![r] = c]
  BY <1>4
<1> QED BY <1>1, <1>2, <1>5, <1>6, OneMoves DEF Takes

\* A process that ends answers nobody any more.
LEMMA EndsMoves ==
  ASSUME IInv, StepsBounded, NEW how, Ends(how)
  PROVE  StepsBounded' /\ \A x \in Requests : req[x].at # "away" => Onward(x)
<1> DEFINE cut == [NoRequest EXCEPT !.at = "cut"]
<1>1. cut.at = "cut" /\ cut.steps = 0
  BY DEF NoRequest
<1>2. req' = [x \in Requests |-> IF req[x].at \in Open THEN cut ELSE req[x]]
      /\ call' = [x \in Requests |-> NoCall]
  BY DEF Ends, OpenRequests
<1> HIDE DEF cut
<1>3. ASSUME NEW x \in Requests
      PROVE  req'[x].steps < StepCount /\ Onward(x)
  <2>1. /\ req[x] \in Request /\ call[x] \in Call /\ req[x].steps < StepCount
        /\ call'[x] = NoCall
    BY <1>2, Types DEF StepsBounded
  <2>2. /\ Way(req[x]) \in Nat /\ Awaited(call[x]) \in 0..2
        /\ req[x].at \in Open => Way(req[x]) > 0
    BY <2>1, AheadIsNat
  <2>3. Awaited(NoCall) = 0
    BY DEF Awaited, NoCall
  <2>4. CASE req[x].at \in Open
    <3>1. req'[x] = cut
      BY <1>2, <2>4
    <3>2. Way(cut) = 0 /\ cut.steps < StepCount
      BY <1>1, StepsAssumption DEF Way
    <3>3. Ahead(req[x], call[x])' = 0
      BY <2>1, <2>3, <3>1, <3>2 DEF Ahead, Way, Awaited
    <3> QED BY <2>2, <2>4, <3>1, <3>2, <3>3 DEF Onward, Ahead
  <2>5. CASE req[x].at \notin Open
    <3>1. req'[x] = req[x]
      BY <1>2, <2>5
    <3>2. CASE call[x].says = "nothing"
      BY <2>1, <3>1, <3>2 DEF Onward, NoCall
    <3>3. CASE call[x].says # "nothing"
      <4>1. Awaited(call[x]) > 0
        BY <3>3 DEF Awaited
      <4>2. Ahead(req[x], call[x])' = Way(req[x])
        BY <2>1, <2>2, <2>3, <3>1 DEF Ahead, Way, Awaited
      <4> QED BY <2>1, <2>2, <3>1, <4>1, <4>2 DEF Onward, Ahead
    <3> QED BY <3>2, <3>3
  <2> QED BY <2>4, <2>5
<1> QED BY <1>3 DEF StepsBounded

\* Boot, time, and the shutdown up to its end leave the requests alone.
LEMMA IdleMoves ==
  ASSUME StepsBounded, UNCHANGED <<req, call>>
  PROVE  StepsBounded' /\ \A x \in Requests : req[x].at # "away" => Onward(x)
  BY DEF StepsBounded, Onward

LEMMA NextMoves ==
  ASSUME IInv, StepsBounded, [Next]_vars
  PROVE  StepsBounded' /\ \A x \in Requests : req[x].at # "away" => Onward(x)
<1>1. CASE UNCHANGED vars
  BY <1>1, IdleMoves DEF vars, limits
<1>2. CASE Boot \/ Slide \/ Sigterm
  BY <1>2, IdleMoves DEF Boot, Boots, LoadRuntimeSecrets, Materialize, Wire, Listen, Slide,
     Sigterm, limits
<1>3. CASE Kill
  BY <1>3, EndsMoves DEF Kill
<1>4. ASSUME NEW p \in Ports, Closed(p)
      PROVE  StepsBounded' /\ \A x \in Requests : req[x].at # "away" => Onward(x)
  BY <1>4, EndsMoves, IdleMoves DEF Closed
<1>5. ASSUME NEW r \in Requests, Proceeds(r) \/ LimiterFails(r)
      PROVE  StepsBounded' /\ \A x \in Requests : req[x].at # "away" => Onward(x)
  BY <1>5, LimiterMoves, AdmittedMoves, AnsweredMoves, CallsToolsMoves DEF Proceeds
<1> QED BY <1>1, <1>2, <1>3, <1>4, <1>5, ArriveMoves DEF Next

(***************************************************************************)
(* Every step that concerns an open request brings it nearer to its answer *)
(* by a measure that is never more than eight, or StepCount and two: it is *)
(* not sent back to a budget it has passed, nothing is retried, and the    *)
(* language model is called StepCount times at most. What RequestsEnd      *)
(* needs besides is the fairness TLC checks it under.                      *)
(***************************************************************************)
THEOREM RequestsGoOn ==
  Spec => /\ []StepsBounded
          /\ [][\A r \in Requests : req[r].at # "away" => Onward(r)]_vars
<1>1. Init => StepsBounded
  BY StepsAssumption DEF Init, StepsBounded, NoRequest
<1>2. IInv /\ StepsBounded /\ [Next]_vars => StepsBounded'
  BY NextMoves
<1>3. IInv /\ StepsBounded /\ [Next]_vars =>
        [\A r \in Requests : req[r].at # "away" => Onward(r)]_vars
  BY NextMoves
<1> QED BY <1>1, <1>2, <1>3, Invariance, PTL DEF Spec
===============================================================================
