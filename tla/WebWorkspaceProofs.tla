--------------------------- MODULE WebWorkspaceProofs ---------------------------
(***************************************************************************)
(* What TLAPS proves of the supporting pages for any texts, policies,      *)
(* tours, slots and sizes of the tables: the demo writes nothing, a policy *)
(* is stored with its own text, a verdict stands under its own receipt,    *)
(* and a page does not show as fresh what its own write has outdated.      *)
(***************************************************************************)
EXTENDS WebWorkspace, TLAPS

Form  == [text : Texts \cup {Nothing}, draft : Policies \cup {Nothing},
          shown : Receipts \cup {Nothing}, awaits : BOOLEAN, last : Slots \cup {Nothing},
          sel : Receipts \cup Texts \cup {Nothing}, verdict : Receipts \cup {Nothing}]
Call  == [op : Ops \cup {Nothing}, text : Texts \cup {Nothing},
          policy : Policies \cup {Nothing}, confirm : BOOLEAN, here : BOOLEAN,
          at : {"free", "sent", "answered"}, ok : BOOLEAN, number : Nat, awaits : BOOLEAN]
Query == [seen : Nat \cup {Nothing}, stale : BOOLEAN, got : Nat,
          at : {"idle", "sent", "back"}, late : BOOLEAN]
Row   == [text : Texts \cup {Nothing}, rev : 0..MaxRevision, mine : BOOLEAN]
Store == [rows : [Policies -> Row], rev : 0..MaxRevision, receipts : 0..MaxReceipts,
          tasks : 0..MaxTasks]

\* A draft is of the text beside it; the archive selects receipts.
FormOK ==
  /\ page = "constitution" => form.text \in Texts
  /\ form.draft # Nothing => form.text \in Texts /\ Compiled[form.text] = form.draft
  /\ page = "receipts" => form.sel \in Receipts \cup {Nothing}
  /\ VerdictIsOfTheCard

\* A mutation carries what its page showed, and what it wrote is in the tables. While a
\* text compiles on its page it is the text of the form.
CallOK(c) ==
  /\ c.op = "compile" => /\ c.text \in Texts
                         /\ c.at = "answered" /\ c.ok => c.policy = Compiled[c.text]
                         /\ c.here => page = "constitution" /\ c.text = form.text
  /\ c.op = "approve" => /\ c.text \in Texts /\ c.policy = Compiled[c.text]
                         /\ c.at = "answered" /\ c.ok => c.number <= store.rev
  /\ c.op = "task" /\ c.at = "answered" /\ c.ok => c.number <= store.tasks
  /\ c.op = "run" /\ c.at = "answered" /\ c.ok => c.number \in Receipts
  /\ c.op = "verify" => c.number \in Receipts /\ (c.here => c.number = Card)

StoreOK ==
  \A h \in Policies : store.rows[h].mine =>
    store.rows[h].text \in Texts /\ Compiled[store.rows[h].text] = h

\* What was acknowledged is in the table, and an answer that can pass for fresh has it.
Current(k, q) ==
  /\ acked[k] <= Version(k)
  /\ q.at = "back" /\ ~q.late => q.got >= acked[k]
  /\ q.at = "idle" /\ ~q.stale /\ ~q.late => q.seen # Nothing /\ q.seen >= acked[k]

IInv ==
  /\ TypeOK /\ FormOK /\ StoreOK /\ DemoIsReadOnly
  /\ \A s \in Slots : CallOK(call[s])
  /\ \A k \in Keys : Current(k, cache[k])

-----------------------------------------------------------------------------
\* What the types of the state are, in short.

LEMMA StateTypes ==
  ASSUME IInv
  PROVE  /\ demo \in BOOLEAN /\ tour \in Tours /\ page \in tour /\ page \in Pages
         /\ form \in Form /\ call \in [Slots -> Call] /\ cache \in [Keys -> Query]
         /\ detail \in [Receipts -> {"none", "asked", "known"}]
         /\ store \in Store /\ acked \in [Keys -> Nat]
         /\ MaxRevision \in Nat /\ MaxReceipts \in Nat /\ MaxTasks \in Nat
<1>1. tour \in Tours /\ page \in tour
  BY DEF IInv, TypeOK
<1>2. page \in Pages
  BY <1>1, ToursAssumption
<1>3. MaxRevision \in Nat /\ MaxReceipts \in Nat /\ MaxTasks \in Nat
  BY BoundsAssumption
<1>4. demo \in BOOLEAN
  BY DEF IInv, TypeOK
<1>5. /\ form \in Form /\ call \in [Slots -> Call] /\ cache \in [Keys -> Query]
      /\ detail \in [Receipts -> {"none", "asked", "known"}]
      /\ store \in Store /\ acked \in [Keys -> Nat]
  BY DEF IInv, TypeOK, Form, Call, Query, Row, Store
<1> QED BY <1>1, <1>2, <1>3, <1>4, <1>5

LEMMA TypesBack ==
  ASSUME demo' \in BOOLEAN, tour' \in Tours, page' \in tour',
         form' \in Form, call' \in [Slots -> Call], cache' \in [Keys -> Query],
         detail' \in [Receipts -> {"none", "asked", "known"}],
         store' \in Store, acked' \in [Keys -> Nat]
  PROVE  TypeOK'
  BY DEF TypeOK, Form, Call, Query, Row, Store

\* The values a form, a call and a query start from.
LEMMA StartTypes ==
  /\ NoCall \in Call /\ NoCall.op = Nothing /\ NoCall.here = FALSE /\ NoCall.at = "free"
  /\ NoQuery \in Query /\ NoQuery.stale = TRUE /\ NoQuery.at = "idle"
  /\ Empty.rows = [h \in Policies |-> NoRow] /\ Empty.rev = 0 /\ Empty.tasks = 0
  /\ \A p \in Pages :
       /\ Fresh(p) \in Form /\ Fresh(p).draft = Nothing /\ Fresh(p).verdict = Nothing
       /\ Fresh(p).sel = Nothing /\ (p = "constitution" => Fresh(p).text = DefaultText)
<1>1. NoCall \in Call /\ NoCall.op = Nothing /\ NoCall.here = FALSE /\ NoCall.at = "free"
  BY DEF NoCall, Call
<1>2. NoQuery \in Query /\ NoQuery.stale = TRUE /\ NoQuery.at = "idle"
  BY DEF NoQuery, Query
<1>3. Empty.rows = [h \in Policies |-> NoRow] /\ Empty.rev = 0 /\ Empty.tasks = 0
  BY DEF Empty
<1>4. ASSUME NEW p \in Pages
      PROVE  /\ Fresh(p) \in Form /\ Fresh(p).draft = Nothing /\ Fresh(p).verdict = Nothing
             /\ Fresh(p).sel = Nothing /\ (p = "constitution" => Fresh(p).text = DefaultText)
  BY CompilerAssumption DEF Fresh, Form
<1> QED BY <1>1, <1>2, <1>3, <1>4

\* What is on the card depends on the page, the selection and what is known of it.
LEMMA CardKept ==
  ASSUME UNCHANGED <<page, detail>>, form'.shown = form.shown, form'.sel = form.sel
  PROVE  Card' = Card
  BY DEF Card

\* A call stays right while the text and the card stay and the tables only grow.
LEMMA CallKept ==
  ASSUME IInv, page' = page, form'.text = form.text, Card' = Card, store' \in Store,
         store.rev <= store'.rev, store.tasks <= store'.tasks,
         NEW c \in Call, CallOK(c)
  PROVE  CallOK(c)'
<1>1. /\ store.rev \in Nat /\ store'.rev \in Nat /\ store.tasks \in Nat /\ store'.tasks \in Nat
      /\ c.number \in Nat
  BY StateTypes DEF Store, Call
<1>2. /\ c.number <= store.rev => c.number <= store'.rev
      /\ c.number <= store.tasks => c.number <= store'.tasks
  BY <1>1
<1> QED BY <1>2 DEF CallOK

\* An answer stays current while nothing is acknowledged and the tables only grow.
LEMMA QueriesKept ==
  ASSUME IInv, UNCHANGED acked, store' \in Store,
         store.rev <= store'.rev, store.tasks <= store'.tasks,
         NEW k \in Keys, NEW q \in Query, Current(k, q)
  PROVE  Current(k, q)'
<1>1. Version(k) \in Nat /\ Version(k)' \in Nat /\ Version(k) <= Version(k)' /\ acked[k] \in Nat
  BY StateTypes DEF Version, Keys, Store
<1>2. acked[k] <= Version(k)'
  BY <1>1 DEF Current
<1> QED BY <1>2 DEF Current

\* A row of a table is a number of writes.
LEMMA VersionType ==
  ASSUME IInv, NEW k \in Keys
  PROVE  Version(k) \in Nat /\ acked[k] \in Nat /\ acked[k] <= Version(k)
  BY StateTypes DEF Version, Keys, Store, IInv, Current

-----------------------------------------------------------------------------
\* Queries

\* A step of the query of one key.
LEMMA OneQuery ==
  ASSUME IInv, NEW k \in Keys, NEW q \in Query, Current(k, q),
         cache' = [cache EXCEPT ![k] = q],
         UNCHANGED <<demo, tour, page, form, call, detail, store, acked>>
  PROVE  IInv'
<1>1. cache' \in [Keys -> Query]
  BY StateTypes
<1>2. TypeOK'
  BY <1>1, StateTypes, TypesBack
<1>3. FormOK' /\ StoreOK' /\ DemoIsReadOnly'
  BY DEF IInv, FormOK, StoreOK, DemoIsReadOnly, VerdictIsOfTheCard, Card
<1>4. \A s \in Slots : CallOK(call[s])'
  BY DEF IInv, CallOK, Card
<1>5. ASSUME NEW x \in Keys PROVE Current(x, cache[x])'
  <2>1. cache'[x] = IF x = k THEN q ELSE cache[x]
    BY StateTypes
  <2>2. Current(x, cache'[x])
    BY <2>1 DEF IInv
  <2> QED BY <2>2 DEF Current, Version
<1> QED BY <1>2, <1>3, <1>4, <1>5 DEF IInv

\* To ask again is always right.
LEMMA AskedCurrent ==
  ASSUME IInv, NEW k \in Keys, NEW q \in Query
  PROVE  Asked(q) \in Query /\ Current(k, Asked(q))
<1>1. Asked(q) \in Query /\ Asked(q).at = "sent"
  BY DEF Asked, Query
<1> QED BY <1>1, VersionType DEF Current

\* So is to mount the page again.
LEMMA MountedCurrent ==
  ASSUME IInv, NEW k \in Keys, NEW q \in Query, Current(k, q)
  PROVE  Mounted(q) \in Query /\ Current(k, Mounted(q))
  BY AskedCurrent DEF Mounted

\* The answer of a query is what the table was when it was read.
LEMMA QueryIInv ==
  ASSUME IInv, NEW k \in Keys, QueryRead(k) \/ QueryShown(k) \/ QueryFails(k) \/ QueryAges(k)
  PROVE  IInv'
<1>1. cache[k] \in Query /\ Current(k, cache[k])
  BY StateTypes DEF IInv
<1>2. Version(k) \in Nat /\ acked[k] \in Nat /\ acked[k] <= Version(k)
  BY VersionType
<1>3. CASE QueryRead(k)
  <2> DEFINE q == [cache[k] EXCEPT !.at = "back", !.got = Version(k)]
  <2>1. q \in Query /\ q.at = "back" /\ q.got = Version(k)
    BY <1>1, <1>2 DEF Query
  <2>2. cache' = [cache EXCEPT ![k] = q]
    BY <1>3, StateTypes DEF QueryRead
  <2>3. UNCHANGED <<demo, tour, page, form, call, detail, store, acked>>
    BY <1>3 DEF QueryRead
  <2> HIDE DEF q
  <2>4. Current(k, q)
    BY <1>2, <2>1 DEF Current
  <2> QED BY <2>1, <2>2, <2>3, <2>4, OneQuery
<1>4. CASE QueryShown(k)
  <2> DEFINE q == [cache[k] EXCEPT !.at = "idle", !.seen = cache[k].got, !.got = 0, !.stale = FALSE]
  <2>1. /\ q \in Query /\ q.at = "idle" /\ q.seen = cache[k].got /\ q.late = cache[k].late
        /\ q.seen \in Nat
    BY <1>1 DEF Query
  <2>2. cache' = [cache EXCEPT ![k] = q]
    BY <1>4, StateTypes DEF QueryShown
  <2>3. cache[k].at = "back" /\ UNCHANGED <<demo, tour, page, form, call, detail, store, acked>>
    BY <1>4 DEF QueryShown
  <2> HIDE DEF q
  <2>4. Current(k, q)
    BY <1>1, <1>2, <2>1, <2>3, NothingAssumption DEF Current
  <2> QED BY <2>1, <2>2, <2>3, <2>4, OneQuery
<1>5. CASE QueryFails(k)
  <2> DEFINE q == [cache[k] EXCEPT !.at = "idle", !.got = 0, !.stale = TRUE, !.late = FALSE]
  <2>1. q \in Query /\ q.at = "idle" /\ q.stale
    BY <1>1 DEF Query
  <2>2. cache' = [cache EXCEPT ![k] = q]
    BY <1>5, StateTypes DEF QueryFails
  <2>3. UNCHANGED <<demo, tour, page, form, call, detail, store, acked>>
    BY <1>5 DEF QueryFails
  <2> HIDE DEF q
  <2>4. Current(k, q)
    BY <1>2, <2>1 DEF Current
  <2> QED BY <2>1, <2>2, <2>3, <2>4, OneQuery
<1>6. CASE QueryAges(k)
  <2> DEFINE q == [cache[k] EXCEPT !.stale = TRUE, !.late = FALSE]
  <2>1. q \in Query /\ q.at = cache[k].at /\ q.stale
    BY <1>1 DEF Query
  <2>2. cache' = [cache EXCEPT ![k] = q] /\ cache[k].at = "idle"
    BY <1>6, StateTypes DEF QueryAges
  <2>3. UNCHANGED <<demo, tour, page, form, call, detail, store, acked>>
    BY <1>6 DEF QueryAges
  <2> HIDE DEF q
  <2>4. Current(k, q)
    BY <1>2, <2>1, <2>2 DEF Current
  <2> QED BY <2>1, <2>2, <2>3, <2>4, OneQuery
<1> QED BY <1>3, <1>4, <1>5, <1>6

\* The focus asks again for what is stale.
LEMMA RefocusIInv ==
  ASSUME IInv, Refocus
  PROVE  IInv'
<1>1. UNCHANGED <<demo, tour, page, form, call, detail, store, acked>>
  BY DEF Refocus
<1>2. ASSUME NEW k \in Keys PROVE cache'[k] \in Query /\ Current(k, cache'[k])
  <2>1. cache[k] \in Query /\ Current(k, cache[k])
    BY StateTypes DEF IInv
  <2>2. cache'[k] = Mounted(cache[k]) \/ cache'[k] = cache[k]
    BY DEF Refocus
  <2> QED BY <2>1, <2>2, MountedCurrent
<1>3. cache' \in [Keys -> Query]
  BY <1>2 DEF Refocus
<1>4. TypeOK'
  BY <1>1, <1>3, StateTypes, TypesBack
<1>5. FormOK' /\ StoreOK' /\ DemoIsReadOnly'
  BY <1>1 DEF IInv, FormOK, StoreOK, DemoIsReadOnly, VerdictIsOfTheCard, Card
<1>6. \A s \in Slots : CallOK(call[s])'
  BY <1>1 DEF IInv, CallOK, Card
<1>7. \A k \in Keys : Current(k, cache[k])'
  BY <1>1, <1>2 DEF Current, Version
<1> QED BY <1>4, <1>5, <1>6, <1>7 DEF IInv

-----------------------------------------------------------------------------
\* Mutations

\* What is not edited keeps the form right; a verdict may go.
LEMMA FormKept ==
  ASSUME IInv, UNCHANGED <<page, detail>>,
         form'.text = form.text, form'.draft = form.draft, form'.shown = form.shown,
         form'.sel = form.sel, form'.verdict \in {form.verdict, Nothing}
  PROVE  FormOK' /\ Card' = Card
<1>1. Card' = Card
  BY CardKept
<1>2. FormOK
  BY DEF IInv
<1> QED BY <1>1, <1>2 DEF FormOK, VerdictIsOfTheCard

\* The tables that are not written stay right.
LEMMA StoreKept ==
  ASSUME IInv, UNCHANGED <<demo, store>>
  PROVE  /\ store' \in Store /\ StoreOK' /\ DemoIsReadOnly'
         /\ store.rev <= store'.rev /\ store.tasks <= store'.tasks
<1>1. store \in Store /\ store.rev \in Nat /\ store.tasks \in Nat
  BY StateTypes DEF Store
<1> QED BY <1>1 DEF IInv, StoreOK, DemoIsReadOnly

\* A step of one mutation, on a page whose text and card stay.
LEMMA OneCall ==
  ASSUME IInv, NEW s \in Slots, NEW c \in Call, call' = [call EXCEPT ![s] = c], CallOK(c)',
         form' \in Form, form'.text = form.text, Card' = Card, FormOK',
         store' \in Store, StoreOK', DemoIsReadOnly',
         store.rev <= store'.rev, store.tasks <= store'.tasks,
         UNCHANGED <<demo, tour, page, cache, detail, acked>>
  PROVE  IInv'
<1>1. call' \in [Slots -> Call]
  BY StateTypes
<1>2. TypeOK'
  BY <1>1, StateTypes, TypesBack
<1>3. ASSUME NEW x \in Slots PROVE CallOK(call[x])'
  <2>1. CASE x = s
    <3>1. call'[x] = c
      BY <2>1, StateTypes
    <3> QED BY <3>1 DEF CallOK
  <2>2. CASE x # s
    <3>1. PICK d \in Call : d = call[x] /\ CallOK(d)
      BY StateTypes DEF IInv
    <3>2. CallOK(d)'
      BY <3>1, CallKept
    <3>3. call'[x] = d
      BY <2>2, <3>1, StateTypes
    <3> QED BY <3>2, <3>3 DEF CallOK
  <2> QED BY <2>1, <2>2
<1>4. ASSUME NEW k \in Keys PROVE Current(k, cache[k])'
  <2>1. PICK q \in Query : q = cache[k] /\ Current(k, q)
    BY StateTypes DEF IInv
  <2>2. Current(k, q)'
    BY <2>1, QueriesKept
  <2>3. cache'[k] = q
    BY <2>1
  <2> QED BY <2>2, <2>3 DEF Current
<1> QED BY <1>2, <1>3, <1>4 DEF IInv

\* What a request carries when a page sends it.
Carries(q) ==
  \/ q.op \in {"run", "task", "paid"}
  \/ q.op = "compile" /\ page = "constitution" /\ q.text = form.text
  \/ q.op = "approve" /\ q.text \in Texts /\ q.policy = Compiled[q.text]
  \/ q.op = "verify" /\ q.number \in Receipts /\ q.number = Card

\* A request that is sent, by a page that shows the same as before.
LEMMA SendsIInv ==
  ASSUME IInv, NEW s \in Slots, NEW request \in Call, Sends(s, request),
         form' \in Form, form'.text = form.text, form'.draft = form.draft,
         form'.shown = form.shown, form'.sel = form.sel, form'.verdict \in {form.verdict, Nothing},
         Carries(request)
  PROVE  IInv'
<1> DEFINE c == [request EXCEPT !.at = "sent", !.here = TRUE]
<1>1. /\ c \in Call /\ c.op = request.op /\ c.text = request.text /\ c.policy = request.policy
      /\ c.number = request.number /\ c.at = "sent" /\ c.here = TRUE
  BY DEF Call
<1>2. call' = [call EXCEPT ![s] = c] /\ UNCHANGED <<demo, tour, page, cache, detail, store, acked>>
  BY DEF Sends
<1>3. FormOK' /\ Card' = Card
  BY <1>2, FormKept
<1>4. page = "constitution" => form.text \in Texts
  BY DEF IInv, FormOK
<1> HIDE DEF c
<1>5. CallOK(c)'
  BY <1>1, <1>2, <1>3, <1>4 DEF CallOK, Carries
<1> QED BY <1>1, <1>2, <1>3, <1>5, StoreKept, OneCall

\* What a form becomes that notes the run it sent, or drops its verdict.
LEMMA FormUpdate ==
  ASSUME NEW f \in Form, NEW l \in Slots \cup {Nothing}
  PROVE  /\ [f EXCEPT !.last = l] \in Form /\ [f EXCEPT !.last = l].text = f.text
         /\ [f EXCEPT !.last = l].draft = f.draft /\ [f EXCEPT !.last = l].shown = f.shown
         /\ [f EXCEPT !.last = l].sel = f.sel /\ [f EXCEPT !.last = l].verdict = f.verdict
         /\ [f EXCEPT !.verdict = Nothing] \in Form /\ [f EXCEPT !.verdict = Nothing].text = f.text
         /\ [f EXCEPT !.verdict = Nothing].draft = f.draft
         /\ [f EXCEPT !.verdict = Nothing].shown = f.shown
         /\ [f EXCEPT !.verdict = Nothing].sel = f.sel
         /\ [f EXCEPT !.verdict = Nothing].verdict = Nothing
  BY DEF Form

\* A text is sent to the compiler as it stands.
LEMMA CompileIInv ==
  ASSUME IInv, NEW s \in Slots, Compile(s)
  PROVE  IInv'
<1>1. form \in Form /\ form.text \in Texts /\ page = "constitution"
  BY StateTypes DEF IInv, FormOK, Compile
<1>2. PICK q : q = [NoCall EXCEPT !.op = "compile", !.text = form.text]
  OBVIOUS
<1>3. q \in Call /\ q.op = "compile" /\ q.text = form.text
  BY <1>1, <1>2 DEF NoCall, Call, Ops
<1>4. Sends(s, q) /\ form' = form
  BY <1>2 DEF Compile
<1>5. /\ form' \in Form /\ form'.text = form.text /\ form'.draft = form.draft
      /\ form'.shown = form.shown /\ form'.sel = form.sel /\ form'.verdict = form.verdict
  BY <1>1, <1>4
<1>6. Carries(q)
  BY <1>1, <1>3 DEF Carries
<1> QED BY <1>3, <1>4, <1>5, <1>6, SendsIInv

\* A draft is approved with the text it is of.
LEMMA ApproveIInv ==
  ASSUME IInv, NEW s \in Slots, Approve(s)
  PROVE  IInv'
<1>1. /\ form \in Form /\ form.draft # Nothing /\ form.text \in Texts
      /\ form.draft = Compiled[form.text]
  BY StateTypes DEF IInv, FormOK, Approve
<1>2. PICK q : q = [NoCall EXCEPT !.op = "approve", !.text = form.text, !.policy = form.draft]
  OBVIOUS
<1>3. q \in Call /\ q.op = "approve" /\ q.text = form.text /\ q.policy = form.draft
  BY <1>1, <1>2 DEF NoCall, Call, Ops, Form
<1>4. Sends(s, q) /\ form' = form
  BY <1>2 DEF Approve
<1>5. /\ form' \in Form /\ form'.text = form.text /\ form'.draft = form.draft
      /\ form'.shown = form.shown /\ form'.sel = form.sel /\ form'.verdict = form.verdict
  BY <1>1, <1>4
<1>6. Carries(q)
  BY <1>1, <1>3 DEF Carries
<1> QED BY <1>3, <1>4, <1>5, <1>6, SendsIInv

\* Runs, tasks and probes carry nothing the properties follow.
LEMMA RunsAreSent ==
  ASSUME IInv, NEW s \in Slots,
         Run(s) \/ RunTournament(s) \/ Confirm(s) \/ Submit(s) \/ Probe(s)
  PROVE  IInv'
<1> DEFINE run     == [NoCall EXCEPT !.op = "run"]
           confirm == [NoCall EXCEPT !.op = "run", !.confirm = TRUE]
           task    == [NoCall EXCEPT !.op = "task"]
           paid    == [NoCall EXCEPT !.op = "paid"]
<1>1. /\ run \in Call /\ run.op = "run" /\ confirm \in Call /\ confirm.op = "run"
      /\ task \in Call /\ task.op = "task" /\ paid \in Call /\ paid.op = "paid"
  BY DEF NoCall, Call, Ops
<1>2. Sends(s, run) \/ Sends(s, confirm) \/ Sends(s, task) \/ Sends(s, paid)
  BY DEF Run, RunTournament, Confirm, Submit, Probe
<1> HIDE DEF run, confirm, task, paid
<1>3. PICK q \in Call : Sends(s, q) /\ q.op \in {"run", "task", "paid"}
  BY <1>1, <1>2
<1>4. form \in Form /\ (form' = form \/ form' = [form EXCEPT !.last = s])
  BY StateTypes DEF Run, RunTournament, Confirm, Submit, Probe
<1>5. /\ form' \in Form /\ form'.text = form.text /\ form'.draft = form.draft
      /\ form'.shown = form.shown /\ form'.sel = form.sel /\ form'.verdict = form.verdict
  <2>1. s \in Slots \cup {Nothing}
    OBVIOUS
  <2>2. CASE form' = form
    BY <1>4, <2>2
  <2>3. CASE form' = [form EXCEPT !.last = s]
    BY <1>4, <2>1, <2>3, FormUpdate
  <2> QED BY <1>4, <2>2, <2>3
<1>6. Carries(q)
  BY <1>3 DEF Carries
<1> QED BY <1>3, <1>5, <1>6, SendsIInv

\* The card is a receipt.
LEMMA CardType ==
  ASSUME IInv
  PROVE  Card \in Receipts \cup {Nothing}
<1>1. form \in Form /\ (page = "receipts" => form.sel \in Receipts \cup {Nothing})
  BY StateTypes DEF IInv, FormOK
<1> QED BY <1>1 DEF Card, Form

\* The receipt on the card is verified.
LEMMA VerifyIInv ==
  ASSUME IInv, NEW s \in Slots, Verify(s)
  PROVE  IInv'
<1>1. form \in Form /\ MaxReceipts \in Nat /\ Card # Nothing
  BY StateTypes DEF Verify
<1>6. Card \in Receipts
  BY <1>1, CardType
<1>7. Card \in Nat
  BY <1>1, <1>6 DEF Receipts
<1>2. PICK q : q = [NoCall EXCEPT !.op = "verify", !.number = Card]
  OBVIOUS
<1>3. q \in Call /\ q.op = "verify" /\ q.number = Card
  BY <1>2, <1>7 DEF NoCall, Call, Ops
<1>4. Sends(s, q) /\ form' = [form EXCEPT !.verdict = Nothing]
  BY <1>2 DEF Verify
<1>5. /\ form' \in Form /\ form'.text = form.text /\ form'.draft = form.draft
      /\ form'.shown = form.shown /\ form'.sel = form.sel /\ form'.verdict = Nothing
  BY <1>1, <1>4, FormUpdate
<1>8. Carries(q)
  BY <1>3, <1>6 DEF Carries
<1> QED BY <1>3, <1>4, <1>5, <1>8, SendsIInv

-----------------------------------------------------------------------------
\* What is left or edited

\* A call that no page waits for is right whatever the page shows.
LEMMA HiddenCall ==
  ASSUME IInv, store' \in Store, store.rev <= store'.rev, store.tasks <= store'.tasks,
         NEW c \in Call, CallOK(c)
  PROVE  [c EXCEPT !.here = FALSE] \in Call /\ CallOK([c EXCEPT !.here = FALSE])'
<1> DEFINE d == [c EXCEPT !.here = FALSE]
<1>1. /\ d \in Call /\ d.op = c.op /\ d.text = c.text /\ d.policy = c.policy
      /\ d.number = c.number /\ d.at = c.at /\ d.ok = c.ok /\ d.here = FALSE
  BY DEF Call
<1>2. /\ store.rev \in Nat /\ store'.rev \in Nat /\ store.tasks \in Nat /\ store'.tasks \in Nat
      /\ c.number \in Nat
  BY StateTypes DEF Store, Call
<1>3. /\ c.number <= store.rev => c.number <= store'.rev
      /\ c.number <= store.tasks => c.number <= store'.tasks
  BY <1>2
<1> HIDE DEF d
<1>4. CallOK(d)'
  BY <1>1, <1>3 DEF CallOK
<1> QED BY <1>1, <1>4 DEF d

\* A slot that is free is right.
LEMMA FreeCall == CallOK(NoCall)'
  BY StartTypes, NothingAssumption DEF CallOK, Ops

\* The cache stays right while nothing is acknowledged and the tables only grow.
LEMMA CacheKept ==
  ASSUME IInv, UNCHANGED <<cache, acked>>, store' \in Store,
         store.rev <= store'.rev, store.tasks <= store'.tasks
  PROVE  \A k \in Keys : Current(k, cache[k])'
<1>1. ASSUME NEW k \in Keys PROVE Current(k, cache[k])'
  <2>1. PICK q \in Query : q = cache[k] /\ Current(k, q)
    BY StateTypes DEF IInv
  <2>2. Current(k, q)'
    BY <2>1, QueriesKept
  <2>3. cache'[k] = q
    BY <2>1
  <2> QED BY <2>2, <2>3 DEF Current
<1> QED BY <1>1

\* A text is edited only while nothing compiles from it.
LEMMA TypesIInv ==
  ASSUME IInv, NEW t \in Texts, Types(t)
  PROVE  IInv'
<1>1. form \in Form /\ form' = [form EXCEPT !.text = t, !.draft = Nothing]
  BY StateTypes DEF Types
<1>2. /\ form' \in Form /\ form'.text = t /\ form'.draft = Nothing /\ form'.shown = form.shown
      /\ form'.sel = form.sel /\ form'.verdict = form.verdict
  BY <1>1 DEF Form
<1>3. UNCHANGED <<demo, tour, page, call, cache, detail, store, acked>>
  BY DEF Types
<1>4. TypeOK'
  BY <1>2, <1>3, StateTypes, TypesBack
<1>5. Card' = Card
  BY <1>2, <1>3, CardKept
<1>6. FormOK'
  BY <1>2, <1>3, <1>5 DEF IInv, FormOK, VerdictIsOfTheCard
<1>7. ASSUME NEW s \in Slots PROVE CallOK(call[s])'
  <2>1. CallOK(call[s]) /\ call'[s] = call[s]
    BY <1>3 DEF IInv
  <2>2. ~(call[s].op = "compile" /\ call[s].here)
    BY <2>1 DEF CallOK, Types, Locked, Pending
  <2> QED BY <1>3, <1>5, <2>1, <2>2 DEF CallOK
<1> QED BY <1>3, <1>4, <1>6, <1>7, StoreKept, CacheKept DEF IInv

\* The explorer shows no receipt.
LEMMA ExploreIInv ==
  ASSUME IInv, NEW t \in Texts, Explore(t)
  PROVE  IInv'
<1>1. form \in Form /\ form' = [form EXCEPT !.sel = t] /\ page = "explorer"
  BY StateTypes DEF Explore
<1>2. /\ form' \in Form /\ form'.text = form.text /\ form'.draft = form.draft
      /\ form'.shown = form.shown /\ form'.sel = t /\ form'.verdict = form.verdict
  BY <1>1 DEF Form
<1>3. UNCHANGED <<demo, tour, page, call, cache, detail, store, acked>>
  BY DEF Explore
<1>4. TypeOK'
  BY <1>2, <1>3, StateTypes, TypesBack
<1>5. Card = Nothing /\ Card' = Nothing
  BY <1>1, <1>3 DEF Card
<1>6. FormOK'
  BY <1>1, <1>2, <1>3, <1>5 DEF IInv, FormOK, VerdictIsOfTheCard
<1>7. ASSUME NEW s \in Slots PROVE CallOK(call[s])'
  <2>1. CallOK(call[s]) /\ call'[s] = call[s]
    BY <1>3 DEF IInv
  <2> QED BY <1>2, <1>3, <1>5, <2>1 DEF CallOK
<1> QED BY <1>3, <1>4, <1>6, <1>7, StoreKept, CacheKept DEF IInv

\* A card that is unmounted takes its verification with it.
LEMMA UnmountedCall ==
  ASSUME IInv, page' = page, form'.text = form.text,
         store' \in Store, store.rev <= store'.rev, store.tasks <= store'.tasks,
         NEW c \in Call, CallOK(c)
  PROVE  Unmounted(c) \in Call /\ CallOK(Unmounted(c))'
<1>1. CASE c.op = "verify"
  BY <1>1, HiddenCall DEF Unmounted
<1>2. CASE c.op # "verify"
  <2>1. Unmounted(c) = c
    BY <1>2 DEF Unmounted
  <2>2. /\ store.rev \in Nat /\ store'.rev \in Nat /\ store.tasks \in Nat /\ store'.tasks \in Nat
        /\ c.number \in Nat
    BY StateTypes DEF Store, Call
  <2>3. /\ c.number <= store.rev => c.number <= store'.rev
        /\ c.number <= store.tasks => c.number <= store'.tasks
    BY <2>2
  <2>4. CallOK(c)'
    BY <1>2, <2>3 DEF CallOK
  <2> QED BY <2>1, <2>4
<1> QED BY <1>1, <1>2

\* A receipt is selected: its card starts without a verdict.
LEMMA SelectIInv ==
  ASSUME IInv, NEW x \in Receipts, Select(x)
  PROVE  IInv'
<1>1. form \in Form /\ form' = [form EXCEPT !.sel = x, !.verdict = Nothing] /\ page = "receipts"
  BY StateTypes DEF Select
<1>2. /\ form' \in Form /\ form'.text = form.text /\ form'.draft = form.draft
      /\ form'.sel = x /\ form'.verdict = Nothing
  BY <1>1 DEF Form
<1>3. UNCHANGED <<demo, tour, page, cache, store, acked>>
  BY DEF Select
<1>4. detail' \in [Receipts -> {"none", "asked", "known"}]
  BY StateTypes DEF Select
<1>5. call' = [s \in Slots |-> Unmounted(call[s])]
  BY DEF Select
<1>6. StoreOK' /\ DemoIsReadOnly' /\ store' \in Store /\ store.rev <= store'.rev
      /\ store.tasks <= store'.tasks
  BY <1>3, StoreKept
<1>7. ASSUME NEW s \in Slots PROVE call'[s] \in Call /\ CallOK(call[s])'
  <2>1. PICK c \in Call : c = call[s] /\ CallOK(c)
    BY StateTypes DEF IInv
  <2>2. call'[s] = Unmounted(c)
    BY <1>5, <2>1
  <2>3. Unmounted(c) \in Call /\ CallOK(Unmounted(c))'
    BY <1>2, <1>3, <1>6, <2>1, UnmountedCall
  <2> QED BY <2>2, <2>3 DEF CallOK
<1>8. call' \in [Slots -> Call]
  BY <1>5, <1>7
<1>9. TypeOK'
  BY <1>2, <1>3, <1>4, <1>8, StateTypes, TypesBack
<1>10. FormOK'
  BY <1>1, <1>2, <1>3 DEF IInv, FormOK, VerdictIsOfTheCard
<1> QED BY <1>3, <1>6, <1>7, <1>9, <1>10, CacheKept DEF IInv

\* What arrives may add a card, and changes none that is there.
LEMMA DetailIInv ==
  ASSUME IInv, NEW x \in Receipts, Detail(x)
  PROVE  IInv'
<1>1. UNCHANGED <<demo, tour, page, form, call, cache, store, acked>>
  BY DEF Detail
<1>2. detail \in [Receipts -> {"none", "asked", "known"}] /\ detail[x] = "asked"
  BY StateTypes DEF Detail
<1>3. /\ detail' \in [Receipts -> {"none", "asked", "known"}]
      /\ \A y \in Receipts : detail[y] = "known" => detail'[y] = "known"
  BY <1>2 DEF Detail
<1>4. TypeOK'
  BY <1>1, <1>3, StateTypes, TypesBack
<1>5. Card # Nothing => Card' = Card
  BY <1>1, <1>3 DEF IInv, FormOK, Card
<1>6. FormOK'
  BY <1>1, <1>5 DEF IInv, FormOK, VerdictIsOfTheCard
<1>7. ASSUME NEW s \in Slots PROVE CallOK(call[s])'
  <2>1. CallOK(call[s]) /\ call'[s] = call[s]
    BY <1>1 DEF IInv
  <2>2. Nothing \notin Receipts
    BY StateTypes, NothingAssumption DEF Receipts
  <2>3. call[s].op = "verify" /\ call[s].here => call[s].number = Card'
    BY <1>5, <2>1, <2>2 DEF CallOK
  <2> QED BY <1>1, <2>1, <2>3 DEF CallOK
<1> QED BY <1>1, <1>4, <1>6, <1>7, StoreKept, CacheKept DEF IInv

\* A page that is left is waited for by nothing; the next starts afresh.
LEMMA LeaveIInv ==
  ASSUME IInv, NEW p \in Pages, Leave(p)
  PROVE  IInv'
<1>1. page' = p /\ p \in tour /\ form' = Fresh(p) /\ UNCHANGED <<demo, tour, detail, store, acked>>
  BY DEF Leave
<1>2. /\ form' \in Form /\ form'.draft = Nothing /\ form'.verdict = Nothing /\ form'.sel = Nothing
      /\ (p = "constitution" => form'.text = DefaultText)
  BY <1>1, StartTypes
<1>3. call' = [s \in Slots |-> [call[s] EXCEPT !.here = FALSE]]
  BY DEF Leave
<1>4. StoreOK' /\ DemoIsReadOnly' /\ store' \in Store /\ store.rev <= store'.rev
      /\ store.tasks <= store'.tasks
  BY <1>1, StoreKept
<1>5. ASSUME NEW s \in Slots PROVE call'[s] \in Call /\ CallOK(call[s])'
  <2>1. PICK c \in Call : c = call[s] /\ CallOK(c)
    BY StateTypes DEF IInv
  <2>2. call'[s] = [c EXCEPT !.here = FALSE]
    BY <1>3, <2>1
  <2>3. [c EXCEPT !.here = FALSE] \in Call /\ CallOK([c EXCEPT !.here = FALSE])'
    BY <1>4, <2>1, HiddenCall
  <2> QED BY <2>2, <2>3 DEF CallOK
<1>6. ASSUME NEW k \in Keys PROVE cache'[k] \in Query /\ Current(k, cache'[k])
  <2>1. cache[k] \in Query /\ Current(k, cache[k])
    BY StateTypes DEF IInv
  <2>2. cache'[k] = Mounted(cache[k]) \/ cache'[k] = cache[k]
    BY DEF Leave
  <2> QED BY <2>1, <2>2, MountedCurrent
<1>7. call' \in [Slots -> Call] /\ cache' \in [Keys -> Query]
  BY <1>3, <1>5, <1>6 DEF Leave
<1>8. TypeOK'
  BY <1>1, <1>2, <1>7, StateTypes, TypesBack
<1>9. FormOK'
  BY <1>1, <1>2, CompilerAssumption DEF FormOK, VerdictIsOfTheCard
<1>10. \A k \in Keys : Current(k, cache[k])'
  BY <1>1, <1>6 DEF Current, Version
<1> QED BY <1>4, <1>5, <1>8, <1>9, <1>10 DEF IInv

-----------------------------------------------------------------------------
\* The API

\* A constitution is stored with the text it comes with: a page sends a policy of it.
LEMMA ConstitutionsGrow ==
  ASSUME IInv, NEW t \in Texts, NEW h \in Policies, NEW mine \in BOOLEAN,
         SaveConstitution(t, h, mine), mine => Compiled[t] = h
  PROVE  /\ store' \in Store /\ StoreOK' /\ store'.rev = store.rev + 1
         /\ store.rev <= store'.rev /\ store.tasks <= store'.tasks
<1> DEFINE row  == [text |-> t, rev |-> store.rev + 1, mine |-> mine]
           rows == [store.rows EXCEPT ![h] = row]
           next == [store EXCEPT !.rev = @ + 1, !.rows = rows]
<1>1. store \in Store /\ StoreOK /\ MaxRevision \in Nat
  BY StateTypes DEF IInv
<1>2. store.rows \in [Policies -> Row] /\ store.rev \in 0..MaxRevision /\ store.tasks \in Nat
  BY <1>1, StateTypes DEF Store
<1>3. store.rev + 1 \in 0..MaxRevision /\ store.rev + 1 \in Nat
  BY <1>1, <1>2 DEF SaveConstitution
<1>4. row \in Row /\ row.text = t /\ row.mine = mine
  BY <1>3 DEF Row
<1>5. store' = next
  BY DEF SaveConstitution
<1> HIDE DEF row
<1>6. /\ rows \in [Policies -> Row] /\ rows[h] = row
      /\ \A g \in Policies : g # h => rows[g] = store.rows[g]
  BY <1>2, <1>4
<1> HIDE DEF rows
<1>7. next \in Store /\ next.rev = store.rev + 1 /\ next.rows = rows /\ next.tasks = store.tasks
  BY <1>1, <1>3, <1>6 DEF Store
<1> HIDE DEF next
<1>8. StoreOK'
  <2> SUFFICES ASSUME NEW g \in Policies, rows[g].mine
               PROVE  rows[g].text \in Texts /\ Compiled[rows[g].text] = g
    BY <1>5, <1>7 DEF StoreOK
  <2>1. CASE g = h
    BY <1>4, <1>6, <2>1
  <2>2. CASE g # h
    BY <1>1, <1>6, <2>2 DEF StoreOK
  <2> QED BY <2>1, <2>2
<1> QED BY <1>2, <1>5, <1>7, <1>8

\* A receipt is added.
LEMMA ReceiptsGrow ==
  ASSUME IInv, SaveReceipt
  PROVE  /\ store' \in Store /\ StoreOK' /\ store.receipts + 1 \in Receipts
         /\ store.rev <= store'.rev /\ store.tasks <= store'.tasks
<1> DEFINE next == [store EXCEPT !.receipts = @ + 1]
<1>1. store \in Store /\ StoreOK /\ MaxReceipts \in Nat
  BY StateTypes DEF IInv
<1>2. store.rev \in Nat /\ store.receipts \in 0..MaxReceipts /\ store.tasks \in Nat
  BY <1>1, StateTypes DEF Store
<1>3. /\ store.receipts + 1 \in 0..MaxReceipts /\ store.receipts + 1 \in Receipts
      /\ store' = next
  BY <1>1, <1>2 DEF SaveReceipt, Receipts
<1>4. /\ next \in Store /\ next.rev = store.rev /\ next.rows = store.rows
      /\ next.tasks = store.tasks
  BY <1>1, <1>3 DEF Store
<1> HIDE DEF next
<1> QED BY <1>1, <1>2, <1>3, <1>4 DEF StoreOK

\* A task is added.
LEMMA TasksGrow ==
  ASSUME IInv, SaveTask
  PROVE  /\ store' \in Store /\ StoreOK' /\ store'.tasks = store.tasks + 1
         /\ store.rev <= store'.rev /\ store.tasks <= store'.tasks
<1> DEFINE next == [store EXCEPT !.tasks = @ + 1]
<1>1. store \in Store /\ StoreOK /\ MaxTasks \in Nat
  BY StateTypes DEF IInv
<1>2. store.rev \in Nat /\ store.tasks \in 0..MaxTasks
  BY <1>1, StateTypes DEF Store
<1>3. store.tasks + 1 \in 0..MaxTasks /\ store' = next
  BY <1>1, <1>2 DEF SaveTask
<1>4. /\ next \in Store /\ next.rev = store.rev /\ next.rows = store.rows
      /\ next.tasks = store.tasks + 1
  BY <1>1, <1>3 DEF Store
<1> HIDE DEF next
<1> QED BY <1>1, <1>2, <1>3, <1>4 DEF StoreOK

\* The proxy of a demo forwards nothing that writes.
LEMMA DemoForwards ==
  ASSUME demo
  PROVE  /\ ~Forwarded("POST", "constitution/approve") /\ ~Forwarded("POST", "intent")
         /\ ~Forwarded("POST", "agent/tasks")
  BY DEF Forwarded, publicDemoAllows, PostRoutes, GetRoutes

\* A request that was refused.
LEMMA RefusedIInv ==
  ASSUME IInv, NEW s \in Slots, Refused(s)
  PROVE  IInv'
<1>1. PICK c \in Call : c = call[s] /\ CallOK(c)
  BY StateTypes DEF IInv
<1>2. PICK d : d = [c EXCEPT !.at = "answered", !.ok = FALSE]
  OBVIOUS
<1>3. /\ d \in Call /\ d.op = c.op /\ d.text = c.text /\ d.policy = c.policy
      /\ d.number = c.number /\ d.ok = FALSE /\ d.here = c.here
  BY <1>2 DEF Call
<1>4. call' = [call EXCEPT ![s] = d] /\ UNCHANGED <<demo, tour, page, form, cache, detail, store, acked>>
  BY <1>1, <1>2 DEF Refused, Answers
<1>5. FormOK' /\ Card' = Card
  BY <1>4, FormKept
<1>6. CallOK(d)'
  BY <1>1, <1>3, <1>4, <1>5 DEF CallOK
<1>7. form' \in Form
  BY <1>4, StateTypes
<1> QED BY <1>3, <1>4, <1>5, <1>6, <1>7, StoreKept, OneCall

\* Another client writes a row that claims no text, a receipt or a task.
LEMMA ElsewhereIInv ==
  ASSUME IInv, Elsewhere
  PROVE  IInv'
<1>1. UNCHANGED <<demo, tour, page, form, call, cache, detail, acked>>
  BY DEF Elsewhere
<1>2. /\ \/ \E h \in Policies : SaveConstitution(DefaultText, h, FALSE)
         \/ SaveReceipt \/ SaveTask
      /\ ~demo
  BY DemoForwards DEF Elsewhere
<1>3. /\ store' \in Store /\ StoreOK' /\ store.rev <= store'.rev /\ store.tasks <= store'.tasks
  <2>1. CASE SaveReceipt
    BY <2>1, ReceiptsGrow
  <2>2. CASE SaveTask
    BY <2>2, TasksGrow
  <2>3. CASE \E h \in Policies : SaveConstitution(DefaultText, h, FALSE)
    <3>1. PICK h \in Policies : SaveConstitution(DefaultText, h, FALSE)
      BY <2>3
    <3> QED BY <3>1, ConstitutionsGrow, CompilerAssumption
  <2> QED BY <1>2, <2>1, <2>2, <2>3
<1>4. TypeOK'
  BY <1>1, <1>3, StateTypes, TypesBack
<1>5. FormOK' /\ Card' = Card
  BY <1>1, FormKept
<1>6. DemoIsReadOnly'
  BY <1>1, <1>2 DEF DemoIsReadOnly
<1>7. ASSUME NEW s \in Slots PROVE CallOK(call[s])'
  <2>1. PICK c \in Call : c = call[s] /\ CallOK(c)
    BY StateTypes DEF IInv
  <2>2. CallOK(c)'
    BY <1>1, <1>3, <1>5, <2>1, CallKept
  <2>3. call'[s] = c
    BY <1>1, <2>1
  <2> QED BY <2>2, <2>3 DEF CallOK
<1> QED BY <1>1, <1>3, <1>4, <1>5, <1>6, <1>7, CacheKept DEF IInv

\* A request that is handled, whatever comes of its answer.
LEMMA HandledIInv ==
  ASSUME IInv, NEW s \in Slots, Handled(s)
  PROVE  IInv'
<1>1. PICK c \in Call : c = call[s] /\ CallOK(c)
  BY StateTypes DEF IInv
<1>2. UNCHANGED <<demo, tour, page, form, cache, detail, acked>>
  BY DEF Handled
<1>3. FormOK' /\ Card' = Card /\ form' \in Form
  BY <1>2, FormKept, StateTypes
<1>4. Forwarded(RouteOf(c.op)[1], RouteOf(c.op)[2])
  BY <1>1 DEF Handled
<1>5. store.rev \in Nat /\ store.tasks \in Nat /\ c.number \in Nat /\ MaxReceipts \in Nat
  BY StateTypes DEF Store, Call
<1> DEFINE Writes(d) == /\ store' \in Store /\ StoreOK' /\ DemoIsReadOnly'
                        /\ store.rev <= store'.rev /\ store.tasks <= store'.tasks
                        /\ d \in Call /\ CallOK(d)' /\ call' = [call EXCEPT ![s] = d]
<1>6. ASSUME NEW d, Writes(d) PROVE IInv'
  BY <1>2, <1>3, <1>6, OneCall
<1>7. PICK ok \in BOOLEAN :
       \/ /\ c.op = "compile"
          /\ Answers(s, ok, [c EXCEPT !.policy = Compiled[c.text]]) /\ UNCHANGED store
       \/ /\ c.op = "approve" /\ SaveConstitution(c.text, c.policy, TRUE)
          /\ Answers(s, ok, [c EXCEPT !.number = store.rev + 1])
       \/ /\ c.op = "run" /\ Active # {} /\ SaveReceipt
          /\ \E awaits \in BOOLEAN :
               /\ awaits => ~c.confirm
               /\ Answers(s, ok, [c EXCEPT !.number = store.receipts + 1, !.awaits = awaits])
       \/ /\ c.op = "task" /\ SaveTask
          /\ Answers(s, ok, [c EXCEPT !.number = store.tasks + 1])
       \/ c.op = "verify" /\ Answers(s, ok, c) /\ UNCHANGED store
  BY <1>1 DEF Handled
<1>8. CASE /\ c.op = "compile"
           /\ Answers(s, ok, [c EXCEPT !.policy = Compiled[c.text]]) /\ UNCHANGED store
  <2>1. c.text \in Texts /\ Compiled[c.text] \in Policies
    BY <1>1, <1>8, CompilerAssumption DEF CallOK
  <2>2. PICK d : d = [[c EXCEPT !.policy = Compiled[c.text]] EXCEPT !.at = "answered", !.ok = ok]
    OBVIOUS
  <2>3. /\ d \in Call /\ d.op = "compile" /\ d.text = c.text /\ d.policy = Compiled[c.text]
        /\ d.here = c.here
    BY <1>8, <2>1, <2>2 DEF Call
  <2>4. call' = [call EXCEPT ![s] = d]
    BY <1>8, <2>2 DEF Answers
  <2>5. CallOK(d)'
    BY <1>1, <1>2, <1>8, <2>1, <2>3 DEF CallOK
  <2>6. Writes(d)
    BY <1>2, <1>8, <2>3, <2>4, <2>5, StoreKept
  <2> QED BY <1>6, <2>6
<1>9. CASE /\ c.op = "approve" /\ SaveConstitution(c.text, c.policy, TRUE)
           /\ Answers(s, ok, [c EXCEPT !.number = store.rev + 1])
  <2>0. c.op = "approve" /\ store.rev + 1 \in Nat
    BY <1>5, <1>9
  <2>1. c.text \in Texts /\ c.policy = Compiled[c.text] /\ c.policy \in Policies
    BY <1>1, <1>9, CompilerAssumption DEF CallOK
  <2>2. PICK d : d = [[c EXCEPT !.number = store.rev + 1] EXCEPT !.at = "answered", !.ok = ok]
    OBVIOUS
  <2>3. /\ d \in Call /\ d.op = "approve" /\ d.text = c.text /\ d.policy = c.policy
        /\ d.number = store.rev + 1
    BY <2>0, <2>2 DEF Call
  <2>4. call' = [call EXCEPT ![s] = d]
    BY <1>9, <2>2 DEF Answers
  <2>5. /\ store' \in Store /\ StoreOK' /\ store'.rev = store.rev + 1
        /\ store.rev <= store'.rev /\ store.tasks <= store'.tasks
    BY <1>9, <2>1, ConstitutionsGrow
  <2>6. CallOK(d)'
    BY <1>5, <2>1, <2>3, <2>5 DEF CallOK
  <2>7. RouteOf(c.op) = <<"POST", "constitution/approve">>
    BY <1>9 DEF RouteOf
  <2>8. DemoIsReadOnly'
    BY <1>2, <1>4, <2>7, DemoForwards DEF DemoIsReadOnly
  <2>9. Writes(d)
    BY <2>3, <2>4, <2>5, <2>6, <2>8
  <2> QED BY <1>6, <2>9
<1>10. CASE /\ c.op = "run" /\ Active # {} /\ SaveReceipt
            /\ \E awaits \in BOOLEAN :
                 /\ awaits => ~c.confirm
                 /\ Answers(s, ok, [c EXCEPT !.number = store.receipts + 1, !.awaits = awaits])
  <2>1. PICK awaits \in BOOLEAN :
          Answers(s, ok, [c EXCEPT !.number = store.receipts + 1, !.awaits = awaits])
    BY <1>10
  <2>2. PICK d : d = [[c EXCEPT !.number = store.receipts + 1, !.awaits = awaits]
                        EXCEPT !.at = "answered", !.ok = ok]
    OBVIOUS
  <2>3. /\ store' \in Store /\ StoreOK' /\ store.receipts + 1 \in Receipts
        /\ store.rev <= store'.rev /\ store.tasks <= store'.tasks
    BY <1>10, ReceiptsGrow
  <2>4. store.receipts + 1 \in Nat
    BY <1>5, <2>3 DEF Receipts
  <2>5. d \in Call /\ d.op = "run" /\ d.number = store.receipts + 1
    BY <1>10, <2>2, <2>4 DEF Call
  <2>6. call' = [call EXCEPT ![s] = d]
    BY <2>1, <2>2 DEF Answers
  <2>7. CallOK(d)'
    BY <2>3, <2>5 DEF CallOK
  <2>8. RouteOf(c.op) = <<"POST", "intent">>
    BY <1>10 DEF RouteOf
  <2>9. DemoIsReadOnly'
    BY <1>2, <1>4, <2>8, DemoForwards DEF DemoIsReadOnly
  <2>10. Writes(d)
    BY <2>3, <2>5, <2>6, <2>7, <2>9
  <2> QED BY <1>6, <2>10
<1>11. CASE /\ c.op = "task" /\ SaveTask
            /\ Answers(s, ok, [c EXCEPT !.number = store.tasks + 1])
  <2>0. c.op = "task" /\ store.tasks + 1 \in Nat
    BY <1>5, <1>11
  <2>1. PICK d : d = [[c EXCEPT !.number = store.tasks + 1] EXCEPT !.at = "answered", !.ok = ok]
    OBVIOUS
  <2>2. d \in Call /\ d.op = "task" /\ d.number = store.tasks + 1
    BY <2>0, <2>1 DEF Call
  <2>3. call' = [call EXCEPT ![s] = d]
    BY <1>11, <2>1 DEF Answers
  <2>4. /\ store' \in Store /\ StoreOK' /\ store'.tasks = store.tasks + 1
        /\ store.rev <= store'.rev /\ store.tasks <= store'.tasks
    BY <1>11, TasksGrow
  <2>5. CallOK(d)'
    BY <1>5, <2>2, <2>4 DEF CallOK
  <2>6. RouteOf(c.op) = <<"POST", "agent/tasks">>
    BY <1>11 DEF RouteOf
  <2>7. DemoIsReadOnly'
    BY <1>2, <1>4, <2>6, DemoForwards DEF DemoIsReadOnly
  <2>8. Writes(d)
    BY <2>2, <2>3, <2>4, <2>5, <2>7
  <2> QED BY <1>6, <2>8
<1>12. CASE c.op = "verify" /\ Answers(s, ok, c) /\ UNCHANGED store
  <2>1. PICK d : d = [c EXCEPT !.at = "answered", !.ok = ok]
    OBVIOUS
  <2>2. d \in Call /\ d.op = "verify" /\ d.number = c.number /\ d.here = c.here
    BY <1>12, <2>1 DEF Call
  <2>3. call' = [call EXCEPT ![s] = d]
    BY <1>12, <2>1 DEF Answers
  <2>4. CallOK(d)'
    BY <1>1, <1>3, <1>12, <2>2 DEF CallOK
  <2>5. Writes(d)
    BY <1>2, <1>12, <2>2, <2>3, <2>4, StoreKept
  <2> QED BY <1>6, <2>5
<1> QED BY <1>7, <1>8, <1>9, <1>10, <1>11, <1>12

-----------------------------------------------------------------------------
\* Answers

\* A form that notes the end of its run, or shows a draft or a verdict.
LEMMA EndedForm ==
  ASSUME IInv, NEW s \in Slots
  PROVE  /\ Ended(s) \in Form /\ Ended(s).text = form.text /\ Ended(s).draft = form.draft
         /\ Ended(s).shown = form.shown /\ Ended(s).sel = form.sel
         /\ Ended(s).verdict = form.verdict
<1>1. PICK f \in Form : f = form
  BY StateTypes
<1>2. \E l \in Slots \cup {Nothing} : Ended(s) = [f EXCEPT !.last = l]
  <2>1. f.last \in Slots \cup {Nothing}
    BY DEF Form
  <2>2. CASE form.last = s /\ call[s].here
    <3>1. Ended(s) = [f EXCEPT !.last = Nothing]
      BY <1>1, <2>2 DEF Ended
    <3> QED BY <3>1
  <2>3. CASE ~(form.last = s /\ call[s].here)
    <3>1. Ended(s) = [f EXCEPT !.last = f.last]
      BY <1>1, <2>3 DEF Ended
    <3> QED BY <2>1, <3>1
  <2> QED BY <2>2, <2>3
<1>3. PICK l \in Slots \cup {Nothing} : Ended(s) = [f EXCEPT !.last = l]
  BY <1>2
<1>4. PICK e : e = [f EXCEPT !.last = l]
  OBVIOUS
<1>5. /\ e \in Form /\ e.text = f.text /\ e.draft = f.draft /\ e.shown = f.shown
      /\ e.sel = f.sel /\ e.verdict = f.verdict
  BY <1>4, FormUpdate
<1>6. Ended(s) = e
  BY <1>3, <1>4
<1> QED BY <1>1, <1>5, <1>6

\* A slot is freed by a page whose text and card stay.
LEMMA FreedIInv ==
  ASSUME IInv, NEW s \in Slots, call' = Freed(s),
         form' \in Form, form'.text = form.text, form'.shown = form.shown, form'.sel = form.sel,
         FormOK', UNCHANGED <<demo, tour, page, cache, detail, store, acked>>
  PROVE  IInv'
<1>1. NoCall \in Call /\ CallOK(NoCall)' /\ call' = [call EXCEPT ![s] = NoCall]
  BY StartTypes, FreeCall DEF Freed
<1>2. Card' = Card
  BY CardKept
<1> QED BY <1>1, <1>2, StoreKept, OneCall

\* A failure is shown and changes nothing else.
LEMMA FailedIInv ==
  ASSUME IInv, NEW s \in Slots, Failed(s)
  PROVE  IInv'
<1>1. /\ form' = Ended(s) /\ call' = Freed(s)
      /\ UNCHANGED <<demo, tour, page, cache, detail, store, acked>>
  BY DEF Failed
<1>2. /\ form' \in Form /\ form'.text = form.text /\ form'.draft = form.draft
      /\ form'.shown = form.shown /\ form'.sel = form.sel /\ form'.verdict = form.verdict
  BY <1>1, EndedForm
<1>3. FormOK'
  BY <1>1, <1>2, FormKept
<1> QED BY <1>1, <1>2, <1>3, FreedIInv

\* The draft that arrives is of the text that stands there.
LEMMA CompilesIInv ==
  ASSUME IInv, NEW s \in Slots, Compiles(s)
  PROVE  IInv'
<1>1. PICK c \in Call : c = call[s] /\ CallOK(c)
  BY StateTypes DEF IInv
<1>2. /\ c.op = "compile" /\ c.at = "answered" /\ c.ok /\ call' = Freed(s)
      /\ UNCHANGED <<demo, tour, page, cache, detail, store, acked>>
      /\ form' = IF c.here THEN [form EXCEPT !.draft = c.policy] ELSE form
  BY <1>1 DEF Compiles
<1>3. form \in Form /\ FormOK
  BY StateTypes DEF IInv
<1>4. CASE c.here
  <2>1. c.text \in Texts /\ c.policy = Compiled[c.text] /\ c.text = form.text
    BY <1>1, <1>2, <1>4 DEF CallOK
  <2>2. c.policy \in Policies
    BY <2>1, CompilerAssumption
  <2>3. form' = [form EXCEPT !.draft = c.policy]
    BY <1>2, <1>4
  <2>4. /\ form' \in Form /\ form'.text = form.text /\ form'.draft = c.policy
        /\ form'.shown = form.shown /\ form'.sel = form.sel /\ form'.verdict = form.verdict
    BY <1>3, <2>2, <2>3 DEF Form
  <2>5. Card' = Card
    BY <1>2, <2>4, CardKept
  <2>6. FormOK'
    BY <1>2, <1>3, <2>1, <2>4, <2>5 DEF FormOK, VerdictIsOfTheCard
  <2> QED BY <1>2, <2>4, <2>6, FreedIInv
<1>5. CASE ~c.here
  <2>1. form' = form
    BY <1>2, <1>5
  <2>2. FormOK'
    BY <1>2, <2>1, FormKept
  <2> QED BY <1>2, <1>3, <2>1, <2>2, FreedIInv
<1> QED BY <1>4, <1>5

\* A verdict that arrives finds the card it is of.
LEMMA VerifiesIInv ==
  ASSUME IInv, NEW s \in Slots, Verifies(s)
  PROVE  IInv'
<1>1. PICK c \in Call : c = call[s] /\ CallOK(c)
  BY StateTypes DEF IInv
<1>2. /\ c.op = "verify" /\ call' = Freed(s)
      /\ UNCHANGED <<demo, tour, page, cache, detail, store, acked>>
      /\ form' = IF c.here THEN [form EXCEPT !.verdict = c.number] ELSE form
  BY <1>1 DEF Verifies
<1>3. form \in Form /\ FormOK
  BY StateTypes DEF IInv
<1>4. CASE c.here
  <2>1. c.number \in Receipts /\ c.number = Card
    BY <1>1, <1>2, <1>4 DEF CallOK
  <2>2. form' = [form EXCEPT !.verdict = c.number]
    BY <1>2, <1>4
  <2>3. /\ form' \in Form /\ form'.text = form.text /\ form'.draft = form.draft
        /\ form'.shown = form.shown /\ form'.sel = form.sel /\ form'.verdict = c.number
    BY <1>3, <2>1, <2>2 DEF Form
  <2>4. Card' = Card
    BY <1>2, <2>3, CardKept
  <2>5. FormOK'
    BY <1>2, <1>3, <2>1, <2>3, <2>4 DEF FormOK, VerdictIsOfTheCard
  <2> QED BY <1>2, <2>3, <2>5, FreedIInv
<1>5. CASE ~c.here
  <2>1. form' = form
    BY <1>2, <1>5
  <2>2. FormOK'
    BY <1>2, <2>1, FormKept
  <2> QED BY <1>2, <1>3, <2>1, <2>2, FreedIInv
<1> QED BY <1>4, <1>5

\* The receipt of a run is a new card, unless its page is left.
LEMMA RunsIInv ==
  ASSUME IInv, NEW s \in Slots, Runs(s)
  PROVE  IInv'
<1>1. PICK c \in Call : c = call[s] /\ CallOK(c)
  BY StateTypes DEF IInv
<1>2. /\ c.op = "run" /\ c.at = "answered" /\ c.ok
      /\ UNCHANGED <<demo, tour, page, cache, detail, store, acked>>
  BY <1>1 DEF Runs
<1>3. form \in Form /\ FormOK
  BY StateTypes DEF IInv
<1>4. CASE c.here
  <2>1. c.number \in Receipts /\ c.awaits \in BOOLEAN
    BY <1>1, <1>2 DEF CallOK, Call
  <2>2. PICK e \in Form : e = Ended(s) /\ e.text = form.text /\ e.draft = form.draft /\ e.sel = form.sel
    BY EndedForm
  <2>3. form' = [e EXCEPT !.shown = c.number, !.awaits = c.awaits, !.verdict = Nothing]
    BY <1>1, <1>4, <2>2 DEF Runs
  <2>4. /\ form' \in Form /\ form'.text = form.text /\ form'.draft = form.draft
        /\ form'.sel = form.sel /\ form'.verdict = Nothing
    BY <2>1, <2>2, <2>3 DEF Form
  <2>5. FormOK'
    BY <1>2, <1>3, <2>4 DEF FormOK, VerdictIsOfTheCard
  <2>6. call' = [x \in Slots |-> IF x = s THEN NoCall ELSE Unmounted(call[x])]
    BY <1>1, <1>4 DEF Runs
  <2>7. StoreOK' /\ DemoIsReadOnly' /\ store' \in Store /\ store.rev <= store'.rev
        /\ store.tasks <= store'.tasks
    BY <1>2, StoreKept
  <2>8. ASSUME NEW x \in Slots PROVE call'[x] \in Call /\ CallOK(call[x])'
    <3>1. CASE x = s
      <4>1. call'[x] = NoCall
        BY <2>6, <3>1
      <4> QED BY <4>1, StartTypes, FreeCall DEF CallOK
    <3>2. CASE x # s
      <4>1. PICK d \in Call : d = call[x] /\ CallOK(d)
        BY StateTypes DEF IInv
      <4>2. call'[x] = Unmounted(d)
        BY <2>6, <3>2, <4>1
      <4>3. Unmounted(d) \in Call /\ CallOK(Unmounted(d))'
        BY <1>2, <2>4, <2>7, <4>1, UnmountedCall
      <4> QED BY <4>2, <4>3 DEF CallOK
    <3> QED BY <3>1, <3>2
  <2>9. call' \in [Slots -> Call]
    BY <2>6, <2>8
  <2>10. TypeOK'
    BY <1>2, <2>4, <2>9, StateTypes, TypesBack
  <2> QED BY <1>2, <2>5, <2>7, <2>8, <2>10, CacheKept DEF IInv
<1>5. CASE ~c.here
  <2>1. form' = form /\ call' = Freed(s)
    BY <1>1, <1>5 DEF Runs
  <2>2. FormOK'
    BY <1>2, <2>1, FormKept
  <2> QED BY <1>2, <1>3, <2>1, <2>2, FreedIInv
<1> QED BY <1>4, <1>5

\* An invalidation leaves nothing that could pass for fresh, whatever was acknowledged.
LEMMA InvalidatedCurrent ==
  ASSUME NEW q \in Query, NEW k \in Keys
  PROVE  LET r == Invalidated(q, k \in KeysOf(page)) IN
         /\ r \in Query
         /\ r.at = "sent" \/ (r.at = "idle" /\ r.stale) \/ (r.at # "idle" /\ r.late)
<1>1. PICK u : u = [q EXCEPT !.stale = TRUE]
  OBVIOUS
<1>2. PICK v : v = [q EXCEPT !.stale = TRUE, !.late = q.at # "idle"]
  OBVIOUS
<1>3. u \in Query
  BY <1>1 DEF Query
<1>4. Asked(u) \in Query /\ Asked(u).at = "sent"
  BY <1>3 DEF Asked, Query
<1>5. v \in Query /\ v.at = q.at /\ v.stale /\ (v.late <=> q.at # "idle")
  BY <1>2 DEF Query
<1>6. CASE k \in KeysOf(page) /\ (q.at = "idle" \/ q.seen # Nothing)
  <2>1. Invalidated(q, k \in KeysOf(page)) = Asked(u)
    BY <1>1, <1>6 DEF Invalidated
  <2> QED BY <1>4, <2>1
<1>7. CASE ~(k \in KeysOf(page) /\ (q.at = "idle" \/ q.seen # Nothing))
  <2>1. Invalidated(q, k \in KeysOf(page)) = v
    BY <1>2, <1>7 DEF Invalidated
  <2> QED BY <1>5, <2>1
<1> QED BY <1>6, <1>7

\* A write that was answered is in the table, and its key is invalidated.
LEMMA AcknowledgedCurrent ==
  ASSUME IInv, NEW k \in Keys, NEW number \in Nat, Acknowledged(k, number),
         number <= Version(k), UNCHANGED <<page, store>>
  PROVE  /\ acked' \in [Keys -> Nat] /\ cache' \in [Keys -> Query]
         /\ \A x \in Keys : Current(x, cache[x])'
<1>1. acked \in [Keys -> Nat] /\ cache \in [Keys -> Query]
  BY StateTypes
<1>2. PICK m \in Nat : m = IF number > acked[k] THEN number ELSE acked[k]
  BY <1>1
<1>3. acked' = [acked EXCEPT ![k] = m]
  BY <1>1, <1>2 DEF Acknowledged
<1>5. PICK r \in Query :
        /\ r = Invalidated(cache[k], k \in KeysOf(page))
        /\ r.at = "sent" \/ (r.at = "idle" /\ r.stale) \/ (r.at # "idle" /\ r.late)
  BY <1>1, InvalidatedCurrent
<1>6. cache' = [cache EXCEPT ![k] = r]
  BY <1>1, <1>5 DEF Acknowledged
<1>7. ASSUME NEW x \in Keys PROVE Current(x, cache[x])'
  <2>1. Version(x) \in Nat /\ acked[x] \in Nat /\ acked[x] <= Version(x) /\ Version(x)' = Version(x)
    BY VersionType DEF Version
  <2>2. CASE x = k
    <3>1. acked'[x] = m /\ cache'[x] = r /\ m <= Version(x)
      BY <1>1, <1>2, <1>3, <1>6, <2>1, <2>2
    <3>2. acked'[x] <= Version(x)'
      BY <2>1, <3>1
    <3>3. /\ r.at = "back" => r.late
          /\ r.at = "idle" => r.stale
      BY <1>5
    <3> QED BY <3>1, <3>2, <3>3 DEF Current
  <2>3. CASE x # k
    <3>1. acked'[x] = acked[x] /\ cache'[x] = cache[x] /\ Current(x, cache[x])
      BY <1>1, <1>3, <1>6, <2>3 DEF IInv
    <3> QED BY <2>1, <3>1 DEF Current
  <2> QED BY <2>2, <2>3
<1>8. acked' \in [Keys -> Nat] /\ cache' \in [Keys -> Query]
  BY <1>1, <1>3, <1>6
<1> QED BY <1>7, <1>8

\* An acknowledged write on a page whose text and card stay.
LEMMA AcknowledgedIInv ==
  ASSUME IInv, NEW s \in Slots, NEW k \in Keys, NEW number \in Nat, Acknowledged(k, number),
         number <= Version(k), call' = Freed(s), form' \in Form, form'.text = form.text,
         form'.shown = form.shown, form'.sel = form.sel, FormOK',
         UNCHANGED <<demo, tour, page, detail, store>>
  PROVE  IInv'
<1>1. /\ acked' \in [Keys -> Nat] /\ cache' \in [Keys -> Query]
      /\ \A x \in Keys : Current(x, cache[x])'
  BY AcknowledgedCurrent
<1>2. Card' = Card
  BY CardKept
<1>3. StoreOK' /\ DemoIsReadOnly' /\ store' \in Store /\ store.rev <= store'.rev
      /\ store.tasks <= store'.tasks
  BY StoreKept
<1>4. call \in [Slots -> Call] /\ call' = [call EXCEPT ![s] = NoCall]
  BY StateTypes DEF Freed
<1>5. ASSUME NEW x \in Slots PROVE call'[x] \in Call /\ CallOK(call[x])'
  <2>1. CASE x = s
    <3>1. call'[x] = NoCall
      BY <1>4, <2>1
    <3> QED BY <3>1, StartTypes, FreeCall DEF CallOK
  <2>2. CASE x # s
    <3>1. PICK d \in Call : d = call[x] /\ CallOK(d)
      BY StateTypes DEF IInv
    <3>2. CallOK(d)'
      BY <1>2, <1>3, <3>1, CallKept
    <3>3. call'[x] = d
      BY <1>4, <2>2, <3>1
    <3> QED BY <3>2, <3>3 DEF CallOK
  <2> QED BY <2>1, <2>2
<1>6. call' \in [Slots -> Call]
  BY <1>4, StartTypes
<1>7. TypeOK'
  BY <1>1, <1>6, StateTypes, TypesBack
<1> QED BY <1>1, <1>3, <1>5, <1>7 DEF IInv

\* An approval, whether or not its page is still there.
LEMMA ApprovesIInv ==
  ASSUME IInv, NEW s \in Slots, Approves(s)
  PROVE  IInv'
<1>1. PICK c \in Call : c = call[s] /\ CallOK(c)
  BY StateTypes DEF IInv
<1>2. /\ c.op = "approve" /\ c.at = "answered" /\ c.ok /\ call' = Freed(s)
      /\ Acknowledged("constitution", c.number) /\ UNCHANGED <<demo, tour, page, detail, store>>
      /\ form' = IF c.here THEN [form EXCEPT !.draft = Nothing] ELSE form
  BY <1>1 DEF Approves
<1>3. c.number \in Nat /\ c.number <= Version("constitution") /\ "constitution" \in Keys
  BY <1>1, <1>2 DEF CallOK, Call, Version, Keys
<1>4. form \in Form /\ FormOK
  BY StateTypes DEF IInv
<1>5. /\ form' \in Form /\ form'.text = form.text /\ form'.draft \in {form.draft, Nothing}
      /\ form'.shown = form.shown /\ form'.sel = form.sel /\ form'.verdict = form.verdict
  BY <1>2, <1>4 DEF Form
<1>6. Card' = Card
  BY <1>2, <1>5, CardKept
<1>7. FormOK'
  BY <1>2, <1>4, <1>5, <1>6 DEF FormOK, VerdictIsOfTheCard
<1> QED BY <1>2, <1>3, <1>5, <1>7, AcknowledgedIInv

\* A task, likewise.
LEMMA TasksIInv ==
  ASSUME IInv, NEW s \in Slots, Tasks(s)
  PROVE  IInv'
<1>1. PICK c \in Call : c = call[s] /\ CallOK(c)
  BY StateTypes DEF IInv
<1>2. /\ c.op = "task" /\ c.at = "answered" /\ c.ok /\ call' = Freed(s)
      /\ Acknowledged("agent", c.number) /\ UNCHANGED <<demo, tour, page, form, detail, store>>
  BY <1>1 DEF Tasks
<1>3. c.number \in Nat /\ c.number <= Version("agent") /\ "agent" \in Keys
  BY <1>1, <1>2 DEF CallOK, Call, Version, Keys
<1>4. form' \in Form
  BY <1>2, StateTypes
<1>5. FormOK'
  BY <1>2, FormKept
<1> QED BY <1>2, <1>3, <1>4, <1>5, AcknowledgedIInv

-----------------------------------------------------------------------------
\* The pages

\* A page that is opened has asked for its tables, and nothing was written yet.
LEMMA InitIInv ==
  ASSUME Init
  PROVE  IInv
<1>1. demo \in BOOLEAN /\ tour \in Tours /\ page \in tour /\ form = Fresh(page)
  BY DEF Init
<1>2. page \in Pages
  BY <1>1, ToursAssumption
<1>3. /\ form \in Form /\ form.draft = Nothing /\ form.verdict = Nothing /\ form.sel = Nothing
      /\ (page = "constitution" => form.text = DefaultText)
  BY <1>1, <1>2, StartTypes
<1>4. call \in [Slots -> Call] /\ \A s \in Slots : call[s] = NoCall
  BY StartTypes DEF Init
<1>5. Asked(NoQuery) \in Query /\ Asked(NoQuery).at = "sent" /\ NoQuery \in Query
  BY StartTypes DEF Asked, Query
<1>6. cache \in [Keys -> Query] /\ \A k \in Keys : cache[k] \in {Asked(NoQuery), NoQuery}
  BY <1>5 DEF Init
<1>7. /\ detail \in [Receipts -> {"none", "asked", "known"}] /\ store = Empty
      /\ acked = [k \in Keys |-> 0]
  BY DEF Init
<1>8. NoRow \in Row /\ NoRow.mine = FALSE
  BY BoundsAssumption DEF NoRow, Row
<1>9. Empty \in Store /\ \A h \in Policies : Empty.rows[h].mine = FALSE
  BY <1>8, BoundsAssumption DEF Empty, Store
<1>10. TypeOK
  BY <1>1, <1>3, <1>4, <1>6, <1>7, <1>9 DEF TypeOK, Form, Call, Query, Row, Store
<1>11. FormOK /\ StoreOK /\ DemoIsReadOnly
  BY <1>3, <1>7, <1>9, CompilerAssumption
     DEF FormOK, VerdictIsOfTheCard, StoreOK, DemoIsReadOnly
<1>12. \A s \in Slots : CallOK(call[s])
  BY <1>4, StartTypes, NothingAssumption DEF CallOK, Ops
<1>13. ASSUME NEW k \in Keys PROVE Current(k, cache[k])
  <2>1. acked[k] = 0 /\ Version(k) = 0
    BY <1>7, StartTypes DEF Version, Keys
  <2>2. cache[k].at = "sent" \/ (cache[k].at = "idle" /\ cache[k].stale)
    BY <1>5, <1>6, StartTypes
  <2> QED BY <2>1, <2>2 DEF Current
<1> QED BY <1>10, <1>11, <1>12, <1>13 DEF IInv

\* What the user does.
LEMMA UserIInv ==
  ASSUME IInv, User
  PROVE  IInv'
<1>1. CASE \E p \in Pages : Leave(p)
  BY <1>1, LeaveIInv
<1>2. CASE \E t \in Texts : Types(t) \/ Explore(t)
  BY <1>2, TypesIInv, ExploreIInv
<1>3. CASE \E x \in Receipts : Select(x)
  BY <1>3, SelectIInv
<1>4. CASE \E s \in Slots : \/ Compile(s) \/ Approve(s) \/ Run(s) \/ RunTournament(s)
                            \/ Confirm(s) \/ Submit(s) \/ Probe(s) \/ Verify(s)
  BY <1>4, CompileIInv, ApproveIInv, RunsAreSent, VerifyIInv
<1> QED BY <1>1, <1>2, <1>3, <1>4 DEF User

\* What arrives.
LEMMA NetworkIInv ==
  ASSUME IInv, Network
  PROVE  IInv'
<1>1. CASE \E s \in Slots : \/ Refused(s) \/ Handled(s) \/ Failed(s) \/ Compiles(s)
                            \/ Approves(s) \/ Tasks(s) \/ Runs(s) \/ Verifies(s)
  BY <1>1, RefusedIInv, HandledIInv, FailedIInv, CompilesIInv, ApprovesIInv, TasksIInv,
     RunsIInv, VerifiesIInv
<1>2. CASE \E x \in Receipts : Detail(x)
  BY <1>2, DetailIInv
<1>3. CASE \E k \in Keys : QueryRead(k) \/ QueryShown(k) \/ QueryFails(k) \/ QueryAges(k)
  BY <1>3, QueryIInv
<1>4. CASE Refocus
  BY <1>4, RefocusIInv
<1> QED BY <1>1, <1>2, <1>3, <1>4 DEF Network

\* A step that changes nothing.
LEMMA StutterIInv ==
  ASSUME IInv, UNCHANGED vars
  PROVE  IInv'
<1>1. UNCHANGED <<demo, tour, page, form, call, cache, detail, store, acked>>
  BY DEF vars
<1>2. TypeOK'
  BY <1>1, StateTypes, TypesBack
<1>3. FormOK' /\ Card' = Card
  BY <1>1, FormKept
<1>4. \A s \in Slots : CallOK(call[s])'
  BY <1>1, <1>3 DEF IInv, CallOK
<1> QED BY <1>1, <1>2, <1>3, <1>4, StoreKept, CacheKept DEF IInv

-----------------------------------------------------------------------------
(* The theorems.                                                           *)

\* The inductive invariant of the pages, the proxy and the tables (Init, Next).
THEOREM Invariance == Spec => []IInv
<1>1. Init => IInv
  BY InitIInv
<1>2. IInv /\ [Next]_vars => IInv'
  BY UserIInv, NetworkIInv, ElsewhereIInv, StutterIInv DEF Next
<1> QED BY <1>1, <1>2, PTL DEF Spec

\* The variables of the pages, the proxy and the tables keep their types.
THEOREM TypeCorrect == Spec => []TypeOK
<1>1. IInv => TypeOK
  BY DEF IInv
<1> QED BY <1>1, Invariance, PTL

\* A public demo leaves the tables as they were, however many pages and other clients
\* send what they like (publicDemoAllows).
THEOREM DemoWritesNothing == Spec => []DemoIsReadOnly
<1>1. IInv => DemoIsReadOnly
  BY DEF IInv
<1> QED BY <1>1, Invariance, PTL

\* A constitution that a page approved is stored with the text it was compiled from:
\* the text is locked while it compiles, so a draft is of the text beside it
\* (constitution/page.tsx).
THEOREM PoliciesHaveTheirText == Spec => []StoredAsCompiled
<1>1. IInv => StoredAsCompiled
  BY DEF IInv, StoreOK, StoredAsCompiled
<1> QED BY <1>1, Invariance, PTL

\* What a page shows as fresh has the write it was told of (invalidateQueries).
THEOREM WritesAreRead == Spec => []ReadsItsWrites
<1>1. IInv => ReadsItsWrites
  BY DEF IInv, Current, ReadsItsWrites
<1> QED BY <1>1, Invariance, PTL

\* A verdict stands under the receipt it is of, however cards and answers come and go
\* (ReceiptCard, keyed by its receipt).
THEOREM VerdictsAreOfTheCard == Spec => []VerdictIsOfTheCard
<1>1. IInv => VerdictIsOfTheCard
  BY DEF IInv, FormOK
<1> QED BY <1>1, Invariance, PTL
===============================================================================
