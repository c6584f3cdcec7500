----------------------------- MODULE WebWorkspace -----------------------------
(***************************************************************************)
(* The supporting pages of the web application, the reverse proxy they all *)
(* call (app/api/[...path]/route.ts, lib/public-demo.ts) and the tables    *)
(* they read and write: the constitution, the terminal and the route       *)
(* inspector, the receipt archive, the explorer and the agent page.        *)
(*                                                                         *)
(* One page is mounted at a time. Leaving it forgets what was typed and    *)
(* shown; its requests go on, and so does the cache of the queries. The    *)
(* research desk is the subject of DecisionDesk, what a run does inside    *)
(* the API that of ExecutionPipeline.                                      *)
(***************************************************************************)
EXTENDS Naturals, Sequences, FiniteSets

CONSTANTS
  Texts,         \* what may be typed
  Policies,      \* hashes of constitutions
  Compiled,      \* what the compiler makes of a text
  DefaultText,   \* the text a form starts with
  Nothing,       \* null
  Tours,         \* the pages a user goes between (bound)
  Slots,         \* mutations that may be in flight (bound)
  MaxRevision, MaxReceipts, MaxTasks   \* bounds on the tables

Pages    == {"constitution", "terminal", "routes", "receipts", "explorer", "agent"}
Ops      == {"compile", "approve", "run", "task", "paid", "verify"}

ASSUME CompilerAssumption == Compiled \in [Texts -> Policies] /\ DefaultText \in Texts
ASSUME ToursAssumption    == \A tour \in Tours : tour \subseteq Pages /\ tour # {}
ASSUME BoundsAssumption   == {MaxRevision, MaxReceipts, MaxTasks} \subseteq Nat
ASSUME NothingAssumption  == Nothing \notin Ops \cup Texts \cup Policies \cup Slots \cup Nat

Receipts == 1..MaxReceipts

\* The pages that show a table they also write.
Keys == {"constitution", "agent"}
KeysOf(p) == {p} \cap Keys

VARIABLES
  demo,    \* EQUITYMUX_PUBLIC_DEMO is "true"
  tour,    \* the pages of this user
  page,    \* the mounted page
  form,    \* its state
  call,    \* the mutations, and the verification of a card
  cache,   \* the query of each key
  detail,  \* the query of each receipt
  store,   \* the tables
  acked    \* a history: the latest write to a table whose answer was shown

vars == <<demo, tour, page, form, call, cache, detail, store, acked>>

\* A row for each policy ever approved; the one with the latest revision is active.
NoRow    == [text |-> Nothing, rev |-> 0, mine |-> FALSE]
Empty    == [rows |-> [h \in Policies |-> NoRow], rev |-> 0, receipts |-> 0, tasks |-> 0]
Active   == {h \in Policies : store.rev > 0 /\ store.rows[h].rev = store.rev}

\* The terminal starts empty, the other forms with an example.
Fresh(p) == [text |-> IF p = "terminal" THEN Nothing ELSE DefaultText,
             draft |-> Nothing, shown |-> Nothing, awaits |-> FALSE, last |-> Nothing,
             sel |-> Nothing, verdict |-> Nothing]
NoCall   == [op |-> Nothing, text |-> Nothing, policy |-> Nothing, confirm |-> FALSE,
             here |-> FALSE, at |-> "free", ok |-> FALSE, number |-> 0, awaits |-> FALSE]
\* "late" is a history: the answer under way was asked for before an invalidation.
NoQuery  == [seen |-> Nothing, stale |-> TRUE, at |-> "idle", got |-> 0, late |-> FALSE]

-----------------------------------------------------------------------------
(* The proxy: a public demo lets through what does not write.              *)

PostRoutes == {"decisions", "decisions/compare", "decisions/replay",
               "constitution/compile", "receipts/verify"}
GetRoutes  == {"health", "config", "underlyings", "constitution", "constitution/history",
               "receipts", "agent/tasks", "agent/identity", "agent/x402",
               "explore/id", "receipts/id", "receipts/id/verify"}

\* Slip: the routes are allowed whatever the method.
SlipAnyMethod(method, route) == route \in PostRoutes \cup GetRoutes

publicDemoAllows(method, route) ==
  \/ method = "POST" /\ route \in PostRoutes
  \/ method = "GET"  /\ route \in GetRoutes

Forwarded(method, route) == demo => publicDemoAllows(method, route)

RouteOf(op) == CASE op = "compile" -> <<"POST", "constitution/compile">>
                 [] op = "approve" -> <<"POST", "constitution/approve">>
                 [] op = "run"     -> <<"POST", "intent">>
                 [] op = "task"    -> <<"POST", "agent/tasks">>
                 [] op = "paid"    -> <<"POST", "agent/tasks/paid">>
                 [] op = "verify"  -> <<"GET", "receipts/id/verify">>

-----------------------------------------------------------------------------
(* The tables.                                                             *)

\* The hash is the key: a policy that is approved again moves to the new revision.
SaveConstitution(text, policy, mine) ==
  /\ store.rev < MaxRevision
  /\ store' = [store EXCEPT !.rev = @ + 1,
                 !.rows[policy] = [text |-> text, rev |-> store.rev + 1, mine |-> mine]]
SaveReceipt == store.receipts < MaxReceipts /\ store' = [store EXCEPT !.receipts = @ + 1]
SaveTask    == store.tasks < MaxTasks /\ store' = [store EXCEPT !.tasks = @ + 1]

\* What a query of a table reads: how often it was written.
Version(k) == CASE k = "constitution" -> store.rev
                [] k = "agent"        -> store.tasks

-----------------------------------------------------------------------------
(* Queries (react-query): an answer is fresh for 10 s or until invalidated. *)

Asked(q)     == [q EXCEPT !.at = "sent", !.got = 0, !.late = FALSE]
Mounted(q)   == IF q.stale /\ q.at = "idle" THEN Asked(q) ELSE q

\* Slip: the key is not invalidated.
SlipKeepsCache(q, shown) == q

\* invalidateQueries asks again for what is on the page; it restarts a request
\* under way unless the key never had an answer. What is not on the page is
\* only marked, and the answer of a request under way clears the mark.
Invalidated(q, shown) ==
  IF shown /\ (q.at = "idle" \/ q.seen # Nothing) THEN Asked([q EXCEPT !.stale = TRUE])
  ELSE [q EXCEPT !.stale = TRUE, !.late = q.at # "idle"]

QueryRead(k) ==
  /\ cache[k].at = "sent"
  /\ cache' = [cache EXCEPT ![k].at = "back", ![k].got = Version(k)]
  /\ UNCHANGED <<demo, tour, page, form, call, detail, store, acked>>

QueryShown(k) ==
  /\ cache[k].at = "back"
  /\ cache' = [cache EXCEPT ![k].at = "idle", ![k].seen = cache[k].got, ![k].got = 0,
                           ![k].stale = FALSE]
  /\ UNCHANGED <<demo, tour, page, form, call, detail, store, acked>>

\* The request and its one retry failed: what was shown before stays, with an error.
QueryFails(k) ==
  /\ cache[k].at # "idle"
  /\ cache' = [cache EXCEPT ![k].at = "idle", ![k].got = 0, ![k].stale = TRUE,
                           ![k].late = FALSE]
  /\ UNCHANGED <<demo, tour, page, form, call, detail, store, acked>>

QueryAges(k) ==
  /\ ~cache[k].stale /\ cache[k].at = "idle"
  /\ cache' = [cache EXCEPT ![k].stale = TRUE, ![k].late = FALSE]
  /\ UNCHANGED <<demo, tour, page, form, call, detail, store, acked>>

\* The window is focused.
Refocus ==
  /\ \E k \in KeysOf(page) : cache[k].stale /\ cache[k].at = "idle"
  /\ cache' = [k \in Keys |-> IF k \in KeysOf(page) THEN Mounted(cache[k]) ELSE cache[k]]
  /\ UNCHANGED <<demo, tour, page, form, call, detail, store, acked>>

-----------------------------------------------------------------------------
(* The pages.                                                              *)

Init ==
  /\ demo \in BOOLEAN
  /\ tour \in Tours
  /\ page \in tour /\ form = Fresh(page)
  /\ call = [s \in Slots |-> NoCall]
  /\ cache = [k \in Keys |-> IF k \in KeysOf(page) THEN Asked(NoQuery) ELSE NoQuery]
  /\ detail = [x \in Receipts |-> "none"]
  /\ store = Empty
  /\ acked = [k \in Keys |-> 0]

\* The requests of a page that is left go on without it.
Leave(p) ==
  /\ p \in tour \ {page}
  /\ page' = p /\ form' = Fresh(p)
  /\ call' = [s \in Slots |-> [call[s] EXCEPT !.here = FALSE]]
  /\ cache' = [k \in Keys |-> IF k \in KeysOf(p) THEN Mounted(cache[k]) ELSE cache[k]]
  /\ UNCHANGED <<demo, tour, detail, store, acked>>

Pending(op) == \E s \in Slots : call[s].op = op /\ call[s].here

\* Slip: the text is open while it compiles.
SlipOpenWhileCompiling == page = "constitution" /\ Pending("approve")

\* The text of a constitution is locked while it compiles or is approved.
Locked == page = "constitution" /\ (Pending("compile") \/ Pending("approve"))

\* The input, the examples and the quick intents; a draft is gone with its text. (What
\* is typed on the other pages is sent as it is then, and told apart by nothing.)
Types(t) ==
  /\ page \in {"constitution", "terminal"} /\ ~Locked /\ t # form.text
  /\ form' = [form EXCEPT !.text = t, !.draft = Nothing]
  /\ UNCHANGED <<demo, tour, page, call, cache, detail, store, acked>>

Sends(s, request) ==
  /\ call[s].at = "free"
  /\ call' = [call EXCEPT ![s] = [request EXCEPT !.at = "sent", !.here = TRUE]]
  /\ UNCHANGED <<demo, tour, page, cache, detail, store, acked>>

Compile(s) ==
  /\ page = "constitution" /\ ~Pending("compile")
  /\ Sends(s, [NoCall EXCEPT !.op = "compile", !.text = form.text]) /\ UNCHANGED form

Approve(s) ==
  /\ page = "constitution" /\ form.draft # Nothing /\ ~Pending("approve")
  /\ Sends(s, [NoCall EXCEPT !.op = "approve", !.text = form.text, !.policy = form.draft])
  /\ UNCHANGED form

\* "Pending" is what the last run says of itself; Enter does not ask.
LastRuns == form.last # Nothing

Run(s) ==
  /\ page = "terminal" /\ form.text # Nothing
  /\ Sends(s, [NoCall EXCEPT !.op = "run"]) /\ form' = [form EXCEPT !.last = s]

\* The route inspector has a button only.
RunTournament(s) ==
  /\ page = "routes" /\ ~LastRuns
  /\ Sends(s, [NoCall EXCEPT !.op = "run"]) /\ form' = [form EXCEPT !.last = s]

\* It confirms whatever the input says now.
Confirm(s) ==
  /\ page = "terminal" /\ form.awaits /\ ~LastRuns
  /\ Sends(s, [NoCall EXCEPT !.op = "run", !.confirm = TRUE]) /\ form' = [form EXCEPT !.last = s]

Submit(s) ==
  /\ page = "agent" /\ ~Pending("task")
  /\ Sends(s, [NoCall EXCEPT !.op = "task"]) /\ UNCHANGED form

Probe(s) ==
  /\ page = "agent" /\ ~Pending("paid")
  /\ Sends(s, [NoCall EXCEPT !.op = "paid"]) /\ UNCHANGED form

\* The card of a receipt: the last answer of the terminal, or what is selected.
Card == IF page = "terminal" THEN form.shown
        ELSE IF page = "receipts" /\ form.sel # Nothing /\ detail[form.sel] = "known"
        THEN form.sel ELSE Nothing

\* Slip: the card has no key, and the next receipt takes over its state.
SlipUnkeyed(c) == c

\* The card of another receipt is another card: a verification under way ends unseen.
Unmounted(c) == IF c.op = "verify" THEN [c EXCEPT !.here = FALSE] ELSE c

\* A receipt of the archive is selected, and asked for unless it is known.
Select(x) ==
  /\ page = "receipts" /\ x \in 1..store.receipts /\ x # form.sel
  /\ form' = [form EXCEPT !.sel = x, !.verdict = Nothing]
  /\ detail' = [detail EXCEPT ![x] = IF @ = "none" THEN "asked" ELSE @]
  /\ call' = [s \in Slots |-> Unmounted(call[s])]
  /\ UNCHANGED <<demo, tour, page, cache, store, acked>>

\* A ticker of the explorer: the query of another key is shown.
Explore(t) ==
  /\ page = "explorer" /\ t # form.sel
  /\ form' = [form EXCEPT !.sel = t]
  /\ UNCHANGED <<demo, tour, page, call, cache, detail, store, acked>>

\* It arrives, or it does not.
Detail(x) ==
  /\ detail[x] = "asked"
  /\ detail' = [detail EXCEPT ![x] = "known"] \/ detail' = [detail EXCEPT ![x] = "none"]
  /\ UNCHANGED <<demo, tour, page, form, call, cache, store, acked>>

\* The browser hashes the receipt, then asks the server for its verdict.
Verify(s) ==
  /\ Card # Nothing /\ ~Pending("verify")
  /\ form' = [form EXCEPT !.verdict = Nothing]
  /\ Sends(s, [NoCall EXCEPT !.op = "verify", !.number = Card])

-----------------------------------------------------------------------------
(* The API, behind the proxy. Any request or answer may be lost.           *)

Answers(s, ok, changes) ==
  call' = [call EXCEPT ![s] = [changes EXCEPT !.at = "answered", !.ok = ok]]

\* Refused by the proxy or by the handler, or lost on the way there.
Refused(s) ==
  /\ call[s].at = "sent"
  /\ Answers(s, FALSE, call[s])
  /\ UNCHANGED <<demo, tour, page, form, cache, detail, store, acked>>

\* What the handler wrote stays, also when its answer is lost or says that it failed.
Handled(s) ==
  /\ call[s].at = "sent" /\ Forwarded(RouteOf(call[s].op)[1], RouteOf(call[s].op)[2])
  /\ LET c == call[s] IN \E ok \in BOOLEAN :
       \/ /\ c.op = "compile"
          /\ Answers(s, ok, [c EXCEPT !.policy = Compiled[c.text]]) /\ UNCHANGED store
       \/ /\ c.op = "approve" /\ SaveConstitution(c.text, c.policy, TRUE)
          /\ Answers(s, ok, [c EXCEPT !.number = store.rev + 1])
       \/ /\ c.op = "run" /\ Active # {} /\ SaveReceipt
          /\ \E awaits \in BOOLEAN :
               /\ awaits => ~c.confirm
               /\ Answers(s, ok, [c EXCEPT !.number = store.receipts + 1, !.awaits = awaits])
       \/ /\ c.op = "task" /\ SaveTask
          /\ Answers(s, ok, [c EXCEPT !.number = store.tasks + 1])
       \/ c.op = "verify" /\ Answers(s, ok, c) /\ UNCHANGED store
  /\ UNCHANGED <<demo, tour, page, form, cache, detail, acked>>

\* Another client of the proxy, with any policy and a text that need not go with it.
\* (Its receipts and tasks where the tour has a page for them.)
Elsewhere ==
  /\ \/ /\ Forwarded("POST", "constitution/approve")
        /\ \E h \in Policies : SaveConstitution(DefaultText, h, FALSE)
     \/ Forwarded("POST", "intent") /\ "receipts" \in tour /\ Active # {} /\ SaveReceipt
     \/ Forwarded("POST", "agent/tasks") /\ "agent" \in tour /\ SaveTask
  /\ UNCHANGED <<demo, tour, page, form, call, cache, detail, acked>>

-----------------------------------------------------------------------------
(* What a page does with an answer.                                        *)

\* The run that was sent last is pending no more.
Ended(s) == [form EXCEPT !.last = IF form.last = s /\ call[s].here THEN Nothing ELSE @]
Freed(s) == [call EXCEPT ![s] = NoCall]

\* An answer that failed shows an error, whatever it was for.
Failed(s) ==
  /\ call[s].at = "answered" /\ ~call[s].ok /\ call[s].op # "verify"
  /\ form' = Ended(s) /\ call' = Freed(s)
  /\ UNCHANGED <<demo, tour, page, cache, detail, store, acked>>

\* Slip: the draft is what was sent.
SlipDraftIsTheText(s) ==
  /\ call[s].at = "answered" /\ call[s].ok /\ call[s].op = "compile"
  /\ form' = IF call[s].here THEN [form EXCEPT !.draft = call[s].text] ELSE form
  /\ call' = Freed(s)
  /\ UNCHANGED <<demo, tour, page, cache, detail, store, acked>>

Compiles(s) ==
  /\ call[s].at = "answered" /\ call[s].ok /\ call[s].op = "compile"
  /\ form' = IF call[s].here THEN [form EXCEPT !.draft = call[s].policy] ELSE form
  /\ call' = Freed(s)
  /\ UNCHANGED <<demo, tour, page, cache, detail, store, acked>>

\* A write was answered: the table is asked for again, also from another page.
Acknowledged(k, number) ==
  /\ acked' = [acked EXCEPT ![k] = IF number > @ THEN number ELSE @]
  /\ cache' = [cache EXCEPT ![k] = Invalidated(@, k \in KeysOf(page))]

Approves(s) ==
  /\ call[s].at = "answered" /\ call[s].ok /\ call[s].op = "approve"
  /\ form' = IF call[s].here THEN [form EXCEPT !.draft = Nothing] ELSE form
  /\ Acknowledged("constitution", call[s].number) /\ call' = Freed(s)
  /\ UNCHANGED <<demo, tour, page, detail, store>>

Tasks(s) ==
  /\ call[s].at = "answered" /\ call[s].ok /\ call[s].op = "task"
  /\ Acknowledged("agent", call[s].number) /\ call' = Freed(s)
  /\ UNCHANGED <<demo, tour, page, form, detail, store>>

\* The answers of several runs are shown as they come.
Runs(s) ==
  /\ call[s].at = "answered" /\ call[s].ok /\ call[s].op = "run"
  /\ IF call[s].here
     THEN /\ form' = [Ended(s) EXCEPT !.shown = call[s].number, !.awaits = call[s].awaits,
                                      !.verdict = Nothing]
          /\ call' = [x \in Slots |-> IF x = s THEN NoCall ELSE Unmounted(call[x])]
     ELSE form' = form /\ call' = Freed(s)
  /\ UNCHANGED <<demo, tour, page, cache, detail, store, acked>>

\* Whatever the server said, or that it said nothing.
Verifies(s) ==
  /\ call[s].at = "answered" /\ call[s].op = "verify"
  /\ form' = IF call[s].here THEN [form EXCEPT !.verdict = call[s].number] ELSE form
  /\ call' = Freed(s)
  /\ UNCHANGED <<demo, tour, page, cache, detail, store, acked>>

-----------------------------------------------------------------------------

User ==
  \/ \E p \in Pages : Leave(p)
  \/ \E t \in Texts : Types(t) \/ Explore(t)
  \/ \E x \in Receipts : Select(x)
  \/ \E s \in Slots :
       \/ Compile(s) \/ Approve(s) \/ Run(s) \/ RunTournament(s) \/ Confirm(s)
       \/ Submit(s) \/ Probe(s) \/ Verify(s)

Network ==
  \/ \E s \in Slots : Refused(s) \/ Handled(s) \/ Failed(s)
                        \/ Compiles(s) \/ Approves(s) \/ Tasks(s) \/ Runs(s) \/ Verifies(s)
  \/ \E x \in Receipts : Detail(x)
  \/ \E k \in Keys : QueryRead(k) \/ QueryShown(k) \/ QueryFails(k) \/ QueryAges(k)
  \/ Refocus

Next == User \/ Network \/ Elsewhere

Spec == Init /\ [][Next]_vars
-----------------------------------------------------------------------------
(* Properties.                                                             *)

\* Types of the variables.
TypeOK ==
  /\ demo \in BOOLEAN /\ tour \in Tours /\ page \in tour
  /\ form \in [text : Texts \cup {Nothing}, draft : Policies \cup {Nothing},
               shown : Receipts \cup {Nothing}, awaits : BOOLEAN, last : Slots \cup {Nothing},
               sel : Receipts \cup Texts \cup {Nothing}, verdict : Receipts \cup {Nothing}]
  /\ call \in [Slots -> [op : Ops \cup {Nothing}, text : Texts \cup {Nothing},
                         policy : Policies \cup {Nothing}, confirm : BOOLEAN, here : BOOLEAN,
                         at : {"free", "sent", "answered"}, ok : BOOLEAN, number : Nat,
                         awaits : BOOLEAN]]
  /\ cache \in [Keys -> [seen : Nat \cup {Nothing}, stale : BOOLEAN, got : Nat,
                         at : {"idle", "sent", "back"}, late : BOOLEAN]]
  /\ detail \in [Receipts -> {"none", "asked", "known"}]
  /\ store \in [rows : [Policies -> [text : Texts \cup {Nothing}, rev : 0..MaxRevision,
                                     mine : BOOLEAN]],
                rev : 0..MaxRevision, receipts : 0..MaxReceipts, tasks : 0..MaxTasks]
  /\ acked \in [Keys -> Nat]

\* Nothing a visitor of the public demo does, on a page or by a request of their
\* own, changes the tables of the API (publicDemoAllows).
DemoIsReadOnly == demo => store = Empty

\* The text stored with a constitution that a page approved is the text it was
\* compiled from, whatever is edited, compiled and approved meanwhile.
StoredAsCompiled ==
  \A h \in Policies : store.rows[h].mine => Compiled[store.rows[h].text] = h

\* After an approval or a task was answered, the page does not show a table from
\* before it as fresh, from whichever page it is looked at, unless that answer
\* was under way and the invalidation could not restart it (invalidateQueries).
ReadsItsWrites ==
  \A k \in Keys : LET q == cache[k] IN
    q.at = "idle" /\ ~q.stale /\ ~q.late => q.seen >= acked[k]

\* The verdict under a receipt is of that receipt.
VerdictIsOfTheCard == form.verdict # Nothing => form.verdict = Card
===============================================================================
