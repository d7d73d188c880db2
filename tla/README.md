# MiniSMS in TLA+

Specifications of MiniSMS (`src/minisms`), an SMS gateway written in Go over
PostgreSQL: prepaid clients submit messages over HTTP or SMPP, the gateway
charges them, sends each message through one of several carriers, takes the
carriers' delivery receipts and passes them on; administrators edit clients,
carriers, routes and prices while it runs. The modules are translated from the
Go sources and the SQL of `deploy/minisms_db.sql`; TLC checks them on small
instances and TLAPS proves the central theorems for every instance.

`PROJECT.json` says, for each definition, which lines of the source it stands
for; it also lists the components, the runs, the hazards and the finding.

## 1. Inventory

| Part | State | Operations | What is hard, and what must hold |
|---|---|---|---|
| Asynchronous queue (`sending/queue.go`, `db/sms_queue.go`) | `sms_logs` rows, the workers' batches | enqueue, claim, dispatch, bill, refund, requeue, reap, stop | workers, reaper, receipts and crashes interleave between any two statements; a row is held by one worker, settled once, and leaves the queue in the end |
| Synchronous path (`sending/submit.go`) | a `sending` row, the request's goroutine | reserve, dispatch, bill, fail, fall back | the request's context can end at any statement; nothing reaps the row |
| Boot recovery (`sending/sync_recover.go`, `runtime/runtime.go`) | the list of leftovers | list, refund one by one | runs after the SMPP listener opened; may be interrupted or fail |
| Message table (`db/sms_logs.go`, `db/dlr.go`, `db/sms_aging.go`) | status, dlr_status, claim, validity | the conditional updates | which update overwrites what |
| Client balance and ledger (SQL functions, `billing/balance.go`, `web/clients.go`) | `clients.balance`, `ledger_entries` | debit, credit, currency conversion | transactions of one client overlap statement by statement |
| Invoices and the carriers' ledger (`db/invoices.go`, `db/invoice_payment.go`, `web/invoices.go`) | invoices, PDF files, two balances | generate, pay, charge | payments overlap, messages come in while an invoice is made; pending amount, status and account agree |
| Receipts (`dlr/processor.go`, `runtime/aging.go`, `web/dlr_resend.go`) | the row, goroutines, forwards to the client | receive, apply, forward, age out, re-send | receipts repeat, contradict, overtake; the client must hear one outcome |
| Dispatch (`sending/dispatch.go`, `failover.go`) | carrier order, one outcome record, round-robin counters | order, skip, try, advance | attempts share the record; answers get lost; many messages share a counter |
| Decisions on a message (`carrier/`, `routing/`, `billing/rate.go`, `sending/route.go`, `web/simulate.go`) | tables and cache, read at different moments | resolve the sender, price, route, check the carrier, translate the number, book the cost | five searches for one longest prefix; the check and the booking, the answer and the wire, the simulation and the dispatch each decide twice |
| Dispatch cache (`routecache/cache.go`, forms in `web/`) | five maps, swapped at once | reload after each edit, start-up load | unserialised reloads, failing statements, a crash between edit and reload |
| SMPP server (`smpp/server`) | sessions, counts and receivers per client, failed binds | bind, submit, unbind, restart a client, stop | count-then-register on bind; lists made before and used after a change |
| SMPP egress (`smpp/egress`) | session groups, bound connections, ready flags, the carrier's stored status | refresh, restart, bind, report, stop | groups replaced under sessions that bind, and under two refreshes |
| Login and sessions (`web/auth.go`, `web/middleware.go`, `web/permissions.go`) | `admin_sessions`, throttle | log in, check, prolong, log out, expire | check, prolong and load are three statements |
| Admin users (`db/admin_users.go`, `web/admin_users.go`) | `admin_users` | bootstrap, create, edit | check and update are separate statements |
| Catalogue (`db/` and `web/` of rate groups, carriers, clients, routing groups) | the tables dispatch reads | forms: check, then write | no common transaction; checks that fail open |
| Sender IDs (`db/sender_ids.go`, `db/*_sender_ids.go`) | senders, links, defaults | create, link, unlink, default, toggle | uses counted before the flip; defaults cleared before one is set |
| API keys and middleware (`db/api_keys.go`, `api/middleware.go`) | keys, limiters, pool connections | issue, revoke, check, limit | keys change under calls; a call takes two connections |
| Wire log, live logs (`wirelog/`, `smpp/egresslog/`) | files and generations; history and channels | write, rotate; append, subscribe | rotation in several calls; history then channel |
| Remaining pages, timeline, watchdog, audit log, configuration, crypto | | | no behaviour above depends on them |

How they interact: HTTP and SMPP ingress pass the API key check or a bind and
call `Submit`, which either enqueues or sends at once; both dispatch through the
cache and the carriers' transports, of which SMPP goes through an egress
session, and move the client's balance through the SQL functions. Receipts
arrive at the same rows from HTTP callbacks and from egress sessions and are
handed to an HTTP callback or a session of the SMPP server. Admin forms, behind
the login, change the tables and refresh the cache. There is one process;
everything that must survive it is in PostgreSQL.

## 2. Modules

    Prepaid  <---implements--- SendQueue ---extends---> SmsLog
       ^------implements------ SyncSend  ---extends---> SmsLog
                               Receipts  ---extends---> SmsLog
    AccountBook <--implements-- ClientLedger         Invoices
    Dispatch     RouteCache     Routing ---extends---> Numbers
    SmppServer --extends--> Throttle <--extends-- AdminAccess --extends--> AdminUsers
    SmppEgress   WireLog   LiveLogs
    Senders --extends--> Catalogue                   ApiAccess

- **SmsLog**: a row of `sms_logs` as the fields that decide something (`status`,
  `dlr`, whether a claim is fresh or stale, whether the retry is due, whether the
  validity is over) and one operator per UPDATE statement, with the statement's
  WHERE clause as an operator of its own. Every path uses these operators, so
  that one path sees what another one's statement does to its row.
- **Prepaid**: the contract of a prepaid account. Each message's charge is none,
  held, sold or returned; holding needs cover, and sold and returned are final.
- **SendQueue**: `queue.go`. One action per database transaction or carrier
  answer. `pc[w]` is the worker's place in `worker`/`dispatchOne`, `claimed[w]`
  its batch, `late[w]` the rows whose validity was over at the claim. The clock is
  three actions on a row's timers, and a fourth, `Outlasts`, for a claim that gets
  older than the stuck window while its worker lives. `Crash` drops every
  worker's state and keeps the rows; `StatementFails` is any statement whose error
  is only logged. Carriers are the set `took`; a carrier may take a message
  although its answer is lost. `outlasted` counts the claims that outlasted the
  window; the properties are stated relative to it, so that they say how much
  each such claim can cost. `CostInv`, at the end, counts what can still become a
  holder, a settlement or a carrier's acceptance (tickets), and what each costs.
- **SyncSend**: `submit.go` with the queue disabled, `sync_recover.go` and the
  order of start-up steps in `runtime.go` and `main.go`. `smpp` is the set of
  messages that come as submit_sm, which are accepted before recovery is over.
- **Receipts**: one message. `HandleInbound` is three steps (read, apply,
  forward) of concurrent goroutines; the sweep, on or off, lists, closes and
  re-sends. Statements may fail, and so may a forward; `missed` records that the
  process that owed the client a final could not tell it.
  `early` records that a final receipt was stored before the send path's last
  statement on the row.
- **AccountBook**, **ClientLedger**: postings made one at a time, and the
  transactions that implement them with a row lock, reads and rollbacks.
- **Invoices**: a client's and a carrier's invoices. Generating one takes a
  number, loads the lines for the PDF, writes it and loads the lines again for
  the row. A payment is one transaction that locks the invoice, then the account.
  Messages come in all the while.
- **Dispatch**: several messages of one route. Each field of the outcome record
  holds the slot whose attempt set it, which is all the properties need. What
  makes a carrier eligible is a free choice here and is decided in Routing.
- **Numbers**, **Routing**: the pure decisions and the message they are made for.
  `Numbers` has the longest-prefix search of each of five places as it is
  written there (what was found after each row, in the order given), a reference
  definition of the row a table promises, and the carriers' rules for numbers and
  senders, both written as sequences of characters. `Routing` takes a message through
  sender, price, route, the order of its carriers (`Chains`: by slot, a carrier with a
  weight first, or those that are ready first), the check of each, the sender and the
  number as the carrier's rules rewrite them and the cost that is booked, each read
  from the tables (`setup`) or the cache (`cached`) of that moment; which weighted
  carrier the counter picks, and which sessions are bound, is free here and decided in
  Dispatch. The simulation page is an operator: its decision and the carriers it shows
  as eligible. Rows come in any order (`Orders`), as SQL without ORDER BY gives them.
  `SenderInv` follows the sender from the answer over the stored row to the wire.
- **RouteCache**: a table's cached copy is the number of edits committed when it
  was read; `NotRead` is "not cached", for which dispatch reads the database. A
  template that is missing from a cached map is also read from the database by
  the code; the model does not use that and is the stricter one there. `slipped`
  records that since the process started an edit was committed while a reload
  was reading, or a handler gave up its reload.
- **Throttle**: the counter of failed attempts, word for word the same in
  `bind_limit.go` and `auth.go`.
- **SmppServer**: one handler per connection, the registry, and Stop. A bind is
  lookup, count, register. Whoever closes connections lists them first (`doomed`)
  and closes them one by one.
- **SmppEgress**: one carrier. Refreshes (the minute's ticker and operators'
  restarts) read the row, then keep, replace or drop the group. Each session is
  a goroutine; `tell[s]` is the status it computed and has not stored yet, so that
  reports overtake each other. `unborn` and `passing` record the sessions that were
  stopped before their goroutine began, or while they were binding.
- **AdminUsers**, **AdminAccess**: the three statements of a user form, creation,
  bootstrap, restarts; and before them the login and the way in: check the
  session, prolong it, load the user. A tick of the clock is longer than a login.
- **Catalogue**: a form is a list of checks and a write (`todo`), each a statement;
  the constraints of the schema are guards of the writes. `outrun` records forms
  one of whose checked rows was written since.
- **Senders**: library, links and defaults, on the clients and carriers of
  Catalogue.
- **ApiAccess**: keys, calls, limiters, and the pool's connections as far as
  calls and key forms hold them. A call loads a limiter, marks it used, stores one,
  visits and deletes in steps; `swept` counts limiters in use that were deleted.
- **WireLog**: one file and its generations, as their lines and their sizes, a step
  per call to the operating system. **LiveLogs**: one hub and the pages that follow it.

The variables `outlasted`, `early`, `slipped`, `overtaken`, `raced`, `late`, `unborn`,
`missed`, `passing`, `found`, `swept`, `outrun`, the counters of ledger entries, and the fields said
to be so in a comment, are history: no action of the program reads them.

`MC*` modules hold constants for TLC. The `*Proofs` modules hold all theorems; a
module of proofs may be about several components:

| Proofs | About |
|---|---|
| SmsLogProofs | SmsLog; lemmas the next three cite |
| SendQueueProofs | SendQueue, Prepaid |
| SyncSendProofs | SyncSend |
| ReceiptsProofs | Receipts |
| ClientProofs | ClientLedger and AccountBook, SmppServer and Throttle, Invoices |
| DispatchProofs | Dispatch, RouteCache |
| EgressProofs | Routing, SmppEgress, WireLog, LiveLogs |
| AdminProofs | AdminUsers, AdminAccess, Catalogue, Senders, ApiAccess |

Components that share a module of proofs have their own names for what is
usually `Init`, `Next`, `Spec`, `TypeOK` (`LedgerSpec`, `InvoicesSpec`, `CacheSpec`,
`RoutingSpec`, `WireSpec`, `LogsSpec`, `AccessSpec`, `CatalogueSpec`, `RecordsSpec`, `ApiSpec`).
Where a comment starts "A deviation:", the definition is not used by the model: it
is a plausible bug of the operator of similar name below it, and the property that
catches it is listed under `mutants` in `PROJECT.json`.

A transaction is one action in SendQueue, SyncSend and Receipts. That is sound
for the balance because of the row lock, which ClientLedger models and
`PostsOneAtATime` proves; a single UPDATE is atomic on its row.

## 3. Runs

The passing runs are exhaustive.

| Run | Instance | Shows |
|---|---|---|
| `queue` | 2 messages, 2 workers, batches of 2, one crash, failed statement or outlasting claim, fairness | at most one holder of a row, and one more per outlasting claim; the same for settlements; after an answered acceptance a new offer needs a fault; steps of Prepaid; every message leaves the queue |
| `sync` | 3 messages, one of them by HTTP or SMPP, 2 faults | an HTTP charge is settled once; refunded is closed; every leftover is recovered; an early SMPP submit costs at most one extra settlement; over HTTP alone, steps of Prepaid |
| `receipts` | 2 callbacks at once, 3 receipts, sweep on or off, operator, failing forwards, 1 crash or failed statement, fairness | unless a final receipt overtook the send path, finals stay and the client hears one outcome; it does hear one unless the forward of it is lost |
| `ledger` | 3 debits, 2 credits, 1 conversion, fairness; 2 invoices, 2 payments, 2 messages | every step but a conversion's posts to AccountBook as one posting or not at all, and no debit waits for ever; pending amount, status, account and PDF of an invoice agree after each commit |
| `dispatch` | 2 messages, carriers HTTP, SMPP, HTTP with weights 1:0:1, all modes | exact shares over a full cycle, one sender, no stale outcome field, order respected |
| `cache` | 2 admins, 3 edits of routes, carriers and templates, 1 fault, fairness | routes never without their carriers; fresh at rest and every edit reaches dispatch, unless a reload slipped or was dropped |
| `routing` | 1 message by API, SMPP or page, queued or not, re-sent or not; 21 states of the tables, routes in every distribution mode, 1 edit, 1 failing statement | all five searches find the promised row in every order of the rows; no loss unseen; the simulation foretells a refusal, and shows the first carrier contacted as eligible, in slot order as its choice; the sender answered, as the carrier's rules rewrite it, is the sender sent, but for the case of `routing_sender`; the chain of rules that is to force E.164 does |
| `server` | 2 connections of one client, limit 1, throttle, restarts, stop, fairness | counts and receivers are those of the live sessions; the limit holds unless one bind is registered between another's count and registration; dead sessions go, and so do all after the stop but those registered too late |
| `egress` | 2 groups of up to 2 sessions, ticker and an operator, 1 event, fairness; a log of 2 generations; a hub with 2 pages | the group in service is alive and complete, stopped sessions end, a false "up" is corrected, the edited bind count applies; no line lost or out of order in rotation unless a call failed or the process stopped within; no line slips between history and channel |
| `access` | 2 requests, 2 users, 1 session, throttle, restarts | a super admin remains unless a form took power after another had since its check; failures are bounded; what is logged out or expired stays dead |
| `catalogue` | 2 forms, one row of most tables and two of those with a key; 2 requests on 2 senders and 3 links; 2 operators, 2 calls, 2 keys | no row at odds with another; a rule of the pages is broken only by an overtaken form; one live key per client, no call by a dead key, no more limiters drawn on than calls, and as many again per limiter in use deleted |
| `routing_sender` | as `routing`, without edits and faults | counterexample: a client that names no sender is answered its default sender; from the queue the system default goes out |

Four runs hold parts that share no row either of them writes: `ledger`
(ClientLedger and Invoices), `egress` (SmppEgress, WireLog, LiveLogs) and
`catalogue` (Catalogue, Senders, ApiAccess) step one part while the others are as
they started, so that the run explores the sum of the parts' states and not their
product; Senders starts once there is the client and the carrier it belongs to.
`access` and `routing` are true compositions: a form is submitted by a request that
got in, and the decisions are those of one message.

### Disagreements with the documentation and comments

`routing_sender` is the one with a run of its own (`findings`). The following
are behaviours the passing runs admit, by a condition in the property or by not
forbidding them; each was met as a counterexample of the stronger statement.

- **A delivered message is refunded.** `sms_queue.go:149` says the update
  "finalizes a message that could not be delivered within its validity", but it
  has no condition on the row (`sms_queue.go:151`): a dispatch whose answer was
  lost leaves the row for a retry although the carrier has the message, its
  receipt arrives, and the expired claim overwrites and refunds it.
- **An accepted message is refunded at boot.** `submit.go:156-159` says "a
  carrier-accepted message is never lost or re-dispatched"; every statement after
  the dispatch runs under the request's context (`submit.go:221`), and what a
  disconnect leaves `sending` is marked undelivered at the next start.
- **A final receipt is overwritten.** `dlr/processor.go:78-81` says "a final is never
  overwritten"; `MarkSMSAccepted` sets `accepted` unconditionally
  (`sms_logs.go:77`), so when a receipt overtakes it the sweep closes the row again
  and tells the client "undelivered" after "delivered".
- **A conversion undoes postings.** "Transactional updates for balances + ledgers"
  (Product_Documentation.md:501); the form writes a balance computed from one read
  earlier, outside a transaction and without an entry (`clients.go:512-516`).
- **No super admin is left.** "ensures at least one active super admin remains"
  (`admin_users.go:235`); two forms that demote each other's user both count two.
  The check also refuses edits of inactive super admins (`admin_users.go:237`).
- A live worker's batch can outlast the stuck window, and its row is dispatched
  by a second worker (`sms_queue.go:135`). A process that ends between a
  carrier's acceptance and the row's update sends the message again; so does, with
  no fault at all, a carrier that took it and whose answer was lost (`queue.go:246`). A
  submit_sm taken before boot recovery is over is listed as a leftover. Two
  concurrent intermediate receipts are both forwarded. A final outcome is forwarded
  once, and a client whose webhook or bind failed then never hears it; nor does one
  whose row the sweep closed and then could not read (`aging.go:87`). A carrier without template
  counts as "skipped by policy" in the error code (`submit.go:232`).
- Overlapping reloads leave the cache stale, and so does a reload that fails
  after its edit was committed (`routecache/cache.go:115`, `cache_reload.go:10`).
- **One connection more.** "never call a Pool-based query" while holding a
  connection (`doc/agent/STATE_ASSESSMENT.md:118`); `ValidateAPIKey` reads the client
  while its rows are open (`api_keys.go:137`). `NeverWedged` of ApiAccess fails in
  nine steps with two calls and two connections: each holds one and waits for
  another. Nothing but the caller hanging up ends the wait.
- **Ready is stored as down.** A session reports before it sets its flag
  (`egress/session.go:153`, `156`), and the report is the group's aggregate over the
  flags (`group.go:39-40`): the first session's "up" is computed as "down" and stays
  so until another session or the next bind reports. `DownIsSeen` is the other
  direction only.
- **A session stopped before it runs binds on**: `stop` finds no cancel function
  (`session.go:96`, `391`). **A session registered after Stop listed the sessions**
  is not closed, and Stop waits its 25 seconds (`sessions.go:137`); the handler is
  counted within its goroutine (`server.go:184`), so Stop may also not wait for it.
- **A limiter in use is deleted.** A cleanup that found a client's limiter idle deletes
  the key (`middleware.go:158`), though a call may have loaded it, used it or replaced
  it since: a client may draw within the minute on more limiters than it has calls
  under way. Two calls make three so (`KeysInv` without `swept`, 58 steps).
- A client's sessions stay bound when it is deactivated; receipts go to the
  session first in the list and to no other when that write fails.
- Admin_Guide.md:229 says a sender in use cannot be deleted; there is no deletion,
  and the deactivation it advises is what is refused (`sender_ids.go:110`).
- Admin_Guide.md:410 says of the policy `none` "no sender accepted (effectively
  skips)"; in the code it accepts every sender and replaces it by the carrier's.
- The simulation reads the tables, not the cache, and knows neither
  `failover_enabled` nor the distribution mode: it names the first eligible carrier in
  slot order, while `loadbalance` and `overflow` may contact another of those it shows as
  eligible, and the sender it shows is the one before the carrier's rules
  (`simulate.go:240`). With two rows of one prefix the loss check and the booking may
  pick different ones.
- An invoice's lines are loaded twice, so its PDF can show less than the row asks
  for; a PDF stays when the insert fails, and its number is not used again. A
  refunded or failed message is a line of the client's invoice. What is paid above
  the pending amount is credited to the account and leaves no trace on the invoice.
- A rate group's currency may be edited while clients of another use it.

### Bounds

- Messages, workers, callbacks, forms, connections: two actors on one row or table
  are needed for each race. Batches of two let a worker hold a row it is not
  processing. Theorems lift the count.
- `MaxFaults`: crashes and failed statements together, in `SendQueue` also
  outlasting claims. One is enough for a single recovery; `sync` takes two so that
  recovery is itself interrupted. `queue` with one fault and one outlasting claim
  (2.4 million states) and `cache` with two faults (1.7 million) pass too, but
  take more than five minutes.
- `OpeningBalances`: in `queue` 2 and 3 for charges 1 and 2, so that the messages
  contend for the balance or both fit; in `sync` 3 for charges 1, 2 and 2, so that
  a reservation is refused and later covered by a refund.
- `Receipts` in `SendQueue` and `SyncSend`: the statuses that decide something
  there, `delivered` (final) and in `sync` also `unknown`. In `Receipts` a handler
  may get any status.
- `MaxEdits` = 3 in `cache`: an edit that starts a reload, and one of carriers and
  one of routes made while it reads. `Edited` leaves headers and number rules out: a
  reload treats them as it treats templates. In `routing` one edit takes the tables
  from any of the 21 states to any other, and each state is one step from the first.
- Weights 1:0:1: a full cycle of two, with a standby in the middle.
- `MaxClock`, `Window`, `BlockFor`: a block outlives the window that led to it
  (`BlockFor` > `Window` + 1 tick), as 15 minutes do in the code; with shorter blocks the
  count would not be bounded.
- `Counts` = 0, 1, 2 in `egress`: not listed, one bind, parallel binds. `MaxEvents` =
  1: one edit, restart or failure; the ticker and the stop are not counted.
- `MaxLines`, `MaxFiles`, `MaxAppended`, `Buffer`: the oldest generation is removed and
  a full channel passed over, each more than once.
- `access` follows nothing up once a form was stored between another's check and
  update: `SuperAdminRemains` promises nothing from there on, and what sessions and
  failures do after such a history is not explored.
- `InTurn` of `ledger`: the two requests for an invoice are interchangeable, and one
  is always the first; `catalogue` uses TLC's symmetry for rows and requests, having
  no liveness property.
- `FormsOrLimiters`: limiters exist only while no key form is under way; a limiter
  does not depend on keys.
- `Conns` = 3 in `catalogue`: one more than calls, so that no wedge (above) hides the rest.
- `Prefixes` = one value: only equality of keys matters to the UNIQUE constraints.
- Deadlock checking is off where a system rests once its work is done or it was
  stopped.

### Fairness

Weak fairness only, and only of what the program does by itself: a worker's loop
and the reaper's ticker (every wait in them has a timeout), a handler's next
statement (it returns or its context ends), the ageing ticker, a transaction's
next statement, a reload's next read, the passing of time on a row's timers, a
connection handler's next step and a closer's next close in the SMPP server, the
`closeAll` that follows `cancel`, an egress session's goroutine (binds time out), a
refresh under way and the minute's ticker.
No fairness for carriers' answers being good, receipts arriving, connections
being lost, peers, crashes, outlasting claims, edits, restarts or requests.
`QueueDrains` holds although carriers may refuse for ever: expiry ends the
retries. `FinalReachesClient` assumes the sweep only where `SEND_ACCEPTED_DLR_TTL_S` switches
it on; without it only a final that is stored is promised. It excepts (`missed`) a
forward that fails, which nothing tries again, a row the sweep closes and then cannot
read (`aging.go:87` only logs), and a process that stops between storing and
forwarding. Statements fail a bounded number of times. `SessionsEnd` excepts sessions
registered too late, `StoppedEnd` and `ScaleApplied` those stopped before they ran.
`Dispatch`, `SyncSend`, `Routing`, `AdminAccess`, `Catalogue`, `Senders`, `ApiAccess`,
`Invoices` and the logs assume no fairness.

## 4. Proofs

TLAPS (SMT, Zenon, LS4) checks every theorem without bounds on messages, workers,
receipts, faults, edits or amounts; `PROJECT.json` lists what each establishes. TLC
has checked each inductive invariant on the run of its module before it was proved.
Conditions on history (`outlasted`, `early`, `slipped`, `outrun`) are part of the property
a theorem names. What is needed beside the property, by module:

- **SendQueueProofs**. The contract: `TypeOK` of Prepaid says that the balance is what
  was there minus what is held or sold. Until a claim outlasts the stuck window,
  `QueueInv`: billing and refunding start from an unsettled row because the worker's
  claim is exclusive and fresh, which reaper and claim preserve; this gives the
  refinement `QueueImplementsPrepaid`. Without that condition, `CostInv`: every way a row
  may yet get another holder, settlement or acceptance is a ticket, and steps turn
  one ticket into another unless a fault or an outlasting claim issues a new one.
  `NoTwoWorkersOneRow`, `SettledAtMostOnce` and `ResendsAreFaults` are what it implies.
- **SyncSendProofs**. `SyncInv` holds message by message, so its proof treats one; it
  says that no HTTP request is in flight before boot recovery is over, which is
  false of SMPP. For `RecoverySettles`, `RecoveryInv` says how many settlements an SMPP
  message has left to spend: one by its request, one by recovery's list.
- **ReceiptsProofs**. `ReceiptsInv` keeps finals away from rows in status `accepted`, the
  only ones the sweep may close (while `~early`). `ForwardInv`, for any history: a
  callback that is to forward a final is the only one that ever was.
- **ClientProofs**. `LedgerInv`: only the lock's holder is between its first read and its
  end, and what it read is still the balance; from it the refinement to AccountBook
  (without conversions) and `PostsAsBook` (with them). `ServerIInv`: `SeatsInv` ties each
  handler's place to the registry and the count of its client, `GuessInv` each
  throttle's count to the failures within its window. `InvoicesIInv`: `BillsInv`, a number
  is drawn once, and its PDF shows no more than the lines add up to now; `PaysInv`, what
  a payment has read of invoice and account stays true while it holds their locks.
  That one more payment adds its amount to a sum, in whatever order the sum is taken,
  is an induction over finite sets (`MinimalSet`, `TotalAdds`).
- **DispatchProofs**. `DispatchInv`: the order names no carrier twice, so a slot past the
  current position has no verdict and no copy of the message. `OrdersAreKept` adds
  `ShareInv`: the turns taken are those below the counter, each turn's first carrier is
  the one whose stretch of the cycle the turn falls in, the stretches are disjoint
  and as long as the weights. `CachedRoutesHaveCarriers`: each reload's copy of carriers
  is at least as recent as its copy of routes, whatever other reloads do;
  `RestingCacheIsFresh`: what a reload has read is still what the database holds.
- **AdminProofs**. `FormsLeaveSuperAdmin`: a form that passed its check leaves somebody
  in power unless another took power since; no lock helps, so the pair that does is the exception. `GateHolds`: each request is where its statements put it, and
  a throttle's count plus the logins in flight is bounded. `NoSessionReturns`: who
  prolongs a session holds nothing that could set it back. `TablesHold`, `VerdictsHold`:
  `CatalogueIInv`, what a form's passed checks saw holds until its write or the form is
  outrun. `RecordsHold`, `DefaultsKept` stand on it. `KeysHold`: while one of a client's
  limiters in use is stored nobody makes another, so those in use and the calls that
  missed one are no more than the callers, and as many again for each one deleted.
- **EgressProofs**. `ServiceKept`: the group in service has all its sessions; a session of
  another group is done, being closed, or was found binding or unborn when stopped.
  `PagesShowEveryLine`: history and channel meet without gap or overlap, because a hub's
  lock covers both. `WireLogHolds`: the lines of a generation are older than those of the
  one before it at every step of a rotation; a gap is what was removed last.
  `SenderIsKept`: `SenderInv`, whatever the searches return. `RoutingHolds`: a search is
  right about the rows it has looked at (`BestOf`, `LossBest`), by induction on their
  number, and an order without repetition looks at all; a number loses its plus, its
  zeros, and what is put before it are digits (`ChainOfFour`). `RouteInv` adds to
  `SenderInv`: the number on the wire is the carrier's rules applied to the destination
  (`NumberInv`); the loss check stands in the order in which its rows were read
  (`LossInv`, for `NoLossUnseen`); in whatever order they are tried, the carriers of the
  route no longer left are those the simulation finds ineligible, at the rate and on the
  route it finds, and in slot order a beginning of the slots (`ForesightInv`, for
  `SimulationForetells`). `SenderIsKept` holds for any rules: both sides of it apply them.

Assumptions on constants are the modules' `ASSUME`s. Beside types they say: sets of
workers, callers, groups, messages and payments are finite where they are counted
or summed; `None` is none of the things it stands beside; a throttle blocks for longer
than its window and at least after one attempt; a wire log keeps at least one line
per file; weights and cycles are natural numbers; default senders are sender IDs. Of tables they
say what the schema's constraints do (`chk_rate_entries_prefix`, `chk_route_entries_prefix`,
`uq_route_entries_group_prefix`): a prefix is digits or `*`, a routing group has one row for a prefix, a
route has a primary carrier; a rate is a number, taken as natural. A destination is
digits with or without a plus: the API and the pages match it against such a pattern
(`e164Re`, `simulateE164Re`), SMPP's `formatAddress` keeps the digits. No carrier is
deleted (`Carriers`); no statement of the code does.

Only model-checked: liveness (`QueueDrains`, `FinalReachesClient`, `DebitsAnswered`,
`EditsReachDispatch`, `SessionsEnd`, `StoppedEnd`, `DownIsSeen`, `ScaleApplied`), because
the prover has no ENABLED. Every invariant and action property of the runs is proved.

## 5. Not modelled

- Texts, parsing and templates of messages and receipts, SMPP PDUs and decoding; the
  counting of segments (a price is a constant of a message); layout of pages and
  PDFs; encryption and password hashing; configuration (constants).
- Pages that render what one query returns (dashboards, health, reports, lists, the
  message log) and forms that store one row with one statement and are read by no
  step above (currencies, templates, headers, most settings). Nothing can interleave
  within them.
- The message timeline, audit log and watchdog: nothing reads them back. The
  heartbeat to the service manager stops with the process.
- Start and stop apart from what the components see: `app.Stop` may run twice,
  a listener that fails ends the process with `os.Exit` and so without a stop, the
  ageing runner's stop waits without a limit, and the receipt processor's SMPP
  sender is set after the egress manager started.
- Several processes on one database: the code assumes one.

Components without a module are listed in `PROJECT.json` with the reason.

## 6. Plan

1. **Gateway**: the queue composed with Dispatch and Receipts, so that a carrier's
   answer and the receipt of the same message are one history; and SmppEgress with
   Dispatch, for submits through a group being replaced.
2. A shorter `queue` instance with a fault and an outlasting claim together, by
   symmetry of the workers' batches.

The definitions stand for about 7200 of the 23 000 lines of Go and SQL. Most of the
rest is named under 5.
