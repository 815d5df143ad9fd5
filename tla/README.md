# Brass Tacks: specification and verification

Brass Tacks runs agents for small businesses. At night Radar collects signals and the
Analyst turns them into one recommendation ("find"). The owner decides in the browser.
A Maker drafts what was approved, the owner may publish it, and weeks later the Meter
judges what it earned. A Quartermaster orders supplies. Everything is a Lambda function
over one CockroachDB database. What makes it hard is not any single function. It is that
each handler calls several short transactions and several outside providers, and any
other actor, or its own death, can come between two of them.

This directory models the parts where that matters. Paths below are relative to
`src/backend/src/brasstacks/` unless they begin with `src/`.

## Contents

| Module | What it is |
|---|---|
| `DraftContract` | abstract specification: what an owner is promised about drafts |
| `MakerTask` | the durable Maker control plane, shown to implement `DraftContract` |
| `MakerTaskProofs` | its invariants and its refinement, proved |
| `Publishing` | receipts, Google Business posts, review mails, reopening |
| `PublishingProofs` | its run's five properties, proved |
| `MeterMath` | the arithmetic of the Meter |
| `MeterLedger`, `MeterLedgerProofs` | reports, nights and verdicts, and what is proved of them and of the arithmetic |
| `Orders` | ordering supplies: limits, approvals, charges, placements, refunds |
| `RepMessages` | messages to a supplier's representative and the books |
| `OrdersProofs` | the proofs of both, which share their handler and none of its rows |
| `AccountStore`, `Accounts` | the account tables; registering, signing in, onboarding, the profile |
| `AccountsProofs` | its run's six properties, proved |
| `Chat` | one turn of the owner's conversation, its `agent_run` row and its receipt |
| `Night` | the button, the schedule and the night function, composed with `Chat` |
| `NightProofs` | what a reply says and who an open row belongs to, proved of the composition |
| `Deck`, `DeckProofs` | one night of the Analyst: retrieval, claims, refuter, coster, what is stored, and the proofs |
| `MemoryStore`, `WorkStore` | the other tables of `repository_pg.py` as operators on rows |
| `AccountDouble`, `MemoryDouble`, `WorkDouble` | the same methods of the test double `repository.py` |
| `Listing` | filtering, sorting and cutting a list, said with sets and ranks |
| `StoreAgreement` | one history of calls made on both, and that they answer alike |
| `StoreAgreementProofs` | the agreement of accounts, of memories and of a recommendation at work, proved |
| `MC*` | constants, symmetry and histories for TLC; no definitions of the system. `OneVerdict` speaks of the history in `MCMeterLedger`, so `MeterLedgerProofs` extends that module |

Operators named after a plausible bug (marked so in a comment) stand beside the definition
they distort and are used by no specification. Each property of a run is violated
when one of them takes the place of the definition it belongs to. `PROJECT.json` pairs them.

## The system: inventory

**Maker control plane** (`maker_dispatch.py`, `tasks.py`, `handlers/maker.py`,
`handlers/task_starter.py`, `handlers/task_reconciler.py`, `agents/maker.py`,
`src/deploy/maker_workflow.asl.json`).
State: `work_task` rows (status, attempt, revision, claim token, lease, dispatch mark),
`artifact` rows, messages in SQS FIFO, executions of Step Functions. Operations: create,
dispatch, claim, complete, fail, request a revision, recover, supersede. Hard: leases that
outlive or are outlived by their holders, redelivery, a revision or a reopening while a
draft is being made, requests that die between two transactions. Correct when an owner sees
at most one current draft, made for an approval that stands, and every approval is answered.

**Decisions and decision cycles** (`handlers/decision.py`, `decisions.py`,
`reconsider_find`). State: `find.status`, `decision_cycle`, the history of decisions.
Do it, Pass, Later, Return to For You. It closes the Maker task, the drafts and the receipts
of the cycle in one transaction, and so interacts with all of the next three.

**Tools: mail and publishing** (`handlers/google_business.py`, `google_business.py`,
`handlers/maker_email.py`, `tools/email.py`, `connections.py`). State: `tool_execution`
receipts keyed by task and revision, the connection and its chosen location. Each use is:
check the draft, start the receipt, call the provider, finish the receipt, mark the find
executed. Hard: the provider acts but the answer is an error or never comes, two clicks,
a reopening between two of the steps. Correct when the world, the receipts, the approval and
the live mark agree.

**Meter and ledger** (`meter.py`, `agents/meter.py`, `handlers/outcome.py`, `outcomes.py`,
`night.py`). State: `find_outcome` reports, `ledger_entry` verdicts. A night reads the
reports at its start and writes verdicts at its end, a minute or more later. The owner
reports and reopens meanwhile, and nights may overlap. Correct when no verdict is invented
or rewritten, a due move is judged once, and a report is scored.

**Ordering supplies** (`handlers/orders.py`, `agents/quartermaster.py`,
`purchase_authority.py`, `payments.py`, `ordering.py`, `orders_store.py`). State:
`supply_order` rows, standing limits, the supplier setting, and outside the database the
charges and orders of two providers. Hard: every statement commits by itself, prices move,
and money has to follow goods. Correct when what was bought is what the owner or her limits
agreed to, and no charge stays without goods unexplained.

**Messages to reps** (`handlers/orders.py`, `orders_store.py`, `rep_messages.py`). State:
`supplier_message`, `supplier_contact`. Draft, send, discard, remove the contact. An order
message enters the books after it went out.

**Accounts and sign-in** (`auth.py`, `oauth.py`, `handlers/login.py`, `register.py`,
`oauth_google.py`, `onboarding.py`, `profile.py`). State: `owner_account`, `owner_session`,
`oauth_handoff`, `business`, profile facts, rules and menu observations. Hard: two callbacks
of one identity, a code posted twice, onboarding from two tabs, a session issued before the
account had a business, an editor that knows nothing of menus. Correct when a name, an
identity and a business have one owner, a code is worth one session, and what the Analyst
reads is what was last saved.

**Night runner and its start** (`night.py`, `agent_runs.py`, `handlers/night.py`,
`handlers/run.py`). State: `agent_run` rows and the date of the newest find. The button looks
at both, then invokes; the row is opened later by the function. Hard: functions killed between
opening and closing a row, retries by Lambda, rows of the conversation among those of the
night. Correct when an open row has somebody working for it, and an owner who asks is served.

**Ask conversation** (`handlers/ask.py`, `agents/ask.py`). State: two messages and a run row
per turn, and through the decision methods the recommendation itself. An instruction is
carried out before anything is written down. Correct when the reply agrees with what happened.

**Analyst, refuter and coster** (`agents/analyst.py`, `refuter.py`, `coster.py`, `finds.py`,
`analyst_trace.py`). State: the observations, the finds and their citations. Hard: three
cut-offs applied one after the other, answers that are positions in a list shorter than the
deck, a claim that names its own tier, a sweep that purges what is being cited. Correct when a
card on the board carries what its evidence supports, and no other card's judgement or price.

**Repository and its double** (`repository_pg.py`, `repository.py`). Every test of the handlers
runs on the double. Correct when a history of calls is answered alike by both.

**Standing orders and stock** (`standing_orders.py`, `stock.py`): dates and estimates over
single rows, feeding the Quartermaster. **Radar, signals, competitors**: what they search and
keep. **SES events** (`handlers/ses_event.py`): one idempotent insert per provider event.
**Workflow snapshot** (`workflow_snapshot.py`): a read-only projection. **Menu, providers,
secrets, schemas**: single-statement reads and writes.

How they interact: the decision creates the Maker task; the Maker's draft is what the tools
mail and publish; publishing marks the find live, which moves the Meter's window; reopening
cuts across all three. The night inserts the finds all of this is about, and shares its run rows with
the conversation, which can take each of the owner's decisions too. Supplies share the
database, the owner and the handlers' style, but no rows with the rest.

`PROJECT.json` lists every component with its status, and the hazards at their lines.

## How the modules correspond to the code

Conventions. A repository method is a single serializable transaction, hence one action. A
handler that calls several is several actions with a program counter, and the locals it
carries from one call to the next are fields of the process record. Early returns are
guards. Locals that are never read again are reset, which merges states and hides nothing.
Names, wording, and what a model writes are abstracted to model values.

### DraftContract and MakerTask

`DraftContract` has four variables per find (decision, cycle, drafts wanted, draft shown) and
five actions (`Accept`, `Pass`, `AskRevision`, `Deliver`, `Reopen`).

`MakerTask` has `find`, `task` (rows indexed by find and cycle, the idempotency key), `art`
(drafts indexed by task and revision), `pending` (messages not yet started), `owed` (what an
owner's request has still to do, so that `RequestDies` can lose it) and `worker` (invocations
of `handlers/maker.py`). `Begin, Claim, CheckFind, Lookup, ModelFails, ModelAnswers,
StoreDraft, RecheckClaim, CompleteTask, HandleError` are the calls of `process_task` in
order, and `Crash` may come at any of them. `RecoverStale, ReconcileCreate,
ReconcileDispatch` are the three passes of the reconciler. `Reconsider` and
`RequestRevision` are the owner's requests. `LeaseOutlived` says whether an invocation may
outlive its lease of 720 s (`LEASE_SECONDS`). The function's time limit is 600 s
(`src/deploy/template.yaml`), so the deployed system keeps it FALSE; `maker_zombie` sets it TRUE to see what is left without that margin.

### Publishing

One find, its cycles and revisions. `row` and `draft` are what `MakerTask` shows of the Maker,
reduced. `tool` is the receipt of each key, `acted` how often a call under that key took
effect, a fact no code can read. `conn` is the Business Profile connection: the locations it
offers and the one chosen, written over by `Connect` (the callback of a sign-in at Google) and
by `SelectLocation`. A request reads the draft (`ReadDraft`) and the connection
(`ReadConnection`) at different moments and then uses what it read. `inv` is an invocation of `publish` or `notify`. `CallFails`
is an error answer. With `InDoubt` the call may have taken effect all the same.

### MeterMath and MeterLedger

`MeterMath` is `daily_cents_from` and `judge` in integer arithmetic. In `MeterLedger`, `today`
is the calendar that windows are measured in, and `clock` the timestamps by which reports and
verdicts are compared; `find`, `reports` and `ledger` are tables, `request` is
`record_outcome` (two transactions), and `night` is `run_night` from the moment its snapshot
is taken: `StartNight` (reports read), `FindDue`, `InsertVerdict`, `Review`,
`UpdateVerdict`. `NightDies` covers both a killed function and an agent that raises before
the Meter.

### Orders

`Ask`, `Approve`, `Reject` are a request up to the point where its rows are read; `Draft`
prices the basket and decides; `ChargeCard`, `PlaceOrder`, `RefundCard` and their refusals
are the two providers' answers in `_place`; `Record` is the write to the books. `charges` and
`bought` are the providers' own records under each idempotency key. `pages` are the carts that
tabs of the owner still show; a page stays open when another tab's approval has replaced its
cart. `seen` is the cart on the page whose button was pressed, if that was the order's cart when
the request read it: the request carries the order and not the cart. An error the card provider
answers means no charge, but an error of the shop may come after it took the order
(`TakenUnheard`: asking for the status failed); a request that gets no answer dies (`Die`),
before or after the provider acted. `untold` counts the requests that bought unasked and ended,
in one of these ways, with no word of it on the books.
One basket and one standing limit: two orders interact only by sharing a cart or the limit.

### RepMessages

`ReadMessage, Send, Mark, Book` are the statements of `message/send`, made by one of `Senders`;
`SendFails` is an error or timeout, after which the message may or may not have gone out, and
`SenderDies` a request cut off. Its specification is `RepSpec`.

### Accounts

`AccountStore` holds the tables as one record and each repository method as an operator from
rows to rows and an answer; `StoreAgreement` uses the same operators. In `Accounts` a request
is a record with a program counter between two methods: `Register`, `Create`, `OpenSession`, or
`Callback`, `Suggest`, `Create`, `HandOff`, or `Redeem`, `Reload`, `OpenSession`, each a
transaction of its own. `Onboard` and `UpdateProfile` are one transaction each in their handlers,
so each is one action. The body of an edit carries no menu (`Untouched`: the stored one is kept),
a menu, or null, which clears it; no edit touches the menu items in memory. `told` remembers the
menu the owner last sent, and whether by an edit. The signed OAuth state is what it carries: whether the invite code was right when it was
issued. A page that is loaded twice posts its code twice. The tables have the foreign keys of
`src/db/schema.sql`: a row that refers to an account, a business or a fact that is not there is
refused.

### Chat and Night

Only the newest `agent_run` row of a business is ever asked about, so only it is kept, with
its age in a coarse unit (`StaleAfter` of them make it debris) and with `lost`, which says that
nobody is left to close it and which no code can read. `Chat` follows one turn from `Hear` to
`Leave`; an instruction goes `check`, `act`, `dispatch` and only then to the writes that leave
its receipt. `Night` extends it: `Press` reads the newest row, `Invoke` the newest find,
`Schedule` asks nothing, and `Open`, `StoreFind`, `CloseRun`, `Raise`, `Dies` are the three
agents in order. `Retries` is what Lambda does with an asynchronous invocation that ends in an
error.

### Deck

`Retrieve` merges the answers of the queries and applies the cap, the floor and the rows put
back, in that order. Rows of equal similarity come in the order the database happened to give
them: `Ties` holds the orders that may be, each a numbering of the rows. `Tier` is the ladder of claims. `Refute` and `Cost` take any list of
answers; `Place` puts them back on the deck by position. `Store` writes the cards one at a time
while `Purge` may take a row away, `Finish` encodes the receipt, and `DatabaseFails` ends the night
at any call of the repository. Owner copy is reduced to
whether it asserts a current state, and a figure to one amount.

### The stores and StoreAgreement

Each method of both repositories is an operator on the same record of rows. `StoreAgreement`
draws a history of calls, makes each on both, and compares rows, answers and every question
the handlers ask. A history stays in one area: no method of one asks after the rows of another,
but that rows of accounts, facts, rules and connections refer to a business, so each area with
such rows opens businesses of its own (the areas of memory and work have theirs given).
Where the double is only right because callers keep to a habit (a task is claimed when it is
due, an id comes from a row that was read), the habit is a guard with a name, and naming it
in `Loose` drops it. Two habits need no name: a secret of a session or a code is drawn once, and
minted for an account that was read.

What the system does against the double is no habit, and is in the histories: accounts are
connected to Google again at another time, sessions are minted from an old reading of their
account, and the nightly purge takes rows that recommendations cite. There the property says
what still agrees. A connection is compared by whether it has a time (`SinceOrNot`), the
business of a session alone for sessions of the account's business (`MintedWell`), and citations by
those whose row is still stored (`AsCited`). The last rows of the table of refuted statements show
what comes of leaving these out.

Lists are written with `Listing`: a query with its `ORDER BY` is a set of positions put along an
order, and a sort in Python is the list it starts from, ranked by its key and then by place. The id
of an observation is drawn at random (`gen_random_uuid()`), so `all_observations`, which sorts by
day and id, takes the order of the ids as a parameter, and the agreement quantifies over it
(`Uuids`): the days follow each other alike in both stores, and the rows are the same when all are
read; within a day the database has an order the double cannot know.

## Runs

| Run | Instance | What it shows |
|---|---|---|
| `maker_safety` | 1 find, 2 invocations, 2 cycles, 3 revisions, 2 attempts | the finality of superseded tasks, one current draft, the inductive invariant, and the refinement of `DraftContract` |
| `maker_zombie` | the same with leases outlived, 2 revisions | `DraftsFollowApproval` and `OnlyHolderSettles` do not depend on the lease margin |
| `maker_answered` | 1 invocation, fairness | every approval ends in a completed or failed task or is taken back |
| `publishing_posts` | three instances: 2 publishers and revisions; a publisher at a time and 2 mailers; 2 publishers and 2 locations; answers in doubt | one post per revision, live means published, published means approved, receipts hold, a mail still running is not repeated |
| `meter_nights` | 2 nights, 2 reports, fairness | verdicts rest on reports and are fair to them; measured ones are final; due moves are judged and newer reports scored, however nights overlap; one verdict while they do not |
| `orders_safety` | 2 requests, 2 shops, 2 prices, 2 orders | books, charges, goods, limits and approvals agree, with pages left open and orders taken unheard |
| `rep_messages` | 2 messages, 2 requests, 2 deaths, 1 error | books follow mail, repeats are bounded |
| `accounts_safety` | 2 requests, 2 tabs, 1 Google identity, 2 accounts | unique names, identities and owners; one session per code; sessions, facts and menu follow the account, whatever an edit says of the menu |
| `deck` | 5 rows, decks of up to 3 cards | what enters the prompt, what a card may claim and carry, why one is held back or a night fails, with a purge and a failing database |
| `night` | 2 nights, 1 turn, fairness | replies tell the truth, open rows are worked for, a persistent owner is served |
| `double_same` | 8 areas, 2 rows a table, 3 ids of observations in every order | the double and the database agree, reconnections, old sessions and purges of cited rows included |

One run ends in a counterexample, because the code does not do what its own text says:
`night_double_press` violates `NightInFlightIsReturned`. `handlers/run.py:19` says that a
double click gets the night in flight. The row that would show it is opened by the function
itself, so two presses that arrive before that each start a night.

### Why the bounds are enough to be interesting

Two invocations are the least that race, and all rows are compared by key, so a third one
repeats the roles of the second. Two cycles are needed for anything of an earlier cycle to be
late. The ceiling on revisions (`MAX_REVISIONS`, six in the code, two here) is checked in
`handlers/ask.py` before the transaction and not in it, so the instance leaves room for one
more. Two attempts reach both a
retry and the limit; `AttemptCap` leaves one more, because the code does. `QueueCap` 2 lets a
message be delivered twice. `MCPublishing` explores three instances in one run, with revisions,
with mail, or with a second location, because the product is too large: mail, revisions and
connections meet only in the row and in the request, which every instance has, and the proofs
of the same properties have no such bounds. Amounts in the Meter's runs are chosen around a quarter of the
prediction, where rounding decides, and the proofs cover the rest; `MCMeterLedger` adds a
variable that remembers whether two nights overlapped. In `orders_safety` what is
left of the weekly limit is either everything or nothing (`earlier`), an order of the higher
price is above the limit for one order, and one change of price or supplier and one death may
come anywhere; `OvershootBounded` is tight there, since two requests do reach twice the limit, and a
single one goes beyond it after a purchase that left no word.
In `rep_messages` the bound on sends (5) is never what stops a request: two requests, two
deaths and one error allow no more. In `accounts_safety` two accounts and two names are the
least that can collide, two tabs the least that can post one code at once. In `deck` two of the
five rows share a site, one has no URL and one only makes room, so that the cap, the floor and the rows put
back each decide something, and equal rows come in either of two orders; cards of all four kinds, asserting or not, cite every one or two
rows. In `night` the lengths of a day and of staleness are two units, one loss may come
anywhere, and one retry repeats what it killed. In `double_same` two rows are what an order
or a limit needs. Symmetry is declared only over processes and messages no
constant or temporal property tells apart, and in no run with liveness.

Deadlock is checked for the Maker, whose owner and clock can always move or have nothing
outstanding. The other configurations switch it off, since a bounded calendar, bounded
requests and bounded deaths do end.

### Fairness, and why the code justifies it

`MakerTask!Fairness`. The reconciler runs on a schedule (`rate(5 minutes)` in
`src/deploy/template.yaml`): weak fairness of its passes, strong fairness of the dispatch it
makes, because it may fail and is made again on each pass. Clocks advance: weak fairness of
`BackoffElapses` and `LeaseExpires`. SQS redelivers and Step Functions retries: strong fairness
of beginning a dispatch and of the steps of an invocation, which may be killed again and again
but not always at the same line. Nothing is assumed of the owner, of
`ModelAnswers` over `ModelFails`, or of a request to finish.

`MeterLedger!Fairness`. Nights are started again and again, by the schedule when it is enabled
(`ScheduleState`) or by the owner's button, and a night that is not killed goes on.
Deaths are bounded, and so is the calendar: after the last day nights keep coming.

`Night!Fairness`. Time passes, a function that is not killed goes on to its next call, and a
turn of the conversation ends: weak fairness of `Tick`, `NightStep`, `Invoke`, `TurnStep`. The
owner who finds the button free again and again presses it at last: strong fairness of `Press`.
`MaxLosses` bounds the functions killed and the closing writes that fail: a night killed
every time it starts is promised to nobody. `EventuallyServed` is about the button and not the
schedule, of which nothing is assumed.

## Proofs

`tlapm` checks every theorem below for all values of the constants that satisfy the
assumptions the modules name. These ask only for what the code fixes: bounds are naturals,
figures are integers with a known period, null is not a value.

**MakerTaskProofs.** `TypeCorrect` and `DraftsAreApproved` hold with or without
`LeaseOutlived`. The others assume `~LeaseOutlived`. None of the invariants is inductive
alone: that the current draft is unique says nothing about a worker about to store one.
`IInv` therefore says three things. `LiveRow`: a row not taken back belongs to the approval in
force and the board shows exactly the drafts up to its revision, or up to its base while the
revision is in the making. `ClosedRow`: a row taken back is closed, unclaimed, off the board
and of an earlier cycle. `WorkerInv`: whoever holds a claim holds a good one, and knows the row
it works for, or the row was taken back and cancelled. `Consistent` proves it with one lemma
per action. `OneDraft`, `CompletedDraft` and `ClosedForGood` follow from it.

`HoldersSettle` (`OnlyHolderSettles`) needs only the types: its content is in the writes of
`complete_task` and `fail_task`, which ask for the token, and it holds for invocations that
outlive their leases.

`KeepsContract`: `MakerTask` implements `DraftContract`. `Approve`,
`PassFind`, `Reconsider`, `RequestRevision` and `StoreDraft` map to the five abstract actions
(a repeated `StoreDraft` to a stutter), and every other step leaves the owner's view alone.
The step that matters is `StoreDraft`: the invariant is what excludes a draft that is late,
skipped or delivered for another cycle.

**MeterLedgerProofs.** First the arithmetic. `DailyCentsNearest`: the daily figure is within
half a cent of the amount over its days. `DailyCentsMirrored`: a loss is the mirror image of
the equal gain. `ScoredFairly`: rounding moves a verdict only within half a cent a day of the
bar. Then the ledger: `LedgerTypes`, `NeverInvented` (`HonestVerdicts`) and `NeverRewritten`
(`MeasuredIsFinal`), for any number of overlapping nights and requests. The invariant carries
a report through the three places where its figure is copied: the table, the snapshot of
a night, and the ledger, with their times in order; `ScoredFairly` is cited where the verdict
is written. `VerdictsStandAlone` (`OneVerdict`) is about `MCSpec`, whose variable `overlapped`
remembers whether two nights were ever open at once. Its invariant `Alone` adds that at most
one night is open, and that while it is about to insert a verdict there is none.

**PublishingProofs.** All five properties of `publishing_posts`, for any number of requests,
mail workers, cycles and revisions, with answers in doubt: `NeverPostedTwice`,
`LiveMeansPublished`, `RunningMailSentOnce`, `NothingPostedAfterReopening`,
`PostReceiptsStand`. `PostedOnce` alone is not inductive. The invariant adds that a request
about to call, or holding an answer, is the only holder of a receipt that says running, and has
called at most once (`Holder`, `PostRow`). It also says that a row not taken back belongs to
the approval in force (`Approvals`). Together these say that a running receipt makes
`Irreversible` true and keeps `Reopen` away (`CallerForbidsReopening`). For mail (`MailRow`), a
receipt that says running either has one caller and nothing sent, or one sending and no caller.
Steps of one invocation touch one receipt (`Frame`), so posts and mails are proved apart.

**OrdersProofs.** `NoChargeForgotten` (`ChargesAnswered`), `PlacedWasTaken` (`PlacedIsBought`),
`NoGuessIsBought` and `ApprovalsBuyWhatTheyShow` (`ApprovedCartIsBought`),
for any number of requests, orders, shops, prices, changes and deaths. `Knows` says what a
request knows at each program counter: whom it buys for, that a cart bought for an approval is
the cart of the page if that page was not out of date, and that an outcome "placed" has a
receipt. `Books` says what a row's receipt may be (its own key, or the key of a cart if it did
not wait). `ChargesHeld` names who answers for a charge: not just anyone under its key, but a
request of a card shop, since a second approval of the same order may run at another shop.
`WellTyped` types the rest.

`WeeklyLimitHolds` (`OvershootBounded`) needs two more invariants. Of the books, `Limits`: a
request that has read the spend and not yet written its order still has `Room(r)`, what it may
add without asking. What the books know was bought unasked (`BookedSpend`) and all the room
together stay within the cap and one order for each request but one; the step that reads the
spend is where a request gets its room, and `Record` is where room becomes spend. Of the shops,
`Covered`: what they took unasked is at most what the books know, what the requests about to
record have bought (`Unrecorded`, which is part of their room), and one order for each request
that ended without a word. A key that is used again pays for nothing twice, whatever became of
its first request. The assumption is that the requests are finitely many and not none. TLC
checked `Limits` on the instance of `orders_safety` before it was proved. The spend is a sum over a set (`SumFunction`), of which
the provers know nothing. Its lemmas (a sum is a natural, splits at a member, changes by what
one member changes, is smaller over fewer) come from unfolding it into the table it is
computed by and taking the smallest set on which two tables differ.

The same module proves `BooksNeverAhead`, `RepeatsAreBounded` and `StatusHolds` of `RepMessages`, for any finite
numbers of messages and requests. The bound is not inductive. The invariant adds that a
message still shown as a draft went out only in requests waiting to mark it, in those that
died and in those answered an error; a lemma counts how one step moves these sets.

**AccountsProofs.** All six properties of `accounts_safety` (`OneAccountEach`, `CodesSpentOnce`,
`EveryBusinessOwned`, `SessionsFollowTheAccount`, `ProfilesStayCoherent`, `InviteBeforeAccount`)
and `WellTyped`, for any requests, tabs, names, identities and profiles. The assumption is
that null is not an identity, a menu, a profile or a number. The invariant has a part for each
table. `AccountsHeld` and `OwnersHeld` say unique without counting. `SessionsHeld` says that a
session stored the business of its account or none, which is what a request could have read
before `attach_business` (`Held` says the same of the request). `CodesHeld` says that a code
still stored was never answered. `TabsHeld` ties the signed state to the page it came from.
`ProfileCoherent` is inductive with `FactsHeld`, since saving is one transaction and an edit that
says nothing of menus keeps the one last sent; of the items in memory it can only speak until an
edit carries a menu. Steps are
described first by what they leave of the rows (`AccountsWritten`, `Onboards`, `Saves`), and the
invariant is shown kept by any such rows. A row that "the first that matches" finds is reached
by the lemma `Least`.

**DeckProofs.** All five properties of `deck` (`PlacesAreEarned`, `ClaimsStandUp`,
`FiguresEarned`, `NothingHeldBackUnasked`, `ReceiptsNeverFail`) and `NightWellTyped`, for any
rows, questions, similarities, ties, decks, answers and limits, the assumption being that
rows and questions are finitely many, the limits positive, each tie order tells rows apart and
null is none of the values beside it. The first half of the module is about
lists: `Enumerated` shows that the members of a finite set, each at its rank, are all there once
(a counting argument), `KeptIsWell` what the cap leaves out and why, `BarIsFair` where the floor
cuts and why a row may stay under it, `PromptIsWell` the two together. The second half carries
each fact of a card through the night: `ClaimsStand` (the tier fits the rows cited),
`JudgedAsTold` and `PricedAsTold` (what is on the deck is what was answered about that
position), `BoardAsDecided` (what is stored is that, card by card), `CountsHold` (the counts a
receipt adds up). `ReceiptsNeverFail` rests on the last: a receipt with more citations than rows
would not encode. The order of rows is written with `Along` of `Listing`, a rank for each member, because a
sort or a selection by recursion is closed to the provers.

**NightProofs.** `RepliesAreTrue` (`ChatTellsTruth`) and `OpenRowsHaveAnOwner`
(`OpenRowIsWorked`) of `Night` composed with `Chat`, for any number of turns, nights, retries
and losses. A reply is right because of what its turn knew before: `Sound` says, at each
program counter, what has been carried out, what is stored and how its row stands. Of the
rows, `RunRows` says what the three operations on them leave behind. `TurnMoves` and
`NightMoves` then reduce each step to the record it leaves and what it does to the newest row.

**StoreAgreementProofs.** `AccountsStayAlike` (`AccountsAgree`), `MemoriesStayAlike`
(`MemoriesAgree`) and `WorkStaysAlike` (`WorkAgrees`): after any history of calls the double holds
the rows the database holds and answers every question alike, for any accounts, secrets,
businesses, texts, days, amounts, limits and bounds. The first assumes that ids come from rows
there are (`dangling`), the second nothing, the third `refused_reopening`, `early_claim`,
`late_result` and `settled_again`. Without any one of these TLC finds a history on which the two
differ (the last rows of the next table). The module begins with lists. A
finite set put along a total order is one list, whatever computes it (`OnlyListing`, by the same
counting as in `DeckProofs`), so the database's `ORDER BY` over the table and the double's sort of
what it filtered come to the same rows (`RankedPick`, `PickedThenSorted`), and two orders that go by
one key first have the same keys place by place (`SameKeys`, for the days of `all_observations`).
Equality of the rows is not inductive alone. `AccountsHeld` adds that a session has an account, and
that a token has one session, a code one row, and a business one connection. `MemoryHeld` adds that
the ids of the observations increase, that what is cited was once stored (an id is not used again,
so a citation that lost its row does not come to mean another), and that a business has no text
twice outside its conversation, which is why
a search by nearness has no ties to break. `WorkHeld` relates the tables of a recommendation at
work, because the double often asks another one than the database does. A task still to be done
belongs to the approval in force and holds a claim exactly when it is running (so the double may
leave out the `superseded_at` and `cancel_requested_at` of the database's `claim_task`). An approval
has one task and a revision one draft, so that what is looked up is unique whichever row is met
first. A draft of the revision in the making is the newest one, and what its task showed before is
replaced already: `insert_artifact` with a key that is stored marks the parent once more in the
database, while the double answers before it gets there. Nothing was published for a task whose approval was
taken back: the two look for irreversible tools over different tasks when they reopen. And an
approval is logged unless nothing is, which decides whether a reopening backfills the log. Then
there is one lemma for each method, of the shape
"the two operators answer the same and leave the same rows", and one for each question.

**Only model-checked.** Liveness, which is out of the prover's reach: `ApprovalAnswered`,
`DueIsJudged`, `NewerReportScored`, `EventuallyServed`. Every other property of a passing run is
the statement of a theorem.

## Statements that were tried and do not hold

These are defined in the modules, with the text they come from, and TLC refutes them. No run
lists them, because a run has to ask one question each and these answers are known. To
reproduce one, add it to the configuration named.

| Statement | Where | How it fails |
|---|---|---|
| `AttemptsBounded` | `MakerTask_safety`, `MaxCycle = 1` | two attempts crash; the next message reads the row while the lease runs and claims it when it has expired, before `RecoverStale` fails it: attempt 3 of 2 |
| `MailedOnce` | `Publishing_posts` with `Mailers = {m1, m2}`, no publishers | SES takes the mail and the answer is an error; the receipt says failed, and the next notification sends it again |
| `PublishedIsCurrent` | `Publishing_posts` | a revision is asked for after `publish` checked the draft and before it starts the receipt |
| `PublishedWhereConfirmed` | `Publishing_posts` | the location is changed, or another account connected, after the dialog; the request does not name a location |
| `ReopenedIsClean` | `Publishing_posts` | the provider acts and answers an error, the receipt says failed, and Return to For You, which looks for running or succeeded receipts only, reopens a recommendation whose post is public (`decisions.py:9` says otherwise) |
| `OneVerdict` without `~overlapped` | `MeterLedger_nights` | both nights find the move due, with its execution between them: two windows, two verdicts |
| `ReopenedHasNoVerdict` | `MeterLedger_nights` | the move is reopened between `due_finds` and the insertion |
| `NewestIsJudged` | `MeterLedger_nights` | a correction arrives after the night's snapshot |
| `ReportScored` | `MeterLedger_nights`, `Nights = {n1}` | the night takes its snapshot, the owner reports, the night writes an estimate whose `measured_at` is later than the report; the second pass wants `reported_at > measured_at`, so no later night looks at it |
| `RejectedSpendsNothing` | `Orders_safety` | Reject passes its status check while an approval is charging the card |
| `CeilingsBind` | `Orders_safety` | an approved cart above the limit is bought: limits are not applied to approvals |
| `ApprovedCartIsBought` for any page (`= bought'[...]` without `None`) | `Orders_safety` | two pages show an order, the price moves, a first approval gets `price_moved`, and the button of the other page, which still shows the old cart, approves the new one |
| `OvershootBounded` without `untold` | `Orders_safety` with `Requests = {r1}` | the shop takes an order, the request dies before it is recorded, and the next one reads a spend that does not know of it |
| `SentOnce` | `RepMessages` | two requests read the draft before either marks it |
| `ExpiredCodesGo` | `Accounts_safety` | `purge_expired_handoffs` is called by nothing, although `repository_pg.py:510` says the nightly run does |
| `ProfileCoherent` without `~told[b].edited` | `Accounts_safety` | signup stores a menu, and an edit with another one, or with null, replaces it in the profile and the facts; its items can still be retrieved (`handlers/profile.py:77`, `test_menu_scan.py:703`) |
| `AccountsAgree` with an id that names no row | `StoreAgreement_same` with `Loose = {"dangling"}` | a business is attached, a fact or a rule inserted, for a business that is not there: the foreign keys refuse, the double does not ask, although `repository.py:807` claims "the parts that are database constraints" |
| `AccountsAgree` with the time of a connection (`SinceOrNot(c) == c`) | `StoreAgreement_same` | an account connected again counts as connected from now in the double, and from the first time in the database (`repository_pg.py:1845`) |
| `WorkAgrees` with a receipt finished twice | `StoreAgreement_same` with `Loose = {"settled_again"}`, `MaxCycle = 3` | a failed receipt finished again as succeeded after a reopening superseded its task: the double looks for irreversible tools over the tasks that are not superseded and reopens once more, the database refuses |
| `WorkAgrees` with an early claim | `StoreAgreement_same` with `Loose = {"early_claim"}` | `claim_task` of the double does not look at `next_attempt_at` |
| `WorkAgrees` with a late result | `StoreAgreement_same` with `Loose = {"late_result"}` | `complete_task` of a completed task: the database stores the draft the second worker brings, the double hands the row back as it is |
| `WorkAgrees` with a refused reopening | `StoreAgreement_same` with `Loose = {"refused_reopening"}` | the double logs the missing approval before it refuses to reopen what was published, the database takes the log back with the transaction |
| `MemoriesAgree` with every citation (`pg = mem` for `pg = AsCited(mem)`) | `StoreAgreement_same` | the nightly purge deletes a row that a recommendation cites: the cascade takes the citation with it (`repository_pg.py:729`), the double keeps it, without content |
| `AccountsAgree` with every session (no `MintedWell`) | `StoreAgreement_same` | a sign-in reads its account, the account gets its business, and the session is stored with what was read: `business_for_session` of the database asks the account, that of the double its session |

What the models also made plain, without a statement of the repository to hold against it: the
cooldown counts recommendations that were held back, so a night that showed the owner nothing
starts a day of waiting (`latest_find_created_at`); a night repeated by Lambda asks none of the
button's questions again; `recent_runs(limit=1)` sees the run of a conversation and then
does not see the night under it; `perform_undo_pass` and `perform_revision` hand the
task on outside their `try`, so a failing dispatch answers 503 after the recommendation has
changed (the reconciler repairs the task, not the answer); an undone pass reads the status once and
then acts on what it has become; `MAX_REVISIONS` counts drafts of earlier cycles; a failing
count of messages turns an answer already stored into an error; attempts are bounded by the
reconciler only; the key of an order bought without asking is its cart; a find's reports outlive
its reopening; a crash between a succeeded receipt and `mark_find_executed` is repaired by nothing.

The double differs from the database where the system goes, then, in three things: the time of a
connection made again, the citations of a row that was purged, and the business of a session
minted from an old reading of its account when only the session is asked. A test that turns on one of them says
nothing of the deployed program. It differs also where no caller goes: ids that name no row are
accepted; `reconsider_find` looks for irreversible tools over tasks not superseded only and
keeps the logged approval after a refusal; `insert_artifact` tries the key before the parent;
`get_artifacts` has another order; a listing with limit 0; `get_find_evidence` of an unknown
find raises; `email_events` keeps the newest rather than the oldest of its limit.

## What is not modelled, and why

What a model answers, and the prompts it is asked with: the answers are arbitrary in `Deck`,
`Chat` and `MakerTask`. Order intent, the scanned menu, the Radar's search and
deduplication: validation of outside text over no shared state. Snapshot, operator's list,
providers, secrets, schema bootstrap, site and scripts: no state that two actors race for.
Signed OAuth states and the encryption of tokens: pure data. Standing orders and the
stock model: date arithmetic over one row each. The parsing of delivery notices; the store's part of
them is in `WorkStore`. Wording, password hashes, signatures: pure data. The limits of
`list_dispatchable_tasks` (three tasks per business) and of one tick of the schedule
(`MAX_TENANTS_PER_NIGHT`, beyond which tenants wait): both need many businesses at once.

## Plan

Done, the most important behaviour first: `MakerTask` with its contract and
proofs, `Publishing`, `MeterMath` and `MeterLedger` with their proofs, `Orders`, `RepMessages`,
`Accounts`, the stores and their double, `Deck`, `Chat` and `Night`, then
`PublishingProofs`, `OrdersProofs` (with `RepMessages`), `NightProofs`, `AccountsProofs`,
`DeckProofs` and `StoreAgreementProofs`. Every safety property of a passing run is proved.

Next, in this order:

1. An abstract account book for `Orders` (goods, money, a reason for each difference) and the
   refinement.
2. Delivery events that arrive before the receipt they belong to is finished, in `Publishing`.
3. Standing orders and the stock estimate as functions over bounded dates.
4. Several businesses: the fair share of `list_dispatchable_tasks`, and the tenants one tick of
   the schedule leaves waiting.
