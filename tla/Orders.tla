------------------------------- MODULE Orders -------------------------------
(***************************************************************************)
(* Ordering supplies (handlers/orders.py, agents/quartermaster.py): a      *)
(* request prices a basket at the business's shop and buys it within the   *)
(* owner's standing limits, or else records an order that waits for the    *)
(* owner's approval.  Buying is a card charge, a placement and, if that is *)
(* refused, a refund; both providers replay an idempotency key, and an     *)
(* error the card provider answers is taken at its word.  The simulated    *)
(* store, which forgets its keys and delivers nothing, stands in for a     *)
(* shop that is paid with the card.                                        *)
(*                                                                         *)
(* The connection is autocommitted: each statement is a step, and nothing  *)
(* holds a row between two of them.  What a request reads when it starts   *)
(* (supplier, limits, weekly spend) is one step: nothing it does comes     *)
(* between.  There is one basket, the one case in which two orders can     *)
(* have the same cart; all happens within the week that spend is counted   *)
(* over.  A shop and a price stand for a cart and for its fingerprint.     *)
(***************************************************************************)
EXTENDS Naturals, FiniteSets, Functions

CONSTANTS Requests,    \* concurrent invocations of the handler
          Shops,       \* values of the supplier setting
          CardShops,   \* the shops that are paid with the card
          Prices,      \* totals the basket may have, in cents
          PerOrderCap, \* of the standing limit that covers the basket: add_authority
          PeriodCap,   \* only adds rows, _match takes the oldest, none removes one
          MaxAsks,     \* bound on requests that may create an order
          MaxChanges,  \* bound on price moves and changes of supplier
          MaxDeaths,   \* bound on requests that die
          None

Carts   == [shop : Shops, cents : Prices]
OrderIds == 1..MaxAsks

\* auto:<fingerprint> and approve:<order id>; the pay: and refund: keys follow them.
AutoKey(cart) == <<"auto", cart>>
ApproveKey(o) == <<"approve", o>>
Keys == {AutoKey(c) : c \in Carts} \cup {ApproveKey(o) : o \in OrderIds}

ASSUME OrdersAssumptions ==
    /\ IsFiniteSet(Requests) /\ Requests # {}
    /\ CardShops \subseteq Shops /\ Shops # {} /\ Prices \subseteq Nat \ {0}
    /\ PerOrderCap \in Nat /\ PeriodCap \in Nat
    /\ MaxAsks \in Nat /\ MaxChanges \in Nat /\ MaxDeaths \in Nat
    /\ None \notin Keys \cup Carts \cup OrderIds

VARIABLES
    supplier, \* orders_setting: the shop of the business
    earlier,  \* spent under the limits earlier in the week, without asking
    quote,    \* [Shops -> what the basket costs there, None when it is not sold]
    orders,   \* [OrderIds -> supply_order row]
    pages,    \* [OrderIds -> the carts on open pages that have its buttons]
    charges,  \* [Keys -> what the card provider has under the key]
    bought,   \* [Keys -> the cart the shop took under the key, or None]
    request,  \* [Requests -> program counter and locals]
    lost,     \* keys whose request died over a charge, or was refused the refund
    untold,   \* requests that bought unasked and ended with no word of it on the books
    asked, changes, deaths

world == <<supplier, earlier, quote, changes>>
vars  == <<world, orders, pages, charges, bought, request, lost, untold, asked, deaths>>

Row == [status : {"absent", "awaiting", "placed", "failed", "rejected"},
        trigger : {"owner", "stock"}, cart : Carts \cup {None},
        receipt : Keys \cup {None}, waited : BOOLEAN]
NoRow == [status |-> "absent", trigger |-> "owner", cart |-> None,
          receipt |-> None, waited |-> FALSE]

Charge == [status : {"none", "charged", "refunded"}, cents : Prices \cup {0}]

\* "draft": the rows are read; "charge", "place",
\* "refund": the cart may be bought; "record": the outcome is known.
Request == [pc : {"idle", "draft", "charge", "place", "refund", "record"},
            kind : {"ask", "approve", "reject"}, trigger : {"owner", "stock"},
            order : OrderIds \cup {None}, shop : Shops, spent : Nat,
            seen : Carts \cup {None}, approved : Carts \cup {None},
            cart : Carts \cup {None},
            outcome : {"none", "placed", "awaiting", "failed", "rejected"}]
Idle == [pc |-> "idle", kind |-> "ask", trigger |-> "owner", order |-> None,
         shop |-> CHOOSE s \in Shops : TRUE, spent |-> 0,
         seen |-> None, approved |-> None, cart |-> None, outcome |-> "none"]

Init ==
    /\ supplier \in Shops /\ earlier \in 0..PeriodCap
    /\ \E p \in Prices : quote = [s \in Shops |-> p]
    /\ orders = [o \in OrderIds |-> NoRow] /\ pages = [o \in OrderIds |-> {}]
    /\ charges = [k \in Keys |-> [status |-> "none", cents |-> 0]]
    /\ bought = [k \in Keys |-> None]
    /\ request = [r \in Requests |-> Idle]
    /\ lost = {} /\ untold = 0 /\ asked = 0 /\ changes = 0 /\ deaths = 0

Placed == {o \in OrderIds : orders[o].status = "placed"}

Cents(some) == SumFunction([o \in some |-> orders[o].cart.cents])

\* spent_since: everything placed, however it was paid.
Spent == earlier + Cents(Placed)

\* A plausible bug: an approved order goes under the key of its cart.
KeyOfCart(r) == AutoKey(request[r].cart)

Key(r) == IF request[r].kind = "ask" THEN AutoKey(request[r].cart)
          ELSE ApproveKey(request[r].order)

Goto(r, pc) == request' = [request EXCEPT ![r].pc = pc]

Conclude(r, outcome) ==
    request' = [request EXCEPT ![r].pc = "record", ![r].outcome = outcome, ![r].seen = None]

-----------------------------------------------------------------------------
\* The owner's settings and the shops' prices.

ChangeSupplier(s) ==
    /\ changes < MaxChanges /\ supplier # s
    /\ supplier' = s /\ changes' = changes + 1
    /\ UNCHANGED <<earlier, quote, orders, pages, charges, bought, request, lost, untold,
                   asked, deaths>>

\* The price moves, or the basket is no longer to be had.
ChangePrice(s, p) ==
    /\ changes < MaxChanges /\ quote[s] # p
    /\ quote' = [quote EXCEPT ![s] = p] /\ changes' = changes + 1
    /\ UNCHANGED <<supplier, earlier, orders, pages, charges, bought, request, lost, untold,
                   asked, deaths>>

-----------------------------------------------------------------------------
\* A request begins.

\* run_orders for "ask", "standing/run" and, as a guess, "stock/draft".
Ask(r, trigger) ==
    /\ request[r].pc = "idle" /\ asked < MaxAsks
    /\ asked' = asked + 1
    /\ request' = [request EXCEPT ![r] =
          [Idle EXCEPT !.pc = "draft", !.trigger = trigger, !.order = asked + 1,
                       !.shop = supplier, !.spent = Spent]]
    /\ UNCHANGED <<world, orders, pages, charges, bought, lost, untold, deaths>>

\* run_orders for "approve" and "reject", up to get_order (409 once decided).  The
\* owner presses the button of a page that shows some cart of the order, and the
\* request names the order only: the page may be older than the order's cart, and
\* then nothing is kept of it.
Approve(r, o, page) ==
    /\ request[r].pc = "idle" /\ orders[o].status = "awaiting"
    /\ request' = [request EXCEPT ![r] =
          [Idle EXCEPT !.pc = "draft", !.kind = "approve", !.order = o,
                       !.shop = supplier, !.approved = orders[o].cart,
                       !.seen = IF page = orders[o].cart THEN page ELSE None]]
    /\ UNCHANGED <<world, orders, pages, charges, bought, lost, untold, asked, deaths>>

Reject(r, o) ==
    /\ request[r].pc = "idle" /\ orders[o].status = "awaiting"
    /\ request' = [request EXCEPT ![r] =
          [Idle EXCEPT !.pc = "record", !.kind = "reject", !.order = o,
                       !.outcome = "rejected"]]
    /\ UNCHANGED <<world, orders, pages, charges, bought, lost, untold, asked, deaths>>

-----------------------------------------------------------------------------
\* plan_order and place_approved_order.

\* A plausible bug: what is already spent is compared, and not this order.
WithinLimitsSoFar(r, cart) == request[r].spent < PeriodCap

\* authorize, with the spend this request has read.
WithinLimits(r, cart) ==
    /\ cart.cents <= PerOrderCap
    /\ request[r].spent + cart.cents <= PeriodCap

\* A plausible bug: the approval covers whatever the basket costs now.
MayBuyAtAnyPrice(r, cart) ==
    request[r].kind = "ask" => request[r].trigger = "owner" /\ WithinLimits(r, cart)

\* Nothing inferred is bought unasked, and an approval is for one fingerprint.
MayBuy(r, cart) ==
    IF request[r].kind = "ask"
    THEN request[r].trigger = "owner" /\ WithinLimits(r, cart)
    ELSE cart = request[r].approved

\* tool.draft and the decision.
Draft(r) ==
    LET shop == request[r].shop
        cart == [shop |-> shop, cents |-> quote[shop]] IN
    /\ request[r].pc = "draft"
    /\ IF quote[shop] = None THEN Conclude(r, "failed")
       ELSE LET drafted == [request[r] EXCEPT !.cart = cart, !.spent = 0,
                                                 !.approved = None]
            IN  request' = [request EXCEPT ![r] =
                   IF ~MayBuy(r, cart)
                   THEN [drafted EXCEPT !.pc = "record", !.outcome = "awaiting", !.seen = None]
                   ELSE [drafted EXCEPT
                            !.pc = IF shop \in CardShops THEN "charge" ELSE "place"]]
    /\ UNCHANGED <<world, orders, pages, charges, bought, lost, untold, asked, deaths>>

\* payment_tool.charge: a new charge, or the one already under the key.
ChargeCard(r) ==
    LET k == Key(r) c == request[r].cart.cents IN
    /\ request[r].pc = "charge"
    /\ \/ /\ charges[k].status = "none"
          /\ charges' = [charges EXCEPT ![k] = [status |-> "charged", cents |-> c]]
       \/ /\ charges[k].status # "none" /\ charges[k].cents = c
          /\ UNCHANGED charges
    /\ Goto(r, "place")
    /\ UNCHANGED <<world, orders, pages, bought, lost, untold, asked, deaths>>

\* Declined, or the key was used for another amount.
ChargeRefused(r) ==
    /\ request[r].pc = "charge"
    /\ Conclude(r, "failed")
    /\ UNCHANGED <<world, orders, pages, charges, bought, lost, untold, asked, deaths>>

\* tool.place: a new order, or the one already under the key.
PlaceOrder(r) ==
    LET k == Key(r) IN
    /\ request[r].pc = "place"
    /\ bought[k] \in {None, request[r].cart}
    /\ bought' = [bought EXCEPT ![k] = request[r].cart]
    /\ Conclude(r, "placed")
    /\ UNCHANGED <<world, orders, pages, charges, lost, untold, asked, deaths>>

\* The request has bought unasked, and ends with no word of it on the books.
OneMoreUntold(r) == untold' = IF request[r].kind = "ask" THEN untold + 1 ELSE untold

\* The order was taken, and asking for its status failed (ZincOrderingTool).
TakenUnheard(r) ==
    /\ request[r].shop \notin CardShops /\ bought[Key(r)] = None
    /\ bought' = [bought EXCEPT ![Key(r)] = request[r].cart]
    /\ OneMoreUntold(r)

\* A plausible bug: the outcome is reported before the refund.
PlaceRefusedWithoutRefund(r) ==
    /\ request[r].pc = "place"
    /\ UNCHANGED <<bought, untold>> \/ TakenUnheard(r)
    /\ Conclude(r, "failed")
    /\ UNCHANGED <<world, orders, pages, charges, lost, asked, deaths>>

\* OrderingError: the shop refuses, or the key was used for another cart, or what
\* the shop took is not known to have been.
PlaceRefused(r) ==
    /\ request[r].pc = "place"
    /\ UNCHANGED <<bought, untold>> \/ TakenUnheard(r)
    /\ IF request[r].shop \in CardShops THEN Goto(r, "refund")
       ELSE Conclude(r, "failed")
    /\ UNCHANGED <<world, orders, pages, charges, lost, asked, deaths>>

RefundCard(r) ==
    /\ request[r].pc = "refund"
    /\ charges' = [charges EXCEPT ![Key(r)].status = "refunded"]
    /\ Conclude(r, "failed")
    /\ UNCHANGED <<world, orders, pages, bought, lost, untold, asked, deaths>>

\* The reason on the order then says that it needs attention.
RefundRefused(r) ==
    /\ request[r].pc = "refund"
    /\ lost' = lost \cup {Key(r)}
    /\ Conclude(r, "failed")
    /\ UNCHANGED <<world, orders, pages, charges, bought, untold, asked, deaths>>

\* _record_plan, which writes nothing for a failure, and the three update_order of
\* a decision, none of which looks at the status again.
Record(r) ==
    LET q == request[r] IN
    /\ q.pc = "record"
    /\ orders' =
          IF q.kind = "ask" /\ q.outcome = "failed" THEN orders
          ELSE [orders EXCEPT ![q.order] =
             IF q.kind = "ask"
             THEN [status |-> q.outcome, trigger |-> q.trigger, cart |-> q.cart,
                   receipt |-> IF q.outcome = "placed" THEN Key(r) ELSE None,
                   waited |-> q.outcome = "awaiting"]
             ELSE IF q.outcome = "placed"
             THEN [@ EXCEPT !.status = "placed", !.cart = q.cart, !.receipt = Key(r)]
             ELSE IF q.outcome = "awaiting" THEN [@ EXCEPT !.cart = q.cart]
             ELSE [@ EXCEPT !.status = q.outcome]]
    /\ pages' = [pages EXCEPT ![q.order] =
          IF q.outcome = "awaiting" /\ orders'[q.order].status = "awaiting"
          THEN @ \cup {q.cart} ELSE {}]
    /\ request' = [request EXCEPT ![r] = Idle]
    /\ UNCHANGED <<world, charges, bought, lost, untold, asked, deaths>>

\* The Lambda dies, or a timeout that is no OrderingError or PaymentError escapes.
Die(r) ==
    /\ request[r].pc \notin {"idle", "draft"} /\ deaths < MaxDeaths
    /\ deaths' = deaths + 1
    /\ lost' = IF request[r].pc \in {"place", "refund"} /\ request[r].shop \in CardShops
               THEN lost \cup {Key(r)} ELSE lost
    /\ IF request[r].pc = "record" /\ request[r].outcome = "placed"
       THEN OneMoreUntold(r) ELSE UNCHANGED untold
    /\ request' = [request EXCEPT ![r] = Idle]
    /\ UNCHANGED <<world, orders, pages, charges, bought, asked>>

Next ==
    \/ \E s \in Shops : \/ ChangeSupplier(s)
                        \/ \E p \in Prices \cup {None} : ChangePrice(s, p)
    \/ \E r \in Requests :
          \/ \E t \in {"owner", "stock"} : Ask(r, t)
          \/ \E o \in OrderIds : \/ \E page \in pages[o] : Approve(r, o, page)
                                \/ Reject(r, o)
          \/ Draft(r)
          \/ ChargeCard(r) \/ ChargeRefused(r)
          \/ PlaceOrder(r) \/ PlaceRefused(r)
          \/ RefundCard(r) \/ RefundRefused(r)
          \/ Record(r) \/ Die(r)

Spec == Init /\ [][Next]_vars

-----------------------------------------------------------------------------
\* Properties.

TypeOK ==
    /\ supplier \in Shops /\ earlier \in 0..PeriodCap
    /\ quote \in [Shops -> Prices \cup {None}]
    /\ lost \subseteq Keys /\ untold \in Nat /\ pages \in [OrderIds -> SUBSET Carts]
    /\ orders \in [OrderIds -> Row] /\ request \in [Requests -> Request]
    /\ charges \in [Keys -> Charge] /\ bought \in [Keys -> Carts \cup {None}]
    /\ asked \in 0..MaxAsks /\ changes \in 0..MaxChanges /\ deaths \in 0..MaxDeaths

\* An order the books call placed was taken by the shop, and one the owner had to
\* approve has its goods to itself: no other order shows the same receipt.
PlacedIsBought ==
    \A o \in Placed :
        /\ orders[o].receipt # None /\ bought[orders[o].receipt] # None
        /\ orders[o].waited =>
              \A p \in Placed \ {o} : orders[p].receipt # orders[o].receipt

\* An order that the stock model guessed is never placed without having waited
\* for the owner (ALWAYS_ASK_TRIGGERS).
GuessesWait == \A o \in Placed : orders[o].trigger = "stock" => orders[o].waited

\* The card is not left charged for goods no shop has: the charge is refunded, or
\* the shop has the order, or the request that charged is still at it, died or
\* was refused the refund (_place).
ChargesAnswered ==
    \A k \in Keys :
        charges[k].status = "charged" =>
            \/ bought[k] # None \/ k \in lost
            \/ \E r \in Requests : request[r].pc \in {"place", "refund"} /\ Key(r) = k

\* What the shops take unasked in a week, on the books or not, passes the limit by
\* one order for each further request at once, and by one for each request that
\* bought and ended with no word of it: the spend is read before pricing, written
\* after the purchase, and nothing holds it between.
Unasked == {c \in Carts : bought[AutoKey(c)] # None}
AutoSpend == earlier + SumFunction([c \in Unasked |-> c.cents])
OvershootBounded ==
    AutoSpend <= PeriodCap + (Cardinality(Requests) - 1 + untold) * PerOrderCap

\* test_orders_handler.py: "a rejection is recorded and spends nothing".
RejectedSpendsNothing ==
    \A o \in OrderIds : orders[o].status = "rejected" =>
        bought[ApproveKey(o)] = None /\ charges[ApproveKey(o)].status # "charged"

\* docs/ORDERS_AGENT.md: "A per-tenant spend ceiling per order and per rolling 7
\* days [...] binds standing authority and per-cart approval alike".
CeilingsBind == /\ \A o \in Placed : orders[o].cart.cents <= PerOrderCap
                /\ Spent <= PeriodCap

\* docs/ORDERS_AGENT.md: "The draft the owner approved is the cart that is bought."
\* What the shop takes for an approval is the cart on the page the owner pressed, if
\* that was still the order's cart, wherever prices and the supplier move from then
\* until the shop is called.
ApprovedCartIsBought ==
    [][\A o \in OrderIds : bought'[ApproveKey(o)] # bought[ApproveKey(o)] =>
          \E r \in Requests :
             /\ request[r].pc = "place" /\ request'[r] # request[r] /\ request[r].order = o
             /\ request[r].seen \in {None, bought'[ApproveKey(o)]}]_vars
=============================================================================
