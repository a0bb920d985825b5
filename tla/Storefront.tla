------------------------------- MODULE Storefront -------------------------------
(***************************************************************************)
(* A shopper's tabs on one store and the answers of the API they show: the *)
(* cart and its badge, the shipping options, the order and its payment     *)
(* intent.  Requests of one tab overlap and their answers may cross, and   *)
(* the merchant goes on writing the shipping methods of Shipping.          *)
(***************************************************************************)
EXTENDS Shipping, Sequences

CONSTANTS
  Tabs,
  Hops,       \* requests of the shopper under way at the same time
  Changes,    \* what the merchant writes meanwhile, some of MethodInputs
  MostItems,  \* bound of the cart; its items are of one product and cost 1
  MostOrders, \* bound of the orders
  MostDrops,  \* bound of the requests that fail on the way
  NoTab, Nothing

ASSUME StorefrontAssumption ==
  /\ NoTab \notin Tabs /\ Nothing \notin Nat
  /\ Changes \subseteq MethodInputs
  /\ MostItems \in Nat \ {0}
  /\ {MostOrders, MostDrops} \subseteq Nat

VARIABLES
  session,  \* localStorage: whether the store has a cart session
  cart,     \* items in the session's active cart at the API
  orders,   \* the orders made of it
  tab,      \* per tab, what its page shows
  hop,      \* requests under way
  outrun,   \* history: tabs whose page shows what another page, the merchant, or a
            \* failed or crossed answer has changed
  spent,    \* history: tabs whose page has made its order
  drops     \* history: the requests that failed on the way

storefrontVars == <<session, cart, orders, tab, hop, outrun, spent, drops>>

Items == 0..MostItems
NoOffer == [m \in Methods |-> Nothing]
Closed == [page |-> "closed", cart |-> Nothing, badge |-> 0, offer |-> NoOffer,
           selected |-> NoMethod, asking |-> FALSE, paying |-> FALSE, done |-> 0]
NoHop == [pc |-> "idle", tab |-> NoTab, kind |-> "none", arg |-> Nothing, answer |-> Nothing,
          offer |-> NoOffer, shown |-> 0]

Offer == [Methods -> Nat \cup {Nothing}]
TabRow == [page : {"closed", "product", "cart", "checkout"}, cart : Items \cup {Nothing},
           badge : Items, offer : Offer, selected : Methods \cup {NoMethod},
           asking : BOOLEAN, paying : BOOLEAN, done : Nat]
HopRow == [pc : {"idle", "sent", "answered", "failed"}, tab : Tabs \cup {NoTab},
           kind : {"none", "load", "badge", "add", "set", "options", "order", "intent"},
           arg : Nat \cup Methods \cup {Nothing}, answer : Nat \cup {Nothing},
           offer : Offer, shown : Nat]
OrderRow == [total : Nat, shown : Nat, fresh : BOOLEAN, intent : BOOLEAN, lost : BOOLEAN]

StorefrontTypeOK ==
  /\ session \in BOOLEAN
  /\ cart \in Items
  /\ orders \in Seq(OrderRow) /\ Len(orders) <= MostOrders
  /\ tab \in [Tabs -> TabRow]
  /\ \A t \in Tabs : tab[t].done <= Len(orders)
  /\ hop \in [Hops -> HopRow]
  /\ outrun \subseteq Tabs /\ spent \subseteq Tabs
  /\ drops \in 0..MostDrops

StorefrontInit ==
  /\ session = FALSE
  /\ cart = 0
  /\ orders = <<>>
  /\ tab = [t \in Tabs |-> Closed]
  /\ hop = [h \in Hops |-> NoHop]
  /\ outrun = {} /\ spent = {}
  /\ drops = 0

HopAt(h, pc) == hop[h].pc = pc
Request(t, kind, arg) ==
  [NoHop EXCEPT !.pc = "sent", !.tab = t, !.kind = kind, !.arg = arg]
HopsOf(t) == {h \in Hops : hop[h].tab = t}
TabGoes(t, next) == tab' = [tab EXCEPT ![t] = next]

Drops == drops < MostDrops /\ drops' = drops + 1

-------------------------------------------------------------------------------
(* What the shopper does *)

\* A page opens: answers to what the tab showed before are not looked at; with
\* a session the badge loads, and the cart on the pages that show it.
OpenPage(t, page) ==
  LET kinds == IF ~session THEN {} ELSE IF page = "product" THEN {"badge"} ELSE {"badge", "load"}
      free(h) == HopAt(h, "idle") IN
  /\ \E f \in [kinds -> {h \in Hops : free(h)}] :
       /\ \A a, b \in kinds : a # b => f[a] # f[b]
       /\ hop' = [h \in Hops |->
            IF \E a \in kinds : f[a] = h
            THEN Request(t, CHOOSE a \in kinds : f[a] = h, Nothing)
            ELSE IF h \in HopsOf(t) THEN [hop[h] EXCEPT !.tab = NoTab] ELSE hop[h]]
  /\ tab' = [tab EXCEPT ![t] = [Closed EXCEPT !.page = page]]
  /\ outrun' = outrun \ {t} /\ spent' = spent \ {t}
  /\ UNCHANGED <<session, cart, orders, method, drops>>

Send(t, kind, arg, next) ==
  /\ \E h \in Hops : HopAt(h, "idle") /\ hop' = [hop EXCEPT ![h] = Request(t, kind, arg)]
  /\ session' = TRUE
  /\ TabGoes(t, next)
  /\ UNCHANGED <<cart, orders, method, outrun, spent, drops>>

AddToCart(t) ==
  /\ tab[t].page = "product"
  /\ Send(t, "add", Nothing, tab[t])

\* A quantity, or 0 for removing the line or emptying the cart; the line must
\* be on the page.
SetQuantity(t, q) ==
  /\ tab[t].page = "cart" /\ tab[t].cart \in Items \ {0}
  /\ Send(t, "set", q, tab[t])

AskOptions(t) ==
  /\ tab[t].page = "checkout" /\ tab[t].cart \in Items \ {0} /\ ~tab[t].asking
  /\ Send(t, "options", Nothing, [tab[t] EXCEPT !.asking = TRUE])

Select(t, m) ==
  /\ tab[t].page = "checkout" /\ tab[t].offer[m] # Nothing
  /\ tab' = [tab EXCEPT ![t].selected = m]
  /\ tab' # tab
  /\ UNCHANGED <<session, cart, orders, method, hop, outrun, spent, drops>>

TotalShown(t) == tab[t].cart + tab[t].offer[tab[t].selected]

\* The form goes as often as no submission is under way, also after a success.
Submit(t) ==
  /\ tab[t].page = "checkout" /\ tab[t].selected # NoMethod /\ ~tab[t].paying
  /\ \E h \in Hops :
       /\ HopAt(h, "idle")
       /\ hop' = [hop EXCEPT ![h] =
            [Request(t, "order", tab[t].selected) EXCEPT !.shown = TotalShown(t)]]
  /\ session' = TRUE
  /\ tab' = [tab EXCEPT ![t].paying = TRUE]
  /\ UNCHANGED <<cart, orders, method, outrun, spent, drops>>

-------------------------------------------------------------------------------
(* What the API does: the cart's and the checkout's requests, each in one step *)

\* The tabs that go on showing the cart as it was: all but the one that asked,
\* and that one too when an earlier answer is still on its way to it.
Behind(h) ==
  {t \in Tabs : t = hop[h].tab => \E g \in HopsOf(t) \ {h} : HopAt(g, "answered")}

HopGoes(h, next) == hop' = [hop EXCEPT ![h] = next]
Answer(h, value) == HopGoes(h, [hop[h] EXCEPT !.pc = "answered", !.answer = value])

Fails(h) == HopGoes(h, [hop[h] EXCEPT !.pc = "failed"])

ServeCart(h) ==
  /\ HopAt(h, "sent") /\ hop[h].kind \in {"load", "badge"}
  /\ Answer(h, cart)
  /\ UNCHANGED <<session, cart, orders, tab, method, outrun, spent, drops>>

\* Mutant: the quantity is not compared with the stock.
ServeChangeUnchecked(h) ==
  LET next == IF hop[h].kind = "add" THEN cart + 1 ELSE hop[h].arg IN
  /\ HopAt(h, "sent") /\ hop[h].kind \in {"add", "set"}
  /\ cart' = next
  /\ Answer(h, next)
  /\ outrun' = outrun \cup Behind(h)
  /\ UNCHANGED <<session, orders, tab, method, spent, drops>>

\* An answer that is lost leaves the tab behind as well.
ServeChange(h) ==
  LET next == IF hop[h].kind = "add" THEN cart + 1 ELSE hop[h].arg IN
  /\ HopAt(h, "sent") /\ hop[h].kind \in {"add", "set"}
  /\ IF next \notin Items \/ (hop[h].kind = "set" /\ cart = 0)
     THEN Fails(h) /\ UNCHANGED <<cart, outrun, drops>>
     ELSE /\ cart' = next
          /\ \/ Answer(h, next) /\ outrun' = outrun \cup Behind(h) /\ UNCHANGED drops
             \/ Drops /\ Fails(h) /\ outrun' = Tabs
  /\ UNCHANGED <<session, orders, tab, method, spent>>

\* calculateShippingOptions offers the methods at their prices of now.
ServeOptions(h) ==
  LET options == ShippingOptions(cart) IN
  /\ HopAt(h, "sent") /\ hop[h].kind = "options"
  /\ IF cart = 0 \/ options = {} THEN Fails(h)
     ELSE HopGoes(h, [hop[h] EXCEPT !.pc = "answered",
            !.offer = [m \in Methods |-> IF m \in options THEN method[m].price ELSE Nothing]])
  /\ UNCHANGED <<session, cart, orders, tab, method, outrun, spent, drops>>

\* Mutant: the order's total leaves the shipping out.
ServeOrderWithoutShipping(h) ==
  /\ HopAt(h, "sent") /\ hop[h].kind = "order"
  /\ cart > 0 /\ Len(orders) < MostOrders
  /\ orders' = Append(orders, [total |-> cart, shown |-> hop[h].shown,
       fresh |-> hop[h].tab \in Tabs \ outrun, intent |-> FALSE, lost |-> FALSE])
  /\ Answer(h, Len(orders) + 1)
  /\ cart' = 0
  /\ outrun' = outrun \cup (Tabs \ {hop[h].tab})
  /\ spent' = spent \cup ({hop[h].tab} \ {NoTab})
  /\ UNCHANGED <<session, tab, method, drops>>

\* createOrderFromCart works the options out again, and the cart is spent: the
\* other pages do not know, and the one that ordered takes no notice (it neither
\* sets its cart nor emits cart-updated).  The order is lost to a page that has gone.
ServeOrder(h) ==
  LET m == hop[h].arg
      row(lost) == [total |-> cart + method[m].price, shown |-> hop[h].shown,
                    fresh |-> hop[h].tab \in Tabs \ outrun, intent |-> FALSE, lost |-> lost] IN
  /\ HopAt(h, "sent") /\ hop[h].kind = "order"
  /\ IF cart = 0 \/ m \notin ShippingOptions(cart)
     THEN Fails(h) /\ UNCHANGED <<cart, orders, outrun, spent, drops>>
     ELSE /\ Len(orders) < MostOrders
          /\ cart' = 0
          /\ outrun' = outrun \cup (Tabs \ {hop[h].tab})
          /\ spent' = spent \cup ({hop[h].tab} \ {NoTab})
          /\ \/ /\ Answer(h, Len(orders) + 1)
                /\ orders' = Append(orders, row(FALSE))
                /\ UNCHANGED drops
             \/ Drops /\ Fails(h) /\ orders' = Append(orders, row(TRUE))
  /\ UNCHANGED <<session, tab, method>>

ServeIntent(h) ==
  LET i == hop[h].arg IN
  /\ HopAt(h, "sent") /\ hop[h].kind = "intent"
  /\ orders' = [orders EXCEPT ![i].intent = TRUE]
  /\ \/ Answer(h, i) /\ UNCHANGED drops
     \/ Drops /\ Fails(h)
  /\ UNCHANGED <<session, cart, tab, method, outrun, spent>>

\* A request fails before the API has done anything.
DropHop(h) ==
  /\ Drops /\ HopAt(h, "sent")
  /\ Fails(h)
  /\ orders' = IF hop[h].kind = "intent" THEN [orders EXCEPT ![hop[h].arg].lost = TRUE] ELSE orders
  /\ UNCHANGED <<session, cart, tab, method, outrun, spent>>

-------------------------------------------------------------------------------
(* What the page does with an answer *)

Ends(h) == HopGoes(h, NoHop)

\* An answer to a page that has gone is dropped, and with it the order's intent.
IgnoreAnswer(h) ==
  /\ hop[h].pc \in {"answered", "failed"} /\ hop[h].tab = NoTab
  /\ Ends(h)
  /\ orders' = IF HopAt(h, "answered") /\ hop[h].kind = "order"
               THEN [orders EXCEPT ![hop[h].answer].lost = TRUE] ELSE orders
  /\ UNCHANGED <<session, cart, tab, method, outrun, spent, drops>>

ReceiveCart(h) ==
  LET t == hop[h].tab IN
  /\ HopAt(h, "answered") /\ t # NoTab /\ hop[h].kind \in {"load", "badge"}
  /\ TabGoes(t, IF hop[h].kind = "load" THEN [tab[t] EXCEPT !.cart = hop[h].answer]
                ELSE [tab[t] EXCEPT !.badge = hop[h].answer])
  /\ Ends(h)
  /\ UNCHANGED <<session, cart, orders, method, outrun, spent, drops>>

\* Mutant: the badge is not told.
ReceiveChangeSilently(h) ==
  LET t == hop[h].tab IN
  /\ HopAt(h, "answered") /\ t # NoTab /\ hop[h].kind \in {"add", "set"}
  /\ TabGoes(t, IF hop[h].kind = "set" THEN [tab[t] EXCEPT !.cart = hop[h].answer] ELSE tab[t])
  /\ Ends(h)
  /\ UNCHANGED <<session, cart, orders, method, outrun, spent, drops>>

\* emitCartUpdated: the badge of this window loads again.
ReceiveChange(h) ==
  LET t == hop[h].tab IN
  /\ HopAt(h, "answered") /\ t # NoTab /\ hop[h].kind \in {"add", "set"}
  /\ TabGoes(t, IF hop[h].kind = "set" THEN [tab[t] EXCEPT !.cart = hop[h].answer] ELSE tab[t])
  /\ HopGoes(h, Request(t, "badge", Nothing))
  /\ UNCHANGED <<session, cart, orders, method, outrun, spent, drops>>

\* The default method is selected, or the first: a selection made before is gone.
ReceiveOptions(h) ==
  LET t == hop[h].tab
      offer == hop[h].offer
      offered == {m \in Methods : offer[m] # Nothing}
      defaults == {m \in offered : method[m].isDefault} IN
  /\ HopAt(h, "answered") /\ t # NoTab /\ hop[h].kind = "options"
  /\ \E m \in IF defaults = {} THEN offered ELSE defaults :
       TabGoes(t, [tab[t] EXCEPT !.offer = offer, !.selected = m, !.asking = FALSE])
  /\ outrun' = IF \E m \in offered : method[m].price # offer[m] THEN outrun \cup {t} ELSE outrun
  /\ Ends(h)
  /\ UNCHANGED <<session, cart, orders, method, spent, drops>>

\* Mutant: the order's answer is the success.
ReceiveOrderAsSuccess(h) ==
  LET t == hop[h].tab IN
  /\ HopAt(h, "answered") /\ t # NoTab /\ hop[h].kind = "order"
  /\ TabGoes(t, [tab[t] EXCEPT !.done = hop[h].answer, !.paying = FALSE])
  /\ Ends(h)
  /\ UNCHANGED <<session, cart, orders, method, outrun, spent, drops>>

\* The order's answer is followed by the request of its intent ...
ReceiveOrder(h) ==
  LET t == hop[h].tab IN
  /\ HopAt(h, "answered") /\ t # NoTab /\ hop[h].kind = "order"
  /\ HopGoes(h, Request(t, "intent", hop[h].answer))
  /\ UNCHANGED <<session, cart, orders, tab, method, outrun, spent, drops>>

\* ... and the intent's by the success.
ReceiveIntent(h) ==
  LET t == hop[h].tab IN
  /\ HopAt(h, "answered") /\ t # NoTab /\ hop[h].kind = "intent"
  /\ TabGoes(t, [tab[t] EXCEPT !.done = hop[h].answer, !.paying = FALSE])
  /\ Ends(h)
  /\ UNCHANGED <<session, cart, orders, method, outrun, spent, drops>>

\* An error message; a badge that could not load shows 0.
ReceiveFailure(h) ==
  LET t == hop[h].tab
      kind == hop[h].kind IN
  /\ HopAt(h, "failed") /\ t # NoTab
  /\ TabGoes(t, CASE kind = "badge" -> [tab[t] EXCEPT !.badge = 0]
                  [] kind = "options" -> [tab[t] EXCEPT !.asking = FALSE]
                  [] kind \in {"order", "intent"} -> [tab[t] EXCEPT !.paying = FALSE]
                  [] OTHER -> tab[t])
  /\ outrun' = IF kind = "badge" THEN outrun \cup {t} ELSE outrun
  /\ Ends(h)
  /\ UNCHANGED <<session, cart, orders, method, spent, drops>>

-------------------------------------------------------------------------------
\* A request of the merchant's, its check and its write at once.
MerchantWrites(m, input) ==
  LET row == IF method[m] = NoMethod THEN input ELSE Overlaid(method[m], input) IN
  /\ method[m] = NoMethod => LeftOut \notin {input[f] : f \in DOMAIN input}
  /\ LimitsHold(row)
  /\ method' = [method EXCEPT ![m] = row]
  /\ method' # method
  /\ outrun' = outrun \cup {t \in Tabs :
       \/ tab[t].offer[m] \notin {Nothing, row.price}
       \/ \E h \in HopsOf(t) : hop[h].kind = "order" /\ hop[h].arg = m}
  /\ UNCHANGED <<session, cart, orders, tab, hop, spent, drops>>

StorefrontStep ==
  \/ \E t \in Tabs :
       \/ \E page \in {"product", "cart", "checkout"} : OpenPage(t, page)
       \/ AddToCart(t) \/ AskOptions(t) \/ Submit(t)
       \/ \E q \in Items : SetQuantity(t, q)
       \/ \E m \in Methods : Select(t, m)
  \/ \E h \in Hops :
       \/ ServeCart(h) \/ ServeChange(h) \/ ServeOptions(h) \/ ServeOrder(h) \/ ServeIntent(h)
       \/ DropHop(h) \/ IgnoreAnswer(h) \/ ReceiveCart(h) \/ ReceiveChange(h)
       \/ ReceiveOptions(h) \/ ReceiveOrder(h) \/ ReceiveIntent(h) \/ ReceiveFailure(h)
  \/ \E m \in Methods, input \in Changes : MerchantWrites(m, input)

StorefrontNext == StorefrontStep /\ UNCHANGED <<parcel, desk, twisted>>

StorefrontSpec ==
  /\ ShippingInit /\ StorefrontInit
  /\ [][StorefrontNext]_<<shippingVars, storefrontVars>>

-------------------------------------------------------------------------------
\* An order comes to the total the shopper saw when submitting it, unless another
\* page, the merchant, or a failed or crossed answer had changed it behind the page.
ChargedAsShown ==
  \A i \in 1..Len(orders) : orders[i].fresh => orders[i].total = orders[i].shown

\* A page that says the order is placed has its payment intent; an order without
\* one is on its way to it, unless a request failed or the page was left.
SuccessHasIntent ==
  /\ \A t \in Tabs : tab[t].done > 0 => orders[tab[t].done].intent
  /\ \A i \in 1..Len(orders) :
       \/ orders[i].intent \/ orders[i].lost
       \/ \E h \in Hops : HopAt(h, "answered") /\ hop[h].kind = "order" /\ hop[h].answer = i
       \/ \E h \in Hops : hop[h].kind = "intent" /\ hop[h].arg = i

\* Once a tab has its answers, its cart and its badge are those of the API,
\* unless another page, or a failed or crossed answer, had changed them behind the
\* page.  A page that has made its order is not current: the API's cart is empty
\* and the page goes on showing, as its own, the cart it has sold.
ShownCartIsCurrent ==
  \A t \in Tabs \ outrun :
    session /\ tab[t].page # "closed" /\ HopsOf(t) = {} =>
      IF t \in spent THEN cart = 0 /\ tab[t].cart \in Items \ {0}
      ELSE tab[t].badge = cart /\ tab[t].cart \in {cart, Nothing}
===============================================================================
