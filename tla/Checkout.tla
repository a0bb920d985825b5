------------------------------- MODULE Checkout -------------------------------
(***************************************************************************)
(* The stock of one store as carts fill, checkouts turn carts into orders, *)
(* cancellations and refunds give stock back, and the store's catalog      *)
(* screens publish, withdraw and restock products.                         *)
(*                                                                         *)
(* A call is one HTTP request. What it writes is computed from what it has *)
(* read; between the two other calls run. A transaction's writes become    *)
(* visible together, at its commit; until then they lock the rows they     *)
(* wrote, and nothing locks the rows it only read. A refused call changes  *)
(* nothing and has no step, unless it is refused after its first read.     *)
(***************************************************************************)
EXTENDS Integers, Functions

CONSTANTS
  Products,
  Skus,          \* what a cart row names: a variant, or a product without any
  Variants,      \* the skus that are ProductVariant rows with their own stock
  Parent,        \* the product of a sku
  Carts,
  NoCart,
  Calls,         \* requests; each runs once
  InitialStock,  \* stock of each product, and of each variant, at first
  MaxQuantity,   \* largest quantity a customer asks for
  Restocks       \* what the store may enter as a stock quantity

ASSUME CheckoutAssumption ==
  /\ Variants \subseteq Skus
  /\ Parent \in [Skus -> Products]
  \* A product with variants is not sold without naming one.
  /\ \A s, t \in Skus : s # t /\ Parent[s] = Parent[t] => s \in Variants
  /\ NoCart \notin Carts
  /\ InitialStock \in Nat
  /\ MaxQuantity \in Nat
  /\ Restocks \subseteq Nat

VARIABLES
  product,   \* stock and status of each product
  variant,   \* stock of each variant
  cart,      \* status and rows of each cart
  order,     \* the order a checkout call created
  call       \* progress and local variables of each request

vars == <<product, variant, cart, order, call>>

ProductStatus == {"DRAFT", "ACTIVE", "INACTIVE", "OUT_OF_STOCK", "ARCHIVED"}

ProductRow == [stock : Int, status : ProductStatus]

\* A cart or order row; id is the call that created it.
ItemRow == [id : Calls, sku : Skus, quantity : Nat]

Steps ==
  {"idle", "create", "update", "delete", "clear", "readProducts",
   "readVariants", "commit", "restore", "restoreRow", "publish", "edit", "done"}

\* What the product form may carry: at most one value for each column.
Forms == [stock : SUBSET Nat, status : SUBSET ProductStatus]

CartRow == [status : {"ACTIVE", "CONVERTED"}, rows : SUBSET ItemRow]

OrderRow ==
  [status : {"NONE", "OPEN", "CLOSED"}, cart : Carts \cup {NoCart}, rows : SUBSET ItemRow]

\* What a request knows: rows, product and variant are what it has read, now
\* the order row it restores, target the products it is about to write or,
\* in a restoring transaction, has written.
CallRow ==
  [pc : Steps, cart : Carts \cup {NoCart}, rows : SUBSET ItemRow, order : Calls,
   product : [Products -> ProductRow], variant : [Skus -> Int],
   now : SUBSET ItemRow, target : SUBSET Products, form : Forms]

TypeOK ==
  /\ product \in [Products -> ProductRow]
  /\ variant \in [Skus -> Int]
  /\ cart \in [Carts -> CartRow]
  /\ order \in [Calls -> OrderRow]
  /\ call \in [Calls -> CallRow]

NoForm == [stock |-> {}, status |-> {}]

\* The local variables of a call that has not begun, or that has ended.
NoLocals(h, pc) ==
  [pc |-> pc, cart |-> NoCart, rows |-> {}, order |-> h,
   product |-> [p \in Products |-> [stock |-> 0, status |-> "DRAFT"]],
   variant |-> [s \in Skus |-> 0], now |-> {}, target |-> {}, form |-> NoForm]

Init ==
  /\ product = [p \in Products |->
       [stock |-> InitialStock,
        status |-> IF InitialStock > 0 THEN "ACTIVE" ELSE "OUT_OF_STOCK"]]
  /\ variant = [s \in Skus |-> InitialStock]
  /\ cart = [c \in Carts |-> [status |-> "ACTIVE", rows |-> {}]]
  /\ order = [h \in Calls |-> [status |-> "NONE", cart |-> NoCart, rows |-> {}]]
  /\ call = [h \in Calls |-> NoLocals(h, "idle")]

At(h, pc) == call[h].pc = pc

Ends(h) == call' = [call EXCEPT ![h] = NoLocals(h, "done")]

-------------------------------------------------------------------------------
(* The cart: addItem, updateItem, removeItem, clear.                       *)

StockOf(s) == IF s \in Variants THEN variant[s] ELSE product[Parent[s]].stock

\* ensurePurchasableProduct
Purchasable(s, quantity) ==
  /\ product[Parent[s]].status = "ACTIVE"
  /\ StockOf(s) >= quantity

\* A call that has read an active cart goes on to write the given rows.
HoldsRows(h, pc, c, rows) ==
  call' = [call EXCEPT ![h] = [NoLocals(h, pc) EXCEPT !.cart = c, !.rows = rows]]

AddItem(h, c, s, quantity) ==
  /\ At(h, "idle")
  /\ cart[c].status = "ACTIVE"
  /\ Purchasable(s, quantity)
  /\ \/ /\ \A r \in cart[c].rows : r.sku # s
        /\ HoldsRows(h, "create", c, {[id |-> h, sku |-> s, quantity |-> quantity]})
     \/ \E r \in cart[c].rows :
          /\ r.sku = s
          /\ StockOf(s) >= r.quantity + quantity
          /\ HoldsRows(h, "update", c, {[r EXCEPT !.quantity = @ + quantity]})
  /\ UNCHANGED <<product, variant, cart, order>>

UpdateItem(h, c, r, quantity) ==
  /\ At(h, "idle")
  /\ cart[c].status = "ACTIVE"
  /\ r \in cart[c].rows
  /\ Purchasable(r.sku, quantity)
  /\ HoldsRows(h, "update", c, {[r EXCEPT !.quantity = quantity]})
  /\ UNCHANGED <<product, variant, cart, order>>

RemoveItem(h, c, r) ==
  /\ At(h, "idle")
  /\ cart[c].status = "ACTIVE"
  /\ r \in cart[c].rows
  /\ HoldsRows(h, "delete", c, {r})
  /\ UNCHANGED <<product, variant, cart, order>>

ClearCart(h, c) ==
  /\ At(h, "idle")
  /\ cart[c].status = "ACTIVE"
  /\ HoldsRows(h, "clear", c, {})
  /\ UNCHANGED <<product, variant, cart, order>>

SetRows(c, rows) == cart' = [cart EXCEPT ![c].rows = rows]

\* The unique index on (cart, product, variant) refuses a second row of a
\* variant; it binds no row whose variant is null.
CreateRow(h) ==
  LET c == call[h].cart IN
  /\ At(h, "create")
  /\ SetRows(c, cart[c].rows \cup
       {r \in call[h].rows :
          r.sku \in Variants => \A q \in cart[c].rows : q.sku # r.sku})
  /\ Ends(h)
  /\ UNCHANGED <<product, variant, order>>

\* Updating or deleting a row that is gone fails and changes nothing.
UpdateRow(h) ==
  LET c == call[h].cart IN
  /\ At(h, "update")
  /\ SetRows(c, {r \in cart[c].rows : \A q \in call[h].rows : q.id # r.id} \cup
                {q \in call[h].rows : \E r \in cart[c].rows : q.id = r.id})
  /\ Ends(h)
  /\ UNCHANGED <<product, variant, order>>

DeleteRow(h) ==
  LET c == call[h].cart IN
  /\ At(h, "delete")
  /\ SetRows(c, {r \in cart[c].rows : \A q \in call[h].rows : q.id # r.id})
  /\ Ends(h)
  /\ UNCHANGED <<product, variant, order>>

DeleteAllRows(h) ==
  /\ At(h, "clear")
  /\ SetRows(call[h].cart, {})
  /\ Ends(h)
  /\ UNCHANGED <<product, variant, order>>

-------------------------------------------------------------------------------
(* createOrderFromCart. Every row is checked against the stock that was    *)
(* read, on its own: rows of one product are not added up.                 *)

CheckoutReadsCart(h, c) ==
  /\ At(h, "idle")
  /\ cart[c].status = "ACTIVE"
  /\ cart[c].rows # {}
  /\ HoldsRows(h, "readProducts", c, cart[c].rows)
  /\ UNCHANGED <<product, variant, cart, order>>

CheckoutReadsProducts(h) ==
  /\ At(h, "readProducts")
  /\ call' = [call EXCEPT ![h] = [@ EXCEPT !.pc = "readVariants", !.product = product]]
  /\ UNCHANGED <<product, variant, cart, order>>

\* Mutant: only a variant's own stock is compared.
FitsVariant(h, r) ==
  LET p == call[h].product[Parent[r.sku]] IN
  /\ p.status = "ACTIVE"
  /\ r.sku \in Variants => variant[r.sku] >= r.quantity

\* One row fits the product row the call has read, and the variant row.
Fits(h, r) ==
  LET p == call[h].product[Parent[r.sku]] IN
  /\ p.status = "ACTIVE"
  /\ p.stock >= r.quantity
  /\ r.sku \in Variants => variant[r.sku] >= r.quantity

CheckoutReadsVariants(h) ==
  /\ At(h, "readVariants")
  /\ IF \A r \in call[h].rows : Fits(h, r)
     THEN call' = [call EXCEPT ![h] = [@ EXCEPT !.pc = "commit", !.variant = variant]]
     ELSE Ends(h)
  /\ UNCHANGED <<product, variant, cart, order>>

ProductsOf(rows) == {Parent[r.sku] : r \in rows}

\* Mutant: a sold out product stays on sale.
StatusForAnyStock(stock) == "ACTIVE"

StatusForStock(stock) == IF stock > 0 THEN "ACTIVE" ELSE "OUT_OF_STOCK"

\* The stock adjustments overwrite each other when two rows share a product:
\* last says which row of each product is written last.
StockAfter(h, last) ==
  [p \in Products |->
    IF p \in ProductsOf(call[h].rows)
    THEN LET left == call[h].product[p].stock - last[p].quantity
         IN [stock |-> left, status |-> StatusForStock(left)]
    ELSE product[p]]

VariantsAfter(h, last) ==
  [s \in Skus |->
    IF \E r \in call[h].rows : r.sku = s /\ s \in Variants
    THEN call[h].variant[s] - last[s].quantity
    ELSE variant[s]]

LastOfProduct(rows) ==
  {last \in [ProductsOf(rows) -> rows] :
     \A p \in ProductsOf(rows) : Parent[last[p].sku] = p}

LastOfSku(rows) ==
  {last \in [{r.sku : r \in rows} -> rows] :
     \A s \in {r.sku : r \in rows} : last[s].sku = s}

\* No transaction of another call has written one of these products.
Unlocked(h, products) ==
  \A g \in Calls \ {h} :
    call[g].pc \in {"restore", "restoreRow"} => call[g].target \cap products = {}

\* Mutant: the cart stays active.
CommitKeepingCart(h) ==
  LET c == call[h].cart
      rows == call[h].rows IN
  /\ At(h, "commit")
  /\ Unlocked(h, ProductsOf(rows))
  /\ \E last \in LastOfProduct(rows) : product' = StockAfter(h, last)
  /\ \E last \in LastOfSku(rows) : variant' = VariantsAfter(h, last)
  /\ order' = [order EXCEPT ![h] = [status |-> "OPEN", cart |-> c, rows |-> rows]]
  /\ Ends(h)
  /\ UNCHANGED cart

\* One transaction, and it looks at nothing again: not at the stock, not at
\* the product's status, not at the cart's.
CommitCheckout(h) ==
  LET c == call[h].cart
      rows == call[h].rows IN
  /\ At(h, "commit")
  /\ Unlocked(h, ProductsOf(rows))
  /\ \E last \in LastOfProduct(rows) : product' = StockAfter(h, last)
  /\ \E last \in LastOfSku(rows) : variant' = VariantsAfter(h, last)
  /\ order' = [order EXCEPT ![h] = [status |-> "OPEN", cart |-> c, rows |-> rows]]
  /\ cart' = [cart EXCEPT ![c].status = "CONVERTED"]
  /\ Ends(h)

-------------------------------------------------------------------------------
(* restoreStockForOrderTransaction, on the way to CANCELED or REFUNDED: a  *)
(* row at a time reads its product, or what this transaction has written   *)
(* of it, and writes it back with the row's quantity added. OrderPayments  *)
(* has the handlers that get here, and why two may for one order.          *)

\* Mutant: a closed order is restored again.
BeginRestoreAgain(h, o) ==
  /\ At(h, "idle")
  /\ order[o].status # "NONE"
  /\ call' = [call EXCEPT ![h] =
       [NoLocals(h, "restore") EXCEPT !.order = o, !.rows = order[o].rows]]
  /\ UNCHANGED <<product, variant, cart, order>>

BeginRestore(h, o) ==
  /\ At(h, "idle")
  /\ order[o].status = "OPEN"
  /\ call' = [call EXCEPT ![h] =
       [NoLocals(h, "restore") EXCEPT !.order = o, !.rows = order[o].rows]]
  /\ UNCHANGED <<product, variant, cart, order>>

\* An order has one row of a variant, so only a product may be read twice.
AfterReading(h, r) ==
  LET p == Parent[r.sku] IN
  [call[h] EXCEPT
    !.pc = "restoreRow",
    !.now = {r},
    !.product = IF p \in call[h].target THEN @ ELSE [@ EXCEPT ![p] = product[p]],
    !.variant = [@ EXCEPT ![r.sku] = variant[r.sku]]]

RestoreReadsRow(h, r) ==
  /\ At(h, "restore")
  /\ r \in call[h].rows
  /\ call' = [call EXCEPT ![h] = AfterReading(h, r)]
  /\ UNCHANGED <<product, variant, cart, order>>

\* Mutant: the status follows the stock, whatever it was.
ReopenedProduct(seen, quantity) ==
  [stock |-> seen.stock + quantity, status |-> StatusForStock(seen.stock + quantity)]

RestoredProduct(seen, quantity) ==
  LET next == seen.stock + quantity
  IN [stock |-> next,
      status |-> IF seen.status = "OUT_OF_STOCK" /\ next > 0
                 THEN "ACTIVE" ELSE seen.status]

AfterWriting(h, r) ==
  LET p == Parent[r.sku]
      seen == call[h].product
      counted == call[h].variant IN
  [call[h] EXCEPT
    !.pc = "restore",
    !.now = {},
    !.rows = @ \ {r},
    !.target = @ \cup {p},
    !.product = [seen EXCEPT ![p] = RestoredProduct(seen[p], r.quantity)],
    !.variant = [counted EXCEPT ![r.sku] = counted[r.sku] + r.quantity]]

RestoreWritesRow(h) ==
  /\ At(h, "restoreRow")
  /\ \E r \in call[h].now :
       /\ Unlocked(h, {Parent[r.sku]})
       /\ call' = [call EXCEPT ![h] = AfterWriting(h, r)]
  /\ UNCHANGED <<product, variant, cart, order>>

\* A deadlock or the transaction's time limit rolls everything back.
RestoreAborts(h) ==
  /\ call[h].pc \in {"restore", "restoreRow"}
  /\ Ends(h)
  /\ UNCHANGED <<product, variant, cart, order>>

CommitRestore(h) ==
  LET o == call[h].order IN
  /\ At(h, "restore")
  /\ call[h].rows = {}
  /\ product' = [p \in Products |->
       IF p \in call[h].target THEN call[h].product[p] ELSE product[p]]
  /\ variant' = [s \in Skus |->
       IF s \in Variants /\ \E r \in order[o].rows : r.sku = s
       THEN call[h].variant[s] ELSE variant[s]]
  /\ order' = [order EXCEPT ![o].status = "CLOSED"]
  /\ Ends(h)
  /\ UNCHANGED cart

-------------------------------------------------------------------------------
(* The catalog screens.                                                    *)

\* publishProduct and updateProduct read the product first; the status they
\* write follows from what they read.
CatalogReads(h, pc, p, form) ==
  /\ At(h, "idle")
  /\ call' = [call EXCEPT ![h] =
       [NoLocals(h, pc) EXCEPT !.product = product, !.target = {p}, !.form = form]]
  /\ UNCHANGED <<product, variant, cart, order>>

PublishReads(h, p) == CatalogReads(h, "publish", p, NoForm)

EditReads(h, p, form) == CatalogReads(h, "edit", p, form)

PublishWrites(h) ==
  /\ At(h, "publish")
  /\ Unlocked(h, call[h].target)
  /\ product' = [p \in Products |->
       IF p \in call[h].target
       THEN [product[p] EXCEPT !.status = StatusForStock(call[h].product[p].stock)]
       ELSE product[p]]
  /\ Ends(h)
  /\ UNCHANGED <<variant, cart, order>>

NormalizeProductStatus(status, stock) ==
  IF status = "ACTIVE" /\ stock <= 0 THEN "OUT_OF_STOCK" ELSE status

\* The form's value where it has one, the other where it has none.
Entered(values, other) == IF values = {} THEN other ELSE CHOOSE v \in values : TRUE

\* Mutant: a form without a status writes none.
EditedFromForm(seen, now, form) ==
  [stock  |-> Entered(form.stock, now.stock),
   status |-> NormalizeProductStatus(Entered(form.status, "undefined"),
                                     Entered(form.stock, seen.stock))]

\* The stock column is written only when the form has it.
EditedProduct(seen, now, form) ==
  [stock  |-> Entered(form.stock, now.stock),
   status |-> NormalizeProductStatus(Entered(form.status, seen.status),
                                     Entered(form.stock, seen.stock))]

EditWrites(h) ==
  /\ At(h, "edit")
  /\ Unlocked(h, call[h].target)
  /\ product' = [p \in Products |->
       IF p \in call[h].target
       THEN EditedProduct(call[h].product[p], product[p], call[h].form)
       ELSE product[p]]
  /\ Ends(h)
  /\ UNCHANGED <<variant, cart, order>>

\* deactivateProduct and archiveProduct write one column from nothing read.
Withdraw(h, p, status) ==
  /\ At(h, "idle")
  /\ Unlocked(h, {p})
  /\ product' = [product EXCEPT ![p].status = status]
  /\ Ends(h)
  /\ UNCHANGED <<variant, cart, order>>

-------------------------------------------------------------------------------
\* A form field that may be left out.
Values(S) == {{}} \cup {{v} : v \in S}

CartCall(h) ==
  \/ \E c \in Carts :
       \/ \E s \in Skus, quantity \in 1..MaxQuantity : AddItem(h, c, s, quantity)
       \/ \E r \in cart[c].rows :
            \/ \E quantity \in 1..MaxQuantity : UpdateItem(h, c, r, quantity)
            \/ RemoveItem(h, c, r)
       \/ ClearCart(h, c)
  \/ CreateRow(h)
  \/ UpdateRow(h)
  \/ DeleteRow(h)
  \/ DeleteAllRows(h)

CheckoutCall(h) ==
  \/ \E c \in Carts : CheckoutReadsCart(h, c)
  \/ CheckoutReadsProducts(h)
  \/ CheckoutReadsVariants(h)
  \/ CommitCheckout(h)

RestoreCall(h) ==
  \/ \E o \in Calls : BeginRestore(h, o)
  \/ \E r \in call[h].rows : RestoreReadsRow(h, r)
  \/ RestoreWritesRow(h)
  \/ RestoreAborts(h)
  \/ CommitRestore(h)

CatalogCall(h) ==
  \/ \E p \in Products :
       \/ PublishReads(h, p)
       \/ \E stock \in Values(Restocks), status \in Values(ProductStatus) :
            EditReads(h, p, [stock |-> stock, status |-> status])
       \/ \E status \in {"INACTIVE", "ARCHIVED"} : Withdraw(h, p, status)
  \/ PublishWrites(h)
  \/ EditWrites(h)

Step(h) == CartCall(h) \/ CheckoutCall(h) \/ RestoreCall(h) \/ CatalogCall(h)

Next == \E h \in Calls : Step(h)

Spec == Init /\ [][Next]_vars

\* The behaviours in which each request is over before the next begins.
Running == {h \in Calls : call[h].pc \notin {"idle", "done"}}

SerialNext == \E h \in Calls : Running \subseteq {h} /\ Step(h)

SerialSpec == Init /\ [][SerialNext]_vars

-------------------------------------------------------------------------------
(* Properties that hold however the requests interleave.                   *)

\* No product and no variant is ever sold below zero: a checkout writes what
\* is left of the stock it compared with, however stale.
StockNeverNegative ==
  /\ \A p \in Products : product[p].stock >= 0
  /\ \A s \in Variants : variant[s] >= 0

\* A cart is converted exactly when an order was made of it, and no order is
\* empty, though its cart may have been emptied while it was made.
ConvertedIffOrdered ==
  /\ \A c \in Carts :
       cart[c].status = "CONVERTED" <=> \E o \in Calls : order[o].cart = c
  /\ \A o \in Calls : order[o].status # "NONE" <=> order[o].rows # {}

\* A cart, and the order made of it, has one row of a product and variant:
\* two requests that both find none, or an update beside an insert, add none.
OneRowPerSku ==
  /\ \A c \in Carts : \A r, q \in cart[c].rows : r.sku = q.sku => r = q
  /\ \A o \in Calls : \A r, q \in order[o].rows : r.sku = q.sku => r = q

\* A cart's rows and the order made of it agree, however requests interleave.
CartsHold == ConvertedIffOrdered /\ OneRowPerSku

-------------------------------------------------------------------------------
(* Properties of requests that do not overlap.                             *)

Ordered(rows, p) ==
  SumFunctionOnSet([r \in rows |-> r.quantity], {r \in rows : Parent[r.sku] = p})

\* What an order holds of each product.
Held(o) ==
  [p \in Products |-> IF order[o].status = "OPEN" THEN Ordered(order[o].rows, p) ELSE 0]

Stock == INSTANCE Warehouse WITH
  Orders <- Calls,
  Counts <- Restocks,
  free <- [p \in Products |-> product[p].stock],
  claim <- [o \in Calls |-> Held(o)]

\* An order takes off the shelf what it holds, closing it gives that back, and
\* nothing else moves the stock but the store's own counts: nothing is lost and
\* nothing is sold twice.
ImplementsWarehouse == Stock!Spec

\* A cart becomes one order.
OneOrderPerCart ==
  \A o, q \in Calls :
    order[o].cart = order[q].cart /\ order[o].cart # NoCart => o = q

\* What the storefront offers can be bought.
ActiveHasStock == \A p \in Products : product[p].status = "ACTIVE" => product[p].stock > 0

\* A cart is spent once, and a product sold out is not offered.
NothingIsSoldTwice == OneOrderPerCart /\ ActiveHasStock

\* A product the store has withdrawn comes back only when the store says so.
WithdrawnStaysWithdrawn ==
  [][\A p \in Products :
       /\ product[p].status \in {"INACTIVE", "ARCHIVED"}
       /\ product'[p].status \notin {"INACTIVE", "ARCHIVED"}
       => \E h \in Calls : call[h].pc \in {"publish", "edit"} /\ call'[h].pc = "done"]_vars
===============================================================================
