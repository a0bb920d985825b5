----------------------------- MODULE CheckoutProofs -----------------------------
(***************************************************************************)
(* For any products, variants, carts and number of overlapping requests:   *)
(* the types are right, no stock is ever negative, a cart is converted     *)
(* exactly when an order was made of it, and where all that is sold is a   *)
(* variant, carts and orders have one row of each.  Then for requests that *)
(* do not overlap.                                                         *)
(***************************************************************************)
EXTENDS Checkout, TLAPS

USE CheckoutAssumption

NonNegative(products, variants) ==
  /\ \A p \in Products : products[p].stock >= 0
  /\ \A s \in Skus : variants[s] >= 0

\* What a request has read is never negative, and what it is about to commit
\* fits what it has read.
SnapshotsOK ==
  \A h \in Calls :
    /\ NonNegative(call[h].product, call[h].variant)
    /\ At(h, "commit") =>
         \A r \in call[h].rows :
           /\ call[h].product[Parent[r.sku]].stock >= r.quantity
           /\ r.sku \in Variants => call[h].variant[r.sku] >= r.quantity

IInv == TypeOK /\ NonNegative(product, variant) /\ SnapshotsOK

\* The local variables of a request that is not running are harmless.
LEMMA NoLocalsOK ==
  ASSUME NEW h \in Calls, NEW pc \in Steps
  PROVE  /\ NoLocals(h, pc) \in CallRow
         /\ NoLocals(h, pc).pc = pc
         /\ NonNegative(NoLocals(h, pc).product, NoLocals(h, pc).variant)
  BY DEF NoLocals, CallRow, ProductRow, ProductStatus, NonNegative, NoForm, Forms, Steps

\* A request that changes only its own record, to one that is typed and as
\* harmless, keeps the invariant of all requests.
LEMMA OneCallChanges ==
  ASSUME IInv, NEW h \in Calls, NEW row \in CallRow,
         call' = [call EXCEPT ![h] = row],
         NonNegative(row.product, row.variant),
         row.pc = "commit" =>
           \A r \in row.rows :
             /\ row.product[Parent[r.sku]].stock >= r.quantity
             /\ r.sku \in Variants => row.variant[r.sku] >= r.quantity
  PROVE  call' \in [Calls -> CallRow] /\ SnapshotsOK'
<1>1. call' \in [Calls -> CallRow]
  BY DEF IInv, TypeOK
<1>2. \A g \in Calls : call'[g] = IF g = h THEN row ELSE call[g]
  BY DEF IInv, TypeOK
<1> QED
  BY <1>1, <1>2 DEF IInv, SnapshotsOK, At, NonNegative

\* A request that ends.
LEMMA EndsOK ==
  ASSUME IInv, NEW h \in Calls, Ends(h)
  PROVE  call' \in [Calls -> CallRow] /\ SnapshotsOK'
<1>1. "done" \in Steps /\ "done" # "commit"
  BY DEF Steps
<1> QED
  BY <1>1, NoLocalsOK, OneCallChanges DEF Ends

\* A request that has read an active cart.
LEMMA HoldsRowsOK ==
  ASSUME IInv, NEW h \in Calls, NEW pc \in Steps, pc # "commit",
         NEW c \in Carts, NEW rows \in SUBSET ItemRow, HoldsRows(h, pc, c, rows)
  PROVE  call' \in [Calls -> CallRow] /\ SnapshotsOK'
<1> DEFINE row == [NoLocals(h, pc) EXCEPT !.cart = c, !.rows = rows]
<1>1. row \in CallRow /\ row.pc = pc /\ NonNegative(row.product, row.variant)
  BY NoLocalsOK DEF NoLocals, CallRow, NonNegative
<1> QED
  BY <1>1, OneCallChanges DEF HoldsRows

-------------------------------------------------------------------------------
\* The requests on a cart.
LEMMA CartCallOK ==
  ASSUME IInv, NEW h \in Calls, CartCall(h)
  PROVE  IInv'
<1> USE DEF IInv, TypeOK
<1>1. ASSUME NEW c \in Carts, NEW s \in Skus, NEW quantity \in 1..MaxQuantity,
             AddItem(h, c, s, quantity)
      PROVE  IInv'
  <2>1. cart[c].rows \subseteq ItemRow
    BY DEF CartRow
  <2>2. [id |-> h, sku |-> s, quantity |-> quantity] \in ItemRow
    BY DEF ItemRow
  <2>3. \A r \in cart[c].rows : [r EXCEPT !.quantity = @ + quantity] \in ItemRow
    BY <2>1 DEF ItemRow
  <2>4. call' \in [Calls -> CallRow] /\ SnapshotsOK'
    <3>1. CASE HoldsRows(h, "create", c, {[id |-> h, sku |-> s, quantity |-> quantity]})
      BY <2>2, <3>1, HoldsRowsOK DEF Steps
    <3>2. ASSUME NEW r \in cart[c].rows,
                 HoldsRows(h, "update", c, {[r EXCEPT !.quantity = @ + quantity]})
          PROVE  call' \in [Calls -> CallRow] /\ SnapshotsOK'
      BY <2>3, <3>2, HoldsRowsOK DEF Steps
    <3> QED BY <1>1, <3>1, <3>2 DEF AddItem
  <2> QED BY <1>1, <2>4 DEF AddItem, NonNegative
<1>2. ASSUME NEW c \in Carts, NEW r \in cart[c].rows, NEW quantity \in 1..MaxQuantity,
             UpdateItem(h, c, r, quantity)
      PROVE  IInv'
  <2>1. [r EXCEPT !.quantity = quantity] \in ItemRow
    BY DEF CartRow, ItemRow
  <2>2. call' \in [Calls -> CallRow] /\ SnapshotsOK'
    BY <1>2, <2>1, HoldsRowsOK DEF UpdateItem, Steps
  <2> QED BY <1>2, <2>2 DEF UpdateItem, NonNegative
<1>3. ASSUME NEW c \in Carts, NEW r \in cart[c].rows, RemoveItem(h, c, r)
      PROVE  IInv'
  <2>1. r \in ItemRow
    BY DEF CartRow
  <2>2. call' \in [Calls -> CallRow] /\ SnapshotsOK'
    BY <1>3, <2>1, HoldsRowsOK DEF RemoveItem, Steps
  <2> QED BY <1>3, <2>2 DEF RemoveItem, NonNegative
<1>4. ASSUME NEW c \in Carts, ClearCart(h, c)
      PROVE  IInv'
  <2>1. call' \in [Calls -> CallRow] /\ SnapshotsOK'
    BY <1>4, HoldsRowsOK DEF ClearCart, Steps
  <2> QED BY <1>4, <2>1 DEF ClearCart, NonNegative
<1>5. ASSUME NEW c, NEW rows, c \in Carts => rows \subseteq ItemRow, SetRows(c, rows)
      PROVE  cart' \in [Carts -> CartRow]
  BY <1>5 DEF SetRows, CartRow
<1>6. call[h].cart \in Carts => cart[call[h].cart].rows \subseteq ItemRow
  BY DEF CartRow
<1>7. call[h].rows \subseteq ItemRow
  BY DEF CallRow
<1>8. CASE CreateRow(h)
  <2> DEFINE c == call[h].cart
             rows == cart[c].rows \cup
         {r \in call[h].rows :
            r.sku \in Variants => \A q \in cart[c].rows : q.sku # r.sku}
  <2>1. c \in Carts => rows \subseteq ItemRow
    BY <1>6, <1>7
  <2>2. SetRows(c, rows)
    BY <1>8 DEF CreateRow
  <2> HIDE DEF c, rows
  <2>3. cart' \in [Carts -> CartRow]
    BY <1>5, <2>1, <2>2
  <2> QED BY <1>8, <2>3, EndsOK DEF CreateRow, NonNegative
<1>9. CASE UpdateRow(h)
  <2> DEFINE c == call[h].cart
             rows == {r \in cart[c].rows : \A q \in call[h].rows : q.id # r.id} \cup
         {q \in call[h].rows : \E r \in cart[c].rows : q.id = r.id}
  <2>1. c \in Carts => rows \subseteq ItemRow
    BY <1>6, <1>7
  <2>2. SetRows(c, rows)
    BY <1>9 DEF UpdateRow
  <2> HIDE DEF c, rows
  <2>3. cart' \in [Carts -> CartRow]
    BY <1>5, <2>1, <2>2
  <2> QED BY <1>9, <2>3, EndsOK DEF UpdateRow, NonNegative
<1>10. CASE DeleteRow(h)
  <2> DEFINE c == call[h].cart
             rows == {r \in cart[c].rows : \A q \in call[h].rows : q.id # r.id}
  <2>1. c \in Carts => rows \subseteq ItemRow
    BY <1>6
  <2>2. SetRows(c, rows)
    BY <1>10 DEF DeleteRow
  <2> HIDE DEF c, rows
  <2>3. cart' \in [Carts -> CartRow]
    BY <1>5, <2>1, <2>2
  <2> QED BY <1>10, <2>3, EndsOK DEF DeleteRow, NonNegative
<1>11. CASE DeleteAllRows(h)
  <2> DEFINE c == call[h].cart
             rows == {}
  <2>1. c \in Carts => rows \subseteq ItemRow
    OBVIOUS
  <2>2. SetRows(c, rows)
    BY <1>11 DEF DeleteAllRows
  <2> HIDE DEF c, rows
  <2>3. cart' \in [Carts -> CartRow]
    BY <1>5, <2>1, <2>2
  <2> QED BY <1>11, <2>3, EndsOK DEF DeleteAllRows, NonNegative
<1> QED
  BY <1>1, <1>2, <1>3, <1>4, <1>8, <1>9, <1>10, <1>11 DEF CartCall

\* createOrderFromCart: what it commits fits the stock it has read.
LEMMA CheckoutCallOK ==
  ASSUME IInv, NEW h \in Calls, CheckoutCall(h)
  PROVE  IInv'
<1> USE DEF IInv, TypeOK
<1>1. ASSUME NEW c \in Carts, CheckoutReadsCart(h, c)
      PROVE  IInv'
  <2>1. cart[c].rows \in SUBSET ItemRow
    BY DEF CartRow
  <2>2. call' \in [Calls -> CallRow] /\ SnapshotsOK'
    BY <1>1, <2>1, HoldsRowsOK DEF CheckoutReadsCart, Steps
  <2> QED BY <1>1, <2>2 DEF CheckoutReadsCart, NonNegative
<1>2. CASE CheckoutReadsProducts(h)
  <2> DEFINE row == [call[h] EXCEPT !.pc = "readVariants", !.product = product]
  <2>1. row \in CallRow /\ row.pc # "commit"
    <3>1. call[h] \in CallRow /\ "readVariants" \in Steps
      BY DEF Steps
    <3> QED BY <3>1 DEF CallRow
  <2>2. NonNegative(row.product, row.variant)
    BY DEF SnapshotsOK, CallRow, NonNegative
  <2>3. call' = [call EXCEPT ![h] = row]
    BY <1>2 DEF CheckoutReadsProducts
  <2>4. call' \in [Calls -> CallRow] /\ SnapshotsOK'
    BY <2>1, <2>2, <2>3, OneCallChanges
  <2> QED BY <1>2, <2>4 DEF CheckoutReadsProducts, NonNegative
<1>3. CASE CheckoutReadsVariants(h)
  <2>1. CASE \A r \in call[h].rows : Fits(h, r)
    <3> DEFINE row == [call[h] EXCEPT !.pc = "commit", !.variant = variant]
    <3>1. row \in CallRow
      <4>1. call[h] \in CallRow /\ "commit" \in Steps
        BY DEF Steps
      <4> QED BY <4>1 DEF CallRow
    <3>2. NonNegative(row.product, row.variant)
      BY DEF SnapshotsOK, CallRow, NonNegative
    <3>3. \A r \in row.rows :
            /\ row.product[Parent[r.sku]].stock >= r.quantity
            /\ r.sku \in Variants => row.variant[r.sku] >= r.quantity
      BY <2>1 DEF Fits, CallRow
    <3>4. call' = [call EXCEPT ![h] = row]
      BY <1>3, <2>1 DEF CheckoutReadsVariants
    <3>5. call' \in [Calls -> CallRow] /\ SnapshotsOK'
      BY <3>1, <3>2, <3>3, <3>4, OneCallChanges
    <3> QED BY <1>3, <3>5 DEF CheckoutReadsVariants, NonNegative
  <2>2. CASE ~(\A r \in call[h].rows : Fits(h, r))
    BY <1>3, <2>2, EndsOK DEF CheckoutReadsVariants, NonNegative
  <2> QED BY <2>1, <2>2
<1>4. CASE CommitCheckout(h)
  <2> DEFINE rows == call[h].rows
  <2>1. rows \subseteq ItemRow /\ call[h] \in CallRow
    BY DEF CallRow
  <2>2. NonNegative(call[h].product, call[h].variant)
    BY DEF SnapshotsOK
  <2>3. \A r \in rows :
          /\ call[h].product[Parent[r.sku]].stock >= r.quantity
          /\ r.sku \in Variants => call[h].variant[r.sku] >= r.quantity
    BY <1>4 DEF CommitCheckout, SnapshotsOK
  <2>4. product' \in [Products -> ProductRow] /\ \A p \in Products : product'[p].stock >= 0
    <3>1. PICK last \in LastOfProduct(rows) : product' = StockAfter(h, last)
      BY <1>4 DEF CommitCheckout
    <3>2. \A p \in ProductsOf(rows) : last[p] \in rows /\ Parent[last[p].sku] = p
      BY <3>1 DEF LastOfProduct
    <3>3. ASSUME NEW p \in Products
          PROVE  product'[p] \in ProductRow /\ product'[p].stock >= 0
      <4>1. CASE p \in ProductsOf(rows)
        <5> DEFINE left == call[h].product[p].stock - last[p].quantity
        <5>1. left \in Int /\ left >= 0
          BY <2>1, <2>3, <3>2, <4>1 DEF ItemRow, CallRow, ProductRow
        <5>2. product'[p] = [stock |-> left, status |-> StatusForStock(left)]
          BY <3>1, <4>1 DEF StockAfter
        <5> HIDE DEF left
        <5> QED BY <5>1, <5>2 DEF StatusForStock, ProductRow, ProductStatus
      <4>2. CASE p \notin ProductsOf(rows)
        BY <3>1, <4>2 DEF StockAfter, NonNegative
      <4> QED BY <4>1, <4>2
    <3>4. product' = [p \in Products |-> product'[p]]
      BY <3>1 DEF StockAfter
    <3> QED BY <3>3, <3>4
  <2>5. variant' \in [Skus -> Int] /\ \A s \in Skus : variant'[s] >= 0
    <3>1. PICK last \in LastOfSku(rows) : variant' = VariantsAfter(h, last)
      BY <1>4 DEF CommitCheckout
    <3>2. ASSUME NEW s \in Skus
          PROVE  variant'[s] \in Int /\ variant'[s] >= 0
      <4>1. CASE \E r \in rows : r.sku = s /\ s \in Variants
        <5>1. last[s] \in rows /\ last[s].sku = s /\ s \in Variants
          BY <3>1, <4>1 DEF LastOfSku
        <5>2. variant'[s] = call[h].variant[s] - last[s].quantity
          BY <3>1, <4>1 DEF VariantsAfter
        <5> QED BY <2>1, <2>3, <5>1, <5>2 DEF ItemRow, CallRow
      <4>2. CASE ~(\E r \in rows : r.sku = s /\ s \in Variants)
        <5>1. variant'[s] = variant[s]
          BY <3>1, <4>2 DEF VariantsAfter
        <5> QED BY <5>1 DEF NonNegative
      <4> QED BY <4>1, <4>2
    <3>3. variant' = [s \in Skus |-> variant'[s]]
      BY <3>1 DEF VariantsAfter
    <3> QED BY <3>2, <3>3
  <2>6. order' \in [Calls -> OrderRow]
    BY <1>4, <2>1 DEF CommitCheckout, OrderRow, CallRow
  <2>7. cart' \in [Carts -> CartRow]
    BY <1>4 DEF CommitCheckout, CartRow
  <2>8. call' \in [Calls -> CallRow] /\ SnapshotsOK'
    BY <1>4, EndsOK DEF CommitCheckout
  <2> QED BY <2>4, <2>5, <2>6, <2>7, <2>8 DEF NonNegative
<1> QED
  BY <1>1, <1>2, <1>3, <1>4 DEF CheckoutCall

\* restoreStockForOrderTransaction only adds to what it has read.
LEMMA RestoreCallOK ==
  ASSUME IInv, NEW h \in Calls, RestoreCall(h)
  PROVE  IInv'
<1> USE DEF IInv, TypeOK
<1>0. call[h] \in CallRow /\ NonNegative(call[h].product, call[h].variant)
  BY DEF SnapshotsOK
<1>1. ASSUME NEW o \in Calls, BeginRestore(h, o)
      PROVE  IInv'
  <2> DEFINE row == [NoLocals(h, "restore") EXCEPT !.order = o, !.rows = order[o].rows]
  <2>1. "restore" \in Steps /\ order[o].rows \subseteq ItemRow
    BY DEF Steps, OrderRow
  <2>2. /\ row \in CallRow
        /\ row.pc # "commit"
        /\ NonNegative(row.product, row.variant)
    BY <2>1, NoLocalsOK DEF CallRow, NoLocals, NonNegative
  <2>3. call' = [call EXCEPT ![h] = row]
    BY <1>1 DEF BeginRestore
  <2> HIDE DEF row
  <2>4. call' \in [Calls -> CallRow] /\ SnapshotsOK'
    BY <2>2, <2>3, OneCallChanges
  <2> QED BY <1>1, <2>4 DEF BeginRestore, NonNegative
<1>2. ASSUME NEW r \in call[h].rows, RestoreReadsRow(h, r)
      PROVE  IInv'
  <2> DEFINE p == Parent[r.sku]
             row == AfterReading(h, r)
  <2>1. r \in ItemRow /\ r.sku \in Skus /\ p \in Products
    BY <1>0 DEF CallRow, ItemRow
  <2>2. row \in CallRow /\ row.pc # "commit"
    <3>1. "restoreRow" \in Steps
      BY DEF Steps
    <3> QED BY <1>0, <2>1, <3>1 DEF CallRow, AfterReading
  <2>3. NonNegative(row.product, row.variant)
    BY <1>0, <2>1 DEF CallRow, NonNegative, AfterReading
  <2>4. call' = [call EXCEPT ![h] = row]
    BY <1>2 DEF RestoreReadsRow
  <2> HIDE DEF row
  <2>5. call' \in [Calls -> CallRow] /\ SnapshotsOK'
    BY <2>2, <2>3, <2>4, OneCallChanges
  <2> QED BY <1>2, <2>5 DEF RestoreReadsRow, NonNegative
<1>3. CASE RestoreWritesRow(h)
  <2>1. PICK r \in call[h].now : call' = [call EXCEPT ![h] = AfterWriting(h, r)]
    BY <1>3 DEF RestoreWritesRow
  <2> DEFINE p == Parent[r.sku]
             restored == RestoredProduct(call[h].product[p], r.quantity)
             row == AfterWriting(h, r)
  <2>2. r \in ItemRow /\ r.sku \in Skus /\ p \in Products /\ r.quantity \in Nat
    BY <1>0 DEF CallRow, ItemRow
  <2>3. restored \in ProductRow /\ restored.stock >= 0
    <3>1. call[h].product[p] \in ProductRow /\ call[h].product[p].stock >= 0
      BY <1>0, <2>2 DEF CallRow, NonNegative
    <3> QED BY <2>2, <3>1 DEF RestoredProduct, ProductRow, ProductStatus
  <2> HIDE DEF restored
  <2>4. /\ row.pc = "restore"
        /\ row.product = [call[h].product EXCEPT ![p] = restored]
        /\ row.variant = [call[h].variant EXCEPT ![r.sku] = call[h].variant[r.sku] + r.quantity]
        /\ row.product \in [Products -> ProductRow]
        /\ row.variant \in [Skus -> Int]
    <3>1. row.pc = "restore"
      BY <1>0 DEF CallRow, AfterWriting
    <3>2. row.product = [call[h].product EXCEPT ![p] = restored]
      BY <1>0 DEF CallRow, AfterWriting, restored
    <3>3. row.variant = [call[h].variant EXCEPT ![r.sku] = call[h].variant[r.sku] + r.quantity]
      BY <1>0 DEF CallRow, AfterWriting
    <3>4. row.product \in [Products -> ProductRow]
      BY <1>0, <2>2, <2>3, <3>2 DEF CallRow
    <3>5. row.variant \in [Skus -> Int]
      BY <1>0, <2>2, <3>3 DEF CallRow
    <3> QED BY <3>1, <3>2, <3>3, <3>4, <3>5
  <2>5. row \in CallRow
    <3>1. "restore" \in Steps
      BY DEF Steps
    <3> QED BY <1>0, <2>2, <2>4, <3>1 DEF CallRow, AfterWriting
  <2>6. NonNegative(row.product, row.variant)
    BY <1>0, <2>2, <2>3, <2>4 DEF CallRow, NonNegative
  <2> HIDE DEF row
  <2>7. call' \in [Calls -> CallRow] /\ SnapshotsOK'
    BY <2>1, <2>4, <2>5, <2>6, OneCallChanges DEF row
  <2> QED BY <1>3, <2>7 DEF RestoreWritesRow, NonNegative
<1>4. CASE RestoreAborts(h)
  BY <1>4, EndsOK DEF RestoreAborts, NonNegative
<1>5. CASE CommitRestore(h)
  <2>1. product' \in [Products -> ProductRow] /\ \A p \in Products : product'[p].stock >= 0
    BY <1>0, <1>5 DEF CommitRestore, CallRow, NonNegative
  <2>2. variant' \in [Skus -> Int] /\ \A s \in Skus : variant'[s] >= 0
    BY <1>0, <1>5 DEF CommitRestore, CallRow, NonNegative
  <2>3. order' \in [Calls -> OrderRow]
    <3>1. order' = [order EXCEPT ![call[h].order].status = "CLOSED"]
      BY <1>5 DEF CommitRestore
    <3>2. \A o \in Calls : [order[o] EXCEPT !.status = "CLOSED"] \in OrderRow
      BY DEF OrderRow
    <3> QED BY <3>1, <3>2
  <2>4. call' \in [Calls -> CallRow] /\ SnapshotsOK'
    BY <1>5, EndsOK DEF CommitRestore
  <2> QED BY <1>5, <2>1, <2>2, <2>3, <2>4 DEF CommitRestore, NonNegative
<1> QED
  BY <1>1, <1>2, <1>3, <1>4, <1>5 DEF RestoreCall

\* A value taken from a field of the form, or the other one.
LEMMA EnteredOK ==
  ASSUME NEW values, NEW other
  PROVE  IF values = {} THEN Entered(values, other) = other
                        ELSE Entered(values, other) \in values
  BY DEF Entered

\* The catalog screens never enter a negative stock.
LEMMA CatalogCallOK ==
  ASSUME IInv, NEW h \in Calls, CatalogCall(h)
  PROVE  IInv'
<1> USE DEF IInv, TypeOK
<1>0. call[h] \in CallRow
  OBVIOUS
<1>1. ASSUME NEW pc \in {"publish", "edit"}, NEW p \in Products, NEW form \in Forms,
             CatalogReads(h, pc, p, form)
      PROVE  IInv'
  <2> DEFINE row == [NoLocals(h, pc) EXCEPT !.product = product, !.target = {p}, !.form = form]
  <2>1. pc \in Steps /\ pc # "commit"
    BY DEF Steps
  <2>2. row \in CallRow /\ row.pc = pc /\ NonNegative(row.product, row.variant)
    BY <2>1, NoLocalsOK DEF CallRow, NoLocals, NonNegative
  <2>3. call' = [call EXCEPT ![h] = row]
    BY <1>1 DEF CatalogReads
  <2> HIDE DEF row
  <2>4. call' \in [Calls -> CallRow] /\ SnapshotsOK'
    BY <2>1, <2>2, <2>3, OneCallChanges
  <2> QED BY <1>1, <2>4 DEF CatalogReads, NonNegative
<1>2. NoForm \in Forms
  BY DEF NoForm, Forms
<1>3. ASSUME NEW stock \in Values(Restocks), NEW status \in Values(ProductStatus)
      PROVE  [stock |-> stock, status |-> status] \in Forms
  BY CheckoutAssumption DEF Values, Forms
<1>4. CASE PublishWrites(h)
  <2>1. \A n \in Int : StatusForStock(n) \in ProductStatus
    BY DEF StatusForStock, ProductStatus
  <2>2. \A p \in Products : call[h].product[p].stock \in Int
    BY <1>0 DEF CallRow, ProductRow
  <2>3. product' \in [Products -> ProductRow] /\ \A p \in Products : product'[p].stock >= 0
    BY <1>4, <2>1, <2>2 DEF PublishWrites, ProductRow, NonNegative
  <2>4. call' \in [Calls -> CallRow] /\ SnapshotsOK'
    BY <1>4, EndsOK DEF PublishWrites
  <2> QED BY <1>4, <2>3, <2>4 DEF PublishWrites, NonNegative
<1>5. CASE EditWrites(h)
  <2> DEFINE form == call[h].form
  <2>1. form.stock \subseteq Nat /\ form.status \subseteq ProductStatus
    BY <1>0 DEF CallRow, Forms
  <2>2. ASSUME NEW seen \in ProductRow, NEW now \in ProductRow, now.stock >= 0
        PROVE  EditedProduct(seen, now, form) \in ProductRow
               /\ EditedProduct(seen, now, form).stock >= 0
    <3>1. Entered(form.stock, now.stock) \in Int /\ Entered(form.stock, now.stock) >= 0
      BY <2>1, <2>2, EnteredOK DEF ProductRow
    <3>2. Entered(form.status, seen.status) \in ProductStatus
      BY <2>1, EnteredOK DEF ProductRow
    <3>3. NormalizeProductStatus(Entered(form.status, seen.status),
                                 Entered(form.stock, seen.stock)) \in ProductStatus
      BY <3>2 DEF NormalizeProductStatus, ProductStatus
    <3> QED BY <3>1, <3>3 DEF EditedProduct, ProductRow
  <2>3. \A p \in Products : call[h].product[p] \in ProductRow
    BY <1>0 DEF CallRow
  <2> HIDE DEF form
  <2>4. product' = [p \in Products |->
          IF p \in call[h].target THEN EditedProduct(call[h].product[p], product[p], form)
          ELSE product[p]]
    BY <1>5 DEF EditWrites, form
  <2>5. product' \in [Products -> ProductRow] /\ \A p \in Products : product'[p].stock >= 0
    BY <2>2, <2>3, <2>4 DEF NonNegative
  <2>6. call' \in [Calls -> CallRow] /\ SnapshotsOK'
    BY <1>5, EndsOK DEF EditWrites
  <2> QED BY <1>5, <2>5, <2>6 DEF EditWrites, NonNegative
<1>6. ASSUME NEW p \in Products, NEW status \in {"INACTIVE", "ARCHIVED"},
             Withdraw(h, p, status)
      PROVE  IInv'
  <2>1. product' \in [Products -> ProductRow] /\ \A q \in Products : product'[q].stock >= 0
    BY <1>6 DEF Withdraw, ProductRow, ProductStatus, NonNegative
  <2>2. call' \in [Calls -> CallRow] /\ SnapshotsOK'
    BY <1>6, EndsOK DEF Withdraw
  <2> QED BY <1>6, <2>1, <2>2 DEF Withdraw, NonNegative
<1> QED
  BY <1>1, <1>2, <1>3, <1>4, <1>5, <1>6 DEF CatalogCall, PublishReads, EditReads

-------------------------------------------------------------------------------
\* The invariant holds at first.
LEMMA InitIInv == Init => IInv
<1> SUFFICES ASSUME Init PROVE IInv
  OBVIOUS
<1>1. /\ product \in [Products -> ProductRow]
      /\ variant \in [Skus -> Int]
      /\ NonNegative(product, variant)
  BY DEF Init, ProductRow, ProductStatus, NonNegative
<1>2. cart \in [Carts -> CartRow] /\ order \in [Calls -> OrderRow]
  BY DEF Init, CartRow, OrderRow
<1>3. \A h \in Calls :
        /\ call[h] \in CallRow
        /\ call[h].pc = "idle"
        /\ NonNegative(call[h].product, call[h].variant)
  BY NoLocalsOK DEF Init, Steps
<1>4. call \in [Calls -> CallRow]
  BY <1>3 DEF Init
<1> QED
  BY <1>1, <1>2, <1>3, <1>4 DEF IInv, TypeOK, SnapshotsOK, At

\* Every step keeps the invariant.
LEMMA NextIInv == IInv /\ [Next]_vars => IInv'
<1>1. ASSUME IInv, Next PROVE IInv'
  BY <1>1, CartCallOK, CheckoutCallOK, RestoreCallOK, CatalogCallOK DEF Next, Step
<1>2. ASSUME IInv, UNCHANGED vars PROVE IInv'
  BY <1>2 DEF vars, IInv, TypeOK, SnapshotsOK, NonNegative, At
<1> QED
  BY <1>1, <1>2

\* However checkouts, restores and edits overlap, the types are right and no
\* stock is ever sold below zero.
THEOREM StockSafe == Spec => [](TypeOK /\ StockNeverNegative)
<1>1. IInv => TypeOK /\ StockNeverNegative
  BY DEF IInv, NonNegative, StockNeverNegative
<1> QED
  BY <1>1, InitIInv, NextIInv, PTL DEF Spec

-------------------------------------------------------------------------------
(* Carts and the orders made of them.                                      *)

\* The unique index: rows of one variant are one row.
OnePerVariant(rows) ==
  \A r, q \in rows : r.sku = q.sku /\ r.sku \in Variants => r = q

CheckingOut == {"readProducts", "readVariants", "commit"}
Restoring == {"restore", "restoreRow"}
Writing == {"create", "update"}

\* A request has no order before it has committed one, checks out rows it did
\* find, restores an order that exists, and writes one row.
CallFits(h) ==
  /\ ~At(h, "done") => order[h].cart = NoCart /\ order[h].status = "NONE"
  /\ call[h].pc \in CheckingOut =>
       call[h].cart \in Carts /\ call[h].rows # {} /\ OnePerVariant(call[h].rows)
  /\ call[h].pc \in Restoring => order[call[h].order].status # "NONE"
  /\ call[h].pc \in Writing => \A r, q \in call[h].rows : r = q

\* Some cart has, or some request is about to write, row i for this sku.
Named(i, s) ==
  \/ \E c \in Carts : \E r \in cart[c].rows : r.id = i /\ r.sku = s
  \/ \E g \in Calls : call[g].pc \in Writing /\ \E r \in call[g].rows : r.id = i /\ r.sku = s

\* A row keeps the sku it was created with, and no row is there before the
\* request that creates it.
NamesOK ==
  \A i \in Calls, s \in Skus :
    Named(i, s) => ~At(i, "idle") /\ \A t \in Skus : Named(i, t) => s = t

\* What ConvertedIffOrdered and OneRowPerSku need to be kept by every step.
CartsOK ==
  /\ ConvertedIffOrdered
  /\ \A h \in Calls : CallFits(h)
  /\ NamesOK
  /\ \A c \in Carts : OnePerVariant(cart[c].rows)
  /\ \A o \in Calls : OnePerVariant(order[o].rows)

\* A step of one request that keeps the rows there are, or creates its own
\* first row, keeps every row's name.
LEMMA NamesKept ==
  ASSUME IInv, IInv', NamesOK, NEW h \in Calls,
         \A g \in Calls \ {h} : call'[g] = call[g],
         call'[h].pc # "idle",
         \A c \in Carts : \A r \in cart'[c].rows : Named(r.id, r.sku),
         call'[h].pc \in Writing =>
           /\ \A r, q \in call'[h].rows : r = q
           /\ \A r \in call'[h].rows :
                Named(r.id, r.sku) \/ (r.id = h /\ At(h, "idle"))
  PROVE  NamesOK'
<1>1. \A c \in Carts : cart'[c].rows \subseteq ItemRow
  BY DEF IInv, TypeOK, CartRow
<1>2. \A g \in Calls : call'[g].rows \subseteq ItemRow
  BY DEF IInv, TypeOK, CallRow
<1>3. ASSUME NEW i \in Calls, NEW s \in Skus, Named(i, s)'
      PROVE  Named(i, s) \/ (/\ i = h
                             /\ At(h, "idle")
                             /\ call'[h].pc \in Writing
                             /\ \E r \in call'[h].rows : r.sku = s)
  BY <1>3, <1>1, <1>2 DEF Named
<1>4. ASSUME NEW i \in Calls, NEW s \in Skus, Named(i, s)', ~At(i, "idle")
      PROVE  Named(i, s)
  BY <1>3, <1>4
<1>5. ASSUME NEW i \in Calls, NEW s \in Skus, Named(i, s)'
      PROVE  ~At(i, "idle")'
  BY <1>3, <1>5 DEF NamesOK, At
<1>6. ASSUME NEW i \in Calls, NEW s \in Skus, Named(i, s)', NEW t \in Skus, Named(i, t)'
      PROVE  s = t
  <2>1. CASE At(i, "idle")
    <3>1. ~Named(i, s) /\ ~Named(i, t)
      BY <2>1 DEF NamesOK
    <3>2. /\ i = h
          /\ call'[h].pc \in Writing
          /\ \E r \in call'[h].rows : r.sku = s
          /\ \E r \in call'[h].rows : r.sku = t
      BY <1>3, <1>6, <3>1
    <3> QED BY <3>2
  <2>2. CASE ~At(i, "idle")
    BY <1>4, <1>6, <2>2 DEF NamesOK
  <2> QED BY <2>1, <2>2
<1> QED
  BY <1>5, <1>6 DEF NamesOK

\* A step that only changes the request's own record.
LEMMA OwnStepKeepsCarts ==
  ASSUME IInv, IInv', CartsOK, NEW h \in Calls,
         \A g \in Calls \ {h} : call'[g] = call[g],
         UNCHANGED <<cart, order>>,
         call'[h].pc # "idle", ~At(h, "done"), CallFits(h)',
         call'[h].pc \in Writing =>
           \A r \in call'[h].rows :
             Named(r.id, r.sku) \/ (r.id = h /\ At(h, "idle"))
  PROVE  CartsOK'
<1>1. \A g \in Calls : CallFits(g)'
  BY DEF CartsOK, CallFits, At, OnePerVariant
<1>2. \A c \in Carts : \A r \in cart'[c].rows : Named(r.id, r.sku)
  BY DEF Named
<1>3. NamesOK'
  BY <1>2, NamesKept DEF CartsOK, CallFits
<1> QED
  BY <1>1, <1>3 DEF CartsOK, ConvertedIffOrdered, OnePerVariant

\* A request that ends has no local variable left.
LEMMA EndedCall ==
  ASSUME IInv, NEW h \in Calls, Ends(h)
  PROVE  /\ \A g \in Calls \ {h} : call'[g] = call[g]
         /\ call'[h].pc = "done"
         /\ CallFits(h)'
<1>1. call'[h] = NoLocals(h, "done") /\ \A g \in Calls \ {h} : call'[g] = call[g]
  BY DEF Ends, IInv, TypeOK
<1>2. call'[h].pc = "done"
  BY <1>1 DEF NoLocals
<1> QED
  BY <1>1, <1>2 DEF CallFits, At, CheckingOut, Restoring, Writing

\* A step that ends its request and writes rows of one cart.
LEMMA RowsStepKeepsCarts ==
  ASSUME IInv, IInv', CartsOK, NEW h \in Calls, Ends(h), UNCHANGED order,
         NEW c, NEW rows, SetRows(c, rows),
         c \in Carts => OnePerVariant(rows) /\ \A r \in rows : Named(r.id, r.sku)
  PROVE  CartsOK'
<1>0. cart \in [Carts -> CartRow] /\ order \in [Calls -> OrderRow]
  BY DEF IInv, TypeOK
<1>1. /\ \A d \in Carts : cart'[d].status = cart[d].status
      /\ \A d \in Carts : cart'[d].rows = IF d = c THEN rows ELSE cart[d].rows
  BY <1>0 DEF SetRows, CartRow
<1>2. \A g \in Calls : CallFits(g)'
  BY EndedCall DEF CartsOK, CallFits, At, OnePerVariant
<1>3. \A d \in Carts : \A r \in cart'[d].rows : Named(r.id, r.sku)
  BY <1>1 DEF Named
<1>4. NamesOK'
  BY <1>3, NamesKept, EndedCall DEF CartsOK, Writing
<1>5. \A d \in Carts : OnePerVariant(cart[d].rows)'
  BY <1>1 DEF CartsOK, OnePerVariant
<1>6. ConvertedIffOrdered'
  BY <1>1 DEF CartsOK, ConvertedIffOrdered
<1>7. \A o \in Calls : OnePerVariant(order[o].rows)'
  BY DEF CartsOK, OnePerVariant
<1> QED
  BY <1>2, <1>4, <1>5, <1>6, <1>7 DEF CartsOK

\* What a request that has read a cart holds.
LEMMA HeldRows ==
  ASSUME IInv, NEW h \in Calls, NEW pc, NEW c, NEW rows, HoldsRows(h, pc, c, rows)
  PROVE  /\ \A g \in Calls \ {h} : call'[g] = call[g]
         /\ call'[h].pc = pc /\ call'[h].cart = c /\ call'[h].rows = rows
  BY DEF HoldsRows, NoLocals, IInv, TypeOK

\* The requests on a cart keep it one row of a variant.
LEMMA CartCallKeepsCarts ==
  ASSUME IInv, IInv', CartsOK, NEW h \in Calls, CartCall(h)
  PROVE  CartsOK'
<1>0. \A c \in Carts : cart[c].rows \subseteq ItemRow
  BY DEF IInv, TypeOK, CartRow
<1>1. ASSUME NEW pc \in {"create", "update", "delete", "clear"}, NEW c \in Carts, NEW rows,
             HoldsRows(h, pc, c, rows), At(h, "idle"), UNCHANGED <<cart, order>>,
             \A r, q \in rows : r = q,
             pc \in Writing => \A r \in rows : Named(r.id, r.sku) \/ r.id = h
      PROVE  CartsOK'
  <2>1. /\ \A g \in Calls \ {h} : call'[g] = call[g]
        /\ call'[h].pc = pc /\ call'[h].rows = rows
    BY <1>1, HeldRows
  <2>2. CallFits(h)'
    BY <1>1, <2>1 DEF CallFits, CartsOK, At, CheckingOut, Restoring
  <2>3. call'[h].pc # "idle" /\ ~At(h, "done")
    BY <1>1, <2>1 DEF At
  <2> QED BY <1>1, <2>1, <2>2, <2>3, OwnStepKeepsCarts
<1>2. ASSUME NEW c \in Carts, NEW s \in Skus, NEW quantity \in 1..MaxQuantity,
             AddItem(h, c, s, quantity)
      PROVE  CartsOK'
  <2>1. CASE HoldsRows(h, "create", c, {[id |-> h, sku |-> s, quantity |-> quantity]})
    BY <1>2, <1>1, <2>1 DEF AddItem
  <2>2. ASSUME NEW r \in cart[c].rows,
               HoldsRows(h, "update", c, {[r EXCEPT !.quantity = @ + quantity]})
        PROVE  CartsOK'
    <3> DEFINE q == [r EXCEPT !.quantity = @ + quantity]
    <3>1. q.id = r.id /\ q.sku = r.sku
      BY <1>0 DEF ItemRow
    <3>2. Named(q.id, q.sku)
      BY <3>1 DEF Named
    <3> HIDE DEF q
    <3>3. HoldsRows(h, "update", c, {q})
      BY <2>2 DEF q
    <3> QED BY <1>2, <1>1, <3>2, <3>3 DEF AddItem
  <2> QED BY <1>2, <2>1, <2>2 DEF AddItem
<1>3. ASSUME NEW c \in Carts, NEW r \in cart[c].rows, NEW quantity \in 1..MaxQuantity,
             UpdateItem(h, c, r, quantity)
      PROVE  CartsOK'
  <2> DEFINE q == [r EXCEPT !.quantity = quantity]
  <2>1. q.id = r.id /\ q.sku = r.sku
    BY <1>0 DEF ItemRow
  <2>2. Named(q.id, q.sku)
    BY <2>1 DEF Named
  <2>3. HoldsRows(h, "update", c, {q})
    BY <1>3 DEF UpdateItem
  <2> HIDE DEF q
  <2> QED BY <1>3, <1>1, <2>2, <2>3 DEF UpdateItem
<1>4. ASSUME NEW c \in Carts, NEW r \in cart[c].rows, RemoveItem(h, c, r)
      PROVE  CartsOK'
  BY <1>4, <1>1 DEF RemoveItem, Writing
<1>5. ASSUME NEW c \in Carts, ClearCart(h, c)
      PROVE  CartsOK'
  BY <1>5, <1>1 DEF ClearCart, Writing
<1>6. call[h].cart \in Carts =>
        /\ OnePerVariant(cart[call[h].cart].rows)
        /\ \A r \in cart[call[h].cart].rows : Named(r.id, r.sku)
  BY DEF CartsOK, Named
<1>7. call[h].pc \in Writing =>
        /\ \A r, q \in call[h].rows : r = q
        /\ \A r \in call[h].rows : Named(r.id, r.sku)
  BY DEF CartsOK, CallFits, Named
<1>8. CASE CreateRow(h)
  <2> DEFINE c == call[h].cart
             rows == cart[c].rows \cup
         {r \in call[h].rows :
            r.sku \in Variants => \A q \in cart[c].rows : q.sku # r.sku}
  <2>1. At(h, "create") /\ SetRows(c, rows) /\ Ends(h) /\ UNCHANGED order
    BY <1>8 DEF CreateRow
  <2>2. c \in Carts => OnePerVariant(rows)
    BY <1>6, <1>7, <2>1 DEF OnePerVariant, At, Writing
  <2>3. c \in Carts => \A r \in rows : Named(r.id, r.sku)
    BY <1>6, <1>7, <2>1 DEF At, Writing
  <2> HIDE DEF c, rows
  <2> QED BY <2>1, <2>2, <2>3, RowsStepKeepsCarts
<1>9. CASE UpdateRow(h)
  <2> DEFINE c == call[h].cart
             rows == {r \in cart[c].rows : \A q \in call[h].rows : q.id # r.id} \cup
         {q \in call[h].rows : \E r \in cart[c].rows : q.id = r.id}
  <2>1. At(h, "update") /\ SetRows(c, rows) /\ Ends(h) /\ UNCHANGED order
    BY <1>9 DEF UpdateRow
  <2>2. call[h].rows \subseteq ItemRow
    BY DEF IInv, TypeOK, CallRow
  <2>3. ASSUME c \in Carts, NEW q \in call[h].rows, NEW r \in cart[c].rows, q.id = r.id
        PROVE  q.sku = r.sku
    <3>1. Named(q.id, q.sku) /\ Named(q.id, r.sku)
      BY <1>6, <1>7, <2>1, <2>3 DEF At, Writing
    <3>2. q.id \in Calls /\ q.sku \in Skus /\ r.sku \in Skus
      BY <1>0, <2>2, <2>3 DEF ItemRow
    <3> QED BY <3>1, <3>2 DEF CartsOK, NamesOK
  <2>4. ASSUME c \in Carts, NEW r \in rows, NEW q \in rows, r.sku = q.sku, r.sku \in Variants
        PROVE  r = q
    <3>1. (\A x, y \in call[h].rows : x = y)
          /\ \A x, y \in cart[c].rows : x.sku = y.sku /\ x.sku \in Variants => x = y
      BY <1>6, <1>7, <2>1, <2>4 DEF OnePerVariant, At, Writing
    <3>2. \A x \in rows : (x \in cart[c].rows /\ \A y \in call[h].rows : y.id # x.id)
                       \/ (x \in call[h].rows /\ \E y \in cart[c].rows : x.id = y.id)
      OBVIOUS
    <3>3. ASSUME NEW x \in rows, NEW y \in rows, x \in cart[c].rows,
                 \A z \in call[h].rows : z.id # x.id, y \in call[h].rows,
                 x.sku = y.sku, x.sku \in Variants
          PROVE  FALSE
      <4>1. PICK z \in cart[c].rows : y.id = z.id
        BY <3>1, <3>2, <3>3
      <4>2. y.sku = z.sku
        BY <2>3, <2>4, <3>3, <4>1
      <4>3. z = x
        BY <3>1, <3>3, <4>2
      <4> QED BY <3>3, <4>1, <4>3
    <3> HIDE DEF rows
    <3> QED BY <2>4, <3>1, <3>2, <3>3
  <2>5. c \in Carts => OnePerVariant(rows)
    BY <2>4 DEF OnePerVariant
  <2>6. c \in Carts => \A r \in rows : Named(r.id, r.sku)
    BY <1>6, <1>7, <2>1 DEF At, Writing
  <2> HIDE DEF c, rows
  <2> QED BY <2>1, <2>5, <2>6, RowsStepKeepsCarts
<1>10. CASE DeleteRow(h)
  <2> DEFINE c == call[h].cart
             rows == {r \in cart[c].rows : \A q \in call[h].rows : q.id # r.id}
  <2>1. SetRows(c, rows) /\ Ends(h) /\ UNCHANGED order
    BY <1>10 DEF DeleteRow
  <2>2. c \in Carts => OnePerVariant(rows) /\ \A r \in rows : Named(r.id, r.sku)
    BY <1>6 DEF OnePerVariant
  <2> HIDE DEF c, rows
  <2> QED BY <2>1, <2>2, RowsStepKeepsCarts
<1>11. CASE DeleteAllRows(h)
  <2>1. OnePerVariant({})
    BY DEF OnePerVariant
  <2> QED BY <1>11, <2>1, RowsStepKeepsCarts DEF DeleteAllRows
<1> QED
  BY <1>2, <1>3, <1>4, <1>5, <1>8, <1>9, <1>10, <1>11 DEF CartCall

\* A request that ends and leaves the carts and the orders alone.
LEMMA EndKeepsCarts ==
  ASSUME IInv, IInv', CartsOK, NEW h \in Calls, Ends(h), ~At(h, "done"),
         UNCHANGED <<cart, order>>
  PROVE  CartsOK'
BY EndedCall, OwnStepKeepsCarts DEF Writing

\* A checkout converts the cart it makes an order of.
LEMMA CheckoutCallKeepsCarts ==
  ASSUME IInv, IInv', CartsOK, NEW h \in Calls, CheckoutCall(h)
  PROVE  CartsOK'
<1>0. call \in [Calls -> CallRow] /\ cart \in [Carts -> CartRow] /\ order \in [Calls -> OrderRow]
  BY DEF IInv, TypeOK
<1>1. ASSUME NEW c \in Carts, CheckoutReadsCart(h, c)
      PROVE  CartsOK'
  <2>1. /\ \A g \in Calls \ {h} : call'[g] = call[g]
        /\ call'[h].pc = "readProducts"
        /\ call'[h].cart = c
        /\ call'[h].rows = cart[c].rows
    BY <1>1, HeldRows DEF CheckoutReadsCart
  <2>2. CallFits(h)'
    BY <1>1, <2>1 DEF CheckoutReadsCart, CallFits, CartsOK, At, CheckingOut, Restoring, Writing
  <2> QED
    BY <1>1, <2>1, <2>2, OwnStepKeepsCarts DEF CheckoutReadsCart, At, Writing
<1>2. ASSUME call[h].pc \in CheckingOut, NEW row, call' = [call EXCEPT ![h] = row],
             row.pc \in CheckingOut, row.cart = call[h].cart, row.rows = call[h].rows,
             UNCHANGED <<cart, order>>
      PROVE  CartsOK'
  <2>1. call'[h] = row /\ \A g \in Calls \ {h} : call'[g] = call[g]
    BY <1>0, <1>2
  <2>2. CallFits(h)'
    BY <1>2, <2>1 DEF CallFits, CartsOK, At, CheckingOut, Restoring, Writing
  <2> QED
    BY <1>2, <2>1, <2>2, OwnStepKeepsCarts DEF At, CheckingOut, Writing
<1>3. CASE CheckoutReadsProducts(h)
  <2> DEFINE row == [call[h] EXCEPT !.pc = "readVariants", !.product = product]
  <2>1. row.pc \in CheckingOut /\ row.cart = call[h].cart /\ row.rows = call[h].rows
    BY <1>0 DEF CallRow, CheckingOut
  <2>2. call' = [call EXCEPT ![h] = row]
    BY <1>3 DEF CheckoutReadsProducts
  <2> HIDE DEF row
  <2> QED BY <1>2, <1>3, <2>1, <2>2 DEF CheckoutReadsProducts, At, CheckingOut
<1>4. CASE CheckoutReadsVariants(h)
  <2>1. CASE \A r \in call[h].rows : Fits(h, r)
    <3> DEFINE row == [call[h] EXCEPT !.pc = "commit", !.variant = variant]
    <3>1. row.pc \in CheckingOut /\ row.cart = call[h].cart /\ row.rows = call[h].rows
      BY <1>0 DEF CallRow, CheckingOut
    <3>2. call' = [call EXCEPT ![h] = row]
      BY <1>4, <2>1 DEF CheckoutReadsVariants
    <3> HIDE DEF row
    <3> QED BY <1>2, <1>4, <3>1, <3>2 DEF CheckoutReadsVariants, At, CheckingOut
  <2>2. CASE ~(\A r \in call[h].rows : Fits(h, r))
    BY <1>4, <2>2, EndKeepsCarts DEF CheckoutReadsVariants, At
  <2> QED BY <2>1, <2>2
<1>5. CASE CommitCheckout(h)
  <2> DEFINE c == call[h].cart
             rows == call[h].rows
  <2>1. /\ c \in Carts
        /\ rows # {}
        /\ OnePerVariant(rows)
        /\ order[h].cart = NoCart
    BY <1>5 DEF CommitCheckout, CartsOK, CallFits, At, CheckingOut
  <2>2. /\ order'[h] = [status |-> "OPEN", cart |-> c, rows |-> rows]
        /\ \A o \in Calls \ {h} : order'[o] = order[o]
    BY <1>0, <1>5 DEF CommitCheckout
  <2>3. /\ cart'[c].status = "CONVERTED"
        /\ \A d \in Carts \ {c} : cart'[d].status = cart[d].status
        /\ \A d \in Carts : cart'[d].rows = cart[d].rows
    BY <1>0, <1>5, <2>1 DEF CommitCheckout, CartRow
  <2> HIDE DEF c, rows
  <2>4. order'[h].cart = c /\ order'[h].status = "OPEN" /\ order'[h].rows = rows
    BY <2>2
  <2>5. Ends(h)
    BY <1>5 DEF CommitCheckout
  <2>6. \A g \in Calls : CallFits(g)'
    <3>1. CallFits(h)' /\ \A g \in Calls \ {h} : call'[g] = call[g]
      BY <2>5, EndedCall
    <3>2. ASSUME NEW g \in Calls \ {h} PROVE CallFits(g)'
      <4>1. call'[g] = call[g] /\ order'[g] = order[g] /\ CallFits(g)
        BY <2>2, <3>1 DEF CartsOK
      <4>2. \A o \in Calls : order[o].status # "NONE" => order'[o].status # "NONE"
        BY <2>2, <2>4
      <4>3. call[g].order \in Calls
        BY <1>0 DEF CallRow
      <4> QED BY <4>1, <4>2, <4>3 DEF CallFits, At, OnePerVariant
    <3> QED BY <3>1, <3>2
  <2>7. \A d \in Carts : \A r \in cart'[d].rows : Named(r.id, r.sku)
    BY <2>3 DEF Named
  <2>8. NamesOK'
    BY <2>5, <2>7, NamesKept, EndedCall DEF CartsOK, Writing
  <2>9. ConvertedIffOrdered'
    <3>1. ASSUME NEW d \in Carts
          PROVE  cart'[d].status = "CONVERTED" <=> \E o \in Calls : order'[o].cart = d
      <4>1. CASE d = c
        BY <2>3, <2>4, <4>1
      <4>2. CASE d # c
        <5>1. d # NoCart
          BY CheckoutAssumption
        <5>2. \A o \in Calls : order'[o].cart = d <=> order[o].cart = d
          BY <2>1, <2>2, <2>4, <4>2, <5>1
        <5> QED BY <2>3, <4>2, <5>2 DEF CartsOK, ConvertedIffOrdered
      <4> QED BY <4>1, <4>2
    <3>2. ASSUME NEW o \in Calls
          PROVE  order'[o].status # "NONE" <=> order'[o].rows # {}
      BY <2>1, <2>2, <2>4 DEF CartsOK, ConvertedIffOrdered
    <3> QED BY <3>1, <3>2 DEF ConvertedIffOrdered
  <2>10. \A d \in Carts : OnePerVariant(cart[d].rows)'
    BY <2>3 DEF CartsOK, OnePerVariant
  <2>11. \A o \in Calls : OnePerVariant(order[o].rows)'
    BY <2>1, <2>2, <2>4 DEF CartsOK, OnePerVariant
  <2> QED BY <2>6, <2>8, <2>9, <2>10, <2>11 DEF CartsOK
<1> QED
  BY <1>1, <1>3, <1>4, <1>5 DEF CheckoutCall

\* A restore closes an order that was made.
LEMMA RestoreCallKeepsCarts ==
  ASSUME IInv, IInv', CartsOK, NEW h \in Calls, RestoreCall(h)
  PROVE  CartsOK'
<1>0. call \in [Calls -> CallRow] /\ cart \in [Carts -> CartRow] /\ order \in [Calls -> OrderRow]
  BY DEF IInv, TypeOK
<1>1. ASSUME NEW row, call' = [call EXCEPT ![h] = row], ~At(h, "done"),
             row.pc \in Restoring, order[row.order].status # "NONE", UNCHANGED <<cart, order>>
      PROVE  CartsOK'
  <2>1. call'[h] = row /\ \A g \in Calls \ {h} : call'[g] = call[g]
    BY <1>0, <1>1
  <2>2. CallFits(h)'
    BY <1>1, <2>1 DEF CallFits, CartsOK, At, CheckingOut, Restoring, Writing
  <2> QED
    BY <1>1, <2>1, <2>2, OwnStepKeepsCarts DEF Restoring, Writing
<1>2. call[h].pc \in Restoring => order[call[h].order].status # "NONE" /\ ~At(h, "done")
  BY DEF CartsOK, CallFits, Restoring, At
<1>3. ASSUME NEW o \in Calls, BeginRestore(h, o)
      PROVE  CartsOK'
  <2> DEFINE row == [NoLocals(h, "restore") EXCEPT !.order = o, !.rows = order[o].rows]
  <2>1. row.pc \in Restoring /\ row.order = o
    BY DEF NoLocals, Restoring
  <2>2. call' = [call EXCEPT ![h] = row]
    BY <1>3 DEF BeginRestore
  <2> HIDE DEF row
  <2> QED BY <1>1, <1>3, <2>1, <2>2 DEF BeginRestore, At
<1>4. ASSUME NEW r \in call[h].rows, RestoreReadsRow(h, r)
      PROVE  CartsOK'
  <2> DEFINE row == AfterReading(h, r)
  <2>1. row.pc \in Restoring /\ row.order = call[h].order
    BY <1>0 DEF AfterReading, CallRow, Restoring
  <2> HIDE DEF row
  <2> QED BY <1>1, <1>2, <1>4, <2>1 DEF RestoreReadsRow, At, Restoring, row
<1>5. CASE RestoreWritesRow(h)
  <2>1. PICK r \in call[h].now : call' = [call EXCEPT ![h] = AfterWriting(h, r)]
    BY <1>5 DEF RestoreWritesRow
  <2> DEFINE row == AfterWriting(h, r)
  <2>2. row.pc \in Restoring /\ row.order = call[h].order
    BY <1>0 DEF AfterWriting, CallRow, Restoring
  <2>3. call' = [call EXCEPT ![h] = row]
    BY <2>1
  <2> HIDE DEF row
  <2> QED BY <1>1, <1>2, <1>5, <2>2, <2>3 DEF RestoreWritesRow, At, Restoring
<1>6. CASE RestoreAborts(h)
  BY <1>6, EndKeepsCarts DEF RestoreAborts, At
<1>7. CASE CommitRestore(h)
  <2> DEFINE o == call[h].order
  <2>1. o \in Calls /\ order[o].status # "NONE"
    BY <1>0, <1>2, <1>7 DEF CallRow, CommitRestore, At, Restoring
  <2>2. /\ \A q \in Calls : order'[q].cart = order[q].cart /\ order'[q].rows = order[q].rows
        /\ \A q \in Calls : order'[q].status # "NONE" <=> order[q].status # "NONE"
    <3>1. order' = [order EXCEPT ![o].status = "CLOSED"]
      BY <1>7 DEF CommitRestore
    <3> QED BY <1>0, <2>1, <3>1 DEF OrderRow
  <2>3. Ends(h) /\ UNCHANGED cart
    BY <1>7 DEF CommitRestore
  <2> HIDE DEF o
  <2>4. \A g \in Calls : CallFits(g)'
    <3>1. CallFits(h)' /\ \A g \in Calls \ {h} : call'[g] = call[g]
      BY <2>3, EndedCall
    <3>2. \A g \in Calls : call[g].order \in Calls
      BY <1>0 DEF CallRow
    <3> QED BY <2>2, <3>1, <3>2 DEF CartsOK, CallFits, At, OnePerVariant
  <2>5. \A d \in Carts : \A r \in cart'[d].rows : Named(r.id, r.sku)
    BY <2>3 DEF Named
  <2>6. NamesOK'
    BY <2>3, <2>5, NamesKept, EndedCall DEF CartsOK, Writing
  <2>7. ConvertedIffOrdered'
    BY <2>2, <2>3 DEF CartsOK, ConvertedIffOrdered
  <2>8. /\ \A d \in Carts : OnePerVariant(cart[d].rows)'
        /\ \A q \in Calls : OnePerVariant(order[q].rows)'
    BY <2>2, <2>3 DEF CartsOK, OnePerVariant
  <2> QED BY <2>4, <2>6, <2>7, <2>8 DEF CartsOK
<1> QED
  BY <1>3, <1>4, <1>5, <1>6, <1>7 DEF RestoreCall

\* The catalog screens touch no cart and no order.
LEMMA CatalogCallKeepsCarts ==
  ASSUME IInv, IInv', CartsOK, NEW h \in Calls, CatalogCall(h)
  PROVE  CartsOK'
<1>1. ASSUME NEW pc \in {"publish", "edit"}, NEW p \in Products, NEW form,
             CatalogReads(h, pc, p, form)
      PROVE  CartsOK'
  <2>1. /\ \A g \in Calls \ {h} : call'[g] = call[g]
        /\ call'[h].pc = pc
    BY <1>1 DEF CatalogReads, NoLocals, IInv, TypeOK
  <2>2. CallFits(h)'
    BY <1>1, <2>1 DEF CatalogReads, CallFits, CartsOK, At, CheckingOut, Restoring, Writing
  <2> QED
    BY <1>1, <2>1, <2>2, OwnStepKeepsCarts DEF CatalogReads, At, Writing
<1>2. CASE PublishWrites(h)
  BY <1>2, EndKeepsCarts DEF PublishWrites, At
<1>3. CASE EditWrites(h)
  BY <1>3, EndKeepsCarts DEF EditWrites, At
<1>4. ASSUME NEW p \in Products, NEW status, Withdraw(h, p, status)
      PROVE  CartsOK'
  BY <1>4, EndKeepsCarts DEF Withdraw, At
<1> QED
  BY <1>1, <1>2, <1>3, <1>4 DEF CatalogCall, PublishReads, EditReads

\* At first no cart is converted and no order made.
LEMMA InitCarts == Init => CartsOK
<1> SUFFICES ASSUME Init PROVE CartsOK
  OBVIOUS
<1>1. \A h \in Calls : call[h].pc = "idle" /\ call[h].rows = {}
  BY DEF Init, NoLocals
<1>2. \A h \in Calls : CallFits(h)
  BY <1>1 DEF Init, CallFits, At, CheckingOut, Restoring, Writing
<1>3. NamesOK
  BY <1>1 DEF Init, NamesOK, Named, Writing
<1> QED
  BY <1>2, <1>3 DEF CartsOK, Init, ConvertedIffOrdered, OnePerVariant

\* Every step keeps both invariants.
LEMMA NextCarts == IInv /\ CartsOK /\ [Next]_vars => IInv' /\ CartsOK'
<1>1. ASSUME IInv, CartsOK, Next PROVE CartsOK'
  <2>1. IInv'
    BY <1>1, NextIInv
  <2> QED
    BY <1>1, <2>1, CartCallKeepsCarts, CheckoutCallKeepsCarts, RestoreCallKeepsCarts,
       CatalogCallKeepsCarts DEF Next, Step
<1>2. ASSUME CartsOK, UNCHANGED vars PROVE CartsOK'
  BY <1>2 DEF vars, CartsOK, ConvertedIffOrdered, CallFits, NamesOK, Named, OnePerVariant, At
<1> QED
  BY <1>1, <1>2, NextIInv

\* However requests interleave, a cart is converted exactly when an order was
\* made of it, and no order is empty.
THEOREM CartsConverted == Spec => []ConvertedIffOrdered
<1>1. CartsOK => ConvertedIffOrdered
  BY DEF CartsOK
<1> QED
  BY <1>1, InitIInv, InitCarts, NextCarts, PTL DEF Spec

\* Where the unique index binds every row, because all that is sold is a
\* variant, carts and orders also have one row of each.
THEOREM CartsSafe ==
  ASSUME Variants = Skus
  PROVE  Spec => []CartsHold
<1>1. IInv /\ CartsOK => CartsHold
  <2> SUFFICES ASSUME IInv, CartsOK PROVE OneRowPerSku
    BY DEF CartsHold, CartsOK
  <2>1. /\ \A c \in Carts : \A r \in cart[c].rows : r.sku \in Variants
        /\ \A o \in Calls : \A r \in order[o].rows : r.sku \in Variants
    BY DEF IInv, TypeOK, CartRow, OrderRow, ItemRow
  <2> QED BY <2>1 DEF CartsOK, OneRowPerSku, OnePerVariant
<1> QED
  BY <1>1, InitIInv, InitCarts, NextCarts, PTL DEF Spec

-------------------------------------------------------------------------------
(* Requests that do not overlap: a cart becomes one order, what is offered *)
(* has stock, what the store has withdrawn stays so, and where no two skus *)
(* share a product's stock, Checkout implements Warehouse.                 *)

Withdrawn == {"INACTIVE", "ARCHIVED"}

\* A product on sale has stock.
Honest(row) == row.status = "ACTIVE" => row.stock > 0

OnePerSku(rows) == \A r, q \in rows : r.sku = q.sku => r = q

\* What the one running request has read is still so, and what it has written
\* in its transaction respects what was withdrawn.
SerialFits(h) ==
  LET mine == call[h] IN
  /\ \A p \in Products : Honest(mine.product[p])
  /\ mine.pc = "create" =>
       \A r \in mine.rows : \A q \in cart[mine.cart].rows : q.sku # r.sku
  /\ mine.pc \in CheckingOut => cart[mine.cart].status = "ACTIVE" /\ OnePerSku(mine.rows)
  /\ mine.pc \in {"readVariants", "commit", "publish", "edit"} => mine.product = product
  /\ mine.pc = "commit" => \A r \in mine.rows : product[Parent[r.sku]].status = "ACTIVE"
  /\ mine.pc \in Restoring =>
       /\ order[mine.order].status = "OPEN"
       /\ \A p \in mine.target :
            product[p].status \in Withdrawn => mine.product[p].status \in Withdrawn
  /\ mine.pc = "restoreRow" =>
       \A r \in mine.now : \/ Parent[r.sku] \in mine.target
                           \/ mine.product[Parent[r.sku]] = product[Parent[r.sku]]
  /\ mine.pc \in {"publish", "edit"} => \E p \in Products : mine.target = {p}
  /\ mine.pc = "edit" => mine.form.stock \subseteq Restocks

ProductsHonest == \A p \in Products : Honest(product[p])

SerialOK ==
  /\ \A g, h \in Running : g = h
  /\ ProductsHonest
  /\ OneOrderPerCart
  /\ OneRowPerSku
  /\ \A h \in Calls : SerialFits(h)

\* The invariants that hold of every state of every behaviour of Spec.
Always == IInv /\ CartsOK

\* A step of the one running request: the others only have to be at rest.
LEMMA SerialStep ==
  ASSUME SerialOK, NEW h \in Calls, Running \subseteq {h},
         \A g \in Calls \ {h} : call'[g] = call[g],
         SerialFits(h)', ProductsHonest', OneOrderPerCart', OneRowPerSku'
  PROVE  SerialOK'
<1>1. ASSUME NEW g \in Calls \ {h} PROVE SerialFits(g)'
  <2>1. call[g].pc \in {"idle", "done"}
    BY DEF Running
  <2>2. call'[g] = call[g] /\ SerialFits(g)
    BY DEF SerialOK
  <2> QED BY <2>1, <2>2 DEF SerialFits, CheckingOut, Restoring
<1>2. \A g \in Calls : g \in Running' => g = h
  BY DEF Running
<1>3. Running' \subseteq Calls
  BY DEF Running
<1> QED BY <1>1, <1>2, <1>3 DEF SerialOK

\* A request that ends has read nothing.
LEMMA EndFits ==
  ASSUME IInv, NEW h \in Calls, Ends(h)
  PROVE  SerialFits(h)'
<1>1. call'[h] = NoLocals(h, "done")
  BY DEF Ends, IInv, TypeOK
<1>2. call'[h].pc = "done" /\ \A p \in Products : Honest(call'[h].product[p])
  BY <1>1 DEF NoLocals, Honest
<1> QED BY <1>2 DEF SerialFits, CheckingOut, Restoring

\* A request that has read a cart has read no product.
LEMMA HeldHonest ==
  ASSUME IInv, NEW h \in Calls, NEW pc, NEW c, NEW rows, HoldsRows(h, pc, c, rows)
  PROVE  \A p \in Products : Honest(call'[h].product[p])
<1>1. call'[h] = [NoLocals(h, pc) EXCEPT !.cart = c, !.rows = rows]
  BY DEF HoldsRows, IInv, TypeOK
<1> QED BY <1>1 DEF NoLocals, Honest

\* A step that changes no product, no cart and no order.
LEMMA QuietStep ==
  ASSUME SerialOK, UNCHANGED <<product, cart, order>>
  PROVE  ProductsHonest' /\ OneOrderPerCart' /\ OneRowPerSku'
BY DEF SerialOK, ProductsHonest, OneOrderPerCart, OneRowPerSku

\* A step that ends its request and writes rows of one cart.
LEMMA SerialRowsStep ==
  ASSUME Always, SerialOK, NEW h \in Calls, Running \subseteq {h}, Ends(h),
         UNCHANGED <<product, order>>, NEW c, NEW rows, SetRows(c, rows),
         c \in Carts => OnePerSku(rows)
  PROVE  SerialOK'
<1>1. \A d \in Carts : cart'[d].rows = IF d = c THEN rows ELSE cart[d].rows
  BY DEF Always, IInv, TypeOK, SetRows, CartRow
<1>2. OneRowPerSku'
  BY <1>1 DEF SerialOK, OneRowPerSku, OnePerSku
<1>3. ProductsHonest' /\ OneOrderPerCart'
  BY DEF SerialOK, ProductsHonest, OneOrderPerCart
<1>4. SerialFits(h)' /\ \A g \in Calls \ {h} : call'[g] = call[g]
  BY EndFits, EndedCall DEF Always
<1> QED BY <1>2, <1>3, <1>4, SerialStep

\* The requests on a cart.
LEMMA SerialCartCall ==
  ASSUME Always, SerialOK, NEW h \in Calls, Running \subseteq {h}, CartCall(h)
  PROVE  SerialOK'
<1>0. IInv /\ \A c \in Carts : cart[c].rows \subseteq ItemRow
  BY DEF Always, IInv, TypeOK, CartRow
<1>1. ASSUME NEW pc \in {"create", "update", "delete", "clear"}, NEW c \in Carts, NEW rows,
             HoldsRows(h, pc, c, rows), UNCHANGED <<product, cart, order>>,
             pc = "create" => \A r \in rows : \A q \in cart[c].rows : q.sku # r.sku
      PROVE  SerialOK'
  <2>1. /\ \A g \in Calls \ {h} : call'[g] = call[g]
        /\ call'[h].pc = pc /\ call'[h].cart = c /\ call'[h].rows = rows
        /\ \A p \in Products : Honest(call'[h].product[p])
    BY <1>0, <1>1, HeldRows, HeldHonest
  <2>2. SerialFits(h)'
    BY <1>1, <2>1 DEF SerialFits, CheckingOut, Restoring
  <2> QED BY <1>1, <2>1, <2>2, SerialStep, QuietStep
<1>2. ASSUME NEW c \in Carts, NEW s \in Skus, NEW quantity \in 1..MaxQuantity,
             AddItem(h, c, s, quantity)
      PROVE  SerialOK'
  <2>1. CASE /\ \A r \in cart[c].rows : r.sku # s
             /\ HoldsRows(h, "create", c, {[id |-> h, sku |-> s, quantity |-> quantity]})
    BY <1>2, <1>1, <2>1 DEF AddItem
  <2>2. ASSUME NEW r \in cart[c].rows,
               HoldsRows(h, "update", c, {[r EXCEPT !.quantity = @ + quantity]})
        PROVE  SerialOK'
    BY <1>2, <1>1, <2>2 DEF AddItem
  <2> QED BY <1>2, <2>1, <2>2 DEF AddItem
<1>3. ASSUME NEW c \in Carts, NEW r \in cart[c].rows, NEW quantity \in 1..MaxQuantity,
             UpdateItem(h, c, r, quantity)
      PROVE  SerialOK'
  BY <1>3, <1>1 DEF UpdateItem
<1>4. ASSUME NEW c \in Carts, NEW r \in cart[c].rows, RemoveItem(h, c, r)
      PROVE  SerialOK'
  BY <1>4, <1>1 DEF RemoveItem
<1>5. ASSUME NEW c \in Carts, ClearCart(h, c)
      PROVE  SerialOK'
  BY <1>5, <1>1 DEF ClearCart
<1>6. \A c \in Carts : OnePerSku(cart[c].rows)
  BY DEF SerialOK, OneRowPerSku, OnePerSku
<1>7. call[h].pc \in Writing => \A r, q \in call[h].rows : r = q
  BY DEF Always, CartsOK, CallFits
<1>8. CASE CreateRow(h)
  <2> DEFINE c == call[h].cart
             rows == cart[c].rows \cup
         {r \in call[h].rows :
            r.sku \in Variants => \A q \in cart[c].rows : q.sku # r.sku}
  <2>1. At(h, "create") /\ SetRows(c, rows) /\ Ends(h) /\ UNCHANGED <<product, order>>
    BY <1>8 DEF CreateRow
  <2>2. \A r \in call[h].rows : \A q \in cart[c].rows : q.sku # r.sku
    BY <2>1 DEF SerialOK, SerialFits, At
  <2>3. c \in Carts => OnePerSku(rows)
    BY <1>6, <1>7, <2>1, <2>2 DEF OnePerSku, At, Writing
  <2> HIDE DEF c, rows
  <2> QED BY <2>1, <2>3, SerialRowsStep
<1>9. CASE UpdateRow(h)
  <2> DEFINE c == call[h].cart
             rows == {r \in cart[c].rows : \A q \in call[h].rows : q.id # r.id} \cup
         {q \in call[h].rows : \E r \in cart[c].rows : q.id = r.id}
  <2>1. At(h, "update") /\ SetRows(c, rows) /\ Ends(h) /\ UNCHANGED <<product, order>>
    BY <1>9 DEF UpdateRow
  <2>2. call[h].rows \subseteq ItemRow
    BY <1>0 DEF IInv, TypeOK, CallRow
  <2>3. ASSUME c \in Carts, NEW q \in call[h].rows, NEW r \in cart[c].rows, q.id = r.id
        PROVE  q.sku = r.sku
    <3>1. Named(q.id, q.sku) /\ Named(q.id, r.sku)
      BY <2>1, <2>3 DEF Named, At, Writing
    <3>2. q.id \in Calls /\ q.sku \in Skus /\ r.sku \in Skus
      BY <1>0, <2>2, <2>3 DEF ItemRow
    <3> QED BY <3>1, <3>2 DEF Always, CartsOK, NamesOK
  <2>4. ASSUME c \in Carts, NEW r \in rows, NEW q \in rows, r.sku = q.sku
        PROVE  r = q
    BY <1>6, <1>7, <2>1, <2>3, <2>4 DEF OnePerSku, At, Writing
  <2>5. c \in Carts => OnePerSku(rows)
    BY <2>4 DEF OnePerSku
  <2> HIDE DEF c, rows
  <2> QED BY <2>1, <2>5, SerialRowsStep
<1>10. CASE DeleteRow(h)
  <2> DEFINE c == call[h].cart
             rows == {r \in cart[c].rows : \A q \in call[h].rows : q.id # r.id}
  <2>1. SetRows(c, rows) /\ Ends(h) /\ UNCHANGED <<product, order>>
    BY <1>10 DEF DeleteRow
  <2>2. c \in Carts => OnePerSku(rows)
    BY <1>6 DEF OnePerSku
  <2> HIDE DEF c, rows
  <2> QED BY <2>1, <2>2, SerialRowsStep
<1>11. CASE DeleteAllRows(h)
  <2>1. OnePerSku({})
    BY DEF OnePerSku
  <2> QED BY <1>11, <2>1, SerialRowsStep DEF DeleteAllRows
<1> QED
  BY <1>2, <1>3, <1>4, <1>5, <1>8, <1>9, <1>10, <1>11 DEF CartCall

\* What a checkout compared with is still so when it commits.
LEMMA SerialCheckoutCall ==
  ASSUME Always, SerialOK, NEW h \in Calls, Running \subseteq {h}, CheckoutCall(h)
  PROVE  SerialOK'
<1>0. /\ IInv /\ SerialFits(h)
      /\ call \in [Calls -> CallRow]
      /\ order \in [Calls -> OrderRow]
      /\ product \in [Products -> ProductRow]
  BY DEF Always, IInv, TypeOK, SerialOK
<1>1. ASSUME NEW c \in Carts, CheckoutReadsCart(h, c)
      PROVE  SerialOK'
  <2>1. /\ \A g \in Calls \ {h} : call'[g] = call[g]
        /\ call'[h].pc = "readProducts"
        /\ call'[h].cart = c
        /\ call'[h].rows = cart[c].rows
        /\ \A p \in Products : Honest(call'[h].product[p])
    BY <1>0, <1>1, HeldRows, HeldHonest DEF CheckoutReadsCart
  <2>2. OnePerSku(cart[c].rows)
    BY DEF SerialOK, OneRowPerSku, OnePerSku
  <2>3. SerialFits(h)'
    BY <1>1, <2>1, <2>2 DEF CheckoutReadsCart, SerialFits, CheckingOut, Restoring
  <2> QED BY <1>1, <2>1, <2>3, SerialStep, QuietStep DEF CheckoutReadsCart
<1>2. CASE CheckoutReadsProducts(h)
  <2>1. call'[h] = [call[h] EXCEPT !.pc = "readVariants", !.product = product]
        /\ \A g \in Calls \ {h} : call'[g] = call[g]
    BY <1>0, <1>2 DEF CheckoutReadsProducts
  <2>2. /\ call'[h].pc = "readVariants" /\ call'[h].product = product
        /\ call'[h].cart = call[h].cart /\ call'[h].rows = call[h].rows
    BY <1>0, <2>1 DEF CallRow
  <2>3. SerialFits(h)'
    BY <1>0, <1>2, <2>2 DEF CheckoutReadsProducts, At, SerialFits, CheckingOut, Restoring,
       SerialOK, ProductsHonest
  <2> QED BY <1>2, <2>1, <2>3, SerialStep, QuietStep DEF CheckoutReadsProducts
<1>3. CASE CheckoutReadsVariants(h)
  <2>1. CASE \A r \in call[h].rows : Fits(h, r)
    <3>1. call'[h] = [call[h] EXCEPT !.pc = "commit", !.variant = variant]
          /\ \A g \in Calls \ {h} : call'[g] = call[g]
      BY <1>0, <1>3, <2>1 DEF CheckoutReadsVariants
    <3>2. /\ call'[h].pc = "commit" /\ call'[h].product = call[h].product
          /\ call'[h].cart = call[h].cart /\ call'[h].rows = call[h].rows
      BY <1>0, <3>1 DEF CallRow
    <3>3. call[h].product = product
      BY <1>0, <1>3 DEF CheckoutReadsVariants, At, SerialFits
    <3>4. \A r \in call[h].rows : product[Parent[r.sku]].status = "ACTIVE"
      BY <2>1, <3>3 DEF Fits
    <3>5. SerialFits(h)'
      BY <1>0, <1>3, <3>2, <3>3, <3>4 DEF CheckoutReadsVariants, At, SerialFits, CheckingOut,
         Restoring
    <3> QED BY <1>3, <3>1, <3>5, SerialStep, QuietStep DEF CheckoutReadsVariants
  <2>2. CASE ~(\A r \in call[h].rows : Fits(h, r))
    BY <1>0, <1>3, <2>2, EndFits, EndedCall, SerialStep, QuietStep DEF CheckoutReadsVariants
  <2> QED BY <2>1, <2>2
<1>4. CASE CommitCheckout(h)
  <2> DEFINE c == call[h].cart
             rows == call[h].rows
  <2>1. cart[c].status = "ACTIVE" /\ OnePerSku(rows) /\ c \in Carts
    BY <1>0, <1>4 DEF CommitCheckout, At, SerialFits, Always, CartsOK, CallFits, CheckingOut
  <2>2. /\ order'[h].cart = c /\ order'[h].rows = rows
        /\ \A o \in Calls \ {h} : order'[o] = order[o]
    BY <1>0, <1>4 DEF CommitCheckout
  <2> HIDE DEF c, rows
  <2>3. \A o \in Calls : order[o].cart # c
    BY <2>1 DEF Always, CartsOK, ConvertedIffOrdered
  <2>4. OneOrderPerCart'
    BY <2>2, <2>3 DEF SerialOK, OneOrderPerCart
  <2>5. OneRowPerSku'
    <3>1. \A d \in Carts : cart'[d].rows = cart[d].rows
      BY <1>4 DEF CommitCheckout, Always, IInv, TypeOK, CartRow
    <3> QED BY <2>1, <2>2, <3>1 DEF SerialOK, OneRowPerSku, OnePerSku
  <2>6. ProductsHonest'
    <3>1. PICK last : product' = StockAfter(h, last)
      BY <1>4 DEF CommitCheckout
    <3>2. ASSUME NEW p \in Products PROVE Honest(product'[p])
      <4>1. CASE p \in ProductsOf(call[h].rows)
        BY <3>1, <4>1 DEF StockAfter, Honest, StatusForStock
      <4>2. CASE p \notin ProductsOf(call[h].rows)
        BY <3>1, <4>2 DEF StockAfter, SerialOK, ProductsHonest
      <4> QED BY <4>1, <4>2
    <3> QED BY <3>2 DEF ProductsHonest
  <2> QED
    BY <1>0, <1>4, <2>4, <2>5, <2>6, EndFits, EndedCall, SerialStep DEF CommitCheckout
<1> QED
  BY <1>1, <1>2, <1>3, <1>4 DEF CheckoutCall

\* What a restore has read or written of a product.
LEMMA RestoredHonest ==
  ASSUME NEW seen \in ProductRow, NEW quantity \in Nat, Honest(seen)
  PROVE  /\ Honest(RestoredProduct(seen, quantity))
         /\ seen.status \in Withdrawn => RestoredProduct(seen, quantity).status \in Withdrawn
BY DEF ProductRow, Honest, RestoredProduct, Withdrawn

\* A restore keeps what was withdrawn withdrawn.
LEMMA SerialRestoreCall ==
  ASSUME Always, SerialOK, NEW h \in Calls, Running \subseteq {h}, RestoreCall(h)
  PROVE  SerialOK'
<1>0. /\ IInv /\ SerialFits(h)
      /\ call \in [Calls -> CallRow] /\ call[h] \in CallRow
      /\ order \in [Calls -> OrderRow]
      /\ product \in [Products -> ProductRow]
  BY DEF Always, IInv, TypeOK, SerialOK
<1>1. ASSUME NEW o \in Calls, BeginRestore(h, o)
      PROVE  SerialOK'
  <2>1. /\ call'[h] = [NoLocals(h, "restore") EXCEPT !.order = o, !.rows = order[o].rows]
        /\ \A g \in Calls \ {h} : call'[g] = call[g]
    BY <1>0, <1>1 DEF BeginRestore
  <2>2. /\ call'[h].pc = "restore" /\ call'[h].order = o /\ call'[h].target = {}
        /\ \A p \in Products : Honest(call'[h].product[p])
    BY <2>1 DEF NoLocals, Honest
  <2>3. SerialFits(h)'
    BY <1>1, <2>2 DEF BeginRestore, SerialFits, CheckingOut, Restoring
  <2> QED BY <1>1, <2>1, <2>3, SerialStep, QuietStep DEF BeginRestore
<1>2. ASSUME NEW r \in call[h].rows, RestoreReadsRow(h, r)
      PROVE  SerialOK'
  <2> DEFINE p == Parent[r.sku]
             mine == call[h]
             now == call'[h]
  <2>1. now = AfterReading(h, r) /\ \A g \in Calls \ {h} : call'[g] = call[g]
    BY <1>0, <1>2 DEF RestoreReadsRow
  <2>2. /\ now.pc = "restoreRow" /\ now.order = mine.order /\ now.target = mine.target
        /\ now.now = {r}
        /\ now.product = IF p \in mine.target THEN mine.product
                         ELSE [mine.product EXCEPT ![p] = product[p]]
    BY <1>0, <2>1 DEF AfterReading, CallRow
  <2>3. p \in Products /\ mine.product \in [Products -> ProductRow]
    BY <1>0 DEF CallRow, ItemRow
  <2>4. /\ order[mine.order].status = "OPEN"
        /\ \A q \in mine.target :
             product[q].status \in Withdrawn => mine.product[q].status \in Withdrawn
        /\ \A q \in Products : Honest(mine.product[q])
        /\ mine.target \subseteq Products
    BY <1>0, <1>2 DEF RestoreReadsRow, At, SerialFits, Restoring, CallRow
  <2> HIDE DEF p, mine, now
  <2>5. \A q \in Products : now.product[q] = mine.product[q] \/ now.product[q] = product[q]
    BY <2>2, <2>3
  <2>6. \A q \in Products : Honest(now.product[q])
    BY <2>4, <2>5 DEF SerialOK, ProductsHonest
  <2>7. \A q \in now.target : now.product[q] = mine.product[q]
    BY <2>2, <2>3, <2>4
  <2>8. p \in now.target \/ now.product[p] = product[p]
    BY <2>2, <2>3
  <2>9. SerialFits(h)'
    BY <1>2, <2>2, <2>4, <2>6, <2>7, <2>8
    DEF RestoreReadsRow, SerialFits, CheckingOut, Restoring, p, now
  <2> QED BY <1>2, <2>1, <2>9, SerialStep, QuietStep DEF RestoreReadsRow
<1>3. CASE RestoreWritesRow(h)
  <2>1. PICK r \in call[h].now : call' = [call EXCEPT ![h] = AfterWriting(h, r)]
    BY <1>3 DEF RestoreWritesRow
  <2> DEFINE p == Parent[r.sku]
             mine == call[h]
             now == call'[h]
             restored == RestoredProduct(mine.product[p], r.quantity)
  <2>2. now = AfterWriting(h, r) /\ \A g \in Calls \ {h} : call'[g] = call[g]
    BY <1>0, <2>1
  <2>3. /\ now.pc = "restore" /\ now.order = mine.order
        /\ now.target = mine.target \cup {p}
        /\ now.product = [mine.product EXCEPT ![p] = restored]
    BY <1>0, <2>2 DEF AfterWriting, CallRow
  <2>4. /\ p \in Products /\ r.quantity \in Nat
        /\ mine.product \in [Products -> ProductRow]
        /\ mine.target \subseteq Products
    BY <1>0 DEF CallRow, ItemRow
  <2>5. /\ order[mine.order].status = "OPEN"
        /\ \A q \in mine.target :
             product[q].status \in Withdrawn => mine.product[q].status \in Withdrawn
        /\ \A q \in Products : Honest(mine.product[q])
        /\ p \in mine.target \/ mine.product[p] = product[p]
    BY <1>0, <1>3 DEF RestoreWritesRow, At, SerialFits, Restoring
  <2>6. /\ Honest(restored)
        /\ mine.product[p].status \in Withdrawn => restored.status \in Withdrawn
    BY <2>4, <2>5, RestoredHonest
  <2> HIDE DEF p, mine, now, restored
  <2>7. \A q \in Products : now.product[q] = IF q = p THEN restored ELSE mine.product[q]
    BY <2>3, <2>4
  <2>8. \A q \in now.target :
          product[q].status \in Withdrawn => now.product[q].status \in Withdrawn
    BY <2>3, <2>4, <2>5, <2>6, <2>7
  <2>9. SerialFits(h)'
    BY <1>3, <2>3, <2>5, <2>6, <2>7, <2>8
    DEF RestoreWritesRow, SerialFits, CheckingOut, Restoring, now
  <2> QED BY <1>3, <2>2, <2>9, SerialStep, QuietStep DEF RestoreWritesRow
<1>4. CASE RestoreAborts(h)
  BY <1>0, <1>4, EndFits, EndedCall, SerialStep, QuietStep DEF RestoreAborts
<1>5. CASE CommitRestore(h)
  <2>1. \A q \in Calls : order'[q].cart = order[q].cart /\ order'[q].rows = order[q].rows
    BY <1>0, <1>5 DEF CommitRestore, OrderRow
  <2>2. OneOrderPerCart' /\ OneRowPerSku'
    BY <1>5, <2>1 DEF CommitRestore, SerialOK, OneOrderPerCart, OneRowPerSku
  <2>3. ProductsHonest'
    BY <1>0, <1>5 DEF CommitRestore, SerialFits, SerialOK, ProductsHonest
  <2> QED
    BY <1>0, <1>5, <2>2, <2>3, EndFits, EndedCall, SerialStep DEF CommitRestore
<1> QED
  BY <1>1, <1>2, <1>3, <1>4, <1>5 DEF RestoreCall

\* A catalog screen writes the status that fits the stock there is.
LEMMA SerialCatalogCall ==
  ASSUME Always, SerialOK, NEW h \in Calls, Running \subseteq {h}, CatalogCall(h)
  PROVE  SerialOK'
<1>0. /\ IInv /\ SerialFits(h)
      /\ call \in [Calls -> CallRow] /\ call[h] \in CallRow
      /\ product \in [Products -> ProductRow]
  BY DEF Always, IInv, TypeOK, SerialOK
<1>1. ASSUME NEW pc \in {"publish", "edit"}, NEW p \in Products, NEW form,
             form.stock \subseteq Restocks, CatalogReads(h, pc, p, form)
      PROVE  SerialOK'
  <2>1. /\ call'[h] = [NoLocals(h, pc) EXCEPT !.product = product, !.target = {p}, !.form = form]
        /\ \A g \in Calls \ {h} : call'[g] = call[g]
    BY <1>0, <1>1 DEF CatalogReads
  <2>2. /\ call'[h].pc = pc /\ call'[h].product = product
        /\ call'[h].target = {p} /\ call'[h].form = form
    BY <2>1 DEF NoLocals
  <2>3. SerialFits(h)'
    BY <1>1, <2>2 DEF CatalogReads, SerialFits, CheckingOut, Restoring, SerialOK, ProductsHonest
  <2> QED BY <1>1, <2>1, <2>3, SerialStep, QuietStep DEF CatalogReads
<1>2. ASSUME NEW p \in Products, PublishReads(h, p)
      PROVE  SerialOK'
  <2>1. NoForm.stock \subseteq Restocks
    BY DEF NoForm
  <2> QED BY <1>1, <1>2, <2>1 DEF PublishReads
<1>3. ASSUME NEW p \in Products, NEW stock \in Values(Restocks),
             NEW status \in Values(ProductStatus),
             EditReads(h, p, [stock |-> stock, status |-> status])
      PROVE  SerialOK'
  <2>1. [stock |-> stock, status |-> status].stock \subseteq Restocks
    BY DEF Values
  <2> QED BY <1>1, <1>3, <2>1 DEF EditReads
<1>4. ASSUME Ends(h), UNCHANGED <<cart, order>>, ProductsHonest'
      PROVE  SerialOK'
  <2>1. OneOrderPerCart' /\ OneRowPerSku'
    BY <1>4 DEF SerialOK, OneOrderPerCart, OneRowPerSku
  <2> QED BY <1>0, <1>4, <2>1, EndFits, EndedCall, SerialStep
<1>5. CASE PublishWrites(h)
  <2>1. call[h].product = product
    BY <1>0, <1>5 DEF PublishWrites, At, SerialFits
  <2>2. ASSUME NEW p \in Products PROVE Honest(product'[p])
    <3>1. CASE p \in call[h].target
      <4>1. product'[p] = [product[p] EXCEPT !.status = StatusForStock(product[p].stock)]
        BY <1>5, <2>1, <3>1 DEF PublishWrites
      <4>2. /\ product'[p].stock = product[p].stock
            /\ product'[p].status = StatusForStock(product[p].stock)
        BY <1>0, <4>1 DEF ProductRow
      <4> QED BY <4>2 DEF Honest, StatusForStock
    <3>2. CASE p \notin call[h].target
      BY <1>5, <3>2 DEF PublishWrites, SerialOK, ProductsHonest
    <3> QED BY <3>1, <3>2
  <2> QED BY <1>4, <1>5, <2>2 DEF PublishWrites, ProductsHonest
<1>6. CASE EditWrites(h)
  <2> DEFINE form == call[h].form
  <2>1. call[h].product = product
    BY <1>0, <1>6 DEF EditWrites, At, SerialFits
  <2>2. form.stock \subseteq Nat
    BY <1>0 DEF CallRow, Forms
  <2>3. ASSUME NEW row \in ProductRow, Honest(row)
        PROVE  Honest(EditedProduct(row, row, form))
    <3> DEFINE stock == Entered(form.stock, row.stock)
               status == Entered(form.status, row.status)
    <3>1. EditedProduct(row, row, form).stock = stock
          /\ EditedProduct(row, row, form).status = NormalizeProductStatus(status, stock)
      BY DEF EditedProduct
    <3>2. stock \in Int
      BY <2>2, <2>3, EnteredOK DEF ProductRow
    <3> HIDE DEF stock, status
    <3> QED BY <3>1, <3>2 DEF NormalizeProductStatus, Honest
  <2>4. \A p \in Products :
          product'[p] = IF p \in call[h].target THEN EditedProduct(product[p], product[p], form)
                        ELSE product[p]
    BY <1>6, <2>1 DEF EditWrites
  <2>5. ProductsHonest'
    BY <1>0, <2>3, <2>4 DEF SerialOK, ProductsHonest
  <2> QED BY <1>4, <1>6, <2>5 DEF EditWrites
<1>7. ASSUME NEW p \in Products, NEW status \in {"INACTIVE", "ARCHIVED"},
             Withdraw(h, p, status)
      PROVE  SerialOK'
  <2>1. \A q \in Products :
          product'[q] = IF q = p THEN [product[q] EXCEPT !.status = status] ELSE product[q]
    BY <1>0, <1>7 DEF Withdraw
  <2>2. \A q \in Products : product'[q] = product[q] \/ product'[q].status = status
    BY <1>0, <2>1 DEF ProductRow
  <2>3. ProductsHonest'
    BY <2>2 DEF SerialOK, ProductsHonest, Honest
  <2> QED BY <1>4, <1>7, <2>3 DEF Withdraw
<1> QED
  BY <1>2, <1>3, <1>5, <1>6, <1>7 DEF CatalogCall

\* At first nothing is sold and nothing runs.
LEMMA InitSerial == Init => SerialOK
<1> SUFFICES ASSUME Init PROVE SerialOK
  OBVIOUS
<1>1. \A h \in Calls :
        call[h].pc = "idle" /\ \A p \in Products : Honest(call[h].product[p])
  BY DEF Init, NoLocals, Honest
<1>2. Running = {} /\ \A h \in Calls : SerialFits(h)
  BY <1>1 DEF Running, SerialFits, CheckingOut, Restoring
<1>3. ProductsHonest
  BY DEF Init, ProductsHonest, Honest
<1>4. OneOrderPerCart /\ OneRowPerSku
  BY DEF Init, OneOrderPerCart, OneRowPerSku
<1> QED BY <1>2, <1>3, <1>4 DEF SerialOK

\* Every step of requests that do not overlap keeps all invariants.
LEMMA NextSerial ==
  Always /\ SerialOK /\ [SerialNext]_vars => Always' /\ SerialOK'
<1>1. ASSUME Always, SerialNext PROVE Always'
  BY <1>1, NextCarts DEF SerialNext, Next, Always
<1>2. ASSUME Always, SerialOK, SerialNext PROVE SerialOK'
  BY <1>2, SerialCartCall, SerialCheckoutCall, SerialRestoreCall, SerialCatalogCall
  DEF SerialNext, Step
<1>3. ASSUME Always, SerialOK, UNCHANGED vars PROVE Always' /\ SerialOK'
  <2>1. Always'
    BY <1>3, NextCarts DEF Always
  <2>2. SerialOK'
    BY <1>3 DEF vars, SerialOK, ProductsHonest, OneOrderPerCart, OneRowPerSku, SerialFits, Running
  <2> QED BY <2>1, <2>2
<1> QED BY <1>1, <1>2, <1>3

\* The invariants of requests that do not overlap.
LEMMA AlwaysSerial == SerialSpec => [](Always /\ SerialOK)
<1>1. Init => Always /\ SerialOK
  BY InitIInv, InitCarts, InitSerial DEF Always
<1> QED BY <1>1, NextSerial, PTL DEF SerialSpec

\* When requests do not overlap a cart becomes one order, what is offered has
\* stock, and carts and orders have one row of a product even where no unique
\* index binds them.
THEOREM SoldOnce == SerialSpec => [](NothingIsSoldTwice /\ CartsHold)
<1>1. Always /\ SerialOK => NothingIsSoldTwice /\ CartsHold
  BY DEF Always, CartsOK, SerialOK, NothingIsSoldTwice, ProductsHonest, Honest, ActiveHasStock,
     CartsHold
<1> QED BY <1>1, AlwaysSerial, PTL

\* A step that puts a withdrawn product back is a catalog screen's.
LEMMA OnlyTheStoreReopens ==
  ASSUME Always, SerialOK, NEW h \in Calls, Running \subseteq {h}, Step(h),
         NEW p \in Products, product[p].status \in Withdrawn, product'[p].status \notin Withdrawn
  PROVE  call[h].pc \in {"publish", "edit"} /\ call'[h].pc = "done"
<1>0. /\ IInv /\ SerialFits(h)
      /\ call[h] \in CallRow
      /\ product \in [Products -> ProductRow]
  BY DEF Always, IInv, TypeOK, SerialOK
<1>1. product' # product
  OBVIOUS
<1>2. ~CartCall(h)
  BY <1>1 DEF CartCall, AddItem, UpdateItem, RemoveItem, ClearCart, CreateRow, UpdateRow,
     DeleteRow, DeleteAllRows
<1>3. ASSUME CheckoutCall(h) PROVE FALSE
  <2>1. CommitCheckout(h)
    BY <1>1, <1>3 DEF CheckoutCall, CheckoutReadsCart, CheckoutReadsProducts, CheckoutReadsVariants
  <2>2. PICK last : product' = StockAfter(h, last)
    BY <2>1 DEF CommitCheckout
  <2>3. p \in ProductsOf(call[h].rows)
    BY <2>2 DEF StockAfter
  <2>4. product[p].status = "ACTIVE"
    BY <1>0, <2>1, <2>3 DEF CommitCheckout, At, SerialFits, ProductsOf
  <2> QED BY <2>4 DEF Withdrawn
<1>4. ASSUME RestoreCall(h) PROVE FALSE
  <2>1. CommitRestore(h)
    BY <1>1, <1>4 DEF RestoreCall, BeginRestore, RestoreReadsRow, RestoreWritesRow, RestoreAborts
  <2>2. p \in call[h].target /\ product'[p] = call[h].product[p]
    BY <2>1 DEF CommitRestore
  <2>3. product[p].status \in Withdrawn => call[h].product[p].status \in Withdrawn
    BY <1>0, <2>1, <2>2 DEF CommitRestore, At, SerialFits, Restoring
  <2> QED BY <2>2, <2>3
<1>5. ASSUME CatalogCall(h), ~PublishWrites(h), ~EditWrites(h) PROVE FALSE
  <2>1. PICK q \in Products, status \in Withdrawn : Withdraw(h, q, status)
    BY <1>1, <1>5 DEF CatalogCall, PublishReads, EditReads, CatalogReads, Withdrawn
  <2>2. product'[p] = product[p] \/ product'[p].status = status
    BY <1>0, <2>1 DEF Withdraw, ProductRow
  <2> QED BY <2>1, <2>2
<1>6. PublishWrites(h) \/ EditWrites(h)
  BY <1>2, <1>3, <1>4, <1>5 DEF Step
<1>7. Ends(h) /\ call[h].pc \in {"publish", "edit"}
  BY <1>6 DEF PublishWrites, EditWrites, At
<1> QED BY <1>0, <1>7, EndedCall

\* When requests do not overlap, a product the store has withdrawn comes back
\* only when one of its screens publishes or edits it.
THEOREM WithdrawnIsKept == SerialSpec => WithdrawnStaysWithdrawn
<1> DEFINE Kept ==
      \A p \in Products :
        /\ product[p].status \in {"INACTIVE", "ARCHIVED"}
        /\ product'[p].status \notin {"INACTIVE", "ARCHIVED"}
        => \E h \in Calls : call[h].pc \in {"publish", "edit"} /\ call'[h].pc = "done"
<1>1. ASSUME Always, SerialOK, SerialNext PROVE Kept
  BY <1>1, OnlyTheStoreReopens DEF SerialNext, Withdrawn
<1>2. Always /\ SerialOK /\ [SerialNext]_vars => [Kept]_vars
  BY <1>1
<1> HIDE DEF Kept
<1>3. SerialSpec => [][Kept]_vars
  BY <1>2, AlwaysSerial, PTL DEF SerialSpec
<1> QED BY <1>3 DEF WithdrawnStaysWithdrawn, Kept

-------------------------------------------------------------------------------
(* The refinement: requests that do not overlap, on products sold as one    *)
(* sku, implement Warehouse.                                               *)

\* The sum over nothing. The recursive function that computes a sum over S is
\* defined on the subsets of S, so a witness for it is easily given here.
LEMMA SumEmpty ==
  ASSUME NEW f
  PROVE  SumFunctionOnSet(f, {}) = 0
<1> DEFINE Turn(g, s) == IF s = {} THEN 0
                         ELSE LET x == CHOOSE x \in s : TRUE IN f[x] + g[s \ {x}]
           iter == CHOOSE g : g = [s \in SUBSET {} |-> Turn(g, s)]
           w == [s \in SUBSET {} |-> 0]
<1>1. w = [s \in SUBSET {} |-> Turn(w, s)]
  OBVIOUS
<1>2. iter = [s \in SUBSET {} |-> Turn(iter, s)]
  BY <1>1
<1>3. iter[{}] = 0
  BY <1>2
<1>4. SumFunctionOnSet(f, {}) = iter[{}]
  BY DEF SumFunctionOnSet, FoldFunctionOnSet, MapThenFoldSet
<1> QED BY <1>3, <1>4

\* The sum over one element.
LEMMA SumOne ==
  ASSUME NEW f, NEW r, f[r] \in Int
  PROVE  SumFunctionOnSet(f, {r}) = f[r]
<1> DEFINE Turn(g, s) == IF s = {} THEN 0
                         ELSE LET x == CHOOSE x \in s : TRUE IN f[x] + g[s \ {x}]
           iter == CHOOSE g : g = [s \in SUBSET {r} |-> Turn(g, s)]
           w == [s \in SUBSET {r} |-> IF s = {} THEN 0 ELSE f[r]]
<1>1. w = [s \in SUBSET {r} |-> Turn(w, s)]
  <2>1. ASSUME NEW s \in SUBSET {r} PROVE w[s] = Turn(w, s)
    <3>1. CASE s = {} BY <3>1
    <3>2. CASE s = {r}
      <4>1. (CHOOSE x \in s : TRUE) = r
        BY <3>2
      <4>2. s \ {r} = {} /\ s # {}
        BY <3>2
      <4>3. w[{}] = 0 /\ w[s] = f[r]
        BY <4>2
      <4> HIDE DEF w
      <4> QED BY <4>1, <4>2, <4>3
    <3> QED BY <3>1, <3>2
  <2> QED BY <2>1
<1> HIDE DEF w
<1>2. iter = [s \in SUBSET {r} |-> Turn(iter, s)]
  BY <1>1
<1>3. iter[{r}] = f[r]
  <2>1. iter[{}] = 0
    BY <1>2
  <2>2. (CHOOSE x \in {r} : TRUE) = r /\ {r} \ {r} = {} /\ {r} # {}
    OBVIOUS
  <2> HIDE DEF iter
  <2>3. iter[{r}] = Turn(iter, {r})
    BY <1>2
  <2>4. Turn(iter, {r}) = f[r] + iter[{r} \ {r}]
    BY <2>2
  <2>5. iter[{r} \ {r}] = 0
    BY <2>1, <2>2
  <2> HIDE DEF Turn
  <2> QED BY <2>3, <2>4, <2>5
<1>4. SumFunctionOnSet(f, {r}) = iter[{r}]
  BY DEF SumFunctionOnSet, FoldFunctionOnSet, MapThenFoldSet
<1> QED BY <1>3, <1>4

\* No two skus share a product's stock.
SoldAsOne == \A s, t \in Skus : Parent[s] = Parent[t] => s = t

\* So it is when nothing is sold in variants.
LEMMA PlainIsSoldAsOne ==
  ASSUME Variants = {}
  PROVE  SoldAsOne
BY CheckoutAssumption DEF SoldAsOne

\* What rows hold of the product of one of them.
LEMMA OrderedRow ==
  ASSUME SoldAsOne, NEW rows \in SUBSET ItemRow, OnePerSku(rows), NEW r \in rows
  PROVE  Ordered(rows, Parent[r.sku]) = r.quantity
<1> DEFINE p == Parent[r.sku]
           f == [q \in rows |-> q.quantity]
<1>1. {q \in rows : Parent[q.sku] = p} = {r}
  BY DEF SoldAsOne, OnePerSku, ItemRow
<1>2. f[r] = r.quantity /\ f[r] \in Int
  BY DEF ItemRow
<1> HIDE DEF f
<1>3. SumFunctionOnSet(f, {r}) = f[r]
  BY <1>2, SumOne
<1>4. Ordered(rows, p) = SumFunctionOnSet(f, {r})
  BY <1>1 DEF Ordered, f
<1> QED BY <1>2, <1>3, <1>4

\* What rows hold of a product none of them names.
LEMMA OrderedNone ==
  ASSUME NEW rows, NEW p, p \notin ProductsOf(rows)
  PROVE  Ordered(rows, p) = 0
<1>1. {r \in rows : Parent[r.sku] = p} = {}
  BY DEF ProductsOf
<1> QED BY <1>1, SumEmpty DEF Ordered

\* A restore has added the quantities of the rows it is done with, and of no
\* other.
RestoreFits(h) ==
  LET mine == call[h]
      held == order[mine.order].rows IN
  mine.pc \in Restoring =>
    /\ mine.rows \subseteq held
    /\ mine.target = ProductsOf(held \ mine.rows)
    /\ \A r \in held \ mine.rows :
         mine.product[Parent[r.sku]].stock = product[Parent[r.sku]].stock + r.quantity
    /\ mine.pc = "restoreRow" => mine.now \subseteq mine.rows

PlainOK == \A h \in Calls : RestoreFits(h)

\* A step after which the one running request is not restoring.
LEMMA PlainStep ==
  ASSUME NEW h \in Calls, Running \subseteq {h},
         \A g \in Calls \ {h} : call'[g] = call[g], RestoreFits(h)'
  PROVE  PlainOK'
<1>1. ASSUME NEW g \in Calls \ {h} PROVE RestoreFits(g)'
  <2>1. call'[g].pc \in {"idle", "done"}
    BY DEF Running
  <2> QED BY <2>1 DEF RestoreFits, Restoring
<1> QED BY <1>1 DEF PlainOK

\* Restores keep account of what they have added.
LEMMA PlainRestoreCall ==
  ASSUME SoldAsOne, Always, SerialOK, PlainOK, NEW h \in Calls, Running \subseteq {h},
         RestoreCall(h)
  PROVE  PlainOK'
<1>0. /\ IInv /\ SerialFits(h) /\ RestoreFits(h)
      /\ call \in [Calls -> CallRow] /\ call[h] \in CallRow
      /\ \A o \in Calls : order[o].rows \subseteq ItemRow /\ OnePerSku(order[o].rows)
      /\ product \in [Products -> ProductRow]
  BY DEF Always, IInv, TypeOK, SerialOK, PlainOK, OrderRow, OneRowPerSku, OnePerSku
<1>1. ASSUME NEW o \in Calls, BeginRestore(h, o)
      PROVE  PlainOK'
  <2>1. /\ call'[h] = [NoLocals(h, "restore") EXCEPT !.order = o, !.rows = order[o].rows]
        /\ \A g \in Calls \ {h} : call'[g] = call[g]
    BY <1>0, <1>1 DEF BeginRestore, IInv, TypeOK
  <2>2. /\ call'[h].pc = "restore" /\ call'[h].order = o /\ call'[h].target = {}
        /\ call'[h].rows = order[o].rows
    BY <2>1 DEF NoLocals
  <2>3. RestoreFits(h)'
    BY <1>1, <2>2 DEF BeginRestore, RestoreFits, ProductsOf
  <2> QED BY <2>1, <2>3, PlainStep
<1> DEFINE mine == call[h]
           held == order[mine.order].rows
<1>2. /\ mine.order \in Calls /\ held \subseteq ItemRow /\ OnePerSku(held)
      /\ mine.product \in [Products -> ProductRow]
  BY <1>0 DEF CallRow
<1>3. \A r \in held : Parent[r.sku] \in Products /\ r.quantity \in Nat
  BY <1>2 DEF ItemRow
<1>4. ASSUME NEW r \in held, NEW q \in held, Parent[r.sku] = Parent[q.sku]
      PROVE  r = q
  <2>1. r.sku = q.sku
    BY <1>2, <1>4 DEF SoldAsOne, ItemRow
  <2> QED BY <1>2, <2>1 DEF OnePerSku
<1>5. mine.pc \in Restoring =>
        /\ mine.rows \subseteq held
        /\ mine.target = ProductsOf(held \ mine.rows)
        /\ \A r \in held \ mine.rows :
             mine.product[Parent[r.sku]].stock = product[Parent[r.sku]].stock + r.quantity
        /\ mine.pc = "restoreRow" => mine.now \subseteq mine.rows
  BY <1>0 DEF RestoreFits
<1>6. ASSUME NEW r \in mine.rows, RestoreReadsRow(h, r)
      PROVE  PlainOK'
  <2> DEFINE p == Parent[r.sku]
             now == call'[h]
  <2>1. now = AfterReading(h, r) /\ \A g \in Calls \ {h} : call'[g] = call[g]
    BY <1>0, <1>6 DEF RestoreReadsRow
  <2>2. /\ now.pc = "restoreRow" /\ now.order = mine.order /\ now.target = mine.target
        /\ now.now = {r} /\ now.rows = mine.rows
        /\ now.product = IF p \in mine.target THEN mine.product
                         ELSE [mine.product EXCEPT ![p] = product[p]]
    BY <1>0, <2>1 DEF AfterReading, CallRow
  <2>3. mine.pc \in Restoring
    BY <1>6 DEF RestoreReadsRow, At, Restoring
  <2>4. order' = order /\ product' = product
    BY <1>6 DEF RestoreReadsRow
  <2> HIDE DEF p, now, mine, held
  <2>5. \A q \in held \ mine.rows : Parent[q.sku] \in mine.target
    BY <1>5, <2>3 DEF ProductsOf
  <2>6. \A q \in held \ mine.rows : now.product[Parent[q.sku]] = mine.product[Parent[q.sku]]
    BY <1>2, <1>3, <2>2, <2>5
  <2>7. RestoreFits(h)'
    BY <1>5, <2>2, <2>3, <2>4, <2>6 DEF RestoreFits, now, held
  <2> QED BY <2>1, <2>7, PlainStep
<1>7. CASE RestoreWritesRow(h)
  <2>1. PICK r \in mine.now : call' = [call EXCEPT ![h] = AfterWriting(h, r)]
    BY <1>7 DEF RestoreWritesRow
  <2> DEFINE p == Parent[r.sku]
             now == call'[h]
             restored == RestoredProduct(mine.product[p], r.quantity)
  <2>2. now = AfterWriting(h, r) /\ \A g \in Calls \ {h} : call'[g] = call[g]
    BY <1>0, <2>1
  <2>3. /\ now.pc = "restore" /\ now.order = mine.order
        /\ now.target = mine.target \cup {p} /\ now.rows = mine.rows \ {r}
        /\ now.product = [mine.product EXCEPT ![p] = restored]
    BY <1>0, <2>2 DEF AfterWriting, CallRow
  <2>4. mine.pc \in Restoring /\ mine.pc = "restoreRow"
    BY <1>7 DEF RestoreWritesRow, At, Restoring
  <2>5. order' = order /\ product' = product
    BY <1>7 DEF RestoreWritesRow
  <2>6. p \in mine.target \/ mine.product[p] = product[p]
    BY <1>0, <2>4 DEF SerialFits
  <2>7. restored.stock = mine.product[p].stock + r.quantity
    BY DEF RestoredProduct
  <2> HIDE DEF p, now, mine, held, restored
  <2>8. r \in mine.rows /\ r \in held
    BY <1>5, <2>1, <2>4
  <2>9. \A q \in held \ mine.rows : Parent[q.sku] # p
    BY <1>4, <2>8 DEF p
  <2>10. mine.product[p] = product[p]
    BY <1>5, <2>4, <2>6, <2>9 DEF ProductsOf
  <2>11. held \ now.rows = (held \ mine.rows) \cup {r}
    BY <2>3, <2>8
  <2>12. now.target = ProductsOf(held \ now.rows)
    BY <1>5, <2>3, <2>4, <2>11 DEF ProductsOf, p
  <2>13. ASSUME NEW q \in held \ now.rows
         PROVE  now.product[Parent[q.sku]].stock = product[Parent[q.sku]].stock + q.quantity
    <3>1. CASE q = r
      BY <1>2, <1>3, <2>3, <2>7, <2>8, <2>10, <3>1 DEF p
    <3>2. CASE q \in held \ mine.rows
      BY <1>2, <1>3, <1>5, <2>3, <2>4, <2>8, <2>9, <3>2
    <3> QED BY <2>11, <3>1, <3>2
  <2>14. RestoreFits(h)'
    BY <1>5, <2>3, <2>4, <2>5, <2>12, <2>13 DEF RestoreFits, now, held
  <2> QED BY <2>2, <2>14, PlainStep
<1>8. ASSUME Ends(h) PROVE PlainOK'
  BY <1>0, <1>8, EndedCall, PlainStep DEF RestoreFits, Restoring
<1> QED
  BY <1>1, <1>6, <1>7, <1>8 DEF RestoreCall, RestoreAborts, CommitRestore

\* The other requests restore nothing.
LEMMA PlainOtherCall ==
  ASSUME Always, PlainOK, NEW h \in Calls, Running \subseteq {h},
         CartCall(h) \/ CheckoutCall(h) \/ CatalogCall(h)
  PROVE  PlainOK'
<1>0. IInv /\ call \in [Calls -> CallRow]
  BY DEF Always, IInv, TypeOK
<1>1. ASSUME NEW row, row.pc \notin Restoring, call' = [call EXCEPT ![h] = row]
      PROVE  PlainOK'
  BY <1>0, <1>1, PlainStep DEF RestoreFits
<1>2. ASSUME NEW pc \in Steps \ Restoring, NEW c, NEW rows, HoldsRows(h, pc, c, rows)
      PROVE  PlainOK'
  <2>1. call'[h].pc \notin Restoring /\ \A g \in Calls \ {h} : call'[g] = call[g]
    BY <1>0, <1>2, HeldRows
  <2>2. RestoreFits(h)'
    BY <2>1 DEF RestoreFits
  <2> QED BY <2>1, <2>2, PlainStep
<1>3. ASSUME Ends(h) PROVE PlainOK'
  BY <1>0, <1>3, EndedCall, PlainStep DEF RestoreFits, Restoring
<1>4. {"create", "update", "delete", "clear", "readProducts"} \subseteq Steps \ Restoring
  BY DEF Steps, Restoring
<1>5. CASE CartCall(h)
  BY <1>2, <1>3, <1>4, <1>5 DEF CartCall, AddItem, UpdateItem, RemoveItem, ClearCart,
     CreateRow, UpdateRow, DeleteRow, DeleteAllRows
<1>6. CASE CheckoutCall(h)
  <2>1. ASSUME NEW c \in Carts, CheckoutReadsCart(h, c) PROVE PlainOK'
    BY <1>2, <1>4, <2>1 DEF CheckoutReadsCart
  <2>2. [call[h] EXCEPT !.pc = "readVariants", !.product = product].pc \notin Restoring
    BY <1>0 DEF CallRow, Restoring
  <2>3. [call[h] EXCEPT !.pc = "commit", !.variant = variant].pc \notin Restoring
    BY <1>0 DEF CallRow, Restoring
  <2>4. CASE CheckoutReadsProducts(h)
    BY <1>1, <2>2, <2>4 DEF CheckoutReadsProducts
  <2>5. CASE CheckoutReadsVariants(h)
    BY <1>1, <1>3, <2>3, <2>5 DEF CheckoutReadsVariants
  <2> QED BY <1>3, <1>6, <2>1, <2>4, <2>5 DEF CheckoutCall, CommitCheckout
<1>7. CASE CatalogCall(h)
  <2>1. ASSUME NEW pc \in {"publish", "edit"}, NEW p, NEW form, CatalogReads(h, pc, p, form)
        PROVE  PlainOK'
    <3> DEFINE row == [NoLocals(h, pc) EXCEPT !.product = product, !.target = {p}, !.form = form]
    <3>1. row.pc \notin Restoring
      BY DEF NoLocals, Restoring
    <3>2. call' = [call EXCEPT ![h] = row]
      BY <2>1 DEF CatalogReads
    <3> HIDE DEF row
    <3> QED BY <1>1, <3>1, <3>2
  <2> QED
    BY <1>3, <1>7, <2>1 DEF CatalogCall, PublishReads, EditReads, PublishWrites, EditWrites,
       Withdraw
<1> QED
  BY <1>5, <1>6, <1>7

\* What an order holds, as the abstract specification sees it.
LEMMA HeldIs ==
  ASSUME NEW o \in Calls
  PROVE  /\ order[o].status = "OPEN" =>
              Held(o) = [p \in Products |-> Ordered(order[o].rows, p)]
         /\ order[o].status # "OPEN" => Held(o) = Stock!Nothing
BY DEF Held, Stock!Nothing

\* A step that sells nothing, gives nothing back and counts nothing.
LEMMA Stutter ==
  ASSUME \A p \in Products : product'[p].stock = product[p].stock,
         \A o \in Calls : Held(o)' = Held(o)
  PROVE  UNCHANGED Stock!vars
BY DEF Stock!vars

\* The holdings of orders that do not change.
LEMMA SameHeld ==
  ASSUME NEW o \in Calls, order'[o] = order[o]
  PROVE  Held(o)' = Held(o)
BY DEF Held

\* A checkout reserves what it sells.
LEMMA CommitReserves ==
  ASSUME SoldAsOne, Always, SerialOK, NEW h \in Calls, CommitCheckout(h)
  PROVE  Stock!Reserve(h)
<1> DEFINE rows == call[h].rows
<1>0. /\ IInv /\ SerialFits(h) /\ rows \in SUBSET ItemRow
      /\ order \in [Calls -> OrderRow]
      /\ product \in [Products -> ProductRow]
  BY DEF Always, IInv, TypeOK, SerialOK, CallRow
<1>1. call[h].product = product /\ OnePerSku(rows) /\ order[h].status = "NONE"
  BY <1>0 DEF CommitCheckout, At, SerialFits, Always, CartsOK, CallFits, CheckingOut
<1>2. \A r \in rows : product[Parent[r.sku]].stock >= r.quantity
  BY <1>0, <1>1 DEF CommitCheckout, IInv, SnapshotsOK
<1>3. /\ order'[h].status = "OPEN" /\ order'[h].rows = rows
      /\ \A o \in Calls \ {h} : order'[o] = order[o]
  BY <1>0 DEF CommitCheckout
<1>4. PICK last \in LastOfProduct(rows) : product' = StockAfter(h, last)
  BY DEF CommitCheckout
<1>5. \A p \in ProductsOf(rows) : last[p] \in rows /\ Parent[last[p].sku] = p
  BY <1>4 DEF LastOfProduct
<1>6. \A p \in Products :
        product'[p].stock = IF p \in ProductsOf(rows) THEN product[p].stock - last[p].quantity
                            ELSE product[p].stock
  BY <1>1, <1>4 DEF StockAfter
<1> HIDE DEF rows
<1>7. \A p \in ProductsOf(rows) : Ordered(rows, p) = last[p].quantity
  BY <1>0, <1>1, <1>5, OrderedRow
<1>8. \A p \in Products \ ProductsOf(rows) : Ordered(rows, p) = 0
  BY OrderedNone
<1>9. ASSUME NEW p \in Products
      PROVE  /\ Ordered(rows, p) \in 0..product[p].stock
             /\ product'[p].stock = product[p].stock - Ordered(rows, p)
  <2>1. product[p].stock \in Int /\ product[p].stock >= 0
    BY <1>0 DEF IInv, NonNegative, ProductRow
  <2>2. CASE p \in ProductsOf(rows)
    <3>1. last[p].quantity \in Nat /\ product[p].stock >= last[p].quantity
      BY <1>0, <1>2, <1>5, <2>2 DEF ItemRow
    <3> QED BY <1>6, <1>7, <2>1, <2>2, <3>1
  <2>3. CASE p \notin ProductsOf(rows)
    BY <1>6, <1>8, <2>1, <2>3
  <2> QED BY <2>2, <2>3
<1>10. Held(h) = Stock!Nothing
  BY <1>1, HeldIs
<1>11. Held(h)' = [p \in Products |-> Ordered(rows, p)]
  BY <1>3 DEF Held
<1>12. \A o \in Calls \ {h} : Held(o)' = Held(o)
  BY <1>3, SameHeld
<1>13. Stock!OthersKeepClaims(h)
  BY <1>12 DEF Stock!OthersKeepClaims
<1> QED
  BY <1>9, <1>10, <1>11, <1>13 DEF Stock!Reserve

\* A restore that commits releases what its order holds.
LEMMA CommitReleases ==
  ASSUME SoldAsOne, Always, SerialOK, PlainOK, NEW h \in Calls, CommitRestore(h)
  PROVE  \E o \in Calls : Stock!Release(o)
<1>1. PICK o \in Calls : o = call[h].order
  BY DEF Always, IInv, TypeOK, CallRow
<1> DEFINE mine == call[h]
           held == order[o].rows
<1>2. /\ IInv /\ SerialFits(h) /\ RestoreFits(h)
      /\ mine.pc \in Restoring /\ mine.rows = {}
      /\ order \in [Calls -> OrderRow]
      /\ product \in [Products -> ProductRow]
      /\ mine.product \in [Products -> ProductRow]
  BY DEF Always, IInv, TypeOK, SerialOK, PlainOK, CallRow, CommitRestore, At, Restoring
<1>3. order[o].status = "OPEN" /\ held \in SUBSET ItemRow /\ OnePerSku(held)
  BY <1>2, <1>1 DEF SerialFits, SerialOK, OneRowPerSku, OnePerSku, OrderRow
<1>4. /\ mine.target = ProductsOf(held)
      /\ \A r \in held :
           mine.product[Parent[r.sku]].stock = product[Parent[r.sku]].stock + r.quantity
  BY <1>2, <1>1 DEF RestoreFits
<1>5. \A p \in Products :
        product'[p] = IF p \in mine.target THEN mine.product[p] ELSE product[p]
  BY DEF CommitRestore
<1>6. /\ order'[o].status = "CLOSED"
      /\ \A q \in Calls \ {o} : order'[q] = order[q]
  BY <1>2, <1>1 DEF CommitRestore, OrderRow
<1> HIDE DEF mine, held
<1>7. ASSUME NEW p \in Products
      PROVE  product'[p].stock = product[p].stock + Ordered(held, p)
  <2>1. CASE p \in ProductsOf(held)
    <3>1. PICK r \in held : Parent[r.sku] = p
      BY <2>1 DEF ProductsOf
    <3>2. Ordered(held, p) = r.quantity
      BY <1>3, <3>1, OrderedRow
    <3> QED BY <1>4, <1>5, <2>1, <3>1, <3>2
  <2>2. CASE p \notin ProductsOf(held)
    <3>1. product[p].stock \in Int
      BY <1>2 DEF ProductRow
    <3> QED BY <1>4, <1>5, <2>2, <3>1, OrderedNone
  <2> QED BY <2>1, <2>2
<1>8. Held(o) = [p \in Products |-> Ordered(held, p)]
  BY <1>3, HeldIs DEF held
<1>9. Held(o)' = Stock!Nothing
  BY <1>6 DEF Held, Stock!Nothing
<1>10. \A q \in Calls \ {o} : Held(q)' = Held(q)
  BY <1>6, SameHeld
<1>11. Stock!OthersKeepClaims(o)
  BY <1>10 DEF Stock!OthersKeepClaims
<1>12. Stock!Release(o)
  BY <1>2, <1>7, <1>8, <1>9, <1>11 DEF Stock!Release
<1> QED BY <1>12

\* An edit that enters a stock quantity counts one product anew.
LEMMA EditRecounts ==
  ASSUME Always, SerialOK, NEW h \in Calls, EditWrites(h)
  PROVE  (\E p \in Products : Stock!Recount(p)) \/ UNCHANGED Stock!vars
<1> DEFINE form == call[h].form
<1>0. SerialFits(h) /\ product \in [Products -> ProductRow]
  BY DEF Always, IInv, TypeOK, SerialOK
<1>1. PICK p \in Products : call[h].target = {p}
  BY <1>0 DEF EditWrites, At, SerialFits
<1>2. form.stock \subseteq Restocks
  BY <1>0 DEF EditWrites, At, SerialFits
<1>3. \A q \in Products :
        product'[q].stock = IF q = p THEN Entered(form.stock, product[q].stock)
                            ELSE product[q].stock
  BY <1>1 DEF EditWrites, EditedProduct
<1>4. \A o \in Calls : Held(o)' = Held(o)
  BY SameHeld DEF EditWrites
<1> HIDE DEF form
<1>5. CASE form.stock = {}
  BY <1>3, <1>4, <1>5, EnteredOK, Stutter
<1>6. CASE form.stock # {}
  <2>1. product'[p].stock \in Restocks
    BY <1>2, <1>3, <1>6, EnteredOK
  <2>2. Stock!Recount(p)
    BY <1>3, <1>4, <2>1 DEF Stock!Recount
  <2> QED BY <2>2
<1> QED BY <1>5, <1>6

\* Every step of requests that do not overlap is a step of the warehouse or
\* changes nothing in it.
LEMMA SerialStepRefines ==
  ASSUME SoldAsOne, Always, SerialOK, PlainOK, NEW h \in Calls, Step(h)
  PROVE  Stock!Next \/ UNCHANGED Stock!vars
<1>0. product \in [Products -> ProductRow]
  BY DEF Always, IInv, TypeOK, CallRow
<1>1. ASSUME \A p \in Products : product'[p].stock = product[p].stock, UNCHANGED order
      PROVE  UNCHANGED Stock!vars
  BY <1>1, SameHeld, Stutter
<1>2. CASE CartCall(h)
  BY <1>1, <1>2 DEF CartCall, AddItem, UpdateItem, RemoveItem, ClearCart, CreateRow, UpdateRow,
     DeleteRow, DeleteAllRows
<1>3. CASE CheckoutCall(h)
  <2>1. CASE CommitCheckout(h)
    BY <2>1, CommitReserves DEF Stock!Next
  <2> QED
    BY <1>1, <1>3, <2>1 DEF CheckoutCall, CheckoutReadsCart, CheckoutReadsProducts,
       CheckoutReadsVariants
<1>4. CASE RestoreCall(h)
  <2>1. CASE CommitRestore(h)
    BY <2>1, CommitReleases DEF Stock!Next
  <2> QED
    BY <1>1, <1>4, <2>1 DEF RestoreCall, BeginRestore, RestoreReadsRow, RestoreWritesRow,
       RestoreAborts
<1>5. CASE CatalogCall(h)
  <2>1. CASE EditWrites(h)
    BY <2>1, EditRecounts DEF Stock!Next
  <2>2. CASE PublishWrites(h)
    BY <1>0, <1>1, <2>2 DEF PublishWrites, ProductRow
  <2>3. ASSUME NEW p \in Products, NEW status, Withdraw(h, p, status)
        PROVE  UNCHANGED Stock!vars
    BY <1>0, <1>1, <2>3 DEF Withdraw, ProductRow
  <2> QED
    BY <1>1, <1>5, <2>1, <2>2, <2>3 DEF CatalogCall, PublishReads, EditReads, CatalogReads
<1> QED BY <1>2, <1>3, <1>4, <1>5 DEF Step

\* When requests do not overlap and no two skus share a product, an order takes
\* off the shelf what it holds, closing it gives exactly that back once, and
\* nothing else moves the stock but the store's own counts.
THEOREM WarehouseImplemented ==
  ASSUME SoldAsOne
  PROVE  SerialSpec => ImplementsWarehouse
<1>1. Init => PlainOK /\ Stock!Init
  <2> SUFFICES ASSUME Init PROVE PlainOK /\ Stock!Init
    OBVIOUS
  <2>1. PlainOK
    BY DEF Init, NoLocals, PlainOK, RestoreFits, Restoring
  <2>2. \A p \in Products : product[p].stock >= 0
    BY InitIInv DEF IInv, NonNegative
  <2>3. \A o \in Calls : Held(o) = Stock!Nothing
    BY HeldIs DEF Init
  <2> QED BY <2>1, <2>2, <2>3 DEF Stock!Init
<1>2. Always /\ SerialOK /\ PlainOK /\ [SerialNext]_vars => PlainOK' /\ [Stock!Next]_(Stock!vars)
  <2>1. ASSUME Always, SerialOK, PlainOK, SerialNext
        PROVE  PlainOK' /\ (Stock!Next \/ UNCHANGED Stock!vars)
    BY <2>1, PlainRestoreCall, PlainOtherCall, SerialStepRefines DEF SerialNext, Step
  <2>2. ASSUME PlainOK, UNCHANGED vars
        PROVE  PlainOK' /\ UNCHANGED Stock!vars
    <3>1. PlainOK'
      BY <2>2 DEF vars, PlainOK, RestoreFits
    <3>2. UNCHANGED Stock!vars
      BY <2>2, SameHeld, Stutter DEF vars
    <3> QED BY <3>1, <3>2
  <2> QED BY <2>1, <2>2
<1> QED
  BY <1>1, <1>2, AlwaysSerial, PTL DEF SerialSpec, ImplementsWarehouse, Stock!Spec
===============================================================================
