-------------------------------- MODULE Catalog --------------------------------
(***************************************************************************)
(* The merchant's side of one store's catalog, and the pages the public    *)
(* sees of it.  A request checks first and writes later, and requests of   *)
(* several editors overlap.  What a sale does to stock and status is in    *)
(* Checkout, and a product's images are in Gallery.                        *)
(***************************************************************************)
EXTENDS Integers, FiniteSets

CONSTANTS
  Products, Categories,
  Editors,        \* requests under way at the same time
  ProductInputs,  \* bodies of createProduct and updateProduct
  CategorySlugs,
  ReservedSlugs,  \* of products and of categories
  PageSize,
  Keep,           \* a field a body leaves out
  NoProduct, NoRow

Statuses == {"DRAFT", "ACTIVE", "OUT_OF_STOCK", "INACTIVE", "ARCHIVED"}

\* A row of Product; its number of birth tells which is newer.
ProductRow ==
  [slug : STRING, sku : STRING, price : Nat, compareAt : Nat, stock : Nat,
   status : Statuses, category : Categories \cup {"none"}, born : Nat]

\* What the schemas of the two requests let through.
ProductBody ==
  [slug : STRING \cup {Keep}, sku : STRING \cup {Keep}, price : Nat \cup {Keep},
   compareAt : Nat \cup {Keep}, stock : Nat \cup {Keep}, status : Statuses \cup {Keep},
   category : Categories \cup {"none", Keep}]

ASSUME CatalogAssumption ==
  /\ IsFiniteSet(Products) /\ NoProduct \notin Products
  /\ PageSize \in Nat \ {0}
  /\ ProductInputs \subseteq ProductBody
  /\ Keep \notin Nat \cup STRING \cup Statuses \cup Categories
  /\ NoRow \notin ProductRow

VARIABLES
  product,   \* Product rows, or NoRow
  category,  \* Category rows
  edit,      \* per editor, the request under way
  mixed      \* history: products written while another request held what it read of them

catalogVars == <<product, category, edit, mixed>>

NoCategory == [slug |-> "none", status |-> "none"]
NoEdit == [pc |-> "idle", of |-> NoProduct, fields |-> NoRow]

CatalogInit ==
  /\ product = [p \in Products |-> NoRow]
  /\ category = [g \in Categories |-> NoCategory]
  /\ edit = [e \in Editors |-> NoEdit]
  /\ mixed = {}

Listed == {p \in Products : product[p] # NoRow}
EditAt(e, pc) == edit[e].pc = pc
EditGoes(e, next) == edit' = [edit EXCEPT ![e] = next]

CatalogTypeOK ==
  /\ product \in [Products -> ProductRow \cup {NoRow}]
  /\ category \in [Categories ->
       [slug : CategorySlugs \cup {"none"}, status : {"none", "ACTIVE", "INACTIVE"}]]
  /\ edit \in [Editors ->
       [pc : {"idle", "create", "update"}, of : Products \cup {NoProduct},
        fields : ProductBody \cup {NoRow}]]
  /\ mixed \subseteq Products

-------------------------------------------------------------------------------
(* Categories *)

\* assertAllowedSlug and findCategoryBySlug; the unique index catches the rest.
CategorySlugFree(g, slug) ==
  /\ slug \notin ReservedSlugs
  /\ \A h \in Categories \ {g} : category[h].slug # slug

WriteCategory(g, row) ==
  /\ category' = [category EXCEPT ![g] = row]
  /\ category' # category
  /\ UNCHANGED <<product, edit, mixed>>

CreateCategory(g, slug) ==
  /\ category[g] = NoCategory
  /\ CategorySlugFree(g, slug)
  /\ WriteCategory(g, [slug |-> slug, status |-> "ACTIVE"])

UpdateCategory(g, slug, status) ==
  /\ category[g] # NoCategory
  /\ CategorySlugFree(g, slug)
  /\ WriteCategory(g, [slug |-> slug, status |-> status])

DeactivateCategory(g) ==
  /\ category[g] # NoCategory
  /\ WriteCategory(g, [category[g] EXCEPT !.status = "INACTIVE"])

-------------------------------------------------------------------------------
(* Products *)

SlugFree(p, slug) ==
  slug \notin ReservedSlugs /\ \A q \in Listed \ {p} : product[q].slug # slug

SkuFree(p, sku) == sku = "none" \/ \A q \in Listed \ {p} : product[q].sku # sku

CategoryExists(g) == g \in Categories => category[g] # NoCategory

\* A price to compare with is none, 0 here, or above the price.
CompareAtIsValid(price, compareAt) == compareAt = 0 \/ compareAt > price

NormalizedStatus(status, stock) ==
  IF status = "ACTIVE" /\ stock = 0 THEN "OUT_OF_STOCK" ELSE status

\* A body's field, or the row's when the body leaves it out.
Given(field, stored) == IF field = Keep THEN stored ELSE field

BeginCreateProduct(e, p, input) ==
  /\ EditAt(e, "idle")
  /\ product[p] = NoRow
  /\ \A o \in Editors : edit[o].of # p   \* a row of its own
  /\ Keep \notin {input[f] : f \in DOMAIN input}
  /\ CategoryExists(input.category)
  /\ SlugFree(p, input.slug) /\ SkuFree(p, input.sku)
  /\ CompareAtIsValid(input.price, input.compareAt)
  /\ EditGoes(e, [NoEdit EXCEPT !.pc = "create", !.of = p,
       !.fields = [input EXCEPT !.status = NormalizedStatus(@, input.stock)]])
  /\ UNCHANGED <<product, category, mixed>>

\* updateProduct computes the comparison price and the status from the row it
\* read, and will write both whether the body gives them or not.
BeginUpdateProduct(e, p, input) ==
  LET row == product[p]
      compareAt == Given(input.compareAt, row.compareAt) IN
  /\ EditAt(e, "idle")
  /\ row # NoRow
  /\ CategoryExists(input.category)
  /\ input.slug = Keep \/ SlugFree(p, input.slug)
  /\ input.sku = Keep \/ SkuFree(p, input.sku)
  /\ CompareAtIsValid(Given(input.price, row.price), compareAt)
  /\ EditGoes(e, [NoEdit EXCEPT !.pc = "update", !.of = p,
       !.fields = [input EXCEPT !.compareAt = compareAt,
         !.status = NormalizedStatus(Given(@, row.status), Given(input.stock, row.stock))]])
  /\ UNCHANGED <<product, category, mixed>>

\* publish, deactivate and archive write the status alone; publishing decides
\* it from the stock it read.
BeginSetStatus(e, p, status) ==
  /\ EditAt(e, "idle")
  /\ product[p] # NoRow
  /\ EditGoes(e, [NoEdit EXCEPT !.pc = "update", !.of = p,
       !.fields = [slug |-> Keep, sku |-> Keep, price |-> Keep, compareAt |-> Keep,
                   stock |-> Keep, category |-> Keep,
                   status |-> NormalizedStatus(status, product[p].stock)]])
  /\ UNCHANGED <<product, category, mixed>>

\* The unique indexes of slug and SKU: the statement fails.
Duplicate(p, row) ==
  \E q \in Listed \ {p} :
    product[q].slug = row.slug \/ (row.sku # "none" /\ product[q].sku = row.sku)

Merged(row, fields) == [f \in DOMAIN row |-> IF f = "born" THEN row.born
                                             ELSE Given(fields[f], row[f])]

WriteProduct(e) ==
  LET p == edit[e].of
      fields == edit[e].fields
      new == [f \in DOMAIN fields \cup {"born"} |->
                IF f = "born" THEN Cardinality(Listed) ELSE fields[f]]
      row == IF EditAt(e, "create") THEN new ELSE Merged(product[p], fields)
      others == {o \in Editors \ {e} : edit[o].of = p /\ EditAt(o, "update")} IN
  /\ edit[e].pc \in {"create", "update"}
  /\ IF Duplicate(p, row) THEN UNCHANGED <<product, mixed>>
     ELSE /\ product' = [product EXCEPT ![p] = row]
          /\ mixed' = IF others # {} THEN mixed \cup {p} ELSE mixed
  /\ EditGoes(e, NoEdit)
  /\ UNCHANGED category

-------------------------------------------------------------------------------
(* What the public sees *)

PublicCategories == {g \in Categories : category[g].status = "ACTIVE"}

\* listPublicProductsByStore and countPublicProductsByStore share their filter.
PublicProducts(g, collection) ==
  {p \in Listed :
     /\ product[p].status = "ACTIVE" /\ product[p].stock > 0
     /\ g # "none" => product[p].category = g
     /\ collection = "sale" => product[p].compareAt > 0}

\* The order of a page: by price, then the newest first.
Before(sort, p, q) ==
  LET newer == product[p].born > product[q].born IN
  CASE sort = "menor" -> \/ product[p].price < product[q].price
                         \/ product[p].price = product[q].price /\ newer
    [] sort = "maior" -> \/ product[p].price > product[q].price
                         \/ product[p].price = product[q].price /\ newer
    [] OTHER -> newer

TotalPages(items) == (items + PageSize - 1) \div PageSize

\* A page past the last one is the last one.
ClampedPage(page, pages) == IF pages = 0 THEN 1 ELSE IF page > pages THEN pages ELSE page

PageOf(sort, found, page) ==
  {p \in found :
     Cardinality({q \in found : Before(sort, q, p)}) \div PageSize
       = ClampedPage(page, TotalPages(Cardinality(found))) - 1}

\* The page a link asks for; its number is 1 when it names none that can be.
AskedPage(n) == IF n \in Nat \ {0} THEN n ELSE 1

\* The catalog's links to the pages around the one it shows.
PreviousPage(page) == AskedPage(page - 1)
NextPage(page, pages) == IF page + 1 > pages THEN pages ELSE page + 1

\* getPublicProduct: also what is out of stock has a page, and says so.
ProductPage(p) ==
  [shown |-> p \in Listed /\ product[p].status \in {"ACTIVE", "OUT_OF_STOCK"},
   canAdd |-> p \in Listed /\ product[p].status = "ACTIVE" /\ product[p].stock > 0]

-------------------------------------------------------------------------------
CatalogNext ==
  \/ \E g \in Categories :
       \/ DeactivateCategory(g)
       \/ \E slug \in CategorySlugs :
            \/ CreateCategory(g, slug)
            \/ \E status \in {"ACTIVE", "INACTIVE"} : UpdateCategory(g, slug, status)
  \/ \E e \in Editors :
       \/ WriteProduct(e)
       \/ \E p \in Products :
            \/ \E input \in ProductInputs :
                 BeginCreateProduct(e, p, input) \/ BeginUpdateProduct(e, p, input)
            \/ \E status \in {"ACTIVE", "INACTIVE", "ARCHIVED"} : BeginSetStatus(e, p, status)

CatalogSpec == CatalogInit /\ [][CatalogNext]_catalogVars

-------------------------------------------------------------------------------
\* A promotion is one: the price to compare with is above the price, unless two
\* requests wrote the product at once.
PromotionIsLower ==
  \A p \in Listed \ mixed : CompareAtIsValid(product[p].price, product[p].compareAt)

\* The pages of a listing hold each of its products once, none is over its size
\* and a number past the last shows the last; the links lead from each page to
\* the ones around it; each product there has a page that lets it be bought.
PagesCoverTheListing ==
  \A sort \in {"relevancia", "menor", "maior"}, g \in PublicCategories \cup {"none"},
     collection \in {"none", "sale"} :
    LET found == PublicProducts(g, collection)
        pages == TotalPages(Cardinality(found)) IN
    /\ found = UNION {PageOf(sort, found, n) : n \in 1..pages}
    /\ \A n \in 1..pages :
         /\ Cardinality(PageOf(sort, found, n)) \in 1..PageSize
         /\ \A m \in 1..(n - 1) : PageOf(sort, found, n) \cap PageOf(sort, found, m) = {}
    /\ PageOf(sort, found, pages + 1) = PageOf(sort, found, pages)
    /\ \A n \in 1..pages :
         /\ NextPage(n, pages) = ClampedPage(n + 1, pages)
         /\ n > 1 => NextPage(PreviousPage(n), pages) = n
    /\ \A p \in found : ProductPage(p).shown /\ ProductPage(p).canAdd
===============================================================================
