------------------------------ MODULE CartSessions ------------------------------
(***************************************************************************)
(* Which cart a shopper has: the active one of the browser's session, or   *)
(* else of the e-mail given, or else a new one.  Looking and creating are  *)
(* statements of their own, requests overlap, and a checkout closes a cart *)
(* with the items it read.  What the items do to stock is in Checkout.     *)
(***************************************************************************)
EXTENDS Naturals, Sequences, FiniteSets

CONSTANTS
  Sessions, Emails,
  Unnamed,    \* no session, or no e-mail
  Shoppers,   \* requests under way at the same time
  MostCarts,  \* bound of the carts
  MostPieces  \* bound of the items added

ASSUME CartSessionsAssumption ==
  /\ Unnamed \notin Sessions \cup Emails
  /\ {MostCarts, MostPieces} \subseteq Nat

VARIABLES
  carts,    \* Cart rows by age: only closing a cart changes its updatedAt
  visit,    \* requests under way
  pieces,   \* the items added so far
  added,    \* items of the requests answered with their cart
  ordered,  \* items of orders
  twinned,  \* history: sessions and e-mails two requests sought a cart for at once
  caught    \* history: items added to a cart while an order of it was being made

cartSessionsVars == <<carts, visit, pieces, added, ordered, twinned, caught>>

NoVisit == [pc |-> "idle", session |-> Unnamed, email |-> Unnamed, adds |-> FALSE,
            cart |-> 0, seen |-> {}]

CartSessionsTypeOK ==
  /\ carts \in Seq([session : Sessions \cup {Unnamed}, email : Emails \cup {Unnamed},
                    open : BOOLEAN, items : SUBSET (1..MostPieces)])
  /\ Len(carts) <= MostCarts
  /\ visit \in [Shoppers ->
       [pc : {"idle", "session", "email", "create", "add", "answer", "commit"},
        session : Sessions \cup {Unnamed}, email : Emails \cup {Unnamed},
        adds : BOOLEAN, cart : 0..MostCarts, seen : SUBSET (1..MostPieces)]]
  /\ pieces \in 0..MostPieces
  /\ added \cup ordered \cup caught \subseteq 1..pieces
  /\ twinned \subseteq Sessions \cup Emails

CartSessionsInit ==
  /\ carts = <<>>
  /\ visit = [v \in Shoppers |-> NoVisit]
  /\ pieces = 0
  /\ added = {} /\ ordered = {} /\ twinned = {} /\ caught = {}

VisitAt(v, pc) == visit[v].pc = pc
VisitGoes(v, next) == visit' = [visit EXCEPT ![v] = next]

\* findFirst, the last updated first: of active carts, the last created.  Empty
\* when there is none.
Latest(found) == {i \in found : \A j \in found : j <= i}
ActiveOfSession(s) == Latest({i \in 1..Len(carts) : carts[i].open /\ carts[i].session = s})
ActiveOfEmail(e) == Latest({i \in 1..Len(carts) : carts[i].open /\ carts[i].email = e})

-------------------------------------------------------------------------------
\* A cart is asked for, by itself or to add an item.  A request that changes
\* the items a cart has, or only reads it, creates none and is left out.
Visit(v, s, e, adds) ==
  /\ VisitAt(v, "idle")
  /\ VisitGoes(v, [NoVisit EXCEPT !.pc = "session", !.session = s, !.email = e, !.adds = adds])
  /\ UNCHANGED <<carts, pieces, added, ordered, twinned, caught>>

\* ensureActiveCart has its cart, or goes on.
Ensured(v, found, otherwise) ==
  IF found = {} THEN [visit[v] EXCEPT !.pc = otherwise]
  ELSE [visit[v] EXCEPT !.pc = IF visit[v].adds THEN "add" ELSE "answer",
                        !.cart = CHOOSE i \in found : TRUE]

FindBySession(v) ==
  /\ VisitAt(v, "session")
  /\ LET s == visit[v].session IN
       VisitGoes(v, Ensured(v, IF s = Unnamed THEN {} ELSE ActiveOfSession(s), "email"))
  /\ UNCHANGED <<carts, pieces, added, ordered, twinned, caught>>

FindByEmail(v) ==
  /\ VisitAt(v, "email")
  /\ LET e == visit[v].email IN
       VisitGoes(v, Ensured(v, IF e = Unnamed THEN {} ELSE ActiveOfEmail(e), "create"))
  /\ UNCHANGED <<carts, pieces, added, ordered, twinned, caught>>

\* Whoever else has looked for the same cart, and not found it, makes another.
Seeking(v) == {w \in Shoppers \ {v} : visit[w].pc \in {"email", "create"}}

CreateCart(v) ==
  /\ VisitAt(v, "create") /\ Len(carts) < MostCarts
  /\ LET s == visit[v].session
         e == visit[v].email IN
     /\ carts' = Append(carts, [session |-> s, email |-> e, open |-> TRUE, items |-> {}])
     /\ twinned' = twinned
          \cup (({s, e} \ {Unnamed})
                 \cap UNION {{visit[w].session, visit[w].email} : w \in Seeking(v)})
  /\ VisitGoes(v, Ensured(v, {Len(carts) + 1}, "idle"))
  /\ UNCHANGED <<pieces, added, ordered, caught>>

\* Each piece is an item of its own; rows and quantities are in Checkout.
AddPiece(v) ==
  LET i == visit[v].cart
      p == pieces + 1 IN
  /\ VisitAt(v, "add") /\ p <= MostPieces
  /\ pieces' = p
  /\ carts' = [carts EXCEPT ![i].items = @ \cup {p}]
  /\ caught' = caught \cup {p : w \in {x \in Shoppers : VisitAt(x, "commit") /\ visit[x].cart = i}}
  /\ VisitGoes(v, [visit[v] EXCEPT !.pc = "answer", !.seen = {p}])
  /\ UNCHANGED <<added, ordered, twinned>>

\* The product is not to be had, or its row has gone: a cart just made stays.
PieceRefused(v) ==
  /\ VisitAt(v, "add")
  /\ VisitGoes(v, NoVisit)
  /\ UNCHANGED <<carts, pieces, added, ordered, twinned, caught>>

\* The cart is read again, if it is still active: a request whose cart was
\* closed under it ends in an error.
AnswerVisit(v) ==
  /\ VisitAt(v, "answer")
  /\ added' = IF carts[visit[v].cart].open THEN added \cup visit[v].seen ELSE added
  /\ VisitGoes(v, NoVisit)
  /\ UNCHANGED <<carts, pieces, ordered, twinned, caught>>

\* A checkout looks by session, or by e-mail when it has none, never by both.
BeginOrder(v, s, e) ==
  LET found == IF s = Unnamed THEN ActiveOfEmail(e) ELSE ActiveOfSession(s) IN
  /\ VisitAt(v, "idle")
  /\ \E i \in found :
       /\ carts[i].items # {}
       /\ VisitGoes(v, [NoVisit EXCEPT !.pc = "commit", !.session = s, !.email = e,
                                       !.cart = i, !.seen = carts[i].items])
  /\ UNCHANGED <<carts, pieces, added, ordered, twinned, caught>>

\* The transaction closes the cart, or a statement before it refuses.
CommitOrder(v, commits) ==
  /\ VisitAt(v, "commit")
  /\ IF commits
     THEN /\ carts' = [carts EXCEPT ![visit[v].cart] =
                         [@ EXCEPT !.open = FALSE, !.email = visit[v].email]]
          /\ ordered' = ordered \cup visit[v].seen
     ELSE UNCHANGED <<carts, ordered>>
  /\ VisitGoes(v, NoVisit)
  /\ UNCHANGED <<pieces, added, twinned, caught>>

CartSessionsNext ==
  \E v \in Shoppers :
    \/ \E s \in Sessions \cup {Unnamed}, e \in Emails \cup {Unnamed}, adds \in BOOLEAN :
         Visit(v, s, e, adds)
    \/ FindBySession(v) \/ FindByEmail(v) \/ CreateCart(v) \/ AddPiece(v)
    \/ PieceRefused(v) \/ AnswerVisit(v)
    \/ \E s \in Sessions \cup {Unnamed}, e \in Emails : BeginOrder(v, s, e)
    \/ \E commits \in BOOLEAN : CommitOrder(v, commits)

CartSessionsSpec == CartSessionsInit /\ [][CartSessionsNext]_cartSessionsVars

-------------------------------------------------------------------------------
\* An active cart is the one found for its session, and for its e-mail, unless
\* two requests looked for it at once; and an item that was answered as added is
\* in an active cart or ordered, unless it came while its cart was being closed.
\* No index keeps a second active cart out: only the order of the lookups does.
ShopperKeepsCart ==
  /\ \A i \in 1..Len(carts) :
       carts[i].open =>
         /\ carts[i].session \notin twinned \cup {Unnamed} =>
              ActiveOfSession(carts[i].session) = {i}
         /\ carts[i].email \notin twinned \cup {Unnamed} =>
              ActiveOfEmail(carts[i].email) = {i}
  /\ added \subseteq
       ordered \cup caught \cup UNION {carts[i].items : i \in {j \in 1..Len(carts) : carts[j].open}}
===============================================================================
