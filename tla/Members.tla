-------------------------------- MODULE Members --------------------------------
(***************************************************************************)
(* Stores, their addresses, members and invitations.  A store is made by a *)
(* merchant's registration, by a signed-in user, or by the fixtures route; *)
(* its owner then invites, changes and removes members.  Requests read,    *)
(* check and write in separate statements and interleave at each.          *)
(***************************************************************************)
EXTENDS Naturals, FiniteSets, Sequences

CONSTANTS
  People,        \* e-mail addresses; some have an account
  Shops,         \* stores
  Nobody,
  Names,         \* slugs and subdomains, normalised
  Slugs,         \* names that merchants ask for
  WantedNames,   \* subdomains that merchants ask for
  ReservedNames,
  Candidates,    \* the subdomains tried for a slug in turn: the slug, slug-2, ...
  GivenRoles,    \* the roles owners give
  FixtureRoles,  \* the roles the fixtures route is asked for
  MemberRows,    \* rows of StoreMember and StoreMemberInvite
  Asks           \* requests under way at the same time

ASSUME MembersAssumption ==
  /\ Nobody \notin People
  /\ ReservedNames \cup WantedNames \cup Slugs \subseteq Names
  /\ GivenRoles \subseteq {"STORE_MANAGER", "STORE_SUPPORT"}
  /\ FixtureRoles \subseteq {"STORE_OWNER", "STORE_MANAGER", "STORE_SUPPORT"}
  /\ Candidates \in [Slugs -> Seq(Names)]
  /\ \A n \in Slugs : Candidates[n] # <<>> /\ Candidates[n][1] = n
  \* The number at the end tells them apart.
  /\ \A n \in Slugs : \A j, k \in 1..Len(Candidates[n]) :
       Candidates[n][j] = Candidates[n][k] => j = k
  /\ {} \notin {Names, Shops, MemberRows}

VARIABLES
  registered,  \* who has an account
  shop,        \* Nobody owns a store that does not exist yet
  row,         \* memberships and pending invitations; rows are not used again
  ask,
  tangled      \* history: <<store, person>> two invitations of which overlapped

membersVars == <<registered, shop, row, ask, tangled>>

Roles == {"STORE_OWNER", "STORE_MANAGER", "STORE_SUPPORT"}

\* A store.  What its settings and its theme say is left out.
ShopRow ==
  [owner : People \cup {Nobody}, slug : Names, subdomain : Names,
   made : {"registration", "request", "fixture"}]

MemberRow ==
  [kind : {"unused", "member", "invite", "deleted"}, shop : Shops,
   person : People \cup {Nobody},
   role : Roles]

AskRow ==
  [pc : {"idle", "slug", "subdomain", "create", "fixture",
         "invite", "user", "membership", "add", "pend",
         "change", "remove", "withdraw"},
   who : People \cup {Nobody}, made : {"registration", "request", "fixture"}, slug : Names,
   subdomain : Names, tried : Nat, shop : Shops, target : People \cup {Nobody},
   row : MemberRows,
   role : Roles]

MembersTypeOK ==
  /\ registered \subseteq People
  /\ shop \in [Shops -> ShopRow]
  /\ row \in [MemberRows -> MemberRow]
  /\ ask \in [Asks -> AskRow]
  /\ tangled \subseteq Shops \X People

AnyName == CHOOSE n \in Names : TRUE
AnyShop == CHOOSE s \in Shops : TRUE
AnyRow == CHOOSE r \in MemberRows : TRUE

NoAsk ==
  [pc |-> "idle", who |-> Nobody, made |-> "request", slug |-> AnyName,
   subdomain |-> AnyName, tried |-> 0, shop |-> AnyShop, target |-> Nobody,
   row |-> AnyRow, role |-> "STORE_SUPPORT"]

MembersInit ==
  /\ registered = {}
  /\ shop = [s \in Shops |->
       [owner |-> Nobody, slug |-> AnyName, subdomain |-> AnyName, made |-> "request"]]
  /\ row = [r \in MemberRows |->
       [kind |-> "unused", shop |-> AnyShop, person |-> Nobody,
        role |-> "STORE_SUPPORT"]]
  /\ ask = [a \in Asks |-> NoAsk]
  /\ tangled = {}

AskAt(a, pc) == ask[a].pc = pc
AskGoes(a, pc) == ask' = [ask EXCEPT ![a].pc = pc]
AskEnds(a) == ask' = [ask EXCEPT ![a] = NoAsk]

Open == {s \in Shops : shop[s].owner # Nobody}

MembershipOf(s, p) ==
  {r \in MemberRows : row[r].kind = "member" /\ row[r].shop = s /\ row[r].person = p}

InviteOf(s, p) ==
  {r \in MemberRows : row[r].kind = "invite" /\ row[r].shop = s /\ row[r].person = p}

OwnerRole(s, p) == \E r \in MembershipOf(s, p) : row[r].role = "STORE_OWNER"

\* A row not used before is written; which one makes no difference.
Unwritten == {r \in MemberRows : row[r].kind = "unused"}

Insert(kind, s, p, role) ==
  /\ Unwritten # {}
  /\ row' = [row EXCEPT ![CHOOSE r \in Unwritten : TRUE] =
       [kind |-> kind, shop |-> s, person |-> p, role |-> role]]

-------------------------------------------------------------------------------
(* Stores *)

\* register, in one statement that matters here: the account.
SignUp(p) ==
  /\ p \notin registered
  /\ registered' = registered \cup {p}
  /\ UNCHANGED <<shop, row, ask, tangled>>

\* registerMerchant: the e-mail is not known, the slug allowed and not in use.
RegisterMerchant(a, p, n) ==
  /\ AskAt(a, "idle")
  /\ p \notin registered
  /\ n \notin ReservedNames
  /\ \A s \in Open : shop[s].slug # n
  /\ ask' = [ask EXCEPT ![a] =
       [NoAsk EXCEPT !.pc = "subdomain", !.who = p, !.made = "registration", !.slug = n]]
  /\ UNCHANGED <<registered, shop, row, tangled>>

\* createStore, with the subdomain asked for or one to be found; the fixtures
\* route asks for the slug itself and for a role.
AskForStore(a, p, n, wanted, role) ==
  /\ AskAt(a, "idle")
  /\ p \in registered
  /\ n \notin ReservedNames /\ wanted \cap ReservedNames = {}
  /\ \A s \in Open : shop[s].slug # n
  /\ \A s \in Open : shop[s].subdomain \notin wanted
  /\ \E made \in {"request", "fixture"} :
       /\ made = "fixture" => wanted = {n} /\ role \in FixtureRoles
       /\ made = "request" => role = "STORE_OWNER"
       /\ ask' = [ask EXCEPT ![a] =
            [NoAsk EXCEPT !.pc = IF wanted = {} THEN "subdomain" ELSE "create",
                          !.who = p, !.made = made, !.slug = n, !.role = role,
                          !.subdomain = IF wanted = {} THEN n ELSE CHOOSE w \in wanted : TRUE]]
  /\ UNCHANGED <<registered, shop, row, tangled>>

\* One turn of generateDefaultSubdomain or generateUniqueDefaultSubdomain; a
\* registration also passes over every candidate once its slug is in use.
TrySubdomain(a) ==
  LET tries == Candidates[ask[a].slug]
      k == ask[a].tried + 1
      taken == \E s \in Open :
                 \/ shop[s].subdomain = tries[k]
                 \/ ask[a].made = "registration" /\ shop[s].slug = ask[a].slug
  IN /\ AskAt(a, "subdomain")
     /\ \/ /\ k > Len(tries)
           /\ AskEnds(a)
        \/ /\ k <= Len(tries) /\ taken
           /\ ask' = [ask EXCEPT ![a].tried = k]
        \/ /\ k <= Len(tries) /\ ~taken
           /\ ask' = [ask EXCEPT ![a] =
                [@ EXCEPT !.pc = "create", !.subdomain = tries[k], !.tried = k]]
     /\ UNCHANGED <<registered, shop, row, tangled>>

\* createMerchantOnboarding and createStore are transactions: account, store
\* and the owner's membership are there together, or the unique indexes on the
\* e-mail, the slug and the subdomain refuse all of it.
MakeStore(a) ==
  LET q == ask[a]
      refused == \/ q.made = "registration" /\ q.who \in registered
                 \/ \E s \in Open : shop[s].slug = q.slug \/ shop[s].subdomain = q.subdomain
  IN /\ AskAt(a, "create")
     /\ \/ /\ refused
           /\ AskEnds(a)
           /\ UNCHANGED <<registered, shop, row>>
        \/ /\ ~refused
           /\ Open # Shops
           /\ LET s == CHOOSE t \in Shops \ Open : TRUE IN
                /\ shop' = [shop EXCEPT ![s] =
                     [owner |-> q.who, slug |-> q.slug, subdomain |-> q.subdomain,
                      made |-> q.made]]
                /\ Insert("member", s, q.who, "STORE_OWNER")
                /\ IF q.made = "fixture" /\ q.role # "STORE_OWNER"
                   THEN ask' = [ask EXCEPT ![a] = [@ EXCEPT !.pc = "fixture", !.shop = s]]
                   ELSE AskEnds(a)
           /\ registered' = registered \cup {q.who}
     /\ UNCHANGED tangled

\* createAuthorizationFixture gives the owner's membership the role asked for.
GiveFixtureRole(a) ==
  /\ AskAt(a, "fixture")
  /\ row' = [r \in MemberRows |->
       IF r \in MembershipOf(ask[a].shop, ask[a].who)
       THEN [row[r] EXCEPT !.role = ask[a].role] ELSE row[r]]
  /\ AskEnds(a)
  /\ UNCHANGED <<registered, shop, tangled>>

-------------------------------------------------------------------------------
(* Requests about a store, after AuthorizationGuard has read the asker's role *)

BeginsFor(a, p, s, next) ==
  /\ AskAt(a, "idle")
  /\ s \in Open /\ OwnerRole(s, p)
  /\ ask' = [ask EXCEPT ![a] = next]
  /\ UNCHANGED <<registered, shop, row, tangled>>

\* Mutant: any role may be asked for.
InviteAnyone(a, p, s, target, role) ==
  BeginsFor(a, p, s,
    [NoAsk EXCEPT !.pc = "invite", !.shop = s, !.target = target,
                  !.role = "STORE_OWNER"])

InviteMember(a, p, s, target, role) ==
  BeginsFor(a, p, s,
    [NoAsk EXCEPT !.pc = "invite", !.shop = s, !.target = target,
                  !.role = role])

InviteSteps == {"user", "membership", "add", "pend"}

\* findPendingInviteByEmail.
FindInvite(a) ==
  LET s == ask[a].shop
      p == ask[a].target
  IN /\ AskAt(a, "invite")
     /\ \/ InviteOf(s, p) # {} /\ AskEnds(a)
        \/ InviteOf(s, p) = {} /\ AskGoes(a, "user")
     /\ tangled' = IF \E b \in Asks \ {a} : /\ ask[b].pc \in InviteSteps
                                            /\ ask[b].shop = s /\ ask[b].target = p
                   THEN tangled \cup {<<s, p>>} ELSE tangled
     /\ UNCHANGED <<registered, shop, row>>

\* findUserByEmail.
FindUser(a) ==
  /\ AskAt(a, "user")
  /\ AskGoes(a, IF ask[a].target \in registered THEN "membership" ELSE "pend")
  /\ UNCHANGED <<registered, shop, row, tangled>>

FindMembership(a) ==
  /\ AskAt(a, "membership")
  /\ \/ MembershipOf(ask[a].shop, ask[a].target) # {} /\ AskEnds(a)
     \/ MembershipOf(ask[a].shop, ask[a].target) = {} /\ AskGoes(a, "add")
  /\ UNCHANGED <<registered, shop, row, tangled>>

\* The unique indexes decide: one membership and one invitation of a person.
AddMember(a) ==
  LET q == ask[a] IN
  /\ AskAt(a, "add")
  /\ \/ MembershipOf(q.shop, q.target) # {} /\ UNCHANGED row
     \/ /\ MembershipOf(q.shop, q.target) = {}
        /\ Insert("member", q.shop, q.target, q.role)
  /\ AskEnds(a)
  /\ UNCHANGED <<registered, shop, tangled>>

PendInvite(a) ==
  LET q == ask[a] IN
  /\ AskAt(a, "pend")
  /\ \/ InviteOf(q.shop, q.target) # {} /\ UNCHANGED row
     \/ /\ InviteOf(q.shop, q.target) = {}
        /\ Insert("invite", q.shop, q.target, q.role)
  /\ AskEnds(a)
  /\ UNCHANGED <<registered, shop, tangled>>

\* updateMemberRole, removeMember and removePendingInvite find the row first.
\* The owner's row, and one's own, is left alone.
FindRow(a, p, s, r, next, role) ==
  /\ row[r].shop = s
  /\ \/ /\ next \in {"change", "remove"} /\ row[r].kind = "member"
        /\ row[r].role # "STORE_OWNER" /\ row[r].person # p
     \/ next = "withdraw" /\ row[r].kind = "invite"
  /\ BeginsFor(a, p, s,
       [NoAsk EXCEPT !.pc = next, !.row = r, !.role = role])

\* Writing to a row that was deleted meanwhile is an error.
ChangeRole(a) ==
  /\ AskAt(a, "change")
  /\ row' = IF row[ask[a].row].kind = "deleted" THEN row
            ELSE [row EXCEPT ![ask[a].row].role = ask[a].role]
  /\ AskEnds(a)
  /\ UNCHANGED <<registered, shop, tangled>>

DeleteRow(a) ==
  /\ ask[a].pc \in {"remove", "withdraw"}
  /\ row' = [row EXCEPT ![ask[a].row].kind = "deleted"]
  /\ AskEnds(a)
  /\ UNCHANGED <<registered, shop, tangled>>

-------------------------------------------------------------------------------
MembersNext ==
  \/ \E p \in People : SignUp(p)
  \/ \E a \in Asks :
       \/ TrySubdomain(a) \/ MakeStore(a) \/ GiveFixtureRole(a)
       \/ FindInvite(a) \/ FindUser(a) \/ FindMembership(a)
       \/ AddMember(a) \/ PendInvite(a) \/ ChangeRole(a) \/ DeleteRow(a)
       \/ \E p \in People :
            \/ \E n \in Slugs :
                 \/ RegisterMerchant(a, p, n)
                 \/ \E wanted \in {{}} \cup {{w} : w \in WantedNames}, role \in Roles :
                      AskForStore(a, p, n, wanted, role)
            \/ \E s \in Shops :
                 \/ \E target \in People, role \in GivenRoles :
                      InviteMember(a, p, s, target, role)
                 \/ \E r \in MemberRows, next \in {"change", "remove", "withdraw"},
                       role \in GivenRoles : FindRow(a, p, s, r, next, role)

MembersSpec == MembersInit /\ [][MembersNext]_membersVars

-------------------------------------------------------------------------------
\* A store has one STORE_OWNER, the account that owns it, whatever is asked for
\* at the same time; only a fixture's owner may have another role.  Nobody has
\* two memberships in a store.
OneOwner ==
  \A s \in Open :
    LET owners == {r \in MemberRows : /\ row[r].kind = "member" /\ row[r].shop = s
                                      /\ row[r].role = "STORE_OWNER"}
    IN /\ \A r \in owners : row[r].person = shop[s].owner
       /\ Cardinality(owners) = 1 \/ shop[s].made = "fixture"
       /\ \A p \in People : Cardinality(MembershipOf(s, p)) <= 1

\* Who is a member is not invited too, unless two invitations overlapped.
MemberNotInvited ==
  \A s \in Open, p \in People :
    MembershipOf(s, p) # {} /\ InviteOf(s, p) # {} => <<s, p>> \in tangled

\* A store whose subdomain was found for it has the first candidate that no
\* other store had before: those in front of it are taken.
FirstFreeSubdomain ==
  \A s \in Open :
    \A k \in 1..Len(Candidates[shop[s].slug]) :
      /\ shop[s].made = "registration"
      /\ shop[s].subdomain = Candidates[shop[s].slug][k]
      => \A j \in 1..(k - 1) :
           \E other \in Open \ {s} : shop[other].subdomain = Candidates[shop[s].slug][j]

\* Stores, their members and their addresses are sound under any interleaving.
MembershipsHold == OneOwner /\ MemberNotInvited /\ FirstFreeSubdomain
===============================================================================
