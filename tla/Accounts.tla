-------------------------------- MODULE Accounts --------------------------------
(***************************************************************************)
(* Accounts: registration, the one refresh session an account has, and the *)
(* e-mailed tokens that verify an address or reset a password.  Requests   *)
(* interleave at every database statement.                                 *)
(*                                                                         *)
(* A refresh token is a signed payload whose only changing part is the     *)
(* second it was signed in, so it is named by that second: two signed for  *)
(* one account in the same second are the same token.                      *)
(***************************************************************************)
EXTENDS Naturals, FiniteSets

CONSTANTS
  Users,         \* e-mail addresses
  Calls,         \* requests under way at the same time
  FlowTokens,    \* rows of AuthFlowToken
  LastSecond,    \* bound of the clock
  LastPassword,  \* bound of the passwords of an account
  MostBreaks     \* bound of the requests that end between two statements

ASSUME AccountsAssumption ==
  /\ {LastSecond, LastPassword, MostBreaks} \subseteq Nat
  /\ Users # {}

VARIABLES
  now,       \* the second
  account,
  flow,      \* the flow tokens
  call,
  held,      \* the refresh tokens clients of an account were answered with
  uses,      \* history: how often a flow token did what it is for
  shared,    \* history: flow tokens two requests held at a time
  crossed,   \* history: <<user, purpose>> whose issues overlapped
  raced,     \* history: users whose password was reset while they logged in
  flowBroken, \* history: flow tokens whose request ended before consuming them
  broken     \* history: the requests that ended between two statements

accountsHistory == <<uses, shared, crossed, raced, flowBroken, broken>>

accountsVars == <<now, account, flow, call, held, accountsHistory>>

Purposes == {"EMAIL_VERIFICATION", "PASSWORD_RESET"}

Seconds == 0..LastSecond

\* A session is the second its token was signed in; with it goes the password
\* that opened it (history).  No session is the empty set.
SessionRow == [at : Seconds, password : 0..LastPassword]

AccountRow ==
  [exists : BOOLEAN, verified : BOOLEAN, password : 0..LastPassword,
   session : {{}} \cup {{s} : s \in SessionRow}]

CallRow ==
  [pc : {"idle", "create", "invalidate", "issue", "mail", "sign", "store", "use", "consume"},
   user : Users, purpose : Purposes, registers : BOOLEAN, token : SUBSET FlowTokens,
   verified : BOOLEAN, password : 0..LastPassword, at : Seconds]

AnyUser == CHOOSE u \in Users : TRUE

NoCall ==
  [pc |-> "idle", user |-> AnyUser, purpose |-> "PASSWORD_RESET", registers |-> FALSE,
   token |-> {}, verified |-> FALSE, password |-> 0, at |-> 0]

FlowRow ==
  [user : Users, purpose : Purposes, exists : BOOLEAN, consumed : BOOLEAN,
   invalidated : BOOLEAN, mailed : BOOLEAN]

AccountsTypeOK ==
  /\ now \in Seconds
  /\ account \in [Users -> AccountRow]
  /\ flow \in [FlowTokens -> FlowRow]
  /\ call \in [Calls -> CallRow]
  /\ held \in [Users -> SUBSET Seconds]
  /\ uses \in [FlowTokens -> Nat]
  /\ shared \cup flowBroken \subseteq FlowTokens
  /\ crossed \subseteq Users \X Purposes
  /\ raced \subseteq Users
  /\ broken \in 0..MostBreaks

AccountsInit ==
  /\ now = 0
  /\ account = [u \in Users |->
       [exists |-> FALSE, verified |-> FALSE, password |-> 0, session |-> {}]]
  /\ flow = [t \in FlowTokens |->
       [user |-> AnyUser, purpose |-> "PASSWORD_RESET", exists |-> FALSE,
        consumed |-> FALSE, invalidated |-> FALSE, mailed |-> FALSE]]
  /\ call = [c \in Calls |-> NoCall]
  /\ held = [u \in Users |-> {}]
  /\ uses = [t \in FlowTokens |-> 0]
  /\ shared = {}
  /\ crossed = {}
  /\ raced = {}
  /\ flowBroken = {}
  /\ broken = 0

CallAt(c, pc) == call[c].pc = pc

CallGoes(c, pc) == call' = [call EXCEPT ![c].pc = pc]

CallEnds(c) == call' = [call EXCEPT ![c] = NoCall]

\* findActiveAuthFlowTokenByHash looks at these two columns.
Live(t) == flow[t].exists /\ ~flow[t].consumed /\ ~flow[t].invalidated

SecondPasses ==
  /\ now < LastSecond
  /\ now' = now + 1
  /\ UNCHANGED <<account, flow, call, held, accountsHistory>>

-------------------------------------------------------------------------------
(* Registration: register, and registerMerchant seen from the account *)

\* findUserByEmail finds nobody; who is known is refused.
Register(c, u) ==
  /\ CallAt(c, "idle")
  /\ ~account[u].exists
  /\ call' = [call EXCEPT ![c] =
       [NoCall EXCEPT !.pc = "create", !.user = u, !.registers = TRUE,
                      !.purpose = "EMAIL_VERIFICATION"]]
  /\ UNCHANGED <<now, account, flow, held, accountsHistory>>

\* The unique index on the e-mail decides between two of them.
CreateUser(c) ==
  /\ CallAt(c, "create")
  /\ \/ /\ account[call[c].user].exists
        /\ CallEnds(c)
        /\ UNCHANGED account
     \/ /\ ~account[call[c].user].exists
        /\ account' = [account EXCEPT ![call[c].user].exists = TRUE]
        /\ CallGoes(c, "invalidate")
  /\ UNCHANGED <<now, flow, held, accountsHistory>>

-------------------------------------------------------------------------------
(* issueFlowToken and the mail that carries the token *)

\* requestEmailVerification answers the same to everyone, but does something
\* only for an account not yet verified.
AskVerification(c, u) ==
  /\ CallAt(c, "idle")
  /\ account[u].exists /\ ~account[u].verified
  /\ call' = [call EXCEPT ![c] =
       [NoCall EXCEPT !.pc = "invalidate", !.user = u, !.purpose = "EMAIL_VERIFICATION"]]
  /\ UNCHANGED <<now, account, flow, held, accountsHistory>>

AskReset(c, u) ==
  /\ CallAt(c, "idle")
  /\ account[u].exists
  /\ call' = [call EXCEPT ![c] = [NoCall EXCEPT !.pc = "invalidate", !.user = u]]
  /\ UNCHANGED <<now, account, flow, held, accountsHistory>>

\* Mutant: earlier tokens are left alone.
InvalidateNothing(c) ==
  /\ CallAt(c, "invalidate")
  /\ CallGoes(c, "issue")
  /\ UNCHANGED <<now, account, flow, held, accountsHistory>>

InvalidateEarlier(c) ==
  /\ CallAt(c, "invalidate")
  /\ flow' = [t \in FlowTokens |->
       IF Live(t) /\ flow[t].user = call[c].user /\ flow[t].purpose = call[c].purpose
       THEN [flow[t] EXCEPT !.invalidated = TRUE] ELSE flow[t]]
  /\ CallGoes(c, "issue")
  /\ UNCHANGED <<now, account, held, accountsHistory>>

SameIssue(c, d) ==
  call[c].user = call[d].user /\ call[c].purpose = call[d].purpose

IssueToken(c, t) ==
  /\ CallAt(c, "issue")
  /\ ~flow[t].exists
  /\ flow' = [flow EXCEPT ![t] =
       [@ EXCEPT !.exists = TRUE, !.user = call[c].user, !.purpose = call[c].purpose]]
  /\ call' = [call EXCEPT ![c].pc = "mail", ![c].token = {t}]
  /\ crossed' = IF \E d \in Calls \ {c} : CallAt(d, "issue") /\ SameIssue(c, d)
                THEN crossed \cup {<<call[c].user, call[c].purpose>>} ELSE crossed
  /\ UNCHANGED <<now, account, held, uses, shared, raced, flowBroken, broken>>

\* If the mail cannot be queued the request ends there, also a registration
\* whose account exists by now.
MailToken(c) ==
  /\ CallAt(c, "mail")
  /\ \/ /\ flow' = [t \in FlowTokens |->
             IF t \in call[c].token THEN [flow[t] EXCEPT !.mailed = TRUE] ELSE flow[t]]
        /\ IF call[c].registers THEN CallGoes(c, "sign") ELSE CallEnds(c)
     \/ /\ CallEnds(c)
        /\ UNCHANGED flow
  /\ UNCHANGED <<now, account, held, accountsHistory>>

-------------------------------------------------------------------------------
(* Sessions *)

\* The account is read and the password compared.
Login(c, u) ==
  /\ CallAt(c, "idle")
  /\ account[u].exists
  /\ call' = [call EXCEPT ![c] =
       [NoCall EXCEPT !.pc = "sign", !.user = u, !.password = account[u].password]]
  /\ UNCHANGED <<now, account, flow, held, accountsHistory>>

\* A client presents a token it was given; it must be the one that is stored.
Refresh(c, u, token) ==
  /\ CallAt(c, "idle")
  /\ token \in held[u]
  /\ \E s \in account[u].session :
       /\ s.at = token
       /\ call' = [call EXCEPT ![c] =
            [NoCall EXCEPT !.pc = "sign", !.user = u, !.password = s.password]]
  /\ UNCHANGED <<now, account, flow, held, accountsHistory>>

\* issueAuthSession signs both tokens and then stores the hash of one.
SignTokens(c) ==
  /\ CallAt(c, "sign")
  /\ call' = [call EXCEPT ![c].pc = "store", ![c].at = now]
  /\ UNCHANGED <<now, account, flow, held, accountsHistory>>

\* Mutant: the session goes beside the one that was there.
StoreBeside(c) ==
  /\ CallAt(c, "store")
  /\ account' = [account EXCEPT ![call[c].user].session =
       @ \cup {[at |-> call[c].at, password |-> call[c].password]}]
  /\ held' = [held EXCEPT ![call[c].user] = @ \cup {call[c].at}]
  /\ CallEnds(c)
  /\ UNCHANGED <<now, flow, accountsHistory>>

\* The session that was there is overwritten.
StoreSession(c) ==
  /\ CallAt(c, "store")
  /\ account' = [account EXCEPT ![call[c].user].session =
       {[at |-> call[c].at, password |-> call[c].password]}]
  /\ held' = [held EXCEPT ![call[c].user] = @ \cup {call[c].at}]
  /\ CallEnds(c)
  /\ UNCHANGED <<now, flow, accountsHistory>>

\* logout: whoever has an access token of the account.
Logout(u) ==
  /\ held[u] # {}
  /\ account' = [account EXCEPT ![u].session = {}]
  /\ UNCHANGED <<now, flow, call, held, accountsHistory>>

-------------------------------------------------------------------------------
(* verifyEmail and resetPassword *)

Holding(t) == {c \in Calls : call[c].pc \in {"use", "consume"} /\ t \in call[c].token}

\* resolveActiveFlowToken, with the user as the row is read.  A request with a
\* token whose time to live is over does nothing and is left out.
ResolveToken(c, t) ==
  LET u == flow[t].user IN
  /\ CallAt(c, "idle")
  /\ flow[t].mailed /\ Live(t)
  /\ call' = [call EXCEPT ![c] =
       [NoCall EXCEPT !.pc = "use", !.user = u, !.purpose = flow[t].purpose,
                      !.token = {t}, !.verified = account[u].verified]]
  /\ shared' = IF Holding(t) # {} THEN shared \cup {t} ELSE shared
  /\ UNCHANGED <<now, account, flow, held, uses, crossed, raced, flowBroken, broken>>

Used(c) == [t \in FlowTokens |-> IF t \in call[c].token THEN uses[t] + 1 ELSE uses[t]]

\* An account that was verified when it was read only has its token consumed.
UseVerification(c) ==
  /\ CallAt(c, "use") /\ call[c].purpose = "EMAIL_VERIFICATION"
  /\ \/ /\ call[c].verified
        /\ UNCHANGED <<account, uses>>
     \/ /\ ~call[c].verified
        /\ account' = [account EXCEPT ![call[c].user].verified = TRUE]
        /\ uses' = Used(c)
  /\ CallGoes(c, "consume")
  /\ UNCHANGED <<now, flow, held, shared, crossed, raced, flowBroken, broken>>

\* Mutant: the session is left alone.
ResetPasswordOnly(c) ==
  /\ CallAt(c, "use") /\ call[c].purpose = "PASSWORD_RESET"
  /\ account[call[c].user].password < LastPassword
  /\ account' = [account EXCEPT ![call[c].user].password = @ + 1]
  /\ uses' = Used(c)
  /\ CallGoes(c, "consume")
  /\ UNCHANGED <<now, flow, held, shared, crossed, raced, flowBroken, broken>>

\* Requests that will open a session for what they have read; a registration
\* will from its beginning.
Opening(u) ==
  {c \in Calls : call[c].user = u /\ (call[c].registers \/ call[c].pc \in {"sign", "store"})}

\* The new password and the end of the session are one statement.
UseReset(c) ==
  LET u == call[c].user IN
  /\ CallAt(c, "use") /\ call[c].purpose = "PASSWORD_RESET"
  /\ account[u].password < LastPassword
  /\ account' = [account EXCEPT ![u] =
       [@ EXCEPT !.password = account[u].password + 1, !.session = {}]]
  /\ uses' = Used(c)
  /\ raced' = IF \E d \in Opening(u) : d # c THEN raced \cup {u} ELSE raced
  /\ CallGoes(c, "consume")
  /\ UNCHANGED <<now, flow, held, shared, crossed, flowBroken, broken>>

\* The update is by the token's id, whatever became of it.
ConsumeToken(c) ==
  /\ CallAt(c, "consume")
  /\ flow' = [t \in FlowTokens |->
       IF t \in call[c].token THEN [flow[t] EXCEPT !.consumed = TRUE] ELSE flow[t]]
  /\ CallEnds(c)
  /\ UNCHANGED <<now, account, held, accountsHistory>>

\* A statement fails or the server goes down.
CallBreaks(c) ==
  /\ broken < MostBreaks
  /\ broken' = broken + 1
  /\ ~CallAt(c, "idle")
  /\ flowBroken' = IF CallAt(c, "consume") THEN flowBroken \cup call[c].token ELSE flowBroken
  /\ CallEnds(c)
  /\ UNCHANGED <<now, account, flow, held, uses, shared, crossed, raced>>

-------------------------------------------------------------------------------
AccountsNext ==
  \/ SecondPasses
  \/ \E u \in Users : Logout(u)
  \/ \E c \in Calls :
       \/ CreateUser(c) \/ InvalidateEarlier(c) \/ MailToken(c) \/ CallBreaks(c)
       \/ SignTokens(c) \/ StoreSession(c)
       \/ UseVerification(c) \/ UseReset(c) \/ ConsumeToken(c)
       \/ \E t \in FlowTokens : IssueToken(c, t) \/ ResolveToken(c, t)
       \/ \E u \in Users :
            \/ Register(c, u) \/ AskVerification(c, u) \/ AskReset(c, u) \/ Login(c, u)
            \/ \E token \in Seconds : Refresh(c, u, token)

AccountsSpec == AccountsInit /\ [][AccountsNext]_accountsVars

-------------------------------------------------------------------------------
\* A mailed token verifies or resets once, unless two requests held it at the
\* same time or one ended between using and consuming it.
FlowTokenUsedOnce ==
  \A t \in FlowTokens : uses[t] > 1 => t \in shared \cup flowBroken

\* An account has one live token of a purpose, the last it asked for, unless
\* two requests issued one at the same time.
OneLiveToken ==
  \A t1, t2 \in FlowTokens :
    /\ t1 # t2 /\ Live(t1) /\ Live(t2)
    /\ flow[t1].user = flow[t2].user /\ flow[t1].purpose = flow[t2].purpose
    => <<flow[t1].user, flow[t1].purpose>> \in crossed

\* A mailed token works once, and the last one asked for is the one that does.
FlowTokensHold == FlowTokenUsedOnce /\ OneLiveToken

\* After a password reset no session that was opened with the old password is
\* left, unless one was being issued at that moment; and a stored session is
\* always one that some client was given.
ResetEndsSessions ==
  \A u \in Users : \A s \in account[u].session :
    /\ s.password = account[u].password \/ u \in raced
    /\ s.at \in held[u]
===============================================================================
