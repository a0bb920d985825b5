------------------------------ MODULE ConsoleProofs ------------------------------
(***************************************************************************)
(* Theorems about who is signed in, on the server and on a page, and what  *)
(* the page then shows.                                                    *)
(*                                                                         *)
(* Accounts: a mailed token works once and the last one asked for is the   *)
(* one that works, and a password reset ends every session, but for the    *)
(* overlaps of requests that the history names.  The forms and pages: the  *)
(* slug sent was found free; a page shows who holds its token, and rows    *)
(* of the store it is on, but for answers that come too late.              *)
(*                                                                         *)
(* AccountsOK speaks of one row at a time: what a request under way has    *)
(* read and the account it read it from (CallFits), an account and its     *)
(* session (UserFits), a token and the requests that hold it (TokenFits).  *)
(* AdminOK and DashboardOK speak of each request under way and the session *)
(* whose page will be given its answer (QueryFits, FetchFits).             *)
(***************************************************************************)
EXTENDS Console, TLAPS

UsesAt(c, t) == CallAt(c, "use") /\ t \in call[c].token

ConsumesAt(c, t) == CallAt(c, "consume") /\ t \in call[c].token

\* A request that will open a session has the password of the account, unless
\* a reset overtook it; past the creation of the account there is one; and what
\* the request is about to replace was invalidated by it.
CallFits(c) ==
  LET u == call[c].user IN
  /\ call[c].registers \/ call[c].pc \in {"sign", "store"}
     => call[c].password = account[u].password \/ u \in raced
  /\ call[c].pc \notin {"idle", "create"} => account[u].exists
  /\ call[c].pc \in {"use", "consume"} => ~call[c].registers
  /\ call[c].pc = "issue" =>
       \A t \in FlowTokens :
         Live(t) /\ flow[t].user = u /\ flow[t].purpose = call[c].purpose
         => <<u, call[c].purpose>> \in crossed

\* Nobody resets the password of an account that is not there, and it has no
\* session.
UserFits(u) ==
  /\ ~account[u].exists => account[u].password = 0
  /\ \A s \in account[u].session :
       /\ account[u].exists
       /\ s.password = account[u].password \/ u \in raced
       /\ s.at \in held[u]

\* One request at a time holds a token; it was not used before that request
\* uses it, and then it is consumed or that request is about to.
TokenFits(t) ==
  /\ flow[t].exists => account[flow[t].user].exists
  /\ \/ t \in shared \cup flowBroken
     \/ /\ \A c, d \in Calls :
             /\ UsesAt(c, t) \/ ConsumesAt(c, t)
             /\ UsesAt(d, t) \/ ConsumesAt(d, t)
             => c = d
        /\ \A c \in Calls : UsesAt(c, t) => uses[t] = 0
        /\ uses[t] <= 1
        /\ uses[t] = 1 => flow[t].consumed \/ \E c \in Calls : ConsumesAt(c, t)

AccountsOK ==
  /\ AccountsTypeOK
  /\ \A c \in Calls : CallFits(c)
  /\ \A u \in Users : UserFits(u)
  /\ \A t \in FlowTokens : TokenFits(t)
  /\ OneLiveToken

-------------------------------------------------------------------------------
(* What a step that leaves a row alone leaves true of it *)

\* A request that begins is well formed, whoever it is for.
LEMMA NoCallFits == AnyUser \in Users /\ NoCall \in CallRow
<1>1. AnyUser \in Users
  BY AccountsAssumption DEF AccountsAssumption, AnyUser
<1> QED
  BY <1>1, AccountsAssumption DEF AccountsAssumption, NoCall, CallRow, Purposes, Seconds

\* Another request's step leaves this one as it was.
LEMMA CallKept ==
  ASSUME NEW c \in Calls, CallFits(c), call'[c] = call[c],
         account'[call[c].user].password = account[call[c].user].password,
         account[call[c].user].exists => account'[call[c].user].exists,
         raced \subseteq raced', crossed \subseteq crossed',
         \A t \in FlowTokens :
           Live(t)' => /\ Live(t) /\ flow'[t].user = flow[t].user
                       /\ flow'[t].purpose = flow[t].purpose
  PROVE  CallFits(c)'
<1>1. ASSUME call[c].pc = "issue", NEW t \in FlowTokens, Live(t)',
             flow'[t].user = call[c].user, flow'[t].purpose = call[c].purpose
      PROVE  <<call[c].user, call[c].purpose>> \in crossed'
  BY <1>1 DEF CallFits, CallAt
<1> QED
  BY <1>1 DEF CallFits, CallAt

\* An account whose password stays and that keeps the session it had.
LEMMA UserKept ==
  ASSUME NEW u \in Users, UserFits(u),
         account'[u].password = account[u].password,
         account[u].exists => account'[u].exists,
         account'[u].session \subseteq account[u].session,
         raced \subseteq raced', held[u] \subseteq held'[u]
  PROVE  UserFits(u)'
BY DEF UserFits

\* A step that neither uses a token nor changes who holds it.
LEMMA TokenKept ==
  ASSUME NEW t \in FlowTokens, TokenFits(t),
         shared \subseteq shared', flowBroken \subseteq flowBroken', uses'[t] = uses[t],
         \A c \in Calls : /\ UsesAt(c, t)' => UsesAt(c, t)
                          /\ ConsumesAt(c, t)' <=> ConsumesAt(c, t),
         flow[t].consumed => flow'[t].consumed,
         flow'[t].exists => account'[flow'[t].user].exists
  PROVE  TokenFits(t)'
<1>1. CASE t \in shared \cup flowBroken
  BY <1>1 DEF TokenFits
<1>2. CASE t \notin shared \cup flowBroken
  BY <1>2 DEF TokenFits
<1> QED BY <1>1, <1>2

\* No token becomes live.
LEMMA LiveKept ==
  ASSUME OneLiveToken, crossed \subseteq crossed',
         \A t \in FlowTokens :
           Live(t)' => /\ Live(t) /\ flow'[t].user = flow[t].user
                       /\ flow'[t].purpose = flow[t].purpose
  PROVE  OneLiveToken'
BY DEF OneLiveToken

-------------------------------------------------------------------------------
(* The steps of the requests *)

\* A step that only moves a request: what it has read must still be so.
LEMMA CallStep ==
  ASSUME AccountsOK, NEW c \in Calls, NEW r \in CallRow,
         call' = [call EXCEPT ![c] = r], ~CallAt(c, "consume"),
         r.pc \notin {"use", "consume", "issue"},
         r.registers \/ r.pc \in {"sign", "store"}
           => r.password = account[r.user].password \/ r.user \in raced,
         r.pc \notin {"idle", "create"} => account[r.user].exists,
         now' \in Seconds, UNCHANGED <<account, flow, held, accountsHistory>>
  PROVE  AccountsOK'
<1> USE DEF accountsHistory
<1>1. AccountsTypeOK'
  BY DEF AccountsOK, AccountsTypeOK
<1>2. call'[c] = r /\ \A d \in Calls \ {c} : call'[d] = call[d]
  BY DEF AccountsOK, AccountsTypeOK
<1>3. \A t \in FlowTokens : Live(t)' <=> Live(t)
  BY DEF Live
<1>4. ASSUME NEW d \in Calls PROVE CallFits(d)'
  <2>1. CASE d = c
    BY <1>2, <2>1 DEF CallFits
  <2>2. CASE d # c
    BY <1>2, <1>3, <2>2, CallKept DEF AccountsOK
  <2> QED BY <2>1, <2>2
<1>5. ASSUME NEW u \in Users PROVE UserFits(u)'
  BY UserKept DEF AccountsOK
<1>6. ASSUME NEW t \in FlowTokens PROVE TokenFits(t)'
  <2>1. \A d \in Calls : /\ UsesAt(d, t)' => UsesAt(d, t)
                         /\ ConsumesAt(d, t)' <=> ConsumesAt(d, t)
    BY <1>2 DEF UsesAt, ConsumesAt, CallAt
  <2>2. flow[t].exists => account[flow[t].user].exists
    BY DEF AccountsOK, TokenFits
  <2> QED BY <2>1, <2>2, TokenKept DEF AccountsOK
<1>7. OneLiveToken'
  BY <1>3, LiveKept DEF AccountsOK
<1> QED BY <1>1, <1>4, <1>5, <1>6, <1>7 DEF AccountsOK

\* register, requestEmailVerification, requestPasswordReset, login, refresh and
\* the signing of tokens change nothing but their request.
LEMMA ReadingKeeps ==
  ASSUME AccountsOK, NEW c \in Calls, NEW u \in Users,
         \/ Register(c, u) \/ AskVerification(c, u) \/ AskReset(c, u) \/ Login(c, u)
         \/ (\E token \in Seconds : Refresh(c, u, token))
         \/ SignTokens(c)
  PROVE  AccountsOK'
<1>0. /\ now \in Seconds /\ call \in [Calls -> CallRow] /\ account[u] \in AccountRow
      /\ call[c] \in CallRow /\ CallFits(c) /\ UserFits(u)
  BY DEF AccountsOK, AccountsTypeOK
<1>1. CASE Register(c, u)
  <2> DEFINE r == [NoCall EXCEPT !.pc = "create", !.user = u, !.registers = TRUE,
                                 !.purpose = "EMAIL_VERIFICATION"]
  <2>1. r \in CallRow
    BY NoCallFits DEF CallRow, Purposes
  <2>2. r.pc = "create" /\ r.user = u /\ r.password = 0
    BY DEF NoCall
  <2>3. account[u].password = 0
    BY <1>0, <1>1 DEF Register, UserFits
  <2> QED BY <1>0, <1>1, <2>1, <2>2, <2>3, CallStep DEF Register, CallAt
<1>2. CASE AskVerification(c, u)
  <2> DEFINE r == [NoCall EXCEPT !.pc = "invalidate", !.user = u,
                                 !.purpose = "EMAIL_VERIFICATION"]
  <2>1. r \in CallRow
    BY NoCallFits DEF CallRow, Purposes
  <2>2. r.pc = "invalidate" /\ r.user = u /\ ~r.registers
    BY DEF NoCall
  <2> QED BY <1>0, <1>2, <2>1, <2>2, CallStep DEF AskVerification, CallAt
<1>3. CASE AskReset(c, u)
  <2> DEFINE r == [NoCall EXCEPT !.pc = "invalidate", !.user = u]
  <2>1. r \in CallRow
    BY NoCallFits DEF CallRow
  <2>2. r.pc = "invalidate" /\ r.user = u /\ ~r.registers
    BY DEF NoCall
  <2> QED BY <1>0, <1>3, <2>1, <2>2, CallStep DEF AskReset, CallAt
<1>4. CASE Login(c, u)
  <2> DEFINE r == [NoCall EXCEPT !.pc = "sign", !.user = u, !.password = account[u].password]
  <2>1. r \in CallRow
    BY <1>0, NoCallFits DEF CallRow, AccountRow
  <2>2. r.pc = "sign" /\ r.user = u /\ r.password = account[u].password
    BY DEF NoCall
  <2> QED BY <1>0, <1>4, <2>1, <2>2, CallStep DEF Login, CallAt
<1>5. ASSUME NEW token \in Seconds, Refresh(c, u, token) PROVE AccountsOK'
  <2>1. PICK s \in account[u].session :
          call' = [call EXCEPT ![c] =
            [NoCall EXCEPT !.pc = "sign", !.user = u, !.password = s.password]]
    BY <1>5 DEF Refresh
  <2>2. s.password \in 0..LastPassword
    BY <1>0 DEF AccountRow, SessionRow
  <2>3. account[u].exists /\ (s.password = account[u].password \/ u \in raced)
    BY <1>0 DEF UserFits
  <2> DEFINE r == [NoCall EXCEPT !.pc = "sign", !.user = u, !.password = s.password]
  <2>5. r \in CallRow
    BY <2>2, NoCallFits DEF CallRow
  <2>6. r.pc = "sign" /\ r.user = u /\ r.password = s.password
    BY DEF NoCall
  <2>7. /\ ~CallAt(c, "consume") /\ now' \in Seconds
        /\ UNCHANGED <<account, flow, held, accountsHistory>>
    BY <1>0, <1>5 DEF Refresh, CallAt
  <2>8. call' = [call EXCEPT ![c] = r]
    BY <2>1
  <2> HIDE DEF r
  <2> QED BY <1>0, <2>3, <2>5, <2>6, <2>7, <2>8, CallStep
<1>6. CASE SignTokens(c)
  <2> DEFINE r == [call[c] EXCEPT !.pc = "store", !.at = now]
  <2>1. r \in CallRow
    BY <1>0 DEF CallRow
  <2>2. /\ r.pc = "store" /\ r.user = call[c].user /\ r.password = call[c].password
        /\ CallAt(c, "sign")
    BY <1>0, <1>6 DEF CallRow, SignTokens
  <2>3. call' = [call EXCEPT ![c] = r]
    BY <1>0, <1>6 DEF SignTokens
  <2>4. /\ account[call[c].user].exists /\ ~CallAt(c, "consume")
        /\ call[c].password = account[call[c].user].password \/ call[c].user \in raced
    BY <1>0, <2>2 DEF CallAt, CallFits
  <2>5. now' \in Seconds /\ UNCHANGED <<account, flow, held, accountsHistory>>
    BY <1>0, <1>6 DEF SignTokens
  <2> HIDE DEF r
  <2> QED BY <2>1, <2>2, <2>3, <2>4, <2>5, CallStep
<1> QED BY <1>1, <1>2, <1>3, <1>4, <1>5, <1>6

\* A request that has ended owes nothing.
LEMMA EndedFits ==
  ASSUME NEW c \in Calls, call'[c] = NoCall PROVE CallFits(c)'
BY DEF CallFits, NoCall

\* Of two creations of an account one ends, the other goes on.
LEMMA CreatingKeeps ==
  ASSUME AccountsOK, NEW c \in Calls, CreateUser(c)
  PROVE  AccountsOK'
<1> DEFINE u == call[c].user
<1>0. /\ AccountsTypeOK /\ call \in [Calls -> CallRow] /\ account \in [Users -> AccountRow]
      /\ call[c] \in CallRow /\ u \in Users /\ CallFits(c) /\ CallAt(c, "create")
  BY DEF AccountsOK, AccountsTypeOK, CallRow, CreateUser
<1>1. CASE account[u].exists
  <2>1. CallEnds(c) /\ UNCHANGED <<now, account, flow, held, accountsHistory>>
    BY <1>1 DEF CreateUser
  <2>2. NoCall.pc = "idle" /\ ~NoCall.registers
    BY DEF NoCall
  <2>3. now \in Seconds
    BY <1>0 DEF AccountsTypeOK
  <2> QED BY <1>0, <2>1, <2>2, <2>3, NoCallFits, CallStep DEF CallEnds, CallAt
<1>2. CASE ~account[u].exists
  <2>1. /\ account' = [account EXCEPT ![u].exists = TRUE]
        /\ call' = [call EXCEPT ![c].pc = "invalidate"]
        /\ UNCHANGED <<now, flow, held, uses, shared, crossed, raced, flowBroken, broken>>
    BY <1>2 DEF CreateUser, CallGoes, accountsHistory
  <2>2. /\ account' \in [Users -> AccountRow]
        /\ \A v \in Users : /\ account'[v].password = account[v].password
                            /\ account'[v].session = account[v].session
                            /\ account[v].exists => account'[v].exists
        /\ account'[u].exists
    BY <1>0, <2>1 DEF AccountRow
  <2>3. /\ call' \in [Calls -> CallRow] /\ \A d \in Calls \ {c} : call'[d] = call[d]
        /\ call'[c] = [call[c] EXCEPT !.pc = "invalidate"]
    BY <1>0, <2>1 DEF CallRow
  <2>4. AccountsTypeOK'
    BY <1>0, <2>1, <2>2, <2>3 DEF AccountsTypeOK
  <2>5. \A t \in FlowTokens : Live(t)' <=> Live(t)
    BY <2>1 DEF Live
  <2>6. ASSUME NEW d \in Calls PROVE CallFits(d)'
    <3>1. call[d].user \in Users /\ CallFits(d)
      BY <1>0 DEF AccountsOK, CallRow
    <3>2. CASE d = c
      <4>1. /\ call'[c].pc = "invalidate" /\ call'[c].user = u
            /\ call'[c].password = call[c].password
            /\ call'[c].registers = call[c].registers
        BY <1>0, <2>3 DEF CallRow
      <4> QED BY <1>0, <2>1, <2>2, <3>2, <4>1 DEF CallFits
    <3>3. CASE d # c
      BY <2>1, <2>2, <2>3, <2>5, <3>1, <3>3, CallKept
    <3> QED BY <3>2, <3>3
  <2>7. ASSUME NEW v \in Users PROVE UserFits(v)'
    BY <2>1, <2>2, UserKept DEF AccountsOK
  <2>8. ASSUME NEW t \in FlowTokens PROVE TokenFits(t)'
    <3>1. \A d \in Calls : /\ UsesAt(d, t)' => UsesAt(d, t)
                           /\ ConsumesAt(d, t)' <=> ConsumesAt(d, t)
      BY <1>0, <2>3 DEF UsesAt, ConsumesAt, CallAt, CallRow
    <3>2. flow'[t].exists => account'[flow'[t].user].exists
      BY <1>0, <2>1, <2>2 DEF AccountsOK, AccountsTypeOK, FlowRow, TokenFits
    <3> QED BY <2>1, <3>1, <3>2, TokenKept DEF AccountsOK
  <2>9. OneLiveToken'
    BY <2>1, <2>5, LiveKept DEF AccountsOK
  <2> QED BY <2>4, <2>6, <2>7, <2>8, <2>9 DEF AccountsOK
<1> QED BY <1>1, <1>2

\* After the invalidation no earlier token of the account and purpose is live.
LEMMA InvalidatingKeeps ==
  ASSUME AccountsOK, NEW c \in Calls, InvalidateEarlier(c)
  PROVE  AccountsOK'
<1>0. /\ AccountsTypeOK /\ call \in [Calls -> CallRow] /\ flow \in [FlowTokens -> FlowRow]
      /\ call[c] \in CallRow /\ CallFits(c) /\ CallAt(c, "invalidate")
      /\ UNCHANGED <<now, account, held, uses, shared, crossed, raced, flowBroken, broken>>
  BY DEF AccountsOK, AccountsTypeOK, InvalidateEarlier, accountsHistory
<1>1. /\ call' \in [Calls -> CallRow] /\ \A d \in Calls \ {c} : call'[d] = call[d]
      /\ call'[c] = [call[c] EXCEPT !.pc = "issue"]
  BY <1>0 DEF CallRow, InvalidateEarlier, CallGoes
<1>2. ASSUME NEW t \in FlowTokens
      PROVE  /\ flow'[t] \in FlowRow /\ flow'[t].user = flow[t].user
             /\ flow'[t].purpose = flow[t].purpose /\ flow'[t].exists = flow[t].exists
             /\ flow'[t].consumed = flow[t].consumed
             /\ Live(t)' => Live(t)
             /\ ~(Live(t)' /\ flow[t].user = call[c].user /\ flow[t].purpose = call[c].purpose)
  <2> DEFINE replaced == /\ Live(t) /\ flow[t].user = call[c].user
                         /\ flow[t].purpose = call[c].purpose
  <2>1. CASE replaced
    BY <1>0, <2>1 DEF InvalidateEarlier, FlowRow, Live
  <2>2. CASE ~replaced
    BY <1>0, <2>2 DEF InvalidateEarlier, FlowRow, Live
  <2> QED BY <2>1, <2>2
<1>3. AccountsTypeOK'
  <2>1. flow' \in [FlowTokens -> FlowRow]
    BY <1>2 DEF InvalidateEarlier
  <2> QED BY <1>0, <1>1, <2>1 DEF AccountsTypeOK
<1>4. ASSUME NEW d \in Calls PROVE CallFits(d)'
  <2>1. CASE d = c
    <3>1. /\ call'[c].pc = "issue" /\ call'[c].user = call[c].user
          /\ call'[c].password = call[c].password /\ call'[c].purpose = call[c].purpose
          /\ call'[c].registers = call[c].registers
      BY <1>0, <1>1 DEF CallRow
    <3>2. \A t \in FlowTokens :
            ~(Live(t)' /\ flow'[t].user = call'[c].user /\ flow'[t].purpose = call'[c].purpose)
      BY <1>2, <3>1
    <3> QED BY <1>0, <2>1, <3>1, <3>2 DEF CallFits, CallAt
  <2>2. CASE d # c
    BY <1>0, <1>1, <1>2, <2>2, CallKept DEF AccountsOK
  <2> QED BY <2>1, <2>2
<1>5. ASSUME NEW u \in Users PROVE UserFits(u)'
  BY <1>0, UserKept DEF AccountsOK
<1>6. ASSUME NEW t \in FlowTokens PROVE TokenFits(t)'
  <2>1. \A d \in Calls : /\ UsesAt(d, t)' => UsesAt(d, t)
                         /\ ConsumesAt(d, t)' <=> ConsumesAt(d, t)
    BY <1>0, <1>1 DEF UsesAt, ConsumesAt, CallAt, CallRow
  <2>2. flow'[t].exists => account'[flow'[t].user].exists
    BY <1>0, <1>2 DEF AccountsOK, TokenFits
  <2> QED BY <1>0, <1>2, <2>1, <2>2, TokenKept DEF AccountsOK
<1>7. OneLiveToken'
  BY <1>0, <1>2, LiveKept DEF AccountsOK
<1> QED BY <1>3, <1>4, <1>5, <1>6, <1>7 DEF AccountsOK

\* The token issued is the only live one of its account and purpose, or another
\* request was issuing one at the same time.
LEMMA IssuingKeeps ==
  ASSUME AccountsOK, NEW c \in Calls, NEW t \in FlowTokens, IssueToken(c, t)
  PROVE  AccountsOK'
<1> DEFINE u == call[c].user
<1> DEFINE p == call[c].purpose
<1>0. /\ AccountsTypeOK /\ call \in [Calls -> CallRow] /\ flow \in [FlowTokens -> FlowRow]
      /\ call[c] \in CallRow /\ u \in Users /\ p \in Purposes
      /\ CallFits(c) /\ CallAt(c, "issue") /\ ~flow[t].exists
      /\ UNCHANGED <<now, account, held, uses, shared, raced, flowBroken, broken>>
  BY DEF AccountsOK, AccountsTypeOK, IssueToken, CallRow
<1>1. /\ call' = [call EXCEPT ![c] = [call[c] EXCEPT !.pc = "mail", !.token = {t}]]
      /\ flow' = [flow EXCEPT ![t] =
           [flow[t] EXCEPT !.exists = TRUE, !.user = u, !.purpose = p]]
  BY <1>0 DEF IssueToken
<1>2. /\ call' \in [Calls -> CallRow] /\ \A d \in Calls \ {c} : call'[d] = call[d]
      /\ call'[c] = [call[c] EXCEPT !.pc = "mail", !.token = {t}]
  BY <1>0, <1>1 DEF CallRow
<1>3. /\ call'[c].pc = "mail" /\ call'[c].user = u /\ call'[c].password = call[c].password
      /\ call'[c].registers = call[c].registers
  BY <1>0, <1>2 DEF CallRow
<1>4. /\ flow' \in [FlowTokens -> FlowRow] /\ \A k \in FlowTokens \ {t} : flow'[k] = flow[k]
      /\ flow'[t].user = u /\ flow'[t].purpose = p /\ flow'[t].exists
      /\ flow'[t].consumed = flow[t].consumed
  BY <1>0, <1>1 DEF FlowRow
<1>5. /\ crossed \subseteq crossed' /\ crossed' \subseteq crossed \cup {<<u, p>>}
      /\ \A d \in Calls \ {c} :
           CallAt(d, "issue") /\ call[d].user = u /\ call[d].purpose = p
           => <<u, p>> \in crossed'
  BY DEF IssueToken, SameIssue
<1>6. \A k \in FlowTokens \ {t} : Live(k)' <=> Live(k)
  BY <1>4 DEF Live
<1>7. AccountsTypeOK'
  <2>1. crossed' \subseteq Users \X Purposes
    BY <1>0, <1>5 DEF AccountsTypeOK
  <2> QED BY <1>0, <1>2, <1>4, <2>1 DEF AccountsTypeOK
<1>8. ASSUME NEW d \in Calls PROVE CallFits(d)'
  <2>1. CASE d = c
    BY <1>0, <1>3, <2>1 DEF CallFits, CallAt
  <2>2. CASE d # c
    <3>1. CallFits(d) /\ call'[d] = call[d]
      BY <1>2, <2>2 DEF AccountsOK
    <3>2. ASSUME call[d].pc = "issue", NEW k \in FlowTokens, Live(k)',
                 flow'[k].user = call[d].user, flow'[k].purpose = call[d].purpose
          PROVE  <<call[d].user, call[d].purpose>> \in crossed'
      <4>1. CASE k = t
        BY <1>4, <1>5, <2>2, <3>2, <4>1 DEF CallAt
      <4>2. CASE k # t
        BY <1>4, <1>5, <1>6, <3>1, <3>2, <4>2 DEF CallFits
      <4> QED BY <4>1, <4>2
    <3> QED BY <1>0, <3>1, <3>2 DEF CallFits
  <2> QED BY <2>1, <2>2
<1>9. ASSUME NEW v \in Users PROVE UserFits(v)'
  BY <1>0, UserKept DEF AccountsOK
<1>10. ASSUME NEW k \in FlowTokens PROVE TokenFits(k)'
  <2>1. \A d \in Calls : /\ UsesAt(d, k)' => UsesAt(d, k)
                         /\ ConsumesAt(d, k)' <=> ConsumesAt(d, k)
    BY <1>0, <1>2, <1>3 DEF UsesAt, ConsumesAt, CallAt
  <2>2. flow'[k].exists => account'[flow'[k].user].exists
    BY <1>0, <1>4 DEF AccountsOK, TokenFits, CallFits, CallAt
  <2>3. flow[k].consumed => flow'[k].consumed
    BY <1>4
  <2> QED BY <1>0, <2>1, <2>2, <2>3, TokenKept DEF AccountsOK
<1>11. OneLiveToken'
  <2> SUFFICES ASSUME NEW t1 \in FlowTokens, NEW t2 \in FlowTokens, t1 # t2,
                      Live(t1)', Live(t2)', flow'[t1].user = flow'[t2].user,
                      flow'[t1].purpose = flow'[t2].purpose
               PROVE  <<flow'[t1].user, flow'[t1].purpose>> \in crossed'
    BY DEF OneLiveToken
  <2>1. CASE t1 = t
    BY <1>0, <1>4, <1>5, <1>6, <2>1 DEF CallFits, CallAt
  <2>2. CASE t2 = t
    BY <1>0, <1>4, <1>5, <1>6, <2>2 DEF CallFits, CallAt
  <2>3. CASE t1 # t /\ t2 # t
    BY <1>4, <1>5, <1>6, <2>3 DEF AccountsOK, OneLiveToken
  <2> QED BY <2>1, <2>2, <2>3
<1> QED BY <1>7, <1>8, <1>9, <1>10, <1>11 DEF AccountsOK

\* Mailing a token changes nothing of it that the invariant speaks of.
LEMMA MailingKeeps ==
  ASSUME AccountsOK, NEW c \in Calls, MailToken(c)
  PROVE  AccountsOK'
<1>0. /\ AccountsTypeOK /\ call \in [Calls -> CallRow] /\ flow \in [FlowTokens -> FlowRow]
      /\ call[c] \in CallRow /\ CallFits(c) /\ CallAt(c, "mail")
      /\ UNCHANGED <<now, account, held, uses, shared, crossed, raced, flowBroken, broken>>
  BY DEF AccountsOK, AccountsTypeOK, MailToken, accountsHistory
<1>1. /\ call' \in [Calls -> CallRow] /\ \A d \in Calls \ {c} : call'[d] = call[d]
      /\ \/ call'[c] = NoCall
         \/ call'[c] = [call[c] EXCEPT !.pc = "sign"] /\ call[c].registers
  BY <1>0, NoCallFits DEF MailToken, CallGoes, CallEnds, CallRow
<1>2. ASSUME NEW t \in FlowTokens
      PROVE  /\ flow'[t] \in FlowRow /\ flow'[t].user = flow[t].user
             /\ flow'[t].purpose = flow[t].purpose /\ flow'[t].exists = flow[t].exists
             /\ flow'[t].consumed = flow[t].consumed
             /\ Live(t)' <=> Live(t)
  <2>1. \/ flow'[t] = flow[t]
        \/ flow'[t] = [flow[t] EXCEPT !.mailed = TRUE]
    BY DEF MailToken
  <2>2. CASE flow'[t] = flow[t]
    BY <1>0, <2>2 DEF Live
  <2>3. CASE flow'[t] = [flow[t] EXCEPT !.mailed = TRUE]
    BY <1>0, <2>3 DEF FlowRow, Live
  <2> QED BY <2>1, <2>2, <2>3
<1>3. AccountsTypeOK'
  <2>1. flow' \in [FlowTokens -> FlowRow]
    BY <1>0, <1>2 DEF MailToken
  <2> QED BY <1>0, <1>1, <2>1 DEF AccountsTypeOK
<1>4. ASSUME NEW d \in Calls PROVE CallFits(d)'
  <2>1. CASE call'[d] = NoCall
    BY <2>1, EndedFits
  <2>2. CASE d = c /\ call'[c] = [call[c] EXCEPT !.pc = "sign"] /\ call[c].registers
    <3>1. /\ call'[c].pc = "sign" /\ call'[c].user = call[c].user
          /\ call'[c].password = call[c].password
      BY <1>0, <2>2 DEF CallRow
    <3> QED BY <1>0, <2>2, <3>1 DEF CallFits, CallAt
  <2>3. CASE d # c
    BY <1>0, <1>1, <1>2, <2>3, CallKept DEF AccountsOK
  <2> QED BY <1>1, <2>1, <2>2, <2>3
<1>5. ASSUME NEW u \in Users PROVE UserFits(u)'
  BY <1>0, UserKept DEF AccountsOK
<1>6. ASSUME NEW t \in FlowTokens PROVE TokenFits(t)'
  <2>1. call'[c].pc \in {"idle", "sign"}
    BY <1>0, <1>1 DEF CallRow, NoCall
  <2>2. \A d \in Calls : /\ UsesAt(d, t)' => UsesAt(d, t)
                         /\ ConsumesAt(d, t)' <=> ConsumesAt(d, t)
    BY <1>0, <1>1, <2>1 DEF UsesAt, ConsumesAt, CallAt
  <2>3. flow'[t].exists => account'[flow'[t].user].exists
    BY <1>0, <1>2 DEF AccountsOK, TokenFits
  <2> QED BY <1>0, <1>2, <2>2, <2>3, TokenKept DEF AccountsOK
<1>7. OneLiveToken'
  BY <1>0, <1>2, LiveKept DEF AccountsOK
<1> QED BY <1>3, <1>4, <1>5, <1>6, <1>7 DEF AccountsOK

\* A request that ends without touching an account or a token: the step's
\* history says so when the token it ends with was used.
LEMMA EndingKeeps ==
  ASSUME AccountsOK, NEW c \in Calls, CallEnds(c),
         CallAt(c, "consume") => call[c].token \subseteq flowBroken',
         flowBroken \subseteq flowBroken', flowBroken' \subseteq FlowTokens,
         broken' \in 0..MostBreaks, held' \in [Users -> SUBSET Seconds],
         \A u \in Users : held[u] \subseteq held'[u],
         account' \in [Users -> AccountRow],
         \A u \in Users : account'[u].exists = account[u].exists
                          /\ account'[u].password = account[u].password,
         \A u \in Users : UserFits(u)',
         UNCHANGED <<now, flow, uses, shared, crossed, raced>>
  PROVE  AccountsOK'
<1>0. AccountsTypeOK /\ call \in [Calls -> CallRow] /\ call[c] \in CallRow
  BY DEF AccountsOK, AccountsTypeOK
<1>1. /\ call' \in [Calls -> CallRow] /\ \A d \in Calls \ {c} : call'[d] = call[d]
      /\ call'[c] = NoCall
  BY <1>0, NoCallFits DEF CallEnds
<1>2. AccountsTypeOK'
  BY <1>0, <1>1 DEF AccountsTypeOK
<1>3. \A t \in FlowTokens : Live(t)' <=> Live(t)
  BY DEF Live
<1>4. ASSUME NEW d \in Calls PROVE CallFits(d)'
  <2>1. CASE d = c
    BY <1>1, <2>1, EndedFits
  <2>2. CASE d # c
    <3>1. call[d].user \in Users
      BY <1>0 DEF CallRow
    <3> QED BY <1>1, <1>3, <2>2, <3>1, CallKept DEF AccountsOK
  <2> QED BY <2>1, <2>2
<1>5. ASSUME NEW t \in FlowTokens PROVE TokenFits(t)'
  <2>1. ~UsesAt(c, t)' /\ ~ConsumesAt(c, t)'
    BY <1>1 DEF UsesAt, ConsumesAt, CallAt, NoCall
  <2>2. flow'[t].exists => account'[flow'[t].user].exists
    BY <1>0 DEF AccountsOK, AccountsTypeOK, FlowRow, TokenFits
  <2>3. CASE t \in flowBroken'
    BY <2>2, <2>3 DEF TokenFits
  <2>4. CASE t \notin flowBroken'
    <3>1. ~ConsumesAt(c, t)
      BY <2>4 DEF ConsumesAt
    <3>2. \A d \in Calls : /\ UsesAt(d, t)' => UsesAt(d, t)
                           /\ ConsumesAt(d, t)' <=> ConsumesAt(d, t)
      BY <1>1, <2>1, <3>1 DEF UsesAt, ConsumesAt, CallAt
    <3> QED BY <2>2, <3>2, TokenKept DEF AccountsOK
  <2> QED BY <2>3, <2>4
<1>6. OneLiveToken'
  BY <1>3, LiveKept DEF AccountsOK
<1> QED BY <1>2, <1>4, <1>5, <1>6 DEF AccountsOK

\* The session stored is of the account's password, unless a reset overtook the
\* request; the client has its token from that moment.
LEMMA StoringKeeps ==
  ASSUME AccountsOK, NEW c \in Calls, StoreSession(c)
  PROVE  AccountsOK'
<1> DEFINE u == call[c].user
<1> DEFINE s == [at |-> call[c].at, password |-> call[c].password]
<1>0. /\ AccountsTypeOK /\ account \in [Users -> AccountRow] /\ call[c] \in CallRow
      /\ held \in [Users -> SUBSET Seconds] /\ u \in Users /\ CallFits(c) /\ CallAt(c, "store")
      /\ CallEnds(c)
      /\ UNCHANGED <<now, flow, uses, shared, crossed, raced, flowBroken, broken>>
  BY DEF AccountsOK, AccountsTypeOK, StoreSession, CallRow, accountsHistory
<1>1. s \in SessionRow /\ s.at = call[c].at /\ s.password = call[c].password
  BY <1>0 DEF CallRow, SessionRow
<1>2. /\ account' = [account EXCEPT ![u] = [account[u] EXCEPT !.session = {s}]]
      /\ held' = [held EXCEPT ![u] = held[u] \cup {s.at}]
  BY <1>0, <1>1 DEF StoreSession
<1> HIDE DEF s
<1>3. /\ account' \in [Users -> AccountRow]
      /\ \A v \in Users : account'[v].exists = account[v].exists
                          /\ account'[v].password = account[v].password
      /\ account'[u].session = {s}
      /\ \A v \in Users \ {u} : account'[v] = account[v]
  BY <1>0, <1>1, <1>2 DEF AccountRow
<1>4. /\ held' \in [Users -> SUBSET Seconds] /\ s.at \in held'[u]
      /\ \A v \in Users : held[v] \subseteq held'[v]
  BY <1>0, <1>1, <1>2 DEF SessionRow
<1>5. ASSUME NEW v \in Users PROVE UserFits(v)'
  <2>1. CASE v = u
    BY <1>0, <1>1, <1>3, <1>4, <2>1 DEF UserFits, CallFits, CallAt
  <2>2. CASE v # u
    BY <1>0, <1>3, <1>4, <2>2, UserKept DEF AccountsOK
  <2> QED BY <2>1, <2>2
<1>6. ~CallAt(c, "consume") /\ flowBroken' \subseteq FlowTokens /\ broken' \in 0..MostBreaks
  BY <1>0 DEF CallAt, AccountsTypeOK
<1> QED BY <1>0, <1>3, <1>4, <1>5, <1>6, EndingKeeps

\* A request that breaks off between using and consuming a token leaves its mark.
LEMMA BreakingKeeps ==
  ASSUME AccountsOK, NEW c \in Calls, CallBreaks(c)
  PROVE  AccountsOK'
<1>0. /\ AccountsTypeOK /\ call[c] \in CallRow /\ CallEnds(c)
      /\ UNCHANGED <<now, account, flow, held, uses, shared, crossed, raced>>
  BY DEF AccountsOK, AccountsTypeOK, CallBreaks
<1>1. broken' \in 0..MostBreaks
  BY <1>0, AccountsAssumption DEF AccountsAssumption, AccountsTypeOK, CallBreaks
<1>2. /\ flowBroken \subseteq flowBroken' /\ flowBroken' \subseteq FlowTokens
      /\ CallAt(c, "consume") => call[c].token \subseteq flowBroken'
  BY <1>0 DEF CallBreaks, AccountsTypeOK, CallRow
<1>3. \A u \in Users : UserFits(u)'
  BY <1>0, UserKept DEF AccountsOK
<1> QED BY <1>0, <1>1, <1>2, <1>3, EndingKeeps DEF AccountsTypeOK

\* logout only takes the session away.
LEMMA LogoutKeeps ==
  ASSUME AccountsOK, NEW u \in Users, Logout(u)
  PROVE  AccountsOK'
<1>0. /\ AccountsTypeOK /\ account \in [Users -> AccountRow]
      /\ UNCHANGED <<now, flow, call, held, uses, shared, crossed, raced, flowBroken, broken>>
      /\ account' = [account EXCEPT ![u] = [account[u] EXCEPT !.session = {}]]
  BY DEF AccountsOK, AccountsTypeOK, Logout, accountsHistory
<1>1. /\ account' \in [Users -> AccountRow]
      /\ \A v \in Users : /\ account'[v].exists = account[v].exists
                          /\ account'[v].password = account[v].password
                          /\ account'[v].session \subseteq account[v].session
  BY <1>0 DEF AccountRow
<1>2. AccountsTypeOK'
  BY <1>0, <1>1 DEF AccountsTypeOK
<1>3. \A t \in FlowTokens : Live(t)' <=> Live(t)
  BY <1>0 DEF Live
<1>4. ASSUME NEW d \in Calls PROVE CallFits(d)'
  <2>1. call[d].user \in Users
    BY <1>0 DEF AccountsTypeOK, CallRow
  <2> QED BY <1>0, <1>1, <1>3, <2>1, CallKept DEF AccountsOK
<1>5. ASSUME NEW v \in Users PROVE UserFits(v)'
  BY <1>0, <1>1, UserKept DEF AccountsOK
<1>6. ASSUME NEW t \in FlowTokens PROVE TokenFits(t)'
  <2>1. \A d \in Calls : /\ UsesAt(d, t)' => UsesAt(d, t)
                         /\ ConsumesAt(d, t)' <=> ConsumesAt(d, t)
    BY <1>0 DEF UsesAt, ConsumesAt, CallAt
  <2>2. flow'[t].exists => account'[flow'[t].user].exists
    BY <1>0, <1>1 DEF AccountsOK, AccountsTypeOK, FlowRow, TokenFits
  <2> QED BY <1>0, <2>1, <2>2, TokenKept DEF AccountsOK
<1>7. OneLiveToken'
  BY <1>0, <1>3, LiveKept DEF AccountsOK
<1> QED BY <1>2, <1>4, <1>5, <1>6, <1>7 DEF AccountsOK

\* A token read while another request holds it is marked; if none does, it is
\* live and so was not used.
LEMMA ResolvingKeeps ==
  ASSUME AccountsOK, NEW c \in Calls, NEW t \in FlowTokens, ResolveToken(c, t)
  PROVE  AccountsOK'
<1> DEFINE u == flow[t].user
<1>0. /\ AccountsTypeOK /\ call \in [Calls -> CallRow] /\ flow[t] \in FlowRow
      /\ account[u] \in AccountRow /\ u \in Users /\ CallAt(c, "idle") /\ Live(t)
      /\ account[u].exists
      /\ UNCHANGED <<now, account, flow, held, uses, crossed, raced, flowBroken, broken>>
  BY DEF AccountsOK, AccountsTypeOK, ResolveToken, FlowRow, TokenFits, Live
<1> DEFINE r == [NoCall EXCEPT !.pc = "use", !.user = u, !.purpose = flow[t].purpose,
                               !.token = {t}, !.verified = account[u].verified]
<1>1. r \in CallRow
  BY <1>0, NoCallFits DEF CallRow, FlowRow, AccountRow
<1>2. r.pc = "use" /\ r.user = u /\ r.token = {t} /\ ~r.registers
  BY DEF NoCall
<1>3. call' = [call EXCEPT ![c] = r]
  BY DEF ResolveToken
<1> HIDE DEF r
<1>4. call' \in [Calls -> CallRow] /\ call'[c] = r /\ \A d \in Calls \ {c} : call'[d] = call[d]
  BY <1>0, <1>1, <1>3
<1>5. /\ shared \subseteq shared' /\ shared' \subseteq FlowTokens
      /\ t \notin shared' => Holding(t) = {}
  BY <1>0 DEF ResolveToken, AccountsTypeOK
<1>6. AccountsTypeOK'
  BY <1>0, <1>4, <1>5 DEF AccountsTypeOK
<1>7. \A k \in FlowTokens : Live(k)' <=> Live(k)
  BY <1>0 DEF Live
<1>8. ASSUME NEW d \in Calls PROVE CallFits(d)'
  <2>1. CASE d = c
    BY <1>0, <1>2, <1>4, <2>1 DEF CallFits
  <2>2. CASE d # c
    BY <1>0, <1>4, <1>7, <2>2, CallKept DEF AccountsOK
  <2> QED BY <2>1, <2>2
<1>9. ASSUME NEW v \in Users PROVE UserFits(v)'
  BY <1>0, UserKept DEF AccountsOK
<1>10. ASSUME NEW k \in FlowTokens PROVE TokenFits(k)'
  <2>1. TokenFits(k) /\ (flow'[k].exists => account'[flow'[k].user].exists)
    BY <1>0 DEF AccountsOK, TokenFits
  <2>2. CASE k # t
    <3>1. \A d \in Calls : /\ UsesAt(d, k)' => UsesAt(d, k)
                           /\ ConsumesAt(d, k)' <=> ConsumesAt(d, k)
      BY <1>0, <1>2, <1>4, <2>2 DEF UsesAt, ConsumesAt, CallAt
    <3> QED BY <1>0, <1>5, <2>1, <3>1, TokenKept
  <2>3. CASE k = t /\ t \in shared'
    BY <2>1, <2>3 DEF TokenFits
  <2>4. CASE k = t /\ t \notin shared'
    <3>1. CASE t \in flowBroken
      BY <1>0, <2>1, <2>4, <3>1 DEF TokenFits
    <3>2. CASE t \notin flowBroken
      <4>1. \A d \in Calls : ~UsesAt(d, t) /\ ~ConsumesAt(d, t)
        BY <1>5, <2>4 DEF Holding, UsesAt, ConsumesAt, CallAt
      <4>2. t \notin shared /\ ~flow[t].consumed
        BY <1>0, <1>5, <2>4 DEF Live
      <4>3. uses[t] \in Nat
        BY <1>0 DEF AccountsTypeOK
      <4>4. uses[t] = 0
        BY <2>1, <2>4, <3>2, <4>1, <4>2, <4>3 DEF TokenFits
      <4>5. \A d \in Calls : (UsesAt(d, t)' => d = c) /\ ~ConsumesAt(d, t)'
        BY <1>2, <1>4, <4>1 DEF UsesAt, ConsumesAt, CallAt
      <4> QED BY <1>0, <2>1, <2>4, <4>4, <4>5 DEF TokenFits
    <3> QED BY <3>1, <3>2
  <2> QED BY <2>2, <2>3, <2>4
<1>11. OneLiveToken'
  BY <1>0, <1>7, LiveKept DEF AccountsOK
<1> QED BY <1>6, <1>8, <1>9, <1>10, <1>11 DEF AccountsOK

\* A use is counted once for a token that only its request holds.
LEMMA UsingKeepsTokens ==
  ASSUME AccountsOK, NEW c \in Calls, CallAt(c, "use"), CallGoes(c, "consume"),
         uses' = uses \/ uses' = Used(c),
         \A u \in Users : account[u].exists => account'[u].exists,
         UNCHANGED <<flow, shared, flowBroken>>
  PROVE  /\ call' \in [Calls -> CallRow] /\ \A d \in Calls \ {c} : call'[d] = call[d]
         /\ call'[c] = [call[c] EXCEPT !.pc = "consume"]
         /\ uses' \in [FlowTokens -> Nat]
         /\ \A t \in FlowTokens : TokenFits(t)'
<1>0. /\ call \in [Calls -> CallRow] /\ call[c] \in CallRow /\ uses \in [FlowTokens -> Nat]
      /\ flow \in [FlowTokens -> FlowRow]
  BY DEF AccountsOK, AccountsTypeOK
<1>1. /\ call' \in [Calls -> CallRow] /\ \A d \in Calls \ {c} : call'[d] = call[d]
      /\ call'[c] = [call[c] EXCEPT !.pc = "consume"]
  BY <1>0 DEF CallGoes, CallRow
<1>2. uses' \in [FlowTokens -> Nat]
  BY <1>0 DEF Used
<1>3. call'[c].pc = "consume" /\ call'[c].token = call[c].token
  BY <1>0, <1>1 DEF CallRow
<1>4. ASSUME NEW t \in FlowTokens PROVE TokenFits(t)'
  <2>1. TokenFits(t) /\ (flow'[t].exists => account'[flow'[t].user].exists)
    BY <1>0 DEF AccountsOK, TokenFits, FlowRow
  <2>2. CASE t \in shared \cup flowBroken
    BY <2>1, <2>2 DEF TokenFits
  <2>3. CASE t \notin shared \cup flowBroken /\ t \notin call[c].token
    <3>1. \A d \in Calls : /\ UsesAt(d, t)' => UsesAt(d, t)
                           /\ ConsumesAt(d, t)' <=> ConsumesAt(d, t)
      BY <1>1, <1>3, <2>3 DEF UsesAt, ConsumesAt, CallAt
    <3>2. uses'[t] = uses[t]
      BY <2>3 DEF Used
    <3> QED BY <2>1, <3>1, <3>2, TokenKept
  <2>4. CASE t \notin shared \cup flowBroken /\ t \in call[c].token
    <3>1. UsesAt(c, t)
      BY <2>4 DEF UsesAt
    <3>2. uses[t] = 0 /\ \A d \in Calls : UsesAt(d, t) \/ ConsumesAt(d, t) => d = c
      BY <2>1, <2>4, <3>1 DEF TokenFits
    <3>3. uses'[t] \in {0, 1}
      BY <2>4, <3>2 DEF Used
    <3>4. /\ ConsumesAt(c, t)' /\ ~UsesAt(c, t)'
          /\ \A d \in Calls \ {c} : ~UsesAt(d, t)' /\ ~ConsumesAt(d, t)'
      BY <1>1, <1>3, <2>4, <3>2 DEF UsesAt, ConsumesAt, CallAt
    <3> QED BY <2>1, <2>4, <3>3, <3>4 DEF TokenFits
  <2> QED BY <2>2, <2>3, <2>4
<1> QED BY <1>1, <1>2, <1>4

\* Verifying an address leaves passwords and sessions alone.
LEMMA VerifyingKeeps ==
  ASSUME AccountsOK, NEW c \in Calls, UseVerification(c)
  PROVE  AccountsOK'
<1>0. /\ AccountsTypeOK /\ account \in [Users -> AccountRow] /\ call[c] \in CallRow
      /\ call[c].user \in Users /\ CallAt(c, "use") /\ CallGoes(c, "consume") /\ CallFits(c)
      /\ uses' = uses \/ uses' = Used(c)
      /\ UNCHANGED <<now, flow, held, shared, crossed, raced, flowBroken, broken>>
  BY DEF AccountsOK, AccountsTypeOK, UseVerification, CallRow
<1>1. /\ account' \in [Users -> AccountRow]
      /\ \A u \in Users : /\ account'[u].exists = account[u].exists
                          /\ account'[u].password = account[u].password
                          /\ account'[u].session = account[u].session
  <2>1. \/ account' = account
        \/ account' = [account EXCEPT ![call[c].user] =
                         [account[call[c].user] EXCEPT !.verified = TRUE]]
    BY <1>0 DEF UseVerification
  <2>2. CASE account' = account
    BY <1>0, <2>2
  <2>3. CASE account' = [account EXCEPT ![call[c].user] =
                           [account[call[c].user] EXCEPT !.verified = TRUE]]
    BY <1>0, <2>3 DEF AccountRow
  <2> QED BY <2>1, <2>2, <2>3
<1>2. /\ call' \in [Calls -> CallRow] /\ \A d \in Calls \ {c} : call'[d] = call[d]
      /\ call'[c] = [call[c] EXCEPT !.pc = "consume"]
      /\ uses' \in [FlowTokens -> Nat]
      /\ \A t \in FlowTokens : TokenFits(t)'
  BY <1>0, <1>1, UsingKeepsTokens
<1>3. AccountsTypeOK'
  BY <1>0, <1>1, <1>2 DEF AccountsTypeOK
<1>4. \A t \in FlowTokens : Live(t)' <=> Live(t)
  BY <1>0 DEF Live
<1>5. ASSUME NEW d \in Calls PROVE CallFits(d)'
  <2>1. CASE d = c
    <3>1. /\ call'[c].pc = "consume" /\ call'[c].user = call[c].user
          /\ call'[c].registers = call[c].registers
      BY <1>0, <1>2 DEF CallRow
    <3> QED BY <1>0, <1>1, <2>1, <3>1 DEF CallFits, CallAt
  <2>2. CASE d # c
    <3>1. call[d].user \in Users
      BY <1>0 DEF AccountsTypeOK, CallRow
    <3> QED BY <1>0, <1>1, <1>2, <1>4, <2>2, <3>1, CallKept DEF AccountsOK
  <2> QED BY <2>1, <2>2
<1>6. ASSUME NEW u \in Users PROVE UserFits(u)'
  BY <1>0, <1>1, UserKept DEF AccountsOK
<1>7. OneLiveToken'
  BY <1>0, <1>4, LiveKept DEF AccountsOK
<1> QED BY <1>2, <1>3, <1>5, <1>6, <1>7 DEF AccountsOK

\* A reset changes the password under the requests that have read it, and marks
\* the account when there is one; the session goes in the same statement.
LEMMA ResettingKeeps ==
  ASSUME AccountsOK, NEW c \in Calls, UseReset(c)
  PROVE  AccountsOK'
<1> DEFINE u == call[c].user
<1>0. /\ AccountsTypeOK /\ account \in [Users -> AccountRow] /\ call[c] \in CallRow
      /\ u \in Users /\ account[u] \in AccountRow
      /\ CallAt(c, "use") /\ CallGoes(c, "consume") /\ CallFits(c)
      /\ uses' = Used(c) /\ account[u].password < LastPassword
      /\ UNCHANGED <<now, flow, held, shared, crossed, flowBroken, broken>>
      /\ account' = [account EXCEPT ![u] =
           [account[u] EXCEPT !.password = account[u].password + 1, !.session = {}]]
  BY DEF AccountsOK, AccountsTypeOK, UseReset, CallRow
<1>1. /\ account' \in [Users -> AccountRow]
      /\ \A v \in Users \ {u} : account'[v] = account[v]
      /\ account'[u].exists = account[u].exists /\ account'[u].session = {}
  <2>1. account[u].password + 1 \in 0..LastPassword
    BY <1>0, AccountsAssumption DEF AccountsAssumption, AccountRow
  <2> QED BY <1>0, <2>1 DEF AccountRow
<1>2. /\ call' \in [Calls -> CallRow] /\ \A d \in Calls \ {c} : call'[d] = call[d]
      /\ call'[c] = [call[c] EXCEPT !.pc = "consume"]
      /\ uses' \in [FlowTokens -> Nat]
      /\ \A t \in FlowTokens : TokenFits(t)'
  <2>1. \A v \in Users : account[v].exists => account'[v].exists
    BY <1>1
  <2> QED BY <1>0, <2>1, UsingKeepsTokens
<1>3. /\ raced \subseteq raced' /\ raced' \subseteq raced \cup {u}
      /\ \A d \in Opening(u) : d # c => u \in raced'
  BY DEF UseReset
<1>4. AccountsTypeOK'
  BY <1>0, <1>1, <1>2, <1>3 DEF AccountsTypeOK
<1>5. \A t \in FlowTokens : Live(t)' <=> Live(t)
  BY <1>0 DEF Live
<1>6. ASSUME NEW d \in Calls PROVE CallFits(d)'
  <2>0. call[d].user \in Users /\ CallFits(d)
    BY <1>0 DEF AccountsOK, AccountsTypeOK, CallRow
  <2>1. CASE d = c
    <3>1. /\ call'[c].pc = "consume" /\ call'[c].user = u
          /\ call'[c].registers = call[c].registers
      BY <1>0, <1>2 DEF CallRow
    <3> QED BY <1>0, <1>1, <2>1, <3>1 DEF CallFits, CallAt
  <2>2. CASE d # c /\ call[d].user # u
    BY <1>0, <1>1, <1>2, <1>3, <1>5, <2>0, <2>2, CallKept
  <2>3. CASE d # c /\ call[d].user = u
    <3>1. call'[d] = call[d]
      BY <1>2, <2>3
    <3>2. call[d].registers \/ call[d].pc \in {"sign", "store"} => u \in raced'
      BY <1>3, <2>3 DEF Opening
    <3> QED BY <1>0, <1>1, <1>5, <2>0, <2>3, <3>1, <3>2 DEF CallFits
  <2> QED BY <2>1, <2>2, <2>3
<1>7. ASSUME NEW v \in Users PROVE UserFits(v)'
  <2>1. CASE v = u
    BY <1>0, <1>1, <2>1 DEF UserFits, CallFits, CallAt
  <2>2. CASE v # u
    BY <1>0, <1>1, <1>3, <2>2, UserKept DEF AccountsOK
  <2> QED BY <2>1, <2>2
<1>8. OneLiveToken'
  BY <1>0, <1>5, LiveKept DEF AccountsOK
<1> QED BY <1>2, <1>4, <1>6, <1>7, <1>8 DEF AccountsOK

\* Who consumes a token gives it up, and it stays consumed.
LEMMA ConsumingKeeps ==
  ASSUME AccountsOK, NEW c \in Calls, ConsumeToken(c)
  PROVE  AccountsOK'
<1>0. /\ AccountsTypeOK /\ call \in [Calls -> CallRow] /\ flow \in [FlowTokens -> FlowRow]
      /\ call[c] \in CallRow /\ CallAt(c, "consume") /\ CallEnds(c)
      /\ UNCHANGED <<now, account, held, uses, shared, crossed, raced, flowBroken, broken>>
  BY DEF AccountsOK, AccountsTypeOK, ConsumeToken, accountsHistory
<1>1. /\ call' \in [Calls -> CallRow] /\ \A d \in Calls \ {c} : call'[d] = call[d]
      /\ call'[c] = NoCall
  BY <1>0, NoCallFits DEF CallEnds
<1>2. ASSUME NEW t \in FlowTokens
      PROVE  /\ flow'[t] \in FlowRow /\ flow'[t].user = flow[t].user
             /\ flow'[t].purpose = flow[t].purpose /\ flow'[t].exists = flow[t].exists
             /\ flow[t].consumed => flow'[t].consumed
             /\ t \in call[c].token => flow'[t].consumed
             /\ Live(t)' => Live(t)
  <2>1. CASE t \in call[c].token
    <3>1. flow'[t] = [flow[t] EXCEPT !.consumed = TRUE]
      BY <2>1 DEF ConsumeToken
    <3> QED BY <1>0, <2>1, <3>1 DEF FlowRow, Live
  <2>2. CASE t \notin call[c].token
    <3>1. flow'[t] = flow[t]
      BY <2>2 DEF ConsumeToken
    <3> QED BY <1>0, <2>2, <3>1 DEF Live
  <2> QED BY <2>1, <2>2
<1>3. AccountsTypeOK'
  <2>1. flow' \in [FlowTokens -> FlowRow]
    BY <1>2 DEF ConsumeToken
  <2> QED BY <1>0, <1>1, <2>1 DEF AccountsTypeOK
<1>4. ASSUME NEW d \in Calls PROVE CallFits(d)'
  <2>1. CASE d = c
    BY <1>1, <2>1, EndedFits
  <2>2. CASE d # c
    BY <1>0, <1>1, <1>2, <2>2, CallKept DEF AccountsOK
  <2> QED BY <2>1, <2>2
<1>5. ASSUME NEW u \in Users PROVE UserFits(u)'
  BY <1>0, UserKept DEF AccountsOK
<1>6. ASSUME NEW t \in FlowTokens PROVE TokenFits(t)'
  <2>1. TokenFits(t) /\ (flow'[t].exists => account'[flow'[t].user].exists)
    BY <1>0, <1>2 DEF AccountsOK, TokenFits
  <2>2. ~UsesAt(c, t)' /\ ~ConsumesAt(c, t)'
    BY <1>1 DEF UsesAt, ConsumesAt, CallAt, NoCall
  <2>3. \A d \in Calls \ {c} : (UsesAt(d, t)' <=> UsesAt(d, t))
                               /\ (ConsumesAt(d, t)' <=> ConsumesAt(d, t))
    BY <1>1 DEF UsesAt, ConsumesAt, CallAt
  <2>4. CASE t \in call[c].token
    BY <1>0, <1>2, <2>1, <2>2, <2>3, <2>4 DEF TokenFits
  <2>5. CASE t \notin call[c].token
    <3>1. ~ConsumesAt(c, t)
      BY <2>5 DEF ConsumesAt
    <3>2. \A d \in Calls : /\ UsesAt(d, t)' => UsesAt(d, t)
                           /\ ConsumesAt(d, t)' <=> ConsumesAt(d, t)
      BY <2>2, <2>3, <3>1
    <3> QED BY <1>0, <1>2, <2>1, <3>2, TokenKept
  <2> QED BY <2>4, <2>5
<1>7. OneLiveToken'
  BY <1>0, <1>2, LiveKept DEF AccountsOK
<1> QED BY <1>3, <1>4, <1>5, <1>6, <1>7 DEF AccountsOK

\* What is stated of rows only holds on while no variable but the clock changes.
LEMMA TimeKeeps ==
  ASSUME AccountsOK, now' \in Seconds, UNCHANGED <<account, flow, call, held, accountsHistory>>
  PROVE  AccountsOK'
<1>1. UNCHANGED <<uses, shared, crossed, raced, flowBroken, broken>>
  BY DEF accountsHistory
<1>2. AccountsTypeOK'
  BY <1>1 DEF AccountsOK, AccountsTypeOK
<1>3. \A c \in Calls : CallFits(c)'
  BY <1>1 DEF AccountsOK, CallFits, Live
<1>4. \A u \in Users : UserFits(u)'
  BY <1>1 DEF AccountsOK, UserFits
<1>5. \A t \in FlowTokens : TokenFits(t)'
  BY <1>1 DEF AccountsOK, TokenFits, UsesAt, ConsumesAt, CallAt
<1>6. OneLiveToken'
  BY <1>1 DEF AccountsOK, OneLiveToken, Live
<1> QED BY <1>2, <1>3, <1>4, <1>5, <1>6 DEF AccountsOK

-------------------------------------------------------------------------------
(* The invariant *)

\* Nobody is registered, and no request is under way.
LEMMA AccountsInitOK == AccountsInit => AccountsOK
<1> SUFFICES ASSUME AccountsInit PROVE AccountsOK
  OBVIOUS
<1>1. AccountsTypeOK
  BY NoCallFits, AccountsAssumption
  DEF AccountsInit, AccountsTypeOK, AccountsAssumption, AccountRow, FlowRow, Seconds, Purposes
<1>2. ASSUME NEW c \in Calls PROVE CallFits(c)
  BY DEF AccountsInit, CallFits, NoCall
<1>3. ASSUME NEW u \in Users PROVE UserFits(u)
  BY DEF AccountsInit, UserFits
<1>4. ASSUME NEW t \in FlowTokens PROVE TokenFits(t)
  BY DEF AccountsInit, TokenFits, UsesAt, ConsumesAt, CallAt, NoCall
<1>5. OneLiveToken
  BY DEF AccountsInit, OneLiveToken, Live
<1> QED BY <1>1, <1>2, <1>3, <1>4, <1>5 DEF AccountsOK

\* Every step of every request keeps the invariant.
LEMMA AccountsNextOK == AccountsOK /\ [AccountsNext]_accountsVars => AccountsOK'
<1> SUFFICES ASSUME AccountsOK, [AccountsNext]_accountsVars PROVE AccountsOK'
  OBVIOUS
<1>0. now \in Seconds
  BY DEF AccountsOK, AccountsTypeOK
<1>1. CASE SecondPasses
  <2>1. now' \in Seconds
    BY <1>0, <1>1, AccountsAssumption DEF AccountsAssumption, SecondPasses, Seconds
  <2> QED BY <1>1, <2>1, TimeKeeps DEF SecondPasses
<1>2. ASSUME NEW u \in Users, Logout(u) PROVE AccountsOK'
  BY <1>2, LogoutKeeps
<1>3. ASSUME NEW c \in Calls,
             \/ CreateUser(c) \/ InvalidateEarlier(c) \/ MailToken(c) \/ CallBreaks(c)
             \/ StoreSession(c) \/ UseVerification(c) \/ UseReset(c) \/ ConsumeToken(c)
      PROVE  AccountsOK'
  BY <1>3, CreatingKeeps, InvalidatingKeeps, MailingKeeps, BreakingKeeps, StoringKeeps,
     VerifyingKeeps, ResettingKeeps, ConsumingKeeps
<1>4. ASSUME NEW c \in Calls, SignTokens(c) PROVE AccountsOK'
  BY <1>4, NoCallFits, ReadingKeeps
<1>5. ASSUME NEW c \in Calls, NEW t \in FlowTokens, IssueToken(c, t) \/ ResolveToken(c, t)
      PROVE  AccountsOK'
  BY <1>5, IssuingKeeps, ResolvingKeeps
<1>6. ASSUME NEW c \in Calls, NEW u \in Users,
             \/ Register(c, u) \/ AskVerification(c, u) \/ AskReset(c, u) \/ Login(c, u)
             \/ \E token \in Seconds : Refresh(c, u, token)
      PROVE  AccountsOK'
  BY <1>6, ReadingKeeps
<1>7. CASE UNCHANGED accountsVars
  BY <1>0, <1>7, TimeKeeps DEF accountsVars
<1> QED
  BY <1>1, <1>2, <1>3, <1>4, <1>5, <1>6, <1>7 DEF AccountsNext

\* However registrations, logins, mailed tokens and resets interleave, a mailed
\* token verifies or resets once unless two requests read it together or one
\* broke off before consuming it, an account has one live token of a purpose
\* unless two were issued together, and after resetPassword no session of the
\* old password is left unless one was being opened meanwhile.
THEOREM AccountsSafe ==
  AccountsSpec => [](AccountsTypeOK /\ FlowTokensHold /\ ResetEndsSessions)
<1>1. AccountsOK => AccountsTypeOK /\ FlowTokensHold /\ ResetEndsSessions
  <2> SUFFICES ASSUME AccountsOK
               PROVE  AccountsTypeOK /\ FlowTokensHold /\ ResetEndsSessions
    OBVIOUS
  <2>1. ASSUME NEW t \in FlowTokens, uses[t] > 1 PROVE t \in shared \cup flowBroken
    <3>1. uses[t] \in Nat /\ TokenFits(t)
      BY DEF AccountsOK, AccountsTypeOK
    <3> QED BY <2>1, <3>1 DEF TokenFits
  <2>2. ResetEndsSessions
    BY DEF AccountsOK, UserFits, ResetEndsSessions
  <2> QED BY <2>1, <2>2 DEF AccountsOK, FlowTokensHold, FlowTokenUsedOnce
<1> QED
  BY <1>1, AccountsInitOK, AccountsNextOK, PTL DEF AccountsSpec

-------------------------------------------------------------------------------
(* Onboarding *)

\* A timer is the typed slug's, and the last slug asked about is the typed one
\* once its timer has fired; what a success is about is that slug, once no
\* check of it is under way.
OnboardingOK ==
  /\ OnboardingTypeOK
  /\ form.timer \in {form.slug, NoWord}
  /\ form.slug # NoWord /\ form.timer = NoWord =>
       /\ asked = form.slug
       /\ verdict.kind = "success" /\ ~Pending(form.slug) => verdict.word = form.slug
  /\ opening.pc = "sent" => opening.word \in Words
  /\ SentSlugWasFreeOnceChecked

\* The invariant holds at first.
LEMMA OnboardingInitOK == OnboardingInit => OnboardingOK
  BY DEF OnboardingInit, OnboardingOK, OnboardingTypeOK, NoCheck, NotOpening, Undecided,
         SentSlugWasFreeOnceChecked

\* Typing makes the last verdict undecided.
LEMMA TypingKeeps ==
  ASSUME OnboardingOK, NEW word \in Words \cup {NoWord}, TypeName(word) \/ TypeSlug(word)
  PROVE  OnboardingOK'
<1>1. /\ Typed(word) /\ form'.slug = word /\ form'.timer = word
      /\ form' \in [slug : Words \cup {NoWord}, custom : BOOLEAN, timer : Words \cup {NoWord}]
  <2>1. CASE TypeName(word)
    BY <2>1 DEF TypeName, OnboardingOK, OnboardingTypeOK
  <2>2. CASE TypeSlug(word)
    BY <2>2 DEF TypeSlug
  <2> QED BY <2>1, <2>2
<1>2. UNCHANGED <<taken, asked, check, opening>>
      /\ verdict' \in [kind : Undecided \cup {"success", "warning", "error"},
                       word : Words \cup {NoWord}]
  BY <1>1 DEF Typed, OnboardingOK, OnboardingTypeOK, Undecided
<1>3. OnboardingTypeOK'
  BY <1>1, <1>2 DEF OnboardingOK, OnboardingTypeOK
<1> QED BY <1>1, <1>2, <1>3 DEF OnboardingOK, SentSlugWasFreeOnceChecked

\* The timer's check is under way when its slug becomes the last asked about.
LEMMA TimerKeeps ==
  ASSUME OnboardingOK, NEW q \in Checks, TimerFires(q)
  PROVE  OnboardingOK'
<1> USE DEF TimerFires
<1>1. /\ form'.slug = form.slug /\ form'.timer = NoWord /\ asked' = form.slug
      /\ check'[q].pc = "sent" /\ check'[q].word = form.slug
      /\ UNCHANGED <<taken, verdict, opening>>
  BY DEF OnboardingOK, OnboardingTypeOK
<1>2. OnboardingTypeOK'
  BY DEF OnboardingOK, OnboardingTypeOK
<1>3. Pending(form.slug)'
  BY <1>1 DEF Pending
<1> QED BY <1>1, <1>2, <1>3 DEF OnboardingOK, SentSlugWasFreeOnceChecked

\* An answer on its way is still waited for.
LEMMA ServingKeeps ==
  ASSUME OnboardingOK, NEW q \in Checks, ServeCheck(q)
  PROVE  OnboardingOK'
<1>1. PICK pc \in {"free", "used", "failed"} : check' = [check EXCEPT ![q].pc = pc]
  BY DEF ServeCheck
<1>2. check[q].pc = "sent" /\ UNCHANGED <<taken, form, verdict, asked, opening>>
  BY DEF ServeCheck
<1>3. OnboardingTypeOK'
  BY <1>1, <1>2 DEF OnboardingOK, OnboardingTypeOK
<1>4. /\ check'[q].pc = pc /\ check'[q].word = check[q].word
      /\ \A g \in Checks \ {q} : check'[g] = check[g]
  BY <1>1 DEF OnboardingOK, OnboardingTypeOK
<1>5. Pending(form.slug) => Pending(form.slug)'
  BY <1>2, <1>4 DEF Pending
<1> QED BY <1>2, <1>3, <1>5 DEF OnboardingOK, SentSlugWasFreeOnceChecked

\* An answer that counts is about the last slug asked about; another's leaves
\* the checks of that one as they are.
LEMMA AnswerKeeps ==
  ASSUME OnboardingOK, NEW q \in Checks, ReceiveCheck(q)
  PROVE  OnboardingOK'
<1>1. check' = [check EXCEPT ![q] = NoCheck] /\ UNCHANGED <<taken, form, asked, opening>>
  BY DEF ReceiveCheck
<1>2. \/ check[q].word # asked /\ UNCHANGED verdict
      \/ /\ check[q].word = asked /\ verdict'.word = asked
         /\ verdict' \in [kind : Undecided \cup {"success", "warning", "error"},
                          word : Words \cup {NoWord}]
  BY DEF ReceiveCheck, OnboardingOK, OnboardingTypeOK
<1>3. OnboardingTypeOK'
  BY <1>1, <1>2 DEF OnboardingOK, OnboardingTypeOK, NoCheck
<1>4. \A g \in Checks \ {q} : check'[g] = check[g]
  BY <1>1 DEF OnboardingOK, OnboardingTypeOK
<1>5. ASSUME form.slug # NoWord, form.timer = NoWord
      PROVE  verdict'.kind = "success" /\ ~Pending(form.slug)' => verdict'.word = form.slug
  <2>1. CASE check[q].word = asked
    BY <1>2, <1>5, <2>1 DEF OnboardingOK
  <2>2. CASE check[q].word # asked
    <3>1. Pending(form.slug) => Pending(form.slug)'
      BY <1>1, <1>4, <1>5, <2>2 DEF Pending, OnboardingOK
    <3> QED BY <1>2, <1>5, <2>2, <3>1 DEF OnboardingOK
  <2> QED BY <2>1, <2>2
<1> QED BY <1>1, <1>3, <1>5 DEF OnboardingOK, SentSlugWasFreeOnceChecked

\* Every step keeps the invariant.
LEMMA OnboardingNextOK == OnboardingOK /\ [OnboardingNext]_onboardingVars => OnboardingOK'
<1> SUFFICES ASSUME OnboardingOK, [OnboardingNext]_onboardingVars PROVE OnboardingOK'
  OBVIOUS
<1>1. ASSUME SubmitStore \/ OpenStore \/ ReceiveStore PROVE OnboardingOK'
  <2>1. UNCHANGED <<form, verdict, asked, check>> /\ taken' \subseteq Words
    BY <1>1 DEF SubmitStore, OpenStore, ReceiveStore, OnboardingOK, OnboardingTypeOK
  <2>2. opening'.pc \in {"idle", "sent", "opened", "refused", "done"}
        /\ (opening'.pc = "sent" => opening'.word \in Words)
        /\ SentSlugWasFreeOnceChecked'
    <3>1. CASE SubmitStore
      <4>1. form.timer # NoWord \/ Pending(form.slug) \/ verdict.word = form.slug
        BY <3>1 DEF SubmitStore, OnboardingOK
      <4>2. form.slug \in Words
        BY <3>1 DEF SubmitStore, OnboardingOK, OnboardingTypeOK
      <4> QED BY <3>1, <4>1, <4>2 DEF SubmitStore, SentSlugWasFreeOnceChecked
    <3>2. CASE OpenStore
      <4>1. PICK pc \in {"opened", "refused"} : opening' = [opening EXCEPT !.pc = pc]
        BY <3>2 DEF OpenStore
      <4>2. opening.pc = "sent"
        BY <3>2 DEF OpenStore
      <4>3. opening'.pc = pc
        BY <4>1, <4>2
      <4>4. opening'.word = opening.word /\ opening'.found = opening.found
            /\ opening'.hasty = opening.hasty
        BY <4>1
      <4> QED BY <4>2, <4>3, <4>4 DEF OnboardingOK, SentSlugWasFreeOnceChecked
    <3>3. CASE ReceiveStore
      BY <3>3 DEF ReceiveStore, NotOpening, OnboardingOK, SentSlugWasFreeOnceChecked
    <3> QED BY <1>1, <3>1, <3>2, <3>3
  <2> QED BY <2>1, <2>2 DEF OnboardingOK, OnboardingTypeOK, Pending
<1>2. ASSUME NEW word \in Words, OthersTake(word) PROVE OnboardingOK'
  BY <1>2 DEF OthersTake, OnboardingOK, OnboardingTypeOK, Pending, SentSlugWasFreeOnceChecked
<1>3. CASE UNCHANGED onboardingVars
  BY <1>3 DEF onboardingVars, OnboardingOK, OnboardingTypeOK, Pending,
              SentSlugWasFreeOnceChecked
<1> QED
  BY <1>1, <1>2, <1>3, TypingKeeps, TimerKeeps, ServingKeeps, AnswerKeeps DEF OnboardingNext

\* However checks overlap and answers cross, the slug a new store is opened
\* with is the one the form was told is free, unless it was sent before its own
\* check had ended.
THEOREM OnboardingSafe == OnboardingSpec => [](OnboardingTypeOK /\ SentSlugWasFreeOnceChecked)
<1>1. OnboardingOK => OnboardingTypeOK /\ SentSlugWasFreeOnceChecked
  BY DEF OnboardingOK
<1> QED BY <1>1, OnboardingInitOK, OnboardingNextOK, PTL DEF OnboardingSpec

-------------------------------------------------------------------------------
(* AdminConsole *)

AdminSession == [token : Staff \cup {NoStaff}, user : Staff \cup {NoStaff},
                 loading : BOOLEAN, overtaken : BOOLEAN]
AdminPanel == [list : Staff \cup {NoStaff}, detail : Subjects \cup {NoSubject}]
AdminQuery ==
  [pc : {"idle", "sent", "done", "refused"},
   kind : {"none", "restore", "login", "enter", "refresh", "logout"} \cup PanelQueries,
   who : Staff \cup {NoStaff}, of : Subjects \cup {NoSubject}, old : BOOLEAN]

\* The requests after which a session begins.
Entering == {"login", "restore", "enter"}

\* What a request r is, in a session a.  While no answer of an earlier session
\* has come, those of this one are of its token, one at a time opens it, and
\* only a refresh or a leave can be of an earlier one.
QueryFits(r, a) ==
  /\ r.kind = "none" <=> r.pc = "idle"
  /\ r.kind = "none" => ~r.old
  /\ r.kind \in PanelQueries =>
       ~r.old /\ PageOfSession(a) = "sections" /\ (r.pc = "done" => r.who \in Admins)
  /\ r.kind = "restore" => ~r.old /\ ~a.overtaken
  /\ ~a.overtaken /\ r.old => r.kind \in {"refresh", "logout"}
  /\ ~a.overtaken /\ ~r.old =>
       /\ r.kind \in Entering => a.user = NoStaff /\ a.loading
       /\ r.kind \in {"refresh", "logout"} => a.user # NoStaff
       /\ r.kind \in {"enter", "restore", "refresh"} \cup PanelQueries => r.who = a.token

QueriesFit(queries, a) ==
  /\ queries \in [Queries -> AdminQuery]
  /\ \A q \in Queries : QueryFits(queries[q], a)
  /\ \A q \in Queries : queries[q].kind = "restore" =>
       \A r \in Queries \ {q} : queries[r].kind = "none"
  /\ ~a.overtaken =>
       \A q, r \in Queries : queries[q].kind \in Entering /\ queries[r].kind \in Entering
                             => q = r

PanelFits(p, a) ==
  /\ PageOfSession(a) # "sections" => p = EmptyPanel
  /\ p.list \in Admins \cup {NoStaff}
  /\ ~a.overtaken => p.list \in {a.token, NoStaff}

SessionFits(a) == ~a.overtaken /\ a.user # NoStaff => a.user = a.token

AdminOK ==
  /\ AdminTypeOK
  /\ SessionFits(admin)
  /\ QueriesFit(query, admin)
  /\ PanelFits(panel, admin)

\* The invariant holds at first.
LEMMA AdminInitOK == AdminInit => AdminOK
  BY AdminAssumption
  DEF AdminInit, AdminOK, AdminTypeOK, SessionFits, QueriesFit, QueryFits, PanelFits, Left,
      NoQuery, EmptyPanel, PageOfSession, AdminQuery, PanelQueries, Entering

\* No request fits every session.
LEMMA NoQueryFits ==
  ASSUME NEW a
  PROVE  NoQuery \in AdminQuery /\ QueryFits(NoQuery, a)
BY DEF NoQuery, AdminQuery, QueryFits, PanelQueries, Entering

\* A request that is over leaves the others as they fit.
LEMMA ClosesFit ==
  ASSUME NEW a, NEW queries, QueriesFit(queries, a), NEW q \in Queries
  PROVE  QueriesFit([queries EXCEPT ![q] = NoQuery], a)
<1> DEFINE rest == [queries EXCEPT ![q] = NoQuery]
<1>1. /\ rest \in [Queries -> AdminQuery]
      /\ \A r \in Queries : rest[r] = IF r = q THEN NoQuery ELSE queries[r]
  BY NoQueryFits DEF QueriesFit
<1>2. NoQuery.kind = "none"
  BY DEF NoQuery
<1> HIDE DEF rest
<1>3. \A r \in Queries : QueryFits(rest[r], a)
  BY <1>1, NoQueryFits DEF QueriesFit
<1>4. \A r \in Queries : rest[r].kind \notin {"none"} => rest[r] = queries[r]
  BY <1>1, <1>2
<1>5. \A r \in Queries : rest[r].kind # "none" => queries[r].kind # "none"
  BY <1>4
<1>6. \A r \in Queries : queries[r].kind = "none" => rest[r].kind = "none"
  BY <1>5
<1>7. \A r \in Queries : rest[r].kind \in Entering => queries[r].kind \in Entering
  BY <1>4 DEF Entering
<1>8. \A r \in Queries : rest[r].kind = "restore" => queries[r].kind = "restore"
  BY <1>4
<1> QED BY <1>1, <1>3, <1>6, <1>7, <1>8 DEF QueriesFit, rest

\* So do the requests of a section that has gone.
LEMMA UnmountedFit ==
  ASSUME NEW a, NEW queries, QueriesFit(queries, a)
  PROVE  QueriesFit(Unmounted(queries), a)
<1> DEFINE rest == Unmounted(queries)
<1>1. /\ rest \in [Queries -> AdminQuery]
      /\ \A r \in Queries : rest[r] = NoQuery \/ rest[r] = queries[r]
  BY NoQueryFits DEF QueriesFit, Unmounted
<1>2. NoQuery.kind = "none"
  BY DEF NoQuery
<1> HIDE DEF rest
<1>3. \A r \in Queries : QueryFits(rest[r], a)
  BY <1>1, NoQueryFits DEF QueriesFit
<1>4. \A r \in Queries : rest[r].kind # "none" => rest[r] = queries[r]
  BY <1>1, <1>2
<1>5. \A r \in Queries : queries[r].kind = "none" => rest[r].kind = "none"
  BY <1>4
<1>6. \A r \in Queries : rest[r].kind \in Entering => queries[r].kind \in Entering
  BY <1>4 DEF Entering
<1>7. \A r \in Queries : rest[r].kind = "restore" => queries[r].kind = "restore"
  BY <1>4
<1> QED BY <1>1, <1>3, <1>5, <1>6, <1>7 DEF QueriesFit, rest

\* One more request fits when it does by itself, and begins a session only
\* when none of the others does.
LEMMA AskingFits ==
  ASSUME NEW a, NEW queries, QueriesFit(queries, a),
         NEW sent \in AdminQuery, QueryFits(sent, a), sent.kind # "restore",
         \A q \in Queries : queries[q].kind # "restore",
         sent.kind \in Entering /\ ~a.overtaken =>
           \A q \in Queries : queries[q].kind \notin Entering,
         NEW next \in With(queries, sent)
  PROVE  QueriesFit(next, a)
<1>1. PICK q \in Queries : next = [queries EXCEPT ![q] = sent]
  BY DEF With
<1>2. /\ next \in [Queries -> AdminQuery]
      /\ \A r \in Queries : next[r] = IF r = q THEN sent ELSE queries[r]
  BY <1>1 DEF QueriesFit
<1>3. \A r \in Queries : QueryFits(next[r], a)
  BY <1>2 DEF QueriesFit
<1>4. \A r \in Queries : next[r].kind # "restore"
  BY <1>2
<1>5. ~a.overtaken =>
        \A r, s \in Queries : next[r].kind \in Entering /\ next[s].kind \in Entering => r = s
  BY <1>2 DEF QueriesFit
<1> QED BY <1>2, <1>3, <1>4, <1>5 DEF QueriesFit

\* The page after its session changed: it is enough that the session fits and
\* the requests do, those of a section only when it stays.
LEMMA SessionIsFits ==
  ASSUME AdminOK, NEW next \in AdminSession, NEW queries, SessionIs(next, queries),
         SessionFits(next),
         QueriesFit(Unmounted(queries), next),
         AdminPage = "sections" /\ PageOfSession(next) = "sections" =>
           /\ QueriesFit(queries, next)
           /\ ~next.overtaken => ~admin.overtaken /\ next.token = admin.token,
         keptPass' \in Staff \cup {NoStaff}, UNCHANGED <<section, outages>>
  PROVE  AdminOK'
<1> DEFINE stays == AdminPage = "sections" /\ PageOfSession(next) = "sections"
           rest == IF stays THEN queries ELSE Unmounted(queries)
<1>1. QueriesFit(rest, next)
  OBVIOUS
<1>2. /\ admin' = next
      /\ panel' = IF stays THEN panel ELSE EmptyPanel
      /\ \/ query' = rest
         \/ /\ PageOfSession(next) = "sections"
            /\ query' \in With(rest, Asking("list", next.token, NoSubject))
  BY DEF SessionIs
<1> HIDE DEF rest
<1>3. QueriesFit(query', next)
  <2>1. CASE query' = rest
    BY <1>1, <2>1
  <2>2. CASE /\ PageOfSession(next) = "sections"
             /\ query' \in With(rest, Asking("list", next.token, NoSubject))
    <3> DEFINE sent == Asking("list", next.token, NoSubject)
    <3>1. sent \in AdminQuery /\ sent.kind = "list" /\ sent.pc = "sent" /\ ~sent.old
          /\ sent.who = next.token
      BY DEF Asking, NoQuery, AdminQuery, AdminSession, PanelQueries
    <3> HIDE DEF sent
    <3>2. QueryFits(sent, next)
      BY <2>2, <3>1 DEF QueryFits, PanelQueries, Entering
    <3>3. next.user # NoStaff
      BY <2>2 DEF PageOfSession
    <3>4. \A q \in Queries : rest[q].kind # "restore"
      BY <1>1, <3>3 DEF QueriesFit, QueryFits, Entering
    <3> QED BY <1>1, <2>2, <3>1, <3>2, <3>4, AskingFits DEF sent, Entering
  <2> QED BY <1>2, <2>1, <2>2
<1>4. PanelFits(panel', next) /\ panel' \in AdminPanel
  BY <1>2, AdminAssumption DEF AdminOK, AdminTypeOK, AdminPanel, PanelFits, EmptyPanel, AdminPage
<1> QED
  BY <1>2, <1>3, <1>4 DEF AdminOK, AdminTypeOK, AdminSession, AdminPanel, AdminQuery, QueriesFit

\* A request that is answered fits as before, a section's when it may be.
LEMMA ServedFits ==
  ASSUME NEW a, NEW queries, QueriesFit(queries, a), NEW q \in Queries,
         queries[q].pc = "sent", NEW pc \in {"done", "refused"},
         queries[q].kind \in PanelQueries /\ pc = "done" => queries[q].who \in Admins
  PROVE  QueriesFit([queries EXCEPT ![q].pc = pc], a)
<1> DEFINE next == [queries EXCEPT ![q].pc = pc]
           r == [queries[q] EXCEPT !.pc = pc]
<1>1. queries[q] \in AdminQuery /\ QueryFits(queries[q], a)
  BY DEF QueriesFit
<1>2. /\ r \in AdminQuery /\ r.pc = pc /\ r.kind = queries[q].kind /\ r.who = queries[q].who
      /\ r.old = queries[q].old
  BY <1>1 DEF AdminQuery
<1>3. /\ next \in [Queries -> AdminQuery]
      /\ \A g \in Queries : next[g] = IF g = q THEN r ELSE queries[g]
  BY <1>2 DEF QueriesFit
<1> HIDE DEF next, r
<1>4. QueryFits(r, a)
  BY <1>1, <1>2 DEF QueryFits
<1>5. \A g \in Queries : QueryFits(next[g], a) /\ next[g].kind = queries[g].kind
  BY <1>2, <1>3, <1>4 DEF QueriesFit
<1> QED BY <1>3, <1>5 DEF QueriesFit, next

\* What the invariant says of one session's fresh requests.
LEMMA FreshQueries ==
  ASSUME AdminOK, NEW q \in Queries
  PROVE  /\ query[q] \in AdminQuery /\ QueryFits(query[q], admin)
         /\ query[q].kind \in Entering /\ ~admin.overtaken =>
              /\ admin.user = NoStaff /\ admin.loading /\ ~query[q].old
              /\ \A r \in Queries \ {q} : query[r].kind \notin Entering
         /\ query[q].kind = "restore" =>
              admin.user = NoStaff /\ admin.loading /\ ~admin.overtaken
<1>1. query[q] \in AdminQuery /\ QueryFits(query[q], admin)
  BY DEF AdminOK, QueriesFit
<1>2. query[q].kind \in Entering /\ ~admin.overtaken =>
        /\ admin.user = NoStaff /\ admin.loading /\ ~query[q].old
        /\ \A r \in Queries \ {q} : query[r].kind \notin Entering
  BY <1>1 DEF AdminOK, QueriesFit, QueryFits, Entering
<1>3. query[q].kind = "restore" =>
        admin.user = NoStaff /\ admin.loading /\ ~admin.overtaken
  BY <1>1, <1>2 DEF QueryFits, Entering
<1> QED BY <1>1, <1>2, <1>3

\* The page asks for something, and shows that something loads or goes on.
LEMMA AskingKeeps ==
  ASSUME AdminOK, NEW sent \in AdminQuery, sent.pc = "sent", ~sent.old,
         NEW queries, QueriesFit(queries, admin), query' \in With(queries, sent),
         \A q \in Queries : queries[q].kind # "restore",
         NEW loading \in BOOLEAN, admin' = [admin EXCEPT !.loading = loading],
         admin.loading => loading,
         \/ sent.kind = "login" /\ AdminPage = "form" /\ ~admin.loading /\ loading
         \/ /\ sent.kind \in {"refresh", "logout"} /\ AdminPage # "form"
            /\ sent.who = admin.token
         \/ /\ sent.kind \in PanelQueries /\ AdminPage = "sections"
            /\ sent.who = admin.token,
         section' \in Sections, panel' \in {panel, EmptyPanel},
         UNCHANGED <<keptPass, outages>>
  PROVE  AdminOK'
<1>1. /\ admin' \in AdminSession /\ admin'.token = admin.token /\ admin'.user = admin.user
      /\ admin'.overtaken = admin.overtaken /\ admin'.loading = loading
  BY DEF AdminOK, AdminTypeOK, AdminSession
<1>2. PageOfSession(admin') = AdminPage
  BY <1>1 DEF PageOfSession, AdminPage
<1>3. \A q \in Queries : QueryFits(queries[q], admin')
  BY <1>1, <1>2 DEF QueriesFit, QueryFits, AdminPage
<1>4. QueriesFit(queries, admin')
  BY <1>1, <1>3 DEF QueriesFit
<1>5. AdminPage = "form" /\ ~admin.overtaken => admin.user = NoStaff
  BY DEF AdminOK, SessionFits, AdminPage, PageOfSession
<1>6. AdminPage # "form" => admin.user # NoStaff
  BY DEF AdminPage, PageOfSession
<1>7. QueryFits(sent, admin')
  BY <1>1, <1>2, <1>5, <1>6 DEF QueryFits, PanelQueries, Entering
<1>8. sent.kind \in Entering /\ ~admin'.overtaken =>
        \A q \in Queries : queries[q].kind \notin Entering
  BY <1>1 DEF QueriesFit, QueryFits, PanelQueries, Entering
<1>9. sent.kind # "restore"
  BY DEF PanelQueries
<1>10. QueriesFit(query', admin')
  BY <1>4, <1>7, <1>8, <1>9, AskingFits
<1>11. PanelFits(panel', admin') /\ panel' \in AdminPanel
  BY <1>1, <1>2 DEF AdminOK, AdminTypeOK, AdminPanel, PanelFits, EmptyPanel, AdminPage
<1> QED
  BY <1>1, <1>10, <1>11 DEF AdminOK, AdminTypeOK, AdminSession, AdminPanel, AdminQuery,
     QueriesFit, SessionFits

\* Requests are sent from a page that is no longer being restored.
LEMMA RequestsKeep ==
  ASSUME AdminOK,
         \/ RefreshAdmin \/ LogoutOfAdmin
         \/ \E u \in Staff : LoginToAdmin(u)
         \/ \E s \in Sections : OpenSection(s) \/ Lists(s)
         \/ \E s \in Sections, x \in Subjects : Details(s, x)
  PROVE  AdminOK'
<1>0. admin \in AdminSession /\ QueriesFit(query, admin) /\ section \in Sections
  BY DEF AdminOK, AdminTypeOK, AdminSession
<1>1. AdminPage # "form" \/ ~admin.loading => \A q \in Queries : query[q].kind # "restore"
  BY FreshQueries DEF AdminPage, PageOfSession
<1>2. \A q \in Queries : Unmounted(query)[q].kind = "restore" => query[q].kind = "restore"
  BY DEF Unmounted, NoQuery
<1>3. ASSUME NEW kind \in {"login", "refresh", "logout"} \cup PanelQueries,
             NEW w \in Staff \cup {NoStaff}, NEW x \in Subjects \cup {NoSubject}
      PROVE  /\ Asking(kind, w, x) \in AdminQuery /\ Asking(kind, w, x).pc = "sent"
             /\ ~Asking(kind, w, x).old /\ Asking(kind, w, x).kind = kind
             /\ Asking(kind, w, x).who = w
  BY DEF Asking, NoQuery, AdminQuery, PanelQueries
<1>4. admin = [admin EXCEPT !.loading = admin.loading] /\ admin.loading \in BOOLEAN
      /\ admin.token \in Staff \cup {NoStaff}
  BY <1>0 DEF AdminSession
<1>5. CASE RefreshAdmin
  <2> DEFINE sent == Asking("refresh", admin.token, NoSubject)
  <2>1. /\ sent \in AdminQuery /\ sent.pc = "sent" /\ ~sent.old /\ sent.kind = "refresh"
        /\ sent.who = admin.token
    BY <1>3, <1>4
  <2>2. /\ AdminPage = "sections" /\ query' \in With(query, sent)
        /\ admin' = [admin EXCEPT !.loading = TRUE]
        /\ UNCHANGED <<keptPass, section, panel, outages>>
    BY <1>5 DEF RefreshAdmin
  <2> HIDE DEF sent
  <2> QED BY <1>0, <1>1, <2>1, <2>2, AskingKeeps
<1>6. CASE LogoutOfAdmin
  <2> DEFINE sent == Asking("logout", admin.token, NoSubject)
  <2>1. /\ sent \in AdminQuery /\ sent.pc = "sent" /\ ~sent.old /\ sent.kind = "logout"
        /\ sent.who = admin.token
    BY <1>3, <1>4
  <2>2. /\ AdminPage # "form" /\ query' \in With(query, sent)
        /\ admin' = [admin EXCEPT !.loading = admin.loading]
        /\ UNCHANGED <<keptPass, section, panel, outages>>
    BY <1>4, <1>6 DEF LogoutOfAdmin
  <2> HIDE DEF sent
  <2> QED BY <1>0, <1>1, <1>4, <2>1, <2>2, AskingKeeps
<1>7. ASSUME NEW u \in Staff, LoginToAdmin(u) PROVE AdminOK'
  <2> DEFINE sent == Asking("login", u, NoSubject)
  <2>1. sent \in AdminQuery /\ sent.pc = "sent" /\ ~sent.old /\ sent.kind = "login"
    BY <1>3
  <2>2. /\ AdminPage = "form" /\ ~admin.loading /\ query' \in With(query, sent)
        /\ admin' = [admin EXCEPT !.loading = TRUE]
        /\ UNCHANGED <<keptPass, section, panel, outages>>
    BY <1>7 DEF LoginToAdmin
  <2> HIDE DEF sent
  <2> QED BY <1>0, <1>1, <2>1, <2>2, AskingKeeps
<1>8. ASSUME NEW s \in Sections, OpenSection(s) PROVE AdminOK'
  <2> DEFINE sent == Asking("list", admin.token, NoSubject)
             rest == Unmounted(query)
  <2>1. /\ sent \in AdminQuery /\ sent.pc = "sent" /\ ~sent.old
        /\ sent.kind \in PanelQueries /\ sent.who = admin.token
    BY <1>3, <1>4 DEF PanelQueries
  <2>2. /\ AdminPage = "sections" /\ query' \in With(rest, sent)
        /\ admin' = [admin EXCEPT !.loading = admin.loading]
        /\ section' \in Sections /\ panel' = EmptyPanel
        /\ UNCHANGED <<keptPass, outages>>
    BY <1>4, <1>8 DEF OpenSection
  <2>3. QueriesFit(rest, admin)
    BY <1>0, UnmountedFit
  <2>4. \A q \in Queries : rest[q].kind # "restore"
    BY <1>1, <1>2, <2>2
  <2> HIDE DEF sent, rest
  <2> QED BY <1>4, <2>1, <2>2, <2>3, <2>4, AskingKeeps
<1>9. ASSUME NEW sent \in AdminQuery, sent.pc = "sent", ~sent.old,
             sent.kind \in PanelQueries, sent.who = admin.token, AdminPage = "sections",
             query' \in With(query, sent),
             admin' = [admin EXCEPT !.loading = admin.loading],
             section' = section, panel' = panel, UNCHANGED <<keptPass, outages>>
      PROVE  AdminOK'
  BY <1>0, <1>1, <1>4, <1>9, AskingKeeps
<1>10. ASSUME NEW s \in Sections, Lists(s) PROVE AdminOK'
  <2>1. /\ Asking("list", admin.token, NoSubject) \in AdminQuery
        /\ Asking("list", admin.token, NoSubject).pc = "sent"
        /\ ~Asking("list", admin.token, NoSubject).old
        /\ Asking("list", admin.token, NoSubject).kind \in PanelQueries
        /\ Asking("list", admin.token, NoSubject).who = admin.token
    BY <1>3, <1>4 DEF PanelQueries
  <2>2. /\ admin' = [admin EXCEPT !.loading = admin.loading]
        /\ section' = section /\ panel' = panel /\ UNCHANGED <<keptPass, outages>>
    BY <1>4, <1>10 DEF Lists
  <2> QED BY <1>9, <1>10, <2>1, <2>2 DEF Lists
<1>11. ASSUME NEW s \in Sections, NEW x \in Subjects, Details(s, x) PROVE AdminOK'
  <2>1. /\ Asking("detail", admin.token, x) \in AdminQuery
        /\ Asking("detail", admin.token, x).pc = "sent"
        /\ ~Asking("detail", admin.token, x).old
        /\ Asking("detail", admin.token, x).kind \in PanelQueries
        /\ Asking("detail", admin.token, x).who = admin.token
    BY <1>3, <1>4 DEF PanelQueries
  <2>2. /\ admin' = [admin EXCEPT !.loading = admin.loading]
        /\ section' = section /\ panel' = panel /\ UNCHANGED <<keptPass, outages>>
    BY <1>4, <1>11 DEF Details
  <2> QED BY <1>9, <1>11, <2>1, <2>2 DEF Details
<1> QED BY <1>5, <1>6, <1>7, <1>8, <1>10, <1>11

\* Answers on their way change no page.
LEMMA ServingAdminKeeps ==
  ASSUME AdminOK, NEW q \in Queries, ServeAdminSession(q) \/ ServePanel(q)
  PROVE  AdminOK'
<1>1. PICK pc \in {"done", "refused"} :
        /\ query' = [query EXCEPT ![q].pc = pc]
        /\ query[q].kind \in PanelQueries /\ pc = "done" => query[q].who \in Admins
  BY DEF ServeAdminSession, ServePanel, Fails
<1>2. /\ query[q].pc = "sent" /\ UNCHANGED <<keptPass, admin, section, panel>>
      /\ outages' \in 0..MostOutages
  BY AdminAssumption DEF ServeAdminSession, ServePanel, Fails, QueryAt, AdminOK, AdminTypeOK
<1>3. QueriesFit(query', admin)
  BY <1>1, <1>2, ServedFits DEF AdminOK
<1> QED BY <1>2, <1>3 DEF AdminOK, AdminTypeOK, QueriesFit, AdminQuery

\* A list read with the token of the page, an admin's, is shown.
LEMMA PanelAnswersKeep ==
  ASSUME AdminOK, NEW q \in Queries, ReceiveList(q) \/ ReceiveDetail(q)
  PROVE  AdminOK'
<1>1. query' = Closed(q) /\ UNCHANGED <<keptPass, admin, section, outages>>
  BY DEF ReceiveList, ReceiveDetail
<1>2. QueriesFit(query', admin)
  BY <1>1, ClosesFit DEF AdminOK, Closed
<1>3. query[q].kind \in PanelQueries /\ query[q] \in AdminQuery /\ QueryFits(query[q], admin)
  BY FreshQueries DEF ReceiveList, ReceiveDetail, PanelQueries
<1>4. PageOfSession(admin) = "sections"
  BY <1>3 DEF QueryFits
<1>5. panel' \in AdminPanel /\ PanelFits(panel', admin)
  <2>1. CASE ReceiveList(q)
    <3>1. panel'.list \in {query[q].who, NoStaff} /\ panel'.detail = panel.detail
          /\ panel' \in AdminPanel
      BY <1>3, <2>1 DEF ReceiveList, AdminOK, AdminTypeOK, AdminPanel, AdminQuery
    <3>2. QueryAt(q, "done") => query[q].who \in Admins
      BY <1>3 DEF QueryFits, QueryAt
    <3>3. panel'.list # NoStaff => query[q].who \in Admins
      BY <2>1, <3>2 DEF ReceiveList, AdminOK, AdminTypeOK
    <3>4. ~admin.overtaken => query[q].who = admin.token
      BY <1>3 DEF QueryFits
    <3> QED BY <1>4, <3>1, <3>3, <3>4 DEF PanelFits
  <2>2. CASE ReceiveDetail(q)
    BY <1>3, <1>4, <2>2 DEF ReceiveDetail, AdminOK, AdminTypeOK, AdminPanel, AdminQuery, PanelFits
  <2> QED BY <2>1, <2>2
<1> QED
  BY <1>1, <1>2, <1>5 DEF AdminOK, AdminTypeOK, QueriesFit, AdminQuery, AdminPanel

\* The page after its session changed: the requests that are not a section's
\* have to fit it, and a section that stays is still the same admin's.
LEMMA SessionChanges ==
  ASSUME AdminOK, NEW next \in AdminSession, NEW queries \in [Queries -> AdminQuery],
         SessionIs(next, queries), SessionFits(next),
         \A q \in Queries : queries[q].kind \notin PanelQueries => QueryFits(queries[q], next),
         \A q \in Queries : queries[q].kind = "restore" =>
           \A r \in Queries \ {q} : queries[r].kind = "none",
         ~next.overtaken =>
           \A q, r \in Queries : queries[q].kind \in Entering /\ queries[r].kind \in Entering
                                 => q = r,
         AdminPage = "sections" /\ PageOfSession(next) = "sections" =>
           /\ \A q \in Queries : queries[q].kind \in PanelQueries => queries[q] = query[q]
           /\ ~next.overtaken => ~admin.overtaken /\ next.token = admin.token,
         keptPass' \in Staff \cup {NoStaff}, UNCHANGED <<section, outages>>
  PROVE  AdminOK'
<1> DEFINE rest == Unmounted(queries)
<1>1. /\ rest \in [Queries -> AdminQuery]
      /\ \A q \in Queries :
           rest[q] = IF queries[q].kind \in PanelQueries THEN NoQuery ELSE queries[q]
  BY NoQueryFits DEF Unmounted
<1>2. NoQuery.kind = "none"
  BY DEF NoQuery
<1> HIDE DEF rest
<1>3. \A q \in Queries : QueryFits(rest[q], next)
  BY <1>1, NoQueryFits
<1>4. \A q \in Queries : rest[q].kind # "none" => rest[q] = queries[q]
  BY <1>1, <1>2
<1>5. \A q \in Queries : queries[q].kind = "none" => rest[q].kind = "none"
  BY <1>4
<1>6. \A q \in Queries : rest[q].kind \in Entering => queries[q].kind \in Entering
  BY <1>4 DEF Entering
<1>7. \A q \in Queries : rest[q].kind = "restore" => queries[q].kind = "restore"
  BY <1>4
<1>8. QueriesFit(rest, next)
  BY <1>1, <1>3, <1>5, <1>6, <1>7 DEF QueriesFit
<1>9. ASSUME AdminPage = "sections" /\ PageOfSession(next) = "sections"
      PROVE  QueriesFit(queries, next)
  <2>1. \A q \in Queries : queries[q].kind \in PanelQueries => QueryFits(query[q], admin)
    BY DEF AdminOK, QueriesFit
  <2>2. \A q \in Queries : queries[q].kind \in PanelQueries => QueryFits(queries[q], next)
    BY <1>9, <2>1 DEF QueryFits, PanelQueries, Entering
  <2> QED BY <2>2 DEF QueriesFit
<1> QED BY <1>8, <1>9, SessionIsFits DEF rest

\* A page that is opened asks who holds the token kept, if one is.
LEMMA OpeningAdminKeeps ==
  ASSUME AdminOK, OpenAdmin
  PROVE  AdminOK'
<1> DEFINE none == [q \in Queries |-> NoQuery]
           sent == Asking("restore", keptPass, NoSubject)
<1>1. keptPass \in Staff \cup {NoStaff}
  BY DEF AdminOK, AdminTypeOK
<1>2. /\ admin' \in AdminSession /\ admin'.token = keptPass /\ admin'.user = NoStaff
      /\ admin'.loading = (keptPass # NoStaff) /\ ~admin'.overtaken
  BY <1>1 DEF OpenAdmin, AdminSession, Left
<1>3. PageOfSession(admin') = "form" /\ panel' = EmptyPanel
      /\ section' \in Sections /\ UNCHANGED <<keptPass, outages>>
  BY <1>2, AdminAssumption DEF OpenAdmin, PageOfSession
<1>4. sent \in AdminQuery /\ sent.kind = "restore" /\ sent.pc = "sent" /\ ~sent.old
      /\ sent.who = keptPass
  BY <1>1 DEF Asking, NoQuery, AdminQuery, PanelQueries
<1>5. none \in [Queries -> AdminQuery] /\ \A q \in Queries : none[q] = NoQuery
  BY NoQueryFits
<1>6. /\ query' = none \/ (keptPass # NoStaff /\ query' \in With(none, sent))
  BY DEF OpenAdmin
<1>7. NoQuery.kind = "none"
  BY DEF NoQuery
<1> HIDE DEF none, sent
<1>8. keptPass # NoStaff => QueryFits(sent, admin')
  BY <1>2, <1>4 DEF QueryFits, PanelQueries, Entering
<1>9. QueriesFit(query', admin')
  <2>1. CASE query' = none
    BY <1>5, <1>7, <2>1, NoQueryFits DEF QueriesFit, Entering
  <2>2. CASE keptPass # NoStaff /\ query' \in With(none, sent)
    <3>1. PICK q \in Queries : query' = [none EXCEPT ![q] = sent]
      BY <2>2 DEF With
    <3>2. /\ query' \in [Queries -> AdminQuery]
          /\ \A r \in Queries : query'[r] = IF r = q THEN sent ELSE NoQuery
      BY <1>4, <1>5, <3>1
    <3>3. \A r \in Queries : QueryFits(query'[r], admin')
      BY <1>8, <2>2, <3>2, NoQueryFits
    <3>4. \A r \in Queries : r # q => query'[r].kind = "none"
      BY <1>7, <3>2
    <3> QED BY <3>2, <3>3, <3>4 DEF QueriesFit, Entering
  <2> QED BY <1>6, <2>1, <2>2
<1>10. PanelFits(panel', admin') /\ panel' \in AdminPanel
  BY <1>3 DEF PanelFits, EmptyPanel, AdminPanel
<1> QED
  BY <1>1, <1>2, <1>3, <1>9, <1>10
  DEF AdminOK, AdminTypeOK, AdminSession, AdminPanel, AdminQuery, QueriesFit, SessionFits

\* What an answer leaves of the requests: its own is over.
LEMMA ClosedQueries ==
  ASSUME AdminOK, NEW q \in Queries, query[q].kind # "none"
  PROVE  /\ Closed(q) \in [Queries -> AdminQuery]
         /\ \A r \in Queries : Closed(q)[r] = IF r = q THEN NoQuery ELSE query[r]
         /\ \A r \in Queries : Closed(q)[r].kind # "restore"
         /\ \A r \in Queries : QueryFits(Closed(q)[r], admin)
         /\ \A r \in Queries : Closed(q)[r].kind \in PanelQueries => Closed(q)[r] = query[r]
         /\ query[q].kind \in Entering /\ ~admin.overtaken =>
              \A r \in Queries : Closed(q)[r].kind \notin Entering
<1>1. /\ Closed(q) \in [Queries -> AdminQuery]
      /\ \A r \in Queries : Closed(q)[r] = IF r = q THEN NoQuery ELSE query[r]
  BY NoQueryFits DEF AdminOK, QueriesFit, Closed
<1>2. NoQuery.kind = "none"
  BY DEF NoQuery
<1>3. \A r \in Queries : Closed(q)[r].kind # "none" => r # q /\ Closed(q)[r] = query[r]
  BY <1>1, <1>2
<1>4. \A r \in Queries : r # q => query[r].kind # "restore"
  BY DEF AdminOK, QueriesFit
<1>5. \A r \in Queries : QueryFits(Closed(q)[r], admin)
  BY <1>1, NoQueryFits DEF AdminOK, QueriesFit
<1>6. query[q].kind \in Entering /\ ~admin.overtaken =>
        \A r \in Queries : Closed(q)[r].kind \notin Entering
  BY <1>3, FreshQueries DEF Entering
<1> QED BY <1>1, <1>3, <1>4, <1>5, <1>6 DEF PanelQueries

\* An answer that only ends the loading.
LEMMA SettlingKeeps ==
  ASSUME AdminOK, NEW q \in Queries,
         query[q].kind \in {"login", "restore", "enter", "refresh"},
         SessionIs(Settled(q), Closed(q)),
         UNCHANGED <<keptPass, section, outages>>
  PROVE  AdminOK'
<1> DEFINE next == Settled(q)
           queries == Closed(q)
<1>1. query[q] \in AdminQuery /\ QueryFits(query[q], admin) /\ admin \in AdminSession
  BY FreshQueries DEF AdminOK, AdminTypeOK, AdminSession
<1>2. /\ next \in AdminSession /\ next.token = admin.token /\ next.user = admin.user
      /\ next.overtaken = (admin.overtaken \/ query[q].old)
  BY <1>1 DEF Settled, AdminSession, AdminQuery
<1>3. SessionFits(next)
  BY <1>2 DEF AdminOK, SessionFits
<1>4. /\ queries \in [Queries -> AdminQuery]
      /\ \A r \in Queries : QueryFits(queries[r], admin) /\ queries[r].kind # "restore"
      /\ \A r \in Queries : queries[r].kind \in PanelQueries => queries[r] = query[r]
      /\ query[q].kind \in Entering /\ ~admin.overtaken =>
           \A r \in Queries : queries[r].kind \notin Entering
  BY ClosedQueries
<1>5. ~next.overtaken => \A r \in Queries : queries[r].kind \notin Entering
  <2>1. CASE query[q].kind \in Entering
    BY <1>2, <1>4, <2>1
  <2>2. CASE query[q].kind = "refresh"
    <3>1. ~next.overtaken => admin.user # NoStaff /\ ~admin.overtaken
      BY <1>1, <1>2, <2>2 DEF QueryFits
    <3> QED BY <1>4, <3>1 DEF QueryFits, Entering
  <2> QED BY <2>1, <2>2 DEF Entering
<1> HIDE DEF next, queries
<1>6. \A r \in Queries : queries[r].kind \notin PanelQueries => QueryFits(queries[r], next)
  BY <1>2, <1>4, <1>5 DEF QueryFits, PanelQueries, Entering
<1> QED
  BY <1>2, <1>3, <1>4, <1>5, <1>6, SessionChanges DEF next, queries, AdminOK, AdminTypeOK

\* Whom the page shows is who holds its token, when the answer is this session's.
LEMMA ContextKeeps ==
  ASSUME AdminOK, NEW q \in Queries,
         query[q].kind \in {"restore", "enter", "refresh"},
         SessionIs([Settled(q) EXCEPT !.user = query[q].who], Closed(q)),
         UNCHANGED <<keptPass, section, outages>>
  PROVE  AdminOK'
<1> DEFINE next == [Settled(q) EXCEPT !.user = query[q].who]
           queries == Closed(q)
<1>1. query[q] \in AdminQuery /\ QueryFits(query[q], admin) /\ admin \in AdminSession
  BY FreshQueries DEF AdminOK, AdminTypeOK, AdminSession
<1>2. /\ next \in AdminSession /\ next.token = admin.token /\ next.user = query[q].who
      /\ next.overtaken = (admin.overtaken \/ query[q].old)
  BY <1>1 DEF Settled, AdminSession, AdminQuery
<1>3. ~next.overtaken => query[q].who = admin.token
  BY <1>1, <1>2 DEF QueryFits
<1>4. SessionFits(next)
  BY <1>2, <1>3 DEF SessionFits
<1>5. /\ queries \in [Queries -> AdminQuery]
      /\ \A r \in Queries : QueryFits(queries[r], admin) /\ queries[r].kind # "restore"
      /\ \A r \in Queries : queries[r].kind \in PanelQueries => queries[r] = query[r]
      /\ query[q].kind \in Entering /\ ~admin.overtaken =>
           \A r \in Queries : queries[r].kind \notin Entering
  BY ClosedQueries
<1>6. SessionIs(next, queries) /\ keptPass' \in Staff \cup {NoStaff}
  BY DEF AdminOK, AdminTypeOK
<1> HIDE DEF next, queries
<1>7. ~next.overtaken =>
        /\ \A r \in Queries : queries[r].kind \notin Entering
        /\ \A r \in Queries : queries[r].kind \in {"refresh", "logout"} /\ ~queries[r].old
                              => next.user # NoStaff
  <2>1. CASE query[q].kind \in Entering
    <3>1. ~next.overtaken => ~admin.overtaken /\ admin.user = NoStaff
      BY <1>2, <2>1, FreshQueries
    <3> QED BY <1>2, <1>5, <2>1, <3>1 DEF QueryFits
  <2>2. CASE query[q].kind = "refresh"
    <3>1. ~next.overtaken => admin.user # NoStaff /\ ~admin.overtaken
      BY <1>1, <1>2, <2>2 DEF QueryFits
    <3>2. ~next.overtaken => next.user # NoStaff
      BY <1>2, <1>3, <3>1 DEF AdminOK, SessionFits
    <3> QED BY <1>5, <3>1, <3>2 DEF QueryFits, Entering
  <2> QED BY <2>1, <2>2 DEF Entering
<1>8. \A r \in Queries : queries[r].kind \notin PanelQueries => QueryFits(queries[r], next)
  BY <1>2, <1>5, <1>7 DEF QueryFits, PanelQueries, Entering
<1> QED
  BY <1>2, <1>4, <1>5, <1>6, <1>7, <1>8, SessionChanges

\* A token is on the page before its user is.
LEMMA LoggingInKeeps ==
  ASSUME AdminOK, NEW q \in Queries, ReceiveAdminLogin(q)
  PROVE  AdminOK'
<1>1. query[q].kind = "login" /\ UNCHANGED <<section, outages>>
  BY DEF ReceiveAdminLogin
<1>2. CASE ~QueryAt(q, "done")
  BY <1>1, <1>2, SettlingKeeps DEF ReceiveAdminLogin
<1>3. CASE QueryAt(q, "done")
  <2> DEFINE enter == Asking("enter", query[q].who, NoSubject)
             next == [admin EXCEPT !.token = query[q].who]
             queries == [query EXCEPT ![q] = enter]
  <2>1. query[q] \in AdminQuery /\ admin \in AdminSession
    BY FreshQueries DEF AdminOK, AdminTypeOK, AdminSession
  <2>2. keptPass' = query[q].who /\ SessionIs(next, queries)
    BY <1>3 DEF ReceiveAdminLogin
  <2>3. /\ next \in AdminSession /\ next.token = query[q].who /\ next.user = admin.user
        /\ next.overtaken = admin.overtaken /\ next.loading = admin.loading
    BY <2>1 DEF AdminSession, AdminQuery
  <2>4. /\ enter \in AdminQuery /\ enter.kind = "enter" /\ enter.pc = "sent" /\ ~enter.old
        /\ enter.who = query[q].who
    BY <2>1 DEF Asking, NoQuery, AdminQuery, PanelQueries
  <2>5. ~admin.overtaken =>
          /\ admin.user = NoStaff /\ admin.loading
          /\ \A r \in Queries \ {q} : query[r].kind \notin Entering
    BY <1>1, FreshQueries DEF Entering
  <2>6. \A r \in Queries : query[r].kind # "restore"
    BY <1>1 DEF AdminOK, QueriesFit
  <2> HIDE DEF enter
  <2>7. /\ queries \in [Queries -> AdminQuery]
        /\ \A r \in Queries : queries[r] = IF r = q THEN enter ELSE query[r]
    BY <2>4 DEF AdminOK, QueriesFit
  <2> HIDE DEF next, queries
  <2>8. SessionFits(next) /\ QueryFits(enter, next)
    BY <2>3, <2>4, <2>5 DEF SessionFits, QueryFits, PanelQueries, Entering
  <2>9. \A r \in Queries : queries[r].kind \notin PanelQueries => QueryFits(queries[r], next)
    <3>1. \A r \in Queries : QueryFits(query[r], admin)
      BY DEF AdminOK, QueriesFit
    <3>2. ASSUME NEW r \in Queries, r # q, query[r].kind \notin PanelQueries
          PROVE  QueryFits(query[r], next)
      BY <2>3, <2>5, <2>6, <3>1, <3>2 DEF QueryFits, Entering
    <3> QED BY <2>7, <2>8, <3>2
  <2>10. ~next.overtaken =>
           \A r, s \in Queries : queries[r].kind \in Entering /\ queries[s].kind \in Entering
                                 => r = s
    BY <2>3, <2>5, <2>7
  <2>11. AdminPage = "sections" => admin.overtaken
    BY <2>5 DEF AdminPage, PageOfSession
  <2>12. \A r \in Queries : queries[r].kind # "restore"
    BY <2>4, <2>6, <2>7
  <2>13. \A r \in Queries : queries[r].kind \in PanelQueries => queries[r] = query[r]
    BY <2>4, <2>7 DEF PanelQueries
  <2>14. keptPass' \in Staff \cup {NoStaff}
    BY <2>1, <2>2 DEF AdminQuery
  <2> QED
    BY <1>1, <2>2, <2>3, <2>7, <2>8, <2>9, <2>10, <2>11, <2>12, <2>13, <2>14, SessionChanges
<1> QED BY <1>2, <1>3

\* A restoring that fails leaves nothing.
LEMMA ReceivingContextKeeps ==
  ASSUME AdminOK, NEW q \in Queries, ReceiveContext(q)
  PROVE  AdminOK'
<1>1. query[q].kind \in {"restore", "enter", "refresh"} /\ UNCHANGED <<section, outages>>
  BY DEF ReceiveContext
<1>2. CASE QueryAt(q, "done")
  <2>1. /\ SessionIs([Settled(q) EXCEPT !.user = query[q].who], Closed(q))
        /\ UNCHANGED keptPass
    BY <1>2 DEF ReceiveContext, QueryAt
  <2> QED BY <1>1, <2>1, ContextKeeps
<1>3. CASE ~QueryAt(q, "done") /\ QueryAt(q, "refused") /\ query[q].kind = "restore"
  <2>1. SessionIs(Left, Closed(q)) /\ keptPass' = NoStaff
    BY <1>3 DEF ReceiveContext
  <2>2. /\ Closed(q) \in [Queries -> AdminQuery]
        /\ \A r \in Queries : Closed(q)[r] = IF r = q THEN NoQuery ELSE query[r]
    BY <1>1, ClosedQueries
  <2>3. \A r \in Queries : r # q => query[r].kind = "none"
    BY <1>3 DEF AdminOK, QueriesFit
  <2>4. \A r \in Queries : Closed(q)[r].kind = "none"
    BY <2>2, <2>3 DEF NoQuery
  <2>5. /\ Left \in AdminSession /\ SessionFits(Left) /\ PageOfSession(Left) = "form"
    BY DEF Left, AdminSession, SessionFits, PageOfSession
  <2>6. \A r \in Queries : QueryFits(Closed(q)[r], admin)
    BY <1>1, ClosedQueries
  <2>7. \A r \in Queries : QueryFits(Closed(q)[r], Left)
    BY <2>4, <2>6 DEF QueryFits, PanelQueries, Entering
  <2> QED
    BY <1>1, <2>1, <2>2, <2>4, <2>5, <2>7, SessionChanges DEF Entering, PanelQueries
<1>4. CASE ~QueryAt(q, "done") /\ ~(QueryAt(q, "refused") /\ query[q].kind = "restore")
  <2>1. SessionIs(Settled(q), Closed(q)) /\ UNCHANGED keptPass
    BY <1>4 DEF ReceiveContext
  <2> QED BY <1>1, <2>1, SettlingKeeps
<1> QED BY <1>2, <1>3, <1>4

\* What was sent before the session was left is an earlier session's.
LEMMA LeavingKeeps ==
  ASSUME AdminOK, NEW q \in Queries, ReceiveAdminLogout(q)
  PROVE  AdminOK'
<1> DEFINE next == [admin EXCEPT !.token = NoStaff, !.user = NoStaff,
                                 !.overtaken = @ \/ query[q].old]
           queries == [r \in Queries |-> [Closed(q)[r] EXCEPT !.old = Closed(q)[r].pc # "idle"]]
<1>1. /\ query[q].kind = "logout" /\ keptPass' = NoStaff /\ SessionIs(next, queries)
      /\ UNCHANGED <<section, outages>>
  BY DEF ReceiveAdminLogout
<1>2. query[q] \in AdminQuery /\ QueryFits(query[q], admin) /\ admin \in AdminSession
  BY FreshQueries DEF AdminOK, AdminTypeOK, AdminSession
<1>3. /\ next \in AdminSession /\ next.token = NoStaff /\ next.user = NoStaff
      /\ next.overtaken = (admin.overtaken \/ query[q].old)
  BY <1>2 DEF AdminSession, AdminQuery
<1>4. SessionFits(next) /\ PageOfSession(next) = "form"
  BY <1>3 DEF SessionFits, PageOfSession
<1>5. /\ Closed(q) \in [Queries -> AdminQuery]
      /\ \A r \in Queries : QueryFits(Closed(q)[r], admin) /\ Closed(q)[r].kind # "restore"
  BY <1>1, ClosedQueries
<1>6. /\ queries \in [Queries -> AdminQuery]
      /\ \A r \in Queries : /\ queries[r].pc = Closed(q)[r].pc
                            /\ queries[r].kind = Closed(q)[r].kind
                            /\ queries[r].old = (Closed(q)[r].pc # "idle")
  BY <1>5 DEF AdminQuery
<1>7. ~next.overtaken => admin.user # NoStaff /\ ~admin.overtaken
  BY <1>1, <1>2, <1>3 DEF QueryFits
<1> HIDE DEF next, queries
<1>8. ~next.overtaken => \A r \in Queries : queries[r].kind \notin Entering
  BY <1>5, <1>6, <1>7 DEF QueryFits, Entering
<1>9. ASSUME NEW r \in Queries, queries[r].kind \notin PanelQueries
      PROVE  QueryFits(queries[r], next)
  <2>1. /\ queries[r].kind = "none" <=> queries[r].pc = "idle"
        /\ queries[r].kind = "none" => ~queries[r].old
        /\ queries[r].kind # "none" => queries[r].old
        /\ queries[r].kind # "restore"
    BY <1>5, <1>6 DEF QueryFits
  <2>2. queries[r].kind \in {"none", "login", "enter", "refresh", "logout"}
    BY <1>6, <1>9, <2>1 DEF AdminQuery
  <2> QED BY <1>8, <1>9, <2>1, <2>2 DEF QueryFits, Entering, PanelQueries
<1>10. \A r \in Queries : queries[r].kind # "restore"
  BY <1>5, <1>6
<1> QED
  BY <1>1, <1>3, <1>4, <1>6, <1>8, <1>9, <1>10, SessionChanges

\* Every step of the admin area keeps the invariant.
LEMMA AdminNextOK == AdminOK /\ [AdminNext]_adminVars => AdminOK'
<1> SUFFICES ASSUME AdminOK, [AdminNext]_adminVars PROVE AdminOK'
  OBVIOUS
<1>1. CASE UNCHANGED adminVars
  BY <1>1 DEF AdminOK, AdminTypeOK, SessionFits, QueriesFit, PanelFits, QueryFits,
     PageOfSession, AdminQuery, adminVars
<1>2. CASE OpenAdmin
  BY <1>2, OpeningAdminKeeps
<1>3. CASE RefreshAdmin \/ LogoutOfAdmin
  BY <1>3, RequestsKeep
<1>4. ASSUME NEW s \in {"overview", "stores", "users", "orders", "payments", "domains"}, Lists(s)
      PROVE  AdminOK'
  <2>1. s \in Sections
    BY <1>4 DEF Lists, AdminOK, AdminTypeOK
  <2> QED BY <1>4, <2>1, RequestsKeep
<1>5. ASSUME NEW u \in Staff, LoginToAdmin(u) PROVE AdminOK'
  BY <1>5, RequestsKeep
<1>6. ASSUME NEW s \in Sections, OpenSection(s) PROVE AdminOK'
  BY <1>6, RequestsKeep
<1>7. ASSUME NEW s \in {"stores", "users", "orders", "payments"}, NEW x \in Subjects,
             Details(s, x)
      PROVE  AdminOK'
  <2>1. s \in Sections
    BY <1>7 DEF Details, AdminOK, AdminTypeOK
  <2> QED BY <1>7, <2>1, RequestsKeep
<1>8. ASSUME NEW q \in Queries, ServeAdminSession(q) \/ ServePanel(q) PROVE AdminOK'
  BY <1>8, ServingAdminKeeps
<1>9. ASSUME NEW q \in Queries, ReceiveAdminLogin(q) PROVE AdminOK'
  BY <1>9, LoggingInKeeps
<1>10. ASSUME NEW q \in Queries, ReceiveContext(q) PROVE AdminOK'
  BY <1>10, ReceivingContextKeeps
<1>11. ASSUME NEW q \in Queries, ReceiveAdminLogout(q) PROVE AdminOK'
  BY <1>11, LeavingKeeps
<1>12. ASSUME NEW q \in Queries, ReceiveList(q) \/ ReceiveDetail(q) PROVE AdminOK'
  BY <1>12, PanelAnswersKeep
<1>13. LoadOverview \/ LoadStores \/ LoadUsers \/ LoadOrders \/ LoadPayments \/ LoadDomains
       => AdminOK'
  BY <1>4 DEF LoadOverview, LoadStores, LoadUsers, LoadOrders, LoadPayments, LoadDomains
<1>14. ASSUME NEW x \in Subjects, LoadStoreDetail(x) \/ LoadUserDetail(x) \/ LoadOrderDetail(x)
                                 \/ LoadPaymentDetail(x)
       PROVE  AdminOK'
  BY <1>7, <1>14 DEF LoadStoreDetail, LoadUserDetail, LoadOrderDetail, LoadPaymentDetail
<1> QED
  BY <1>1, <1>2, <1>3, <1>5, <1>6, <1>8, <1>9, <1>10, <1>11, <1>12, <1>13, <1>14 DEF AdminNext

\* Rows and details of the admin area were read with an admin's token, and what
\* it shows is of the session it holds unless an earlier one's answer came late.
THEOREM AdminSafe == AdminSpec => [](AdminTypeOK /\ AdminRowsAreAdmins)
<1>1. AdminOK => AdminTypeOK /\ AdminRowsAreAdmins
  BY AdminAssumption
  DEF AdminOK, AdminTypeOK, AdminRowsAreAdmins, SessionFits, PanelFits, EmptyPanel, PageOfSession
<1> QED BY <1>1, AdminInitOK, AdminNextOK, PTL DEF AdminSpec

-------------------------------------------------------------------------------
(* Dashboard *)

DashRow == [token : Folk \cup {NoOne}, user : Folk \cup {NoOne},
            selected : Outlets \cup {NoOutlet}, loading : BOOLEAN, overtaken : BOOLEAN]
BoardRow == [rows : Outlets \cup {NoOutlet}, form : Outlets \cup {NoOutlet}, astray : BOOLEAN]
FetchRow ==
  [pc : {"idle", "sent", "done", "refused", "broken"},
   kind : {"none", "login", "restore", "enter", "refresh", "logout"} \cup ConsoleRequests,
   who : Folk \cup {NoOne}, outlet : Outlets \cup {NoOutlet},
   of : Outlets \cup {NoOutlet}, old : BOOLEAN]

DashboardTypes ==
  /\ keptToken \in Folk \cup {NoOne}
  /\ dash \in DashRow /\ pane \in Consoles /\ board \in BoardRow
  /\ refusals \in 0..MostRefusals

\* What a request r is, in a session d, as in the admin area.
FetchFits(r, d) ==
  /\ r.kind = "none" <=> r.pc = "idle"
  /\ r.kind = "none" => ~r.old
  /\ r.kind = "restore" => ~r.old /\ ~d.overtaken
  /\ r.kind \in Entering \cup {"refresh"} => r.who # NoOne
  /\ r.kind \in ConsoleRequests => StoreShown(d) # NoOutlet /\ ~r.old
  /\ ~d.overtaken /\ r.old => r.kind \in {"refresh", "logout"}
  /\ ~d.overtaken /\ ~r.old =>
       /\ r.kind \in Entering => d.user = NoOne /\ d.loading
       /\ r.kind \in {"refresh", "logout"} => d.user # NoOne
       /\ r.kind \in {"enter", "restore", "refresh"} => r.who = d.token

FetchesFit(requests, d) ==
  /\ requests \in [Fetches -> FetchRow]
  /\ \A f \in Fetches : FetchFits(requests[f], d)
  /\ \A f \in Fetches : requests[f].kind = "restore" =>
       \A g \in Fetches \ {f} : requests[g].kind = "none"
  /\ ~d.overtaken =>
       \A f, g \in Fetches : requests[f].kind \in Entering /\ requests[g].kind \in Entering
                             => f = g

HolderFits(d) == ~d.overtaken /\ d.user # NoOne => d.user = d.token

\* A console c that waits for no load, and whose last answer was good and its own
\* store's, shows that store, whatever else it waits for.
BoardFits(c, b, requests, d) ==
  StoreShown(d) # NoOutlet /\ ~b.astray /\ (\A f \in Fetches : requests[f].kind # "load") =>
    /\ LoadsByItself(c) => b.rows \in {StoreShown(d), NoOutlet}
    /\ c \in ProfileConsoles => b.form = StoreShown(d)

DashboardOK ==
  /\ DashboardTypes
  /\ HolderFits(dash)
  /\ FetchesFit(fetch, dash)
  /\ BoardFits(pane, board, fetch, dash)
\* The invariant holds at first.
LEMMA DashboardInitOK == DashboardInit => DashboardOK
  BY DashboardAssumption
  DEF DashboardInit, DashboardOK, DashboardTypes, DashRow, BoardRow, FetchRow, HolderFits,
      FetchesFit, FetchFits, BoardFits, SignedOut, NoFetch, Blank, StoreShown,
      ConsoleRequests, Entering

\* The first store of a user.
LEMMA FirstStore ==
  ASSUME NEW u \in Folk
  PROVE  FirstOf(u) \in Outlets
<1>1. OutletsOf[u] \in Seq(Outlets) /\ OutletsOf[u] # <<>>
  BY DashboardAssumption DEF DashboardAssumption
<1> QED BY <1>1 DEF FirstOf

\* A store is shown exactly when there are a token and a user, and is one of the
\* user's.
LEMMA ShownFits ==
  ASSUME NEW d \in DashRow
  PROVE  /\ StoreShown(d) \in Outlets \cup {NoOutlet}
         /\ StoreShown(d) = NoOutlet <=> NoOne \in {d.user, d.token}
<1>1. CASE NoOne \in {d.user, d.token}
  BY <1>1 DEF StoreShown
<1>2. CASE NoOne \notin {d.user, d.token}
  <2>1. d.user \in Folk
    BY <1>2 DEF DashRow
  <2>2. OutletsOf[d.user] \in Seq(Outlets) /\ OutletsOf[d.user] # <<>>
    BY <2>1, DashboardAssumption DEF DashboardAssumption
  <2>3. FirstOf(d.user) \in Outlets
    BY <2>2 DEF FirstOf
  <2>4. IsMember(d.user, d.selected) => d.selected \in Outlets
    BY <2>2 DEF IsMember
  <2>5. StoreShown(d) \in Outlets
    BY <1>2, <2>3, <2>4 DEF StoreShown
  <2> QED BY <1>2, <2>5, DashboardAssumption DEF DashboardAssumption
<1> QED BY <1>1, <1>2

\* No request fits every session.
LEMMA NoFetchFits ==
  ASSUME NEW d
  PROVE  NoFetch \in FetchRow /\ FetchFits(NoFetch, d) /\ NoFetch.kind = "none"
BY DEF NoFetch, FetchRow, FetchFits, ConsoleRequests, Entering

\* A load of a store that is shown fits.
LEMMA LoadFits ==
  ASSUME NEW o \in Outlets \cup {NoOutlet}
  PROVE  /\ LoadOf(o) \in FetchRow /\ LoadOf(o).kind = "load" /\ LoadOf(o).pc = "sent"
         /\ ~LoadOf(o).old /\ LoadOf(o).outlet = o
BY DEF LoadOf, NoFetch, FetchRow, ConsoleRequests

\* A request of a console fits a session that shows a store.
LEMMA ConsoleRequestFits ==
  ASSUME NEW d, NEW r, r.kind \in ConsoleRequests, r.pc # "idle", ~r.old,
         StoreShown(d) # NoOutlet
  PROVE  FetchFits(r, d)
BY DEF FetchFits, ConsoleRequests, Entering

\* One request becomes another that fits, and begins a session only when none of
\* the others does.
LEMMA FetchStep ==
  ASSUME NEW d, NEW requests, FetchesFit(requests, d), NEW f \in Fetches,
         NEW r \in FetchRow, FetchFits(r, d), r.kind # "restore",
         \A g \in Fetches \ {f} : r.kind # "none" => requests[g].kind # "restore",
         r.kind \in Entering /\ ~d.overtaken =>
           \A g \in Fetches \ {f} : requests[g].kind \notin Entering
  PROVE  FetchesFit([requests EXCEPT ![f] = r], d)
<1> DEFINE next == [requests EXCEPT ![f] = r]
<1>1. /\ next \in [Fetches -> FetchRow]
      /\ \A g \in Fetches : next[g] = IF g = f THEN r ELSE requests[g]
  BY DEF FetchesFit
<1> HIDE DEF next
<1>2. \A g \in Fetches : FetchFits(next[g], d)
  BY <1>1 DEF FetchesFit
<1>3. ASSUME NEW g \in Fetches, next[g].kind = "restore", NEW h \in Fetches \ {g}
      PROVE  next[h].kind = "none"
  <2>1. g # f /\ requests[g].kind = "restore"
    BY <1>1, <1>3
  <2>2. requests[h].kind = "none"
    BY <1>3, <2>1 DEF FetchesFit
  <2>3. r.kind = "none"
    BY <2>1
  <2> QED BY <1>1, <2>2, <2>3
<1>4. ASSUME ~d.overtaken, NEW g \in Fetches, NEW h \in Fetches,
             next[g].kind \in Entering, next[h].kind \in Entering
      PROVE  g = h
  BY <1>1, <1>4 DEF FetchesFit
<1> QED BY <1>1, <1>2, <1>3, <1>4 DEF FetchesFit, next

\* A request that is over.
LEMMA DoneFits ==
  ASSUME DashboardOK, NEW f \in Fetches
  PROVE  /\ FetchesFit(Done(f), dash)
         /\ \A g \in Fetches : Done(f)[g] = IF g = f THEN NoFetch ELSE fetch[g]
<1>1. FetchesFit(fetch, dash)
  BY DEF DashboardOK
<1>2. NoFetch \in FetchRow /\ FetchFits(NoFetch, dash) /\ NoFetch.kind = "none"
  BY NoFetchFits
<1>3. FetchesFit([fetch EXCEPT ![f] = NoFetch], dash)
  BY <1>1, <1>2, FetchStep DEF Entering
<1> QED BY <1>1, <1>3 DEF Done, FetchesFit

\* The requests without those of a console that has gone.
LEMMA AwayFits ==
  ASSUME NEW d, NEW requests \in [Fetches -> FetchRow],
         \A f \in Fetches : requests[f].kind \notin ConsoleRequests => FetchFits(requests[f], d),
         \A f \in Fetches : requests[f].kind = "restore" =>
           \A g \in Fetches \ {f} : requests[g].kind = "none",
         ~d.overtaken =>
           \A f, g \in Fetches : requests[f].kind \in Entering /\ requests[g].kind \in Entering
                                 => f = g
  PROVE  FetchesFit(Away(requests), d)
<1> DEFINE rest == Away(requests)
<1>1. /\ rest \in [Fetches -> FetchRow]
      /\ \A f \in Fetches :
           rest[f] = IF requests[f].kind \in ConsoleRequests THEN NoFetch ELSE requests[f]
  BY NoFetchFits DEF Away
<1> HIDE DEF rest
<1>2. \A f \in Fetches : FetchFits(rest[f], d)
  BY <1>1, NoFetchFits
<1>3. \A f \in Fetches : rest[f].kind # "none" => rest[f] = requests[f]
  BY <1>1, NoFetchFits
<1>4. \A f \in Fetches : requests[f].kind = "none" => rest[f].kind = "none"
  BY <1>3
<1>5. \A f \in Fetches : rest[f].kind \in Entering => requests[f].kind \in Entering
  BY <1>3 DEF Entering
<1>6. \A f \in Fetches : rest[f].kind = "restore" => requests[f].kind = "restore"
  BY <1>3
<1> QED BY <1>1, <1>2, <1>4, <1>5, <1>6 DEF FetchesFit, rest

\* While a store is shown no session is being restored.
LEMMA NotRestoring ==
  ASSUME NEW d \in DashRow, StoreShown(d) # NoOutlet, NEW requests, FetchesFit(requests, d)
  PROVE  \A f \in Fetches : requests[f].kind # "restore"
<1>1. d.user # NoOne
  BY ShownFits
<1> QED BY <1>1 DEF FetchesFit, FetchFits, Entering

\* One more request of a console.
LEMMA PlusFits ==
  ASSUME NEW d \in DashRow, StoreShown(d) # NoOutlet, NEW requests, FetchesFit(requests, d),
         NEW r \in FetchRow, r.kind \in ConsoleRequests, r.pc # "idle", ~r.old,
         NEW next \in Plus(requests, r)
  PROVE  /\ FetchesFit(next, d)
         /\ \E f \in Fetches : /\ requests[f].pc = "idle" /\ next[f] = r
                               /\ \A g \in Fetches \ {f} : next[g] = requests[g]
<1>1. PICK f \in Fetches : requests[f].pc = "idle" /\ next = [requests EXCEPT ![f] = r]
  BY DEF Plus
<1>2. FetchFits(r, d)
  BY ConsoleRequestFits
<1>3. \A g \in Fetches : requests[g].kind # "restore"
  BY NotRestoring
<1>4. FetchesFit(next, d)
  BY <1>1, <1>2, <1>3, FetchStep DEF ConsoleRequests, Entering
<1> QED BY <1>1, <1>4 DEF FetchesFit

\* A console that starts, or is given another store, waits for its load; the
\* orders console waits for nothing and promises nothing.
LEMMA StartingFits ==
  ASSUME NEW d \in DashRow, StoreShown(d) # NoOutlet, NEW requests, FetchesFit(requests, d),
         NEW c \in Consoles, NEW next \in Starting(c, requests, StoreShown(d)), NEW b
  PROVE  FetchesFit(next, d) /\ BoardFits(c, b, next, d)
<1> DEFINE r == LoadOf(StoreShown(d))
<1>1. /\ r \in FetchRow /\ r.kind = "load" /\ r.pc = "sent" /\ ~r.old
  BY ShownFits, LoadFits
<1> HIDE DEF r
<1>2. CASE LoadsByItself(c)
  <2>1. next \in Plus(requests, r)
    BY <1>2 DEF Starting, r
  <2>2. FetchesFit(next, d) /\ \E f \in Fetches : next[f] = r
    BY <1>1, <2>1, PlusFits DEF ConsoleRequests
  <2> QED BY <1>1, <2>2 DEF BoardFits
<1>3. CASE ~LoadsByItself(c)
  <2>1. next = requests
    BY <1>3 DEF Starting
  <2>2. c \notin ProfileConsoles
    BY <1>3 DEF LoadsByItself, ProfileConsoles
  <2> QED BY <1>3, <2>1, <2>2 DEF BoardFits
<1> QED BY <1>2, <1>3

\* The page after its session changed: a console whose store stays waits for
\* what it waited for, and the other requests have to fit the session.
LEMMA RenderFits ==
  ASSUME DashboardOK, NEW next \in DashRow, NEW requests \in [Fetches -> FetchRow],
         Render(next, requests), HolderFits(next),
         \A f \in Fetches : requests[f].kind \notin ConsoleRequests => FetchFits(requests[f], next),
         \A f \in Fetches : requests[f].kind = "restore" =>
           \A g \in Fetches \ {f} : requests[g].kind = "none",
         ~next.overtaken =>
           \A f, g \in Fetches : requests[f].kind \in Entering /\ requests[g].kind \in Entering
                                 => f = g,
         Shown # NoOutlet /\ StoreShown(next) # NoOutlet =>
           \A f \in Fetches : requests[f].kind \in ConsoleRequests \/ fetch[f].kind \in ConsoleRequests
                              => requests[f] = fetch[f],
         keptToken' \in Folk \cup {NoOne}, UNCHANGED <<pane, refusals>>
  PROVE  DashboardOK'
<1> DEFINE is == StoreShown(next)
<1>1. dash' = next /\ pane \in Consoles /\ board \in BoardRow /\ dash \in DashRow
  BY DEF Render, DashboardOK, DashboardTypes
<1>2. FetchesFit(Away(requests), next)
  BY AwayFits
<1>3. Blank \in BoardRow
  BY DEF Blank, BoardRow
<1>4. ASSUME Shown # NoOutlet, is # NoOutlet
      PROVE  FetchesFit(requests, next)
  <2>1. \A f \in Fetches : requests[f].kind \in ConsoleRequests => FetchFits(fetch[f], dash)
    BY DEF DashboardOK, FetchesFit
  <2>2. \A f \in Fetches : requests[f].kind \in ConsoleRequests =>
          requests[f].pc # "idle" /\ ~requests[f].old
    BY <1>4, <2>1 DEF FetchFits, ConsoleRequests
  <2>3. \A f \in Fetches : FetchFits(requests[f], next)
    BY <1>4, <2>2, ConsoleRequestFits
  <2> QED BY <2>3 DEF FetchesFit
<1>5. /\ board' \in BoardRow /\ FetchesFit(fetch', next) /\ BoardFits(pane, board', fetch', next)
  <2>1. CASE is = NoOutlet
    <3>1. board' = Blank /\ fetch' = Away(requests)
      BY <2>1 DEF Render
    <3> QED BY <1>2, <1>3, <2>1, <3>1 DEF BoardFits
  <2>2. CASE is # NoOutlet /\ Shown = NoOutlet
    <3>1. board' = Blank /\ fetch' \in Starting(pane, Away(requests), is)
      BY <2>2 DEF Render, Shown
    <3> QED BY <1>1, <1>2, <1>3, <2>2, <3>1, StartingFits
  <2>3. CASE is # NoOutlet /\ Shown # NoOutlet /\ is # Shown
    <3>1. board' = OfNewStore(board) /\ fetch' \in Starting(pane, requests, is)
      BY <2>3 DEF Render, Shown
    <3>2. board' \in BoardRow
      BY <1>1, <3>1 DEF OfNewStore, BoardRow
    <3> QED BY <1>1, <1>4, <2>3, <3>1, <3>2, StartingFits
  <2>4. CASE is # NoOutlet /\ Shown # NoOutlet /\ is = Shown
    <3>1. board' = board /\ fetch' = requests
      BY <2>4 DEF Render, Shown
    <3>2. BoardFits(pane, board, fetch, dash)
      BY DEF DashboardOK
    <3>3. (\A f \in Fetches : requests[f].kind # "load") =>
            \A f \in Fetches : fetch[f].kind # "load"
      BY <2>4 DEF ConsoleRequests
    <3>4. BoardFits(pane, board, requests, next)
      BY <2>4, <3>2, <3>3 DEF BoardFits, Shown
    <3> QED BY <1>1, <1>4, <2>4, <3>1, <3>4
  <2> QED BY <2>1, <2>2, <2>3, <2>4
<1> QED
  BY <1>1, <1>5 DEF DashboardOK, DashboardTypes

\* What the invariant says of one session's fresh requests.
LEMMA FreshFetches ==
  ASSUME DashboardOK, NEW f \in Fetches
  PROVE  /\ fetch[f] \in FetchRow /\ FetchFits(fetch[f], dash)
         /\ fetch[f].kind \in Entering /\ ~dash.overtaken =>
              /\ dash.user = NoOne /\ dash.loading /\ ~fetch[f].old
              /\ \A g \in Fetches \ {f} : fetch[g].kind \notin Entering
<1>1. fetch[f] \in FetchRow /\ FetchFits(fetch[f], dash)
  BY DEF DashboardOK, FetchesFit
<1>2. fetch[f].kind \in Entering /\ ~dash.overtaken =>
        /\ dash.user = NoOne /\ dash.loading /\ ~fetch[f].old
        /\ \A g \in Fetches \ {f} : fetch[g].kind \notin Entering
  BY <1>1 DEF DashboardOK, FetchesFit, FetchFits, Entering
<1> QED BY <1>1, <1>2

\* What an answer leaves of the requests: its own is over.
LEMMA DoneFetches ==
  ASSUME DashboardOK, NEW f \in Fetches, fetch[f].kind # "none"
  PROVE  /\ Done(f) \in [Fetches -> FetchRow]
         /\ \A g \in Fetches : FetchFits(Done(f)[g], dash) /\ Done(f)[g].kind # "restore"
         /\ \A g \in Fetches : Done(f)[g].kind # "none" => Done(f)[g] = fetch[g]
         /\ \A g \in Fetches : g # f => Done(f)[g] = fetch[g]
         /\ fetch[f].kind \in Entering /\ ~dash.overtaken =>
              \A g \in Fetches : Done(f)[g].kind \notin Entering
<1>1. /\ FetchesFit(Done(f), dash)
      /\ \A g \in Fetches : Done(f)[g] = IF g = f THEN NoFetch ELSE fetch[g]
  BY DoneFits
<1>2. \A g \in Fetches : Done(f)[g].kind # "none" => g # f /\ Done(f)[g] = fetch[g]
  BY <1>1, NoFetchFits
<1>3. \A g \in Fetches : g # f => fetch[g].kind # "restore"
  BY DEF DashboardOK, FetchesFit
<1>4. fetch[f].kind \in Entering /\ ~dash.overtaken =>
        \A g \in Fetches : Done(f)[g].kind \notin Entering
  BY <1>2, FreshFetches DEF Entering
<1> QED BY <1>1, <1>2, <1>3, <1>4 DEF FetchesFit

\* A page that is opened asks who holds the token kept, if one is.
LEMMA OpeningDashboardKeeps ==
  ASSUME DashboardOK, OpenDashboard
  PROVE  DashboardOK'
<1> DEFINE none == [f \in Fetches |-> NoFetch]
           r == SignInRequest("restore", keptToken)
<1>1. keptToken \in Folk \cup {NoOne}
  BY DEF DashboardOK, DashboardTypes
<1>2. /\ dash' \in DashRow /\ dash'.token = keptToken /\ dash'.user = NoOne
      /\ dash'.loading = (keptToken # NoOne) /\ ~dash'.overtaken
  BY <1>1 DEF OpenDashboard, DashRow, SignedOut
<1>3. /\ StoreShown(dash') = NoOutlet /\ board' = Blank
      /\ pane' \in Consoles /\ UNCHANGED <<keptToken, refusals>>
  BY <1>2, ShownFits, DashboardAssumption DEF OpenDashboard, DashboardAssumption
<1>4. r \in FetchRow /\ r.kind = "restore" /\ r.pc = "sent" /\ ~r.old /\ r.who = keptToken
  BY <1>1 DEF SignInRequest, NoFetch, FetchRow, ConsoleRequests
<1>5. none \in [Fetches -> FetchRow] /\ \A f \in Fetches : none[f] = NoFetch
  BY NoFetchFits
<1>6. fetch' = none \/ (keptToken # NoOne /\ fetch' \in Plus(none, r))
  BY DEF OpenDashboard
<1>7. NoFetch.kind = "none"
  BY NoFetchFits
<1> HIDE DEF none, r
<1>8. keptToken # NoOne => FetchFits(r, dash')
  BY <1>2, <1>4 DEF FetchFits, ConsoleRequests, Entering
<1>9. FetchesFit(fetch', dash')
  <2>1. CASE fetch' = none
    BY <1>5, <1>7, <2>1, NoFetchFits DEF FetchesFit, Entering
  <2>2. CASE keptToken # NoOne /\ fetch' \in Plus(none, r)
    <3>1. PICK f \in Fetches : fetch' = [none EXCEPT ![f] = r]
      BY <2>2 DEF Plus
    <3>2. /\ fetch' \in [Fetches -> FetchRow]
          /\ \A g \in Fetches : fetch'[g] = IF g = f THEN r ELSE NoFetch
      BY <1>4, <1>5, <3>1
    <3>3. \A g \in Fetches : FetchFits(fetch'[g], dash')
      BY <1>8, <2>2, <3>2, NoFetchFits
    <3>4. \A g \in Fetches : g # f => fetch'[g].kind = "none"
      BY <1>7, <3>2
    <3> QED BY <3>2, <3>3, <3>4 DEF FetchesFit, Entering
  <2> QED BY <1>6, <2>1, <2>2
<1>10. BoardFits(pane', board', fetch', dash') /\ board' \in BoardRow
  BY <1>3 DEF BoardFits, Blank, BoardRow
<1> QED
  BY <1>1, <1>2, <1>3, <1>9, <1>10 DEF DashboardOK, DashboardTypes, HolderFits

\* An answer that only ends the loading.
LEMMA SessionEndsKeep ==
  ASSUME DashboardOK, NEW f \in Fetches, NEW next \in DashRow,
         fetch[f].kind \in {"login", "restore", "enter", "refresh"},
         next.token = dash.token, next.user = dash.user, next.selected = dash.selected,
         ~next.overtaken => ~dash.overtaken /\ ~fetch[f].old,
         Render(next, Done(f)), UNCHANGED <<keptToken, pane, refusals>>
  PROVE  DashboardOK'
<1> DEFINE requests == Done(f)
<1>1. fetch[f] \in FetchRow /\ FetchFits(fetch[f], dash)
  BY FreshFetches
<1>2. HolderFits(next)
  BY DEF DashboardOK, HolderFits
<1>3. /\ requests \in [Fetches -> FetchRow]
      /\ \A g \in Fetches : FetchFits(requests[g], dash) /\ requests[g].kind # "restore"
      /\ \A g \in Fetches : requests[g].kind # "none" => requests[g] = fetch[g]
      /\ \A g \in Fetches : g # f => requests[g] = fetch[g]
      /\ fetch[f].kind \in Entering /\ ~dash.overtaken =>
           \A g \in Fetches : requests[g].kind \notin Entering
  BY DoneFetches
<1>4. Render(next, requests) /\ keptToken' \in Folk \cup {NoOne}
  BY DEF DashboardOK, DashboardTypes
<1> HIDE DEF requests
<1>5. ~next.overtaken => \A g \in Fetches : requests[g].kind \notin Entering
  <2>1. CASE fetch[f].kind \in Entering
    BY <1>3, <2>1
  <2>2. CASE fetch[f].kind = "refresh"
    <3>1. ~next.overtaken => dash.user # NoOne /\ ~dash.overtaken
      BY <1>1, <2>2 DEF FetchFits
    <3> QED BY <1>3, <3>1 DEF FetchFits, Entering
  <2> QED BY <2>1, <2>2 DEF Entering
<1>6. \A g \in Fetches : requests[g].kind \notin ConsoleRequests => FetchFits(requests[g], next)
  BY <1>3, <1>5 DEF FetchFits, ConsoleRequests, Entering
<1>7. \A g \in Fetches : requests[g].kind \in ConsoleRequests \/ fetch[g].kind \in ConsoleRequests
                         => requests[g] = fetch[g]
  BY <1>3 DEF ConsoleRequests
<1> QED BY <1>2, <1>3, <1>4, <1>5, <1>6, <1>7, RenderFits

\* Whom the page shows is who holds its token, when the answer is this session's.
LEMMA BootstrapKeeps ==
  ASSUME DashboardOK, NEW f \in Fetches,
         fetch[f].kind \in {"restore", "enter", "refresh"},
         Render(Bootstrapped(f), Done(f)), UNCHANGED <<keptToken, pane, refusals>>
  PROVE  DashboardOK'
<1> DEFINE next == Bootstrapped(f)
           requests == Done(f)
<1>1. fetch[f] \in FetchRow /\ FetchFits(fetch[f], dash) /\ dash \in DashRow
  BY FreshFetches DEF DashboardOK, DashboardTypes
<1>2. FirstOf(fetch[f].who) \in Outlets
  BY <1>1, FirstStore DEF FetchFits, FetchRow, Entering
<1>3. /\ next \in DashRow /\ next.token = dash.token /\ next.user = fetch[f].who
      /\ next.overtaken = (dash.overtaken \/ fetch[f].old)
  BY <1>1, <1>2 DEF Bootstrapped, SessionEnded, DashRow, FetchRow
<1>4. ~next.overtaken => fetch[f].who = dash.token
  BY <1>1, <1>3 DEF FetchFits
<1>5. HolderFits(next)
  BY <1>3, <1>4 DEF HolderFits
<1>6. /\ requests \in [Fetches -> FetchRow]
      /\ \A g \in Fetches : FetchFits(requests[g], dash) /\ requests[g].kind # "restore"
      /\ \A g \in Fetches : requests[g].kind # "none" => requests[g] = fetch[g]
      /\ \A g \in Fetches : g # f => requests[g] = fetch[g]
      /\ fetch[f].kind \in Entering /\ ~dash.overtaken =>
           \A g \in Fetches : requests[g].kind \notin Entering
  BY DoneFetches
<1>7. Render(next, requests) /\ keptToken' \in Folk \cup {NoOne}
  BY DEF DashboardOK, DashboardTypes
<1> HIDE DEF next, requests
<1>8. ~next.overtaken =>
        /\ \A g \in Fetches : requests[g].kind \notin Entering
        /\ \A g \in Fetches : requests[g].kind \in {"refresh", "logout"} /\ ~requests[g].old
                              => next.user # NoOne
  <2>1. CASE fetch[f].kind \in Entering
    <3>1. ~next.overtaken => ~dash.overtaken /\ dash.user = NoOne
      BY <1>3, <2>1, FreshFetches
    <3> QED BY <1>3, <1>6, <2>1, <3>1 DEF FetchFits
  <2>2. CASE fetch[f].kind = "refresh"
    <3>1. ~next.overtaken => dash.user # NoOne /\ ~dash.overtaken
      BY <1>1, <1>3, <2>2 DEF FetchFits
    <3>2. ~next.overtaken => next.user # NoOne
      BY <1>3, <1>4, <3>1 DEF DashboardOK, HolderFits
    <3> QED BY <1>6, <3>1, <3>2 DEF FetchFits, Entering
  <2> QED BY <2>1, <2>2 DEF Entering
<1>9. \A g \in Fetches : requests[g].kind \notin ConsoleRequests => FetchFits(requests[g], next)
  BY <1>3, <1>6, <1>8 DEF FetchFits, ConsoleRequests, Entering
<1>10. \A g \in Fetches : requests[g].kind \in ConsoleRequests \/ fetch[g].kind \in ConsoleRequests
                         => requests[g] = fetch[g]
  BY <1>6 DEF ConsoleRequests
<1> QED BY <1>3, <1>5, <1>6, <1>7, <1>8, <1>9, <1>10, RenderFits

\* A token is on the page before its user is.
LEMMA ReceivingLoginKeeps ==
  ASSUME DashboardOK, NEW f \in Fetches, ReceiveLogin(f)
  PROVE  DashboardOK'
<1>1. /\ fetch[f].kind = "login" /\ UNCHANGED <<pane, refusals>>
      /\ fetch[f] \in FetchRow /\ FetchFits(fetch[f], dash) /\ dash \in DashRow
  BY FreshFetches DEF ReceiveLogin, DashboardOK, DashboardTypes
<1>2. ~dash.overtaken =>
        /\ dash.user = NoOne /\ dash.loading /\ ~fetch[f].old
        /\ \A g \in Fetches \ {f} : fetch[g].kind \notin Entering
  BY <1>1, FreshFetches DEF Entering
<1>3. CASE ~FetchAt(f, "done")
  <2> DEFINE next == [dash EXCEPT !.loading = FALSE]
  <2>1. Render(next, Done(f)) /\ UNCHANGED keptToken
    BY <1>3 DEF ReceiveLogin
  <2>2. /\ next \in DashRow /\ next.token = dash.token /\ next.user = dash.user
        /\ next.selected = dash.selected /\ next.overtaken = dash.overtaken
    BY <1>1 DEF DashRow
  <2> HIDE DEF next
  <2> QED BY <1>1, <1>2, <2>1, <2>2, SessionEndsKeep
<1>4. CASE FetchAt(f, "done")
  <2> DEFINE enter == SignInRequest("enter", fetch[f].who)
             next == [dash EXCEPT !.token = fetch[f].who]
             requests == [fetch EXCEPT ![f] = enter]
  <2>1. keptToken' = fetch[f].who /\ Render(next, requests)
    BY <1>4 DEF ReceiveLogin
  <2>2. /\ next \in DashRow /\ next.token = fetch[f].who /\ next.user = dash.user
        /\ next.overtaken = dash.overtaken /\ next.loading = dash.loading
    BY <1>1 DEF DashRow, FetchRow
  <2>3. /\ enter \in FetchRow /\ enter.kind = "enter" /\ enter.pc = "sent" /\ ~enter.old
        /\ enter.who = fetch[f].who
    BY <1>1 DEF SignInRequest, NoFetch, FetchRow, ConsoleRequests
  <2>4. \A g \in Fetches : fetch[g].kind # "restore"
    BY <1>1 DEF DashboardOK, FetchesFit
  <2> HIDE DEF enter
  <2>5. /\ requests \in [Fetches -> FetchRow]
        /\ \A g \in Fetches : requests[g] = IF g = f THEN enter ELSE fetch[g]
    BY <2>3 DEF DashboardOK, FetchesFit
  <2> HIDE DEF next, requests
  <2>6. HolderFits(next) /\ FetchFits(enter, next)
    BY <1>1, <1>2, <2>2, <2>3 DEF HolderFits, FetchFits, ConsoleRequests, Entering
  <2>7. \A g \in Fetches : requests[g].kind \notin ConsoleRequests => FetchFits(requests[g], next)
    <3>1. \A g \in Fetches : FetchFits(fetch[g], dash)
      BY DEF DashboardOK, FetchesFit
    <3>2. ASSUME NEW g \in Fetches, g # f, fetch[g].kind \notin ConsoleRequests
          PROVE  FetchFits(fetch[g], next)
      BY <1>2, <2>2, <2>4, <3>1, <3>2 DEF FetchFits, Entering
    <3> QED BY <2>5, <2>6, <3>2
  <2>8. ~next.overtaken =>
          \A g, h \in Fetches : requests[g].kind \in Entering /\ requests[h].kind \in Entering
                                => g = h
    BY <1>2, <2>2, <2>5
  <2>9. \A g \in Fetches : requests[g].kind # "restore"
    BY <2>3, <2>4, <2>5
  <2>10. \A g \in Fetches :
           requests[g].kind \in ConsoleRequests \/ fetch[g].kind \in ConsoleRequests
           => requests[g] = fetch[g]
    BY <1>1, <2>3, <2>5 DEF ConsoleRequests
  <2>11. keptToken' \in Folk \cup {NoOne}
    BY <1>1, <2>1 DEF FetchRow
  <2> QED BY <1>1, <2>1, <2>2, <2>5, <2>6, <2>7, <2>8, <2>9, <2>10, <2>11, RenderFits
<1> QED BY <1>3, <1>4

\* The user's answer comes, or none does: a restoring that fails leaves nothing.
LEMMA ReceivingMeKeeps ==
  ASSUME DashboardOK, NEW f \in Fetches, ReceiveMe(f)
  PROVE  DashboardOK'
<1>1. /\ fetch[f].kind \in {"restore", "enter", "refresh"} /\ UNCHANGED <<pane, refusals>>
      /\ fetch[f] \in FetchRow /\ dash \in DashRow
  BY FreshFetches DEF ReceiveMe, DashboardOK, DashboardTypes
<1>2. CASE FetchAt(f, "done")
  <2>1. Render(Bootstrapped(f), Done(f)) /\ UNCHANGED keptToken
    BY <1>2 DEF ReceiveMe, FetchAt
  <2> QED BY <1>1, <2>1, BootstrapKeeps
<1>3. CASE ~FetchAt(f, "done") /\ FetchAt(f, "refused") /\ fetch[f].kind = "restore"
  <2>1. Render(SignedOut, Done(f)) /\ keptToken' = NoOne
    BY <1>3 DEF ReceiveMe, FetchAt
  <2>2. /\ Done(f) \in [Fetches -> FetchRow]
        /\ \A g \in Fetches : FetchFits(Done(f)[g], dash)
        /\ \A g \in Fetches : Done(f)[g].kind # "none" => Done(f)[g] = fetch[g]
        /\ \A g \in Fetches : Done(f)[g].kind # "restore"
    BY <1>1, DoneFetches
  <2>3. \A g \in Fetches : g # f => fetch[g].kind = "none"
    BY <1>3 DEF DashboardOK, FetchesFit
  <2>4. \A g \in Fetches : Done(f)[g].kind = "none"
    BY <1>3, <2>2, <2>3
  <2>5. /\ SignedOut \in DashRow /\ HolderFits(SignedOut) /\ StoreShown(SignedOut) = NoOutlet
    BY DEF SignedOut, DashRow, HolderFits, StoreShown
  <2>6. \A g \in Fetches : FetchFits(Done(f)[g], SignedOut)
    BY <2>2, <2>4 DEF FetchFits, ConsoleRequests, Entering
  <2> QED
    BY <1>1, <2>1, <2>2, <2>4, <2>5, <2>6, RenderFits DEF Entering
<1>4. CASE ~FetchAt(f, "done") /\ ~(FetchAt(f, "refused") /\ fetch[f].kind = "restore")
  <2> DEFINE next == SessionEnded(f)
  <2>1. Render(next, Done(f)) /\ UNCHANGED keptToken
    BY <1>4 DEF ReceiveMe
  <2>2. /\ next \in DashRow /\ next.token = dash.token /\ next.user = dash.user
        /\ next.selected = dash.selected
        /\ next.overtaken = (dash.overtaken \/ fetch[f].old)
    BY <1>1 DEF SessionEnded, DashRow, FetchRow
  <2> HIDE DEF next
  <2> QED BY <1>1, <2>1, <2>2, SessionEndsKeep
<1> QED BY <1>2, <1>3, <1>4

\* What was asked before the session was left is an earlier session's.
LEMMA LeavingDashboardKeeps ==
  ASSUME DashboardOK, NEW f \in Fetches, ReceiveLogout(f)
  PROVE  DashboardOK'
<1> DEFINE next == [SignedOut EXCEPT !.overtaken = dash.overtaken \/ fetch[f].old]
           requests == Superseded(f)
<1>1. /\ fetch[f].kind = "logout" /\ keptToken' = NoOne /\ Render(next, requests)
      /\ UNCHANGED <<pane, refusals>>
  BY DEF ReceiveLogout
<1>2. fetch[f] \in FetchRow /\ FetchFits(fetch[f], dash) /\ dash \in DashRow
  BY FreshFetches DEF DashboardOK, DashboardTypes
<1>3. /\ next \in DashRow /\ next.token = NoOne /\ next.user = NoOne
      /\ next.overtaken = (dash.overtaken \/ fetch[f].old)
  BY <1>2 DEF DashRow, FetchRow, SignedOut
<1>4. HolderFits(next) /\ StoreShown(next) = NoOutlet
  BY <1>3 DEF HolderFits, StoreShown
<1>5. /\ Done(f) \in [Fetches -> FetchRow]
      /\ \A g \in Fetches : FetchFits(Done(f)[g], dash) /\ Done(f)[g].kind # "restore"
  BY <1>1, DoneFetches
<1>6. /\ requests \in [Fetches -> FetchRow]
      /\ \A g \in Fetches : /\ requests[g].pc = Done(f)[g].pc
                            /\ requests[g].kind = Done(f)[g].kind
                            /\ requests[g].who = Done(f)[g].who
                            /\ requests[g].old = (Done(f)[g].pc # "idle")
  BY <1>5 DEF Superseded, FetchRow
<1>7. ~next.overtaken => dash.user # NoOne /\ ~dash.overtaken
  BY <1>1, <1>2, <1>3 DEF FetchFits
<1> HIDE DEF next, requests
<1>8. ~next.overtaken => \A g \in Fetches : requests[g].kind \notin Entering
  BY <1>5, <1>6, <1>7 DEF FetchFits, Entering
<1>9. ASSUME NEW g \in Fetches, requests[g].kind \notin ConsoleRequests
      PROVE  FetchFits(requests[g], next)
  <2>1. /\ requests[g].kind = "none" <=> requests[g].pc = "idle"
        /\ requests[g].kind = "none" => ~requests[g].old
        /\ requests[g].kind # "none" => requests[g].old
        /\ requests[g].kind # "restore"
        /\ requests[g].kind \in Entering \cup {"refresh"} => requests[g].who # NoOne
    BY <1>5, <1>6 DEF FetchFits
  <2>2. requests[g].kind \in {"none", "login", "enter", "refresh", "logout"}
    BY <1>6, <1>9, <2>1 DEF FetchRow
  <2> QED BY <1>8, <1>9, <2>1, <2>2 DEF FetchFits, Entering, ConsoleRequests
<1>10. \A g \in Fetches : requests[g].kind # "restore"
  BY <1>5, <1>6
<1> QED BY <1>1, <1>3, <1>4, <1>6, <1>8, <1>9, <1>10, RenderFits

\* Another of the user's stores is chosen.
LEMMA SelectingKeeps ==
  ASSUME DashboardOK, NEW o \in Outlets, SelectOutlet(o)
  PROVE  DashboardOK'
<1> DEFINE next == [dash EXCEPT !.selected = o]
<1>1. /\ Render(next, fetch) /\ UNCHANGED <<keptToken, pane, refusals>>
      /\ dash \in DashRow /\ keptToken' \in Folk \cup {NoOne} /\ Shown # NoOutlet
  BY DEF SelectOutlet, DashboardOK, DashboardTypes
<1>2. /\ next \in DashRow /\ next.token = dash.token /\ next.user = dash.user
      /\ next.overtaken = dash.overtaken /\ next.loading = dash.loading
  BY <1>1 DEF DashRow
<1>3. fetch \in [Fetches -> FetchRow] /\ \A f \in Fetches : FetchFits(fetch[f], dash)
  BY DEF DashboardOK, FetchesFit
<1> HIDE DEF next
<1>4. \A f \in Fetches : fetch[f].kind \notin ConsoleRequests => FetchFits(fetch[f], next)
  BY <1>2, <1>3 DEF FetchFits
<1>5. HolderFits(next)
  BY <1>2 DEF DashboardOK, HolderFits
<1>6. \A f \in Fetches : fetch[f].kind # "restore"
  BY <1>1, NotRestoring DEF Shown, DashboardOK
<1>7. ~next.overtaken =>
        \A f, g \in Fetches : fetch[f].kind \in Entering /\ fetch[g].kind \in Entering => f = g
  BY <1>2 DEF DashboardOK, FetchesFit
<1> QED BY <1>1, <1>2, <1>3, <1>4, <1>5, <1>6, <1>7, RenderFits

\* A session asks, and shows that something loads.
LEMMA SessionAsks ==
  ASSUME DashboardOK, NEW r \in FetchRow, r.pc = "sent", ~r.old,
         \/ r.kind = "login" /\ Shown = NoOutlet /\ ~dash.loading /\ r.who # NoOne
         \/ r.kind \in {"refresh", "logout"} /\ Shown # NoOutlet /\ r.who = dash.token,
         fetch' \in Plus(fetch, r), dash' = [dash EXCEPT !.loading = TRUE],
         UNCHANGED <<keptToken, pane, board, refusals>>
  PROVE  DashboardOK'
<1>1. dash \in DashRow /\ FetchesFit(fetch, dash)
  BY DEF DashboardOK, DashboardTypes
<1>2. /\ dash' \in DashRow /\ dash'.token = dash.token /\ dash'.user = dash.user
      /\ dash'.selected = dash.selected /\ dash'.overtaken = dash.overtaken /\ dash'.loading
  BY <1>1 DEF DashRow
<1>3. StoreShown(dash') = Shown /\ HolderFits(dash')
  BY <1>2 DEF StoreShown, Shown, DashboardOK, HolderFits
<1>4. \A f \in Fetches : FetchFits(fetch[f], dash')
  BY <1>1, <1>2, <1>3 DEF FetchesFit, FetchFits, Shown
<1>5. FetchesFit(fetch, dash')
  BY <1>1, <1>2, <1>4 DEF FetchesFit
<1>6. /\ Shown = NoOutlet /\ ~dash.overtaken => dash.user = NoOne
      /\ Shown # NoOutlet => dash.user # NoOne /\ dash.token # NoOne
  BY <1>1, ShownFits DEF Shown, DashboardOK, HolderFits
<1>7. FetchFits(r, dash')
  BY <1>2, <1>3, <1>6 DEF FetchFits, ConsoleRequests, Entering
<1>8. \A f \in Fetches : fetch[f].kind # "restore"
  <2>1. CASE Shown # NoOutlet
    BY <1>1, <2>1, NotRestoring DEF Shown
  <2>2. CASE ~dash.loading
    BY <1>1, <2>2 DEF FetchesFit, FetchFits, Entering
  <2> QED BY <2>1, <2>2
<1>9. r.kind \in Entering /\ ~dash'.overtaken => \A f \in Fetches : fetch[f].kind \notin Entering
  BY <1>1, <1>2 DEF FetchesFit, FetchFits, Entering
<1>10. PICK f \in Fetches : fetch[f].pc = "idle" /\ fetch' = [fetch EXCEPT ![f] = r]
  BY DEF Plus
<1>11. FetchesFit(fetch', dash')
  BY <1>5, <1>7, <1>8, <1>9, <1>10, FetchStep
<1>12. \A g \in Fetches : g # f => fetch'[g] = fetch[g]
  BY <1>1, <1>10 DEF FetchesFit
<1>13. fetch[f].kind # "load"
  BY <1>1, <1>10 DEF FetchesFit, FetchFits
<1>14. BoardFits(pane, board, fetch', dash')
  BY <1>3, <1>12, <1>13 DEF DashboardOK, BoardFits, Shown
<1> QED BY <1>2, <1>3, <1>11, <1>14 DEF DashboardOK, DashboardTypes

\* The form and the buttons of the session.
LEMMA SessionRequestsKeep ==
  ASSUME DashboardOK,
         RefreshContext \/ HandleLogout \/ \E u \in Folk : HandleLogin(u)
  PROVE  DashboardOK'
<1>1. dash.token \in Folk \cup {NoOne} /\ NoOne \notin Folk
  BY DashboardAssumption DEF DashboardOK, DashboardTypes, DashRow, DashboardAssumption
<1>2. ASSUME NEW kind \in {"login", "refresh", "logout"}, NEW w \in Folk \cup {NoOne}
      PROVE  /\ SignInRequest(kind, w) \in FetchRow /\ SignInRequest(kind, w).pc = "sent"
             /\ ~SignInRequest(kind, w).old /\ SignInRequest(kind, w).kind = kind
             /\ SignInRequest(kind, w).who = w
  BY DEF SignInRequest, NoFetch, FetchRow, ConsoleRequests
<1>3. CASE RefreshContext
  <2> DEFINE r == SignInRequest("refresh", dash.token)
  <2>1. r \in FetchRow /\ r.pc = "sent" /\ ~r.old /\ r.kind = "refresh" /\ r.who = dash.token
    BY <1>1, <1>2
  <2>2. /\ Shown # NoOutlet /\ fetch' \in Plus(fetch, r)
        /\ dash' = [dash EXCEPT !.loading = TRUE] /\ UNCHANGED <<keptToken, pane, board, refusals>>
    BY <1>3 DEF RefreshContext
  <2> HIDE DEF r
  <2> QED BY <2>1, <2>2, SessionAsks
<1>4. CASE HandleLogout
  <2> DEFINE r == SignInRequest("logout", dash.token)
  <2>1. r \in FetchRow /\ r.pc = "sent" /\ ~r.old /\ r.kind = "logout" /\ r.who = dash.token
    BY <1>1, <1>2
  <2>2. /\ Shown # NoOutlet /\ fetch' \in Plus(fetch, r)
        /\ dash' = [dash EXCEPT !.loading = TRUE] /\ UNCHANGED <<keptToken, pane, board, refusals>>
    BY <1>4 DEF HandleLogout
  <2> HIDE DEF r
  <2> QED BY <2>1, <2>2, SessionAsks
<1>5. ASSUME NEW u \in Folk, HandleLogin(u) PROVE DashboardOK'
  <2> DEFINE r == SignInRequest("login", u)
  <2>1. r \in FetchRow /\ r.pc = "sent" /\ ~r.old /\ r.kind = "login" /\ r.who # NoOne
    BY <1>1, <1>2
  <2>2. /\ Shown = NoOutlet /\ ~dash.loading /\ fetch' \in Plus(fetch, r)
        /\ dash' = [dash EXCEPT !.loading = TRUE] /\ UNCHANGED <<keptToken, pane, board, refusals>>
    BY <1>5 DEF HandleLogin
  <2> HIDE DEF r
  <2> QED BY <2>1, <2>2, SessionAsks
<1> QED BY <1>3, <1>4, <1>5

\* Answers on their way change no page.
LEMMA ServingDashboardKeeps ==
  ASSUME DashboardOK, NEW f \in Fetches,
         ServeSession(f) \/ ServeLoad(f) \/ ServeSubmit(f)
  PROVE  DashboardOK'
<1>1. PICK pc \in {"done", "refused", "broken"} : fetch' = [fetch EXCEPT ![f].pc = pc]
  BY DEF ServeSession, ServeLoad, ServeSubmit, Answered
<1>2. /\ fetch[f].pc = "sent" /\ UNCHANGED <<keptToken, dash, pane, board>>
      /\ refusals' \in 0..MostRefusals
  BY DashboardAssumption
  DEF ServeSession, ServeLoad, ServeSubmit, Answered, FetchAt, DashboardOK, DashboardTypes,
      DashboardAssumption
<1> DEFINE r == [fetch[f] EXCEPT !.pc = pc]
<1>3. fetch[f] \in FetchRow /\ FetchFits(fetch[f], dash) /\ FetchesFit(fetch, dash)
  BY FreshFetches DEF DashboardOK
<1>4. /\ r \in FetchRow /\ r.pc = pc /\ r.kind = fetch[f].kind /\ r.who = fetch[f].who
      /\ r.old = fetch[f].old
  BY <1>3 DEF FetchRow
<1>5. /\ fetch' \in [Fetches -> FetchRow]
      /\ \A g \in Fetches : fetch'[g] = IF g = f THEN r ELSE fetch[g]
  BY <1>1, <1>3, <1>4 DEF FetchesFit
<1> HIDE DEF r
<1>6. FetchFits(r, dash)
  BY <1>2, <1>3, <1>4 DEF FetchFits
<1>7. \A g \in Fetches : FetchFits(fetch'[g], dash) /\ fetch'[g].kind = fetch[g].kind
  BY <1>3, <1>4, <1>5, <1>6 DEF FetchesFit
<1>8. FetchesFit(fetch', dash)
  BY <1>3, <1>5, <1>7 DEF FetchesFit
<1>9. BoardFits(pane, board, fetch', dash)
  BY <1>7 DEF DashboardOK, BoardFits
<1> QED BY <1>2, <1>8, <1>9 DEF DashboardOK, DashboardTypes

\* Another section is opened, or a console asks for what it may send or read.
LEMMA ConsoleAsks ==
  ASSUME DashboardOK,
         \/ \E c \in Consoles : OpenConsole(c)
         \/ Reload \/ Submit
  PROVE  DashboardOK'
<1>1. /\ dash \in DashRow /\ FetchesFit(fetch, dash) /\ StoreShown(dash) = Shown
      /\ BoardFits(pane, board, fetch, dash) /\ board \in BoardRow
  BY DEF DashboardOK, DashboardTypes, Shown
<1>2. ASSUME NEW c \in Consoles, OpenConsole(c) PROVE DashboardOK'
  <2>1. /\ Shown # NoOutlet /\ pane' = c /\ board' = Blank
        /\ fetch' \in Starting(c, Away(fetch), StoreShown(dash))
        /\ UNCHANGED <<keptToken, dash, refusals>>
    BY <1>2 DEF OpenConsole, Shown
  <2>2. FetchesFit(Away(fetch), dash)
    BY <1>1, AwayFits DEF FetchesFit
  <2>3. FetchesFit(fetch', dash) /\ BoardFits(c, Blank, fetch', dash)
    BY <1>1, <2>1, <2>2, StartingFits
  <2> QED BY <2>1, <2>3 DEF DashboardOK, DashboardTypes, Blank, BoardRow
<1>3. ASSUME NEW r \in FetchRow, r.kind \in ConsoleRequests, r.pc = "sent", ~r.old,
             Shown # NoOutlet, fetch' \in Plus(fetch, r),
             UNCHANGED <<keptToken, dash, pane, board, refusals>>
      PROVE  DashboardOK'
  <2>1. /\ FetchesFit(fetch', dash)
        /\ \E f \in Fetches : /\ fetch[f].pc = "idle" /\ fetch'[f] = r
                              /\ \A g \in Fetches \ {f} : fetch'[g] = fetch[g]
    BY <1>1, <1>3, PlusFits
  <2>2. PICK f \in Fetches : /\ fetch[f].pc = "idle"
                             /\ \A g \in Fetches \ {f} : fetch'[g] = fetch[g]
    BY <2>1
  <2>3. fetch[f].kind # "load"
    BY <1>1, <2>2 DEF FetchesFit, FetchFits
  <2>4. BoardFits(pane, board, fetch', dash)
    BY <1>1, <2>2, <2>3 DEF BoardFits
  <2> QED BY <1>3, <2>1, <2>4 DEF DashboardOK, DashboardTypes
<1>4. Shown \in Outlets \cup {NoOutlet}
  BY <1>1, ShownFits
<1>5. CASE Reload
  <2>1. /\ Shown # NoOutlet /\ fetch' \in Plus(fetch, LoadOf(Shown))
        /\ UNCHANGED <<keptToken, dash, pane, board, refusals>>
    BY <1>5 DEF Reload
  <2>2. LoadOf(Shown) \in FetchRow /\ LoadOf(Shown).kind = "load" /\ LoadOf(Shown).pc = "sent"
        /\ ~LoadOf(Shown).old
    BY <1>4, LoadFits
  <2> QED BY <1>3, <2>1, <2>2 DEF ConsoleRequests
<1>6. ASSUME NEW c, NEW kind \in {"form", "row"}, NEW o \in Outlets \cup {NoOutlet},
             Send(c, kind, o)
      PROVE  DashboardOK'
  <2> DEFINE r == [LoadOf(Shown) EXCEPT !.kind = kind, !.of = o]
  <2>1. r \in FetchRow /\ r.kind = kind /\ r.pc = "sent" /\ ~r.old
    BY <1>4 DEF LoadOf, NoFetch, FetchRow, ConsoleRequests
  <2>2. /\ Shown # NoOutlet /\ fetch' \in Plus(fetch, r)
        /\ UNCHANGED <<keptToken, dash, pane, board, refusals>>
    BY <1>6 DEF Send
  <2> HIDE DEF r
  <2> QED BY <1>3, <2>1, <2>2 DEF ConsoleRequests
<1>7. board.form \in Outlets \cup {NoOutlet} /\ board.rows \in Outlets \cup {NoOutlet}
  BY <1>1 DEF BoardRow
<1>8. CASE Submit
  BY <1>6, <1>7, <1>8
  DEF Submit, SubmitProfile, SubmitTheme, SubmitProduct, SubmitMethod, InviteByMail,
      RegisterDomain, ActOnProduct, UpdateOrder, ChangeMember, ActOnDomain, SendRow
<1> QED BY <1>2, <1>5, <1>8

\* What each console makes of an answer; of a good one, its rows and its form.
LEMMA LoadedFits ==
  ASSUME DashboardOK, NEW r \in FetchRow
  PROVE  /\ Loaded(board, r) \in BoardRow
         /\ r.pc = "done" => /\ Loaded(board, r).rows = r.outlet
                             /\ pane \in ProfileConsoles => Loaded(board, r).form = r.outlet
<1>1. board \in BoardRow /\ pane \in ConsoleKinds
  BY DashboardAssumption DEF DashboardOK, DashboardTypes, DashboardAssumption
<1>2. r.outlet \in Outlets \cup {NoOutlet}
  BY DEF FetchRow
<1>3. CASE pane = "orders"
  BY <1>1, <1>2, <1>3 DEF Loaded, OrdersLoaded, Listing, Emptied, BoardRow, ProfileConsoles
<1>4. CASE pane = "members"
  BY <1>1, <1>2, <1>4 DEF Loaded, MembersLoaded, Listing, BoardRow, ProfileConsoles
<1>5. CASE pane = "settings"
  BY <1>1, <1>2, <1>5 DEF Loaded, SettingsLoaded, Listing, Emptied, BoardRow
<1>6. CASE pane = "theme"
  BY <1>1, <1>2, <1>6 DEF Loaded, ThemeLoaded, Listing, BoardRow
<1>7. CASE pane = "domain"
  BY <1>1, <1>2, <1>7 DEF Loaded, DomainLoaded, Listing, Emptied, BoardRow, ProfileConsoles
<1>8. CASE pane = "overview"
  BY <1>1, <1>2, <1>8 DEF Loaded, OverviewLoaded, Listing, Emptied, BoardRow, ProfileConsoles
<1>9. CASE pane = "catalog"
  BY <1>1, <1>2, <1>9 DEF Loaded, CatalogLoaded, Listing, Emptied, BoardRow, ProfileConsoles
<1>10. CASE pane = "shipping"
  BY <1>1, <1>2, <1>10 DEF Loaded, MethodsLoaded, Listing, Emptied, BoardRow, ProfileConsoles
<1> QED
  BY <1>1, <1>3, <1>4, <1>5, <1>6, <1>7, <1>8, <1>9, <1>10 DEF ConsoleKinds

\* A good answer to a load of the store shown leaves the console showing it.
LEMMA ReceivingLoadKeeps ==
  ASSUME DashboardOK, NEW f \in Fetches, ReceiveLoad(f)
  PROVE  DashboardOK'
<1> DEFINE b == Loaded(board, fetch[f])
<1>1. /\ board' = [b EXCEPT !.astray = ~FetchAt(f, "done") \/ fetch[f].outlet # Shown]
      /\ fetch' = Done(f) /\ UNCHANGED <<keptToken, dash, pane, refusals>>
  BY DEF ReceiveLoad
<1>2. FetchesFit(fetch', dash)
  BY <1>1, DoneFits
<1>3. fetch[f] \in FetchRow
  BY FreshFetches
<1>4. /\ b \in BoardRow
      /\ fetch[f].pc = "done" => /\ b.rows = fetch[f].outlet
                                 /\ pane \in ProfileConsoles => b.form = fetch[f].outlet
  BY <1>3, LoadedFits
<1> HIDE DEF b
<1>5. /\ board' \in BoardRow /\ board'.rows = b.rows /\ board'.form = b.form
      /\ ~board'.astray => fetch[f].pc = "done" /\ fetch[f].outlet = Shown
  BY <1>1, <1>4 DEF BoardRow, FetchAt
<1>6. BoardFits(pane, board', fetch', dash)
  BY <1>4, <1>5 DEF BoardFits, Shown
<1> QED BY <1>1, <1>2, <1>5, <1>6 DEF DashboardOK, DashboardTypes

\* What a console without a profile form does to its form.
LEMMA EditingKeeps ==
  ASSUME DashboardOK, StartEditing \/ ResetForm
  PROVE  DashboardOK'
<1>1. board \in BoardRow /\ FetchesFit(fetch, dash) /\ BoardFits(pane, board, fetch, dash)
  BY DEF DashboardOK, DashboardTypes
<1>2. /\ UNCHANGED <<keptToken, dash, pane, fetch, refusals>> /\ pane \in RowConsoles
      /\ board' \in BoardRow /\ board'.rows = board.rows /\ board'.astray = board.astray
  BY <1>1 DEF StartEditing, ResetForm, BoardRow
<1>3. BoardFits(pane, board', fetch, dash)
  BY <1>1, <1>2 DEF BoardFits, RowConsoles, ProfileConsoles
<1> QED BY <1>1, <1>2, <1>3 DEF DashboardOK, DashboardTypes

\* The answer to what was sent is shown, or a load begins with it.
LEMMA SubmitAnswersKeep ==
  ASSUME DashboardOK, NEW f \in Fetches,
         \/ ReceiveProfile(f) \/ ReceiveRowForm(f) \/ ReceiveChanged(f) \/ ReceiveDomain(f)
         \/ ReceiveRefusal(f)
  PROVE  DashboardOK'
<1>1. /\ fetch[f] \in FetchRow /\ FetchFits(fetch[f], dash) /\ FetchesFit(fetch, dash)
      /\ BoardFits(pane, board, fetch, dash) /\ board \in BoardRow /\ dash \in DashRow
      /\ fetch[f].outlet \in Outlets \cup {NoOutlet}
  BY FreshFetches DEF DashboardOK, DashboardTypes, FetchRow
<1>2. /\ fetch[f].kind \in {"form", "row"}
      /\ UNCHANGED <<keptToken, dash, pane, refusals>>
  BY DEF ReceiveProfile, ReceiveRowForm, ReceiveChanged, ReceiveDomain, ReceiveRefusal, SubmitEnds
<1>3. StoreShown(dash) # NoOutlet
  BY <1>1, <1>2 DEF FetchFits, ConsoleRequests
<1>4. /\ FetchesFit(Done(f), dash)
      /\ \A g \in Fetches : Done(f)[g] = IF g = f THEN NoFetch ELSE fetch[g]
  BY DoneFits
<1>5. (\A g \in Fetches : Done(f)[g].kind # "load") => \A g \in Fetches : fetch[g].kind # "load"
  BY <1>2, <1>4
<1>6. BoardFits(pane, board, Done(f), dash)
  BY <1>1, <1>5 DEF BoardFits
<1>7. ASSUME NEW next \in BoardRow, LoadAgain(f, next) PROVE DashboardOK'
  <2> DEFINE r == LoadOf(fetch[f].outlet)
  <2>1. board' = next /\ fetch' = [fetch EXCEPT ![f] = r]
    BY <1>7 DEF LoadAgain
  <2>2. r \in FetchRow /\ r.kind = "load" /\ r.pc = "sent" /\ ~r.old
    BY <1>1, LoadFits
  <2> HIDE DEF r
  <2>3. FetchFits(r, dash)
    BY <1>3, <2>2, ConsoleRequestFits DEF ConsoleRequests
  <2>4. \A g \in Fetches : fetch[g].kind # "restore"
    BY <1>1, <1>3, NotRestoring
  <2>5. FetchesFit(fetch', dash) /\ fetch'[f] = r
    BY <1>1, <2>1, <2>2, <2>3, <2>4, FetchStep DEF Entering, FetchesFit
  <2>6. BoardFits(pane, board', fetch', dash)
    BY <2>2, <2>5 DEF BoardFits
  <2> QED BY <1>2, <1>7, <2>1, <2>5, <2>6 DEF DashboardOK, DashboardTypes
<1>8. ASSUME NEW next \in BoardRow, next.rows \in {fetch[f].outlet, NoOutlet},
             pane \in ProfileConsoles => next.form = fetch[f].outlet, ShowAnswer(f, next)
      PROVE  DashboardOK'
  <2>1. board' = [next EXCEPT !.astray = @ \/ fetch[f].outlet # Shown] /\ fetch' = Done(f)
    BY <1>8 DEF ShowAnswer
  <2>2. /\ board' \in BoardRow /\ board'.rows = next.rows /\ board'.form = next.form
        /\ ~board'.astray => fetch[f].outlet = Shown
    BY <1>8, <2>1 DEF BoardRow
  <2>3. BoardFits(pane, board', fetch', dash)
    BY <1>8, <2>2 DEF BoardFits, Shown
  <2> QED BY <1>2, <1>4, <2>1, <2>2, <2>3 DEF DashboardOK, DashboardTypes
<1>9. CASE ReceiveProfile(f)
  <2> DEFINE next == [board EXCEPT !.rows = fetch[f].outlet, !.form = fetch[f].outlet]
  <2>1. ShowAnswer(f, next)
    BY <1>9 DEF ReceiveProfile
  <2>2. next \in BoardRow /\ next.rows = fetch[f].outlet /\ next.form = fetch[f].outlet
    BY <1>1 DEF BoardRow
  <2> HIDE DEF next
  <2> QED BY <1>8, <2>1, <2>2
<1>10. CASE ReceiveRowForm(f)
  <2>1. [board EXCEPT !.form = NoOutlet] \in BoardRow
    BY <1>1 DEF BoardRow
  <2> QED BY <1>7, <1>10, <2>1 DEF ReceiveRowForm
<1>11. CASE ReceiveChanged(f)
  BY <1>1, <1>7, <1>11 DEF ReceiveChanged
<1>12. CASE ReceiveDomain(f)
  <2>1. pane = "domain" /\ pane \notin ProfileConsoles
    BY <1>12 DEF ReceiveDomain, SubmitEnds, ProfileConsoles
  <2>2. /\ Listing(board, fetch[f].outlet) \in BoardRow
        /\ Listing(board, fetch[f].outlet).rows = fetch[f].outlet
        /\ Emptied(board) \in BoardRow /\ Emptied(board).rows = NoOutlet
    BY <1>1 DEF Listing, Emptied, BoardRow
  <2>3. \/ ShowAnswer(f, Listing(board, fetch[f].outlet)) \/ ShowAnswer(f, Emptied(board))
        \/ LoadAgain(f, board)
    BY <1>12 DEF ReceiveDomain
  <2> QED BY <1>1, <1>7, <1>8, <2>1, <2>2, <2>3
<1>13. CASE ReceiveRefusal(f)
  BY <1>2, <1>4, <1>6, <1>13 DEF ReceiveRefusal, DashboardOK, DashboardTypes
<1> QED BY <1>9, <1>10, <1>11, <1>12, <1>13

\* Every step of the dashboard keeps the invariant.
LEMMA DashboardNextOK == DashboardOK /\ [DashboardNext]_dashboardVars => DashboardOK'
<1> SUFFICES ASSUME DashboardOK, [DashboardNext]_dashboardVars PROVE DashboardOK'
  OBVIOUS
<1>1. CASE UNCHANGED dashboardVars
  BY <1>1 DEF DashboardOK, DashboardTypes, HolderFits, FetchesFit, FetchFits, BoardFits,
     StoreShown, dashboardVars
<1>2. CASE OpenDashboard
  BY <1>2, OpeningDashboardKeeps
<1>3. CASE RefreshContext \/ HandleLogout \/ \E u \in Folk : HandleLogin(u)
  BY <1>3, SessionRequestsKeep
<1>4. CASE Reload \/ Submit \/ \E c \in Consoles : OpenConsole(c)
  BY <1>4, ConsoleAsks
<1>5. CASE StartEditing \/ ResetForm
  BY <1>5, EditingKeeps
<1>6. ASSUME NEW o \in Outlets, SelectOutlet(o) PROVE DashboardOK'
  BY <1>6, SelectingKeeps
<1>7. ASSUME NEW f \in Fetches, ServeSession(f) \/ ServeLoad(f) \/ ServeSubmit(f)
      PROVE  DashboardOK'
  BY <1>7, ServingDashboardKeeps
<1>8. ASSUME NEW f \in Fetches, ReceiveLogin(f) PROVE DashboardOK'
  BY <1>8, ReceivingLoginKeeps
<1>9. ASSUME NEW f \in Fetches, ReceiveMe(f) PROVE DashboardOK'
  BY <1>9, ReceivingMeKeeps
<1>10. ASSUME NEW f \in Fetches, ReceiveLogout(f) PROVE DashboardOK'
  BY <1>10, LeavingDashboardKeeps
<1>11. ASSUME NEW f \in Fetches, ReceiveLoad(f) PROVE DashboardOK'
  BY <1>11, ReceivingLoadKeeps
<1>12. ASSUME NEW f \in Fetches,
              \/ ReceiveProfile(f) \/ ReceiveRowForm(f) \/ ReceiveChanged(f)
              \/ ReceiveDomain(f) \/ ReceiveRefusal(f)
       PROVE  DashboardOK'
  BY <1>12, SubmitAnswersKeep
<1> QED
  BY <1>1, <1>2, <1>3, <1>4, <1>5, <1>6, <1>7, <1>8, <1>9, <1>10, <1>11, <1>12
  DEF DashboardNext

\* The dashboard is that of the user whose token the page holds, unless an
\* earlier session's answer came late; and a console whose requests have ended,
\* with the last one's answer good and for its store, shows that store.
THEOREM DashboardSafe ==
  DashboardSpec => [](DashboardTypeOK /\ ShownUserHoldsToken /\ ConsoleShowsItsStore)
<1>1. DashboardOK => DashboardTypeOK
  BY DEF DashboardOK, DashboardTypes, DashRow, BoardRow, FetchesFit, FetchRow, DashboardTypeOK
<1>2. DashboardOK => ShownUserHoldsToken
  BY DEF DashboardOK, HolderFits, ShownUserHoldsToken
<1>3. DashboardOK => ConsoleShowsItsStore
  BY DEF DashboardOK, BoardFits, ConsoleShowsItsStore, UpToDate, Shown, ConsoleRequests
<1> QED BY <1>1, <1>2, <1>3, DashboardInitOK, DashboardNextOK, PTL DEF DashboardSpec

\* For any tabs, users, rows and answers, a page shows the user whose token it holds,
\* and an admin's rows to no one else, unless an earlier session's answer came late.
THEOREM PagesSafe == DashboardSpec /\ AdminSpec => []PagesShowTheirUser
<1> QED BY DashboardSafe, AdminSafe, PTL DEF PagesShowTheirUser

\* For any users, tokens, tabs, forms and answers, accounts, sessions and pages keep
\* their types.
THEOREM ConsoleTypes ==
  AccountsSpec /\ DashboardSpec /\ AdminSpec /\ OnboardingSpec => []ConsoleTypeOK
<1> QED BY AccountsSafe, DashboardSafe, AdminSafe, OnboardingSafe, PTL DEF ConsoleTypeOK

==============================================================================
