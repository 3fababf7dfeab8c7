--------------------------- MODULE AccountsProofs ---------------------------
(***************************************************************************)
(* Accounts for every set of accounts, tokens and concurrent requests,     *)
(* every lifetime of a refresh token and every bound of the clock.         *)
(***************************************************************************)
EXTENDS Accounts, TLAPS

(* What a request has read of the tables, and still holds. *)
RequestOK(r) ==
    /\ pc[r] \in {"username", "insert", "issue", "created",
                  "email_already_exists", "username_already_exists"}
          => account[r] \in Account
    /\ pc[r] = "issue" => account[r] \in users
    /\ pc[r] \in {"rotate", "revoke", "invalid_refresh_token", "no_content"}
          => token[r] \in Rows
    /\ readAt[r] <= clock
    /\ pc[r] = "rotate" =>
          /\ readAt[r] < expires[token[r]]
          /\ expires[token[r]] <= readAt[r] + RefreshTTL

RequestsOK == \A r \in Request : RequestOK(r)

(* A token is a row of a session, revoked only once it is one, and its     *)
(* expiry was computed from a time that is past.                           *)
RowsOK ==
    \A t \in Token :
        /\ t \in Rows => /\ owner[t] \in users
                         /\ root[t] \in Rows
                         /\ root[root[t]] = root[t]
                         /\ parent[t] \in Rows \cup {NoToken}
                         /\ expires[t] <= clock + RefreshTTL
        /\ revoked[t] => t \in Rows

OneLiveToken ==
    \A t, u \in Rows : root[t] = root[u] /\ ~revoked[t] /\ ~revoked[u] => t = u

IInv ==
    /\ TypeOK
    /\ RequestsOK
    /\ RowsOK
    /\ OneLiveToken
    /\ UniqueAccounts
    /\ AnswersAreTrue
    /\ SuccessorExtends

-----------------------------------------------------------------------------
LEMMA RowsFact == \A t : t \in Rows <=> t \in Token /\ owner[t] # NoAccount
  BY DEF Rows

LEMMA RowsFactPrime == \A t : t \in Rows' <=> t \in Token /\ owner'[t] # NoAccount
  BY DEF Rows

LEMMA InitInv == Init => IInv
  <1> SUFFICES ASSUME Init PROVE IInv
    OBVIOUS
  <1>1. Rows = {}
    BY DEF Init, Rows
  <1>2. TypeOK
    BY TTLAssumption, TimeAssumption DEF Init, TypeOK
  <1>3. RequestsOK /\ AnswersAreTrue
    BY DEF Init, RequestsOK, RequestOK, AnswersAreTrue, AnswerIsTrue, TypeOK
  <1>4. RowsOK /\ OneLiveToken /\ UniqueAccounts /\ SuccessorExtends
    BY <1>1 DEF Init, RowsOK, OneLiveToken, UniqueAccounts, SuccessorExtends
  <1> QED BY <1>2, <1>3, <1>4 DEF IInv

-----------------------------------------------------------------------------
(* Steps that write no table: only the request that takes the step can     *)
(* break RequestsOK or AnswersAreTrue.                                     *)
LEMMA ReadStep ==
    ASSUME IInv, NEW r \in Request,
           UNCHANGED <<clock, tables, history>>,
           pc' \in [Request -> Answer \cup Waiting \cup {"idle"}],
           account' \in [Request -> Account \cup {NoAccount}],
           token' \in [Request -> Token \cup {NoToken}],
           readAt' \in [Request -> 0..MaxTime],
           \A s \in Request \ {r} : /\ pc'[s] = pc[s] /\ account'[s] = account[s]
                                    /\ token'[s] = token[s] /\ readAt'[s] = readAt[s],
           RequestOK(r)', AnswerIsTrue(r)'
    PROVE  IInv'
  <1> USE DEF IInv, tables, history
  <1>1. Rows' = Rows
    BY DEF Rows
  <1>2. TypeOK'
    BY DEF TypeOK
  <1>3. RowsOK' /\ OneLiveToken' /\ UniqueAccounts' /\ SuccessorExtends'
    BY <1>1 DEF RowsOK, OneLiveToken, UniqueAccounts, SuccessorExtends
  <1>4. RequestsOK'
    BY <1>1 DEF RequestsOK, RequestOK
  <1>5. AnswersAreTrue'
    BY <1>1 DEF AnswersAreTrue, AnswerIsTrue, EmailTaken, UsernameTaken, IsExpired
  <1> QED BY <1>2, <1>3, <1>4, <1>5

LEMMA BeginsStep ==
    ASSUME IInv, NEW r \in Request, NEW step \in Answer \cup Waiting \cup {"idle"},
           NEW a \in Account \cup {NoAccount}, NEW t \in Token \cup {NoToken},
           Begins(r, step, a, t),
           step \in {"username", "issue", "email_already_exists"} => a \in Account,
           step \in {"rotate", "revoke", "invalid_refresh_token", "no_content"}
              => t \in Rows,
           step \notin {"insert", "created", "username_already_exists"},
           step = "issue" => a \in users,
           step = "rotate" => ~IsExpired(t, clock),
           step = "email_already_exists" => EmailTaken(a),
           step = "invalid_refresh_token" => revoked[t] \/ IsExpired(t, clock),
           step = "no_content" => revoked[t]
    PROVE  IInv'
  <1> USE DEF IInv, Begins
  <1>1. /\ pc'[r] = step /\ account'[r] = a /\ token'[r] = t
        /\ readAt'[r] = IF step \in {"issue", "rotate"} THEN clock ELSE 0
        /\ clock \in 0..MaxTime
    BY DEF TypeOK
  <1>2. Rows' = Rows
    BY DEF Rows, tables
  <1>3. RequestOK(r)'
    <2>1. step = "rotate" => clock < expires[t] /\ expires[t] <= clock + RefreshTTL
      BY RowsFact DEF RowsOK, TypeOK, IsExpired
    <2> QED BY <1>1, <1>2, <2>1 DEF RequestOK, tables
  <1>4. AnswerIsTrue(r)'
    BY <1>1 DEF AnswerIsTrue, tables, EmailTaken, UsernameTaken, IsExpired
  <1>5. /\ pc' \in [Request -> Answer \cup Waiting \cup {"idle"}]
        /\ account' \in [Request -> Account \cup {NoAccount}]
        /\ token' \in [Request -> Token \cup {NoToken}]
        /\ readAt' \in [Request -> 0..MaxTime]
    BY TimeAssumption DEF TypeOK
  <1>6. \A s \in Request \ {r} : /\ pc'[s] = pc[s] /\ account'[s] = account[s]
                                 /\ token'[s] = token[s] /\ readAt'[s] = readAt[s]
    BY DEF TypeOK
  <1> QED BY <1>3, <1>4, <1>5, <1>6, ReadStep

LEMMA BeginStep ==
    ASSUME IInv, NEW r \in Request,
           \/ \E a \in Account : CheckEmail(r, a) \/ Login(r, a)
           \/ \E t \in Token : FindToken(r, t) \/ FindForLogout(r, t)
    PROVE  IInv'
  <1>1. ASSUME NEW a \in Account, CheckEmail(r, a) PROVE IInv'
    <2>1. CASE EmailTaken(a)
      <3>1. Begins(r, "email_already_exists", a, NoToken)
        BY <1>1, <2>1 DEF CheckEmail
      <3> QED BY <2>1, <3>1, BeginsStep DEF Answer
    <2>2. CASE ~EmailTaken(a)
      <3>1. Begins(r, "username", a, NoToken)
        BY <1>1, <2>2 DEF CheckEmail
      <3> QED BY <3>1, BeginsStep DEF Waiting
    <2> QED BY <2>1, <2>2
  <1>2. ASSUME NEW a \in Account, Login(r, a) PROVE IInv'
    <2>1. Begins(r, "issue", a, NoToken) /\ a \in users
      BY <1>2 DEF Login
    <2> QED BY <2>1, BeginsStep DEF Waiting
  <1>3. ASSUME NEW t \in Token, FindToken(r, t) PROVE IInv'
    <2>1. CASE IsRevoked(t) \/ IsExpired(t, clock)
      <3>1. Begins(r, "invalid_refresh_token", NoAccount, t) /\ t \in Rows
        BY <1>3, <2>1 DEF FindToken
      <3> QED BY <2>1, <3>1, BeginsStep DEF Answer, IsRevoked
    <2>2. CASE ~(IsRevoked(t) \/ IsExpired(t, clock))
      <3>1. Begins(r, "rotate", NoAccount, t) /\ t \in Rows
        BY <1>3, <2>2 DEF FindToken
      <3> QED BY <2>2, <3>1, BeginsStep DEF Waiting
    <2> QED BY <2>1, <2>2
  <1>4. ASSUME NEW t \in Token, FindForLogout(r, t) PROVE IInv'
    <2>1. CASE IsRevoked(t)
      <3>1. Begins(r, "no_content", NoAccount, t) /\ t \in Rows
        BY <1>4, <2>1 DEF FindForLogout
      <3> QED BY <2>1, <3>1, BeginsStep DEF Answer, IsRevoked
    <2>2. CASE ~IsRevoked(t)
      <3>1. Begins(r, "revoke", NoAccount, t) /\ t \in Rows
        BY <1>4, <2>2 DEF FindForLogout
      <3> QED BY <3>1, BeginsStep DEF Waiting
    <2> QED BY <2>1, <2>2
  <1> QED BY <1>1, <1>2, <1>3, <1>4

-----------------------------------------------------------------------------
(* Register, and the answers that write no table. *)
LEMMA AnswerStep ==
    ASSUME IInv, NEW r \in Request,
           \/ LoginRejected(r) \/ Fail(r)
           \/ CheckUsername(r) \/ RejectUser(r) \/ RotateRejected(r)
    PROVE  IInv'
  <1> USE DEF IInv
  <1>0. /\ UNCHANGED <<clock, tables, history>>
        /\ account[r] \in Account \cup {NoAccount}
        /\ token[r] \in Token \cup {NoToken}
        /\ 0 \in 0..MaxTime /\ clock \in 0..MaxTime
    BY TimeAssumption
       DEF LoginRejected, Fail, CheckUsername, RejectUser, RotateRejected,
           Ends, Continues, TypeOK
  <1>1. CASE LoginRejected(r) \/ Fail(r)
    <2>1. Ends(r)
      BY <1>1 DEF LoginRejected, Fail
    <2>2. /\ pc'[r] = "idle" /\ readAt'[r] = 0
          /\ \A s \in Request \ {r} : /\ pc'[s] = pc[s] /\ account'[s] = account[s]
                                       /\ token'[s] = token[s] /\ readAt'[s] = readAt[s]
          /\ pc' \in [Request -> Answer \cup Waiting \cup {"idle"}]
          /\ account' \in [Request -> Account \cup {NoAccount}]
          /\ token' \in [Request -> Token \cup {NoToken}]
          /\ readAt' \in [Request -> 0..MaxTime]
      BY <1>0, <2>1 DEF Ends, TypeOK
    <2>3. RequestOK(r)' /\ AnswerIsTrue(r)'
      BY <1>0, <2>2 DEF RequestOK, AnswerIsTrue
    <2> QED BY <1>0, <2>2, <2>3, ReadStep
  <1>2. ASSUME NEW step \in {"insert", "email_already_exists",
                             "username_already_exists", "invalid_refresh_token"},
               Continues(r, step),
               \/ /\ pc[r] \in {"username", "insert"}
                  /\ step = "email_already_exists" => EmailTaken(account[r])
                  /\ step = "username_already_exists" => UsernameTaken(account[r])
                  /\ step # "invalid_refresh_token"
               \/ /\ step = "invalid_refresh_token" /\ pc[r] = "rotate"
                  /\ revoked[token[r]]
        PROVE IInv'
    <2>2. /\ pc'[r] = step /\ readAt'[r] = 0 /\ account' = account /\ token' = token
          /\ \A s \in Request \ {r} : /\ pc'[s] = pc[s] /\ account'[s] = account[s]
                                       /\ token'[s] = token[s] /\ readAt'[s] = readAt[s]
          /\ pc' \in [Request -> Answer \cup Waiting \cup {"idle"}]
          /\ readAt' \in [Request -> 0..MaxTime]
      BY <1>0, <1>2 DEF Continues, TypeOK, Answer, Waiting
    <2>3. RequestOK(r)
      BY DEF RequestsOK
    <2>4. RequestOK(r)'
      BY <1>0, <1>2, <2>2, <2>3 DEF RequestOK, tables, Rows
    <2>5. AnswerIsTrue(r)'
      BY <1>0, <1>2, <2>2 DEF AnswerIsTrue, tables, EmailTaken, UsernameTaken
    <2> QED BY <1>0, <2>2, <2>4, <2>5, ReadStep DEF TypeOK
  <1>3. CASE CheckUsername(r)
    <2>1. CASE UsernameTaken(account[r])
      BY <1>2, <1>3, <2>1 DEF CheckUsername
    <2>2. CASE ~UsernameTaken(account[r])
      BY <1>2, <1>3, <2>2 DEF CheckUsername
    <2> QED BY <2>1, <2>2
  <1>4. CASE RejectUser(r)
    BY <1>2, <1>4 DEF RejectUser, Conflict
  <1>5. CASE RotateRejected(r)
    BY <1>2, <1>5 DEF RotateRejected
  <1> QED BY <1>1, <1>3, <1>4, <1>5

LEMMA CreateUserStep ==
    ASSUME IInv, NEW r \in Request, CreateUser(r)
    PROVE  IInv'
  <1> USE DEF IInv
  <1>0. /\ UNCHANGED <<clock, owner, expires, revoked, root, parent, account, token>>
        /\ account[r] \in Account
        /\ users' = users \cup {account[r]} /\ users \subseteq users'
        /\ ~EmailTaken(account[r]) /\ ~UsernameTaken(account[r])
        /\ pc' = [pc EXCEPT ![r] = "created"]
        /\ readAt' = [readAt EXCEPT ![r] = 0]
    BY DEF CreateUser, Continues, history, RequestsOK, RequestOK, Conflict
  <1>1. Rows' = Rows
    BY <1>0 DEF Rows
  <1>2. TypeOK'
    BY <1>0, TimeAssumption DEF TypeOK, Answer
  <1>3. RowsOK' /\ OneLiveToken' /\ SuccessorExtends'
    BY <1>0, <1>1 DEF RowsOK, OneLiveToken, SuccessorExtends
  <1>4. UniqueAccounts'
    BY <1>0 DEF UniqueAccounts, EmailTaken, UsernameTaken
  <1>5. RequestsOK'
    BY <1>0, <1>1, TimeAssumption DEF RequestsOK, RequestOK, TypeOK
  <1>6. AnswersAreTrue'
    BY <1>0, <1>1
       DEF AnswersAreTrue, AnswerIsTrue, EmailTaken, UsernameTaken, IsExpired, TypeOK
  <1> QED BY <1>2, <1>3, <1>4, <1>5, <1>6

-----------------------------------------------------------------------------
(* The row of a new token, and the end of the request that inserted it.  A *)
(* rotation revokes the old token at the same time.                        *)
LEMMA InsertStep ==
    ASSUME IInv, NEW r \in Request, NEW t \in Token, NEW u \in users,
           NEW first \in Token, NEW from \in Token \cup {NoToken},
           Inserts(r, t, u, first, from), Ends(r),
           \/ /\ from = NoToken /\ first = t
              /\ revoked' = revoked
           \/ /\ from \in Rows /\ first = root[from] /\ u = owner[from]
              /\ ~revoked[from]
              /\ revoked' = [revoked EXCEPT ![from] = TRUE]
              /\ readAt[r] < expires[from]
              /\ expires[from] <= readAt[r] + RefreshTTL
    PROVE  IInv'
  <1> USE DEF IInv
  <1>0. /\ t \notin Rows /\ clock' = clock /\ users' = users
        /\ u \in Account /\ readAt[r] \in Nat /\ readAt[r] <= clock
        /\ clock \in 0..MaxTime /\ 0 \in 0..MaxTime
        /\ \A x \in Token : expires[x] \in Nat
        /\ owner' = [owner EXCEPT ![t] = u]
        /\ expires' = [expires EXCEPT ![t] = readAt[r] + RefreshTTL]
        /\ root' = [root EXCEPT ![t] = first]
        /\ parent' = [parent EXCEPT ![t] = from]
    BY TimeAssumption, TTLAssumption DEF Inserts, Ends, TypeOK, RequestsOK, RequestOK
  <1>1. /\ Rows' = Rows \cup {t}
        /\ t # NoToken /\ from # t
        /\ first \in Rows \cup {t}
        /\ \A x \in Rows : owner'[x] = owner[x] /\ root'[x] = root[x]
                           /\ parent'[x] = parent[x] /\ expires'[x] = expires[x]
        /\ owner'[t] = u /\ expires'[t] = readAt[r] + RefreshTTL
        /\ root'[t] = first /\ parent'[t] = from
    <2>1. \A x \in Token : owner'[x] # NoAccount <=> x \in Rows \cup {t}
      BY <1>0, AccountAssumption, RowsFact DEF TypeOK
    <2> QED BY <1>0, <2>1, RowsFact, NoTokenAssumption DEF Rows, TypeOK, RowsOK
  <1>2. TypeOK'
    <2>1. readAt[r] + RefreshTTL \in 0..(MaxTime + RefreshTTL)
      BY <1>0, TTLAssumption, TimeAssumption
    <2> QED BY <1>0, <1>1, <2>1 DEF TypeOK, Ends
  <1>3. RowsOK'
    <2>1. root'[first] = first
      <3>1. first # t => first \in Rows /\ root[first] = first
        BY <1>0, <1>1, RowsFact DEF RowsOK
      <3> QED BY <1>1, <3>1
    <2>2. readAt[r] + RefreshTTL <= clock + RefreshTTL
      BY <1>0, TTLAssumption, TimeAssumption
    <2>3. \A x \in Token : revoked'[x] => x \in Rows'
      BY <1>0, <1>1 DEF RowsOK, TypeOK
    <2> QED BY <1>0, <1>1, <2>1, <2>2, <2>3 DEF RowsOK
  <1>4. OneLiveToken'
    <2>1. \A x \in Rows : x \in Token /\ root[x] \in Rows
      BY RowsFact DEF RowsOK
    <2>2. \A x \in Rows : /\ ~revoked'[x] => ~revoked[x]
                          /\ ~revoked'[x] => root[x] # first
      <3>1. CASE from = NoToken
        BY <1>0, <2>1, <3>1, NoTokenAssumption, RowsFact
      <3>2. CASE from \in Rows
        BY <1>0, <2>1, <3>2, NoTokenAssumption DEF OneLiveToken, TypeOK
      <3> QED BY <3>1, <3>2
    <2> QED BY <1>1, <2>1, <2>2 DEF OneLiveToken
  <1>5. UniqueAccounts'
    BY <1>0 DEF UniqueAccounts
  <1>6. SuccessorExtends'
    <2>1. \A x \in Rows : parent[x] # NoToken => parent[x] \in Rows
      BY RowsFact DEF RowsOK
    <2>2. from # NoToken => /\ expires[from] <= readAt[r] + RefreshTTL
                            /\ readAt[r] + RefreshTTL < expires[from] + RefreshTTL
                            /\ owner[from] = u /\ from \in Rows
      BY <1>0, TTLAssumption DEF TypeOK
    <2> QED BY <1>0, <1>1, <2>1, <2>2 DEF SuccessorExtends
  <1>7. RequestsOK'
    BY <1>0, <1>1 DEF RequestsOK, RequestOK, Ends, TypeOK
  <1>8. AnswersAreTrue'
    <2>1. ASSUME NEW s \in Request \ {r} PROVE AnswerIsTrue(s)'
      <3>1. pc'[s] = pc[s] /\ account'[s] = account[s] /\ token'[s] = token[s]
        BY DEF Ends, TypeOK
      <3>2. pc[s] \in {"invalid_refresh_token", "no_content"} =>
               /\ token[s] \in Rows
               /\ revoked[token[s]] => revoked'[token[s]]
        BY RowsFact DEF RequestsOK, RequestOK, TypeOK
      <3> QED BY <1>0, <1>1, <3>1, <3>2
              DEF AnswersAreTrue, AnswerIsTrue, EmailTaken, UsernameTaken, IsExpired
    <2>2. AnswerIsTrue(r)'
      BY DEF Ends, AnswerIsTrue, TypeOK
    <2> QED BY <2>1, <2>2 DEF AnswersAreTrue
  <1> QED BY <1>2, <1>3, <1>4, <1>5, <1>6, <1>7, <1>8

LEMMA IssueStep ==
    ASSUME IInv, NEW r \in Request, IssueToken(r)
    PROVE  IInv'
  <1>1. PICK t \in Token : Inserts(r, t, account[r], t, NoToken)
    BY DEF IssueToken
  <1>2. account[r] \in users /\ Ends(r) /\ revoked' = revoked
    BY DEF IssueToken, IInv, RequestsOK, RequestOK
  <1> QED BY <1>1, <1>2, InsertStep

LEMMA RotateStep ==
    ASSUME IInv, NEW r \in Request, Rotate(r)
    PROVE  IInv'
  <1> DEFINE old == token[r]
  <1>1. PICK t \in Token : Inserts(r, t, owner[old], root[old], old)
    BY DEF Rotate
  <1>2. /\ old \in Rows /\ old \in Token
        /\ readAt[r] < expires[old] /\ expires[old] <= readAt[r] + RefreshTTL
        /\ ~revoked[old] /\ Ends(r)
        /\ revoked' = [revoked EXCEPT ![old] = TRUE]
    BY RowsFact DEF Rotate, IInv, RequestsOK, RequestOK
  <1>3. owner[old] \in users /\ root[old] \in Token
    BY <1>2, RowsFact DEF IInv, RowsOK
  <1> QED BY <1>1, <1>2, <1>3, InsertStep

LEMMA RevokeStep ==
    ASSUME IInv, NEW r \in Request, Revoke(r)
    PROVE  IInv'
  <1> USE DEF IInv, Revoke, Continues, history
  <1>0. /\ token[r] \in Rows /\ token[r] \in Token
        /\ UNCHANGED <<clock, users, owner, expires, root, parent, account, token>>
        /\ revoked' = [revoked EXCEPT ![token[r]] = TRUE]
        /\ pc' = [pc EXCEPT ![r] = "no_content"]
        /\ readAt' = [readAt EXCEPT ![r] = 0]
    BY RowsFact DEF RequestsOK, RequestOK
  <1>1. Rows' = Rows
    BY DEF Rows
  <1>2. TypeOK'
    BY <1>0, TimeAssumption DEF TypeOK, Answer
  <1>3. RowsOK' /\ OneLiveToken' /\ SuccessorExtends' /\ UniqueAccounts'
    BY <1>0, <1>1 DEF RowsOK, OneLiveToken, SuccessorExtends, UniqueAccounts, TypeOK
  <1>4. RequestsOK'
    BY <1>0, <1>1, TimeAssumption DEF RequestsOK, RequestOK, TypeOK
  <1>5. AnswersAreTrue'
    <2>1. \A x \in Token : revoked[x] => revoked'[x]
      BY <1>0 DEF TypeOK
    <2> QED BY <1>0, <1>1, <2>1, RowsFact
            DEF AnswersAreTrue, AnswerIsTrue, EmailTaken, UsernameTaken, IsExpired,
                RequestsOK, RequestOK, TypeOK
  <1> QED BY <1>2, <1>3, <1>4, <1>5

LEMMA TickStep ==
    ASSUME IInv, Tick
    PROVE  IInv'
  <1> USE DEF IInv, Tick, tables, history, requests
  <1>1. Rows' = Rows /\ clock \in Nat /\ clock' = clock + 1 /\ clock' \in 0..MaxTime
    BY TimeAssumption DEF Rows, TypeOK
  <1>2. TypeOK'
    BY <1>1 DEF TypeOK
  <1>3. OneLiveToken' /\ SuccessorExtends' /\ UniqueAccounts'
    BY <1>1 DEF OneLiveToken, SuccessorExtends, UniqueAccounts
  <1>4. RowsOK'
    BY <1>1, TTLAssumption DEF RowsOK, TypeOK
  <1>5. RequestsOK'
    BY <1>1 DEF RequestsOK, RequestOK, TypeOK
  <1>6. AnswersAreTrue'
    BY <1>1, RowsFact DEF AnswersAreTrue, AnswerIsTrue, EmailTaken, UsernameTaken,
       IsExpired, RequestsOK, RequestOK, TypeOK
  <1> QED BY <1>2, <1>3, <1>4, <1>5, <1>6

LEMMA StepInv == IInv /\ [Next]_vars => IInv'
  <1> SUFFICES ASSUME IInv, [Next]_vars PROVE IInv'
    OBVIOUS
  <1>1. CASE UNCHANGED vars
    BY <1>1 DEF vars, tables, history, requests, IInv, TypeOK, RequestsOK, RequestOK,
       RowsOK, OneLiveToken, UniqueAccounts, AnswersAreTrue, AnswerIsTrue,
       SuccessorExtends, Rows, EmailTaken, UsernameTaken, IsExpired
  <1>2. CASE Tick
    BY <1>2, TickStep
  <1>3. ASSUME NEW r \in Request,
               \/ \E a \in Account : CheckEmail(r, a) \/ Login(r, a)
               \/ \E t \in Token : FindToken(r, t) \/ FindForLogout(r, t)
               \/ LoginRejected(r) \/ CheckUsername(r) \/ CreateUser(r)
               \/ RejectUser(r) \/ IssueToken(r) \/ Rotate(r)
               \/ RotateRejected(r) \/ Revoke(r) \/ Fail(r)
        PROVE  IInv'
    BY <1>3, BeginStep, AnswerStep, CreateUserStep, IssueStep, RotateStep, RevokeStep
  <1> QED BY <1>1, <1>2, <1>3 DEF Next

THEOREM Invariance == Spec => []IInv
  <1> QED BY InitInv, StepInv, PTL DEF Spec

(* For every instance: the tables and the requests are well typed. *)
THEOREM TypeCorrect == Spec => []TypeOK
  <1>1. IInv => TypeOK
    BY DEF IInv
  <1> QED BY <1>1, Invariance, PTL

(* For every instance: no email and no username has two accounts. *)
THEOREM AccountsAreUnique == Spec => []UniqueAccounts
  <1>1. IInv => UniqueAccounts
    BY DEF IInv
  <1> QED BY <1>1, Invariance, PTL

(* For every instance: the answers of the auth handlers are true, and stay *)
(* true.                                                                   *)
THEOREM AnswersStayTrue == Spec => []AnswersAreTrue
  <1>1. IInv => AnswersAreTrue
    BY DEF IInv
  <1> QED BY <1>1, Invariance, PTL

(* For every instance: a refresh prolongs a session by less than the       *)
(* lifetime of a token, and never hands it to another user.                *)
THEOREM SessionsAreBounded == Spec => []SuccessorExtends
  <1>1. IInv => SuccessorExtends
    BY DEF IInv
  <1> QED BY <1>1, Invariance, PTL

-----------------------------------------------------------------------------
(* Refinement. *)
Live == [s \in Token |-> LiveTokens(s)]

LEMMA LiveFact ==
    \A s, t : t \in LiveTokens(s) <=> t \in Rows /\ root[t] = s /\ ~revoked[t]
  BY DEF LiveTokens

LEMMA AbstractInit == Init => Abstract!Init
  BY DEF Init, Abstract!Init, LiveTokens, Rows

(* Steps that touch neither a row of refresh_tokens nor its revoked_at. *)
LEMMA AbstractStutter ==
    ASSUME UNCHANGED <<owner, revoked, root>>
    PROVE  Rows' = Rows /\ Live' = Live
  BY DEF Rows, Live, LiveTokens

LEMMA AbstractIssue ==
    ASSUME IInv, NEW r \in Request, IssueToken(r)
    PROVE  \E t \in Token : Abstract!Open(t)
  <1> USE DEF IInv
  <1>1. PICK t \in Token : Inserts(r, t, account[r], t, NoToken)
    BY DEF IssueToken
  <1>2. /\ t \notin Rows /\ revoked' = revoked /\ ~revoked[t]
        /\ account[r] \in Account
        /\ owner' = [owner EXCEPT ![t] = account[r]] /\ root' = [root EXCEPT ![t] = t]
    BY <1>1 DEF IssueToken, Inserts, RowsOK, RequestsOK, RequestOK
  <1>3. Rows' = Rows \cup {t}
    BY <1>2, AccountAssumption, RowsFact, RowsFactPrime DEF TypeOK
  <1>4. \A x \in Rows : root[x] # t
    BY <1>2, RowsFact DEF RowsOK
  <1>5. ASSUME NEW s \in Token
        PROVE  LiveTokens(s)' = IF s = t THEN {t} ELSE LiveTokens(s)
    <2>1. \A x : x \in LiveTokens(s)' <=> x \in Rows' /\ root'[x] = s /\ ~revoked'[x]
      BY DEF LiveTokens
    <2>2. \A x : x \in Rows' =>
             /\ x \in Token
             /\ x = t => root'[x] = t
             /\ x # t => x \in Rows /\ root'[x] = root[x]
      BY <1>2, <1>3, RowsFact DEF TypeOK
    <2> QED BY <1>2, <1>3, <1>4, <2>1, <2>2, LiveFact
  <1>6. Live' = [Live EXCEPT ![t] = {t}]
    BY <1>5 DEF Live
  <1> QED BY <1>2, <1>3, <1>6 DEF Abstract!Open, Live

LEMMA AbstractRotate ==
    ASSUME IInv, NEW r \in Request, Rotate(r)
    PROVE  \E s, t \in Token : Abstract!Renew(s, t)
  <1> USE DEF IInv
  <1> DEFINE old == token[r]
             s == root[old]
  <1>1. PICK t \in Token : Inserts(r, t, owner[old], s, old)
    BY DEF Rotate
  <1>2. /\ t \notin Rows /\ old \in Rows /\ ~revoked[old] /\ ~revoked[t]
        /\ revoked' = [revoked EXCEPT ![old] = TRUE]
        /\ owner' = [owner EXCEPT ![t] = owner[old]] /\ root' = [root EXCEPT ![t] = s]
    BY <1>1 DEF Rotate, Inserts, RowsOK, RequestsOK, RequestOK
  <1>3. old \in Token /\ s \in Token /\ owner[old] \in Account /\ t # old
    BY <1>2, RowsFact DEF RowsOK, TypeOK
  <1>4. Rows' = Rows \cup {t}
    BY <1>2, <1>3, AccountAssumption, RowsFact, RowsFactPrime DEF TypeOK
  <1>5. \A x \in Rows : root[x] = s /\ ~revoked[x] => x = old
    BY <1>2 DEF OneLiveToken
  <1>6. ASSUME NEW q \in Token
        PROVE  LiveTokens(q)' = IF q = s THEN {t} ELSE LiveTokens(q)
    <2>1. \A x : x \in LiveTokens(q)' <=> x \in Rows' /\ root'[x] = q /\ ~revoked'[x]
      BY DEF LiveTokens
    <2>2. \A x : x \in Rows' =>
             /\ x \in Token
             /\ x = t => root'[x] = s /\ ~revoked'[x]
             /\ x # t => x \in Rows /\ root'[x] = root[x]
             /\ x # t => (~revoked'[x] <=> ~revoked[x] /\ x # old)
      BY <1>2, <1>3, <1>4, RowsFact DEF TypeOK
    <2> HIDE DEF s, old
    <2>3. CASE q = s
      BY <1>4, <1>5, <2>1, <2>2, <2>3
    <2>4. CASE q # s
      <3>1. root[old] = s
        BY DEF s
      <3> QED BY <1>4, <2>1, <2>2, <2>4, <3>1, <1>2, LiveFact
    <2> QED BY <2>3, <2>4
  <1>7. Live' = [Live EXCEPT ![s] = {t}]
    BY <1>6 DEF Live
  <1>8. Live[s] # {}
    BY <1>2, <1>3, LiveFact DEF Live
  <1> QED BY <1>2, <1>3, <1>4, <1>7, <1>8 DEF Abstract!Renew, Live

LEMMA AbstractRevoke ==
    ASSUME IInv, NEW r \in Request, Revoke(r)
    PROVE  (\E s \in Token : Abstract!Close(s)) \/ UNCHANGED <<Rows, Live>>
  <1> USE DEF IInv
  <1> DEFINE t == token[r]
             s == root[t]
  <1>1. /\ t \in Rows /\ t \in Token /\ s \in Token
        /\ revoked' = [revoked EXCEPT ![t] = TRUE]
        /\ owner' = owner /\ root' = root
    BY RowsFact DEF Revoke, history, RowsOK, RequestsOK, RequestOK
  <1>2. Rows' = Rows
    BY <1>1 DEF Rows
  <1>3. CASE revoked[t]
    <2>1. revoked' = revoked
      BY <1>1, <1>3 DEF TypeOK
    <2> QED BY <1>1, <2>1, AbstractStutter
  <1>4. CASE ~revoked[t]
    <2>1. \A x \in Rows : root[x] = s /\ ~revoked[x] => x = t
      BY <1>1, <1>4 DEF OneLiveToken
    <2>2. ASSUME NEW q \in Token
          PROVE  LiveTokens(q)' = IF q = s THEN {} ELSE LiveTokens(q)
      <3>1. \A x : x \in LiveTokens(q)' <=> x \in Rows /\ root[x] = q /\ ~revoked'[x]
        BY <1>1, <1>2 DEF LiveTokens
      <3>2. \A x \in Rows : ~revoked'[x] <=> ~revoked[x] /\ x # t
        BY <1>1, RowsFact DEF TypeOK
      <3> HIDE DEF s, t
      <3>3. root[t] = s
        BY DEF s
      <3> QED BY <2>1, <3>1, <3>2, <3>3, LiveFact
    <2>3. Live' = [Live EXCEPT ![s] = {}]
      BY <2>2 DEF Live
    <2>4. Live[s] # {}
      BY <1>1, <1>4, LiveFact DEF Live
    <2> QED BY <1>1, <1>2, <2>3, <2>4 DEF Abstract!Close, Live
  <1> QED BY <1>3, <1>4

LEMMA AbstractStep == IInv /\ [Next]_vars => [Abstract!Next]_<<Rows, Live>>
  <1> SUFFICES ASSUME IInv, [Next]_vars PROVE [Abstract!Next]_<<Rows, Live>>
    OBVIOUS
  <1>1. CASE UNCHANGED <<owner, revoked, root>>
    BY <1>1, AbstractStutter
  <1>2. ASSUME NEW r \in Request, IssueToken(r) \/ Rotate(r) \/ Revoke(r)
        PROVE  [Abstract!Next]_<<Rows, Live>>
    BY <1>2, AbstractIssue, AbstractRotate, AbstractRevoke DEF Abstract!Next
  <1>3. UNCHANGED vars \/ Tick => UNCHANGED <<owner, revoked, root>>
    BY DEF vars, tables, history, Tick
  <1>4. ASSUME NEW r \in Request,
               \/ \E a \in Account : CheckEmail(r, a) \/ Login(r, a)
               \/ \E t \in Token : FindToken(r, t) \/ FindForLogout(r, t)
               \/ LoginRejected(r) \/ CheckUsername(r) \/ CreateUser(r)
               \/ RejectUser(r) \/ RotateRejected(r) \/ Fail(r)
        PROVE  UNCHANGED <<owner, revoked, root>>
    BY <1>4 DEF CheckEmail, Login, FindToken, FindForLogout, Begins, LoginRejected,
       CheckUsername, CreateUser, RejectUser, RotateRejected, Fail, tables, history
  <1> QED BY <1>1, <1>2, <1>3, <1>4 DEF Next

(* For every instance: refresh tokens implement sessions with one live     *)
(* token each, which never fork and never come back.                       *)
THEOREM SessionsAreImplemented == Spec => ImplementsSessions
  <1>1. Live = [s \in Token |-> LiveTokens(s)]
    BY DEF Live
  <1>2. Init => Abstract!Init
    BY AbstractInit
  <1>3. IInv /\ [Next]_vars => [Abstract!Next]_<<Rows, [s \in Token |-> LiveTokens(s)]>>
    BY AbstractStep DEF Live
  <1> QED BY <1>2, <1>3, Invariance, PTL DEF Spec, ImplementsSessions, Abstract!Spec
=============================================================================
