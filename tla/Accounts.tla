------------------------------ MODULE Accounts ------------------------------
(***************************************************************************)
(* The auth component: requests that register an account, log in, refresh  *)
(* and log out, served concurrently (by one API process or several) over   *)
(* the tables users and refresh_tokens.                                    *)
(*                                                                         *)
(* None of these handlers runs in a transaction: each is a chain of        *)
(* statements, one action per statement that reads or writes a table, and  *)
(* between two of them any other request may run and time may pass.  Only  *)
(* Rotate and Revoke lock the row they change.                             *)
(***************************************************************************)
EXTENDS Naturals, FiniteSets

CONSTANTS Account,     \* accounts people register: an email and a username
          Token,       \* refresh tokens: random values, stored by their hash
          NoToken, NoAccount,
          Request,     \* HTTP requests served at the same time
          RefreshTTL,  \* refreshTokenTTL
          MaxTime      \* bound: the clock stops

ASSUME NoTokenAssumption == NoToken \notin Token
ASSUME TTLAssumption     == RefreshTTL \in Nat \ {0}
ASSUME TimeAssumption    == MaxTime \in Nat

ASSUME AccountAssumption ==
    /\ NoAccount \notin Account
    /\ \A a, b \in Account : a.email = b.email /\ a.username = b.username => a = b

VARIABLES clock,
          users,        \* rows of users
          owner,        \* rows of refresh_tokens: user_id; NoAccount if none
          expires,      \* expires_at
          revoked,      \* revoked_at IS NOT NULL
          root,         \* history: the first token of the token's session
          parent,       \* history: the token it was exchanged for
          pc,           \* what a request does next, or the answer it gave
          account,      \* the account it registers or logs in
          token,        \* the refresh token it presented
          readAt        \* now, as it has read it

tables   == <<users, owner, expires, revoked>>
history  == <<root, parent>>
requests == <<pc, account, token, readAt>>
vars     == <<clock, tables, history, requests>>

(* Answers of the HTTP handlers, by the code of the response.  No property *)
(* is about the others (200 with tokens, invalid_credentials and 500): the *)
(* request is idle again.                                                  *)
Answer == {"created", "no_content", "email_already_exists",
           "username_already_exists", "invalid_refresh_token"}
Waiting == {"username", "insert", "issue", "rotate", "revoke"}

Init ==
    /\ clock = 0
    /\ users = {}
    /\ owner = [t \in Token |-> NoAccount]
    /\ expires = [t \in Token |-> 0]
    /\ revoked = [t \in Token |-> FALSE]
    /\ root = [t \in Token |-> NoToken]
    /\ parent = [t \in Token |-> NoToken]
    /\ pc = [r \in Request |-> "idle"]
    /\ account = [r \in Request |-> NoAccount]
    /\ token = [r \in Request |-> NoToken]
    /\ readAt = [r \in Request |-> 0]

Rows    == {t \in Token : owner[t] # NoAccount}
Idle(r) == pc[r] \notin Waiting

IsRevoked(t) == revoked[t]

(* Mutant of IsExpired: a token is good until after its last instant. *)
IsExpiredLate(t, now) == expires[t] < now

IsExpired(t, now) == expires[t] <= now

(* A request reads its body, and now when it has passed the checks that    *)
(* precede a token; it ends with an answer or goes on to the next step.    *)
Begins(r, step, a, t) ==
    /\ Idle(r)
    /\ pc' = [pc EXCEPT ![r] = step]
    /\ account' = [account EXCEPT ![r] = a]
    /\ token' = [token EXCEPT ![r] = t]
    /\ readAt' = [readAt EXCEPT ![r] =
                     IF step \in {"issue", "rotate"} THEN clock ELSE 0]
    /\ UNCHANGED <<clock, tables, history>>

Continues(r, step) ==
    /\ pc' = [pc EXCEPT ![r] = step]
    /\ readAt' = [readAt EXCEPT ![r] = 0]
    /\ UNCHANGED <<clock, account, token>>

Ends(r) ==
    /\ pc' = [pc EXCEPT ![r] = "idle"]
    /\ account' = [account EXCEPT ![r] = NoAccount]
    /\ token' = [token EXCEPT ![r] = NoToken]
    /\ readAt' = [readAt EXCEPT ![r] = 0]
    /\ UNCHANGED clock

-----------------------------------------------------------------------------
(* Register: two reads, then an insert.  bcrypt runs in between. *)

EmailTaken(a)    == \E u \in users : u.email = a.email
UsernameTaken(a) == \E u \in users : u.username = a.username

CheckEmail(r, a) ==
    Begins(r, IF EmailTaken(a) THEN "email_already_exists" ELSE "username",
           a, NoToken)

CheckUsername(r) ==
    /\ pc[r] = "username"
    /\ Continues(r, IF UsernameTaken(account[r])
                    THEN "username_already_exists" ELSE "insert")
    /\ UNCHANGED <<tables, history>>

(* Mutant of Conflict: the names of the two constraints are mixed up.      *)
ConflictSwapped(a) ==
    {answer \in {"email_already_exists", "username_already_exists"} :
        IF answer = "email_already_exists" THEN UsernameTaken(a)
        ELSE EmailTaken(a)}

(* The unique constraints of the table decide: PostgreSQL names one that   *)
(* is violated, and the repository maps it to the handler's answer.        *)
Conflict(a) ==
    {answer \in {"email_already_exists", "username_already_exists"} :
        IF answer = "email_already_exists" THEN EmailTaken(a)
        ELSE UsernameTaken(a)}

CreateUser(r) ==
    /\ pc[r] = "insert"
    /\ Conflict(account[r]) = {}
    /\ users' = users \cup {account[r]}
    /\ Continues(r, "created")
    /\ UNCHANGED <<owner, expires, revoked, history>>

RejectUser(r) ==
    /\ pc[r] = "insert"
    /\ \E answer \in Conflict(account[r]) : Continues(r, answer)
    /\ UNCHANGED <<tables, history>>

-----------------------------------------------------------------------------
(* Login: read the user, compare the password, issue both tokens, insert   *)
(* the refresh token.  Users are never changed nor deleted.                *)

Login(r, a) ==
    /\ a \in users
    /\ Begins(r, "issue", a, NoToken)

(* An unknown email or a wrong password. *)
LoginRejected(r) ==
    /\ Idle(r)
    /\ Ends(r)
    /\ UNCHANGED <<tables, history>>

(* The row of a new token t for user u, in the session of first. *)
Inserts(r, t, u, first, from) ==
    /\ t \notin Rows
    /\ owner' = [owner EXCEPT ![t] = u]
    /\ expires' = [expires EXCEPT ![t] = readAt[r] + RefreshTTL]
    /\ root' = [root EXCEPT ![t] = first]
    /\ parent' = [parent EXCEPT ![t] = from]
    /\ UNCHANGED users

IssueToken(r) ==
    /\ pc[r] = "issue"
    /\ \E t \in Token : Inserts(r, t, account[r], t, NoToken)
    /\ UNCHANGED revoked
    /\ Ends(r)

-----------------------------------------------------------------------------
(* Refresh: read the token and check it, then rotate it in a transaction   *)
(* that locks the row, looks at revoked_at again and inserts the           *)
(* successor.  The expiry is not looked at again.                          *)

FindToken(r, t) ==
    /\ t \in Rows
    /\ Begins(r, IF IsRevoked(t) \/ IsExpired(t, clock)
                 THEN "invalid_refresh_token" ELSE "rotate", NoAccount, t)

(* Mutant of Rotate: revoked_at is not looked at under the lock. *)
RotateUnchecked(r) ==
    LET old == token[r] IN
    /\ pc[r] = "rotate"
    /\ \E t \in Token : Inserts(r, t, owner[old], root[old], old)
    /\ revoked' = [revoked EXCEPT ![old] = TRUE]
    /\ Ends(r)

Rotate(r) ==
    LET old == token[r] IN
    /\ pc[r] = "rotate"
    /\ ~revoked[old]
    /\ \E t \in Token : Inserts(r, t, owner[old], root[old], old)
    /\ revoked' = [revoked EXCEPT ![old] = TRUE]
    /\ Ends(r)

RotateRejected(r) ==
    /\ pc[r] = "rotate"
    /\ revoked[token[r]]
    /\ Continues(r, "invalid_refresh_token")
    /\ UNCHANGED <<tables, history>>

-----------------------------------------------------------------------------
(* Logout: read the token, then revoke it under a lock.  A token that is   *)
(* revoked already is answered like any other.                             *)

FindForLogout(r, t) ==
    /\ t \in Rows
    /\ Begins(r, IF IsRevoked(t) THEN "no_content" ELSE "revoke", NoAccount, t)

Revoke(r) ==
    LET t == token[r] IN
    /\ pc[r] = "revoke"
    /\ revoked' = [revoked EXCEPT ![t] = TRUE]
    /\ Continues(r, "no_content")
    /\ UNCHANGED <<users, owner, expires, history>>

-----------------------------------------------------------------------------
(* A database error, a cancelled request context or a crash of the process *)
(* between two statements.                                                 *)
Fail(r) ==
    /\ pc[r] \in Waiting
    /\ Ends(r)
    /\ UNCHANGED <<tables, history>>

Tick ==
    /\ clock < MaxTime
    /\ clock' = clock + 1
    /\ UNCHANGED <<tables, history, requests>>

Next ==
    \/ Tick
    \/ \E r \in Request :
          \/ \E a \in Account : CheckEmail(r, a) \/ Login(r, a)
          \/ \E t \in Token : FindToken(r, t) \/ FindForLogout(r, t)
          \/ LoginRejected(r) \/ CheckUsername(r) \/ CreateUser(r) \/ RejectUser(r)
          \/ IssueToken(r) \/ Rotate(r) \/ RotateRejected(r) \/ Revoke(r)
          \/ Fail(r)

Spec == Init /\ [][Next]_vars

-----------------------------------------------------------------------------
(* Properties *)

(* Every column and every request's local variables hold what the code can *)
(* put there.                                                              *)
TypeOK ==
    /\ clock \in 0..MaxTime
    /\ users \subseteq Account
    /\ owner \in [Token -> Account \cup {NoAccount}]
    /\ expires \in [Token -> 0..(MaxTime + RefreshTTL)]
    /\ revoked \in [Token -> BOOLEAN]
    /\ root \in [Token -> Token \cup {NoToken}]
    /\ parent \in [Token -> Token \cup {NoToken}]
    /\ pc \in [Request -> Answer \cup Waiting \cup {"idle"}]
    /\ account \in [Request -> Account \cup {NoAccount}]
    /\ token \in [Request -> Token \cup {NoToken}]
    /\ readAt \in [Request -> 0..MaxTime]

(* Requests that register the same email or the same username at the same  *)
(* time, all of which found both free, create one account (Register).      *)
UniqueAccounts ==
    \A u, v \in users : u.email = v.email \/ u.username = v.username => u = v

(* What a client is told was so when the answer was made, and still is: a  *)
(* conflict names the column that is really taken, a token is refused only *)
(* when it is dead and stays dead, and a logout leaves the presented token *)
(* revoked, whichever request revoked it (writeMappedError, Rotate, Revoke).*)
AnswerIsTrue(r) ==
    /\ pc[r] = "created" => account[r] \in users
    /\ pc[r] = "email_already_exists" => EmailTaken(account[r])
    /\ pc[r] = "username_already_exists" => UsernameTaken(account[r])
    /\ pc[r] = "invalid_refresh_token" =>
          revoked[token[r]] \/ IsExpired(token[r], clock)
    /\ pc[r] = "no_content" => revoked[token[r]]

AnswersAreTrue == \A r \in Request : AnswerIsTrue(r)

(* A refresh belongs to the same user as the token it was exchanged for,   *)
(* which it outlives, and was asked for before that token expired: however *)
(* slow the refresh, a session is prolonged by less than RefreshTTL.       *)
SuccessorExtends ==
    \A t \in Rows : parent[t] # NoToken =>
        /\ owner[t] = owner[parent[t]]
        /\ expires[parent[t]] <= expires[t]
        /\ expires[t] < expires[parent[t]] + RefreshTTL

LiveTokens(s) == {t \in Rows : root[t] = s /\ ~revoked[t]}

(* A session holds one live token at a time, no token is issued twice, and *)
(* a session that was logged out never comes back, although refreshes and  *)
(* logouts that present the same token overlap and clients repeat a        *)
(* refresh whose answer was lost.                                          *)
Abstract == INSTANCE Sessions WITH used <- Rows,
                                   live <- [s \in Token |-> LiveTokens(s)]
ImplementsSessions == Abstract!Spec
=============================================================================
