------------------------------ MODULE Accounts ------------------------------
(***************************************************************************)
(* One account: sign-in with its lockout, tokens and their version,        *)
(* password change, administration and the bootstrap at start-up           *)
(* (app/routers/auth.py, admin.py, app/deps.py, scripts/bootstrap_*.py).   *)
(* A login id is one account; e-mail conflicts end a request unwritten,    *)
(* as every refusal does, and must_change_password is left out.            *)
(***************************************************************************)
EXTENDS Requests, Functions

CONSTANTS
    Secrets,            \* passwords
    MaxFailures,        \* login_max_failures
    MaxTokenVersion     \* bound on token_version

ASSUME AccountsAssumption == MaxFailures \in Nat \ {0} /\ MaxTokenVersion \in Nat

VARIABLES
    account,    \* the auth_users row
    listed,     \* the status scripts/bootstrap_users.py lists for it
    handedOut,  \* the versions of the tokens handed out
    revoked,    \* those handed out before the last change that revokes tokens
    misses,     \* wrong answers since the last right one, lock or recovery
    chosen      \* the last password set

accountTables == <<account, listed, handedOut, revoked, misses, chosen, stale>>

accountsVars == <<account, listed, handedOut, revoked, misses, chosen, req, stale>>

\* The statuses that are not ACTIVE are treated alike: one stands for them.
Statuses == {"ACTIVE", "PENDING_ACTIVATION"}

\* aged: the hash has parameters the library no longer uses.  lock:
\* locked_until is null, in the future or in the past.
AccountRow ==
    [status : Statuses, hash : [secret : Secrets, aged : BOOLEAN], failed : Nat,
     lock : {"NONE", "RUNNING", "EXPIRED"}, version : 0..MaxTokenVersion]

HashOf(secret) == [secret |-> secret, aged |-> FALSE]

NewAccount(status, secret) ==
    [status |-> status, hash |-> HashOf(secret), failed |-> 0, lock |-> "NONE", version |-> 0]

\* What a token needs to pass get_current_user.
Accepted(v) == account.status = "ACTIVE" /\ account.version = v

\* What the handlers make of the row they have loaded.
SignedIn(row) == [row EXCEPT !.failed = 0, !.lock = "NONE", !.hash = HashOf(row.hash.secret)]

\* Mutant: the lock comes one wrong answer late.
MissedLate(row) ==
    IF row.failed + 1 > MaxFailures
    THEN [row EXCEPT !.failed = 0, !.lock = "RUNNING"]
    ELSE [row EXCEPT !.failed = @ + 1]

Missed(row) ==
    IF row.failed + 1 >= MaxFailures
    THEN [row EXCEPT !.failed = 0, !.lock = "RUNNING"]
    ELSE [row EXCEPT !.failed = @ + 1]

PasswordSet(row, secret) == [row EXCEPT !.hash = HashOf(secret), !.version = @ + 1]

\* Mutant: only a deactivation revokes the tokens, by the status alone.
StatusSetUnversioned(row, status) == [row EXCEPT !.status = status]

StatusSet(row, status) ==
    IF row.status = status THEN row ELSE [row EXCEPT !.status = status, !.version = @ + 1]

Synchronized(row) == [row EXCEPT !.status = listed]

Recovered(row, status, secret) ==
    [PasswordSet(row, secret) EXCEPT !.status = status, !.failed = 0, !.lock = "NONE"]

Columns == {"status", "hash", "failed", "lock", "version"}

\* The row with some of its columns written.
Over(row, columns) == [c \in Columns |-> IF c \in DOMAIN columns THEN columns[c] ELSE row[c]]

\* A request holds what it will write, what the columns were when it loaded
\* the row, and the tokens its answer hands out.
\* The commit writes the columns that differ, and no new hash equals another.
Loads(w, op, to) ==
    LET written == {c \in Columns : to[c] # account[c]}
                   \cup (IF op \in {"CHANGE_PASSWORD", "RECOVER"} THEN {"hash"} ELSE {})
    IN  /\ account # NoRow
        /\ to.version <= MaxTokenVersion
        /\ written # {} \/ op = "SIGN_IN"
        /\ Begin(w, [op |-> op, was |-> Restrict(account, written), to |-> Restrict(to, written),
                     tokens |-> IF op = "SIGN_IN" THEN {account.version} ELSE {}])
        /\ UNCHANGED accountTables

-----------------------------------------------------------------------------
AccountsInit ==
    /\ account \in {NoRow} \cup {[NewAccount("ACTIVE", s) EXCEPT !.hash.aged = TRUE] : s \in Secrets}
    /\ listed \in {"ACTIVE", "PENDING_ACTIVATION"}
    /\ handedOut = {} /\ revoked = {} /\ misses = 0
    /\ chosen = IF account = NoRow THEN NoRow ELSE account.hash.secret
    /\ req = [w \in Workers |-> Idle]
    /\ stale = FALSE

\* login, up to the commit; for an account that is not active or is locked it
\* only records that it was blocked.
Login(w, secret) ==
    /\ account # NoRow
    /\ account.status = "ACTIVE" /\ account.lock # "RUNNING"
    /\ \/ secret = account.hash.secret /\ Loads(w, "SIGN_IN", SignedIn(account))
       \/ secret # account.hash.secret /\ Loads(w, "MISS", Missed(account))

\* change_password, by somebody with a token of version v.
ChangePassword(w, v, current, new) ==
    /\ account # NoRow
    /\ v \in handedOut /\ Accepted(v)
    /\ current = account.hash.secret /\ new # current
    /\ Loads(w, "CHANGE_PASSWORD", PasswordSet(account, new))

\* set_user_status, by another account.
SetUserStatus(w, status) ==
    account # NoRow /\ Loads(w, "SET_STATUS", StatusSet(account, status))

\* bootstrap_users on an account that is there, without and with
\* BOOTSTRAP_FORCE_RESET, and bootstrap_super_admin.
Bootstrap(w, secret) ==
    /\ account # NoRow
    /\ \/ Loads(w, "SYNC", Synchronized(account))
       \/ \E status \in {listed, "ACTIVE"} : Loads(w, "RECOVER", Recovered(account, status, secret))

\* create_user, and both scripts on an account that is not.
CreateAccount(w, status, secret) ==
    /\ account = NoRow
    /\ Begin(w, [op |-> "CREATE", to |-> NewAccount(status, secret)])
    /\ UNCHANGED accountTables

\* The insert is refused if another has come first.
CommitCreate(w) ==
    /\ req[w].op = "CREATE"
    /\ Finish(w)
    /\ IF account = NoRow
       THEN /\ account' = req[w].to /\ chosen' = req[w].to.hash.secret
            /\ UNCHANGED <<listed, handedOut, revoked, misses, stale>>
       ELSE UNCHANGED accountTables

\* A committed login answers with the token made of the row it loaded.
CommitAccount(w) ==
    LET r == req[w]
        counted == r.op = "MISS" /\ "lock" \notin DOMAIN r.to
    IN  /\ r.op \notin {"IDLE", "CREATE"}
        /\ account' = Over(account, r.to)
        /\ handedOut' = handedOut \cup r.tokens
        /\ revoked' = IF "version" \in DOMAIN r.to \/ "status" \in DOMAIN r.to THEN handedOut ELSE revoked
        /\ misses' = IF counted THEN misses + 1
                     ELSE IF r.op \in {"MISS", "SIGN_IN", "RECOVER"} THEN 0 ELSE misses
        /\ chosen' = IF r.op \in {"CHANGE_PASSWORD", "RECOVER"} THEN r.to.hash.secret ELSE chosen
        /\ stale' = (stale \/ \E c \in DOMAIN r.to : account[c] # r.was[c])
        /\ Finish(w)
        /\ UNCHANGED listed

\* login_lock_minutes pass.
LockExpires ==
    /\ account # NoRow /\ account.lock = "RUNNING"
    /\ account' = [account EXCEPT !.lock = "EXPIRED"]
    /\ UNCHANGED <<listed, handedOut, revoked, misses, chosen, req, stale>>

AccountsNext ==
    \/ \E w \in Workers :
          \/ \E secret \in Secrets : Login(w, secret) \/ Bootstrap(w, secret)
          \/ \E v \in handedOut, current, new \in Secrets : ChangePassword(w, v, current, new)
          \/ \E status \in Statuses : SetUserStatus(w, status)
          \/ \E status \in {listed, "ACTIVE"}, secret \in Secrets : CreateAccount(w, status, secret)
          \/ CommitCreate(w)
          \/ CommitAccount(w)
    \/ LockExpires

AccountsSpec == AccountsInit /\ [][AccountsNext]_accountsVars
-----------------------------------------------------------------------------
(* Properties.                                                             *)

AccountsTypeOK ==
    /\ account \in AccountRow \cup {NoRow}
    /\ listed \in Statuses
    /\ handedOut \subseteq 0..MaxTokenVersion /\ revoked \subseteq handedOut
    /\ misses \in Nat
    /\ chosen \in Secrets \cup {NoRow}
    /\ \A w \in Workers :
          \/ req[w] = Idle
          \/ req[w].op = "CREATE" /\ req[w].to \in AccountRow
          \/ req[w].op \in {"SIGN_IN", "MISS", "CHANGE_PASSWORD", "SET_STATUS", "SYNC", "RECOVER"}
             /\ Over(account, req[w].was) \in AccountRow /\ Over(account, req[w].to) \in AccountRow
    /\ stale \in BOOLEAN

\* Unless stale, a change of credentials takes hold: no token handed out
\* before the last change of the password or of the status is accepted again,
\* also when a start-up has put back a status without a new token version, and
\* the password is the last one set, also when a login renewed its hash.
CredentialChangesTakeHold ==
    ~stale /\ account # NoRow =>
        /\ \A v \in revoked : ~Accepted(v)
        /\ account.hash.secret = chosen

\* Unless stale, the failure counter has not lost a wrong answer, whatever
\* sign-ins, status changes and start-ups overlap, and the lock comes with the
\* answer that reaches the limit.
WrongAnswersCount ==
    ~stale /\ account # NoRow => misses <= account.failed /\ account.failed < MaxFailures
=============================================================================
