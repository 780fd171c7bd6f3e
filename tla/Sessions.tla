------------------------------ MODULE Sessions ------------------------------
(***************************************************************************)
(* Accounts and refresh tokens: AuthService (signup, login, refresh,       *)
(* logout), UsersService (changePassword, deleteAccount) and the           *)
(* TokenService they share, running as concurrent requests over one        *)
(* PostgreSQL database at its default READ COMMITTED level.                *)
(*                                                                         *)
(* A handler is cut at its database statements: what it read stays in its  *)
(* request record while other requests commit.  A statement that would     *)
(* block on a row lock is simply not enabled.  Locks are not state of      *)
(* their own: who holds which row follows from where each request is.      *)
(* What a transaction has written is invisible until it commits, so its    *)
(* writes appear in the step that commits it.                              *)
(***************************************************************************)
EXTENDS Naturals, FiniteSets

CONSTANTS
    Users,       \* account ids, never reused
    Addresses,   \* e-mail addresses as clients spell them
    Canonical,   \* spelling -> its trimmed, lower-cased spelling
    Passwords,
    Tokens,      \* refresh tokens; 256 random bits, so never generated twice
    Requests,    \* request slots: how many requests are served at once
    None

ASSUME CanonicalAssumption ==
    /\ Canonical \in [Addresses -> Addresses]
    /\ \A a \in Addresses : Canonical[Canonical[a]] = Canonical[a]

ASSUME NoneAssumption ==
    None \notin Users \union Addresses \union Passwords \union Tokens

VARIABLES
    account,     \* the users table: id -> row
    token,       \* the refresh_tokens table: token -> row
    request      \* request slot -> where its handler is, and its locals

vars == <<account, token, request>>

-----------------------------------------------------------------------------
(* Rows and requests.                                                      *)

Account == [status : {"unborn", "active", "deleted"},
            email : Addresses \union {None},
            password : Passwords \union {None}]

NoAccount == [status |-> "unborn", email |-> None, password |-> None]

\* next is replacedByTokenHash.  family and secret are history: the token the
\* login behind this chain minted, and the password that login verified.
Row == [status : {"unused", "live", "revoked", "gone"},
        expired : BOOLEAN,
        owner : Users \union {None},
        next : Tokens \union {None},
        family : Tokens \union {None},
        secret : Passwords \union {None}]

Blank == [status |-> "unused", expired |-> FALSE, owner |-> None,
          next |-> None, family |-> None, secret |-> None]

\* targets is what a running revoke-all statement has picked to revoke; known
\* is history: the tokens that were live when the request was first served.
Request == [pc : {"idle", "failed", "login", "rotate", "claimed",
                  "replay", "replaying", "change", "changed", "changing",
                  "delete", "deleting"},
            user : Users \union {None},
            token : Tokens \union {None},
            confirmed : Passwords \union {None},
            fresh : Passwords \union {None},
            targets : SUBSET Tokens,
            known : SUBSET Tokens]

Idle == [pc |-> "idle", user |-> None, token |-> None, confirmed |-> None,
         fresh |-> None, targets |-> {}, known |-> {}]

Init ==
    /\ account = [u \in Users |-> NoAccount]
    /\ token = [t \in Tokens |-> Blank]
    /\ request = [r \in Requests |-> Idle]

-----------------------------------------------------------------------------
(* What the statements see and what they wait for.                         *)

Active(u) == account[u].status = "active"
Live(t) == token[t].status = "live"
Stored(t) == token[t].status \in {"live", "revoked"}
LiveOf(u) == {t \in Tokens : Live(t) /\ token[t].owner = u}
Unused == {t \in Tokens : token[t].status = "unused"}

At(r, pc) == request[r].pc = pc

\* refresh's transaction has updated the presented token's row.
HoldsToken(r, t) == At(r, "claimed") /\ request[r].token = t
TokenLocked(t) == \E r \in Requests : HoldsToken(r, t)

\* changePassword's transaction has updated the user's row (FOR NO KEY
\* UPDATE), or deleteAccount's DELETE has locked it (FOR UPDATE).  Only the
\* second makes the foreign-key check of a token insert wait.
HoldsUser(r, u) ==
    /\ request[r].pc \in {"changed", "changing", "deleting"}
    /\ request[r].user = u
UserLocked(u) == \E r \in Requests : HoldsUser(r, u)
WaitsForAnyLock(u) == UserLocked(u)  \* fault: a password change blocks inserts

BeingDeleted(u) == \E r \in Requests : At(r, "deleting") /\ request[r].user = u

\* A slot whose last request was answered, or died, can take the next one.
Ready(r) == request[r].pc \in {"idle", "failed"}
Answer(r) == request' = [request EXCEPT ![r] = Idle]
Fail(r) == request' = [request EXCEPT ![r] = [Idle EXCEPT !.pc = "failed"]]
Goto(r, pc) == request' = [request EXCEPT ![r].pc = pc]

\* Bound: a request that may mint a token starts only while one is left for it.
Minting == {r \in Requests : request[r].pc \in {"login", "rotate", "claimed"}}
TokensLeft == Cardinality(Minting) < Cardinality(Unused)

-----------------------------------------------------------------------------
(* Signup and login.                                                       *)

KeepsSpelling(address) == address  \* fault: the address is stored as typed

normaliseEmail(address) == Canonical[address]

\* The unique index decides: a registered address, one being deleted included,
\* admits no second row (P2002, EmailAlreadyRegistered).
Signup(u, address, password) ==
    /\ account[u].status = "unborn"
    /\ \A v \in Users : Active(v) => account[v].email # normaliseEmail(address)
    /\ account' = [account EXCEPT
           ![u] = [status |-> "active", email |-> normaliseEmail(address),
                   password |-> password]]
    /\ UNCHANGED <<token, request>>

Verified(u, password) == Active(u) /\ account[u].password = password

\* findUnique and the bcrypt comparison; issueTokens comes in a later step.
Login(r, address, password) ==
    /\ Ready(r)
    /\ \/ \E u \in Users :
            /\ Verified(u, password)
            /\ account[u].email = normaliseEmail(address)
            /\ TokensLeft
            /\ request' = [request EXCEPT ![r] =
                   [Idle EXCEPT !.pc = "login", !.user = u,
                                !.confirmed = password]]
       \/ /\ ~ \E u \in Users :
                 /\ Verified(u, password)
                 /\ account[u].email = normaliseEmail(address)
          /\ Answer(r)
    /\ UNCHANGED <<account, token>>

OwnedByAddress(u, family, secret) ==  \* fault: keyed by e-mail, not by id
    [Blank EXCEPT !.status = "live", !.owner = account[u].email,
                  !.family = family, !.secret = secret]

Minted(u, family, secret) ==
    [Blank EXCEPT !.status = "live", !.owner = u, !.family = family,
                  !.secret = secret]

\* refreshToken.create: its foreign-key check waits for a running delete of
\* the user and fails (500) when the user has gone.
IssueTokens(r) ==
    LET u == request[r].user
    IN  /\ At(r, "login")
        /\ ~BeingDeleted(u)
        /\ \/ /\ Active(u)
              /\ \E t \in Unused :
                    token' = [token EXCEPT
                        ![t] = Minted(u, t, request[r].confirmed)]
              /\ Answer(r)
           \/ /\ ~Active(u)
              /\ Fail(r)
              /\ UNCHANGED token
        /\ UNCHANGED account

-----------------------------------------------------------------------------
(* Refresh and logout.                                                     *)

\* findUnique on the presented token, and the checks on what it returned:
\* unknown, revoked (a replay), expired, or worth trying to rotate.
Refresh(r, t) ==
    /\ Ready(r)
    /\ t \notin Unused
    /\ \/ /\ \/ token[t].status = "gone"
             \/ Live(t) /\ token[t].expired
          /\ Answer(r)
       \/ /\ token[t].status = "revoked"
          /\ request' = [request EXCEPT ![r] =
                 [Idle EXCEPT !.pc = "replay", !.user = token[t].owner,
                              !.token = t, !.known = LiveOf(token[t].owner)]]
       \/ /\ Live(t) /\ ~token[t].expired
          /\ TokensLeft
          /\ request' = [request EXCEPT ![r] =
                 [Idle EXCEPT !.pc = "rotate", !.user = token[t].owner,
                              !.token = t]]
    /\ UNCHANGED <<account, token>>

RedeemsAnyStored(t) == Stored(t)  \* fault: no revokedAt condition on the update

\* where: { id, revokedAt: null }, evaluated on the committed row once the
\* lock is free.
StillUnrevoked(t) == Live(t)

ClaimsUntilItWins(r) ==  \* fault: a count of 0 is taken for a passing conflict
    LET t == request[r].token
    IN  /\ At(r, "rotate")
        /\ ~TokenLocked(t)
        /\ StillUnrevoked(t)
        /\ Goto(r, "claimed")
        /\ UNCHANGED <<account, token>>

\* The transaction's updateMany: one refresh takes the row, the loser of the
\* race finds count 0 and is rejected.
ClaimToken(r) ==
    LET t == request[r].token
    IN  /\ At(r, "rotate")
        /\ ~TokenLocked(t)
        /\ \/ StillUnrevoked(t) /\ Goto(r, "claimed")
           \/ ~StillUnrevoked(t) /\ Answer(r)
        /\ UNCHANGED <<account, token>>

\* refreshToken.create and the commit, which publishes both writes.
CommitRotation(r) ==
    LET t == request[r].token
        u == request[r].user
    IN  /\ At(r, "claimed")
        /\ ~BeingDeleted(u)
        /\ \E child \in Unused :
              token' = [token EXCEPT
                  ![t].status = "revoked",
                  ![t].next = child,
                  ![child] = Minted(u, token[t].family, token[t].secret)]
        /\ Answer(r)
        /\ UNCHANGED account

\* The committed effect of an updateMany that picked the rows in S and checks
\* revokedAt again on each row it had to wait for.
RevokedAmong(S) ==
    [t \in Tokens |-> IF t \in S /\ Live(t)
                      THEN [token[t] EXCEPT !.status = "revoked"]
                      ELSE token[t]]

\* One statement on one row; an unknown or revoked token is a success too.
Logout(t) ==
    /\ t \notin Unused
    /\ ~TokenLocked(t)
    /\ token' = RevokedAmong({t})
    /\ UNCHANGED <<account, request>>

-----------------------------------------------------------------------------
(* Log this user out everywhere: revokeAllForUser, shared by replay        *)
(* detection (a statement of its own) and by changePassword (inside its    *)
(* transaction).                                                           *)

SkipsFirstTokens(u) == {t \in LiveOf(u) : token[t].family # t}  \* fault

RevocationTargets(u) == LiveOf(u)

\* The statement picks its rows from what is committed when it starts.
RevokeAllForUser(r, from, to) ==
    /\ At(r, from)
    /\ request' = [request EXCEPT
           ![r].pc = to, ![r].targets = RevocationTargets(request[r].user)]
    /\ UNCHANGED <<account, token>>

Sweeping(r) == request[r].pc \in {"replaying", "changing"}
TargetsFree(r) == \A t \in request[r].targets : ~TokenLocked(t)

StartReplayRevocation(r) == RevokeAllForUser(r, "replay", "replaying")

\* handleRefreshTokenReuse has revoked what it picked; the refresh is rejected.
FinishReplayRevocation(r) ==
    /\ At(r, "replaying")
    /\ TargetsFree(r)
    /\ token' = RevokedAmong(request[r].targets)
    /\ Answer(r)
    /\ UNCHANGED account

-----------------------------------------------------------------------------
(* changePassword and deleteAccount.  Both verify the current password in  *)
(* a statement of their own, before the transaction.                       *)

\* An access token outlives logouts, password changes and even its user, so
\* whoever was ever logged in to u can send these.
HasAccessToken(u) ==
    \/ account[u].status = "deleted"
    \/ \E t \in Tokens : token[t].owner = u

ChangePassword(r, u, current, fresh) ==
    /\ Ready(r)
    /\ HasAccessToken(u)
    /\ current # fresh
    /\ IF Verified(u, current)
       THEN request' = [request EXCEPT ![r] =
                [Idle EXCEPT !.pc = "change", !.user = u,
                             !.confirmed = current, !.fresh = fresh,
                             !.known = LiveOf(u)]]
       ELSE Answer(r)
    /\ UNCHANGED <<account, token>>

CommitsPasswordFirst(r) ==  \* fault: the revocation is not in the transaction
    LET u == request[r].user
    IN  /\ At(r, "change")
        /\ ~UserLocked(u)
        /\ Active(u)
        /\ account' = [account EXCEPT ![u].password = request[r].fresh]
        /\ Goto(r, "changed")
        /\ UNCHANGED token

\* tx.user.update: waits for the row, and finds none (P2025) if it was deleted.
UpdatePassword(r) ==
    LET u == request[r].user
    IN  /\ At(r, "change")
        /\ ~UserLocked(u)
        /\ \/ Active(u) /\ Goto(r, "changed")
           \/ ~Active(u) /\ Answer(r)
        /\ UNCHANGED <<account, token>>

StartPasswordRevocation(r) == RevokeAllForUser(r, "changed", "changing")

\* revokeAllForUser(tx) is done and the transaction commits.
CommitPassword(r) ==
    LET u == request[r].user
    IN  /\ At(r, "changing")
        /\ TargetsFree(r)
        /\ token' = RevokedAmong(request[r].targets)
        /\ account' = [account EXCEPT ![u].password = request[r].fresh]
        /\ Answer(r)

DeleteAccount(r, u, current) ==
    /\ Ready(r)
    /\ HasAccessToken(u)
    /\ IF Verified(u, current)
       THEN request' = [request EXCEPT ![r] =
                [Idle EXCEPT !.pc = "delete", !.user = u,
                             !.confirmed = current]]
       ELSE Answer(r)
    /\ UNCHANGED <<account, token>>

\* user.delete locks the row, or finds it gone (P2025, UserNotFound).
LockForDelete(r) ==
    LET u == request[r].user
    IN  /\ At(r, "delete")
        /\ ~UserLocked(u)
        /\ \/ Active(u) /\ Goto(r, "deleting")
           \/ ~Active(u) /\ Answer(r)
        /\ UNCHANGED <<account, token>>

KeepsTokens(u) == token  \* fault: the relation has no onDelete: Cascade

\* onDelete: Cascade on RefreshToken.user.
WithoutTokensOf(u) ==
    [t \in Tokens |-> IF token[t].owner = u
                      THEN [Blank EXCEPT !.status = "gone"]
                      ELSE token[t]]

\* The cascade waits for every token row another transaction has locked.
CascadeDelete(r) ==
    LET u == request[r].user
    IN  /\ At(r, "deleting")
        /\ \A t \in Tokens : token[t].owner = u => ~TokenLocked(t)
        /\ account' = [account EXCEPT
               ![u] = [NoAccount EXCEPT !.status = "deleted"]]
        /\ token' = WithoutTokensOf(u)
        /\ Answer(r)

-----------------------------------------------------------------------------
(* Time and failures.                                                      *)

\* refreshTokenTtlDays after it was minted, so later than its predecessor.
Expire(t) ==
    /\ Stored(t)
    /\ ~token[t].expired
    /\ \A p \in Tokens : token[p].next = t => token[p].expired
    /\ token' = [token EXCEPT ![t].expired = TRUE]
    /\ UNCHANGED <<account, request>>

\* The process dies, the connection drops, a statement fails or Prisma's
\* interactive transaction times out: what was not committed is rolled back.
Abort(r) ==
    /\ ~Ready(r)
    /\ Fail(r)
    /\ UNCHANGED <<account, token>>

\* A refresh holds its token's row and its insert needs the user's; a delete
\* holds the user's row and its cascade needs the token's.  PostgreSQL aborts
\* one of the two.
Deadlocked(r, q) ==
    /\ At(r, "claimed") /\ At(q, "deleting")
    /\ request[r].user = request[q].user

InDeadlock(r) == \E q \in Requests : Deadlocked(r, q) \/ Deadlocked(q, r)

AbortDeadlocked(r) ==
    /\ InDeadlock(r)
    /\ Fail(r)
    /\ UNCHANGED <<account, token>>

\* The next statement of r would block on a row another transaction holds.
Waits(r) ==
    LET u == request[r].user
    IN  \/ request[r].pc \in {"login", "claimed"} /\ BeingDeleted(u)
        \/ At(r, "rotate") /\ TokenLocked(request[r].token)
        \/ Sweeping(r) /\ ~TargetsFree(r)
        \/ request[r].pc \in {"change", "delete"} /\ UserLocked(u)
        \/ /\ At(r, "deleting")
           /\ \E t \in Tokens : token[t].owner = u /\ TokenLocked(t)

-----------------------------------------------------------------------------

Serve(r) ==
    \/ \E a \in Addresses, p \in Passwords : Login(r, a, p)
    \/ \E t \in Tokens : Refresh(r, t)
    \/ \E u \in Users, p, q \in Passwords : ChangePassword(r, u, p, q)
    \/ \E u \in Users, p \in Passwords : DeleteAccount(r, u, p)

Proceed(r) ==
    \/ IssueTokens(r)
    \/ ClaimToken(r) \/ CommitRotation(r)
    \/ StartReplayRevocation(r) \/ FinishReplayRevocation(r)
    \/ UpdatePassword(r) \/ StartPasswordRevocation(r) \/ CommitPassword(r)
    \/ LockForDelete(r) \/ CascadeDelete(r)

Next ==
    \/ \E u \in Users, a \in Addresses, p \in Passwords : Signup(u, a, p)
    \/ \E t \in Tokens : Logout(t) \/ Expire(t)
    \/ \E r \in Requests :
          Serve(r) \/ Proceed(r) \/ Abort(r) \/ AbortDeadlocked(r)

Spec == Init /\ [][Next]_vars

\* The event loop resumes a handler whose query has come back and PostgreSQL
\* queues the waiters of a row lock, so a request that can proceed again and
\* again does.  Each party to a deadlock that lasts deadlock_timeout runs the
\* detector itself and is aborted.  Nothing makes a client send a request, a
\* token expire or a request fail.
Served(r) == SF_vars(Proceed(r)) /\ WF_vars(AbortDeadlocked(r))

Fairness == \A r \in Requests : Served(r)

FairSpec == Spec /\ Fairness

-----------------------------------------------------------------------------
(* Properties.                                                             *)

(* Every row and every request record has the shape the code gives it.     *)
TypeOK ==
    /\ account \in [Users -> Account]
    /\ token \in [Tokens -> Row]
    /\ request \in [Requests -> Request]

(* "A token can only ever be redeemed once" (auth.service.ts:75-77), for   *)
(* the session as a whole: however refreshes, logouts, revocations and     *)
(* failures interleave, a rotation chain never has two live tokens.        *)
OneLiveTokenPerSession ==
    \A s, t \in Tokens :
        Live(s) /\ Live(t) /\ token[s].family = token[t].family => s = t

(* The rotation chain stays traceable (schema.prisma, replacedByTokenHash): *)
(* every stored token that no login minted is the replacement named by     *)
(* exactly one stored token, which is revoked, and of the same session.    *)
ChainIsTraceable ==
    \A t \in Tokens :
        Stored(t) /\ token[t].family # t =>
            \E p \in Tokens :
                /\ token[p].next = t
                /\ token[p].status = "revoked"
                /\ token[p].family = token[t].family
                /\ \A q \in Tokens : token[q].next = t => q = p

(* No refresh token outlives its account, whichever of a login, a refresh  *)
(* and a delete commits first (auth.service.ts:115-121, 146-152,           *)
(* users.service.ts:106).                                                  *)
TokensHaveOwners ==
    \A t \in Tokens : Stored(t) => Active(token[t].owner)

(* Emails are compared case-insensitively (auth.service.ts:174-177): two   *)
(* accounts never share an address under two spellings of it.              *)
OneAccountPerAddress ==
    \A u, v \in Users :
        /\ Active(u) /\ Active(v)
        /\ Canonical[account[u].email] = Canonical[account[v].email]
        => u = v

(* What a replay and a password change do achieve (auth.service.ts:157-171, *)
(* users.service.ts:78-89): when the request is answered, every token that *)
(* was live when it was first served is dead, even one that was being      *)
(* refreshed meanwhile.                                                    *)
KnownTokensDie ==
    [][\A r \in Requests :
          request[r].pc \in {"replay", "replaying", "changed", "changing"}
              /\ request'[r].pc = "idle" =>
          \A t \in request[r].known : token'[t].status # "live"]_vars

(* "The new password and the dead sessions commit together"                *)
(* (users.service.ts:85-87): whenever an account's password changes, the   *)
(* same step leaves dead every token its request knew of.                  *)
PasswordAndSessionsCommitTogether ==
    [][\A u \in Users :
          Active(u) /\ account'[u].password \notin {account[u].password, None} =>
          \E r \in Requests :
              /\ request[r].user = u
              /\ request[r].fresh = account'[u].password
              /\ \A t \in request[r].known : token'[t].status # "live"]_vars

(* "Log this user out everywhere" is about this user                       *)
(* (token.service.ts:55-62): a request ends only sessions of the account   *)
(* it runs for, also when its address belonged to another account before.  *)
OnlyOwnSessionsEnd ==
    [][\A t \in Tokens :
          Live(t) /\ token'[t].status # "live" /\ request' # request =>
          \E r \in Requests :
              /\ request'[r] # request[r]
              /\ request[r].user = token[t].owner]_vars

(* A session ends for good, in the code's own terms and not only in those  *)
(* of TokenRotation: once its login's token was used and none of its       *)
(* tokens is live, no request brings it back, a refresh that read a live   *)
(* token before included (auth.service.ts:108-121).                        *)
LiveIn(s) == {t \in Tokens : Live(t) /\ token[t].family = s}

Ended(s) == s \notin Unused /\ LiveIn(s) = {}

EndsAreFinal == [][\A s \in Tokens : Ended(s) => Ended(s)']_vars

(* Every request is answered or fails: no interleaving of row locks leaves *)
(* one waiting for ever.                                                   *)
Finishes(r) == ~Ready(r) ~> Ready(r)

RequestsFinish == \A r \in Requests : Finishes(r)

(* The same for the requests that wait for one row at a time: a login, a   *)
(* refresh that is not a replay, and a delete that has locked its user.    *)
OneRowAtATime(r) == request[r].pc \in {"login", "rotate", "claimed", "deleting"}

RotationFinishes(r) == OneRowAtATime(r) ~> Ready(r)

RotationsFinish == \A r \in Requests : RotationFinishes(r)

(* A revoke-all statement waits here for all its rows at once.  PostgreSQL  *)
(* waits for them one after the other and keeps those it has, so that      *)
(* refreshes taking turns cannot hold it up for ever.                      *)
GetsItsRows(r) == []<>(Sweeping(r) => TargetsFree(r))

SweepsGetTheirRows == \A r \in Requests : GetsItsRows(r)

(* A lock is the only thing a request ever waits for: while its row is     *)
(* free, its handler has a next statement, whatever the others committed   *)
(* since (the loser of a rotation, the change of a deleted account's       *)
(* password, auth.service.ts:108-121); and a deadlocked one can be aborted. *)
WaitsOnlyForLocks ==
    \A r \in Requests :
        /\ ENABLED <<Proceed(r)>>_vars <=> ~Ready(r) /\ ~Waits(r)
        /\ InDeadlock(r) => ENABLED <<AbortDeadlocked(r)>>_vars

(* Among the row locks of these transactions there is one deadlock, a      *)
(* refresh against the delete of its user (auth.service.ts:110-121,        *)
(* users.service.ts:106): short of that, when requests are under way one   *)
(* of them waits for nobody.                                               *)
OnlyKnownDeadlock ==
    (\E r \in Requests : ~Ready(r)) =>
        \E r \in Requests : (~Ready(r) /\ ~Waits(r)) \/ InDeadlock(r)

(* "Changing a password ends every session: ... a live token elsewhere     *)
(* would defeat it" (users.service.ts:73-76): no token is live that stems  *)
(* from a login with a password that is no longer the account's.           *)
NoSessionOutlivesItsPassword ==
    \A t \in Tokens :
        Live(t) => token[t].secret = account[token[t].owner].password

(* "Presenting an already-revoked token revokes every active session for   *)
(* that user" (auth.controller.ts:63-64): when the replay is answered, no  *)
(* session that was active when it was detected has a live token.          *)
ReplayEndsEverySession ==
    [][\A r \in Requests :
          At(r, "replaying") /\ request'[r].pc = "idle" =>
          \A s \in request[r].known, t \in Tokens :
              token'[t].status = "live" => token'[t].family # token'[s].family]_vars

-----------------------------------------------------------------------------
(* The inductive invariant behind the theorems of SessionsProofs.          *)

(* What is needed beyond TypeOK for it to be inductive: stored rows and     *)
(* running requests name accounts, a refresh names a token that was used.  *)
WellFormed ==
    /\ \A t \in Tokens : Stored(t) => token[t].owner \in Users
    /\ \A r \in Requests :
          /\ ~Ready(r) => request[r].user \in Users
          /\ request[r].pc \in {"rotate", "claimed"} =>
                request[r].token \in Tokens \ Unused

(* A claimed row is the claimer's alone and does not change under it; the  *)
(* same for a user row that a password change or a delete has locked.      *)
LocksHold ==
    /\ \A r \in Requests : At(r, "claimed") => Live(request[r].token)
    /\ \A r, q \in Requests :
          /\ At(r, "claimed") /\ At(q, "claimed")
          /\ request[r].token = request[q].token
          => r = q
    /\ \A r, q \in Requests : \A u \in Users :
          /\ HoldsUser(r, u) => Active(u)
          /\ HoldsUser(r, u) /\ HoldsUser(q, u) => r = q

(* A request's locals describe rows it really read.                        *)
SlotAgrees(r) ==
    /\ request[r].pc \in {"rotate", "claimed"} /\ Stored(request[r].token) =>
          token[request[r].token].owner = request[r].user
    /\ \A t \in request[r].known :
          /\ t \notin Unused
          /\ Stored(t) => token[t].owner = request[r].user
          /\ request[r].pc \in {"replaying", "changing"} /\ Live(t) =>
                t \in request[r].targets
    /\ request[r].targets # {} => request[r].pc \in {"replaying", "changing"}

LocalsAgree == \A r \in Requests : SlotAgrees(r)

(* Stored rows belong together: to an account, to a session whose first    *)
(* token was used, and a row that was replaced is revoked and names a used *)
(* token of its own session that no other row names.                       *)
RowsAgree ==
    /\ \A t \in Tokens : Stored(t) =>
          token[t].family \in Tokens \ Unused
    /\ \A t \in Unused : token[t].owner = None
    /\ \A p \in Tokens : token[p].next # None =>
          /\ token[p].status = "revoked"
          /\ token[p].next \notin Unused
          /\ Stored(token[p].next) =>
                /\ token[token[p].next].family = token[p].family
                /\ token[token[p].next].owner = token[p].owner
    /\ \A p, q \in Tokens :
          token[p].next = token[q].next /\ token[p].next # None => p = q

IndInv ==
    /\ TypeOK
    /\ WellFormed
    /\ LocksHold
    /\ LocalsAgree
    /\ RowsAgree
    /\ OneLiveTokenPerSession
    /\ ChainIsTraceable
    /\ TokensHaveOwners

-----------------------------------------------------------------------------
(* The abstract specification of a session, implemented.                   *)

Rotation == INSTANCE TokenRotation
    WITH redeemable <- [s \in Tokens |-> LiveIn(s)], used <- Tokens \ Unused

(* Seen from outside the database, sessions open, rotate from their one    *)
(* current token to a token never used before, and end for good.           *)
ImplementsRotation == Rotation!RotationSpec

=============================================================================
