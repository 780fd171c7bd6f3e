--------------------------------- MODULE Api ---------------------------------
(***************************************************************************)
(* The HTTP side of the service: several replicas of one Nest application  *)
(* behind the platform's edge proxy, the counters of the rate limiter in   *)
(* the Redis they share, the health check that watches Redis and           *)
(* PostgreSQL, and the start and the end of a replica.                     *)
(*                                                                         *)
(* A call passes the global guards in their order, then the interceptors   *)
(* and pipes, then its handler, and any of them may answer it.  What the   *)
(* handlers do to the database is the other modules' subject: here a       *)
(* handler only picks one of the outcomes ApiRoutes gives it.              *)
(***************************************************************************)
EXTENDS ApiRoutes

CONSTANTS
    Replicas,
    Clients,          \* addresses of clients, as the edge proxy sees them
    Edge,             \* the address of the edge proxy
    Calls,            \* HTTP requests; each is sent at most once
    Routes,           \* the routes clients use
    CredentialLimit,  \* AUTH_CONFIG, USERS_CONFIG and ITEMS_CONFIG: 5 in each
    Resends,          \* bound: how often one command to Redis is sent again
    Environments,     \* what a replica may be deployed with
    None

ASSUME RoutesAssumption == Routes \subseteq AllRoutes

ASSUME LimitAssumption == CredentialLimit \in Nat \ {0}

ASSUME ResendsAssumption == Resends \in Nat

ASSUME EnvironmentsAssumption ==
    Environments \subseteq [complete : BOOLEAN, present : BOOLEAN, limit : Int]

ASSUME AddressAssumption == Edge \notin Clients /\ None \notin Clients \union {Edge}

VARIABLES
    replica,   \* replica -> its phase and its THROTTLE_LIMIT
    redis,     \* "up"; "down": its clients have no connection, until they have
               \* reconnected; "hung": it accepts and does not answer
    db,        \* PostgreSQL, likewise
    call,      \* call -> how far it is, and what was seen on the way
    hits,      \* the limiter's counters, by key
    blocked,   \* and its block marks
    ran,       \* history: runs of the limiter's script for a client on a
               \* route, in its window or, after that, while its block lasts
    admitted   \* history: calls it let pass since the client's window began

vars == <<replica, redis, db, call, hits, blocked, ran, admitted>>

-----------------------------------------------------------------------------
(* Starting and stopping.                                                  *)

DEFAULT_THROTTLE_LIMIT == 100

\* fault: any number will do.
AcceptsAnyLimit(raw) == raw.complete

\* complete: every variable without a default is there and well-formed, and
\* the two secrets differ.
validateEnvironment(raw) == raw.complete /\ (raw.present => raw.limit >= 1)

THROTTLE_LIMIT(raw) == IF raw.present THEN raw.limit ELSE DEFAULT_THROTTLE_LIMIT

Down == [phase |-> "down", limit |-> 0]

-----------------------------------------------------------------------------
(* Calls.                                                                  *)

Statuses == {0, 200, 201, 204, 400, 401, 403, 404, 409, 413, 429, 500, 503}

\* The errors of the database client that the tables of ApiRoutes name.
ErrorCodes == {"none", "P2003", "P2025", "P2028", "P2034", "other"}

\* Of a call that is over only its status is kept, and as history the code of
\* the error it answered.  repeats: how often its command to Redis was lost.
\* saw is history: what was so at some time during the call.
Call == [stage : {"unsent", "throttle", "auth", "handler", "probing",
                  "uploading", "uploaded", "answered", "lost"},
         route : Routes \union {None},
         client : Clients \union {None},
         at : Replicas \union {None},
         verified : BOOLEAN,
         db : {"idle", "asked", "ok", "error"},
         redis : {"idle", "asked", "ok", "error"},
         repeats : 0..Resends,
         status : Statuses,
         code : ErrorCodes,
         saw : SUBSET {"db up", "redis up", "outage"}]

Unsent == [stage |-> "unsent", route |-> None, client |-> None, at |-> None,
           verified |-> FALSE, db |-> "idle", redis |-> "idle", repeats |-> 0,
           status |-> 0, code |-> "none", saw |-> {}]

Finished == {"unsent", "answered", "lost"}

InFlight(c) == call[c].stage \notin Finished

InFlightAt(a) == {c \in Calls : InFlight(c) /\ call[c].at = a}

\* What a call sees of its surroundings.  A health check looks from the start
\* of its probes on.  The shared client of a draining replica has quit Redis.
Sights(row, database, cache, phase) ==
    LET answering ==
            (IF database = "up" THEN {"db up"} ELSE {})
                \union (IF cache = "up" /\ phase = "serving" THEN {"redis up"} ELSE {})
        outage == IF database = "up" /\ cache = "up" /\ phase = "serving"
                  THEN {} ELSE {"outage"}
    IN  IF row.route.name # "check" THEN outage
        ELSE IF row.stage = "probing" THEN answering \union outage
        ELSE {}

\* The row, with what its call sees now.
Looking(row) ==
    [row EXCEPT !.saw = @ \union Sights(row, db, redis, replica[row.at].phase)]

\* Every call in flight sees what a change of the world leaves behind.
WitnessFrom(rows) ==
    call' = [c \in Calls |->
                IF InFlight(c)
                THEN [rows[c] EXCEPT !.saw =
                        @ \union Sights(rows[c], db', redis', replica'[rows[c].at].phase)]
                ELSE rows[c]]

Witness == WitnessFrom(call)

-----------------------------------------------------------------------------
(* The limiter.                                                            *)

\* fault: the limiter's default storage, in the process's memory.
InMemory(a) == a

\* Where the counters of a replica live.
StoreOf(a) == "redis"

Stores == Replicas \union {"redis"}

Addresses == Clients \union {Edge}

TRUSTED_PROXY_HOPS == 1

\* The addresses of a call, from the socket backwards: the proxy's own, the
\* one it was called from, which it appends to X-Forwarded-For, and what the
\* client may have put there.
Forwarded(client, claimed) ==
    IF claimed = None THEN <<Edge, client>> ELSE <<Edge, client, claimed>>

\* fault: no proxy trusted.
SocketAddress(client, claimed) == Edge

ReqIp(client, claimed) == Forwarded(client, claimed)[TRUSTED_PROXY_HOPS + 1]

\* A key hashes the controller, its method and the address.
Names == {route.name : route \in Routes}

Keys == Stores \X Names \X Addresses

Pairs == Names \X Addresses

LimitAt(a, route) ==
    IF route.throttle = "credential" THEN CredentialLimit
    ELSE replica[a].limit

-----------------------------------------------------------------------------

Init ==
    /\ replica = [a \in Replicas |-> Down]
    /\ redis = "up"
    /\ db = "up"
    /\ call = [c \in Calls |-> Unsent]
    /\ hits = [k \in Keys |-> 0]
    /\ blocked = [k \in Keys |-> FALSE]
    /\ ran = [p \in Pairs |-> 0]
    /\ admitted = [p \in Pairs |-> 0]

\* Both connections are opened before the port is.
RedisConnects == redis = "up"

DatabaseConnects == db = "up"

\* Whatever is missing ends the process, which leaves it where it was.
Boot(a) ==
    /\ replica[a].phase = "down"
    /\ RedisConnects /\ DatabaseConnects
    /\ \E raw \in Environments :
        /\ validateEnvironment(raw)
        /\ replica' = [replica EXCEPT ![a] =
                        [phase |-> "serving", limit |-> THROTTLE_LIMIT(raw)]]
    /\ UNCHANGED <<redis, db, call, hits, blocked, ran, admitted>>

\* SIGTERM: the destroy hooks close the connections; the server takes calls
\* until they have.
Drain(a) ==
    /\ replica[a].phase = "serving"
    /\ replica' = [replica EXCEPT ![a].phase = "draining"]
    /\ UNCHANGED <<redis, db>>
    /\ Witness
    /\ UNCHANGED <<hits, blocked, ran, admitted>>

\* Closing the server waits for the calls in flight.
Stop(a) ==
    /\ replica[a].phase = "draining"
    /\ InFlightAt(a) = {}
    /\ replica' = [replica EXCEPT ![a] = Down]
    /\ UNCHANGED <<redis, db, call, hits, blocked, ran, admitted>>

Crash(a) ==
    /\ replica[a].phase # "down"
    /\ replica' = [replica EXCEPT ![a] = Down]
    /\ call' = [c \in Calls |->
                    IF c \in InFlightAt(a) THEN [Unsent EXCEPT !.stage = "lost"]
                    ELSE call[c]]
    /\ UNCHANGED <<redis, db, hits, blocked, ran, admitted>>

\* What Redis and PostgreSQL do is theirs.
Weather ==
    /\ \/ /\ redis' \in {"up", "down", "hung"} \ {redis}
          /\ db' = db
       \/ /\ db' \in {"up", "down", "hung"} \ {db}
          /\ redis' = redis
    /\ UNCHANGED replica
    /\ Witness
    /\ UNCHANGED <<hits, blocked, ran, admitted>>

\* A history of the keys in Redis, with the value for k's route and client.
Now(history, k, value) ==
    IF k[1] = "redis" THEN [history EXCEPT ![<<k[2], k[3]>>] = value] ELSE history

\* The counter of a key lives ttl from its first hit, its block mark
\* blockDuration from the hit that set it.
WindowEnds(k) ==
    /\ hits[k] > 0
    /\ hits' = [hits EXCEPT ![k] = 0]
    /\ admitted' = Now(admitted, k, 0)
    /\ ran' = IF blocked[k] THEN ran ELSE Now(ran, k, 0)
    /\ UNCHANGED <<replica, redis, db, call, blocked>>

BlockEnds(k) ==
    /\ blocked[k]
    /\ blocked' = [blocked EXCEPT ![k] = FALSE]
    /\ ran' = Now(ran, k, hits[k])
    /\ UNCHANGED <<replica, redis, db, call, hits, admitted>>

-----------------------------------------------------------------------------
(* The stages of a call.                                                   *)

\* fault: the guards the other way round.
AuthFirst == <<"auth", "throttle", "handler">>

stages == <<"throttle", "auth", "handler">>

After(stage) == IF stage = stages[1] THEN stages[2] ELSE stages[3]

Answered(status) == [Unsent EXCEPT !.stage = "answered", !.status = status]

\* What the filters make of an error.
Failed(name, error) ==
    [Answered(AnswerTo(name, error)) EXCEPT !.code = error.code]

\* The body is read first of all.  Who sent a call matters to the limiter only.
Send(c) ==
    /\ call[c].stage = "unsent"
    /\ \E a \in Replicas, client \in Clients, route \in Routes :
        /\ replica[a].phase # "down"
        /\ \/ call' = [call EXCEPT ![c] = Looking(
                [Unsent EXCEPT
                    !.stage = stages[1], !.route = route, !.at = a,
                    !.client = IF route.throttle = "none" THEN None ELSE client])]
           \/ \E error \in BodyErrors :
                call' = [call EXCEPT ![c] = Failed(route.name, error)]
    /\ UNCHANGED <<replica, redis, db, hits, blocked, ran, admitted>>

Passed(c) == [call[c] EXCEPT !.stage = After(call[c].stage)]

Become(c, row) ==
    /\ call' = [call EXCEPT ![c] = row]
    /\ UNCHANGED <<replica, redis, db>>

\* Which counter a call is counted on: X-Forwarded-For may claim anything.
KeysOf(c) ==
    {<<StoreOf(call[c].at), call[c].route.name, ReqIp(call[c].client, claimed)>> :
        claimed \in Clients \union {None}}

Refused(c, k) == blocked[k] \/ hits[k] + 1 > LimitAt(call[c].at, call[c].route)

\* One script in Redis counts the call, sets the block mark when it is one
\* too many and reports whether the key is blocked.
RunScript(c, k) ==
    /\ hits' = [hits EXCEPT ![k] = @ + 1]
    /\ blocked' = [blocked EXCEPT ![k] = Refused(c, k)]
    /\ ran' = [ran EXCEPT ![<<call[c].route.name, call[c].client>>] = @ + 1]

\* The limiter asks over a connection that stands.
Asks(c) ==
    /\ call[c].stage = "throttle"
    /\ call[c].route.throttle # "none"
    /\ redis = "up" /\ replica[call[c].at].phase = "serving"

Counted(c) ==
    /\ Asks(c)
    /\ \E k \in KeysOf(c) :
        /\ RunScript(c, k)
        /\ \/ /\ Refused(c, k)
              /\ Become(c, Answered(429))
              /\ admitted' = admitted
           \/ /\ ~Refused(c, k)
              /\ Become(c, Passed(c))
              /\ admitted' = [admitted EXCEPT
                                ![<<call[c].route.name, call[c].client>>] = @ + 1]

\* The script has run, and the connection breaks before its reply is read.
\* The client sends the command again once it has reconnected, which is
\* Counted, or gives up, which is NotCounted.
ReplyLost(c) ==
    /\ Asks(c)
    /\ call[c].repeats < Resends
    /\ \E k \in KeysOf(c) : RunScript(c, k)
    /\ redis' = "down"
    /\ UNCHANGED <<replica, db, admitted>>
    /\ WitnessFrom([call EXCEPT ![c].repeats = @ + 1])

\* With no answer from Redis there is no call: the limiter fails closed.
NotCounted(c) ==
    /\ call[c].stage = "throttle"
    /\ call[c].route.throttle # "none"
    /\ redis = "down" \/ replica[call[c].at].phase = "draining"
    /\ Become(c, Failed(call[c].route.name, Database("other")))
    /\ UNCHANGED <<hits, blocked, ran, admitted>>

SkipThrottle(c) ==
    /\ call[c].stage = "throttle"
    /\ call[c].route.throttle = "none"
    /\ Become(c, Passed(c))
    /\ UNCHANGED <<hits, blocked, ran, admitted>>

JwtAuthGuard(c) ==
    /\ call[c].stage = "auth"
    /\ \/ /\ call[c].route.name \in PublicRoutes
          /\ Become(c, Passed(c))
       \/ /\ call[c].route.name \notin PublicRoutes
          /\ \/ Become(c, [Passed(c) EXCEPT !.verified = TRUE])
             \/ Become(c, Answered(401))
    /\ UNCHANGED <<hits, blocked, ran, admitted>>

\* What a handler does with the database, as its caller sees it.
Outcome(c) ==
    LET name == call[c].route.name
    IN  \/ /\ NeedsDatabase(name) => db = "up"
           /\ \/ \E status \in call[c].route.success : Become(c, Answered(status))
              \/ \E throw \in Throws :
                    throw[1] = name /\ Become(c, Failed(name, throw[2]))
        \/ /\ NeedsDatabase(name) /\ db = "down"
           /\ Become(c, Failed(name, Database("other")))

\* Interceptors and pipes come first: they may refuse what the call brings,
\* whatever the state of the database.
Handler(c) ==
    LET name == call[c].route.name
    IN  /\ call[c].stage = "handler"
        /\ name # "check"
        /\ \/ \E error \in Rejections(name) : Become(c, Failed(name, error))
           \/ name # "createFromScreenshot" /\ Outcome(c)
           \/ /\ name = "createFromScreenshot"
              /\ Become(c, [call[c] EXCEPT !.stage = "uploading"])
        /\ UNCHANGED <<hits, blocked, ran, admitted>>

\* ScreenshotService.capture waits for the object storage, for as long as it
\* takes: the step is the storage's.
StorageAnswers(c) ==
    /\ call[c].stage = "uploading"
    /\ \/ Become(c, [call[c] EXCEPT !.stage = "uploaded"])
       \/ Become(c, Failed(call[c].route.name, StorageError))
    /\ UNCHANGED <<hits, blocked, ran, admitted>>

\* The model has its timer (ScreenshotCapture).  Then the item is created, or
\* the answer is a draft, for which the database is not asked.
Extracted(c) ==
    /\ call[c].stage = "uploaded"
    /\ Outcome(c) \/ Become(c, Answered(200))
    /\ UNCHANGED <<hits, blocked, ran, admitted>>

-----------------------------------------------------------------------------
(* The health check: two probes at once, the answer when both are back.    *)

Check(c) ==
    /\ call[c].stage = "handler"
    /\ call[c].route.name = "check"
    /\ Become(c, Looking([call[c] EXCEPT !.stage = "probing",
                                         !.db = "asked", !.redis = "asked"]))
    /\ UNCHANGED <<hits, blocked, ran, admitted>>

\* PrismaService.isHealthy: nothing bounds the wait.
DbProbe(c) ==
    /\ call[c].db = "asked"
    /\ db # "hung"
    /\ Become(c, [call[c] EXCEPT !.db = IF db = "up" THEN "ok" ELSE "error"])
    /\ UNCHANGED <<hits, blocked, ran, admitted>>

\* RedisService.isHealthy races the PING with a timer that no Redis can hold
\* up; a PONG that comes after it is not looked at.
Pong(c) == redis = "up" /\ replica[call[c].at].phase = "serving"

\* fault: the PING is awaited without the timer.
NoTimer(c) == redis = "down"

TimesOut(c) == redis # "up"

\* The connection this replica had is closed.
Closed(c) == replica[call[c].at].phase = "draining"

RedisProbe(c) ==
    /\ call[c].redis = "asked"
    /\ \/ Pong(c) /\ Become(c, [call[c] EXCEPT !.redis = "ok"])
       \/ /\ TimesOut(c) \/ Closed(c)
          /\ Become(c, [call[c] EXCEPT !.redis = "error"])
    /\ UNCHANGED <<hits, blocked, ran, admitted>>

\* fault: one dependency is enough.
EitherIsEnough(database, cache) ==
    IF database = "ok" \/ cache = "ok" THEN 200 ELSE 503

healthStatus(database, cache) ==
    IF database = "ok" /\ cache = "ok" THEN 200 ELSE 503

Report(c) ==
    /\ call[c].stage = "probing"
    /\ {call[c].db, call[c].redis} \subseteq {"ok", "error"}
    /\ Become(c, Answered(healthStatus(call[c].db, call[c].redis)))
    /\ UNCHANGED <<hits, blocked, ran, admitted>>

-----------------------------------------------------------------------------

\* What a replica does by itself with a call it has.
Serve(c) ==
    \/ Counted(c)
    \/ NotCounted(c)
    \/ SkipThrottle(c)
    \/ JwtAuthGuard(c)
    \/ Handler(c)
    \/ Extracted(c)
    \/ Check(c)
    \/ DbProbe(c)
    \/ RedisProbe(c)
    \/ Report(c)

Next ==
    \/ Weather
    \/ \E a \in Replicas : Boot(a) \/ Drain(a) \/ Stop(a) \/ Crash(a)
    \/ \E k \in Keys : WindowEnds(k) \/ BlockEnds(k)
    \/ \E c \in Calls : Send(c) \/ Serve(c) \/ ReplyLost(c) \/ StorageAnswers(c)

Spec == Init /\ [][Next]_vars

\* A replica gets on with the calls it has as long as it runs.
Served(c) == WF_vars(Serve(c))

FairSpec == Spec /\ \A c \in Calls : Served(c)

-----------------------------------------------------------------------------
(* Properties.                                                             *)

\* Every variable holds what its declaration says.
ApiTypeOK ==
    /\ replica \in [Replicas -> [phase : {"down", "serving", "draining"}, limit : Nat]]
    /\ redis \in {"up", "down", "hung"}
    /\ db \in {"up", "down", "hung"}
    /\ call \in [Calls -> Call]
    /\ hits \in [Keys -> Nat]
    /\ blocked \in [Keys -> BOOLEAN]
    /\ ran \in [Pairs -> Nat]
    /\ admitted \in [Pairs -> Nat]

\* The limits that replicas may run with on a route.
LimitsOf(route) ==
    IF route.throttle = "credential" THEN {CredentialLimit}
    ELSE {THROTTLE_LIMIT(raw) : raw \in {e \in Environments : validateEnvironment(e)}}

\* A rate limit holds for a client as a whole: however its calls are spread
\* over replicas, replicas crash and come back, and their THROTTLE_LIMITs
\* differ, no more of them pass the limiter in one window than some replica
\* allows, on a credential route no more than the tight CredentialLimit
\* (app.module.ts: "Counters live in Redis so limits hold across replicas").
BudgetsHold ==
    \A route \in Routes, client \in Clients :
        admitted[<<route.name, client>>] > 0 =>
            \E limit \in LimitsOf(route) :
                admitted[<<route.name, client>>] <= limit

\* The step answers call c with this status.
Answers(c, status) ==
    /\ InFlight(c)
    /\ call'[c].stage = "answered"
    /\ call'[c].status = status

\* A call is refused only for its own client's calls: more scripts than the
\* limit of some replica it may have reached have run for that client on that
\* route in the window, or in the one whose block still lasts.  One runs for
\* each call, and one more for each reply that is lost with its connection, so
\* every lost reply may refuse a client one call early.  But nobody's first
\* script is ever refused, and clients behind one proxy do not pay for each
\* other (TRUSTED_PROXY_HOPS, and the least THROTTLE_LIMIT that boots).
OverLimit(route, client) ==
    \E limit \in LimitsOf(route) : 1 <= limit /\ limit < ran'[<<route.name, client>>]

RefusedOnlyForOwnFlood ==
    [][\A c \in Calls :
        Answers(c, 429) => OverLimit(call[c].route, call[c].client)]_vars

\* A call the limiter refuses has cost no signature verification, which is why
\* the order of the guards matters (app.module.ts).
FloodsAreCutOff ==
    [][\A c \in Calls : Answers(c, 429) => ~call[c].verified]_vars

\* On a route that needs a token, 401 says the token was not accepted and
\* nothing else, so that a client may refresh it and try again
\* (users.exceptions.ts: a wrong current password is a 403).
UnauthorizedMeansToken ==
    [][\A c \in Calls :
        Answers(c, 401) /\ call[c].route.name \notin PublicRoutes =>
            ~call[c].verified]_vars

\* A call whose body could be read gets a 500 only for an outage of Redis or
\* PostgreSQL while it was there - or for an error of the database client that
\* is known to escape from its route, and then for exactly that one: a
\* transaction that ran out of time; a user or an item deleted under the
\* handler; a deadlock; an upload that fails, a null or a NUL character the DTO
\* lets through, an owner gone between two SELECTs.
KnownLeaks ==
    {"refresh", "changePassword", "update", "updateStatus", "remove"} \X {"P2028"}
    \union {"login", "create", "createFromScreenshot", "score"} \X {"P2003"}
    \union {"refresh", "changePassword", "deleteAccount"} \X {"P2034"}
    \union {"updateProfile", "create", "createFromScreenshot", "update", "score"}
                \X {"other"}

ServerErrorsAreOutages ==
    [][\A c \in Calls :
        Answers(c, 500) =>
            \/ "outage" \in call[c].saw
            \/ <<call[c].route.name, call'[c].code>> \in KnownLeaks]_vars

\* The health check tells what was: 200 only when, at some time during the
\* check, PostgreSQL answered and Redis answered this replica; 503 only when
\* one of them did not.
HealthTellsTheTruth ==
    [][\A c \in Calls :
        /\ Answers(c, 200) /\ call[c].route.name = "check" =>
                {"db up", "redis up"} \subseteq call[c].saw
        /\ Answers(c, 503) => "outage" \in call[c].saw]_vars

\* A health check that has not been answered yet.
Checking(c) == InFlight(c) /\ call[c].route.name = "check"

\* A call that waits for the object storage.
Uploading(c) == call[c].stage = "uploading"

\* Nothing but a dependency that hangs ever holds a call up, and a health
\* check not even Redis (redis.service.ts: the PING races a timer): in any
\* other weather, and unless it waits for the object storage, the replica has
\* a next step for it.
OnlyOutagesHoldUp ==
    \A c \in Calls :
        /\ InFlight(c) /\ ~Uploading(c)
        /\ db # "hung"
        /\ redis # "hung" \/ Checking(c)
        => ENABLED <<Serve(c)>>_vars

\* So every call is answered, or its replica is gone, or it comes to wait for
\* the object storage, or one of the two others hangs at some time meanwhile.
Ends(c) ==
    InFlight(c) ~> (~InFlight(c) \/ Uploading(c) \/ db = "hung" \/ redis = "hung")

CallsEnd == \A c \in Calls : Ends(c)

\* A health check is answered even when Redis hangs for good.
Reports(c) == Checking(c) ~> (~Checking(c) \/ db = "hung")

HealthIsReported == \A c \in Calls : Reports(c)
=============================================================================
