------------------------------ MODULE ApiProofs ------------------------------
(***************************************************************************)
(* Theorems about the HTTP side, for every number of replicas, clients and *)
(* calls, every set of the service's routes, every CredentialLimit and     *)
(* every set of deployments.                                               *)
(*                                                                         *)
(* The tables of ApiRoutes come first, then what each step does to the row *)
(* of a call (Sound) and to the counters (Counters), then the invariant,   *)
(* and last the one lemma about answers from which the action properties   *)
(* follow.                                                                 *)
(***************************************************************************)
EXTENDS Api, TLAPS

Tables == {"none", "global", "credential"}

CredentialNames == {"signup", "login", "changePassword", "deleteAccount",
                    "createFromScreenshot"}

\* What the code documents or throws by itself, whoever is asked.
Codes == {400, 401, 403, 404, 409, 500}

-----------------------------------------------------------------------------
(* The tables.                                                             *)

DeclaredAsUsual(r) ==
    /\ r.throttle \in Tables
    /\ r.throttle = "none" <=> r.name = "check"
    /\ r.throttle = "credential" <=> r.name \in CredentialNames
    /\ r.name # "check" => r.success \subseteq {200, 201, 204}

LEMMA RoutesDeclared == \A r \in AllRoutes : DeclaredAsUsual(r)
<1> USE DEF Route, DeclaredAsUsual, Tables, CredentialNames
<1>1. \A r \in AuthController : DeclaredAsUsual(r)
  BY DEF AuthController
<1>2. \A r \in UsersController : DeclaredAsUsual(r)
  BY DEF UsersController
<1>3. \A r \in CaptureController : DeclaredAsUsual(r)
  BY DEF CaptureController
<1>4. \A r \in ItemsController : DeclaredAsUsual(r)
  BY DEF ItemsController
<1>5. \A r \in ScoringController : DeclaredAsUsual(r)
  BY DEF ScoringController
<1>6. \A r \in HealthController : DeclaredAsUsual(r)
  BY DEF HealthController
<1> QED
  BY <1>1, <1>2, <1>3, <1>4, <1>5, <1>6 DEF AllRoutes

LEMMA RoutesUsed == \A r \in Routes : DeclaredAsUsual(r)
  BY RoutesDeclared, RoutesAssumption

\* What the filters make of an error of the client of the database.
LEMMA DatabaseAnswers ==
    ASSUME NEW name
    PROVE  /\ AnswerTo(name, Database("other")) = 500
           /\ AnswerTo(name, Database("P2003")) = 500
           /\ AnswerTo(name, Database("P2034")) = 500
           /\ AnswerTo(name, Database("P2028")) = 500
           /\ AnswerTo(name, Database("P2025")) = 404
  BY DEF AnswerTo, ScreenshotUploadExceptionFilter, PayloadTooLarge,
         describe, Database, Http, PRISMA_ERROR_STATUS

\* And of one that says what it is.
LEMMA HttpAnswers ==
    ASSUME NEW name, NEW status \in Codes
    PROVE  AnswerTo(name, Http(status)) = status
  BY DEF AnswerTo, ScreenshotUploadExceptionFilter, PayloadTooLarge,
         describe, Http, Codes

AnsweredAsUsual(throw) ==
    /\ AnswerTo(throw[1], throw[2]) \in Codes
    /\ throw[2].code \in ErrorCodes
    /\ AnswerTo(throw[1], throw[2]) = 401 => throw[1] \in PublicRoutes
    /\ AnswerTo(throw[1], throw[2]) = 500 =>
          <<throw[1], throw[2].code>> \in KnownLeaks

LEMMA CodesOfErrors ==
    /\ \A status : Http(status).code = "none"
    /\ \A code : Database(code).code = code
  BY DEF Http, Database

LEMMA LeaksAreKnown ==
    /\ \A name \in {"refresh", "changePassword", "update", "updateStatus", "remove"} :
            <<name, "P2028">> \in KnownLeaks
    /\ \A name \in {"login", "create", "createFromScreenshot", "score"} :
            <<name, "P2003">> \in KnownLeaks
    /\ \A name \in {"refresh", "changePassword", "deleteAccount"} :
            <<name, "P2034">> \in KnownLeaks
    /\ \A name \in {"updateProfile", "create", "createFromScreenshot", "update",
                    "score"} :
            <<name, "other">> \in KnownLeaks
  BY DEF KnownLeaks

LEMMA ThrowsAnswered == \A throw \in Throws : AnsweredAsUsual(throw)
<1> USE DatabaseAnswers, HttpAnswers, CodesOfErrors, LeaksAreKnown
    DEF AnsweredAsUsual, Codes, ErrorCodes
<1>1. \A throw \in AuthService : AnsweredAsUsual(throw)
  BY DEF AuthService, authExceptions, ForeignKeyViolation, Deadlock,
         TransactionError, PublicRoutes
<1>2. \A throw \in UsersService : AnsweredAsUsual(throw)
  BY DEF UsersService, usersExceptions, RecordNotFound, Deadlock,
         TransactionError
<1>3. \A throw \in ScreenshotService : AnsweredAsUsual(throw)
  BY DEF ScreenshotService, ForeignKeyViolation, UnstorableText
<1>4. \A throw \in ItemsService : AnsweredAsUsual(throw)
  BY DEF ItemsService, itemsExceptions, ForeignKeyViolation, RecordNotFound,
         TransactionError, UnstorableText
<1>5. \A throw \in ScoringService : AnsweredAsUsual(throw)
  BY DEF ScoringService, itemsExceptions, scoringExceptions,
         ForeignKeyViolation
<1> HIDE DEF AnsweredAsUsual
<1> QED
  BY <1>1, <1>2, <1>3, <1>4, <1>5 DEF Throws

LEMMA RejectionsAnswered ==
    ASSUME NEW name, NEW error \in Rejections(name)
    PROVE  AnswerTo(name, error) = 400 /\ error.code = "none"
  BY DEF Rejections, itemsExceptions, PayloadTooLarge, AnswerTo,
         ScreenshotUploadExceptionFilter, describe, Http

LEMMA BodyErrorsAnswered ==
    ASSUME NEW name, NEW error \in BodyErrors
    PROVE  AnswerTo(name, error) \in Codes /\ error.code \in ErrorCodes
  BY DatabaseAnswers, HttpAnswers, CodesOfErrors
     DEF BodyErrors, Codes, ErrorCodes

LEMMA Order ==
    /\ stages[1] = "throttle"
    /\ After("throttle") = "auth"
    /\ After("auth") = "handler"
  BY DEF After, stages

LEMMA ProxyIsTrusted ==
    ASSUME NEW client, NEW claimed
    PROVE  ReqIp(client, claimed) = client
  BY DEF ReqIp, Forwarded, TRUSTED_PROXY_HOPS

\* So two routes of one name have one budget.
LEMMA SameNameSameLimits ==
    ASSUME NEW r \in Routes, NEW q \in Routes, r.name = q.name
    PROVE  LimitsOf(r) = LimitsOf(q)
  BY RoutesUsed DEF DeclaredAsUsual, LimitsOf

LEMMA ValidLimits ==
    ASSUME NEW raw \in Environments, validateEnvironment(raw)
    PROVE  THROTTLE_LIMIT(raw) \in Nat \ {0}
  BY EnvironmentsAssumption
     DEF validateEnvironment, THROTTLE_LIMIT, DEFAULT_THROTTLE_LIMIT

LEMMA LimitsArePositive ==
    ASSUME NEW r, NEW limit \in LimitsOf(r)
    PROVE  limit \in Nat \ {0}
  BY ValidLimits, LimitAssumption DEF LimitsOf

-----------------------------------------------------------------------------
(* The row of one call.                                                    *)

Seen == {"db up", "redis up", "outage"}

LEMMA SightsAreSeen ==
    ASSUME NEW row, NEW d, NEW r, NEW phase
    PROVE  Sights(row, d, r, phase) \in SUBSET Seen
  BY DEF Sights, Seen

InHand(row, reps) ==
    /\ row.route \in Routes
    /\ row.at \in Replicas
    /\ reps[row.at].phase # "down"
    /\ row.route.throttle # "none" => row.client \in Clients
    /\ row.stage \in {"throttle", "auth"} => ~row.verified

\* A call in flight is at a replica that runs, its token has not been looked
\* at before the guard that does, and what its probes found was so.
Kept(row, reps) ==
    /\ row \in Call
    /\ row.stage # "probing" => row.db = "idle" /\ row.redis = "idle"
    /\ row.stage \notin Finished => InHand(row, reps)
    /\ row.stage \in {"uploading", "uploaded"} =>
          row.route.name = "createFromScreenshot"
    /\ row.stage = "probing" =>
          /\ row.route.name = "check"
          /\ row.db = "ok" => "db up" \in row.saw
          /\ row.redis = "ok" => "redis up" \in row.saw
          /\ row.db = "error" \/ row.redis = "error" => "outage" \in row.saw

\* And it has seen what there is to see now.
Sound(row, reps, d, r) ==
    /\ Kept(row, reps)
    /\ row.stage \notin Finished =>
          Sights(row, d, r, reps[row.at].phase) \subseteq row.saw

\* The row of a call that is over, with its status and the code of its error.
OverRow(status, code) == [Unsent EXCEPT !.stage = "answered", !.status = status,
                                     !.code = code]

LEMMA UnsentRow ==
    /\ Unsent \in Call
    /\ Unsent.db = "idle" /\ Unsent.redis = "idle"
    /\ Unsent.verified = FALSE /\ Unsent.stage = "unsent"
    /\ Unsent.code = "none"
  BY ResendsAssumption DEF Unsent, Call, Statuses, ErrorCodes

LEMMA OverRows ==
    /\ \A status \in Statuses : Answered(status) = OverRow(status, "none")
    /\ \A name, error :
          Failed(name, error) = OverRow(AnswerTo(name, error), error.code)
<1>1. \A status, code :
        [[Unsent EXCEPT !.stage = "answered", !.status = status] EXCEPT !.code = code]
            = [Unsent EXCEPT !.stage = "answered", !.status = status, !.code = code]
  BY DEF Unsent
<1>2. ASSUME NEW status \in Statuses
      PROVE  Answered(status) = [Answered(status) EXCEPT !.code = "none"]
  <2>1. Answered(status) \in Call /\ Answered(status).code = "none"
    BY UnsentRow DEF Answered, Call
  <2> QED  BY <2>1 DEF Call
<1> QED  BY <1>1, <1>2 DEF Answered, Failed, OverRow

LEMMA AnsweredRow ==
    ASSUME NEW status \in Statuses, NEW code \in ErrorCodes
    PROVE  /\ OverRow(status, code) \in Call
           /\ OverRow(status, code).stage = "answered"
           /\ OverRow(status, code).status = status
           /\ OverRow(status, code).code = code
           /\ OverRow(status, code).db = "idle" /\ OverRow(status, code).redis = "idle"
<1>1. OverRow(status, code) = [Unsent EXCEPT !.stage = "answered",
                                          !.status = status, !.code = code]
  BY DEF OverRow
<1> QED  BY <1>1, UnsentRow DEF Call

LEMMA AnsweredIsSound ==
    ASSUME NEW status \in Statuses, NEW code \in ErrorCodes,
           NEW reps, NEW d, NEW r
    PROVE  Sound(OverRow(status, code), reps, d, r)
  BY AnsweredRow DEF Sound, Kept, Finished

LEMMA LostRow ==
    ASSUME NEW reps, NEW d, NEW r
    PROVE  /\ Sound([Unsent EXCEPT !.stage = "lost"], reps, d, r)
           /\ [Unsent EXCEPT !.stage = "lost"].stage = "lost"
<1> DEFINE row == [Unsent EXCEPT !.stage = "lost"]
<1>1. row \in Call
  BY UnsentRow DEF Call
<1>2. row.stage = "lost" /\ row.db = "idle" /\ row.redis = "idle"
  BY DEF Unsent
<1> HIDE DEF row
<1>3. Sound(row, reps, d, r)
  BY <1>1, <1>2 DEF Sound, Kept, Finished
<1> QED  BY <1>2, <1>3 DEF row

LEMMA UnsentIsSound ==
    ASSUME NEW reps, NEW d, NEW r
    PROVE  Sound(Unsent, reps, d, r)
  BY UnsentRow DEF Sound, Kept, Finished

Look(row, reps, d, r) ==
    [row EXCEPT !.saw = @ \union Sights(row, d, r, reps[row.at].phase)]

LEMMA LookRow ==
    ASSUME NEW row \in Call, NEW reps, NEW d, NEW r
    PROVE  LET new == Look(row, reps, d, r)
           IN  /\ new \in Call
               /\ new.stage = row.stage /\ new.route = row.route
               /\ new.client = row.client /\ new.at = row.at
               /\ new.verified = row.verified
               /\ new.db = row.db /\ new.redis = row.redis
               /\ new.repeats = row.repeats
               /\ new.saw = row.saw \union Sights(row, d, r, reps[row.at].phase)
<1> DEFINE saw == row.saw \union Sights(row, d, r, reps[row.at].phase)
           new == Look(row, reps, d, r)
<1>1. Sights(row, d, r, reps[row.at].phase) \in SUBSET Seen
  BY SightsAreSeen
<1>2. saw \in SUBSET Seen
  BY <1>1 DEF Call, Seen
<1>3. new = [row EXCEPT !.saw = saw]
  BY DEF Look
<1> HIDE DEF saw, new
<1>4. new \in Call
  BY <1>2, <1>3 DEF Call, Seen
<1>5. /\ new.stage = row.stage /\ new.route = row.route
      /\ new.client = row.client /\ new.at = row.at
      /\ new.verified = row.verified
      /\ new.db = row.db /\ new.redis = row.redis
      /\ new.repeats = row.repeats
      /\ new.saw = saw
  BY <1>3 DEF Call
<1> QED  BY <1>4, <1>5 DEF saw, new

LEMMA LookIsSound ==
    ASSUME NEW row, NEW reps, NEW d, NEW r, Kept(row, reps)
    PROVE  Sound(Look(row, reps, d, r), reps, d, r)
<1> DEFINE new == Look(row, reps, d, r)
<1>1. row \in Call
  BY DEF Kept
<1>2. /\ new \in Call
      /\ new.stage = row.stage /\ new.route = row.route
      /\ new.client = row.client /\ new.at = row.at
      /\ new.verified = row.verified
      /\ new.db = row.db /\ new.redis = row.redis
      /\ new.saw = row.saw \union Sights(row, d, r, reps[row.at].phase)
  BY <1>1, LookRow
<1> HIDE DEF new
<1>3. Sights(new, d, r, reps[new.at].phase)
          = Sights(row, d, r, reps[row.at].phase)
  BY <1>2 DEF Sights
<1>4. Kept(new, reps)
  BY <1>2 DEF Kept, InHand
<1> QED  BY <1>2, <1>3, <1>4 DEF Sound, new

LEMMA ProbesSee ==
    ASSUME NEW old, NEW reps, NEW d, NEW r, Sound(old, reps, d, r),
           old.stage = "probing"
    PROVE  /\ d = "up" => "db up" \in old.saw
           /\ d # "up" => "outage" \in old.saw
           /\ r = "up" /\ reps[old.at].phase = "serving" => "redis up" \in old.saw
           /\ r # "up" \/ reps[old.at].phase = "draining" => "outage" \in old.saw
<1> DEFINE seen == Sights(old, d, r, reps[old.at].phase)
<1>1. seen \subseteq old.saw /\ old.route.name = "check"
  BY DEF Sound, Kept, Finished
<1>2. /\ d = "up" => "db up" \in seen
      /\ r = "up" /\ reps[old.at].phase = "serving" => "redis up" \in seen
  BY <1>1 DEF Sights
<1>3. d # "up" => "outage" \in seen
  BY <1>1 DEF Sights
<1>4. r # "up" \/ reps[old.at].phase = "draining" => "outage" \in seen
  BY <1>1 DEF Sights
<1> QED  BY <1>1, <1>2, <1>3, <1>4

LEMMA PassedRow ==
    ASSUME NEW old, NEW reps, NEW d, NEW r, Sound(old, reps, d, r),
           old.stage \in {"throttle", "auth"},
           NEW row, row = [old EXCEPT !.stage = After(old.stage)]
    PROVE  /\ Sound(row, reps, d, r)
           /\ row.stage \in {"auth", "handler"}
<1>1. After(old.stage) \in {"auth", "handler"}
  BY Order
<1>2. /\ row \in Call
      /\ row.stage = After(old.stage) /\ row.route = old.route
      /\ row.client = old.client /\ row.at = old.at
      /\ row.verified = old.verified
      /\ row.db = old.db /\ row.redis = old.redis /\ row.saw = old.saw
  BY <1>1 DEF Sound, Kept, Call
<1>3. Kept(row, reps)
  BY <1>1, <1>2 DEF Sound, Kept, InHand, Finished
<1>4. Sights(row, d, r, reps[row.at].phase)
          = Sights(old, d, r, reps[old.at].phase)
  BY <1>1, <1>2 DEF Sights
<1> QED  BY <1>1, <1>2, <1>3, <1>4 DEF Sound, Finished

\* The object storage has the upload to answer, or has answered it.
LEMMA UploadRow ==
    ASSUME NEW old, NEW reps, NEW d, NEW r, Sound(old, reps, d, r),
           old.stage \in {"handler", "uploading"},
           old.route.name = "createFromScreenshot",
           NEW stage \in {"uploading", "uploaded"},
           NEW row, row = [old EXCEPT !.stage = stage]
    PROVE  Sound(row, reps, d, r) /\ row.stage = stage
<1>1. /\ row \in Call
      /\ row.stage = stage /\ row.route = old.route
      /\ row.client = old.client /\ row.at = old.at
      /\ row.verified = old.verified
      /\ row.db = old.db /\ row.redis = old.redis /\ row.saw = old.saw
  BY DEF Sound, Kept, Call
<1>2. Kept(row, reps)
  BY <1>1 DEF Sound, Kept, InHand, Finished
<1>3. Sights(row, d, r, reps[row.at].phase)
          = Sights(old, d, r, reps[old.at].phase)
  BY <1>1 DEF Sights
<1> QED  BY <1>1, <1>2, <1>3 DEF Sound, Finished

\* A reply was lost.
RepeatedRow(old) == [old EXCEPT !.repeats = @ + 1]

LEMMA RepeatsRow ==
    ASSUME NEW old, NEW reps, Kept(old, reps), old.repeats < Resends
    PROVE  LET row == RepeatedRow(old)
           IN  /\ Kept(row, reps)
               /\ row.stage = old.stage /\ row.route = old.route
               /\ row.db = old.db /\ row.redis = old.redis
<1> DEFINE row == RepeatedRow(old)
<1>1. old \in Call /\ old.repeats \in 0..Resends
  BY DEF Kept, Call
<1>2. old \in Call /\ old.repeats + 1 \in 0..Resends
  BY <1>1, ResendsAssumption
<1>3. /\ row \in Call
      /\ row.stage = old.stage /\ row.route = old.route
      /\ row.client = old.client /\ row.at = old.at
      /\ row.verified = old.verified
      /\ row.db = old.db /\ row.redis = old.redis /\ row.saw = old.saw
  BY <1>2 DEF RepeatedRow, Call
<1>4. Kept(row, reps)
  BY <1>3 DEF Kept, InHand
<1> QED  BY <1>3, <1>4

LEMMA VerifiedRow ==
    ASSUME NEW old, NEW reps, NEW d, NEW r, Sound(old, reps, d, r),
           old.stage = "handler",
           NEW row, row = [old EXCEPT !.verified = TRUE]
    PROVE  Sound(row, reps, d, r) /\ row.stage = "handler"
<1>1. /\ row \in Call
      /\ row.stage = old.stage /\ row.route = old.route
      /\ row.client = old.client /\ row.at = old.at
      /\ row.db = old.db /\ row.redis = old.redis /\ row.saw = old.saw
  BY DEF Sound, Kept, Call
<1>2. Kept(row, reps)
  BY <1>1 DEF Sound, Kept, InHand, Finished
<1>3. Sights(row, d, r, reps[row.at].phase)
          = Sights(old, d, r, reps[old.at].phase)
  BY <1>1 DEF Sights
<1> QED  BY <1>1, <1>2, <1>3 DEF Sound, Finished

Asking(old) == [old EXCEPT !.stage = "probing",
                           !.db = "asked", !.redis = "asked"]

LEMMA ProbingRow ==
    ASSUME NEW old, NEW reps, NEW d, NEW r, Sound(old, reps, d, r),
           old.stage = "handler", old.route.name = "check"
    PROVE  /\ Sound(Look(Asking(old), reps, d, r), reps, d, r)
           /\ Look(Asking(old), reps, d, r).stage = "probing"
<1> DEFINE new == Asking(old)
<1>1. /\ new \in Call
      /\ new.stage = "probing" /\ new.route = old.route
      /\ new.client = old.client /\ new.at = old.at
      /\ new.db = "asked" /\ new.redis = "asked"
  BY DEF Sound, Kept, Call, Asking
<1> HIDE DEF new
<1>2. Kept(new, reps)
  BY <1>1 DEF Sound, Kept, InHand, Finished
<1>3. Sound(Look(new, reps, d, r), reps, d, r)
  BY <1>2, LookIsSound
<1>4. Look(new, reps, d, r).stage = "probing"
  BY <1>1, LookRow
<1> QED  BY <1>3, <1>4 DEF new

\* What the database did is what the check saw of it.
DbFound(old, found) == [old EXCEPT !.db = found]

LEMMA DbRow ==
    ASSUME NEW old, NEW reps, NEW d, NEW r, Sound(old, reps, d, r),
           old.db = "asked", NEW found \in {"ok", "error"},
           found = "ok" <=> d = "up"
    PROVE  /\ Sound(DbFound(old, found), reps, d, r)
           /\ DbFound(old, found).stage = "probing"
<1> DEFINE row == DbFound(old, found)
<1>1. old.stage = "probing"
  BY DEF Sound, Kept
<1>2. /\ row \in Call
      /\ row.stage = old.stage /\ row.route = old.route
      /\ row.client = old.client /\ row.at = old.at
      /\ row.db = found
      /\ row.redis = old.redis /\ row.saw = old.saw
  BY DEF Sound, Kept, Call, DbFound
<1> HIDE DEF row
<1>3. d = "up" => "db up" \in old.saw
  BY <1>1, ProbesSee
<1>4. d # "up" => "outage" \in old.saw
  BY <1>1 DEF Sound, Kept, Sights, Finished
<1>5. Kept(row, reps)
  BY <1>1, <1>2, <1>3, <1>4 DEF Sound, Kept, InHand, Finished
<1>6. Sights(row, d, r, reps[row.at].phase)
          = Sights(old, d, r, reps[old.at].phase)
  BY <1>2 DEF Sights
<1> QED  BY <1>1, <1>2, <1>5, <1>6 DEF Sound, Finished, row

RedisFound(old, found) == [old EXCEPT !.redis = found]

LEMMA RedisRow ==
    ASSUME NEW old, NEW reps, NEW d, NEW r, Sound(old, reps, d, r),
           old.redis = "asked", NEW found \in {"ok", "error"},
           found = "ok" => r = "up" /\ reps[old.at].phase = "serving",
           found = "error" => r # "up" \/ reps[old.at].phase = "draining"
    PROVE  /\ Sound(RedisFound(old, found), reps, d, r)
           /\ RedisFound(old, found).stage = "probing"
<1> DEFINE row == RedisFound(old, found)
<1>1. old.stage = "probing"
  BY DEF Sound, Kept
<1>2. /\ row \in Call
      /\ row.stage = old.stage /\ row.route = old.route
      /\ row.client = old.client /\ row.at = old.at
      /\ row.db = old.db
      /\ row.redis = found /\ row.saw = old.saw
  BY DEF Sound, Kept, Call, RedisFound
<1> HIDE DEF row
<1>3. r = "up" /\ reps[old.at].phase = "serving" => "redis up" \in old.saw
  BY <1>1, ProbesSee
<1>4. r # "up" \/ reps[old.at].phase = "draining" => "outage" \in old.saw
  BY <1>1, ProbesSee
<1>5. Kept(row, reps)
  BY <1>1, <1>2, <1>3, <1>4 DEF Sound, Kept, InHand, Finished
<1>6. Sights(row, d, r, reps[row.at].phase)
          = Sights(old, d, r, reps[old.at].phase)
  BY <1>2 DEF Sights
<1> QED  BY <1>1, <1>2, <1>5, <1>6 DEF Sound, Finished, row

\* The first row of a call.
FirstRow(a, client, route, reps, d, r) ==
    Look([Unsent EXCEPT !.stage = stages[1], !.route = route, !.at = a,
                        !.client = IF route.throttle = "none" THEN None
                                   ELSE client],
         reps, d, r)

LEMMA SentRow ==
    ASSUME NEW a \in Replicas, NEW client \in Clients, NEW route \in Routes,
           NEW reps, NEW d, NEW r, reps[a].phase # "down"
    PROVE  Sound(FirstRow(a, client, route, reps, d, r), reps, d, r)
<1> DEFINE whose == IF route.throttle = "none" THEN None ELSE client
           new == [Unsent EXCEPT !.stage = stages[1], !.route = route,
                                 !.at = a, !.client = whose]
<1>1. whose \in Clients \union {None}
  OBVIOUS
<1>2. FirstRow(a, client, route, reps, d, r) = Look(new, reps, d, r)
  BY DEF FirstRow
<1>3. route.throttle # "none" => whose \in Clients
  OBVIOUS
<1>4. stages[1] = "throttle"
  BY Order
<1> HIDE DEF whose
<1>6. /\ new \in Call
      /\ new.stage = "throttle" /\ new.route = route
      /\ new.client = whose /\ new.at = a
      /\ new.db = "idle" /\ new.redis = "idle" /\ ~new.verified
  BY <1>1, <1>4, UnsentRow DEF Call
<1> HIDE DEF new
<1>7. Kept(new, reps)
  BY <1>3, <1>6 DEF Kept, InHand, Finished
<1> QED  BY <1>2, <1>7, LookIsSound

-----------------------------------------------------------------------------
(* The invariant.                                                          *)

ReplicaRow == [phase : {"down", "serving", "draining"}, limit : Nat]

CountersTyped ==
    /\ hits \in [Keys -> Nat]
    /\ blocked \in [Keys -> BOOLEAN]
    /\ ran \in [Pairs -> Nat]
    /\ admitted \in [Pairs -> Nat]

\* A replica that runs was started with a limit that boots.
Configured ==
    /\ replica \in [Replicas -> ReplicaRow]
    /\ \A a \in Replicas : replica[a].phase # "down" =>
          \E raw \in Environments :
             validateEnvironment(raw) /\ replica[a].limit = THROTTLE_LIMIT(raw)

Earned(route, ip, count) ==
    \E limit \in LimitsOf(route) : limit < count

Allowed(route, count) ==
    count > 0 => \E limit \in LimitsOf(route) : count <= limit

\* What was let pass was counted and within a limit of the route, what was
\* counted was counted by a script, and a block mark was earned.
Counters ==
    \A route \in Routes, ip \in Addresses :
        /\ admitted[<<route.name, ip>>] <= hits[<<"redis", route.name, ip>>]
        /\ hits[<<"redis", route.name, ip>>] <= ran[<<route.name, ip>>]
        /\ blocked[<<"redis", route.name, ip>>] =>
              Earned(route, ip, ran[<<route.name, ip>>])
        /\ Allowed(route, admitted[<<route.name, ip>>])

Rows == DOMAIN call = Calls /\ call = [c \in Calls |-> call[c]]

AllSound(reps, d, r) == \A c \in Calls : Sound(call[c], reps, d, r)

ApiIndInv ==
    /\ Configured
    /\ CountersTyped
    /\ Counters
    /\ redis \in {"up", "down", "hung"}
    /\ db \in {"up", "down", "hung"}
    /\ Rows
    /\ AllSound(replica, db, redis)

LEMMA PairsAndKeys ==
    \A route \in Routes, ip \in Addresses :
        /\ <<route.name, ip>> \in Pairs
        /\ <<"redis", route.name, ip>> \in Keys
  BY DEF Pairs, Keys, Names, Stores

LEMMA NoCounts ==
    Init => CountersTyped /\ Counters
<1> SUFFICES ASSUME Init PROVE CountersTyped /\ Counters
  OBVIOUS
<1>1. CountersTyped
  BY DEF Init, CountersTyped
<1>2. ASSUME NEW route \in Routes, NEW ip \in Addresses
      PROVE  /\ admitted[<<route.name, ip>>] = 0
             /\ hits[<<"redis", route.name, ip>>] = 0
             /\ ran[<<route.name, ip>>] = 0
             /\ ~blocked[<<"redis", route.name, ip>>]
  BY PairsAndKeys DEF Init
<1>3. 0 <= 0 /\ \A route : Allowed(route, 0)
  BY DEF Allowed
<1>4. Counters
  BY Zenon, <1>2, <1>3 DEF Counters
<1> QED  BY <1>1, <1>4

LEMMA InitIndInv == Init => ApiIndInv
<1> SUFFICES ASSUME Init PROVE ApiIndInv
  OBVIOUS
<1>1. Configured
  BY DEF Init, Configured, ReplicaRow, Down
<1>2. AllSound(replica, db, redis)
  BY UnsentIsSound DEF Init, AllSound
<1>3. redis = "up" /\ db = "up" /\ Rows
  BY DEF Init, Rows
<1> QED  BY <1>1, <1>2, <1>3, NoCounts DEF ApiIndInv

-----------------------------------------------------------------------------
(* The counters.                                                           *)

\* A hit on the counter of a route and a client: a mark is set only if it was
\* not within the limit, and a call passes only if it was and the reply came.
Hit(route, ip, limit, refused, passes) ==
    LET k == <<"redis", route.name, ip>>
        pair == <<route.name, ip>>
        now == hits[k] + 1
    IN  /\ refused <=> (blocked[k] \/ now > limit)
        /\ hits' = [hits EXCEPT ![k] = now]
        /\ blocked' = [blocked EXCEPT ![k] = refused]
        /\ ran' = [ran EXCEPT ![pair] = @ + 1]
        /\ passes => ~refused
        /\ admitted' = [admitted EXCEPT ![pair] = IF passes THEN @ + 1 ELSE @]

LEMMA HitKeepsCounters ==
    ASSUME CountersTyped, Counters,
           NEW route \in Routes, NEW ip \in Addresses,
           NEW limit \in LimitsOf(route), NEW refused \in BOOLEAN,
           NEW passes \in BOOLEAN, Hit(route, ip, limit, refused, passes)
    PROVE  /\ CountersTyped' /\ Counters'
           /\ refused => Earned(route, ip, ran'[<<route.name, ip>>])
<1> DEFINE k == <<"redis", route.name, ip>>
           pair == <<route.name, ip>>
<1>1. k \in Keys /\ pair \in Pairs
  BY PairsAndKeys
<1>2. limit \in Nat \ {0}
  BY LimitsArePositive
<1>3. /\ hits[k] \in Nat /\ ran[pair] \in Nat /\ admitted[pair] \in Nat
      /\ admitted[pair] <= hits[k] /\ hits[k] <= ran[pair]
      /\ blocked[k] => Earned(route, ip, ran[pair])
      /\ Allowed(route, admitted[pair])
  BY <1>1 DEF CountersTyped, Counters
<1>4. CountersTyped'
  BY <1>1, <1>3 DEF Hit, CountersTyped
<1>5. /\ hits'[k] = hits[k] + 1
      /\ ran'[pair] = ran[pair] + 1
      /\ admitted'[pair] = (IF passes THEN admitted[pair] + 1 ELSE admitted[pair])
  BY <1>1 DEF Hit, CountersTyped
<1>6. blocked'[k] = refused
  BY <1>1 DEF Hit, CountersTyped
<1>7. ASSUME refused PROVE Earned(route, ip, ran'[pair])
  <2>1. CASE blocked[k]
    <3>1. PICK other \in LimitsOf(route) : other < ran[pair]
      BY <1>3, <2>1 DEF Earned
    <3>2. other \in Nat
      BY LimitsArePositive
    <3>3. other < ran'[pair]
      BY <1>3, <1>5, <3>1, <3>2
    <3> QED  BY <3>3 DEF Earned
  <2>2. CASE ~blocked[k]
    <3>1. hits[k] + 1 > limit
      BY <1>7, <2>2 DEF Hit
    <3>2. limit < ran'[pair]
      BY <1>2, <1>3, <1>5, <3>1
    <3> QED  BY <3>2 DEF Earned
  <2> QED  BY <2>1, <2>2
<1>8. Allowed(route, admitted'[pair])
  <2>1. CASE ~passes
    BY <1>3, <1>5, <2>1
  <2>2. CASE passes
    <3>1. hits[k] + 1 <= limit
      BY <1>2, <1>3, <2>2 DEF Hit
    <3>2. admitted'[pair] <= limit
      BY <1>2, <1>3, <1>5, <2>2, <3>1
    <3> QED  BY <3>2 DEF Allowed
  <2> QED  BY <2>1, <2>2
<1>9. ASSUME NEW q \in Routes, NEW jp \in Addresses
      PROVE  /\ admitted'[<<q.name, jp>>] <= hits'[<<"redis", q.name, jp>>]
             /\ hits'[<<"redis", q.name, jp>>] <= ran'[<<q.name, jp>>]
             /\ blocked'[<<"redis", q.name, jp>>] =>
                   Earned(q, jp, ran'[<<q.name, jp>>])
             /\ Allowed(q, admitted'[<<q.name, jp>>])
  <2> DEFINE j == <<"redis", q.name, jp>>
             other == <<q.name, jp>>
  <2>1. j \in Keys /\ other \in Pairs
    BY PairsAndKeys
  <2>2. CASE q.name = route.name /\ jp = ip
    <3>1. j = k /\ other = pair
      BY <2>2
    <3>3. LimitsOf(q) = LimitsOf(route)
      BY <2>2, SameNameSameLimits
    <3>4. admitted'[pair] <= hits'[k] /\ hits'[k] <= ran'[pair]
      BY <1>3, <1>5
    <3>5. blocked'[k] => Earned(q, jp, ran'[pair])
      BY <1>6, <1>7, <3>3, <2>2 DEF Earned
    <3>6. Allowed(q, admitted'[pair])
      BY <1>8, <3>3 DEF Allowed
    <3> QED  BY <3>1, <3>4, <3>5, <3>6
  <2>3. CASE ~(q.name = route.name /\ jp = ip)
    <3>1. j # k /\ other # pair
      BY <2>3
    <3>2. /\ hits'[j] = hits[j] /\ blocked'[j] = blocked[j]
          /\ ran'[other] = ran[other] /\ admitted'[other] = admitted[other]
      BY <1>1, <2>1, <3>1 DEF Hit, CountersTyped
    <3> QED  BY <3>2 DEF Counters
  <2> QED  BY <2>2, <2>3
<1>10. Counters'
  BY <1>9 DEF Counters, Earned, Allowed, LimitsOf
<1> QED  BY <1>4, <1>7, <1>10

LEMMA NowIsTyped ==
    ASSUME NEW history \in [Pairs -> Nat], NEW k \in Keys, NEW value \in Nat
    PROVE  /\ Now(history, k, value) \in [Pairs -> Nat]
           /\ \A q \in Routes, jp \in Addresses :
                Now(history, k, value)[<<q.name, jp>>] =
                    IF k = <<"redis", q.name, jp>> THEN value
                    ELSE history[<<q.name, jp>>]
<1>1. <<k[2], k[3]>> \in Pairs /\ k = <<k[1], k[2], k[3]>>
  BY DEF Keys, Pairs
<1>2. ASSUME NEW q \in Routes, NEW jp \in Addresses
      PROVE  Now(history, k, value)[<<q.name, jp>>] =
                 IF k = <<"redis", q.name, jp>> THEN value
                 ELSE history[<<q.name, jp>>]
  <2>1. <<q.name, jp>> \in Pairs
    BY PairsAndKeys
  <2>2. CASE k = <<"redis", q.name, jp>>
    <3>1. k[1] = "redis" /\ <<k[2], k[3]>> = <<q.name, jp>>
      BY <2>2
    <3> QED  BY <2>1, <2>2, <3>1 DEF Now
  <2>3. CASE k # <<"redis", q.name, jp>>
    <3>1. k[1] = "redis" => <<k[2], k[3]>> # <<q.name, jp>>
      BY <1>1, <2>3
    <3> QED  BY <1>1, <2>1, <2>3, <3>1 DEF Now
  <2> QED  BY <2>2, <2>3
<1> QED  BY <1>1, <1>2 DEF Now

LEMMA WindowKeepsCounters ==
    ASSUME CountersTyped, Counters, NEW k \in Keys,
           hits' = [hits EXCEPT ![k] = 0],
           admitted' = Now(admitted, k, 0),
           ran' = IF blocked[k] THEN ran ELSE Now(ran, k, 0),
           UNCHANGED blocked
    PROVE  CountersTyped' /\ Counters'
<1>1. 0 \in Nat
  OBVIOUS
<1>2. CountersTyped'
  BY <1>1, NowIsTyped DEF CountersTyped
<1>3. ASSUME NEW q \in Routes, NEW jp \in Addresses
      PROVE  /\ admitted'[<<q.name, jp>>] <= hits'[<<"redis", q.name, jp>>]
             /\ hits'[<<"redis", q.name, jp>>] <= ran'[<<q.name, jp>>]
             /\ blocked'[<<"redis", q.name, jp>>] =>
                   Earned(q, jp, ran'[<<q.name, jp>>])
             /\ Allowed(q, admitted'[<<q.name, jp>>])
  <2> DEFINE j == <<"redis", q.name, jp>>
             other == <<q.name, jp>>
  <2>1. j \in Keys /\ other \in Pairs
    BY PairsAndKeys
  <2>2. /\ hits[j] \in Nat /\ ran[other] \in Nat /\ admitted[other] \in Nat
        /\ admitted[other] <= hits[j] /\ hits[j] <= ran[other]
        /\ blocked[j] => Earned(q, jp, ran[other])
        /\ Allowed(q, admitted[other])
    BY <2>1 DEF CountersTyped, Counters
  <2>3. CASE k = j
    <3>1. hits'[j] = 0 /\ admitted'[other] = 0
      BY <1>1, <2>1, <2>3, NowIsTyped DEF CountersTyped
    <3>2. ran'[other] = IF blocked[j] THEN ran[other] ELSE 0
      BY <1>1, <2>3, NowIsTyped DEF CountersTyped
    <3>3. Allowed(q, 0)
      BY DEF Allowed
    <3> QED  BY <2>2, <3>1, <3>2, <3>3
  <2>4. CASE k # j
    <3>1. hits'[j] = hits[j] /\ admitted'[other] = admitted[other]
      BY <1>1, <2>1, <2>4, NowIsTyped DEF CountersTyped
    <3>2. Now(ran, k, 0)[<<q.name, jp>>] =
              IF k = <<"redis", q.name, jp>> THEN 0 ELSE ran[<<q.name, jp>>]
      BY <1>1, NowIsTyped DEF CountersTyped
    <3>3. ran'[other] = ran[other]
      BY <2>4, <3>2
    <3> QED  BY <2>2, <3>1, <3>3
  <2> QED  BY <2>3, <2>4
<1>4. Counters'
  BY <1>3 DEF Counters, Earned, Allowed, LimitsOf
<1> QED  BY <1>2, <1>4

LEMMA BlockKeepsCounters ==
    ASSUME CountersTyped, Counters, NEW k \in Keys,
           blocked' = [blocked EXCEPT ![k] = FALSE],
           ran' = Now(ran, k, hits[k]),
           UNCHANGED <<hits, admitted>>
    PROVE  CountersTyped' /\ Counters'
<1>1. PICK count \in Nat : count = hits[k]
  BY DEF CountersTyped
<1>2. ran' = Now(ran, k, count)
  BY <1>1
<1>3. CountersTyped'
  BY <1>1, <1>2, NowIsTyped DEF CountersTyped
<1>4. ASSUME NEW q \in Routes, NEW jp \in Addresses
      PROVE  /\ admitted'[<<q.name, jp>>] <= hits'[<<"redis", q.name, jp>>]
             /\ hits'[<<"redis", q.name, jp>>] <= ran'[<<q.name, jp>>]
             /\ blocked'[<<"redis", q.name, jp>>] =>
                   Earned(q, jp, ran'[<<q.name, jp>>])
             /\ Allowed(q, admitted'[<<q.name, jp>>])
  <2> DEFINE j == <<"redis", q.name, jp>>
             other == <<q.name, jp>>
  <2>1. j \in Keys
    BY PairsAndKeys
  <2>2. /\ hits[j] \in Nat
        /\ admitted[other] <= hits[j] /\ hits[j] <= ran[other]
        /\ blocked[j] => Earned(q, jp, ran[other])
        /\ Allowed(q, admitted[other])
    BY <2>1 DEF CountersTyped, Counters
  <2>3. CASE k = j
    <3>1. ran'[other] = hits[j]
      BY <1>1, <1>2, <2>3, NowIsTyped DEF CountersTyped
    <3>2. ~blocked'[j]
      BY <2>1, <2>3 DEF CountersTyped
    <3> QED  BY <2>2, <3>1, <3>2
  <2>4. CASE k # j
    <3>1. ran'[other] = ran[other]
      BY <1>1, <1>2, <2>1, <2>4, NowIsTyped DEF CountersTyped
    <3>2. blocked'[j] = blocked[j]
      BY <2>1, <2>4 DEF CountersTyped
    <3> QED  BY <2>2, <3>1, <3>2
  <2> QED  BY <2>3, <2>4
<1>5. Counters'
  BY <1>4 DEF Counters, Earned, Allowed, LimitsOf
<1> QED  BY <1>3, <1>5

LEMMA NoCountKeepsCounters ==
    ASSUME CountersTyped, Counters, UNCHANGED <<hits, blocked, ran, admitted>>
    PROVE  CountersTyped' /\ Counters'
  BY DEF CountersTyped, Counters, Earned, LimitsOf

-----------------------------------------------------------------------------
(* The rows, step by step.                                                 *)

\* One call moves on and the world stands still.
LEMMA OneRow ==
    ASSUME Rows, AllSound(replica, db, redis), NEW c \in Calls, NEW row,
           Sound(row, replica, db, redis),
           call' = [call EXCEPT ![c] = row], UNCHANGED <<replica, redis, db>>
    PROVE  Rows' /\ (AllSound(replica, db, redis))'
<1>1. /\ DOMAIN call' = Calls
      /\ call'[c] = row
      /\ \A other \in Calls \ {c} : call'[other] = call[other]
  BY DEF Rows
<1>2. call' = [other \in Calls |-> call'[other]]
  BY DEF Rows
<1>3. \A other \in Calls : Sound(call'[other], replica, db, redis)
  BY Zenon, <1>1 DEF AllSound
<1> QED  BY <1>1, <1>2, <1>3 DEF Rows, AllSound

\* The world moves on and everybody looks.
LEMMA WitnessIsSound ==
    ASSUME Rows, AllSound(replica, db, redis), NEW rows,
           \A c \in Calls : /\ Kept(rows[c], replica)
                            /\ call[c].stage \in Finished => rows[c] = call[c]
                            /\ rows[c].stage = call[c].stage,
           WitnessFrom(rows),
           \A a \in Replicas : replica[a].phase # "down" => replica'[a].phase # "down"
    PROVE  Rows' /\ (AllSound(replica, db, redis))'
<1>1. ASSUME NEW c \in Calls
      PROVE  Sound(call'[c], replica', db', redis')
  <2>1. Kept(rows[c], replica)
    OBVIOUS
  <2>2. CASE call[c].stage \in Finished
    <3>1. call'[c] = rows[c]
      BY <2>2 DEF WitnessFrom, InFlight
    <3> QED  BY <2>1, <2>2, <3>1 DEF Sound, Kept
  <2>3. CASE call[c].stage \notin Finished
    <3>1. Kept(rows[c], replica')
      BY <2>1, <2>3 DEF Kept, InHand
    <3>2. call'[c] = Look(rows[c], replica', db', redis')
      BY <2>3 DEF WitnessFrom, InFlight, Look
    <3> QED  BY <3>1, <3>2, LookIsSound
  <2> QED  BY <2>2, <2>3
<1>2. DOMAIN call' = Calls /\ call' = [c \in Calls |-> call'[c]]
  BY DEF WitnessFrom
<1> QED  BY <1>1, <1>2 DEF Rows, AllSound

LEMMA AllKept ==
    ASSUME AllSound(replica, db, redis)
    PROVE  \A c \in Calls : Kept(call[c], replica)
  BY DEF AllSound, Sound

\* A replica that was down comes up: no call was there.
LEMMA BootIsSound ==
    ASSUME Rows, AllSound(replica, db, redis), UNCHANGED <<call, redis, db>>,
           \A a \in Replicas : replica[a].phase # "down" => replica'[a] = replica[a]
    PROVE  Rows' /\ (AllSound(replica, db, redis))'
<1>1. ASSUME NEW c \in Calls
      PROVE  Sound(call[c], replica', db, redis)
  <2>1. Sound(call[c], replica, db, redis)
    BY DEF AllSound
  <2>2. CASE call[c].stage \in Finished
    BY <2>1, <2>2 DEF Sound, Kept
  <2>3. CASE call[c].stage \notin Finished
    <3>1. replica'[call[c].at] = replica[call[c].at]
      BY <2>1, <2>3 DEF Sound, Kept, InHand
    <3> QED  BY <2>1, <2>3, <3>1 DEF Sound, Kept, InHand
  <2> QED  BY <2>2, <2>3
<1> QED  BY <1>1 DEF Rows, AllSound

\* A replica goes down without a call, or takes its calls with it.
LEMMA GoneIsSound ==
    ASSUME Rows, AllSound(replica, db, redis), UNCHANGED <<redis, db>>,
           NEW a \in Replicas,
           \A b \in Replicas \ {a} : replica'[b] = replica[b],
           call' = [c \in Calls |->
                      IF c \in InFlightAt(a) THEN [Unsent EXCEPT !.stage = "lost"]
                      ELSE call[c]]
    PROVE  Rows' /\ (AllSound(replica, db, redis))'
<1>1. ASSUME NEW c \in Calls
      PROVE  Sound(call'[c], replica', db, redis)
  <2>1. Sound(call[c], replica, db, redis)
    BY DEF AllSound
  <2>2. CASE c \in InFlightAt(a)
    BY <2>2, LostRow
  <2>3. CASE c \notin InFlightAt(a)
    <3>1. call'[c] = call[c]
      BY <2>3
    <3>2. CASE call[c].stage \in Finished
      BY <2>1, <3>1, <3>2 DEF Sound, Kept
    <3>3. CASE call[c].stage \notin Finished
      <4>1. replica'[call[c].at] = replica[call[c].at]
        BY <2>1, <2>3, <3>3 DEF Sound, Kept, InHand, InFlightAt, InFlight
      <4> QED  BY <2>1, <3>1, <3>3, <4>1 DEF Sound, Kept, InHand
    <3> QED  BY <3>2, <3>3
  <2> QED  BY <2>2, <2>3
<1>2. DOMAIN call' = Calls /\ call' = [c \in Calls |-> call'[c]]
  OBVIOUS
<1> QED  BY <1>1, <1>2 DEF Rows, AllSound

-----------------------------------------------------------------------------
(* What a call may do, and when it is answered.                            *)

JustAnswer(c, status, code) ==
    /\ status = 429 =>
          /\ ~call[c].verified
          /\ Earned(call[c].route, call[c].client,
                    ran'[<<call[c].route.name, call[c].client>>])
    /\ status = 401 => call[c].route.name \in PublicRoutes \/ ~call[c].verified
    /\ status = 500 =>
          \/ "outage" \in call[c].saw
          \/ <<call[c].route.name, code>> \in KnownLeaks
    /\ status = 200 /\ call[c].route.name = "check" =>
          {"db up", "redis up"} \subseteq call[c].saw
    /\ status = 503 => "outage" \in call[c].saw

JustStep(c, row) ==
    /\ Sound(row, replica, db, redis)
    /\ Become(c, row)
    /\ CountersTyped' /\ Counters'
    /\ row.stage = "answered" => JustAnswer(c, row.status, row.code)

\* What the invariant says of a call that is under way.
LEMMA UnderWay ==
    ASSUME ApiIndInv, NEW c \in Calls, InFlight(c)
    PROVE  /\ Sound(call[c], replica, db, redis)
           /\ call[c] \in Call
           /\ call[c].route \in Routes
           /\ call[c].at \in Replicas
           /\ replica[call[c].at].phase # "down"
           /\ call[c].route.throttle # "none" => call[c].client \in Clients
           /\ call[c].stage \in {"throttle", "auth"} => ~call[c].verified
           /\ Sights(call[c], db, redis, replica[call[c].at].phase)
                 \subseteq call[c].saw
  BY DEF ApiIndInv, AllSound, Sound, Kept, InHand, InFlight

\* A call that is not a health check and meets an outage remembers it.
LEMMA OutageSeen ==
    ASSUME ApiIndInv, NEW c \in Calls, InFlight(c),
           call[c].route.name # "check",
           redis # "up" \/ db # "up" \/ replica[call[c].at].phase # "serving"
    PROVE  "outage" \in call[c].saw
<1>1. "outage" \in Sights(call[c], db, redis, replica[call[c].at].phase)
  BY DEF Sights
<1> QED  BY <1>1, UnderWay

LEMMA LimitInForce ==
    ASSUME ApiIndInv, NEW c \in Calls, InFlight(c),
           call[c].route.throttle # "none"
    PROVE  LimitAt(call[c].at, call[c].route) \in LimitsOf(call[c].route)
<1>1. PICK raw \in Environments :
        /\ validateEnvironment(raw)
        /\ replica[call[c].at].limit = THROTTLE_LIMIT(raw)
  BY UnderWay DEF ApiIndInv, Configured
<1> QED  BY <1>1 DEF LimitAt, LimitsOf

\* What the script does for a call, whether its reply arrives or not.
LEMMA ScriptCounts ==
    ASSUME ApiIndInv, NEW c \in Calls, Asks(c), NEW k \in KeysOf(c),
           RunScript(c, k), NEW passes \in BOOLEAN, passes => ~Refused(c, k),
           LET pair == <<call[c].route.name, call[c].client>>
           IN  admitted' = [admitted EXCEPT ![pair] = IF passes THEN @ + 1 ELSE @]
    PROVE  /\ CountersTyped' /\ Counters'
           /\ Refused(c, k) =>
                 Earned(call[c].route, call[c].client,
                        ran'[<<call[c].route.name, call[c].client>>])
<1> DEFINE route == call[c].route
           client == call[c].client
           limit == LimitAt(call[c].at, route)
<1>1. InFlight(c) /\ route.throttle # "none"
  BY DEF Asks, InFlight, Finished
<1>2. route \in Routes /\ client \in Clients
  BY <1>1, UnderWay
<1>3. client \in Addresses
  BY <1>2 DEF Addresses
<1>4. limit \in LimitsOf(route)
  BY <1>1, LimitInForce
<1>5. k = <<"redis", route.name, client>>
  BY ProxyIsTrusted DEF KeysOf, StoreOf
<1>6. PICK mark \in BOOLEAN : mark <=> Refused(c, k)
  OBVIOUS
<1>7. Refused(c, k) <=> (blocked[k] \/ hits[k] + 1 > limit)
  BY DEF Refused
<1>8. k \in Keys
  BY <1>2, <1>3, <1>5, PairsAndKeys
<1>9. blocked' = [blocked EXCEPT ![k] = mark]
  <2>1. Refused(c, k) \in BOOLEAN
    BY <1>7, <1>8 DEF Refused
  <2>2. Refused(c, k) = mark
    BY <1>6, <2>1
  <2> QED  BY <2>2 DEF RunScript
<1>10. Hit(route, client, limit, mark, passes)
  BY <1>5, <1>6, <1>7, <1>9 DEF RunScript, Hit
<1>11. /\ CountersTyped' /\ Counters'
       /\ mark => Earned(route, client, ran'[<<route.name, client>>])
  <2> HIDE DEF route, client, limit
  <2> QED  BY <1>2, <1>3, <1>4, <1>10, HitKeepsCounters DEF ApiIndInv
<1> QED  BY <1>6, <1>11

LEMMA CountedStep ==
    ASSUME ApiIndInv, NEW c \in Calls, Counted(c)
    PROVE  \E row : JustStep(c, row)
<1>1. Asks(c) /\ InFlight(c) /\ call[c].stage = "throttle"
  BY DEF Counted, Asks, InFlight, Finished
<1>2. PICK k \in KeysOf(c) :
        /\ RunScript(c, k)
        /\ \/ Refused(c, k) /\ Become(c, Answered(429)) /\ admitted' = admitted
           \/ /\ ~Refused(c, k) /\ Become(c, Passed(c))
              /\ admitted' = [admitted EXCEPT
                                ![<<call[c].route.name, call[c].client>>] = @ + 1]
  BY DEF Counted
<1>3. CASE Refused(c, k) /\ Become(c, Answered(429)) /\ admitted' = admitted
  <2> DEFINE pair == <<call[c].route.name, call[c].client>>
  <2>1. admitted' = [admitted EXCEPT ![pair] = IF FALSE THEN @ + 1 ELSE @]
    BY <1>3 DEF ApiIndInv, CountersTyped
  <2>2. /\ CountersTyped' /\ Counters'
        /\ Earned(call[c].route, call[c].client, ran'[pair])
    BY <1>1, <1>2, <1>3, <2>1, ScriptCounts
  <2>3. JustAnswer(c, 429, "none")
    BY <1>1, <2>2, UnderWay DEF JustAnswer
  <2>4. 429 \in Statuses /\ "none" \in ErrorCodes
    BY DEF Statuses, ErrorCodes
  <2>5. Become(c, OverRow(429, "none"))
    BY <1>3, <2>4, OverRows
  <2>6. JustStep(c, OverRow(429, "none"))
    BY <2>2, <2>3, <2>4, <2>5, AnsweredIsSound, AnsweredRow DEF JustStep
  <2> QED  BY <2>6
<1>4. CASE /\ ~Refused(c, k) /\ Become(c, Passed(c))
           /\ admitted' = [admitted EXCEPT
                             ![<<call[c].route.name, call[c].client>>] = @ + 1]
  <2> DEFINE pair == <<call[c].route.name, call[c].client>>
  <2>1. admitted' = [admitted EXCEPT ![pair] = IF TRUE THEN @ + 1 ELSE @]
    BY <1>4
  <2>2. CountersTyped' /\ Counters'
    BY <1>1, <1>2, <1>4, <2>1, ScriptCounts
  <2>3. /\ Sound(Passed(c), replica, db, redis)
        /\ Passed(c).stage \in {"auth", "handler"}
    BY <1>1, UnderWay, PassedRow DEF Passed
  <2>4. JustStep(c, Passed(c))
    BY <1>4, <2>2, <2>3 DEF JustStep
  <2> QED  BY <2>4
<1> QED  BY <1>2, <1>3, <1>4

\* A step that answers the call and leaves the counters alone.
LEMMA AnswerStep ==
    ASSUME ApiIndInv, NEW c \in Calls, NEW status \in Statuses,
           NEW code \in ErrorCodes,
           Become(c, OverRow(status, code)),
           UNCHANGED <<hits, blocked, ran, admitted>>,
           JustAnswer(c, status, code)
    PROVE  \E row : JustStep(c, row)
<1>1. CountersTyped' /\ Counters'
  BY NoCountKeepsCounters DEF ApiIndInv
<1>2. JustStep(c, OverRow(status, code))
  BY <1>1, AnsweredIsSound, AnsweredRow DEF JustStep
<1> QED  BY <1>2

\* One that only takes it further.
LEMMA OnwardStep ==
    ASSUME ApiIndInv, NEW c \in Calls, NEW row,
           Sound(row, replica, db, redis), row.stage # "answered",
           Become(c, row), UNCHANGED <<hits, blocked, ran, admitted>>
    PROVE  \E other : JustStep(c, other)
<1>1. CountersTyped' /\ Counters'
  BY NoCountKeepsCounters DEF ApiIndInv
<1>2. JustStep(c, row)
  BY <1>1 DEF JustStep
<1> QED  BY <1>2

LEMMA NotCountedStep ==
    ASSUME ApiIndInv, NEW c \in Calls, NotCounted(c)
    PROVE  \E row : JustStep(c, row)
<1>1. /\ InFlight(c) /\ call[c].route.throttle # "none"
      /\ redis # "up" \/ replica[call[c].at].phase # "serving"
      /\ Become(c, OverRow(500, "other"))
      /\ UNCHANGED <<hits, blocked, ran, admitted>>
  BY DatabaseAnswers, CodesOfErrors, OverRows DEF NotCounted, InFlight, Finished
<1>2. call[c].route.name # "check"
  BY <1>1, UnderWay, RoutesUsed DEF DeclaredAsUsual
<1>3. JustAnswer(c, 500, "other")
  BY <1>1, <1>2, OutageSeen DEF JustAnswer
<1>4. 500 \in Statuses /\ "other" \in ErrorCodes
  BY DEF Statuses, ErrorCodes
<1> QED  BY <1>1, <1>3, <1>4, AnswerStep

LEMMA SkipThrottleStep ==
    ASSUME ApiIndInv, NEW c \in Calls, SkipThrottle(c)
    PROVE  \E row : JustStep(c, row)
<1>1. /\ InFlight(c) /\ call[c].stage = "throttle"
      /\ Become(c, Passed(c)) /\ UNCHANGED <<hits, blocked, ran, admitted>>
  BY DEF SkipThrottle, InFlight, Finished
<1>2. Sound(Passed(c), replica, db, redis) /\ Passed(c).stage # "answered"
  BY <1>1, UnderWay, PassedRow DEF Passed
<1> QED  BY <1>1, <1>2, OnwardStep

LEMMA JwtAuthGuardStep ==
    ASSUME ApiIndInv, NEW c \in Calls, JwtAuthGuard(c)
    PROVE  \E row : JustStep(c, row)
<1>1. /\ InFlight(c) /\ call[c].stage = "auth"
      /\ UNCHANGED <<hits, blocked, ran, admitted>>
      /\ \/ Become(c, Passed(c))
         \/ Become(c, [Passed(c) EXCEPT !.verified = TRUE])
         \/ Become(c, Answered(401))
  BY DEF JwtAuthGuard, InFlight, Finished
<1>2. Sound(Passed(c), replica, db, redis) /\ Passed(c).stage = "handler"
  <2>1. Sound(Passed(c), replica, db, redis)
    BY <1>1, UnderWay, PassedRow DEF Passed
  <2>2. Passed(c).stage = "handler"
    BY <1>1, UnderWay, Order DEF Passed, Call
  <2> QED  BY <2>1, <2>2
<1>3. CASE Become(c, Passed(c))
  BY <1>1, <1>2, <1>3, OnwardStep
<1>4. CASE Become(c, [Passed(c) EXCEPT !.verified = TRUE])
  <2> DEFINE row == [Passed(c) EXCEPT !.verified = TRUE]
  <2>1. Sound(row, replica, db, redis) /\ row.stage # "answered"
    BY <1>2, VerifiedRow
  <2> HIDE DEF row
  <2>2. Become(c, row)
    BY <1>4 DEF row
  <2> QED  BY <1>1, <2>1, <2>2, OnwardStep
<1>5. CASE Become(c, Answered(401))
  <2>1. JustAnswer(c, 401, "none")
    BY <1>1, UnderWay DEF JustAnswer
  <2>2. 401 \in Statuses /\ "none" \in ErrorCodes
    BY DEF Statuses, ErrorCodes
  <2>3. Become(c, OverRow(401, "none"))
    BY <1>5, <2>2, OverRows
  <2> QED  BY <1>1, <2>1, <2>2, <2>3, AnswerStep
<1> QED  BY <1>1, <1>3, <1>4, <1>5

\* What the handlers answer.
LEMMA OutcomeStep ==
    ASSUME ApiIndInv, NEW c \in Calls, InFlight(c),
           call[c].route.name # "check", Outcome(c),
           UNCHANGED <<hits, blocked, ran, admitted>>
    PROVE  \E row : JustStep(c, row)
<1> DEFINE name == call[c].route.name
<1>1. CASE \E status \in call[c].route.success : Become(c, Answered(status))
  <2>1. PICK status \in call[c].route.success : Become(c, Answered(status))
    BY <1>1
  <2>2. status \in {200, 201, 204}
    BY UnderWay, RoutesUsed DEF DeclaredAsUsual
  <2>3. status \in Statuses /\ "none" \in ErrorCodes
    BY <2>2 DEF Statuses, ErrorCodes
  <2>4. status # 429 /\ status # 401 /\ status # 500 /\ status # 503
    BY <2>2
  <2>5. JustAnswer(c, status, "none")
    BY Zenon, <2>4 DEF JustAnswer
  <2>6. Become(c, OverRow(status, "none"))
    BY <2>1, <2>3, OverRows
  <2> QED  BY <2>3, <2>5, <2>6, AnswerStep
<1>2. CASE \E throw \in Throws :
              throw[1] = name /\ Become(c, Failed(name, throw[2]))
  <2>1. PICK throw \in Throws :
              throw[1] = name /\ Become(c, Failed(name, throw[2]))
    BY <1>2
  <2> DEFINE status == AnswerTo(name, throw[2])
             code == throw[2].code
  <2>2. /\ status \in Codes /\ code \in ErrorCodes
        /\ status = 401 => name \in PublicRoutes
        /\ status = 500 => <<name, code>> \in KnownLeaks
    BY <2>1, ThrowsAnswered DEF AnsweredAsUsual
  <2>3. Become(c, OverRow(status, code))
    BY <2>1, OverRows
  <2> HIDE DEF status, code
  <2>4. status # 429 /\ status # 200 /\ status # 503 /\ status \in Statuses
    BY <2>2 DEF Statuses, Codes
  <2>5. JustAnswer(c, status, code)
    BY Zenon, <2>2, <2>4 DEF JustAnswer
  <2> QED  BY <2>2, <2>3, <2>4, <2>5, AnswerStep
<1>3. CASE db = "down" /\ Become(c, Failed(name, Database("other")))
  <2>1. Become(c, OverRow(500, "other"))
    BY <1>3, OverRows, DatabaseAnswers, CodesOfErrors
  <2>2. "outage" \in call[c].saw
    BY <1>3, OutageSeen
  <2>3. /\ 500 \in Statuses /\ "other" \in ErrorCodes
        /\ JustAnswer(c, 500, "other")
    BY <2>2 DEF Statuses, ErrorCodes, JustAnswer
  <2> QED  BY <2>1, <2>3, AnswerStep
<1> QED  BY <1>1, <1>2, <1>3 DEF Outcome

\* An upload begins or has come through.
LEMMA UploadStep ==
    ASSUME ApiIndInv, NEW c \in Calls, InFlight(c),
           call[c].stage \in {"handler", "uploading"},
           call[c].route.name = "createFromScreenshot",
           NEW stage \in {"uploading", "uploaded"},
           Become(c, [call[c] EXCEPT !.stage = stage]),
           UNCHANGED <<hits, blocked, ran, admitted>>
    PROVE  \E row : JustStep(c, row)
<1> DEFINE row == [call[c] EXCEPT !.stage = stage]
<1>1. Sound(row, replica, db, redis) /\ row.stage # "answered"
  BY UnderWay, UploadRow
<1> HIDE DEF row
<1>2. Become(c, row)
  BY DEF row
<1> QED  BY <1>1, <1>2, OnwardStep

LEMMA HandlerStep ==
    ASSUME ApiIndInv, NEW c \in Calls, Handler(c)
    PROVE  \E row : JustStep(c, row)
<1> DEFINE name == call[c].route.name
<1>1. /\ InFlight(c) /\ name # "check" /\ call[c].stage = "handler"
      /\ UNCHANGED <<hits, blocked, ran, admitted>>
  BY DEF Handler, InFlight, Finished
<1>2. CASE \E error \in Rejections(name) : Become(c, Failed(name, error))
  <2>1. Become(c, OverRow(400, "none"))
    BY <1>2, OverRows, RejectionsAnswered
  <2>2. /\ 400 \in Statuses /\ "none" \in ErrorCodes
        /\ JustAnswer(c, 400, "none")
    BY DEF Statuses, ErrorCodes, JustAnswer
  <2> QED  BY <1>1, <2>1, <2>2, AnswerStep
<1>3. CASE Outcome(c)
  BY <1>1, <1>3, OutcomeStep
<1>4. CASE name = "createFromScreenshot"
           /\ Become(c, [call[c] EXCEPT !.stage = "uploading"])
  BY <1>1, <1>4, UploadStep
<1> QED  BY <1>2, <1>3, <1>4 DEF Handler

LEMMA ExtractedStep ==
    ASSUME ApiIndInv, NEW c \in Calls, Extracted(c)
    PROVE  \E row : JustStep(c, row)
<1>1. /\ InFlight(c) /\ call[c].stage = "uploaded"
      /\ Outcome(c) \/ Become(c, Answered(200))
      /\ UNCHANGED <<hits, blocked, ran, admitted>>
  BY DEF Extracted, InFlight, Finished
<1>2. call[c].route.name # "check"
  BY <1>1, UnderWay DEF Sound, Kept
<1>3. CASE Outcome(c)
  BY <1>1, <1>2, <1>3, OutcomeStep
<1>4. CASE Become(c, Answered(200))
  <2>1. 200 \in Statuses /\ "none" \in ErrorCodes
    BY DEF Statuses, ErrorCodes
  <2>2. 200 # 429 /\ 200 # 401 /\ 200 # 500 /\ 200 # 503
    OBVIOUS
  <2>3. JustAnswer(c, 200, "none")
    BY Zenon, <1>2, <2>2 DEF JustAnswer
  <2>4. Become(c, OverRow(200, "none"))
    BY <1>4, <2>1, OverRows
  <2> QED  BY <1>1, <2>1, <2>3, <2>4, AnswerStep
<1> QED  BY <1>1, <1>3, <1>4

LEMMA StorageStep ==
    ASSUME ApiIndInv, NEW c \in Calls, StorageAnswers(c)
    PROVE  \E row : JustStep(c, row)
<1>1. /\ InFlight(c) /\ call[c].stage = "uploading"
      /\ UNCHANGED <<hits, blocked, ran, admitted>>
  BY DEF StorageAnswers, InFlight, Finished
<1>2. call[c].route.name = "createFromScreenshot"
  BY <1>1, UnderWay DEF Sound, Kept
<1>3. CASE Become(c, [call[c] EXCEPT !.stage = "uploaded"])
  BY <1>1, <1>2, <1>3, UploadStep
<1>4. CASE Become(c, Failed(call[c].route.name, StorageError))
  <2>1. Become(c, OverRow(500, "other"))
    BY <1>4, OverRows, DatabaseAnswers, CodesOfErrors DEF StorageError
  <2>2. <<call[c].route.name, "other">> \in KnownLeaks
    BY <1>2 DEF KnownLeaks
  <2>3. /\ 500 \in Statuses /\ "other" \in ErrorCodes
        /\ JustAnswer(c, 500, "other")
    BY <2>2 DEF Statuses, ErrorCodes, JustAnswer
  <2> QED  BY <1>1, <2>1, <2>3, AnswerStep
<1> QED  BY <1>3, <1>4 DEF StorageAnswers

LEMMA CheckStep ==
    ASSUME ApiIndInv, NEW c \in Calls, Check(c)
    PROVE  \E row : JustStep(c, row)
<1> DEFINE row == Look(Asking(call[c]), replica, db, redis)
<1>1. /\ InFlight(c) /\ call[c].stage = "handler"
      /\ call[c].route.name = "check"
      /\ Become(c, row) /\ UNCHANGED <<hits, blocked, ran, admitted>>
  BY DEF Check, InFlight, Finished, Looking, Look, Asking
<1>2. Sound(call[c], replica, db, redis)
  BY <1>1, UnderWay
<1>3. Sound(row, replica, db, redis) /\ row.stage = "probing"
  BY <1>1, <1>2, ProbingRow
<1> HIDE DEF row
<1> QED  BY <1>1, <1>3, OnwardStep

\* Only a call that is probing has asked anything.
LEMMA OnlyProbesAsk ==
    ASSUME ApiIndInv, NEW c \in Calls,
           call[c].db # "idle" \/ call[c].redis # "idle"
    PROVE  InFlight(c) /\ call[c].stage = "probing"
  BY DEF ApiIndInv, AllSound, Sound, Kept, InFlight, Finished

LEMMA DbProbeStep ==
    ASSUME ApiIndInv, NEW c \in Calls, DbProbe(c)
    PROVE  \E row : JustStep(c, row)
<1> DEFINE found == IF db = "up" THEN "ok" ELSE "error"
           row == DbFound(call[c], found)
<1>1. /\ call[c].db = "asked"
      /\ Become(c, row) /\ UNCHANGED <<hits, blocked, ran, admitted>>
  BY DEF DbProbe, DbFound
<1>2. Sound(call[c], replica, db, redis)
  BY <1>1, OnlyProbesAsk, UnderWay
<1>3. found \in {"ok", "error"} /\ (found = "ok" <=> db = "up")
  OBVIOUS
<1> HIDE DEF found
<1>4. Sound(row, replica, db, redis) /\ row.stage = "probing"
  BY <1>1, <1>2, <1>3, DbRow
<1> HIDE DEF row
<1> QED  BY <1>1, <1>4, OnwardStep

LEMMA RedisProbeStep ==
    ASSUME ApiIndInv, NEW c \in Calls, RedisProbe(c)
    PROVE  \E row : JustStep(c, row)
<1>1. call[c].redis = "asked" /\ UNCHANGED <<hits, blocked, ran, admitted>>
  BY DEF RedisProbe
<1>2. PICK found \in {"ok", "error"} :
        /\ Become(c, [call[c] EXCEPT !.redis = found])
        /\ found = "ok" => Pong(c)
        /\ found = "error" => TimesOut(c) \/ Closed(c)
  BY DEF RedisProbe
<1>3. Sound(call[c], replica, db, redis)
  BY <1>1, OnlyProbesAsk, UnderWay
<1>4. /\ found = "ok" => redis = "up" /\ replica[call[c].at].phase = "serving"
      /\ found = "error" =>
            redis # "up" \/ replica[call[c].at].phase = "draining"
  BY <1>2 DEF Pong, TimesOut, Closed
<1> DEFINE row == RedisFound(call[c], found)
           asked == call[c]
<1>5. Sound(row, replica, db, redis) /\ row.stage = "probing"
  <2>1. Sound(asked, replica, db, redis) /\ asked.redis = "asked"
    BY <1>1, <1>3
  <2>2. /\ found = "ok" => redis = "up" /\ replica[asked.at].phase = "serving"
        /\ found = "error" =>
              redis # "up" \/ replica[asked.at].phase = "draining"
    BY <1>4
  <2>3. row = RedisFound(asked, found)
    OBVIOUS
  <2> HIDE DEF asked, row
  <2> QED  BY <2>1, <2>2, <2>3, RedisRow
<1>6. Become(c, row)
  BY <1>2 DEF RedisFound
<1> HIDE DEF row
<1> QED  BY <1>1, <1>5, <1>6, OnwardStep

LEMMA ReportStep ==
    ASSUME ApiIndInv, NEW c \in Calls, Report(c)
    PROVE  \E row : JustStep(c, row)
<1> DEFINE status == healthStatus(call[c].db, call[c].redis)
<1>1. /\ InFlight(c) /\ call[c].stage = "probing"
      /\ call[c].db \in {"ok", "error"} /\ call[c].redis \in {"ok", "error"}
      /\ Become(c, Answered(status))
      /\ UNCHANGED <<hits, blocked, ran, admitted>>
  BY DEF Report, InFlight, Finished
<1>2. /\ call[c].db = "ok" => "db up" \in call[c].saw
      /\ call[c].redis = "ok" => "redis up" \in call[c].saw
      /\ call[c].db = "error" \/ call[c].redis = "error" =>
            "outage" \in call[c].saw
  BY <1>1, UnderWay DEF Sound, Kept
<1>3. /\ status \in {200, 503}
      /\ status = 200 => call[c].db = "ok" /\ call[c].redis = "ok"
      /\ status = 503 => call[c].db # "ok" \/ call[c].redis # "ok"
  BY DEF healthStatus
<1> HIDE DEF status
<1>4. status \in Statuses /\ "none" \in ErrorCodes
  BY <1>3 DEF Statuses, ErrorCodes
<1>5. status # 429 /\ status # 401 /\ status # 500
  BY <1>3
<1>6. ASSUME status = 200
      PROVE  {"db up", "redis up"} \subseteq call[c].saw
  <2>1. "db up" \in call[c].saw /\ "redis up" \in call[c].saw
    BY <1>2, <1>3, <1>6
  <2> QED  BY ONLY <2>1
<1>7. status = 503 => "outage" \in call[c].saw
  BY <1>1, <1>2, <1>3
<1>8. JustAnswer(c, status, "none")
  BY Zenon, <1>5, <1>6, <1>7 DEF JustAnswer
<1>9. Become(c, OverRow(status, "none"))
  BY <1>1, <1>4, OverRows
<1> QED  BY <1>1, <1>4, <1>8, <1>9, AnswerStep

LEMMA ServeStep ==
    ASSUME ApiIndInv, NEW c \in Calls, Serve(c)
    PROVE  \E row : JustStep(c, row)
  BY CountedStep, NotCountedStep, SkipThrottleStep, JwtAuthGuardStep,
     HandlerStep, ExtractedStep, CheckStep, DbProbeStep, RedisProbeStep,
     ReportStep
     DEF Serve

-----------------------------------------------------------------------------
(* Every step.                                                             *)

LEMMA BootKeeps ==
    ASSUME ApiIndInv, NEW a \in Replicas, Boot(a)
    PROVE  ApiIndInv'
<1>1. PICK raw \in Environments :
        /\ validateEnvironment(raw)
        /\ replica' = [replica EXCEPT ![a] =
                          [phase |-> "serving", limit |-> THROTTLE_LIMIT(raw)]]
  BY DEF Boot
<1> DEFINE started == [phase |-> "serving", limit |-> THROTTLE_LIMIT(raw)]
<1>2. started \in ReplicaRow /\ started.limit = THROTTLE_LIMIT(raw)
  BY <1>1, ValidLimits DEF ReplicaRow
<1> HIDE DEF started
<1>3. replica' = [replica EXCEPT ![a] = started]
  BY <1>1 DEF started
<1>4. Configured'
  BY <1>1, <1>2, <1>3 DEF ApiIndInv, Configured
<1>5. \A b \in Replicas : replica[b].phase # "down" => replica'[b] = replica[b]
  BY <1>3 DEF Boot, ApiIndInv, Configured
<1>6. Rows' /\ (AllSound(replica, db, redis))'
  BY <1>5, BootIsSound DEF ApiIndInv, Boot
<1>7. CountersTyped' /\ Counters'
  BY NoCountKeepsCounters DEF ApiIndInv, Boot
<1> QED  BY <1>4, <1>6, <1>7 DEF ApiIndInv, Boot

LEMMA DrainKeeps ==
    ASSUME ApiIndInv, NEW a \in Replicas, Drain(a)
    PROVE  ApiIndInv'
<1>1. /\ replica[a] \in ReplicaRow /\ replica[a].phase = "serving"
      /\ replica' = [replica EXCEPT ![a] = [replica[a] EXCEPT !.phase = "draining"]]
  BY DEF Drain, ApiIndInv, Configured
<1> DEFINE row == [replica[a] EXCEPT !.phase = "draining"]
<1>2. row \in ReplicaRow /\ row.limit = replica[a].limit /\ row.phase = "draining"
  BY <1>1 DEF ReplicaRow
<1> HIDE DEF row
<1>3. replica' = [replica EXCEPT ![a] = row]
  BY <1>1 DEF row
<1>4. Configured'
  BY <1>1, <1>2, <1>3 DEF ApiIndInv, Configured
<1>5. \A b \in Replicas : replica[b].phase # "down" => replica'[b].phase # "down"
  BY <1>2, <1>3 DEF ApiIndInv, Configured
<1>6. Rows' /\ (AllSound(replica, db, redis))'
  BY <1>5, WitnessIsSound, AllKept DEF ApiIndInv, Drain, Witness
<1>7. CountersTyped' /\ Counters'
  BY NoCountKeepsCounters DEF ApiIndInv, Drain
<1> QED  BY <1>4, <1>6, <1>7 DEF ApiIndInv, Drain

LEMMA WeatherKeeps ==
    ASSUME ApiIndInv, Weather
    PROVE  ApiIndInv'
<1>1. Rows' /\ (AllSound(replica, db, redis))'
  BY WitnessIsSound, AllKept DEF ApiIndInv, Weather, Witness
<1>2. CountersTyped' /\ Counters'
  BY NoCountKeepsCounters DEF ApiIndInv, Weather
<1>3. Configured'
  BY DEF ApiIndInv, Configured, Weather
<1>4. redis' \in {"up", "down", "hung"} /\ db' \in {"up", "down", "hung"}
  BY DEF ApiIndInv, Weather
<1> QED  BY <1>1, <1>2, <1>3, <1>4 DEF ApiIndInv

\* Stop and Crash.
LEMMA GoneKeeps ==
    ASSUME ApiIndInv, NEW a \in Replicas, Stop(a) \/ Crash(a)
    PROVE  ApiIndInv'
<1>1. replica' = [replica EXCEPT ![a] = Down]
  BY DEF Stop, Crash
<1>2. call' = [c \in Calls |->
                 IF c \in InFlightAt(a) THEN [Unsent EXCEPT !.stage = "lost"]
                 ELSE call[c]]
  <2>1. CASE Crash(a)
    BY <2>1 DEF Crash
  <2>2. CASE Stop(a)
    BY <2>2 DEF Stop, ApiIndInv, Rows
  <2> QED  BY <2>1, <2>2
<1>3. Configured'
  BY <1>1 DEF ApiIndInv, Configured, ReplicaRow, Down
<1>4. \A b \in Replicas \ {a} : replica'[b] = replica[b]
  BY <1>1 DEF ApiIndInv, Configured
<1>5. UNCHANGED <<redis, db, hits, blocked, ran, admitted>>
  BY DEF Stop, Crash
<1>6. Rows' /\ (AllSound(replica, db, redis))'
  BY <1>2, <1>4, <1>5, GoneIsSound DEF ApiIndInv
<1>7. CountersTyped' /\ Counters'
  BY <1>5, NoCountKeepsCounters DEF ApiIndInv
<1> QED  BY <1>3, <1>5, <1>6, <1>7 DEF ApiIndInv

LEMMA TimeKeeps ==
    ASSUME ApiIndInv, NEW k \in Keys, WindowEnds(k) \/ BlockEnds(k)
    PROVE  ApiIndInv'
<1>1. CountersTyped' /\ Counters'
  <2>1. CASE WindowEnds(k)
    BY <2>1, WindowKeepsCounters DEF WindowEnds, ApiIndInv
  <2>2. CASE BlockEnds(k)
    BY <2>2, BlockKeepsCounters DEF BlockEnds, ApiIndInv
  <2> QED  BY <2>1, <2>2
<1>2. UNCHANGED <<replica, redis, db, call>>
  BY DEF WindowEnds, BlockEnds
<1>3. Configured' /\ Rows' /\ (AllSound(replica, db, redis))'
  BY <1>2 DEF ApiIndInv, Configured, Rows, AllSound
<1> QED  BY <1>1, <1>2, <1>3 DEF ApiIndInv

LEMMA SendKeeps ==
    ASSUME ApiIndInv, NEW c \in Calls, Send(c)
    PROVE  ApiIndInv'
<1>1. PICK row : Sound(row, replica, db, redis) /\ call' = [call EXCEPT ![c] = row]
  <2>1. PICK a \in Replicas, client \in Clients, route \in Routes :
        /\ replica[a].phase # "down"
        /\ \/ call' = [call EXCEPT ![c] = FirstRow(a, client, route, replica, db, redis)]
           \/ \E error \in BodyErrors :
                call' = [call EXCEPT ![c] = Failed(route.name, error)]
    BY DEF Send, Looking, Look, FirstRow
  <2>2. ASSUME NEW error \in BodyErrors
        PROVE  Sound(Failed(route.name, error), replica, db, redis)
    <3>1. AnswerTo(route.name, error) \in Statuses /\ error.code \in ErrorCodes
      BY BodyErrorsAnswered DEF Codes, Statuses
    <3> QED  BY <3>1, AnsweredIsSound, OverRows
  <2> QED  BY <2>1, <2>2, SentRow
<1>2. UNCHANGED <<replica, redis, db, hits, blocked, ran, admitted>>
  BY DEF Send
<1>3. Rows' /\ (AllSound(replica, db, redis))'
  BY <1>1, <1>2, OneRow DEF ApiIndInv
<1>4. CountersTyped' /\ Counters' /\ Configured'
  BY <1>2, NoCountKeepsCounters DEF ApiIndInv, Configured
<1> QED  BY <1>2, <1>3, <1>4 DEF ApiIndInv

\* The rows from which the calls look when a reply is lost.
Repeated(c) == [call EXCEPT ![c].repeats = @ + 1]

LEMMA RepeatedRows ==
    ASSUME ApiIndInv, NEW c \in Calls, call[c].repeats < Resends
    PROVE  /\ Repeated(c)[c] = RepeatedRow(call[c])
           /\ \A d \in Calls \ {c} : Repeated(c)[d] = call[d]
  BY DEF Repeated, RepeatedRow, ApiIndInv, Rows

LEMMA ReplyLostKeeps ==
    ASSUME ApiIndInv, NEW c \in Calls, ReplyLost(c)
    PROVE  ApiIndInv'
<1>1. PICK k \in KeysOf(c) : RunScript(c, k)
  BY DEF ReplyLost
<1>2. /\ Asks(c) /\ InFlight(c) /\ call[c].repeats < Resends
      /\ redis' = "down" /\ UNCHANGED <<replica, db, admitted>>
      /\ WitnessFrom(Repeated(c))
  BY DEF ReplyLost, Asks, InFlight, Finished, Repeated
<1>3. CountersTyped' /\ Counters'
  <2> DEFINE pair == <<call[c].route.name, call[c].client>>
  <2>1. admitted' = [admitted EXCEPT ![pair] = IF FALSE THEN @ + 1 ELSE @]
    BY <1>2 DEF ApiIndInv, CountersTyped
  <2> QED  BY <1>1, <1>2, <2>1, ScriptCounts
<1>4. \A d \in Calls : /\ Kept(Repeated(c)[d], replica)
                       /\ call[d].stage \in Finished => Repeated(c)[d] = call[d]
                       /\ Repeated(c)[d].stage = call[d].stage
  <2>1. Kept(RepeatedRow(call[c]), replica)
        /\ RepeatedRow(call[c]).stage = call[c].stage
    BY <1>2, AllKept, RepeatsRow DEF ApiIndInv
  <2>2. \A d \in Calls : Kept(call[d], replica)
    BY AllKept DEF ApiIndInv
  <2>3. call[c].stage \notin Finished
    BY <1>2 DEF InFlight
  <2> QED  BY <1>2, <2>1, <2>2, <2>3, RepeatedRows
<1>5. Rows' /\ (AllSound(replica, db, redis))'
  BY <1>2, <1>4, WitnessIsSound DEF ApiIndInv
<1>6. Configured'
  BY <1>2 DEF ApiIndInv, Configured
<1> QED  BY <1>2, <1>3, <1>5, <1>6 DEF ApiIndInv

LEMMA ServeKeeps ==
    ASSUME ApiIndInv, NEW c \in Calls, NEW row, JustStep(c, row)
    PROVE  ApiIndInv'
<1>1. UNCHANGED <<replica, redis, db>> /\ call' = [call EXCEPT ![c] = row]
  BY DEF JustStep, Become
<1>2. Rows' /\ (AllSound(replica, db, redis))'
  BY <1>1, OneRow DEF ApiIndInv, JustStep
<1>3. CountersTyped' /\ Counters' /\ Configured'
  BY <1>1 DEF ApiIndInv, Configured, JustStep
<1> QED  BY <1>1, <1>2, <1>3 DEF ApiIndInv

LEMMA NextKeeps == ApiIndInv /\ [Next]_vars => ApiIndInv'
<1> SUFFICES ASSUME ApiIndInv, [Next]_vars PROVE ApiIndInv'
  OBVIOUS
<1>1. CASE UNCHANGED vars
  BY <1>1, NoCountKeepsCounters
     DEF vars, ApiIndInv, Configured, Rows, AllSound
<1>2. CASE Weather
  BY <1>2, WeatherKeeps
<1>3. CASE \E a \in Replicas : Boot(a) \/ Drain(a) \/ Stop(a) \/ Crash(a)
  BY <1>3, BootKeeps, DrainKeeps, GoneKeeps
<1>4. CASE \E k \in Keys : WindowEnds(k) \/ BlockEnds(k)
  BY <1>4, TimeKeeps
<1>5. CASE \E c \in Calls : Send(c)
  BY <1>5, SendKeeps
<1>6. CASE \E c \in Calls : Serve(c) \/ StorageAnswers(c)
  BY <1>6, ServeStep, StorageStep, ServeKeeps
<1>7. CASE \E c \in Calls : ReplyLost(c)
  BY <1>7, ReplyLostKeeps
<1> QED  BY <1>1, <1>2, <1>3, <1>4, <1>5, <1>6, <1>7 DEF Next

-----------------------------------------------------------------------------
(* Nobody is answered but by a step of his own.                            *)

\* Looking takes a call nowhere, and a lost reply leaves it where it was.
LEMMA LookersStay ==
    ASSUME ApiIndInv, NEW c \in Calls, InFlight(c), NEW rows,
           rows[c] = call[c] \/ (rows[c] = RepeatedRow(call[c])
                                   /\ call[c].repeats < Resends),
           WitnessFrom(rows)
    PROVE  /\ call'[c].stage = call[c].stage /\ call'[c].route = call[c].route
           /\ call'[c].db = call[c].db /\ call'[c].redis = call[c].redis
<1>1. call'[c] = Look(rows[c], replica', db', redis')
  BY DEF WitnessFrom, InFlight, Look
<1>2. call[c] \in Call
  BY UnderWay
<1>3. /\ rows[c] \in Call
      /\ rows[c].stage = call[c].stage /\ rows[c].route = call[c].route
      /\ rows[c].db = call[c].db /\ rows[c].redis = call[c].redis
  <2>1. Kept(call[c], replica)
    BY UnderWay DEF Sound
  <2> QED  BY <1>2, <2>1, RepeatsRow DEF Kept
<1> QED  BY <1>1, <1>3, LookRow

LEMMA AnswersAreJust ==
    ASSUME ApiIndInv, Next, NEW c \in Calls, NEW status, Answers(c, status)
    PROVE  JustAnswer(c, status, call'[c].code)
<1>1. call[c].stage \notin Finished /\ call'[c].stage = "answered"
      /\ call'[c].status = status
  BY DEF Answers, InFlight
<1>2. call'[c] # call[c]
  BY <1>1 DEF Finished
<1>3. DOMAIN call = Calls /\ Rows
  BY DEF ApiIndInv, Rows
<1>4. /\ ~Weather /\ \A a \in Replicas : ~Drain(a)
      /\ \A d \in Calls : ~ReplyLost(d)
  <2>1. ASSUME Witness PROVE FALSE
    <3>1. call'[c].stage = call[c].stage
      BY <1>1, <2>1, LookersStay DEF Witness, InFlight
    <3> QED  BY <1>1, <3>1 DEF Finished
  <2>2. ASSUME NEW d \in Calls, ReplyLost(d) PROVE FALSE
    <3>1. WitnessFrom(Repeated(d)) /\ call[d].repeats < Resends
      BY <2>2 DEF ReplyLost, Repeated
    <3>2. call'[c].stage = call[c].stage
      BY <1>1, <3>1, LookersStay, RepeatedRows DEF InFlight
    <3> QED  BY <1>1, <3>2 DEF Finished
  <2> QED  BY <2>1, <2>2 DEF Weather, Drain
<1>5. \A a \in Replicas : ~Boot(a) /\ ~Stop(a) /\ ~Crash(a)
  <2>1. ASSUME NEW a \in Replicas, Crash(a) PROVE FALSE
    <3>1. call'[c] \in {[Unsent EXCEPT !.stage = "lost"], call[c]}
      BY <2>1 DEF Crash
    <3> QED  BY <1>1, <1>2, <3>1, LostRow
  <2> QED  BY <1>2, <2>1 DEF Boot, Stop
<1>6. \A k \in Keys : ~WindowEnds(k) /\ ~BlockEnds(k)
  BY <1>2 DEF WindowEnds, BlockEnds
<1>7. \A d \in Calls : ~Send(d)
  <2>1. ASSUME NEW d \in Calls, Send(d) PROVE FALSE
    <3>1. d # c
      BY <1>1, <2>1 DEF Send, Finished
    <3>2. PICK row : call' = [call EXCEPT ![d] = row]
      BY <2>1 DEF Send
    <3>3. call'[c] = call[c]
      BY <1>3, <3>1, <3>2
    <3> QED  BY <1>2, <3>3
  <2> QED  BY <2>1
<1>8. PICK d \in Calls : Serve(d) \/ StorageAnswers(d)
  BY <1>4, <1>5, <1>6, <1>7 DEF Next
<1>9. PICK row : JustStep(d, row)
  BY <1>8, ServeStep, StorageStep
<1>10. d = c
  BY <1>2, <1>3, <1>9 DEF JustStep, Become
<1>11. call'[c] = row
  BY <1>3, <1>9, <1>10 DEF JustStep, Become
<1> QED  BY <1>1, <1>9, <1>10, <1>11 DEF JustStep

-----------------------------------------------------------------------------
(* The theorems.                                                           *)

(* The invariant behind all of them.                                       *)
THEOREM ApiIndInvHolds == Spec => []ApiIndInv
  BY InitIndInv, NextKeeps, PTL DEF Spec

(* Replicas, counters and calls keep their shape, whatever the routes.     *)
THEOREM ApiTypeCorrect == Spec => []ApiTypeOK
<1>1. ApiIndInv => ApiTypeOK
  <2> SUFFICES ASSUME ApiIndInv PROVE ApiTypeOK
    OBVIOUS
  <2>1. \A c \in Calls : call[c] \in Call
    BY DEF ApiIndInv, AllSound, Sound, Kept
  <2>2. call \in [Calls -> Call]
    BY <2>1 DEF ApiIndInv, Rows
  <2> QED  BY <2>2 DEF ApiIndInv, ApiTypeOK, Configured, ReplicaRow, CountersTyped
<1> QED  BY <1>1, ApiIndInvHolds, PTL

(* A rate limit holds across replicas, crashes, restarts and deployments   *)
(* with different limits, on every throttled route (app.module.ts 29-41).  *)
THEOREM BudgetsDoHold == Spec => []BudgetsHold
<1>1. ApiIndInv => BudgetsHold
  BY DEF ApiIndInv, Counters, Allowed, BudgetsHold, Addresses
<1> QED  BY <1>1, ApiIndInvHolds, PTL

(* Every refusal was earned by the client it meets, in the window it meets *)
(* it in or in the one whose block still lasts, where a script that is run *)
(* again for a lost reply earns like any other (app.setup.ts: one trusted  *)
(* proxy hop; env.validation.ts: no limit below one; redis.module.ts: the  *)
(* client resends what was not answered).                                  *)
THEOREM RefusalsAreEarned == Spec => RefusedOnlyForOwnFlood
<1> DEFINE A == \A c \in Calls : Answers(c, 429) =>
                    OverLimit(call[c].route, call[c].client)
<1>1. ApiIndInv /\ [Next]_vars => [A]_vars
  <2> SUFFICES ASSUME ApiIndInv, Next, NEW c \in Calls, Answers(c, 429)
               PROVE  OverLimit(call[c].route, call[c].client)
    OBVIOUS
  <2>1. Earned(call[c].route, call[c].client,
               ran'[<<call[c].route.name, call[c].client>>])
    BY AnswersAreJust DEF JustAnswer
  <2>2. PICK limit \in LimitsOf(call[c].route) :
          limit < ran'[<<call[c].route.name, call[c].client>>]
    BY <2>1 DEF Earned
  <2>3. 1 <= limit
    BY LimitsArePositive
  <2> QED  BY <2>2, <2>3 DEF OverLimit
<1> HIDE DEF A
<1>2. Spec => [][A]_vars
  BY <1>1, ApiIndInvHolds, PTL DEF Spec
<1> QED  BY <1>2 DEF A, RefusedOnlyForOwnFlood

(* What the limiter refuses has cost no signature verification             *)
(* (app.module.ts 52-57: the order of the guards).                         *)
THEOREM FloodsCostNothing == Spec => FloodsAreCutOff
<1> DEFINE A == \A c \in Calls : Answers(c, 429) => ~call[c].verified
<1>1. ApiIndInv /\ [Next]_vars => [A]_vars
  BY AnswersAreJust DEF JustAnswer
<1> HIDE DEF A
<1>2. Spec => [][A]_vars
  BY <1>1, ApiIndInvHolds, PTL DEF Spec
<1> QED  BY <1>2 DEF A, FloodsAreCutOff

(* On every route that needs a token, 401 means the token and nothing else *)
(* (users.exceptions.ts, jwt-auth.guard.ts).                               *)
THEOREM UnauthorizedIsTheToken == Spec => UnauthorizedMeansToken
<1> DEFINE A == \A c \in Calls :
                    Answers(c, 401) /\ call[c].route.name \notin PublicRoutes =>
                        ~call[c].verified
<1>1. ApiIndInv /\ [Next]_vars => [A]_vars
  BY AnswersAreJust DEF JustAnswer
<1> HIDE DEF A
<1>2. Spec => [][A]_vars
  BY <1>1, ApiIndInvHolds, PTL DEF Spec
<1> QED  BY <1>2 DEF A, UnauthorizedMeansToken

(* On each of the nineteen routes a 500 is an outage, or one of the errors  *)
(* that are known to escape from that very route (all-exceptions.filter.ts *)
(* and the exceptions of the services).                                    *)
THEOREM OnlyOutagesFail == Spec => ServerErrorsAreOutages
<1> DEFINE A == \A c \in Calls :
                    Answers(c, 500) =>
                        \/ "outage" \in call[c].saw
                        \/ <<call[c].route.name, call'[c].code>> \in KnownLeaks
<1>1. ApiIndInv /\ [Next]_vars => [A]_vars
  BY AnswersAreJust DEF JustAnswer
<1> HIDE DEF A
<1>2. Spec => [][A]_vars
  BY <1>1, ApiIndInvHolds, PTL DEF Spec
<1> QED  BY <1>2 DEF A, ServerErrorsAreOutages

(* The health check reports what was so while it looked                    *)
(* (health.service.ts 13-29, redis.service.ts 18-37).                      *)
THEOREM HealthIsTruthful == Spec => HealthTellsTheTruth
<1> DEFINE A == \A c \in Calls :
                  /\ Answers(c, 200) /\ call[c].route.name = "check" =>
                          {"db up", "redis up"} \subseteq call[c].saw
                  /\ Answers(c, 503) => "outage" \in call[c].saw
<1>1. ApiIndInv /\ [Next]_vars => [A]_vars
  BY AnswersAreJust DEF JustAnswer
<1> HIDE DEF A
<1>2. Spec => [][A]_vars
  BY <1>1, ApiIndInvHolds, PTL DEF Spec
<1> QED  BY <1>2 DEF A, HealthTellsTheTruth

-----------------------------------------------------------------------------
(* A call is at most six steps long.                                       *)

\* The guards, the handler, and for a health check the two probes in either
\* order and the report, for an upload the storage and what comes after it.
StepsLeft(row) ==
    IF row.stage = "throttle" THEN 6
    ELSE IF row.stage = "auth" THEN 5
    ELSE IF row.stage = "handler" THEN 4
    ELSE IF row.stage = "uploading" THEN 3
    ELSE IF row.stage = "uploaded" THEN 2
    ELSE 1 + (IF row.db = "asked" THEN 1 ELSE 0)
           + (IF row.redis = "asked" THEN 1 ELSE 0)

\* What takes a call further: its replica, or the storage it waits for.
Moves(c) == Serve(c) \/ StorageAnswers(c)

With(row, route, n) ==
    /\ row.stage \notin Finished
    /\ row.route = route
    /\ StepsLeft(row) = n

\* What a step of its own makes of a call's row.
LEMMA CallRow ==
    ASSUME ApiIndInv, NEW c \in Calls, InFlight(c), Moves(c)
    PROVE  \/ call'[c].stage = "answered"
           \/ With(call'[c], call[c].route, StepsLeft(call[c]) - 1)
<1> DEFINE old == call[c]
<1>1. old \in Call /\ old.stage \notin Finished
  BY UnderWay DEF InFlight
<1>2. \A row : Become(c, row) => call'[c] = row
  BY DEF Become, ApiIndInv, Rows
<1>3. /\ \A status : Become(c, Answered(status)) => call'[c].stage = "answered"
      /\ \A name, error : Become(c, Failed(name, error)) => call'[c].stage = "answered"
  <2>1. /\ \A status : Answered(status).stage = "answered"
        /\ \A name, error : Failed(name, error).stage = "answered"
    BY DEF Answered, Failed, Unsent
  <2> QED  BY <1>2, <2>1
<1> HIDE DEF old
<1>4. ASSUME old.stage = "throttle", Become(c, Passed(c))
      PROVE  With(call'[c], old.route, StepsLeft(old) - 1)
  <2>1. call'[c] = [old EXCEPT !.stage = "auth"]
    BY <1>2, <1>4, Order DEF Passed, old
  <2>2. call'[c].stage = "auth" /\ call'[c].route = old.route
    BY <1>1, <2>1 DEF Call
  <2> QED  BY <1>4, <2>2 DEF With, StepsLeft, Finished
<1>5. CASE Counted(c)
  <2>1. Become(c, Answered(429)) \/ Become(c, Passed(c))
    BY <1>5 DEF Counted
  <2>2. old.stage = "throttle"
    BY <1>5 DEF Counted, Asks, old
  <2>3. CASE Become(c, Answered(429))
    BY <1>3, <2>3
  <2>4. CASE Become(c, Passed(c))
    BY <1>4, <2>2, <2>4 DEF old
  <2> QED  BY <2>1, <2>3, <2>4
<1>6. CASE NotCounted(c)
  BY <1>3, <1>6 DEF NotCounted
<1>7. CASE SkipThrottle(c)
  BY <1>4, <1>7 DEF SkipThrottle, old
<1>8. CASE JwtAuthGuard(c)
  <2>1. old.stage = "auth"
    BY <1>8 DEF JwtAuthGuard, old
  <2>2. \/ Become(c, Answered(401))
        \/ Become(c, Passed(c))
        \/ Become(c, [Passed(c) EXCEPT !.verified = TRUE])
    BY <1>8 DEF JwtAuthGuard
  <2>3. Passed(c) = [old EXCEPT !.stage = "handler"]
    BY <2>1, Order DEF Passed, old
  <2>4. ASSUME NEW row, call'[c] = row,
               row \in {Passed(c), [Passed(c) EXCEPT !.verified = TRUE]}
        PROVE  With(call'[c], old.route, StepsLeft(old) - 1)
    <3>1. call'[c].stage = "handler" /\ call'[c].route = old.route
      BY <1>1, <2>3, <2>4 DEF Call
    <3> QED  BY <2>1, <3>1 DEF With, StepsLeft, Finished
  <2> QED  BY <1>2, <1>3, <2>2, <2>4 DEF old
<1>9. ASSUME NEW stage \in {"uploading", "uploaded"},
             Become(c, [old EXCEPT !.stage = stage])
      PROVE  call'[c].stage = stage /\ call'[c].route = old.route
  <2>1. call'[c] = [old EXCEPT !.stage = stage]
    BY <1>2, <1>9
  <2> QED  BY <1>1, <2>1 DEF Call
<1>10. CASE Handler(c)
  <2>1. CASE Outcome(c)
    BY <1>3, <2>1 DEF Outcome
  <2>2. CASE Become(c, [old EXCEPT !.stage = "uploading"])
    <3>1. old.stage = "handler"
      BY <1>10 DEF Handler, old
    <3>2. call'[c].stage = "uploading" /\ call'[c].route = old.route
      BY <1>9, <2>2
    <3> QED  BY <3>1, <3>2 DEF With, StepsLeft, Finished, old
  <2>3. CASE \E error : Become(c, Failed(call[c].route.name, error))
    BY <1>3, <2>3
  <2> QED  BY <1>10, <2>1, <2>2, <2>3 DEF Handler, old
<1>11. CASE Extracted(c)
  BY <1>3, <1>11 DEF Extracted, Outcome
<1>12. CASE StorageAnswers(c)
  <2>1. old.stage = "uploading"
    BY <1>12 DEF StorageAnswers, old
  <2>2. CASE Become(c, [old EXCEPT !.stage = "uploaded"])
    <3>1. call'[c].stage = "uploaded" /\ call'[c].route = old.route
      BY <1>9, <2>2
    <3> QED  BY <2>1, <3>1 DEF With, StepsLeft, Finished, old
  <2>3. CASE Become(c, Failed(call[c].route.name, StorageError))
    BY <1>3, <2>3
  <2> QED  BY <1>12, <2>2, <2>3 DEF StorageAnswers, old
<1>13. CASE Check(c)
  <2>1. old.stage = "handler"
        /\ call'[c] = Look(Asking(old), replica, db, redis)
    BY <1>2, <1>13 DEF Check, Looking, Look, Asking, old
  <2>2. /\ Asking(old) \in Call /\ Asking(old).route = old.route
        /\ Asking(old).stage = "probing"
        /\ Asking(old).db = "asked" /\ Asking(old).redis = "asked"
    BY <1>1 DEF Asking, Call
  <2>3. /\ call'[c].stage = "probing" /\ call'[c].route = old.route
        /\ call'[c].db = "asked" /\ call'[c].redis = "asked"
    BY <2>1, <2>2, LookRow
  <2> QED  BY <2>1, <2>3 DEF With, StepsLeft, Finished, old
<1>14. CASE DbProbe(c)
  <2>1. PICK found \in {"ok", "error"} : call'[c] = [old EXCEPT !.db = found]
    BY <1>2, <1>14 DEF DbProbe, old
  <2>2. old.db = "asked" /\ old.stage = "probing"
    BY <1>14, OnlyProbesAsk DEF DbProbe, old
  <2>3. /\ call'[c].stage = "probing" /\ call'[c].route = old.route
        /\ call'[c].db = found /\ call'[c].redis = old.redis
    BY <1>1, <2>1, <2>2 DEF Call
  <2> QED  BY <2>2, <2>3 DEF With, StepsLeft, Finished, old
<1>15. CASE RedisProbe(c)
  <2>1. PICK found \in {"ok", "error"} :
            call'[c] = [old EXCEPT !.redis = found]
    BY <1>2, <1>15 DEF RedisProbe, old
  <2>2. old.redis = "asked" /\ old.stage = "probing"
    BY <1>15, OnlyProbesAsk DEF RedisProbe, old
  <2>3. /\ call'[c].stage = "probing" /\ call'[c].route = old.route
        /\ call'[c].redis = found /\ call'[c].db = old.db
    BY <1>1, <2>1, <2>2 DEF Call
  <2> QED  BY <2>2, <2>3 DEF With, StepsLeft, Finished, old
<1>16. CASE Report(c)
  BY <1>3, <1>16 DEF Report
<1> QED
  BY <1>5, <1>6, <1>7, <1>8, <1>10, <1>11, <1>12, <1>13, <1>14, <1>15, <1>16
     DEF Moves, Serve, old

\* Steps of other calls, of the world and of time leave it where it is, or
\* its replica takes it along.
LEMMA CallStands ==
    ASSUME ApiIndInv, NEW c \in Calls, InFlight(c), [Next]_vars, ~Moves(c)
    PROVE  \/ call'[c].stage = "lost"
           \/ With(call'[c], call[c].route, StepsLeft(call[c]))
<1>1. call[c] \in Call /\ call[c].stage \notin Finished
  BY UnderWay DEF InFlight
<1>2. CASE call'[c] = call[c]
  BY <1>1, <1>2 DEF With
<1>3. ASSUME /\ call'[c].stage = call[c].stage /\ call'[c].route = call[c].route
             /\ call'[c].db = call[c].db /\ call'[c].redis = call[c].redis
      PROVE  With(call'[c], call[c].route, StepsLeft(call[c]))
  BY <1>1, <1>3 DEF With, StepsLeft
<1>4. CASE Witness
  BY <1>3, <1>4, LookersStay DEF Witness
<1>5. ASSUME NEW d \in Calls, ReplyLost(d)
      PROVE  With(call'[c], call[c].route, StepsLeft(call[c]))
  <2>1. WitnessFrom(Repeated(d)) /\ call[d].repeats < Resends
    BY <1>5 DEF ReplyLost, Repeated
  <2> QED  BY <1>3, <2>1, LookersStay, RepeatedRows
<1>6. ASSUME NEW a \in Replicas, Crash(a)
      PROVE  call'[c] = call[c] \/ call'[c].stage = "lost"
  BY <1>6, LostRow DEF Crash
<1>7. ASSUME NEW d \in Calls, Send(d)
      PROVE  call'[c] = call[c]
  <2>1. d # c
    BY <1>1, <1>7 DEF Send, Finished
  <2>2. PICK row : call' = [call EXCEPT ![d] = row]
    BY <1>7 DEF Send
  <2> QED  BY <2>1, <2>2 DEF ApiIndInv, Rows
<1>8. ASSUME NEW d \in Calls, Moves(d)
      PROVE  call'[c] = call[c]
  <2>1. PICK row : Become(d, row)
    BY <1>8, ServeStep, StorageStep DEF JustStep, Moves
  <2> QED  BY <1>8, <2>1 DEF Become, ApiIndInv, Rows
<1>9. CASE UNCHANGED call
  BY <1>2, <1>9
<1> QED
  BY <1>2, <1>4, <1>5, <1>6, <1>7, <1>8, <1>9
  DEF Next, Moves, Weather, Boot, Drain, Stop, WindowEnds, BlockEnds, vars

\* Six at the start, never more than before, and one fewer with each step of
\* its own.
CallsCountDown ==
    [][\A c \in Calls : InFlight(c) =>
          /\ StepsLeft(call[c]) \in 1..6
          /\ \/ ~InFlight(c)'
             \/ With(call'[c], call[c].route, StepsLeft(call[c])) /\ ~Moves(c)
             \/ With(call'[c], call[c].route, StepsLeft(call[c]) - 1) /\ Moves(c)]_vars

(* A call is at most six steps long and never goes back, on all nineteen   *)
(* routes and whatever Redis, PostgreSQL, the object storage and the other *)
(* calls do meanwhile (app.module.ts 49-58, health.service.ts 13-29).      *)
THEOREM CallsAreShort == Spec => CallsCountDown
<1> DEFINE A == \A c \in Calls : InFlight(c) =>
          /\ StepsLeft(call[c]) \in 1..6
          /\ \/ ~InFlight(c)'
             \/ With(call'[c], call[c].route, StepsLeft(call[c])) /\ ~Moves(c)
             \/ With(call'[c], call[c].route, StepsLeft(call[c]) - 1) /\ Moves(c)
<1>1. ApiIndInv /\ [Next]_vars => [A]_vars
  <2> SUFFICES ASSUME ApiIndInv, Next, NEW c \in Calls, InFlight(c)
               PROVE  /\ StepsLeft(call[c]) \in 1..6
                      /\ \/ ~InFlight(c)'
                         \/ With(call'[c], call[c].route, StepsLeft(call[c])) /\ ~Moves(c)
                         \/ With(call'[c], call[c].route, StepsLeft(call[c]) - 1) /\ Moves(c)
    OBVIOUS
  <2>1. StepsLeft(call[c]) \in 1..6
    BY DEF StepsLeft
  <2>2. call'[c].stage \in {"answered", "lost"} => ~InFlight(c)'
    BY DEF InFlight, Finished
  <2> QED  BY <2>1, <2>2, CallRow, CallStands
<1> HIDE DEF A
<1>2. Spec => [][A]_vars
  BY <1>1, ApiIndInvHolds, PTL DEF Spec
<1> QED  BY <1>2 DEF A, CallsCountDown

-----------------------------------------------------------------------------
(* Every call ends.  That its replica has a next step for it is taken from *)
(* OnlyOutagesHoldUp, which TLC checks: the provers cannot open ENABLED.   *)

\* A call to one of these routes, and what it may have to wait for.
To(c, names) == InFlight(c) /\ call[c].route.name \in names
HeldUp(c, names) ==
    \/ db = "hung"
    \/ names # {"check"} /\ (redis = "hung" \/ Uploading(c))
Leaves(c, names) == To(c, names) ~> (~To(c, names) \/ HeldUp(c, names))

LEMMA CallsLeave ==
    ASSUME NEW c \in Calls, NEW names
    PROVE  Spec /\ Served(c) /\ []OnlyOutagesHoldUp => Leaves(c, names)
<1> DEFINE On(n) == To(c, names) /\ StepsLeft(call[c]) = n
           Over == ~To(c, names)
           Hung == HeldUp(c, names)
<1>1. To(c, names) => On(1) \/ On(2) \/ On(3) \/ On(4) \/ On(5) \/ On(6)
  BY DEF To, StepsLeft
<1>2. ASSUME NEW n \in 1..6
      PROVE  On(n) => To(c, names)
  OBVIOUS
<1>3. ASSUME NEW n \in 1..6
      PROVE  ApiIndInv /\ [Next]_vars /\ On(n) => (On(n) \/ On(n - 1) \/ Over)'
  <2> SUFFICES ASSUME ApiIndInv, [Next]_vars, On(n)
               PROVE  (On(n) \/ On(n - 1) \/ Over)'
    OBVIOUS
  <2>1. InFlight(c) /\ StepsLeft(call[c]) = n
    BY DEF To
  <2>2. call'[c].stage \in {"answered", "lost"} => Over'
    BY DEF To, InFlight, Finished
  <2>3. \A m : With(call'[c], call[c].route, m) => On(m)'
    BY DEF With, To, InFlight
  <2> HIDE DEF On, Over
  <2> QED  BY <2>1, <2>2, <2>3, CallRow, CallStands
<1>4. ASSUME NEW n \in 1..6
      PROVE  ApiIndInv /\ <<Serve(c)>>_vars /\ On(n) => (On(n - 1) \/ Over)'
  BY CallRow DEF Moves, With, To, InFlight, Finished
<1>5. ASSUME NEW n \in 1..6, NEW m \in 0..6, m # n
      PROVE  On(n) => ~On(m)
  BY <1>5
<1>6. ApiIndInv /\ OnlyOutagesHoldUp /\ To(c, names) /\ ~Hung
        => ENABLED <<Serve(c)>>_vars
  <2>1. ApiIndInv /\ To(c, names) /\ names = {"check"} =>
            Checking(c) /\ ~Uploading(c)
    BY UnderWay DEF To, Checking, Uploading, Sound, Kept
  <2> QED  BY <2>1 DEF OnlyOutagesHoldUp, To, HeldUp
<1>7. /\ ApiIndInv /\ [Next]_vars /\ On(1) => (On(1) \/ Over)'
      /\ ApiIndInv /\ [Next]_vars /\ On(2) => (On(2) \/ On(1) \/ Over)'
      /\ ApiIndInv /\ [Next]_vars /\ On(3) => (On(3) \/ On(2) \/ Over)'
      /\ ApiIndInv /\ [Next]_vars /\ On(4) => (On(4) \/ On(3) \/ Over)'
      /\ ApiIndInv /\ [Next]_vars /\ On(5) => (On(5) \/ On(4) \/ Over)'
      /\ ApiIndInv /\ [Next]_vars /\ On(6) => (On(6) \/ On(5) \/ Over)'
  <2>1. ~On(0)'
    BY DEF StepsLeft
  <2> HIDE DEF On, Over
  <2> QED  BY <1>3, <2>1
<1>8. /\ ApiIndInv /\ <<Serve(c)>>_vars /\ On(1) => Over'
      /\ ApiIndInv /\ <<Serve(c)>>_vars /\ On(2) => (On(1) \/ Over)'
      /\ ApiIndInv /\ <<Serve(c)>>_vars /\ On(3) => (On(2) \/ Over)'
      /\ ApiIndInv /\ <<Serve(c)>>_vars /\ On(4) => (On(3) \/ Over)'
      /\ ApiIndInv /\ <<Serve(c)>>_vars /\ On(5) => (On(4) \/ Over)'
      /\ ApiIndInv /\ <<Serve(c)>>_vars /\ On(6) => (On(5) \/ Over)'
  <2>1. ~On(0)'
    BY DEF StepsLeft
  <2> HIDE DEF On, Over
  <2> QED  BY <1>4, <2>1
<1> QED
  BY <1>1, <1>2, <1>5, <1>6, <1>7, <1>8, ApiIndInvHolds, PTL
  DEF Spec, Served, Leaves

(* On every route a call is answered, or lost with its replica, unless     *)
(* Redis or PostgreSQL hangs meanwhile or it comes to wait for the object  *)
(* storage, which nothing bounds (Api, CallsEnd).                          *)
THEOREM CallsDoEnd == FairSpec /\ []OnlyOutagesHoldUp => CallsEnd
<1> SUFFICES ASSUME NEW c \in Calls
             PROVE  Spec /\ Served(c) /\ []OnlyOutagesHoldUp => Ends(c)
  BY DEF FairSpec, CallsEnd
<1>1. Spec /\ Served(c) /\ []OnlyOutagesHoldUp => Leaves(c, Names)
  BY CallsLeave
<1>2. ApiIndInv => (InFlight(c) <=> To(c, Names))
  BY UnderWay DEF To, Names
<1>3. HeldUp(c, Names) => db = "hung" \/ redis = "hung" \/ Uploading(c)
  BY DEF HeldUp
<1> QED
  BY <1>1, <1>2, <1>3, ApiIndInvHolds, PTL DEF Spec, Leaves, Ends

(* A health check is answered whatever Redis does, unless its replica dies *)
(* or PostgreSQL hangs, which nothing bounds (Api, HealthIsReported).      *)
THEOREM HealthChecksEnd == FairSpec /\ []OnlyOutagesHoldUp => HealthIsReported
<1> SUFFICES ASSUME NEW c \in Calls
             PROVE  Spec /\ Served(c) /\ []OnlyOutagesHoldUp => Reports(c)
  BY DEF FairSpec, HealthIsReported
<1>1. Spec /\ Served(c) /\ []OnlyOutagesHoldUp => Leaves(c, {"check"})
  BY CallsLeave
<1>2. Checking(c) <=> To(c, {"check"})
  BY DEF Checking, To
<1>3. HeldUp(c, {"check"}) => db = "hung"
  BY DEF HeldUp
<1> QED
  BY <1>1, <1>2, <1>3, PTL DEF Leaves, Reports
=============================================================================
