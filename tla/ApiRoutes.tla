------------------------------ MODULE ApiRoutes ------------------------------
(***************************************************************************)
(* What the five controllers declare about their routes, what the services *)
(* behind them throw, and what the exception filters make of it.           *)
(*                                                                         *)
(* A route is named after its controller method.  The two halves are kept  *)
(* apart in the code - the decorators document a status, a service throws  *)
(* an error that a filter turns into one - and nothing there makes them    *)
(* agree.                                                                  *)
(***************************************************************************)
EXTENDS Integers

-----------------------------------------------------------------------------
(* Errors and the filters.                                                 *)

\* An HttpException has a status of its own; an error of the database client
\* has a code; anything else (code "other") has neither.
Http(status) == [status |-> status, code |-> "none"]
Database(code) == [status |-> 0, code |-> code]

authExceptions ==
    [EmailAlreadyRegistered |-> Http(409),
     InvalidCredentials |-> Http(401),
     InvalidRefreshToken |-> Http(401)]

\* fault: what is wrong with the password is unauthorized.
WrongPasswordIs401 == [UserNotFound |-> Http(404), IncorrectPassword |-> Http(401)]

usersExceptions == [UserNotFound |-> Http(404), IncorrectPassword |-> Http(403)]

itemsExceptions ==
    [ItemNotFound |-> Http(404), ItemNotEditable |-> Http(400),
     InvalidStatusTransition |-> Http(400), ItemNotDeletable |-> Http(400),
     InvalidScreenshot |-> Http(400)]

scoringExceptions == [ScoreNotFound |-> Http(404), ItemNotScorable |-> Http(400)]

\* fault: only the unique constraint is mapped.
OnlyDuplicates == [P2002 |-> 409]

PRISMA_ERROR_STATUS == [P2002 |-> 409, P2025 |-> 404]

describe(error) ==
    IF error.status > 0 THEN error.status
    ELSE IF error.code \in DOMAIN PRISMA_ERROR_STATUS
         THEN PRISMA_ERROR_STATUS[error.code]
         ELSE 500

\* What Nest makes of Multer's LIMIT_FILE_SIZE.
PayloadTooLarge == Http(413)

\* The route's own filter catches that one before the global filter sees it.
ScreenshotUploadExceptionFilter(error) ==
    IF error = PayloadTooLarge THEN Http(400) ELSE error

AnswerTo(name, error) ==
    describe(IF name = "createFromScreenshot"
             THEN ScreenshotUploadExceptionFilter(error)
             ELSE error)

-----------------------------------------------------------------------------
(* The controllers: what each route declares.  throttle is the budget the  *)
(* route draws on, success the statuses its handler returns.               *)

Route(name, throttle, success) ==
    [name |-> name, throttle |-> throttle, success |-> success]

\* The routes marked @Public(), which JwtAuthGuard lets through.
PublicRoutes == {"signup", "login", "refresh", "logout", "check"}

AuthController ==
    {Route("signup", "credential", {201}),
     Route("login", "credential", {200}),
     Route("refresh", "global", {200}),
     Route("logout", "global", {204}),
     Route("session", "global", {200})}

UsersController ==
    {Route("getProfile", "global", {200}),
     Route("updateProfile", "global", {200}),
     Route("changePassword", "credential", {204}),
     Route("deleteAccount", "credential", {204})}

\* An extraction that is not sure answers 200 with a draft.
CaptureController ==
    {Route("createFromScreenshot", "credential", {200, 201})}

ItemsController ==
    {Route("create", "global", {201}),
     Route("list", "global", {200}),
     Route("findOne", "global", {200}),
     Route("update", "global", {200}),
     Route("updateStatus", "global", {200}),
     Route("remove", "global", {204})}

ScoringController ==
    {Route("score", "global", {201}),
     Route("getScore", "global", {200})}

HealthController == {Route("check", "none", {200, 503})}

AllRoutes == AuthController \union UsersController \union CaptureController
                \union ItemsController \union ScoringController
                \union HealthController

-----------------------------------------------------------------------------
(* The services: which errors may leave a handler once the guards and the  *)
(* pipes have let the request through, as pairs of a route and an error.   *)

\* A user or an item deleted between two statements: P2003 when a row that
\* refers to it is inserted; P2034 when the two requests deadlock.  P2028: an
\* interactive transaction waited two seconds for a connection of the pool, or
\* was not over after five.
ForeignKeyViolation == Database("P2003")
Deadlock == Database("P2034")
RecordNotFound == Database("P2025")
TransactionError == Database("P2028")

\* PostgreSQL keeps no NUL character in a text, and the DTOs let one through.
UnstorableText == Database("other")

AuthService ==
    {<<"signup", authExceptions.EmailAlreadyRegistered>>,
     <<"login", authExceptions.InvalidCredentials>>,
     <<"login", ForeignKeyViolation>>,
     <<"refresh", authExceptions.InvalidRefreshToken>>,
     <<"refresh", Deadlock>>,
     <<"refresh", TransactionError>>}

\* updateProfile: @IsOptional lets an explicit null through to a column that
\* cannot hold it.  changePassword: the account vanishes after its password
\* was verified, and nothing there translates the update that finds no row;
\* its sweep of the user's tokens may cross the sweep of a replay.
UsersService ==
    {<<"updateProfile", Database("other")>>,
     <<"changePassword", RecordNotFound>>,
     <<"changePassword", Deadlock>>,
     <<"changePassword", TransactionError>>,
     <<"deleteAccount", Deadlock>>}
    \union {"getProfile", "updateProfile", "changePassword", "deleteAccount"}
                \X {usersExceptions.UserNotFound}
    \union {"changePassword", "deleteAccount"} \X {usersExceptions.IncorrectPassword}

\* The item it auto-creates may have lost its owner, or have a text from the
\* model that cannot be stored; an extraction that fails is a draft, not an
\* error.  What the upload before it may throw is StorageError.
ScreenshotService ==
    {"createFromScreenshot"} \X {UnstorableText, ForeignKeyViolation}

\* The object storage refused the upload, or could not be reached.
StorageError == Database("other")

\* The last set: the item vanishes after the check that found it, or the
\* transaction the check and the write run in fails.
ItemsService ==
    {<<"create", ForeignKeyViolation>>,
     <<"create", UnstorableText>>,
     <<"update", UnstorableText>>,
     <<"update", itemsExceptions.ItemNotEditable>>,
     <<"updateStatus", itemsExceptions.InvalidStatusTransition>>,
     <<"remove", itemsExceptions.ItemNotDeletable>>}
    \union {"findOne", "update", "updateStatus", "remove"} \X {itemsExceptions.ItemNotFound}
    \union {"update", "updateStatus", "remove"} \X {RecordNotFound, TransactionError}

\* The last one: the owner is gone between the SELECT of the item and the one
\* of its owner, which Prisma reports as an inconsistent result.
ScoringService ==
    {<<"score", itemsExceptions.ItemNotFound>>,
     <<"score", scoringExceptions.ItemNotScorable>>,
     <<"score", ForeignKeyViolation>>,
     <<"score", Database("other")>>,
     <<"getScore", itemsExceptions.ItemNotFound>>,
     <<"getScore", scoringExceptions.ScoreNotFound>>}

Throws == AuthService \union UsersService \union ScreenshotService
            \union ItemsService \union ScoringService

\* The interceptor and the pipes run after the guards: the validation pipe,
\* ParseUUIDPipe and ParseFilePipe all answer 400, Multer may find the file
\* too large.  A route that takes no input has nothing to refuse.
Rejections(name) ==
    IF name \in {"session", "getProfile", "check"} THEN {}
    ELSE IF name = "createFromScreenshot"
         THEN {itemsExceptions.InvalidScreenshot, PayloadTooLarge}
         ELSE {Http(400)}

\* A body that cannot be read, before any guard: Nest makes malformed JSON a
\* 400, while the body parser's other errors (too large, an encoding or a
\* charset it does not know, a request that breaks off) are no HttpExceptions.
BodyErrors == {Http(400), Database("other")}

\* Whether the handler asks the database anything.
NeedsDatabase(name) == name \notin {"session", "check"}
=============================================================================
