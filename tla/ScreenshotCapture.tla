-------------------------- MODULE ScreenshotCapture -------------------------
(***************************************************************************)
(* POST /items/from-screenshot: ScreenshotService.capture and the          *)
(* extraction provider below it, composed with the item lifecycle of       *)
(* Items.                                                                  *)
(*                                                                         *)
(* A capture is three calls to three services: the image is stored in R2,  *)
(* the model is asked what it shows (a timeout per attempt, one retry),    *)
(* and the item is created when the answer is good enough.  A timeout does *)
(* not cancel its call, so an answer may arrive after the attempt was      *)
(* given up.  Texts are their lengths, prices are in tenths of a cent.     *)
(***************************************************************************)
EXTENDS Items, FiniteSets

CONSTANTS
    Captures,    \* request slots of the endpoint
    Images,      \* object keys: random UUIDs, never generated twice
    Answers,     \* what the model may answer
    MaxName,     \* ITEMS_CONFIG.productName.maxLength
    MaxBrand,    \* ITEMS_CONFIG.brand.maxLength
    MaxCents     \* ITEMS_CONFIG.price.max, in cents

VARIABLES
    object,      \* the bucket: key -> the user it is stored under, or None
    picture,     \* item -> its imageUrl, and history: where its row came from
    capture,     \* slot -> where its handler is, and its locals
    calls        \* calls to the model that have not come back

captureVars == <<object, picture, capture, calls>>

MAX_ATTEMPTS == 2

\* What CreateItemDto accepts: the rows the confirm path can write.
Confirmable == [productName : 1..MaxName,
                brand : (0..MaxBrand) \union {None},
                price : 1..MaxCents]

ASSUME LimitsAssumption ==
    /\ MaxName \in Nat /\ MaxBrand \in Nat /\ MaxCents \in Nat
    /\ None \notin Nat

ASSUME DetailsAssumption == Details = Confirmable

ASSUME ImagesAssumption == None \notin Images

-----------------------------------------------------------------------------
(* What the model answered, and what becomes of it.                        *)

\* readable: it is JSON with every key, booleans where booleans are due and
\* strings in the phrases.  category: it is one of ours.  A text that is null
\* or no string is None, a price that is no number, or not positive, is 0.
Answer == [readable : BOOLEAN,
           productName : Nat \union {None},
           brand : Nat \union {None},
           price : Nat,
           category : BOOLEAN,
           uncertain : BOOLEAN]

ASSUME AnswersAssumption == Answers \subseteq Answer

parseNullableString(text) == IF text = 0 THEN None ELSE text

\* toExtractionResult: high only when the model is sure and nothing required
\* is missing.
High(answer) ==
    /\ ~answer.uncertain
    /\ parseNullableString(answer.productName) # None
    /\ answer.price # 0
    /\ answer.category

\* The nearest cent; at a tie binary fractions decide, so either one.
roundToCents(price) ==
    {c \in 0..price : 10 * c <= price + 5 /\ price <= 10 * c + 5}

OnlyCapsThePrice(answer, cents) ==  \* fault: positive before it is rounded
    /\ High(answer)
    /\ answer.productName <= MaxName
    /\ parseNullableString(answer.brand) \in (1..MaxBrand) \union {None}
    /\ cents <= MaxCents

IgnoresConfidence(answer, cents) ==  \* fault: a guess is good enough
    /\ parseNullableString(answer.productName) \in 1..MaxName
    /\ answer.price # 0
    /\ answer.category
    /\ parseNullableString(answer.brand) \in (1..MaxBrand) \union {None}
    /\ cents \in 1..MaxCents

canAutoCreate(answer, cents) ==
    /\ High(answer)
    /\ answer.productName <= MaxName
    /\ parseNullableString(answer.brand) \in (1..MaxBrand) \union {None}
    /\ cents \in 1..MaxCents

autoCreateDto(answer, cents) ==
    [productName |-> answer.productName,
     brand |-> parseNullableString(answer.brand),
     price |-> cents]

-----------------------------------------------------------------------------
(* Rows and requests.                                                      *)

\* readFrom is history: the image the model was shown, and whether it was sure.
Picture == [image : Images \union {None},
            readFrom : Images \union {None},
            sure : BOOLEAN]
NoPicture == [image |-> None, readFrom |-> None, sure |-> FALSE]

Call == [image : Images, attempt : 1..MAX_ATTEMPTS]

Capture == [pc : {"idle", "stored", "waiting", "creating"},
            user : Users \union {None},
            image : Images \union {None},
            attempt : 0..MAX_ATTEMPTS,
            details : Details \union {None},
            readFrom : Images \union {None},
            sure : BOOLEAN]

NoCapture == [pc |-> "idle", user |-> None, image |-> None, attempt |-> 0,
              details |-> None, readFrom |-> None, sure |-> FALSE]

Init ==
    /\ ItemsInit
    /\ object = [m \in Images |-> None]
    /\ picture = [i \in Items |-> NoPicture]
    /\ capture = [c \in Captures |-> NoCapture]
    /\ calls = {}

Running(c) == capture[c].pc # "idle"
End(c) == capture' = [capture EXCEPT ![c] = NoCapture]

\* Bound: a capture starts, and a client creates, only while an id is left
\* for every capture that is running.
Unborns == {i \in Items : item[i].status = "unborn"}
IdsLeft(extra) ==
    Cardinality({c \in Captures : Running(c)}) + extra <= Cardinality(Unborns)

-----------------------------------------------------------------------------
(* The handler.                                                            *)

SharesOneKey(m) == TRUE  \* fault: the key is not random

FreshKey(m) == object[m] = None

\* PutObject has been answered; one that fails ends the request with a 500 and
\* is no step.  The access token may have outlived its user.
Upload(c, u, m) ==
    /\ ~Running(c)
    /\ IdsLeft(1)
    /\ FreshKey(m)
    /\ object' = [object EXCEPT ![m] = u]
    /\ capture' = [capture EXCEPT
           ![c] = [NoCapture EXCEPT !.pc = "stored", !.user = u, !.image = m]]
    /\ UNCHANGED <<itemVars, picture, calls>>

CallOf(c) == [image |-> capture[c].image, attempt |-> capture[c].attempt]

\* The loop's next turn, which calls the model, or its end: an empty draft.
NextAttempt(c, pending) ==
    /\ \/ /\ capture[c].attempt < MAX_ATTEMPTS
          /\ capture' = [capture EXCEPT ![c].pc = "waiting",
                                        ![c].attempt = @ + 1]
          /\ calls' = pending \union
                 {[CallOf(c) EXCEPT !.attempt = @ + 1]}
       \/ /\ capture[c].attempt = MAX_ATTEMPTS
          /\ End(c)
          /\ calls' = pending
    /\ UNCHANGED <<itemVars, object, picture>>

Extract(c) == capture[c].pc = "stored" /\ NextAttempt(c, calls)

\* The image cannot be read: an empty draft, and the model is not asked.
DownscaleFails(c) ==
    /\ capture[c].pc = "stored"
    /\ End(c)
    /\ UNCHANGED <<itemVars, object, picture, calls>>

NeverTimesOut(c) == FALSE  \* fault: the SDK's call is awaited unbounded

\* The timer wins the race; the call goes on.
TimeOut(c) == capture[c].pc = "waiting" /\ NextAttempt(c, calls)

\* fault: the answer is kept in a field of the provider, which all requests
\* share, rather than in a local
TakesAnyAnswer(c, call) == capture[c].pc = "waiting"

Awaits(c, call) == capture[c].pc = "waiting" /\ CallOf(c) = call

ProviderError(c, call) ==
    /\ Awaits(c, call)
    /\ NextAttempt(c, calls \ {call})

\* The model answers the call that is awaited: it is asked again, or the
\* client gets a draft, or the item will be created.
AnswerArrives(c, call, answer) ==
    /\ Awaits(c, call)
    /\ \/ ~answer.readable /\ NextAttempt(c, calls \ {call})
       \/ /\ answer.readable
          /\ calls' = calls \ {call}
          /\ \E cents \in roundToCents(answer.price) :
                \/ /\ canAutoCreate(answer, cents)
                   /\ capture' = [capture EXCEPT
                          ![c].pc = "creating",
                          ![c].details = autoCreateDto(answer, cents),
                          ![c].readFrom = call.image,
                          ![c].sure = ~answer.uncertain]
                \/ ~canAutoCreate(answer, cents) /\ End(c)
          /\ UNCHANGED <<itemVars, object, picture>>

\* Nobody is waiting for it any more.
LateAnswer(call) ==
    /\ \A c \in Captures : ~Awaits(c, call)
    /\ calls' = calls \ {call}
    /\ UNCHANGED <<itemVars, object, picture, capture>>

\* ItemsService.create, or a 500 from its foreign key when the user has gone.
CreateItem(c) ==
    LET mine == capture[c]
    IN  /\ mine.pc = "creating"
        /\ \/ \E i \in Items :
                 /\ Create(mine.user, i, mine.details)
                 /\ picture' = [picture EXCEPT
                        ![i] = [image |-> mine.image,
                                readFrom |-> mine.readFrom,
                                sure |-> mine.sure]]
           \/ /\ mine.user \notin registered
              /\ UNCHANGED <<itemVars, picture>>
        /\ End(c)
        /\ UNCHANGED <<object, calls>>

\* The process dies, or what the handler awaits rejects.
AbandonCapture(c) ==
    /\ Running(c)
    /\ End(c)
    /\ UNCHANGED <<itemVars, object, picture, calls>>

-----------------------------------------------------------------------------

\* Whatever else happens to items; a row's imageUrl goes with the row.
ItemStep ==
    /\ ItemsNext
    /\ picture' = [i \in Items |->
           IF item'[i].status = "gone" THEN NoPicture ELSE picture[i]]
    /\ UNCHANGED <<object, capture, calls>>
    /\ IdsLeft(0)'

Proceed(c) == Extract(c) \/ DownscaleFails(c) \/ TimeOut(c) \/ CreateItem(c)

Serve(c) ==
    \/ \E u \in Users, m \in Images : Upload(c, u, m)
    \/ Proceed(c)
    \/ \E call \in calls :
          \/ ProviderError(c, call)
          \/ \E answer \in Answers : AnswerArrives(c, call, answer)
    \/ AbandonCapture(c)

Next ==
    \/ ItemStep
    \/ \E c \in Captures : Serve(c)
    \/ \E call \in calls : LateAnswer(call)

allVars == <<itemVars, captureVars>>

Spec == Init /\ [][Next]_allVars

\* Timers fire, the image library and the database answer.  Nothing makes the
\* model answer, or a client send anything.
Served(c) == WF_allVars(Proceed(c))

FairSpec == Spec /\ \A c \in Captures : Served(c)

-----------------------------------------------------------------------------
(* Properties.                                                             *)

(* The bucket, the rows and the requests have the shape the code gives.    *)
CaptureTypeOK ==
    /\ object \in [Images -> Users \union {None}]
    /\ picture \in [Items -> Picture]
    /\ capture \in [Captures -> Capture]
    /\ calls \subseteq Call

(* "Otherwise we would write a row the confirm path could not"             *)
(* (screenshot.service.ts:71-76): whatever the model answers, every row is *)
(* one that POST /items would have accepted.                               *)
RowsAreConfirmable ==
    \A i \in Items : Stored(i) => item[i].details \in Confirmable

(* An auto-created item shows the image it was read from, as stored under  *)
(* its owner (screenshot.service.ts:39-63), and the model was sure: no     *)
(* answer, however late, reaches another capture.                          *)
ItemsShowWhatWasRead ==
    \A i \in Items : picture[i].image # None =>
        /\ Stored(i)
        /\ picture[i].readFrom = picture[i].image
        /\ picture[i].sure
        /\ object[picture[i].image] = item[i].owner

(* An upload auto-creates one item at most, and no two auto-created items  *)
(* share an image (screenshot.service.ts:66-69).  Nothing is said of items *)
(* a client creates: it may name any imageUrl, the one of a draft included.*)
OneItemPerImage ==
    \A i, j \in Items :
        picture[i].image # None /\ picture[i].image = picture[j].image => i = j

(* A running capture waits for nothing but its timer, the image library    *)
(* and the database: with the model silent it still has a step of its own, *)
(* also when its user has gone (openai-extraction.provider.ts:76-109).     *)
NeverWaitsForTheModel ==
    \A c \in Captures : Running(c) => ENABLED <<Proceed(c)>>_allVars

(* "A hung provider must not pin an HTTP worker" (ai.config.ts:21): once   *)
(* the image is stored the capture ends, whatever the model does.          *)
Ends(c, m) == (capture[c].image = m) ~> (capture[c].image # m)

CapturesEnd == \A c \in Captures, m \in Images : Ends(c, m)

-----------------------------------------------------------------------------
(* The inductive invariant behind the theorems of ScreenshotCaptureProofs. *)

(* A running capture's image is stored under its user, is nobody else's    *)
(* and is not shown yet; what it is about to create was read from it.      *)
CaptureAgrees(c) ==
    /\ ~Running(c) => capture[c].image = None
    /\ Running(c) =>
          /\ capture[c].user \in Users
          /\ capture[c].image \in Images
          /\ object[capture[c].image] = capture[c].user
          /\ \A d \in Captures \ {c} : capture[d].image # capture[c].image
          /\ \A i \in Items : picture[i].image # capture[c].image
    /\ capture[c].pc = "creating" =>
          /\ capture[c].details \in Details
          /\ capture[c].readFrom = capture[c].image
          /\ capture[c].sure

CaptureIndInv ==
    /\ CaptureTypeOK
    /\ \A c \in Captures : CaptureAgrees(c)
    /\ ItemsShowWhatWasRead
    /\ OneItemPerImage

=============================================================================
