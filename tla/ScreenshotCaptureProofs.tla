----------------------- MODULE ScreenshotCaptureProofs ----------------------
(***************************************************************************)
(* Theorems about screenshot capture, for every number of users, items,    *)
(* images and concurrent captures, every answer of the model and every     *)
(* value of the limits, on top of those of ItemsProofs about the items.    *)
(*                                                                         *)
(* Each step of a capture is put in one of a few shapes first; everything  *)
(* else follows from the shapes.                                           *)
(***************************************************************************)
EXTENDS ScreenshotCapture, ItemsProofs

(* What a step of a capture writes into its record; row is the new record. *)
Uploaded(c, row) ==
    \E u \in Users, m \in Images :
        /\ ~Running(c)
        /\ object[m] = None
        /\ object' = [object EXCEPT ![m] = u]
        /\ row.pc = "stored" /\ row.user = u /\ row.image = m
        /\ UNCHANGED <<itemVars, picture, calls>>

Asked(c, row) ==
    /\ Running(c)
    /\ row.pc = "waiting"
    /\ row.user = capture[c].user /\ row.image = capture[c].image
    /\ calls' \subseteq calls \union Call
    /\ UNCHANGED <<itemVars, object, picture>>

Settled(c, row) ==
    /\ Running(c)
    /\ row.pc = "creating"
    /\ row.user = capture[c].user /\ row.image = capture[c].image
    /\ row.details \in Details
    /\ row.readFrom = capture[c].image
    /\ row.sure
    /\ calls' \subseteq calls
    /\ UNCHANGED <<itemVars, object, picture>>

Dropped(c, row) ==
    /\ row = NoCapture
    /\ calls' \subseteq calls
    /\ UNCHANGED <<itemVars, object, picture>>

Created(c, row) ==
    /\ row = NoCapture
    /\ capture[c].pc = "creating"
    /\ \E i \in Items :
          /\ Create(capture[c].user, i, capture[c].details)
          /\ picture' = [picture EXCEPT
                 ![i] = [image |-> capture[c].image,
                         readFrom |-> capture[c].readFrom,
                         sure |-> capture[c].sure]]
    /\ UNCHANGED <<object, calls>>

Shape(c, row) ==
    \/ Uploaded(c, row) \/ Asked(c, row) \/ Settled(c, row)
    \/ Dropped(c, row) \/ Created(c, row)

-----------------------------------------------------------------------------
(* The records themselves.                                                 *)

LEMMA NoCaptureTyped == NoCapture \in Capture
  BY DEF NoCapture, Capture, MAX_ATTEMPTS

LEMMA UploadRow ==
    ASSUME NEW u \in Users, NEW m \in Images
    PROVE  [NoCapture EXCEPT !.pc = "stored", !.user = u, !.image = m]
               \in Capture
  BY NoCaptureTyped DEF Capture

LEMMA AskRow ==
    ASSUME NEW old \in Capture, old.attempt < MAX_ATTEMPTS, NEW row,
           row = [old EXCEPT !.pc = "waiting", !.attempt = @ + 1]
    PROVE  /\ row \in Capture
           /\ row.pc = "waiting" /\ row.user = old.user
           /\ row.image = old.image
<1>1. old.attempt + 1 \in 0..MAX_ATTEMPTS
  BY DEF Capture, MAX_ATTEMPTS
<1>2. row = [old EXCEPT !.pc = "waiting", !.attempt = old.attempt + 1]
  OBVIOUS
<1> QED  BY <1>1, <1>2 DEF Capture

LEMMA SettleRow ==
    ASSUME NEW old \in Capture, NEW d \in Details, NEW m \in Images,
           NEW s \in BOOLEAN
    PROVE  [old EXCEPT !.pc = "creating", !.details = d,
                       !.readFrom = m, !.sure = s] \in Capture
  BY DEF Capture

(* What passes canAutoCreate passes CreateItemDto too.                     *)
LEMMA AutoCreatedIsConfirmable ==
    ASSUME NEW answer \in Answer, NEW cents, canAutoCreate(answer, cents)
    PROVE  /\ autoCreateDto(answer, cents) \in Details
           /\ ~answer.uncertain
<1> USE LimitsAssumption
<1>1. answer.productName \in 1..MaxName
  BY DEF canAutoCreate, High, parseNullableString, Answer
<1>2. parseNullableString(answer.brand) \in (0..MaxBrand) \union {None}
  BY DEF canAutoCreate
<1>3. cents \in 1..MaxCents /\ ~answer.uncertain
  BY DEF canAutoCreate, High
<1> QED
  BY <1>1, <1>2, <1>3, DetailsAssumption DEF autoCreateDto, Confirmable

-----------------------------------------------------------------------------
(* Every step of a capture has one of the shapes.                          *)

LEMMA NextAttemptShape ==
    ASSUME CaptureTypeOK, NEW c \in Captures, Running(c),
           capture[c].image \in Images,
           NEW pending \in SUBSET calls, NextAttempt(c, pending)
    PROVE  \E row \in Capture :
              capture' = [capture EXCEPT ![c] = row] /\ Shape(c, row)
<1>1. capture[c] \in Capture
  BY DEF CaptureTypeOK
<1>2. CASE capture[c].attempt < MAX_ATTEMPTS
  <2> DEFINE row == [capture[c] EXCEPT !.pc = "waiting", !.attempt = @ + 1]
  <2>1. /\ row \in Capture
        /\ row.pc = "waiting" /\ row.user = capture[c].user
        /\ row.image = capture[c].image
    BY <1>1, <1>2, AskRow
  <2>2. capture' = [capture EXCEPT ![c] = row]
    <3>1. capture' = [capture EXCEPT ![c].pc = "waiting", ![c].attempt = @ + 1]
      BY <1>2 DEF NextAttempt, MAX_ATTEMPTS
    <3> QED  BY <3>1 DEF CaptureTypeOK
  <2>3. [CallOf(c) EXCEPT !.attempt = @ + 1] \in Call
    <3>1. capture[c].attempt + 1 \in 1..MAX_ATTEMPTS
      BY <1>1, <1>2 DEF Capture, MAX_ATTEMPTS
    <3>2. [CallOf(c) EXCEPT !.attempt = @ + 1]
              = [image |-> capture[c].image,
                 attempt |-> capture[c].attempt + 1]
      BY DEF CallOf
    <3> QED  BY <3>1, <3>2 DEF Call
  <2>4. calls' \subseteq calls \union Call
    BY <1>2, <2>3 DEF NextAttempt, MAX_ATTEMPTS
  <2> HIDE DEF row
  <2> QED  BY <2>1, <2>2, <2>4 DEF NextAttempt, Shape, Asked
<1>3. CASE capture[c].attempt = MAX_ATTEMPTS
  BY <1>3, NoCaptureTyped
  DEF NextAttempt, MAX_ATTEMPTS, End, Shape, Dropped
<1> QED  BY <1>2, <1>3 DEF NextAttempt

LEMMA CaptureShapes ==
    ASSUME CaptureIndInv, NEW c \in Captures, Serve(c)
    PROVE  \E row \in Capture :
              capture' = [capture EXCEPT ![c] = row] /\ Shape(c, row)
<1> USE DEF CaptureIndInv
<1>1. Running(c) => capture[c].image \in Images
  BY DEF CaptureAgrees
<1>2. capture[c] \in Capture
  BY DEF CaptureTypeOK
<1>3. ASSUME NEW u \in Users, NEW m \in Images, Upload(c, u, m)
      PROVE  \E row \in Capture :
                capture' = [capture EXCEPT ![c] = row] /\ Shape(c, row)
  <2> DEFINE row == [NoCapture EXCEPT !.pc = "stored", !.user = u, !.image = m]
  <2>1. row \in Capture
    BY UploadRow
  <2>2. row.pc = "stored" /\ row.user = u /\ row.image = m
    BY DEF NoCapture
  <2>3. capture' = [capture EXCEPT ![c] = row]
    BY <1>3 DEF Upload
  <2> HIDE DEF row
  <2> QED  BY <1>3, <2>1, <2>2, <2>3 DEF Upload, FreshKey, Shape, Uploaded
<1>4. CASE Extract(c) \/ TimeOut(c)
  <2>1. Running(c) /\ NextAttempt(c, calls)
    BY <1>4 DEF Extract, TimeOut, Running
  <2> QED  BY <1>1, <2>1, NextAttemptShape
<1>5. CASE DownscaleFails(c) \/ AbandonCapture(c)
  BY <1>5, NoCaptureTyped
  DEF DownscaleFails, AbandonCapture, End, Shape, Dropped
<1>6. ASSUME NEW call \in calls, ProviderError(c, call)
      PROVE  \E row \in Capture :
                capture' = [capture EXCEPT ![c] = row] /\ Shape(c, row)
  BY <1>1, <1>6, NextAttemptShape DEF ProviderError, Awaits, Running
<1>7. ASSUME NEW call \in calls, NEW answer \in Answers,
             AnswerArrives(c, call, answer)
      PROVE  \E row \in Capture :
                capture' = [capture EXCEPT ![c] = row] /\ Shape(c, row)
  <2>1. Running(c) /\ call.image = capture[c].image
    BY <1>7 DEF AnswerArrives, Awaits, Running, CallOf
  <2>2. CASE NextAttempt(c, calls \ {call})
    BY <1>1, <2>1, <2>2, NextAttemptShape
  <2>3. CASE /\ End(c)
             /\ calls' = calls \ {call}
             /\ UNCHANGED <<itemVars, object, picture>>
    BY <2>3, NoCaptureTyped DEF End, Shape, Dropped
  <2>4. ASSUME NEW cents \in roundToCents(answer.price),
               canAutoCreate(answer, cents),
               capture' = [capture EXCEPT
                   ![c].pc = "creating",
                   ![c].details = autoCreateDto(answer, cents),
                   ![c].readFrom = call.image,
                   ![c].sure = ~answer.uncertain],
               calls' = calls \ {call},
               UNCHANGED <<itemVars, object, picture>>
        PROVE  \E row \in Capture :
                  capture' = [capture EXCEPT ![c] = row] /\ Shape(c, row)
    <3> DEFINE d == autoCreateDto(answer, cents)
               row == [capture[c] EXCEPT !.pc = "creating", !.details = d,
                                         !.readFrom = call.image,
                                         !.sure = ~answer.uncertain]
    <3>1. d \in Details /\ ~answer.uncertain
      BY <2>4, AnswersAssumption, AutoCreatedIsConfirmable
    <3>2. capture' = [capture EXCEPT ![c] = row]
      BY <2>4 DEF CaptureTypeOK
    <3> HIDE DEF d
    <3>3. row \in Capture
      BY <1>1, <1>2, <2>1, <3>1, SettleRow
    <3>4. /\ row.pc = "creating" /\ row.user = capture[c].user
          /\ row.image = capture[c].image /\ row.details = d
          /\ row.readFrom = call.image /\ row.sure
      BY <1>2, <3>1 DEF Capture
    <3> HIDE DEF row
    <3> QED  BY <2>1, <2>4, <3>1, <3>2, <3>3, <3>4 DEF Shape, Settled
  <2> QED  BY <1>7, <2>2, <2>3, <2>4 DEF AnswerArrives
<1>8. CASE CreateItem(c)
  BY <1>8, NoCaptureTyped
  DEF CreateItem, End, Shape, Created, Dropped
<1> QED  BY <1>3, <1>4, <1>5, <1>6, <1>7, <1>8 DEF Serve, Proceed

-----------------------------------------------------------------------------
(* The inductive invariant.                                                *)

LEMMA CaptureInit == Init => CaptureIndInv
<1> SUFFICES ASSUME Init PROVE CaptureIndInv
  OBVIOUS
<1>1. \A c \in Captures : capture[c] = NoCapture
  BY DEF Init
<1>2. \A i \in Items : picture[i] = NoPicture
  BY DEF Init
<1>3. NoPicture \in Picture
  BY DEF NoPicture, Picture
<1>4. CaptureTypeOK
  BY <1>1, <1>2, <1>3, NoCaptureTyped DEF Init, CaptureTypeOK
<1>5. \A c \in Captures : CaptureAgrees(c)
  BY <1>1 DEF CaptureAgrees, Running, NoCapture
<1>6. ItemsShowWhatWasRead /\ OneItemPerImage
  BY <1>2 DEF ItemsShowWhatWasRead, OneItemPerImage, NoPicture
<1> QED  BY <1>4, <1>5, <1>6 DEF CaptureIndInv

(* A step that leaves the bucket and the rows alone.                       *)
LEMMA AnsweringPreserves ==
    ASSUME CaptureIndInv, NEW c \in Captures, NEW row \in Capture,
           capture' = [capture EXCEPT ![c] = row],
           Asked(c, row) \/ Settled(c, row) \/ Dropped(c, row)
    PROVE  CaptureIndInv'
<1> USE DEF CaptureIndInv
<1>1. UNCHANGED <<itemVars, object, picture>>
  BY DEF Asked, Settled, Dropped
<1>2. CaptureTypeOK'
  BY <1>1 DEF CaptureTypeOK, Asked, Settled, Dropped
<1>3. /\ capture'[c] = row
      /\ \A d \in Captures \ {c} : capture'[d] = capture[d]
  BY DEF CaptureTypeOK
<1>4. row.image \in {capture[c].image, None}
  BY DEF Asked, Settled, Dropped, NoCapture
<1>5. CaptureAgrees(c)'
  BY <1>1, <1>3
  DEF Asked, Settled, Dropped, NoCapture, CaptureAgrees, Running
<1>6. ASSUME NEW d \in Captures \ {c}
      PROVE  CaptureAgrees(d)'
  <2>1. CaptureAgrees(d)
    OBVIOUS
  <2>2. Running(d) => row.image # capture[d].image
    BY <1>4, <2>1, ImagesAssumption DEF CaptureAgrees
  <2>3. Running(d) =>
            \A e \in Captures \ {d} : capture'[e].image # capture'[d].image
    BY <1>3, <2>1, <2>2 DEF CaptureAgrees
  <2> QED  BY <1>1, <1>3, <2>1, <2>3 DEF CaptureAgrees, Running
<1>7. ItemsShowWhatWasRead' /\ OneItemPerImage'
  BY <1>1 DEF ItemsShowWhatWasRead, OneItemPerImage, Stored, itemVars
<1> QED  BY <1>2, <1>5, <1>6, <1>7

(* An upload takes a key that no capture and no row can have.              *)
LEMMA UploadPreserves ==
    ASSUME ItemsTypeOK, CaptureIndInv, NEW c \in Captures,
           NEW row \in Capture, capture' = [capture EXCEPT ![c] = row],
           Uploaded(c, row)
    PROVE  CaptureIndInv'
<1> USE NoneAssumption DEF CaptureIndInv
<1>1. PICK u \in Users, m \in Images :
          /\ ~Running(c)
          /\ object[m] = None
          /\ object' = [object EXCEPT ![m] = u]
          /\ row.pc = "stored" /\ row.user = u /\ row.image = m
          /\ UNCHANGED <<itemVars, picture, calls>>
  BY DEF Uploaded
<1>2. CaptureTypeOK'
  BY <1>1 DEF CaptureTypeOK
<1>3. /\ capture'[c] = row
      /\ \A d \in Captures \ {c} : capture'[d] = capture[d]
      /\ object'[m] = u
      /\ \A k \in Images \ {m} : object'[k] = object[k]
  BY <1>1 DEF CaptureTypeOK
<1>4. \A d \in Captures : capture[d].image # m
  BY <1>1, ImagesAssumption DEF CaptureAgrees
<1>5. \A i \in Items : picture[i].image # m
  BY <1>1, ImagesAssumption DEF ItemsShowWhatWasRead, ItemsTypeOK
<1>6. CaptureAgrees(c)'
  BY <1>1, <1>3, <1>4, <1>5 DEF CaptureAgrees, Running
<1>7. ASSUME NEW d \in Captures \ {c}
      PROVE  CaptureAgrees(d)'
  <2>1. CaptureAgrees(d)
    OBVIOUS
  <2>2. Running(d) =>
            \A e \in Captures \ {d} : capture'[e].image # capture'[d].image
    BY <1>1, <1>3, <1>4, <2>1 DEF CaptureAgrees
  <2> QED  BY <1>1, <1>3, <1>4, <2>1, <2>2 DEF CaptureAgrees, Running
<1>8. ItemsShowWhatWasRead' /\ OneItemPerImage'
  <2>1. \A i \in Items : picture[i].image \in Images \union {None}
    BY DEF CaptureTypeOK, Picture
  <2> QED  BY <1>1, <1>3, <1>5, <2>1
           DEF ItemsShowWhatWasRead, OneItemPerImage, Stored, itemVars
<1> QED  BY <1>2, <1>6, <1>7, <1>8

(* The item that is created is new, and so is its image among the items.   *)
LEMMA CreatingPreserves ==
    ASSUME ItemsTypeOK, CaptureIndInv, NEW c \in Captures,
           NEW row \in Capture, capture' = [capture EXCEPT ![c] = row],
           Created(c, row)
    PROVE  CaptureIndInv'
<1> USE DEF CaptureIndInv
<1>1. PICK i \in Items :
          /\ Create(capture[c].user, i, capture[c].details)
          /\ picture' = [picture EXCEPT
                 ![i] = [image |-> capture[c].image,
                         readFrom |-> capture[c].readFrom,
                         sure |-> capture[c].sure]]
  BY DEF Created
<1>2. /\ row = NoCapture
      /\ capture[c].pc = "creating"
      /\ UNCHANGED <<object, calls>>
  BY DEF Created
<1> DEFINE p == [image |-> capture[c].image,
                 readFrom |-> capture[c].readFrom,
                 sure |-> capture[c].sure]
<1>3. p \in Picture
  BY DEF CaptureTypeOK, Capture, Picture
<1>4. /\ p.image = capture[c].image /\ p.readFrom = capture[c].readFrom
      /\ p.sure = capture[c].sure
      /\ picture' = [picture EXCEPT ![i] = p]
  BY <1>1
<1> HIDE DEF p
<1>5. CaptureTypeOK'
  BY <1>2, <1>3, <1>4 DEF CaptureTypeOK
<1>6. /\ capture'[c] = NoCapture
      /\ \A d \in Captures \ {c} : capture'[d] = capture[d]
      /\ picture'[i] = p
      /\ \A j \in Items \ {i} : picture'[j] = picture[j]
  BY <1>2, <1>4 DEF CaptureTypeOK
<1>7. /\ item'[i].status = "WISHLIST" /\ item'[i].owner = capture[c].user
      /\ \A j \in Items \ {i} : item'[j] = item[j]
  BY <1>1 DEF Create, ItemsTypeOK, Unborn
<1>8. /\ object[capture[c].image] = capture[c].user
      /\ capture[c].image \in Images
      /\ capture[c].readFrom = capture[c].image /\ capture[c].sure
      /\ \A j \in Items : picture[j].image # capture[c].image
      /\ \A d \in Captures \ {c} : capture[d].image # capture[c].image
  BY <1>2 DEF CaptureAgrees, Running
<1>9. CaptureAgrees(c)'
  BY <1>6 DEF CaptureAgrees, Running, NoCapture
<1>10. ASSUME NEW d \in Captures \ {c}
       PROVE  CaptureAgrees(d)'
  <2>1. CaptureAgrees(d)
    OBVIOUS
  <2>2. Running(d) =>
            \A e \in Captures \ {d} : capture'[e].image # capture'[d].image
    BY <1>6, <2>1, ImagesAssumption DEF CaptureAgrees, NoCapture
  <2>3. Running(d) => \A j \in Items : picture'[j].image # capture'[d].image
    BY <1>4, <1>6, <1>8, <2>1 DEF CaptureAgrees
  <2> QED  BY <1>2, <1>6, <2>1, <2>2, <2>3 DEF CaptureAgrees, Running
<1>11. ItemsShowWhatWasRead'
  <2>1. /\ Stored(i)'
        /\ picture'[i].readFrom = picture'[i].image
        /\ object'[picture'[i].image] = item'[i].owner
    BY <1>2, <1>4, <1>6, <1>7, <1>8 DEF Stored, ItemStatus
  <2>2. picture'[i].sure
    BY <1>4, <1>6, <1>8
  <2>3. ASSUME NEW j \in Items \ {i}, picture'[j].image # None
        PROVE  /\ Stored(j)'
               /\ picture'[j].readFrom = picture'[j].image
               /\ picture'[j].sure
               /\ object'[picture'[j].image] = item'[j].owner
    BY <1>2, <1>6, <1>7, <2>3 DEF ItemsShowWhatWasRead, Stored
  <2> QED  BY <2>1, <2>2, <2>3 DEF ItemsShowWhatWasRead
<1>12. OneItemPerImage'
  BY <1>4, <1>6, <1>8 DEF OneItemPerImage
<1> QED  BY <1>5, <1>9, <1>10, <1>11, <1>12

(* A stored row keeps its owner for as long as it is stored.               *)
LEMMA RowsKeepTheirOwner ==
    ASSUME ItemsIndInv, ItemsNext, NEW i \in Items, Stored(i),
           item'[i].status # "gone"
    PROVE  Stored(i)' /\ item'[i].owner = item[i].owner
<1>1. ItemStepOf(i)
  BY StepShapes DEF ItemsIndInv
<1>2. ~Creates(i) /\ ~Cascaded(i)
  BY DEF Creates, Cascaded, Gone, Unborn, Stored, ItemStatus
<1>3. ASSUME NEW r \in Requests, Written(r, i)
      PROVE  Stored(i)' /\ item'[i].owner = item[i].owner
  <2>1. RequestAgrees(r)
    BY DEF ItemsIndInv
  <2> QED  BY <1>3, <2>1
           DEF Written, RequestAgrees, requestableStatuses, Stored, ItemStatus,
               Gone, Unborn
<1> QED  BY <1>1, <1>2, <1>3 DEF ItemStepOf, Stored

LEMMA ItemStepPreserves ==
    ASSUME ItemsIndInv, CaptureIndInv, ItemStep
    PROVE  CaptureIndInv'
<1> USE DEF CaptureIndInv
<1>1. /\ ItemsNext
      /\ UNCHANGED <<object, capture, calls>>
  BY DEF ItemStep
<1>2. \A i \in Items :
          picture'[i] = IF item'[i].status = "gone" THEN NoPicture
                                                   ELSE picture[i]
  BY DEF ItemStep
<1>3. NoPicture \in Picture /\ NoPicture.image = None
  BY DEF NoPicture, Picture
<1>4. CaptureTypeOK'
  <2>1. picture' \in [Items -> Picture]
    BY <1>3 DEF ItemStep, CaptureTypeOK
  <2> QED  BY <1>1, <2>1 DEF CaptureTypeOK
<1>5. ASSUME NEW c \in Captures
      PROVE  CaptureAgrees(c)'
  <2>1. CaptureAgrees(c)
    OBVIOUS
  <2>2. Running(c) => \A i \in Items : picture'[i].image # capture[c].image
    BY <1>2, <1>3, <2>1, ImagesAssumption DEF CaptureAgrees
  <2> QED  BY <1>1, <2>1, <2>2 DEF CaptureAgrees, Running
<1>6. ItemsShowWhatWasRead'
  <2>1. ASSUME NEW i \in Items, picture'[i].image # None
        PROVE  /\ Stored(i)'
               /\ picture'[i].readFrom = picture'[i].image
               /\ picture'[i].sure
               /\ object'[picture'[i].image] = item'[i].owner
    <3>1. item'[i].status # "gone" /\ picture'[i] = picture[i]
      BY <1>2, <1>3, <2>1
    <3>2. Stored(i)
      BY <2>1, <3>1 DEF ItemsShowWhatWasRead
    <3>3. Stored(i)' /\ item'[i].owner = item[i].owner
      BY <1>1, <3>1, <3>2, RowsKeepTheirOwner
    <3> QED  BY <1>1, <2>1, <3>1, <3>3 DEF ItemsShowWhatWasRead
  <2> QED  BY <2>1 DEF ItemsShowWhatWasRead
<1>7. OneItemPerImage'
  BY <1>2, <1>3 DEF OneItemPerImage
<1> QED  BY <1>4, <1>5, <1>6, <1>7

LEMMA CaptureStep ==
    ASSUME ItemsIndInv, CaptureIndInv, [Next]_allVars
    PROVE  CaptureIndInv'
<1>1. CASE ItemStep
  BY <1>1, ItemStepPreserves
<1>2. ASSUME NEW c \in Captures, Serve(c)
      PROVE  CaptureIndInv'
  <2>1. PICK row \in Capture :
            capture' = [capture EXCEPT ![c] = row] /\ Shape(c, row)
    BY <1>2, CaptureShapes
  <2> QED  BY <2>1, AnsweringPreserves, UploadPreserves, CreatingPreserves
           DEF Shape, ItemsIndInv
<1>3. CASE UNCHANGED <<itemVars, object, picture, capture>> /\ calls' \subseteq calls
  BY <1>3
  DEF CaptureIndInv, CaptureTypeOK, CaptureAgrees, Running, itemVars,
      ItemsShowWhatWasRead, OneItemPerImage, Stored
<1>4. ASSUME NEW call \in calls, LateAnswer(call)
      PROVE  CaptureIndInv'
  BY <1>3, <1>4 DEF LateAnswer
<1>5. CASE UNCHANGED allVars
  BY <1>3, <1>5 DEF allVars, captureVars
<1> QED  BY <1>1, <1>2, <1>4, <1>5 DEF Next

(* To the items a capture is one more client that creates.                 *)
LEMMA CaptureStepIsAnItemStep ==
    ASSUME CaptureIndInv, [Next]_allVars
    PROVE  [ItemsNext]_itemVars
<1>1. CASE ItemStep
  BY <1>1 DEF ItemStep
<1>2. ASSUME NEW c \in Captures, Serve(c)
      PROVE  [ItemsNext]_itemVars
  <2>1. PICK row \in Capture : Shape(c, row)
    BY <1>2, CaptureShapes
  <2>2. CASE Created(c, row)
    <3>1. capture[c].user \in Users /\ capture[c].details \in Details
      BY <2>2 DEF Created, CaptureIndInv, CaptureAgrees, Running
    <3> QED  BY <2>2, <3>1 DEF Created, ItemsNext
  <2>3. CASE ~Created(c, row)
    BY <2>1, <2>3 DEF Shape, Uploaded, Asked, Settled, Dropped
  <2> QED  BY <2>2, <2>3
<1>3. CASE UNCHANGED itemVars
  BY <1>3
<1> QED  BY <1>1, <1>2, <1>3 DEF Next, LateAnswer, allVars

-----------------------------------------------------------------------------

(* The invariant holds throughout, on top of that of the items.            *)
THEOREM CaptureIndInvHolds == Spec => [](ItemsIndInv /\ CaptureIndInv)
<1>1. Init => ItemsIndInv /\ CaptureIndInv
  BY IndInvInit, CaptureInit DEF Init
<1>2. ItemsIndInv /\ CaptureIndInv /\ [Next]_allVars
          => (ItemsIndInv /\ CaptureIndInv)'
  BY IndInvStep, CaptureStep, CaptureStepIsAnItemStep
<1> QED  BY <1>1, <1>2, PTL DEF Spec

(* Every behaviour of the captures is one of the items' own specification, *)
(* so all that ItemsProofs shows of an item also holds of an item that was *)
(* created from a screenshot.                                              *)
THEOREM CapturesRefineItems == Spec => ItemsSpec
<1>1. Init => ItemsInit
  BY DEF Init
<1>2. CaptureIndInv /\ [Next]_allVars => [ItemsNext]_itemVars
  BY CaptureStepIsAnItemStep
<1> QED  BY <1>1, <1>2, CaptureIndInvHolds, PTL DEF Spec, ItemsSpec

(* The bucket, the rows and the requests keep their shape                  *)
(* (ScreenshotCapture, CaptureTypeOK).                                     *)
THEOREM CaptureTypeCorrect == Spec => []CaptureTypeOK
<1>1. CaptureIndInv => CaptureTypeOK
  BY DEF CaptureIndInv
<1> QED  BY <1>1, CaptureIndInvHolds, PTL

(* Whatever the model answers and however late, an auto-created item shows *)
(* the image it was read from, stored under its owner                      *)
(* (ScreenshotCapture, ItemsShowWhatWasRead).                              *)
THEOREM ItemsAreOfTheirImages == Spec => []ItemsShowWhatWasRead
<1>1. CaptureIndInv => ItemsShowWhatWasRead
  BY DEF CaptureIndInv
<1> QED  BY <1>1, CaptureIndInvHolds, PTL

(* No two items share an image (ScreenshotCapture, OneItemPerImage).       *)
THEOREM ImagesAreNotShared == Spec => []OneItemPerImage
<1>1. CaptureIndInv => OneItemPerImage
  BY DEF CaptureIndInv
<1> QED  BY <1>1, CaptureIndInvHolds, PTL

(* No answer of the model makes a row that POST /items would have refused  *)
(* (ScreenshotCapture, RowsAreConfirmable).                                *)
THEOREM RowsStayConfirmable == Spec => []RowsAreConfirmable
<1>1. ItemsIndInv => RowsAreConfirmable
  BY DetailsAssumption DEF ItemsIndInv, ItemsTypeOK, RowsAreConfirmable
<1> QED  BY <1>1, CaptureIndInvHolds, PTL

-----------------------------------------------------------------------------
(* Captures end.  The attempts at one image, in order, and what follows.   *)

InLoop(c, m, n) ==
    /\ capture[c].image = m
    /\ capture[c].pc \in {"stored", "waiting"}
    /\ capture[c].attempt = n
Creating(c, m) == capture[c].image = m /\ capture[c].pc = "creating"
DoneWith(c, m) == capture[c].image # m

GoesOn(c, m, n) == (n < MAX_ATTEMPTS /\ InLoop(c, m, n + 1)) \/ DoneWith(c, m)

(* An ended request has no image left.                                     *)
LEMMA EndIsDone ==
    ASSUME CaptureTypeOK, NEW c \in Captures, End(c), NEW m \in Images
    PROVE  DoneWith(c, m)'
  BY ImagesAssumption DEF End, NoCapture, DoneWith, CaptureTypeOK

(* A turn of the loop asks once more, or the capture is over.              *)
LEMMA NextAttemptMoves ==
    ASSUME CaptureTypeOK, NEW c \in Captures, NEW pending,
           NextAttempt(c, pending), NEW m \in Images, capture[c].image = m,
           NEW n \in 0..MAX_ATTEMPTS, capture[c].attempt = n
    PROVE  GoesOn(c, m, n)'
<1>1. capture[c] \in Capture
  BY DEF CaptureTypeOK
<1>2. CASE n < MAX_ATTEMPTS
  <2>1. capture' = [capture EXCEPT ![c].pc = "waiting", ![c].attempt = @ + 1]
    BY <1>2 DEF NextAttempt, MAX_ATTEMPTS
  <2>2. InLoop(c, m, n + 1)'
    BY <1>1, <2>1 DEF InLoop, CaptureTypeOK, Capture, MAX_ATTEMPTS
  <2> QED  BY <1>2, <2>2 DEF GoesOn
<1>3. CASE n = MAX_ATTEMPTS
  BY <1>3, EndIsDone DEF NextAttempt, MAX_ATTEMPTS, GoesOn
<1> QED  BY <1>2, <1>3 DEF MAX_ATTEMPTS

(* What the request of another slot, or nobody's, leaves alone.            *)
LEMMA OthersMoves ==
    ASSUME CaptureIndInv, NEW c \in Captures, [Next]_allVars, ~Serve(c)
    PROVE  capture'[c] = capture[c]
<1>1. ASSUME NEW d \in Captures, Serve(d)
      PROVE  capture'[c] = capture[c]
  BY <1>1, CaptureShapes DEF CaptureIndInv, CaptureTypeOK
<1> QED
  BY <1>1 DEF Next, ItemStep, LateAnswer, allVars, captureVars

(* One step of the handler itself, with the model silent.                  *)
LEMMA ProceedMoves ==
    ASSUME CaptureIndInv, NEW c \in Captures, Proceed(c), NEW m \in Images
    PROVE  /\ \A n \in 0..MAX_ATTEMPTS : InLoop(c, m, n) => GoesOn(c, m, n)'
           /\ Creating(c, m) => DoneWith(c, m)'
<1> USE DEF CaptureIndInv
<1>1. ASSUME NEW n \in 0..MAX_ATTEMPTS, InLoop(c, m, n)
      PROVE  GoesOn(c, m, n)'
  <2>1. CASE Extract(c) \/ TimeOut(c)
    BY <1>1, <2>1, NextAttemptMoves DEF Extract, TimeOut, InLoop
  <2>2. CASE DownscaleFails(c)
    BY <2>2, EndIsDone DEF DownscaleFails, GoesOn
  <2>3. ~CreateItem(c)
    BY <1>1 DEF InLoop, CreateItem
  <2> QED  BY <2>1, <2>2, <2>3 DEF Proceed
<1>2. ASSUME Creating(c, m)
      PROVE  DoneWith(c, m)'
  <2>1. CreateItem(c)
    BY <1>2 DEF Creating, Proceed, Extract, TimeOut, DownscaleFails
  <2> QED  BY <2>1, EndIsDone DEF CreateItem
<1> QED  BY <1>1, <1>2

(* Any step at all: an attempt is never started over, an image is never    *)
(* taken up again by the capture that has it.                              *)
LEMMA CaptureMoves ==
    ASSUME CaptureIndInv, NEW c \in Captures, [Next]_allVars, NEW m \in Images
    PROVE  /\ \A n \in 0..MAX_ATTEMPTS :
                 InLoop(c, m, n) =>
                     (InLoop(c, m, n) \/ GoesOn(c, m, n) \/ Creating(c, m))'
           /\ Creating(c, m) => (Creating(c, m) \/ DoneWith(c, m))'
<1> USE DEF CaptureIndInv
<1>1. CASE ~Serve(c)
  BY <1>1, OthersMoves DEF InLoop, Creating
<1>2. CASE Proceed(c)
  BY <1>2, ProceedMoves
<1>3. CASE AbandonCapture(c)
  BY <1>3, EndIsDone DEF AbandonCapture, GoesOn
<1>4. ASSUME NEW u \in Users, NEW k \in Images, Upload(c, u, k)
      PROVE  /\ \A n \in 0..MAX_ATTEMPTS : ~InLoop(c, m, n)
             /\ ~Creating(c, m)
  BY <1>4, ImagesAssumption DEF Upload, CaptureAgrees, InLoop, Creating
<1>5. ASSUME NEW call \in calls, ProviderError(c, call),
             NEW n \in 0..MAX_ATTEMPTS, InLoop(c, m, n)
      PROVE  GoesOn(c, m, n)'
  BY <1>5, NextAttemptMoves DEF ProviderError, InLoop
<1>6. ASSUME NEW call \in calls, NEW answer \in Answers,
             AnswerArrives(c, call, answer),
             NEW n \in 0..MAX_ATTEMPTS, InLoop(c, m, n)
      PROVE  (GoesOn(c, m, n) \/ Creating(c, m))'
  <2>1. CASE NextAttempt(c, calls \ {call})
    BY <1>6, <2>1, NextAttemptMoves DEF InLoop
  <2>2. CASE End(c)
    BY <2>2, EndIsDone DEF GoesOn
  <2>3. ASSUME NEW cents,
               capture' = [capture EXCEPT
                   ![c].pc = "creating",
                   ![c].details = autoCreateDto(answer, cents),
                   ![c].readFrom = call.image,
                   ![c].sure = ~answer.uncertain]
        PROVE  Creating(c, m)'
    BY <1>6, <2>3 DEF InLoop, Creating, CaptureTypeOK, Capture
  <2> QED  BY <1>6, <2>1, <2>2, <2>3 DEF AnswerArrives
<1>7. ASSUME NEW call \in calls,
             \/ ProviderError(c, call)
             \/ \E answer \in Answers : AnswerArrives(c, call, answer)
      PROVE  ~Creating(c, m)
  BY <1>7 DEF ProviderError, AnswerArrives, Awaits, Creating
<1> QED
  BY <1>1, <1>2, <1>3, <1>4, <1>5, <1>6, <1>7 DEF Serve

(* A hung provider pins no worker: whatever the model does, and however    *)
(* many captures there are, once the image is stored the capture ends      *)
(* (ScreenshotCapture, CapturesEnd).  That a running capture has a step to *)
(* take is the premise, which the run of captures checks.                  *)
THEOREM CapturesDoEnd == FairSpec /\ []NeverWaitsForTheModel => CapturesEnd
<1> SUFFICES ASSUME NEW c \in Captures, NEW m \in Images
             PROVE  Spec /\ Served(c) /\ []NeverWaitsForTheModel => Ends(c, m)
  BY DEF FairSpec, CapturesEnd
<1> DEFINE In(n) == InLoop(c, m, n)
           Cr == Creating(c, m)
           Dn == DoneWith(c, m)
<1>1. capture[c].image = m /\ CaptureIndInv => In(0) \/ In(1) \/ In(2) \/ Cr
  BY ImagesAssumption
  DEF CaptureIndInv, CaptureTypeOK, CaptureAgrees, Running, Capture,
      MAX_ATTEMPTS, InLoop, Creating
<1>2. In(0) \/ In(1) \/ In(2) \/ Cr => capture[c].image = m /\ Running(c)
  BY DEF InLoop, Creating, Running
<1>3. NeverWaitsForTheModel /\ Running(c) => ENABLED <<Proceed(c)>>_allVars
  BY DEF NeverWaitsForTheModel
<1>4. CaptureIndInv /\ [Next]_allVars /\ In(0)
          => (In(0) \/ In(1) \/ Cr \/ Dn)'
  BY CaptureMoves DEF MAX_ATTEMPTS, GoesOn
<1>5. CaptureIndInv /\ [Next]_allVars /\ In(1)
          => (In(1) \/ In(2) \/ Cr \/ Dn)'
  BY CaptureMoves DEF MAX_ATTEMPTS, GoesOn
<1>6. CaptureIndInv /\ [Next]_allVars /\ In(2) => (In(2) \/ Cr \/ Dn)'
  BY CaptureMoves DEF MAX_ATTEMPTS, GoesOn
<1>7. CaptureIndInv /\ [Next]_allVars /\ Cr => (Cr \/ Dn)'
  BY CaptureMoves
<1>8. CaptureIndInv /\ <<Proceed(c)>>_allVars /\ In(0) => (In(1) \/ Dn)'
  BY ProceedMoves DEF MAX_ATTEMPTS, GoesOn
<1>9. CaptureIndInv /\ <<Proceed(c)>>_allVars /\ In(1) => (In(2) \/ Dn)'
  BY ProceedMoves DEF MAX_ATTEMPTS, GoesOn
<1>10. CaptureIndInv /\ <<Proceed(c)>>_allVars /\ In(2) => Dn'
  BY ProceedMoves DEF MAX_ATTEMPTS, GoesOn
<1>11. CaptureIndInv /\ <<Proceed(c)>>_allVars /\ Cr => Dn'
  BY ProceedMoves
<1>12. Dn <=> capture[c].image # m
  BY DEF DoneWith
<1>13. /\ In(0) => ~In(1) /\ ~In(2) /\ ~Cr
       /\ In(1) => ~In(2) /\ ~Cr
       /\ In(2) => ~Cr
  BY DEF InLoop, Creating
<1> HIDE DEF In, Cr, Dn
<1> QED
  BY <1>1, <1>2, <1>3, <1>4, <1>5, <1>6, <1>7, <1>8, <1>9, <1>10, <1>11,
     <1>12, <1>13, CaptureIndInvHolds, PTL
  DEF Spec, Served, Ends

=============================================================================
