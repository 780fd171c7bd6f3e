----------------------------- MODULE ItemsProofs ----------------------------
(***************************************************************************)
(* Theorems about the item lifecycle of Items, for every number of users,  *)
(* items and concurrent requests.                                          *)
(*                                                                         *)
(* A write by id relies on a read that may be stale, so the invariant ties *)
(* each request's locals to the row as it is now: what a row can have      *)
(* become meanwhile never gives it another owner, and never makes a        *)
(* purchase that was read unhappen.                                        *)
(***************************************************************************)
EXTENDS Items, TLAPS

(* What a step can do to the items table, in the shapes the properties     *)
(* distinguish: nothing, a new row, a write by one request, the end of a   *)
(* user with all its items.                                                *)
Creates(i) ==
    /\ item[i].status = "unborn"
    /\ item'[i].status = "WISHLIST"
    /\ item'[i].owner \in registered'
    /\ item'[i].details \in Details

Written(r, i) ==
    /\ request[r].op # "idle"
    /\ request'[r] = Idle
    /\ Target(r) = i
    /\ Stored(i)
    /\ registered' = registered
    /\ \/ /\ request[r].op = "update"
          /\ item'[i].status = item[i].status
          /\ item'[i].owner = item[i].owner
          /\ item'[i].bought = item[i].bought
          /\ item'[i].details \in {item[i].details} \union Details
       \/ /\ request[r].op = "updateStatus"
          /\ item'[i].status = request[r].to
          /\ item'[i].owner = item[i].owner
          /\ item'[i].bought = (item[i].bought \/ request[r].to = "PURCHASED")
          /\ item'[i].details = item[i].details
       \/ /\ request[r].op = "remove"
          /\ item'[i] = Gone

Cascaded(i) ==
    /\ item[i].owner \in registered \ registered'
    /\ item'[i] = Gone

(* A stored item that is not written keeps its row.                        *)
ItemStepOf(i) ==
    \/ item'[i] = item[i] /\ (Stored(i) => item[i].owner \in registered')
    \/ Creates(i)
    \/ \E r \in Requests : Written(r, i)
    \/ Cascaded(i)

-----------------------------------------------------------------------------

(* The four shapes are all there is.                                       *)
LEMMA StepShapes ==
    ASSUME ItemsTypeOK, \A r \in Requests : RequestAgrees(r), ItemsNext,
           NEW i \in Items
    PROVE  ItemStepOf(i)
<1> USE NoneAssumption
<1>1. ASSUME NEW u \in Users, NEW j \in Items, NEW d \in Details,
             Create(u, j, d)
      PROVE  ItemStepOf(i)
  <2>1. CASE i = j
    BY <1>1, <2>1 DEF Create, Unborn, ItemsTypeOK, Row, ItemStepOf, Creates
  <2>2. CASE i # j
    BY <1>1, <2>2 DEF Create, ItemsTypeOK, ItemStepOf
  <2> QED  BY <2>1, <2>2
<1>2. ASSUME NEW u \in Users, DeleteUser(u)
      PROVE  ItemStepOf(i)
  <2>1. CASE item[i].owner = u
    BY <1>2, <2>1 DEF DeleteUser, ItemStepOf, Cascaded
  <2>2. CASE item[i].owner # u
    BY <1>2, <2>2 DEF DeleteUser, ItemsTypeOK, ItemStepOf
  <2> QED  BY <2>1, <2>2
<1>3. ASSUME NEW r \in Requests, ServeItem(r) \/ Abort(r)
      PROVE  ItemStepOf(i)
  <2>1. item' = item /\ registered' = registered
    BY <1>3 DEF ServeItem, Update, UpdateStatus, Remove, Begin, Abort
  <2> QED  BY <2>1 DEF ItemsTypeOK, ItemStepOf
<1>4. ASSUME NEW r \in Requests, FinishItem(r)
      PROVE  ItemStepOf(i)
  <2>1. /\ request'[r] = Idle
        /\ request[r].op # "idle"
        /\ Stored(Target(r)) \/ item' = item
    BY <1>4 DEF FinishItem, WriteDetails, WriteStatus, DeleteRow, WriteTarget,
                Done, ItemsTypeOK
  <2>2. CASE Target(r) # i \/ item' = item
    BY <1>4, <2>1, <2>2 DEF FinishItem, WriteDetails, WriteStatus, DeleteRow,
                       WriteTarget, ItemsTypeOK, ItemStepOf
  <2>3. CASE Target(r) = i /\ Stored(i)
    <3>1. CASE WriteDetails(r)
      <4>1. item'[i] = [item[i] EXCEPT
                            !.details = Patched(@, request[r].details)]
        BY <2>3, <3>1 DEF WriteDetails, WriteTarget, ItemsTypeOK
      <4>2. /\ item'[i].status = item[i].status
            /\ item'[i].owner = item[i].owner
            /\ item'[i].bought = item[i].bought
            /\ item'[i].details \in {item[i].details} \union Details
        BY <2>3, <4>1 DEF ItemsTypeOK, Row, Request, Patched
      <4> QED  BY <2>1, <2>3, <3>1, <4>2
               DEF WriteDetails, WriteTarget, ItemStepOf, Written
    <3>2. CASE WriteStatus(r)
      <4>1. item'[i] = [item[i] EXCEPT
                            !.status = request[r].to,
                            !.bought = @ \/ request[r].to = "PURCHASED"]
        BY <2>3, <3>2 DEF WriteStatus, WriteTarget, ItemsTypeOK
      <4>2. /\ item'[i].status = request[r].to
            /\ item'[i].owner = item[i].owner
            /\ item'[i].bought
                   = (item[i].bought \/ request[r].to = "PURCHASED")
            /\ item'[i].details = item[i].details
        BY <4>1 DEF ItemsTypeOK, Row
      <4> QED  BY <2>1, <2>3, <3>2, <4>2
               DEF WriteStatus, WriteTarget, ItemStepOf, Written
    <3>3. CASE DeleteRow(r)
      BY <2>1, <2>3, <3>3
      DEF DeleteRow, WriteTarget, ItemsTypeOK, ItemStepOf, Written
    <3> QED  BY <1>4, <3>1, <3>2, <3>3 DEF FinishItem
  <2> QED  BY <2>1, <2>2, <2>3
<1> QED  BY <1>1, <1>2, <1>3, <1>4 DEF ItemsNext

(* What a step can do to a request: nothing, answer it, or begin it from   *)
(* the row it read, which the same step leaves alone.                      *)
Began(r) ==
    LET i == Target(r)'
    IN  /\ request'[r].user \in Users
        /\ i \in Items
        /\ Owned(request'[r].user, i)
        /\ request'[r].read = item[i].status
        /\ request'[r].op = "updateStatus" =>
              /\ request'[r].to \in requestableStatuses
              /\ request'[r].to \in STATUS_TRANSITIONS[item[i].status]
        /\ item' = item

RequestStepOf(r) ==
    \/ request'[r] = request[r]
    \/ request'[r] = Idle
    \/ Began(r)

LEMMA BeginShape ==
    ASSUME request \in [Requests -> Request],
           NEW r \in Requests, NEW u \in Users, NEW i \in Items,
           NEW op \in {"update", "updateStatus", "remove"},
           NEW to, NEW d, Begin(r, op, u, i, to, d)
    PROVE  /\ request'[r].user = u
           /\ request'[r].item = i
           /\ request'[r].op = op
           /\ request'[r].to = to
           /\ request'[r].read = item[i].status
           /\ Owned(u, i)
           /\ item' = item
           /\ \A q \in Requests \ {r} : request'[q] = request[q]
  BY DEF Begin

LEMMA RequestShapes ==
    ASSUME ItemsTypeOK, ItemsNext, NEW q \in Requests
    PROVE  RequestStepOf(q)
<1> USE DEF ItemsTypeOK
<1>1. CASE request' = request
  BY <1>1 DEF RequestStepOf
<1>2. ASSUME NEW r \in Requests, Abort(r) \/ FinishItem(r)
      PROVE  RequestStepOf(q)
  <2>1. request' = [request EXCEPT ![r] = Idle]
    BY <1>2 DEF Abort, FinishItem, WriteDetails, WriteStatus, DeleteRow,
                WriteTarget, Done
  <2> QED  BY <2>1 DEF RequestStepOf
<1>3. ASSUME NEW r \in Requests, ServeItem(r)
      PROVE  RequestStepOf(q)
  <2>1. PICK u \in Users, i \in Items :
            \/ \E d \in Details \union {None} : Update(r, u, i, d)
            \/ \E s \in ItemStatus : UpdateStatus(r, u, i, s)
            \/ Remove(r, u, i)
    BY <1>3 DEF ServeItem
  <2>2. ASSUME NEW d \in Details \union {None}, Update(r, u, i, d)
        PROVE  RequestStepOf(q)
    <3>1. Begin(r, "update", u, i, None, d)
      BY <2>2 DEF Update
    <3> QED  BY <3>1, BeginShape DEF RequestStepOf, Began, Target
  <2>3. ASSUME NEW s \in ItemStatus, UpdateStatus(r, u, i, s)
        PROVE  RequestStepOf(q)
    <3>1. /\ Begin(r, "updateStatus", u, i, s, None)
          /\ s \in requestableStatuses
          /\ s \in STATUS_TRANSITIONS[item[i].status]
      BY <2>3 DEF UpdateStatus, canTransitionTo
    <3> QED  BY <3>1, BeginShape DEF RequestStepOf, Began, Target
  <2>4. ASSUME Remove(r, u, i)
        PROVE  RequestStepOf(q)
    <3>1. Begin(r, "remove", u, i, None, None)
      BY <2>4 DEF Remove
    <3> QED  BY <3>1, BeginShape DEF RequestStepOf, Began, Target
  <2> QED  BY <2>1, <2>2, <2>3, <2>4
<1> QED  BY <1>1, <1>2, <1>3 DEF ItemsNext, Create, DeleteUser

-----------------------------------------------------------------------------
(* Type correctness.                                                       *)

LEMMA TypeInit == ItemsInit => ItemsTypeOK
  BY NoneAssumption
  DEF ItemsInit, ItemsTypeOK, Row, Request, Unborn, Idle, Stored, ItemStatus

(* The rows a step writes are rows.                                        *)
LEMMA RowCreated ==
    ASSUME NEW u \in Users, NEW d \in Details
    PROVE  [Unborn EXCEPT !.status = "WISHLIST", !.owner = u,
                          !.details = d] \in Row
<1>1. Unborn \in Row
  BY DEF Unborn, Row
<1> QED  BY <1>1 DEF Row, ItemStatus

LEMMA RowEdited ==
    ASSUME NEW row \in Row, NEW e \in Details \union {None}
    PROVE  [row EXCEPT !.details = Patched(@, e)] \in Row
  BY DEF Row, Patched

LEMMA RowMoved ==
    ASSUME NEW row \in Row, NEW s \in ItemStatus
    PROVE  [row EXCEPT !.status = s, !.bought = @ \/ s = "PURCHASED"] \in Row
<1> DEFINE b == row.bought \/ s = "PURCHASED"
<1>1. b \in BOOLEAN
  OBVIOUS
<1> HIDE DEF b
<1>2. [row EXCEPT !.status = s, !.bought = b] \in Row
  BY <1>1 DEF Row
<1> QED  BY <1>2 DEF b

LEMMA RowRemoved == Gone \in Row
<1>1. Unborn \in Row
  BY DEF Unborn, Row
<1> QED  BY <1>1 DEF Gone, Row

LEMMA TypeStep ==
    ASSUME ItemsTypeOK, \A r \in Requests : RequestAgrees(r), ItemsNext
    PROVE  ItemsTypeOK'
<1> USE NoneAssumption
<1>1. registered' \subseteq Users
  BY DEF ItemsTypeOK, ItemsNext, Create, DeleteUser, ServeItem, Update,
         UpdateStatus, Remove, Begin, FinishItem, WriteDetails, WriteStatus,
         DeleteRow, WriteTarget, Abort
<1>2. item' \in [Items -> Row]
  <2>1. ASSUME NEW u \in Users, NEW i \in Items, NEW d \in Details,
               Create(u, i, d)
        PROVE  item' \in [Items -> Row]
    <3> DEFINE row == [Unborn EXCEPT !.status = "WISHLIST", !.owner = u,
                                     !.details = d]
    <3>1. item' = [item EXCEPT ![i] = row]
      BY <2>1 DEF Create
    <3>2. row \in Row
      BY RowCreated
    <3> HIDE DEF row
    <3> QED  BY <3>1, <3>2 DEF ItemsTypeOK
  <2>2. ASSUME NEW u \in Users, DeleteUser(u)
        PROVE  item' \in [Items -> Row]
    <3>1. item' = [i \in Items |-> IF item[i].owner = u THEN Gone ELSE item[i]]
      BY <2>2 DEF DeleteUser
    <3>2. \A i \in Items : item[i] \in Row
      BY DEF ItemsTypeOK
    <3> QED  BY <3>1, <3>2, RowRemoved
  <2>3. ASSUME NEW r \in Requests, ServeItem(r) \/ Abort(r)
        PROVE  item' \in [Items -> Row]
    BY <2>3 DEF ServeItem, Update, UpdateStatus, Remove, Begin, Abort,
                ItemsTypeOK
  <2>4. ASSUME NEW r \in Requests, FinishItem(r)
        PROVE  item' \in [Items -> Row]
    <3> DEFINE i == Target(r)
    <3>1. CASE item' = item
      BY <3>1 DEF ItemsTypeOK
    <3>2. ASSUME NEW row \in Row, item' = [item EXCEPT ![i] = row]
          PROVE  item' \in [Items -> Row]
      BY <3>2 DEF ItemsTypeOK
    <3>3. (i \in Items /\ item[i] \in Row) \/ item' = item
      BY <2>4 DEF FinishItem, WriteDetails, WriteStatus, DeleteRow,
                  WriteTarget, RequestAgrees, ItemsTypeOK
    <3>4. CASE WriteDetails(r) /\ item[i] \in Row
      <4>1. [item[i] EXCEPT !.details = Patched(@, request[r].details)]
                \in Row
        BY <3>4, RowEdited DEF ItemsTypeOK, Request
      <4> QED  BY <3>1, <3>2, <3>4, <4>1 DEF WriteDetails, WriteTarget
    <3>5. CASE WriteStatus(r) /\ item[i] \in Row
      <4>1. request[r].to \in ItemStatus
        BY <3>5
        DEF WriteStatus, WriteTarget, RequestAgrees, requestableStatuses,
            ItemStatus
      <4>2. [item[i] EXCEPT !.status = request[r].to,
                            !.bought = @ \/ request[r].to = "PURCHASED"]
                \in Row
        BY <3>5, <4>1, RowMoved
      <4> QED  BY <3>1, <3>2, <3>5, <4>2 DEF WriteStatus, WriteTarget
    <3>6. CASE DeleteRow(r)
      BY <3>1, <3>2, <3>6, RowRemoved DEF DeleteRow, WriteTarget
    <3> QED  BY <2>4, <3>1, <3>3, <3>4, <3>5, <3>6 DEF FinishItem
  <2> QED  BY <2>1, <2>2, <2>3, <2>4 DEF ItemsNext
<1>3. request' \in [Requests -> Request]
  <2>0. Idle \in Request
    BY DEF Idle, Request
  <2>1. ASSUME NEW r \in Requests, NEW u \in Users, NEW i \in Items,
               NEW op \in {"update", "updateStatus", "remove"},
               NEW to \in ItemStatus \union {None},
               NEW d \in Details \union {None}, Begin(r, op, u, i, to, d)
        PROVE  request' \in [Requests -> Request]
    <3> DEFINE req == [op |-> op, user |-> u, item |-> i,
                       read |-> item[i].status, to |-> to, details |-> d]
    <3>1. item[i].status \in ItemStatus
      BY <2>1 DEF Begin, Owned, Stored
    <3>2. req \in Request
      BY <3>1 DEF Request
    <3>3. request' = [request EXCEPT ![r] = req]
      BY <2>1 DEF Begin
    <3> HIDE DEF req
    <3> QED  BY <3>2, <3>3 DEF ItemsTypeOK
  <2>2. ASSUME NEW r \in Requests, ServeItem(r)
        PROVE  request' \in [Requests -> Request]
    BY <2>1, <2>2 DEF ServeItem, Update, UpdateStatus, Remove
  <2>3. ASSUME NEW r \in Requests, FinishItem(r) \/ Abort(r)
        PROVE  request' \in [Requests -> Request]
    <3>1. request' = [request EXCEPT ![r] = Idle]
      BY <2>3 DEF Abort, FinishItem, WriteDetails, WriteStatus, DeleteRow,
                  WriteTarget, Done
    <3> QED  BY <2>0, <3>1 DEF ItemsTypeOK
  <2> QED  BY <2>2, <2>3 DEF ItemsNext, Create, DeleteUser, ItemsTypeOK
<1>4. \A i \in Items : Stored(i)' =>
          item'[i].owner \in registered' /\ item'[i].details \in Details
  BY StepShapes
  DEF ItemsTypeOK, ItemStepOf, Creates, Written, Cascaded, Stored, Gone,
      Unborn, ItemStatus
<1> QED  BY <1>1, <1>2, <1>3, <1>4 DEF ItemsTypeOK

-----------------------------------------------------------------------------
(* The inductive invariant.                                                *)

LEMMA IndInvInit == ItemsInit => ItemsIndInv
<1> SUFFICES ASSUME ItemsInit PROVE ItemsIndInv
  OBVIOUS
<1>1. ItemsTypeOK
  BY TypeInit
<1>2. \A r \in Requests : RequestAgrees(r)
  BY DEF ItemsInit, Idle, RequestAgrees
<1>3. \A i \in Items : item[i].status = "unborn"
  BY DEF ItemsInit, Unborn
<1> QED  BY <1>1, <1>2, <1>3 DEF ItemsIndInv

LEMMA IndInvStep ==
    ASSUME ItemsIndInv, [ItemsNext]_itemVars
    PROVE  ItemsIndInv'
<1> USE NoneAssumption
<1>1. CASE UNCHANGED itemVars
  BY <1>1 DEF itemVars, ItemsIndInv, ItemsTypeOK, Stored, RequestAgrees, Target
<1>2. CASE ItemsNext
  <2>1. ItemsTypeOK'
    BY <1>2, TypeStep DEF ItemsIndInv
  <2>2. ASSUME NEW i \in Items
        PROVE  item'[i].status \in {"PURCHASED", "RETURNED"} =>
                   item'[i].bought
    <3>1. ItemStepOf(i)
      BY <1>2, StepShapes DEF ItemsIndInv
    <3>2. CASE item'[i] = item[i]
      BY <3>2 DEF ItemsIndInv
    <3>3. CASE Creates(i) \/ Cascaded(i)
      BY <3>3 DEF Creates, Cascaded, Gone, Unborn
    <3>4. ASSUME NEW r \in Requests, Written(r, i)
          PROVE  item'[i].status \in {"PURCHASED", "RETURNED"} =>
                     item'[i].bought
      <4>1. RequestAgrees(r)
        BY DEF ItemsIndInv
      <4>2. CASE request[r].op = "update"
        BY <3>4, <4>2 DEF Written, ItemsIndInv
      <4>3. CASE request[r].op = "updateStatus"
        <5>1. request[r].to = "RETURNED" => request[r].read = "PURCHASED"
          BY <4>1, <4>3 DEF RequestAgrees, STATUS_TRANSITIONS, ItemStatus
        <5> QED  BY <3>4, <4>1, <4>3, <5>1 DEF Written, RequestAgrees
      <4>4. CASE request[r].op = "remove"
        BY <3>4, <4>4 DEF Written, Gone, Unborn
      <4> QED  BY <3>4, <4>2, <4>3, <4>4 DEF Written
    <3> QED  BY <3>1, <3>2, <3>3, <3>4 DEF ItemStepOf
  <2>3. ASSUME NEW r \in Requests
        PROVE  RequestAgrees(r)'
    <3>1. RequestStepOf(r)
      BY <1>2, RequestShapes DEF ItemsIndInv
    <3>2. CASE request'[r] = Idle
      BY <3>2 DEF RequestAgrees, Idle
    <3>3. CASE Began(r)
      BY <3>3 DEF Began, RequestAgrees, Owned, Stored, ItemStatus, ItemsIndInv,
                  Target
    <3>4. CASE request'[r] = request[r] /\ request[r].op # "idle"
      <4>1. RequestAgrees(r)
        BY DEF ItemsIndInv
      <4>2. PICK i \in Items : i = Target(r)
        BY <3>4, <4>1 DEF RequestAgrees
      <4>3. /\ item'[i].status # "unborn"
            /\ Stored(i)' => item'[i].owner = item[i].owner
            /\ Stored(i)' => Stored(i)
            /\ Stored(i)' /\ item[i].bought => item'[i].bought
        <5>1. item[i].status # "unborn"
          BY <3>4, <4>1, <4>2 DEF RequestAgrees
        <5>2. ItemStepOf(i)
          BY <1>2, StepShapes DEF ItemsIndInv
        <5>3. CASE item'[i] = item[i] \/ Cascaded(i)
          BY <5>1, <5>3 DEF Cascaded, Stored, Gone, Unborn, ItemStatus
        <5>4. ASSUME NEW q \in Requests, Written(q, i)
              PROVE  <4>3!1 /\ <4>3!2 /\ <4>3!3 /\ <4>3!4
          BY <5>1, <5>4 DEF Written, RequestAgrees, ItemsIndInv, Stored, Gone,
                            Unborn, ItemStatus, requestableStatuses
        <5> QED  BY <5>1, <5>2, <5>3, <5>4 DEF ItemStepOf, Creates
      <4>4. Target(r)' = i
        BY <3>4, <4>2 DEF Target
      <4> QED  BY <3>4, <4>1, <4>2, <4>3, <4>4 DEF RequestAgrees
    <3>5. CASE request'[r] = request[r] /\ request[r].op = "idle"
      BY <3>5 DEF RequestAgrees
    <3> QED  BY <3>1, <3>2, <3>3, <3>4, <3>5 DEF RequestStepOf
  <2> QED  BY <2>1, <2>2, <2>3 DEF ItemsIndInv
<1> QED  BY <1>1, <1>2

(* The invariant holds throughout.                                         *)
THEOREM ItemsIndInvHolds == ItemsSpec => []ItemsIndInv
<1>1. ItemsInit => ItemsIndInv
  BY IndInvInit
<1>2. ItemsIndInv /\ [ItemsNext]_itemVars => ItemsIndInv'
  BY IndInvStep
<1> QED  BY <1>1, <1>2, PTL DEF ItemsSpec

(* The tables stay well formed: every stored item has an owner who exists  *)
(* and details (Items, ItemsTypeOK).                                       *)
THEOREM ItemsTypeCorrect == ItemsSpec => []ItemsTypeOK
<1>1. ItemsIndInv => ItemsTypeOK
  BY DEF ItemsIndInv
<1> QED  BY <1>1, ItemsIndInvHolds, PTL

(* Whatever the interleaving of status changes, only what was bought is    *)
(* returned (Items, ReturnedWasBought).                                    *)
THEOREM ReturnsFollowPurchases == ItemsSpec => []ReturnedWasBought
<1>1. ItemsIndInv => ReturnedWasBought
  BY DEF ItemsIndInv, ReturnedWasBought
<1> QED  BY <1>1, ItemsIndInvHolds, PTL

(* No write takes a decision about an item back (Items, DecisionsStand).   *)
THEOREM DecisionsAreKept == ItemsSpec => DecisionsStand
<1> DEFINE Stands == \A i \in Items : Decided(i) =>
                         item'[i].status \notin {"unborn", "WISHLIST", "PAUSED"}
<1>1. ASSUME ItemsIndInv, ItemsNext, NEW i \in Items, Decided(i)
      PROVE  item'[i].status \notin {"unborn", "WISHLIST", "PAUSED"}
  <2>1. ItemStepOf(i)
    BY <1>1, StepShapes DEF ItemsIndInv
  <2> QED  BY <1>1, <2>1
           DEF ItemStepOf, Creates, Written, Cascaded, Gone, Unborn, Decided,
               ItemsIndInv, RequestAgrees, requestableStatuses
<1>2. ItemsIndInv /\ [ItemsNext]_itemVars => [Stands]_itemVars
  BY <1>1
<1> QED  BY <1>2, ItemsIndInvHolds, PTL DEF ItemsSpec, DecisionsStand

(* Although the writes go by id alone, only its owner's requests change an *)
(* item (Items, OnlyTheOwnerWrites).                                       *)
THEOREM OwnersWrite == ItemsSpec => OnlyTheOwnerWrites
<1> DEFINE ByOwner == \A i \in Items : Stored(i) /\ item'[i] # item[i] =>
          \/ \E r \in Requests :
                /\ request[r].item = i
                /\ request[r].user = item[i].owner
                /\ request'[r] # request[r]
          \/ item[i].owner \in registered \ registered'
<1>1. ASSUME ItemsIndInv, ItemsNext, NEW i \in Items, Stored(i),
             item'[i] # item[i]
      PROVE  \/ \E r \in Requests :
                   /\ request[r].item = i
                   /\ request[r].user = item[i].owner
                   /\ request'[r] # request[r]
             \/ item[i].owner \in registered \ registered'
  <2>1. ItemStepOf(i)
    BY <1>1, StepShapes DEF ItemsIndInv
  <2>2. ASSUME NEW r \in Requests, Written(r, i)
        PROVE  /\ request[r].item = i
               /\ request[r].user = item[i].owner
               /\ request'[r] # request[r]
    BY <1>1, <2>2 DEF Written, ItemsIndInv, RequestAgrees, Target, Idle
  <2> QED  BY <1>1, <2>1, <2>2
           DEF ItemStepOf, Creates, Cascaded, Stored, ItemStatus
<1>2. ItemsIndInv /\ [ItemsNext]_itemVars => [ByOwner]_itemVars
  BY <1>1
<1> QED  BY <1>2, ItemsIndInvHolds, PTL DEF ItemsSpec, OnlyTheOwnerWrites

(* The transition table is obeyed except by a request that was overtaken   *)
(* (Items, LegalUnlessOvertaken).                                          *)
THEOREM MovesAreLegal == ItemsSpec => LegalUnlessOvertaken
<1> DEFINE Legal == \A i \in Items :
          Stored(i) /\ item'[i].status \in ItemStatus \ {item[i].status} =>
          \/ item'[i].status \in STATUS_TRANSITIONS[item[i].status]
          \/ \E r \in Requests :
                /\ request[r].op = "updateStatus"
                /\ request[r].item = i
                /\ request'[r] = Idle
                /\ request[r].read # item[i].status
                /\ item'[i].status \in STATUS_TRANSITIONS[request[r].read]
<1>1. ASSUME ItemsIndInv, ItemsNext, NEW i \in Items, Stored(i),
             item'[i].status \in ItemStatus \ {item[i].status}
      PROVE  \/ item'[i].status \in STATUS_TRANSITIONS[item[i].status]
             \/ \E r \in Requests :
                   /\ request[r].op = "updateStatus"
                   /\ request[r].item = i
                   /\ request'[r] = Idle
                   /\ request[r].read # item[i].status
                   /\ item'[i].status \in STATUS_TRANSITIONS[request[r].read]
  <2>1. ItemStepOf(i)
    BY <1>1, StepShapes DEF ItemsIndInv
  <2>2. ~Creates(i) /\ ~Cascaded(i)
    BY <1>1 DEF Creates, Cascaded, Gone, Unborn, Stored, ItemStatus
  <2>3. PICK r \in Requests : Written(r, i)
    BY <1>1, <2>1, <2>2 DEF ItemStepOf
  <2>4. /\ request[r].op = "updateStatus"
        /\ item'[i].status = request[r].to
    BY <1>1, <2>3 DEF Written, Gone, Unborn, ItemStatus
  <2>5. request[r].to \in STATUS_TRANSITIONS[request[r].read]
    BY <1>1, <2>4 DEF ItemsIndInv, RequestAgrees
  <2> QED  BY <2>3, <2>4, <2>5 DEF Written, Target
<1>2. ItemsIndInv /\ [ItemsNext]_itemVars => [Legal]_itemVars
  BY <1>1
<1> QED  BY <1>2, ItemsIndInvHolds, PTL DEF ItemsSpec, LegalUnlessOvertaken

=============================================================================
