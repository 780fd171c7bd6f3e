------------------------------- MODULE Items --------------------------------
(***************************************************************************)
(* The item lifecycle: ItemsService (create, update, updateStatus, remove) *)
(* as concurrent requests over the items table.                            *)
(*                                                                         *)
(* Each by-id operation is a transaction of two statements: it reads the   *)
(* item's status and checks it, then writes the row by its id.  PostgreSQL *)
(* runs it at READ COMMITTED and the read takes no lock, so anything may   *)
(* commit in between.  The write is the transaction's last statement, so   *)
(* the write and the commit are one step here: a writer that has to wait   *)
(* for the row finds what the other has committed.  A request that is      *)
(* refused (404, 400) changes nothing and is no step at all.               *)
(***************************************************************************)
EXTENDS Naturals

CONSTANTS
    Users,      \* account ids, never reused
    Items,      \* item ids, random UUIDs, never reused
    Details,    \* values of the fields a client may correct
    Requests,   \* request slots: how many requests are served at once
    None        \* no value; in an update, a field left out of the body

ASSUME NoneAssumption == None \notin Users \union Items \union Details

VARIABLES
    registered,  \* the users that exist
    item,        \* the items table: id -> row
    request      \* request slot -> where its handler is, and its locals

itemVars == <<registered, item, request>>

-----------------------------------------------------------------------------
(* items.config.ts: the lifecycle as a table.                              *)

ItemStatus == {"WISHLIST", "PAUSED", "PURCHASED", "SKIPPED", "RETURNED"}

STATUS_TRANSITIONS ==
    [s \in ItemStatus |->
        CASE s \in {"WISHLIST", "PAUSED"} -> {"PURCHASED", "SKIPPED"}
          [] s = "PURCHASED" -> {"RETURNED"}
          [] s \in {"SKIPPED", "RETURNED"} -> {}]

EDITABLE_STATUSES == {"WISHLIST", "PAUSED"}
DELETABLE_STATUSES == {"WISHLIST"}
requestableStatuses == {"PURCHASED", "SKIPPED", "RETURNED"}

AcceptsAnyMove(from, to) == TRUE  \* fault: the table is not consulted

canTransitionTo(from, to) == to \in STATUS_TRANSITIONS[from]
allowsFieldEdits(status) == status \in EDITABLE_STATUSES
allowsDeletion(status) == status \in DELETABLE_STATUSES

-----------------------------------------------------------------------------
(* Rows and requests.                                                      *)

\* bought is history: the item has been PURCHASED at some time.
Row == [status : ItemStatus \union {"unborn", "gone"},
        owner : Users \union {None},
        details : Details \union {None},
        bought : BOOLEAN]

Unborn == [status |-> "unborn", owner |-> None, details |-> None,
           bought |-> FALSE]
Gone == [Unborn EXCEPT !.status = "gone"]

\* read is the status requireOwnedItem returned, to the status asked for.
Request == [op : {"idle", "update", "updateStatus", "remove"},
            user : Users \union {None},
            item : Items \union {None},
            read : ItemStatus \union {None},
            to : ItemStatus \union {None},
            details : Details \union {None}]

Idle == [op |-> "idle", user |-> None, item |-> None, read |-> None,
         to |-> None, details |-> None]

ItemsInit ==
    /\ registered = Users
    /\ item = [i \in Items |-> Unborn]
    /\ request = [r \in Requests |-> Idle]

Stored(i) == item[i].status \in ItemStatus
Decided(i) == item[i].status \in {"PURCHASED", "SKIPPED", "RETURNED"}

Ready(r) == request[r].op = "idle"
Done(r) == request' = [request EXCEPT ![r] = Idle]

-----------------------------------------------------------------------------
(* The operations: what each reads and checks, and then what it writes.    *)

\* The foreign key refuses an item of a user that has gone (500).
Create(u, i, details) ==
    /\ item[i].status = "unborn"
    /\ u \in registered
    /\ item' = [item EXCEPT
           ![i] = [Unborn EXCEPT !.status = "WISHLIST", !.owner = u,
                                 !.details = details]]
    /\ UNCHANGED <<registered, request>>

OwnedByAnyone(u, i) == Stored(i)  \* fault: the read is not keyed by userId

\* requireOwnedItem's condition: { id, userId }.
Owned(u, i) == Stored(i) /\ item[i].owner = u

Begin(r, op, u, i, to, details) ==
    /\ Ready(r)
    /\ Owned(u, i)
    /\ request' = [request EXCEPT
           ![r] = [op |-> op, user |-> u, item |-> i,
                   read |-> item[i].status, to |-> to, details |-> details]]
    /\ UNCHANGED <<registered, item>>

Update(r, u, i, details) ==
    /\ Begin(r, "update", u, i, None, details)
    /\ allowsFieldEdits(item[i].status)

UpdateStatus(r, u, i, to) ==
    /\ Begin(r, "updateStatus", u, i, to, None)
    /\ to \in requestableStatuses
    /\ canTransitionTo(item[i].status, to)

Remove(r, u, i) ==
    /\ Begin(r, "remove", u, i, None, None)
    /\ allowsDeletion(item[i].status)

\* The row a write by id finds; when there is none, P2025 becomes a 404.
Target(r) == request[r].item
WriteTarget(r, op, row) ==
    /\ request[r].op = op
    /\ item' = IF Stored(Target(r)) THEN [item EXCEPT ![Target(r)] = row]
                                    ELSE item
    /\ Done(r)
    /\ UNCHANGED registered

WritesWhatIsMissing(old, new) == new  \* fault: a field left out is cleared

\* Prisma skips undefined: an omitted field keeps its stored value.
Patched(old, new) == IF new = None THEN old ELSE new

SavesTheRowItRead(r) ==  \* fault: the status read is written back as well
    WriteTarget(r, "update",
        [item[Target(r)] EXCEPT
            !.details = Patched(@, request[r].details),
            !.status = request[r].read])

WriteDetails(r) ==
    WriteTarget(r, "update",
        [item[Target(r)] EXCEPT !.details = Patched(@, request[r].details)])

WriteStatus(r) ==
    WriteTarget(r, "updateStatus",
        [item[Target(r)] EXCEPT
            !.status = request[r].to,
            !.bought = @ \/ request[r].to = "PURCHASED"])

DeleteRow(r) == WriteTarget(r, "remove", Gone)

-----------------------------------------------------------------------------
(* What else happens to the table.                                         *)

\* UsersService.deleteAccount, whose delete cascades to the user's items.
DeleteUser(u) ==
    /\ u \in registered
    /\ registered' = registered \ {u}
    /\ item' = [i \in Items |-> IF item[i].owner = u THEN Gone ELSE item[i]]
    /\ UNCHANGED request

\* The process or the connection dies, or the transaction times out, before
\* it commits.
Abort(r) ==
    /\ ~Ready(r)
    /\ Done(r)
    /\ UNCHANGED <<registered, item>>

ServeItem(r) ==
    \E u \in Users, i \in Items :
        \/ \E d \in Details \union {None} : Update(r, u, i, d)
        \/ \E s \in ItemStatus : UpdateStatus(r, u, i, s)
        \/ Remove(r, u, i)

FinishItem(r) == WriteDetails(r) \/ WriteStatus(r) \/ DeleteRow(r)

ItemsNext ==
    \/ \E u \in Users, i \in Items, d \in Details : Create(u, i, d)
    \/ \E u \in Users : DeleteUser(u)
    \/ \E r \in Requests : ServeItem(r) \/ FinishItem(r) \/ Abort(r)

ItemsSpec == ItemsInit /\ [][ItemsNext]_itemVars

-----------------------------------------------------------------------------
(* Properties.                                                             *)

(* The table and the requests are well formed; in particular no stored     *)
(* item is without an owner that exists or without its details.            *)
ItemsTypeOK ==
    /\ registered \subseteq Users
    /\ item \in [Items -> Row]
    /\ request \in [Requests -> Request]
    /\ \A i \in Items : Stored(i) =>
          item[i].owner \in registered /\ item[i].details \in Details

(* Only what was bought is returned: PURCHASED is the only way into        *)
(* RETURNED (items.config.ts:13-19), and that survives every interleaving  *)
(* of status changes, although the checks are made on stale reads.         *)
ReturnedWasBought ==
    \A i \in Items : item[i].status = "RETURNED" => item[i].bought

(* WISHLIST is only ever the creation state (items.config.ts:104-109): no  *)
(* write, however late, takes a decision about an item back.               *)
DecisionsStand ==
    [][\A i \in Items : Decided(i) =>
          item'[i].status \notin {"unborn", "WISHLIST", "PAUSED"}]_itemVars

(* The writes go by id alone and rely on an earlier read for ownership     *)
(* (items.service.ts:181-201): still nobody's request but the owner's      *)
(* changes an item, and nothing but the owner's end does so without one.   *)
OnlyTheOwnerWrites ==
    [][\A i \in Items : Stored(i) /\ item'[i] # item[i] =>
          \/ \E r \in Requests :
                /\ request[r].item = i
                /\ request[r].user = item[i].owner
                /\ request'[r] # request[r]
          \/ item[i].owner \in registered \ registered']_itemVars

(* The transition table is obeyed by every status change that is not       *)
(* overtaken: a step outside it is taken only by a request that saw        *)
(* another status than the one it replaces (items.service.ts:145-164).     *)
LegalUnlessOvertaken ==
    [][\A i \in Items :
          Stored(i) /\ item'[i].status \in ItemStatus \ {item[i].status} =>
          \/ item'[i].status \in STATUS_TRANSITIONS[item[i].status]
          \/ \E r \in Requests :
                /\ request[r].op = "updateStatus"
                /\ request[r].item = i
                /\ request'[r] = Idle
                /\ request[r].read # item[i].status
                /\ item'[i].status \in STATUS_TRANSITIONS[request[r].read]]_itemVars

(* "An item that has been purchased, skipped or returned is kept as the    *)
(* history the regret statistics are built from"                           *)
(* (items.controller.ts:222-224), for as long as its owner stays.          *)
HistoryIsKept ==
    [][\A i \in Items :
          Decided(i) /\ item'[i].status = "gone" =>
          item[i].owner \notin registered']_itemVars

-----------------------------------------------------------------------------
(* The inductive invariant behind the theorems of ItemsProofs.             *)

(* A request's locals describe a row it really read and a move the table   *)
(* allowed from there; the row is still its user's, if it is still stored. *)
RequestAgrees(r) ==
    request[r].op # "idle" =>
        /\ request[r].user \in Users
        /\ Target(r) \in Items
        /\ item[Target(r)].status # "unborn"
        /\ Stored(Target(r)) => item[Target(r)].owner = request[r].user
        /\ request[r].op = "updateStatus" =>
              /\ request[r].read \in ItemStatus
              /\ request[r].to \in requestableStatuses
              /\ request[r].to \in STATUS_TRANSITIONS[request[r].read]
        /\ request[r].read = "PURCHASED" /\ Stored(Target(r)) =>
              item[Target(r)].bought

ItemsIndInv ==
    /\ ItemsTypeOK
    /\ \A r \in Requests : RequestAgrees(r)
    /\ \A i \in Items :
          item[i].status \in {"PURCHASED", "RETURNED"} => item[i].bought

=============================================================================
