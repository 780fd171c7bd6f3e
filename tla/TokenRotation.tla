---------------------------- MODULE TokenRotation ----------------------------
(***************************************************************************)
(* What the refresh-token code promises, with no database, no requests and *)
(* no users: a session is opened by a login, has exactly one redeemable    *)
(* token while it is open, moves from that token to one never used before, *)
(* and once ended stays ended.  A session is named by the token its login  *)
(* minted.  Sessions implements this specification.                        *)
(***************************************************************************)
CONSTANT Tokens     \* every refresh token that can ever be generated

VARIABLES
    redeemable,     \* session -> the tokens that can be redeemed for it
    used            \* tokens that were ever redeemable

rotationVars == <<redeemable, used>>

RotationInit ==
    /\ redeemable = [s \in Tokens |-> {}]
    /\ used = {}

(* A login opens a session whose first token has never been seen.          *)
Open(s) ==
    /\ s \notin used
    /\ redeemable' = [redeemable EXCEPT ![s] = {s}]
    /\ used' = used \union {s}

(* A refresh redeems the session's token for one that has never been seen, *)
(* and that one is then the only redeemable token of the session.          *)
Rotate(s, t) ==
    /\ redeemable[s] # {}
    /\ t \notin used
    /\ redeemable' = [redeemable EXCEPT ![s] = {t}]
    /\ used' = used \union {t}

(* A logout, a password change, a detected replay or the deletion of the   *)
(* account ends some sessions together.  A used token is never opened      *)
(* again, so they do not come back.                                        *)
End(S) ==
    /\ redeemable' = [s \in Tokens |-> IF s \in S THEN {} ELSE redeemable[s]]
    /\ UNCHANGED used

RotationNext ==
    \/ \E s \in Tokens : Open(s)
    \/ \E s, t \in Tokens : Rotate(s, t)
    \/ \E S \in SUBSET Tokens : End(S)

RotationSpec == RotationInit /\ [][RotationNext]_rotationVars

=============================================================================
