--------------------------- MODULE SessionsProofs ---------------------------
(***************************************************************************)
(* Theorems about Sessions, for every set of users, addresses, passwords,  *)
(* tokens and concurrent requests.                                         *)
(***************************************************************************)
EXTENDS Sessions, TLAPS

-----------------------------------------------------------------------------
(* What the operators that change request slots and token rows do, field   *)
(* by field.  The proofs below use these instead of the record updates.    *)

Others(r) == \A q \in Requests : q # r => request'[q] = request[q]

(* A request that is answered or fails leaves an empty slot behind.        *)
LEMMA SlotReleased ==
  ASSUME TypeOK, NEW r \in Requests, Answer(r) \/ Fail(r)
  PROVE  /\ request' \in [Requests -> Request]
         /\ request'[r].pc \in {"idle", "failed"}
         /\ request'[r].known = {} /\ request'[r].targets = {}
         /\ Others(r)
<1> DEFINE F == [Idle EXCEPT !.pc = "failed"]
<1>1. Idle \in Request /\ Idle.pc = "idle" /\ Idle.known = {} /\ Idle.targets = {}
  BY DEF Idle, Request
<1>2. F \in Request /\ F.pc = "failed" /\ F.known = {} /\ F.targets = {}
  BY DEF Idle, Request
<1>3. \/ request' = [request EXCEPT ![r] = Idle]
      \/ request' = [request EXCEPT ![r] = F]
  BY DEF Answer, Fail
<1> HIDE DEF F
<1> QED
  BY <1>1, <1>2, <1>3 DEF TypeOK, Others

(* A request that moves on keeps its locals.                               *)
LEMMA SlotMoved ==
  ASSUME TypeOK, NEW r \in Requests, NEW pc \in {"claimed", "changed", "deleting"},
         Goto(r, pc)
  PROVE  /\ request' \in [Requests -> Request]
         /\ request'[r].pc = pc
         /\ request'[r].user = request[r].user
         /\ request'[r].token = request[r].token
         /\ request'[r].known = request[r].known
         /\ request'[r].targets = request[r].targets
         /\ Others(r)
  BY DEF TypeOK, Goto, Request, Others

(* A revoke-all statement that starts only picks its targets.              *)
LEMMA SlotSweeping ==
  ASSUME TypeOK, NEW r \in Requests, NEW from,
         NEW to \in {"replaying", "changing"}, RevokeAllForUser(r, from, to)
  PROVE  /\ request' \in [Requests -> Request]
         /\ request[r].pc = from
         /\ request'[r].pc = to
         /\ request'[r].user = request[r].user
         /\ request'[r].token = request[r].token
         /\ request'[r].known = request[r].known
         /\ request'[r].targets = LiveOf(request[r].user)
         /\ Others(r)
         /\ UNCHANGED <<account, token>>
  BY DEF TypeOK, RevokeAllForUser, RevocationTargets, Request, Others, LiveOf, At

(* An updateMany on revokedAt changes the status of live rows only.        *)
LEMMA RowsRevoked ==
  ASSUME TypeOK, NEW S, token' = RevokedAmong(S)
  PROVE  /\ token' \in [Tokens -> Row]
         /\ \A t \in Tokens :
               /\ token'[t].owner = token[t].owner
               /\ token'[t].next = token[t].next
               /\ token'[t].family = token[t].family
               /\ t \in S /\ Live(t) => token'[t].status = "revoked"
               /\ ~(t \in S /\ Live(t)) => token'[t].status = token[t].status
<1>1. \A R \in Row : /\ [R EXCEPT !.status = "revoked"] \in Row
                     /\ [R EXCEPT !.status = "revoked"].status = "revoked"
                     /\ [R EXCEPT !.status = "revoked"].owner = R.owner
                     /\ [R EXCEPT !.status = "revoked"].next = R.next
                     /\ [R EXCEPT !.status = "revoked"].family = R.family
  BY DEF Row
<1>2. \A t \in Tokens : token'[t] = IF t \in S /\ Live(t)
                                    THEN [token[t] EXCEPT !.status = "revoked"]
                                    ELSE token[t]
  BY DEF RevokedAmong
<1>3. \A t \in Tokens : token[t] \in Row
  BY DEF TypeOK
<1>4. token' \in [Tokens -> Row]
  BY <1>1, <1>2, <1>3 DEF RevokedAmong
<1> QED
  BY <1>1, <1>2, <1>3, <1>4

(* A login adds one live row that starts a family.                         *)
LEMMA RowMinted ==
  ASSUME TypeOK, NEW t \in Unused, NEW u \in Users, NEW p \in Passwords \union {None},
         token' = [token EXCEPT ![t] = Minted(u, t, p)]
  PROVE  /\ token' \in [Tokens -> Row]
         /\ t \in Tokens
         /\ token'[t].status = "live" /\ token'[t].owner = u
         /\ token'[t].next = None /\ token'[t].family = t
         /\ \A s \in Tokens : s # t => token'[s] = token[s]
<1>1. Minted(u, t, p) \in Row
  BY DEF Minted, Blank, Row, Unused
<1>2. /\ Minted(u, t, p).status = "live" /\ Minted(u, t, p).owner = u
      /\ Minted(u, t, p).next = None /\ Minted(u, t, p).family = t
  BY DEF Minted, Blank
<1>3. t \in Tokens
  BY DEF Unused
<1> HIDE DEF Minted
<1> QED
  BY <1>1, <1>2, <1>3 DEF TypeOK

(* A rotation revokes the parent, links it to the child, and adds the      *)
(* child, live and of the same family.                                     *)
LEMMA RowRotated ==
  ASSUME TypeOK, WellFormed, NEW r \in Requests, CommitRotation(r)
  PROVE  LET t == request[r].token
         IN  \E child \in Unused :
               /\ token' \in [Tokens -> Row]
               /\ t \in Tokens /\ child \in Tokens /\ t # child
               /\ token'[t].status = "revoked" /\ token'[t].next = child
               /\ token'[t].owner = token[t].owner
               /\ token'[t].family = token[t].family
               /\ token'[child].status = "live"
               /\ token'[child].owner = request[r].user
               /\ token'[child].next = None
               /\ token'[child].family = token[t].family
               /\ \A s \in Tokens : s # t /\ s # child => token'[s] = token[s]
<1> DEFINE t == request[r].token
           u == request[r].user
<1>1. t \in Tokens \ Unused /\ u \in Users
  BY DEF WellFormed, CommitRotation, At, Ready
<1>2. PICK child \in Unused :
        token' = [token EXCEPT
                    ![t].status = "revoked",
                    ![t].next = child,
                    ![child] = Minted(u, token[t].family, token[t].secret)]
  BY DEF CommitRotation
<1> DEFINE M == Minted(u, token[t].family, token[t].secret)
<1>3. token[t] \in Row /\ child \in Tokens /\ t # child
  BY <1>1 DEF TypeOK, Unused
<1>4. M \in Row
  BY <1>1, <1>3 DEF Minted, Blank, Row
<1>5. /\ M.status = "live" /\ M.owner = u
      /\ M.next = None /\ M.family = token[t].family
  BY DEF Minted, Blank
<1>6. token' = [[[token EXCEPT ![t].status = "revoked"] EXCEPT ![t].next = child] EXCEPT ![child] = M]
  BY <1>2 DEF M
<1> HIDE DEF M, t, u
<1>7. \A R \in Row :
        /\ [R EXCEPT !.status = "revoked"] \in Row
        /\ [[R EXCEPT !.status = "revoked"] EXCEPT !.next = child] \in Row
        /\ [[R EXCEPT !.status = "revoked"] EXCEPT !.next = child].status = "revoked"
        /\ [[R EXCEPT !.status = "revoked"] EXCEPT !.next = child].next = child
        /\ [[R EXCEPT !.status = "revoked"] EXCEPT !.next = child].owner = R.owner
        /\ [[R EXCEPT !.status = "revoked"] EXCEPT !.next = child].family = R.family
  BY <1>3 DEF Row
<1>8. token' \in [Tokens -> Row]
  <2>1. [token EXCEPT ![t].status = "revoked"] \in [Tokens -> Row]
    BY <1>1, <1>3, <1>7 DEF TypeOK
  <2>2. [[token EXCEPT ![t].status = "revoked"] EXCEPT ![t].next = child] \in [Tokens -> Row]
    BY <1>1, <1>3, <2>1 DEF Row
  <2> QED
    BY <1>3, <1>4, <1>6, <2>2
<1>9. token'[t] = [[token[t] EXCEPT !.status = "revoked"] EXCEPT !.next = child]
  BY <1>1, <1>3, <1>6 DEF TypeOK
<1>10. token'[child] = M /\ \A s \in Tokens : s # t /\ s # child => token'[s] = token[s]
  BY <1>1, <1>3, <1>6 DEF TypeOK
<1>11. /\ token'[t].status = "revoked" /\ token'[t].next = child
       /\ token'[t].owner = token[t].owner /\ token'[t].family = token[t].family
  BY <1>3, <1>7, <1>9
<1> QED
  BY <1>1, <1>3, <1>5, <1>8, <1>10, <1>11 DEF t, u

(* The cascade empties the rows of one user and touches no other.          *)
LEMMA RowsDropped ==
  ASSUME TypeOK, NEW u \in Users, token' = WithoutTokensOf(u)
  PROVE  /\ token' \in [Tokens -> Row]
         /\ \A t \in Tokens :
               /\ token[t].owner = u =>
                     /\ token'[t].status = "gone" /\ token'[t].owner = None
                     /\ token'[t].next = None /\ token'[t].family = None
               /\ token[t].owner # u => token'[t] = token[t]
<1> DEFINE G == [Blank EXCEPT !.status = "gone"]
<1>1. G \in Row /\ G.status = "gone" /\ G.owner = None /\ G.next = None /\ G.family = None
  BY DEF Blank, Row
<1>2. \A t \in Tokens : token'[t] = IF token[t].owner = u THEN G ELSE token[t]
  BY DEF WithoutTokensOf
<1>3. token' = [t \in Tokens |-> IF token[t].owner = u THEN G ELSE token[t]]
  BY DEF WithoutTokensOf
<1> HIDE DEF G
<1> QED
  BY <1>1, <1>2, <1>3 DEF TypeOK

(* Expiry changes nothing but the flag.                                    *)
LEMMA RowExpired ==
  ASSUME TypeOK, NEW t \in Tokens, Expire(t)
  PROVE  /\ token' \in [Tokens -> Row]
         /\ \A s \in Tokens :
               /\ token'[s].status = token[s].status
               /\ token'[s].owner = token[s].owner
               /\ token'[s].next = token[s].next
               /\ token'[s].family = token[s].family
         /\ UNCHANGED <<account, request>>
<1>1. token' = [token EXCEPT ![t].expired = TRUE] /\ UNCHANGED <<account, request>>
  BY DEF Expire
<1> QED
  BY <1>1 DEF TypeOK, Row

(* A login that is served either ends at once or has verified a password.  *)
LEMMA LoginServed ==
  ASSUME TypeOK, NEW r \in Requests, NEW a \in Addresses, NEW p \in Passwords,
         Login(r, a, p)
  PROVE  /\ request' \in [Requests -> Request]
         /\ request'[r].pc \in {"idle", "login"}
         /\ request'[r].pc = "login" => request'[r].user \in Users
         /\ request'[r].known = {} /\ request'[r].targets = {}
         /\ Others(r) /\ Ready(r)
         /\ UNCHANGED <<account, token>>
<1>1. ASSUME Answer(r)
      PROVE  request'[r].pc = "idle"
  <2>1. Idle.pc = "idle"
    BY DEF Idle
  <2> QED
    BY <1>1, <2>1 DEF Answer, TypeOK
<1>2. ASSUME NEW u \in Users,
             request' = [request EXCEPT ![r] =
                 [Idle EXCEPT !.pc = "login", !.user = u, !.confirmed = p]]
      PROVE  /\ request' \in [Requests -> Request]
             /\ request'[r].pc = "login" /\ request'[r].user \in Users
             /\ request'[r].known = {} /\ request'[r].targets = {}
             /\ Others(r)
  <2> DEFINE R == [Idle EXCEPT !.pc = "login", !.user = u, !.confirmed = p]
  <2>1. R \in Request /\ R.pc = "login" /\ R.user = u /\ R.known = {} /\ R.targets = {}
    BY DEF Idle, Request
  <2> HIDE DEF R
  <2>2. request' = [request EXCEPT ![r] = R]
    BY <1>2 DEF R
  <2> QED
    BY <2>1, <2>2 DEF TypeOK, Others
<1> QED
  BY <1>1, <1>2, SlotReleased DEF Login

(* A refresh that is served ends at once, has detected a replay, or has    *)
(* read a live row that it will try to rotate.                             *)
LEMMA RefreshServed ==
  ASSUME TypeOK, NEW r \in Requests, NEW t \in Tokens, Refresh(r, t)
  PROVE  /\ request' \in [Requests -> Request]
         /\ Others(r) /\ Ready(r) /\ t \notin Unused
         /\ UNCHANGED <<account, token>>
         /\ request'[r].targets = {}
         /\ \/ request'[r].pc = "idle" /\ request'[r].known = {}
            \/ /\ request'[r].pc = "replay" /\ token[t].status = "revoked"
               /\ request'[r].user = token[t].owner
               /\ request'[r].known = LiveOf(token[t].owner)
            \/ /\ request'[r].pc = "rotate" /\ Live(t)
               /\ request'[r].user = token[t].owner
               /\ request'[r].token = t
               /\ request'[r].known = {}
<1> DEFINE Replay == [Idle EXCEPT !.pc = "replay", !.user = token[t].owner,
                                  !.token = t, !.known = LiveOf(token[t].owner)]
           Try == [Idle EXCEPT !.pc = "rotate", !.user = token[t].owner, !.token = t]
<1>1. token[t].owner \in Users \union {None} /\ LiveOf(token[t].owner) \subseteq Tokens
  BY DEF TypeOK, Row, LiveOf
<1>2. /\ Replay \in Request /\ Replay.pc = "replay" /\ Replay.user = token[t].owner
      /\ Replay.known = LiveOf(token[t].owner) /\ Replay.targets = {}
  BY <1>1 DEF Idle, Request
<1>3. /\ Try \in Request /\ Try.pc = "rotate" /\ Try.user = token[t].owner
      /\ Try.token = t /\ Try.known = {} /\ Try.targets = {}
  BY <1>1 DEF Idle, Request
<1>4. Idle \in Request /\ Idle.pc = "idle" /\ Idle.known = {} /\ Idle.targets = {}
  BY DEF Idle, Request
<1>5. /\ Ready(r) /\ t \notin Unused /\ UNCHANGED <<account, token>>
      /\ \/ request' = [request EXCEPT ![r] = Idle]
         \/ token[t].status = "revoked" /\ request' = [request EXCEPT ![r] = Replay]
         \/ Live(t) /\ request' = [request EXCEPT ![r] = Try]
  BY DEF Refresh, Answer
<1> HIDE DEF Replay, Try
<1> QED
  BY <1>2, <1>3, <1>4, <1>5 DEF TypeOK, Others

(* A password change that is served ends at once or knows the live tokens. *)
LEMMA ChangeServed ==
  ASSUME TypeOK, NEW r \in Requests, NEW u \in Users, NEW p \in Passwords,
         NEW q \in Passwords, ChangePassword(r, u, p, q)
  PROVE  /\ request' \in [Requests -> Request]
         /\ Others(r) /\ Ready(r)
         /\ UNCHANGED <<account, token>>
         /\ request'[r].targets = {}
         /\ \/ request'[r].pc = "idle" /\ request'[r].known = {}
            \/ /\ request'[r].pc = "change" /\ request'[r].user = u
               /\ request'[r].known = LiveOf(u)
<1> DEFINE Change == [Idle EXCEPT !.pc = "change", !.user = u, !.confirmed = p,
                                  !.fresh = q, !.known = LiveOf(u)]
<1>1. /\ Change \in Request /\ Change.pc = "change" /\ Change.user = u
      /\ Change.known = LiveOf(u) /\ Change.targets = {}
  BY DEF Idle, Request, LiveOf
<1>2. Idle \in Request /\ Idle.pc = "idle" /\ Idle.known = {} /\ Idle.targets = {}
  BY DEF Idle, Request
<1>3. /\ Ready(r) /\ UNCHANGED <<account, token>>
      /\ \/ request' = [request EXCEPT ![r] = Idle]
         \/ request' = [request EXCEPT ![r] = Change]
  BY DEF ChangePassword, Answer
<1> HIDE DEF Change
<1> QED
  BY <1>1, <1>2, <1>3 DEF TypeOK, Others

(* A deletion that is served ends at once or has verified the password.    *)
LEMMA DeleteServed ==
  ASSUME TypeOK, NEW r \in Requests, NEW u \in Users, NEW p \in Passwords,
         DeleteAccount(r, u, p)
  PROVE  /\ request' \in [Requests -> Request]
         /\ Others(r) /\ Ready(r)
         /\ UNCHANGED <<account, token>>
         /\ request'[r].targets = {} /\ request'[r].known = {}
         /\ \/ request'[r].pc = "idle"
            \/ request'[r].pc = "delete" /\ request'[r].user = u
<1> DEFINE Delete == [Idle EXCEPT !.pc = "delete", !.user = u, !.confirmed = p]
<1>1. /\ Delete \in Request /\ Delete.pc = "delete" /\ Delete.user = u
      /\ Delete.known = {} /\ Delete.targets = {}
  BY DEF Idle, Request
<1>2. Idle \in Request /\ Idle.pc = "idle" /\ Idle.known = {} /\ Idle.targets = {}
  BY DEF Idle, Request
<1>3. /\ Ready(r) /\ UNCHANGED <<account, token>>
      /\ \/ request' = [request EXCEPT ![r] = Idle]
         \/ request' = [request EXCEPT ![r] = Delete]
  BY DEF DeleteAccount, Answer
<1> HIDE DEF Delete
<1> QED
  BY <1>1, <1>2, <1>3 DEF TypeOK, Others

-----------------------------------------------------------------------------
(* Type correctness.                                                       *)

LEMMA InitTyped == Init => TypeOK /\ WellFormed
<1> SUFFICES ASSUME Init PROVE TypeOK /\ WellFormed
  OBVIOUS
<1>1. NoAccount \in Account /\ Blank \in Row /\ Blank.status = "unused"
  BY DEF NoAccount, Blank, Account, Row
<1>2. Idle \in Request /\ Idle.pc = "idle"
  BY DEF Idle, Request
<1> QED
  BY <1>1, <1>2 DEF Init, TypeOK, WellFormed, Stored, Ready

(* A step that only moves request r keeps the types, if r's new record     *)
(* names an account and, for a refresh, a token.                           *)
LEMMA RequestStepTyped ==
  ASSUME TypeOK, WellFormed, NEW r \in Requests,
         UNCHANGED <<account, token>>,
         request' \in [Requests -> Request], Others(r),
         Ready(r)' \/ request'[r].user \in Users,
         request'[r].pc \in {"rotate", "claimed"} =>
             request'[r].token \in Tokens \ Unused
  PROVE  (TypeOK /\ WellFormed)'
  BY DEF TypeOK, WellFormed, Stored, Ready, Others, Unused

LEMMA ServeTyped ==
  ASSUME TypeOK, WellFormed, NEW r \in Requests, Serve(r)
  PROVE  (TypeOK /\ WellFormed)'
<1>1. ASSUME NEW a \in Addresses, NEW p \in Passwords, Login(r, a, p)
      PROVE  (TypeOK /\ WellFormed)'
  BY <1>1, LoginServed, RequestStepTyped DEF Ready
<1>2. ASSUME NEW t \in Tokens, Refresh(r, t)
      PROVE  (TypeOK /\ WellFormed)'
  <2>1. token[t].status \in {"live", "revoked"} => token[t].owner \in Users
    BY DEF WellFormed, Stored
  <2> QED
    BY <1>2, <2>1, RefreshServed, RequestStepTyped DEF Ready, Live
<1>3. ASSUME NEW u \in Users, NEW p \in Passwords, NEW q \in Passwords,
             ChangePassword(r, u, p, q)
      PROVE  (TypeOK /\ WellFormed)'
  BY <1>3, ChangeServed, RequestStepTyped DEF Ready
<1>4. ASSUME NEW u \in Users, NEW p \in Passwords, DeleteAccount(r, u, p)
      PROVE  (TypeOK /\ WellFormed)'
  BY <1>4, DeleteServed, RequestStepTyped DEF Ready
<1> QED
  BY <1>1, <1>2, <1>3, <1>4 DEF Serve

(* A step that answers request r and changes rows keeps the types, if the  *)
(* new rows are rows, name accounts, and no used token becomes unused.     *)
LEMMA AnswerStepTyped ==
  ASSUME TypeOK, WellFormed, NEW r \in Requests,
         Answer(r) \/ UNCHANGED request,
         account' \in [Users -> Account], token' \in [Tokens -> Row],
         \A t \in Tokens : Stored(t)' => token'[t].owner \in Users,
         \A t \in Tokens : t \in Unused' => t \in Unused
  PROVE  (TypeOK /\ WellFormed)'
<1>1. CASE Answer(r)
  BY <1>1, SlotReleased DEF TypeOK, WellFormed, Ready, Others, Unused
<1>2. CASE UNCHANGED request
  BY <1>2 DEF TypeOK, WellFormed, Ready, Unused
<1> QED
  BY <1>1, <1>2

LEMMA ProceedTyped ==
  ASSUME TypeOK, WellFormed, LocksHold, NEW r \in Requests, Proceed(r)
  PROVE  (TypeOK /\ WellFormed)'
<1> USE DEF At
<1> DEFINE u == request[r].user
           t == request[r].token
<1>0. /\ ~Ready(r) => u \in Users
      /\ request[r].pc = "claimed" => t \in Tokens \ Unused
      /\ account \in [Users -> Account] /\ token \in [Tokens -> Row]
  BY DEF WellFormed, TypeOK
<1>s. \A s \in Tokens : Stored(s) => token[s].owner \in Users
  BY DEF WellFormed
<1>1. CASE IssueTokens(r)
  <2>1. u \in Users /\ request[r].confirmed \in Passwords \union {None}
    BY <1>0, <1>1 DEF IssueTokens, Ready, TypeOK, Request
  <2>2. ASSUME NEW child \in Unused, Answer(r), UNCHANGED account,
               token' = [token EXCEPT ![child] = Minted(u, child, request[r].confirmed)]
        PROVE  (TypeOK /\ WellFormed)'
    BY <1>0, <1>s, <2>1, <2>2, RowMinted, AnswerStepTyped DEF Stored, Unused
  <2>3. ASSUME Fail(r), UNCHANGED <<account, token>>
        PROVE  (TypeOK /\ WellFormed)'
    BY <2>3, SlotReleased, RequestStepTyped DEF Ready
  <2> QED
    BY <1>1, <2>2, <2>3 DEF IssueTokens
<1>2. CASE ClaimToken(r)
  <2>1. UNCHANGED <<account, token>> /\ (Answer(r) \/ Goto(r, "claimed"))
    BY <1>2 DEF ClaimToken
  <2>2. t \in Tokens \ Unused /\ u \in Users
    BY <1>0, <1>2 DEF ClaimToken, WellFormed, Ready
  <2> QED
    BY <2>1, <2>2, SlotReleased, SlotMoved, RequestStepTyped DEF Ready
<1>3. CASE CommitRotation(r)
  <2>1. u \in Users /\ token[t].owner \in Users
    BY <1>0, <1>s, <1>3 DEF CommitRotation, Ready, LocksHold, Stored, Live
  <2>2. /\ token' \in [Tokens -> Row]
        /\ \A s \in Tokens : Stored(s)' => token'[s].owner \in Users
        /\ \A s \in Tokens : s \in Unused' => s \in Unused
    BY <1>s, <1>3, <2>1, RowRotated DEF Stored, Unused
  <2> QED
    BY <1>0, <1>3, <2>2, AnswerStepTyped DEF CommitRotation
<1>4. CASE StartReplayRevocation(r)
  BY <1>0, <1>4, SlotSweeping, RequestStepTyped DEF StartReplayRevocation, Ready
<1>5. CASE FinishReplayRevocation(r)
  BY <1>0, <1>s, <1>5, RowsRevoked, AnswerStepTyped
     DEF FinishReplayRevocation, Stored, Unused, Live
<1>6. CASE UpdatePassword(r)
  BY <1>0, <1>6, SlotReleased, SlotMoved, RequestStepTyped DEF UpdatePassword, Ready
<1>7. CASE StartPasswordRevocation(r)
  BY <1>0, <1>7, SlotSweeping, RequestStepTyped DEF StartPasswordRevocation, Ready
<1>8. CASE CommitPassword(r)
  <2>1. account' \in [Users -> Account]
    BY <1>0, <1>8 DEF CommitPassword, TypeOK, Request, Account
  <2> QED
    BY <1>0, <1>s, <1>8, <2>1, RowsRevoked, AnswerStepTyped
       DEF CommitPassword, Stored, Unused, Live
<1>9. CASE LockForDelete(r)
  BY <1>0, <1>9, SlotReleased, SlotMoved, RequestStepTyped DEF LockForDelete, Ready
<1>10. CASE CascadeDelete(r)
  <2>1. account' \in [Users -> Account]
    BY <1>0, <1>10 DEF CascadeDelete, NoAccount, Account
  <2> QED
    BY <1>0, <1>s, <1>10, <2>1, RowsDropped, AnswerStepTyped
       DEF CascadeDelete, Stored, Unused, Ready
<1> QED
  BY <1>1, <1>2, <1>3, <1>4, <1>5, <1>6, <1>7, <1>8, <1>9, <1>10 DEF Proceed

LEMMA StepTyped ==
  ASSUME TypeOK, WellFormed, LocksHold, [Next]_vars
  PROVE  (TypeOK /\ WellFormed)'
<1> USE DEF Stored, Unused
<1>s. \A s \in Tokens : Stored(s) => token[s].owner \in Users
  BY DEF WellFormed
<1>1. ASSUME NEW u \in Users, NEW a \in Addresses, NEW p \in Passwords,
             Signup(u, a, p)
      PROVE  (TypeOK /\ WellFormed)'
  <2>1. account' \in [Users -> Account] /\ UNCHANGED <<token, request>>
    BY <1>1, CanonicalAssumption DEF Signup, normaliseEmail, TypeOK, Account
  <2> QED
    BY <2>1 DEF TypeOK, WellFormed, Ready
<1>2. ASSUME NEW t \in Tokens, Logout(t)
      PROVE  (TypeOK /\ WellFormed)'
  <2>1. token' = RevokedAmong({t}) /\ UNCHANGED <<account, request>>
    BY <1>2 DEF Logout
  <2>2. /\ token' \in [Tokens -> Row]
        /\ \A s \in Tokens : Stored(s)' => token'[s].owner \in Users
        /\ \A s \in Tokens : s \in Unused' => s \in Unused
    BY <1>s, <2>1, RowsRevoked DEF Live
  <2> QED
    BY <2>1, <2>2 DEF TypeOK, WellFormed, Ready
<1>3. ASSUME NEW t \in Tokens, Expire(t)
      PROVE  (TypeOK /\ WellFormed)'
  BY <1>3, <1>s, RowExpired DEF TypeOK, WellFormed, Ready
<1>4. ASSUME NEW r \in Requests, Abort(r) \/ AbortDeadlocked(r)
      PROVE  (TypeOK /\ WellFormed)'
  BY <1>4, SlotReleased, RequestStepTyped DEF Abort, AbortDeadlocked, Ready
<1>5. CASE UNCHANGED vars
  BY <1>5 DEF vars, TypeOK, WellFormed, Ready
<1> QED
  BY <1>1, <1>2, <1>3, <1>4, <1>5, ServeTyped, ProceedTyped DEF Next

-----------------------------------------------------------------------------
(* Row locks.                                                              *)

Locking == {"claimed", "changed", "changing", "deleting"}

(* Locks survive a step after which request r holds none and the others    *)
(* hold what they held, if claimed tokens stay live and locked users       *)
(* active.                                                                 *)
LEMMA LocksKept ==
  ASSUME LocksHold, NEW r \in Requests,
         request'[r].pc \notin Locking, Others(r),
         \A q \in Requests : q # r /\ At(q, "claimed") /\ Live(request[q].token)
             => token'[request[q].token].status = "live",
         \A q \in Requests, u \in Users : q # r /\ HoldsUser(q, u) /\ Active(u) => Active(u)'
  PROVE  LocksHold'
BY DEF LocksHold, Others, At, HoldsUser, Locking, Live, Active

LEMMA ServeLocks ==
  ASSUME TypeOK, LocksHold, NEW r \in Requests, Serve(r)
  PROVE  LocksHold'
<1>1. /\ request'[r].pc \in {"idle", "login", "replay", "rotate", "change", "delete"}
      /\ Others(r) /\ UNCHANGED <<account, token>>
  BY LoginServed, RefreshServed, ChangeServed, DeleteServed DEF Serve
<1> QED
  BY <1>1, LocksKept DEF Locking, Live, Active, Others

LEMMA ProceedLocks ==
  ASSUME TypeOK, WellFormed, LocksHold, NEW r \in Requests, Proceed(r)
  PROVE  LocksHold'
<1> DEFINE u == request[r].user
           t == request[r].token
<1>0. ASSUME Answer(r) \/ Fail(r) PROVE request'[r].pc \notin Locking /\ Others(r)
  BY <1>0, SlotReleased DEF Locking
<1>c. \A q \in Requests : At(q, "claimed") => request[q].token \in Tokens
  BY DEF WellFormed, At
<1>1. CASE IssueTokens(r)
  <2>1. u \in Users /\ request[r].confirmed \in Passwords \union {None}
    BY <1>1 DEF IssueTokens, Ready, TypeOK, Request, At, WellFormed
  <2>2. ASSUME NEW child \in Unused, Answer(r), UNCHANGED account,
               token' = [token EXCEPT ![child] = Minted(u, child, request[r].confirmed)]
        PROVE  LocksHold'
    <3>1. child \in Tokens /\ \A s \in Tokens : s # child => token'[s] = token[s]
      BY <2>1, <2>2, RowMinted
    <3>2. \A s \in Tokens : Live(s) => Live(s)'
      BY <3>1 DEF Live, Unused
    <3> QED
      BY <1>0, <1>c, <2>2, <3>2, LocksKept DEF Active, Live
  <2>3. ASSUME Fail(r), UNCHANGED <<account, token>>
        PROVE  LocksHold'
    BY <1>0, <2>3, LocksKept DEF Active, Live, Others
  <2> QED
    BY <1>1, <2>2, <2>3 DEF IssueTokens
<1>2. CASE ClaimToken(r)
  <2>1. CASE Answer(r)
    BY <1>0, <1>2, <2>1, LocksKept DEF ClaimToken, Active, Live, Others
  <2>2. CASE Goto(r, "claimed") /\ StillUnrevoked(t)
    <3>1. /\ request'[r].pc = "claimed" /\ request'[r].token = t
          /\ Others(r) /\ UNCHANGED <<account, token>>
      BY <1>2, <2>2, SlotMoved DEF ClaimToken
    <3>2. \A q \in Requests : At(q, "claimed") => request[q].token # t
      BY <1>2 DEF ClaimToken, TokenLocked, HoldsToken
    <3> QED
      BY <2>2, <3>1, <3>2 DEF LocksHold, Others, At, HoldsUser, StillUnrevoked, Live, Active
  <2> QED
    BY <1>2, <2>1, <2>2 DEF ClaimToken
<1>3. CASE CommitRotation(r)
  <2>1. \A s \in Tokens : Live(s) /\ s # t => Live(s)'
    BY <1>3, RowRotated DEF Live, Unused
  <2>2. At(r, "claimed") /\ Answer(r) /\ UNCHANGED account
    BY <1>3 DEF CommitRotation
  <2>3. \A q \in Requests : q # r /\ At(q, "claimed") => request[q].token # t
    BY <2>2 DEF LocksHold
  <2> QED
    BY <1>0, <1>c, <2>1, <2>2, <2>3, LocksKept DEF Active, Live
<1>4. CASE StartReplayRevocation(r)
  <2>1. request'[r].pc = "replaying" /\ Others(r) /\ UNCHANGED <<account, token>>
    BY <1>4, SlotSweeping DEF StartReplayRevocation
  <2> QED
    BY <2>1, LocksKept DEF Locking, Live, Active, Others
<1>f. ASSUME TargetsFree(r), token' = RevokedAmong(request[r].targets)
      PROVE  \A q \in Requests : At(q, "claimed") /\ Live(request[q].token)
                 => token'[request[q].token].status = "live"
  <2>1. \A q \in Requests : At(q, "claimed") => request[q].token \notin request[r].targets
    BY <1>f DEF TargetsFree, TokenLocked, HoldsToken
  <2>2. \A s \in Tokens : Live(s) /\ s \notin request[r].targets => Live(s)'
    BY <1>f, RowsRevoked DEF Live
  <2> QED
    BY <1>c, <2>1, <2>2 DEF Live
<1>5. CASE FinishReplayRevocation(r)
  BY <1>0, <1>5, <1>f, LocksKept DEF FinishReplayRevocation, Active
<1>6. CASE UpdatePassword(r)
  <2>1. CASE Answer(r)
    BY <1>0, <1>6, <2>1, LocksKept DEF UpdatePassword, Active, Live, Others
  <2>2. CASE Goto(r, "changed") /\ Active(u)
    <3>1. /\ request'[r].pc = "changed" /\ request'[r].user = u
          /\ Others(r) /\ UNCHANGED <<account, token>>
      BY <1>6, <2>2, SlotMoved DEF UpdatePassword
    <3>2. \A q \in Requests : ~HoldsUser(q, u)
      BY <1>6 DEF UpdatePassword, UserLocked
    <3> QED
      BY <2>2, <3>1, <3>2 DEF LocksHold, Others, At, HoldsUser, Live, Active
  <2> QED
    BY <1>6, <2>1, <2>2 DEF UpdatePassword
<1>7. CASE StartPasswordRevocation(r)
  <2>1. /\ request[r].pc = "changed" /\ request'[r].pc = "changing"
        /\ request'[r].user = u /\ Others(r) /\ UNCHANGED <<account, token>>
    BY <1>7, SlotSweeping DEF StartPasswordRevocation
  <2> QED
    BY <2>1 DEF LocksHold, Others, At, HoldsUser, Live, Active
<1>8. CASE CommitPassword(r)
  <2>1. \A v \in Users : Active(v) => Active(v)'
    BY <1>8 DEF CommitPassword, Active, TypeOK, Account
  <2> QED
    BY <1>0, <1>8, <1>f, <2>1, LocksKept DEF CommitPassword
<1>9. CASE LockForDelete(r)
  <2>1. CASE Answer(r)
    BY <1>0, <1>9, <2>1, LocksKept DEF LockForDelete, Active, Live, Others
  <2>2. CASE Goto(r, "deleting") /\ Active(u)
    <3>1. /\ request'[r].pc = "deleting" /\ request'[r].user = u
          /\ Others(r) /\ UNCHANGED <<account, token>>
      BY <1>9, <2>2, SlotMoved DEF LockForDelete
    <3>2. \A q \in Requests : ~HoldsUser(q, u)
      BY <1>9 DEF LockForDelete, UserLocked
    <3> QED
      BY <2>2, <3>1, <3>2 DEF LocksHold, Others, At, HoldsUser, Live, Active
  <2> QED
    BY <1>9, <2>1, <2>2 DEF LockForDelete
<1>10. CASE CascadeDelete(r)
  <2>1. /\ HoldsUser(r, u) /\ u \in Users /\ Answer(r)
        /\ \A s \in Tokens : token[s].owner = u => ~TokenLocked(s)
        /\ account' = [account EXCEPT ![u] = [NoAccount EXCEPT !.status = "deleted"]]
        /\ token' = WithoutTokensOf(u)
    BY <1>10 DEF CascadeDelete, HoldsUser, At, WellFormed, Ready
  <2>2. \A q \in Requests, v \in Users : q # r /\ HoldsUser(q, v) => v # u
    BY <2>1 DEF LocksHold
  <2>3. \A v \in Users : v # u /\ Active(v) => Active(v)'
    BY <2>1 DEF Active, TypeOK
  <2>4. \A q \in Requests : At(q, "claimed") => token[request[q].token].owner # u
    BY <1>c, <2>1 DEF TokenLocked, HoldsToken
  <2>5. \A s \in Tokens : token[s].owner # u => token'[s] = token[s]
    BY <2>1, RowsDropped
  <2> QED
    BY <1>0, <1>c, <2>1, <2>2, <2>3, <2>4, <2>5, LocksKept DEF Live
<1> QED
  BY <1>1, <1>2, <1>3, <1>4, <1>5, <1>6, <1>7, <1>8, <1>9, <1>10 DEF Proceed

LEMMA StepLocks ==
  ASSUME TypeOK, WellFormed, LocksHold, [Next]_vars
  PROVE  LocksHold'
<1>c. \A q \in Requests : At(q, "claimed") => request[q].token \in Tokens
  BY DEF WellFormed, At
<1>1. ASSUME NEW u \in Users, NEW a \in Addresses, NEW p \in Passwords,
             Signup(u, a, p)
      PROVE  LocksHold'
  <2>1. UNCHANGED <<token, request>> /\ \A v \in Users : Active(v) => Active(v)'
    BY <1>1 DEF Signup, Active, TypeOK
  <2> QED
    BY <2>1 DEF LocksHold, HoldsUser, At, Live
<1>2. ASSUME NEW t \in Tokens, Logout(t)
      PROVE  LocksHold'
  <2>1. ~TokenLocked(t) /\ token' = RevokedAmong({t}) /\ UNCHANGED <<account, request>>
    BY <1>2 DEF Logout
  <2>2. \A s \in Tokens : Live(s) /\ s # t => Live(s)'
    BY <2>1, RowsRevoked DEF Live
  <2>3. \A q \in Requests : At(q, "claimed") => request[q].token # t
    BY <2>1 DEF TokenLocked, HoldsToken
  <2> QED
    BY <1>c, <2>1, <2>2, <2>3 DEF LocksHold, HoldsUser, At, Active
<1>3. ASSUME NEW t \in Tokens, Expire(t)
      PROVE  LocksHold'
  BY <1>3, <1>c, RowExpired DEF LocksHold, HoldsUser, At, Active, Live
<1>4. ASSUME NEW r \in Requests, Abort(r) \/ AbortDeadlocked(r)
      PROVE  LocksHold'
  <2>1. Fail(r) /\ UNCHANGED <<account, token>>
    BY <1>4 DEF Abort, AbortDeadlocked
  <2> QED
    BY <2>1, SlotReleased, LocksKept DEF Locking, Active, Live, Others
<1>5. CASE UNCHANGED vars
  BY <1>5 DEF vars, LocksHold, HoldsUser, At, Active, Live
<1> QED
  BY <1>1, <1>2, <1>3, <1>4, <1>5, ServeLocks, ProceedLocks DEF Next

-----------------------------------------------------------------------------
(* The token table on its own: every way it is written keeps its rotation  *)
(* chains in order.                                                        *)

TableOK == RowsAgree /\ OneLiveTokenPerSession /\ ChainIsTraceable

(* The four ways a step may treat the token table.                         *)
Declining ==
    \A t \in Tokens :
        /\ token'[t].owner = token[t].owner
        /\ token'[t].next = token[t].next
        /\ token'[t].family = token[t].family
        /\ \/ token'[t].status = token[t].status
           \/ Live(t) /\ token'[t].status = "revoked"

Opening(t) ==
    /\ t \in Unused
    /\ token'[t].status = "live"
    /\ token'[t].next = None
    /\ token'[t].family = t
    /\ \A s \in Tokens : s # t => token'[s] = token[s]

Rotating(t, child) ==
    /\ Live(t) /\ child \in Unused /\ t # child
    /\ token'[t].status = "revoked"
    /\ token'[t].next = child
    /\ token'[t].owner = token[t].owner
    /\ token'[t].family = token[t].family
    /\ token'[child].status = "live"
    /\ token'[child].owner = token[t].owner
    /\ token'[child].next = None
    /\ token'[child].family = token[t].family
    /\ \A s \in Tokens : s # t /\ s # child => token'[s] = token[s]

Dropping(u) ==
    \A t \in Tokens :
        /\ token[t].owner = u => token'[t].status = "gone" /\ token'[t].next = None
        /\ token[t].owner # u => token'[t] = token[t]

(* Nothing but statuses moves, and only from live to revoked.              *)
LEMMA TableDeclines ==
  ASSUME TableOK, TypeOK, Declining
  PROVE  TableOK'
<1> USE DEF Declining
<1>1. \A t \in Tokens : /\ Stored(t)' <=> Stored(t)
                        /\ Live(t)' => Live(t)
                        /\ t \in Unused' <=> t \in Unused
                        /\ token[t].status = "revoked" => token'[t].status = "revoked"
  BY DEF Stored, Live, Unused
<1>2. \A t \in Tokens : token[t].next \in Tokens \union {None}
  BY DEF TypeOK, Row
<1>3. RowsAgree'
  <2>1. \A t \in Tokens : t \in Unused' => token'[t].owner = None
    BY <1>1 DEF TableOK, RowsAgree
  <2>2. Unused' \subseteq Tokens
    BY DEF Unused
  <2>3. \A s \in Tokens : Stored(s)' => token'[s].family \in Tokens \ Unused'
    BY <1>1 DEF TableOK, RowsAgree
  <2>4. \A p \in Tokens : token'[p].next # None =>
          /\ token'[p].status = "revoked"
          /\ token'[p].next \notin Unused'
          /\ Stored(token[p].next)' =>
                /\ token'[token[p].next].family = token'[p].family
                /\ token'[token[p].next].owner = token'[p].owner
    BY <1>1, <1>2 DEF TableOK, RowsAgree
  <2>5. \A p, q \in Tokens : token'[p].next = token'[q].next /\ token'[p].next # None => p = q
    BY DEF TableOK, RowsAgree
  <2> QED
    BY <1>1, <2>1, <2>2, <2>3, <2>4, <2>5 DEF RowsAgree, Stored
<1>4. OneLiveTokenPerSession'
  BY <1>1 DEF TableOK, OneLiveTokenPerSession
<1>5. ChainIsTraceable'
  BY <1>1 DEF TableOK, ChainIsTraceable
<1> QED
  BY <1>3, <1>4, <1>5 DEF TableOK

(* A login's row starts a chain of its own.                                *)
LEMMA TableMints ==
  ASSUME TableOK, TypeOK, NEW t \in Tokens, Opening(t)
  PROVE  TableOK'
<1> USE DEF Opening
<1>1. \A s \in Tokens : s # t => /\ Stored(s)' <=> Stored(s)
                                 /\ Live(s)' <=> Live(s)
                                 /\ s \in Unused' <=> s \in Unused
  BY DEF Stored, Live, Unused
<1>2. ~Stored(t) /\ Stored(t)' /\ t \notin Unused' /\ Live(t)'
  BY DEF Stored, Unused, Live
<1>3. \A s \in Tokens : token[s].next \in Tokens \union {None}
  BY DEF TypeOK, Row
<1>4. RowsAgree'
  <2>1. \A s \in Tokens : Stored(s)' => token'[s].family \in Tokens \ Unused'
    BY <1>1, <1>2 DEF TableOK, RowsAgree
  <2>2. ASSUME NEW p \in Tokens, token'[p].next # None
        PROVE  /\ token'[p].status = "revoked"
               /\ token'[p].next \notin Unused'
               /\ Stored(token[p].next)' =>
                     /\ token'[token[p].next].family = token'[p].family
                     /\ token'[token[p].next].owner = token'[p].owner
               /\ p # t /\ token'[p].next = token[p].next
    BY <1>1, <1>2, <1>3, <2>2 DEF TableOK, RowsAgree
  <2>3. \A p, q \in Tokens : token'[p].next = token'[q].next /\ token'[p].next # None => p = q
    BY <2>2 DEF TableOK, RowsAgree
  <2>4. \A s \in Unused' : token'[s].owner = None
    BY <1>1, <1>2 DEF TableOK, RowsAgree, Unused
  <2> QED
    BY <2>1, <2>2, <2>3, <2>4 DEF RowsAgree, Stored
<1>5. OneLiveTokenPerSession'
  <2>1. \A s \in Tokens : s # t /\ Live(s)' => token'[s].family # t
    BY <1>1 DEF TableOK, RowsAgree, Live, Stored
  <2> QED
    BY <1>1, <2>1 DEF TableOK, OneLiveTokenPerSession
<1>6. ChainIsTraceable'
  BY <1>1, <1>2, NoneAssumption DEF TableOK, ChainIsTraceable, Unused
<1> QED
  BY <1>4, <1>5, <1>6 DEF TableOK

(* A rotation moves the only live token of a chain to its new end.         *)
LEMMA TableRotates ==
  ASSUME TableOK, TypeOK, NEW t \in Tokens, NEW child \in Tokens, Rotating(t, child)
  PROVE  TableOK'
<1> USE DEF Rotating
<1>1. \A s \in Tokens : s # child => /\ Stored(s)' <=> Stored(s)
                                     /\ Live(s)' => Live(s) /\ s # t
                                     /\ s \in Unused' <=> s \in Unused
                                     /\ token'[s].owner = token[s].owner
                                     /\ token'[s].family = token[s].family
                                     /\ s # t => token'[s].next = token[s].next
                                     /\ token[s].status = "revoked" => token'[s].status = "revoked"
  BY DEF Stored, Live, Unused
<1>2. Stored(t) /\ ~Stored(child) /\ child \notin Unused'
  BY DEF Stored, Unused, Live
<1>3. \A s \in Tokens : token[s].next \in Tokens \union {None}
  BY DEF TypeOK, Row
<1>4. \A s \in Tokens : token[s].next # child
  BY NoneAssumption DEF TableOK, RowsAgree, Unused
<1>5. RowsAgree'
  <2>1. \A s \in Tokens : Stored(s)' => token'[s].family \in Tokens \ Unused'
    BY <1>1, <1>2 DEF TableOK, RowsAgree
  <2>2. ASSUME NEW p \in Tokens, token'[p].next # None, p # t
        PROVE  /\ token'[p].status = "revoked"
               /\ token'[p].next = token[p].next /\ token'[p].next # child
               /\ token'[p].next \notin Unused'
               /\ Stored(token[p].next)' =>
                     /\ token'[token[p].next].family = token'[p].family
                     /\ token'[token[p].next].owner = token'[p].owner
    BY <1>1, <1>2, <1>3, <1>4, <2>2 DEF TableOK, RowsAgree
  <2>3. \A p, q \in Tokens : token'[p].next = token'[q].next /\ token'[p].next # None => p = q
    BY <1>4, <2>2 DEF TableOK, RowsAgree
  <2>4. ASSUME NEW p \in Tokens, token'[p].next # None
        PROVE  /\ token'[p].status = "revoked"
               /\ token'[p].next \notin Unused'
               /\ Stored(token[p].next)' /\ p # t =>
                     /\ token'[token'[p].next].family = token'[p].family
                     /\ token'[token'[p].next].owner = token'[p].owner
               /\ p = t =>
                     /\ token'[token'[p].next].family = token'[p].family
                     /\ token'[token'[p].next].owner = token'[p].owner
    BY <1>2, <2>2, <2>4
  <2>5. \A s \in Unused' : token'[s].owner = None
    BY <1>1, <1>2 DEF TableOK, RowsAgree, Unused
  <2> QED
    BY <2>1, <2>2, <2>3, <2>4, <2>5 DEF RowsAgree, Stored
<1>6. OneLiveTokenPerSession'
  <2>1. \A s \in Tokens : s # child /\ Live(s)' => token'[s].family # token[t].family
    BY <1>1 DEF TableOK, OneLiveTokenPerSession
  <2> QED
    BY <1>1, <2>1 DEF TableOK, OneLiveTokenPerSession
<1>7. ChainIsTraceable'
  <2>1. ASSUME NEW s \in Tokens, s # child, Stored(s), token[s].family # s
        PROVE  \E p \in Tokens :
                 /\ token'[p].next = s
                 /\ token'[p].status = "revoked"
                 /\ token'[p].family = token'[s].family
                 /\ \A q \in Tokens : token'[q].next = s => q = p
    <3>1. PICK p \in Tokens : /\ token[p].next = s
                              /\ token[p].status = "revoked"
                              /\ token[p].family = token[s].family
                              /\ \A q \in Tokens : token[q].next = s => q = p
      BY <2>1 DEF TableOK, ChainIsTraceable
    <3>2. p # t /\ p # child
      BY <3>1 DEF Live, Unused
    <3> QED
      BY <1>1, <2>1, <3>1, <3>2, NoneAssumption
  <2>2. \A q \in Tokens : token'[q].next = child => q = t
    BY <1>1, <1>4, NoneAssumption
  <2> QED
    BY <1>1, <2>1, <2>2 DEF ChainIsTraceable
<1> QED
  BY <1>5, <1>6, <1>7 DEF TableOK

(* A cascade takes whole chains away, since a chain has one owner.         *)
LEMMA TableDrops ==
  ASSUME TableOK, TypeOK, NEW u, Dropping(u)
  PROVE  TableOK'
<1> USE DEF Dropping
<1>1. \A t \in Tokens : /\ Stored(t)' <=> Stored(t) /\ token[t].owner # u
                        /\ Live(t)' => Live(t) /\ token'[t] = token[t]
                        /\ t \in Unused' => t \in Unused
  BY DEF Stored, Live, Unused
<1>2. \A t \in Tokens : token[t].next \in Tokens \union {None}
  BY DEF TypeOK, Row
<1>3. RowsAgree'
  <2>1. \A s \in Tokens : Stored(s)' => token'[s].family \in Tokens \ Unused'
    BY <1>1 DEF TableOK, RowsAgree
  <2>2. ASSUME NEW p \in Tokens, token'[p].next # None
        PROVE  /\ token'[p] = token[p]
               /\ token'[p].status = "revoked"
               /\ token'[p].next \notin Unused'
               /\ Stored(token[p].next)' =>
                     /\ token'[token[p].next].family = token'[p].family
                     /\ token'[token[p].next].owner = token'[p].owner
    BY <1>1, <1>2, <2>2 DEF TableOK, RowsAgree
  <2> QED
    BY <2>1, <2>2 DEF TableOK, RowsAgree, Stored, Unused
<1>4. OneLiveTokenPerSession'
  BY <1>1 DEF TableOK, OneLiveTokenPerSession
<1>5. ChainIsTraceable'
  <2>1. ASSUME NEW s \in Tokens, Stored(s), token[s].owner # u, token[s].family # s
        PROVE  \E p \in Tokens :
                 /\ token'[p].next = s
                 /\ token'[p].status = "revoked"
                 /\ token'[p].family = token[s].family
                 /\ \A q \in Tokens : token'[q].next = s => q = p
    <3>1. PICK p \in Tokens : /\ token[p].next = s
                              /\ token[p].status = "revoked"
                              /\ token[p].family = token[s].family
                              /\ \A q \in Tokens : token[q].next = s => q = p
      BY <2>1 DEF TableOK, ChainIsTraceable
    <3>2. token[p].owner = token[s].owner
      BY <2>1, <3>1, NoneAssumption DEF TableOK, RowsAgree
    <3> QED
      BY <2>1, <3>1, <3>2, NoneAssumption
  <2> QED
    BY <1>1, <2>1 DEF ChainIsTraceable, Stored
<1> QED
  BY <1>3, <1>4, <1>5 DEF TableOK

(* Every step treats the token table in one of these ways, and takes no    *)
(* account away but the one whose tokens it drops.                         *)
LEMMA TokenStep ==
  ASSUME TypeOK, WellFormed, LocksHold, LocalsAgree, [Next]_vars
  PROVE  \/ Declining /\ \A u \in Users : Active(u) => Active(u)'
         \/ /\ \E t \in Tokens : Opening(t) /\ Active(token'[t].owner)
            /\ UNCHANGED account
         \/ \E t, child \in Tokens : Rotating(t, child) /\ UNCHANGED account
         \/ \E u \in Users :
               Dropping(u) /\ \A v \in Users : v # u /\ Active(v) => Active(v)'
<1>1. ASSUME UNCHANGED <<account, token>>
      PROVE  Declining /\ \A u \in Users : Active(u) => Active(u)'
  BY <1>1 DEF Declining, Active
<1>2. ASSUME NEW S, token' = RevokedAmong(S)
      PROVE  Declining
  BY <1>2, RowsRevoked DEF Declining
<1>3. ASSUME NEW u \in Users, NEW a \in Addresses, NEW p \in Passwords,
             Signup(u, a, p)
      PROVE  Declining /\ \A v \in Users : Active(v) => Active(v)'
  BY <1>3 DEF Signup, Active, TypeOK, Declining
<1>4. ASSUME NEW t \in Tokens, Logout(t)
      PROVE  Declining /\ \A u \in Users : Active(u) => Active(u)'
  BY <1>2, <1>4 DEF Logout, Active
<1>5. ASSUME NEW t \in Tokens, Expire(t)
      PROVE  Declining /\ \A u \in Users : Active(u) => Active(u)'
  BY <1>5, RowExpired DEF Declining, Active
<1>6. ASSUME NEW r \in Requests, Serve(r) \/ Abort(r) \/ AbortDeadlocked(r)
      PROVE  UNCHANGED <<account, token>>
  BY <1>6, LoginServed, RefreshServed, ChangeServed, DeleteServed
     DEF Serve, Abort, AbortDeadlocked
<1>7. ASSUME NEW r \in Requests, IssueTokens(r)
      PROVE  \/ UNCHANGED <<account, token>>
             \/ /\ \E t \in Tokens : Opening(t) /\ Active(token'[t].owner)
                /\ UNCHANGED account
  <2> DEFINE u == request[r].user
  <2>1. u \in Users /\ request[r].confirmed \in Passwords \union {None}
    BY <1>7 DEF IssueTokens, Ready, TypeOK, Request, At, WellFormed
  <2>2. ASSUME NEW t \in Unused, Active(u), UNCHANGED account,
               token' = [token EXCEPT ![t] = Minted(u, t, request[r].confirmed)]
        PROVE  t \in Tokens /\ Opening(t) /\ Active(token'[t].owner)
    <3>1. /\ t \in Tokens
          /\ token'[t].status = "live" /\ token'[t].owner = u
          /\ token'[t].next = None /\ token'[t].family = t
          /\ \A s \in Tokens : s # t => token'[s] = token[s]
      BY <2>1, <2>2, RowMinted
    <3> QED
      BY <2>2, <3>1 DEF Opening
  <2> QED
    BY <1>7, <2>2 DEF IssueTokens
<1>8. ASSUME NEW r \in Requests, CommitRotation(r)
      PROVE  \E t, child \in Tokens : Rotating(t, child) /\ UNCHANGED account
  <2> DEFINE t == request[r].token
  <2>1. Live(t) /\ token[t].owner = request[r].user
    BY <1>8 DEF CommitRotation, LocksHold, LocalsAgree, SlotAgrees, At, Live, Stored
  <2>2. UNCHANGED account
    BY <1>8 DEF CommitRotation
  <2> HIDE DEF t
  <2> QED
    BY <1>8, <2>1, <2>2, RowRotated DEF Rotating, t
<1>9. ASSUME NEW r \in Requests, CascadeDelete(r)
      PROVE  \E u \in Users :
               Dropping(u) /\ \A v \in Users : v # u /\ Active(v) => Active(v)'
  <2>1. /\ request[r].user \in Users
        /\ token' = WithoutTokensOf(request[r].user)
        /\ \A v \in Users : v # request[r].user /\ Active(v) => Active(v)'
    BY <1>9 DEF CascadeDelete, At, WellFormed, Ready, Active, TypeOK
  <2> QED
    BY <2>1, RowsDropped DEF Dropping
<1>10. ASSUME NEW r \in Requests, FinishReplayRevocation(r) \/ CommitPassword(r)
       PROVE  Declining /\ \A u \in Users : Active(u) => Active(u)'
  <2>1. token' = RevokedAmong(request[r].targets)
    BY <1>10 DEF FinishReplayRevocation, CommitPassword
  <2>2. \A u \in Users : Active(u) => Active(u)'
    BY <1>10 DEF FinishReplayRevocation, CommitPassword, Active, TypeOK, Account
  <2> QED
    BY <1>2, <2>1, <2>2
<1>11. ASSUME NEW r \in Requests,
              \/ ClaimToken(r) \/ StartReplayRevocation(r) \/ UpdatePassword(r)
              \/ StartPasswordRevocation(r) \/ LockForDelete(r)
       PROVE  UNCHANGED <<account, token>>
  BY <1>11 DEF ClaimToken, StartReplayRevocation, UpdatePassword,
               StartPasswordRevocation, LockForDelete, RevokeAllForUser
<1>12. CASE UNCHANGED vars
  BY <1>1, <1>12 DEF vars
<1>13. ASSUME NEW r \in Requests, Serve(r) \/ Proceed(r) \/ Abort(r) \/ AbortDeadlocked(r)
       PROVE  \/ Declining /\ \A u \in Users : Active(u) => Active(u)'
              \/ /\ \E t \in Tokens : Opening(t) /\ Active(token'[t].owner)
                 /\ UNCHANGED account
              \/ \E t, child \in Tokens : Rotating(t, child) /\ UNCHANGED account
              \/ \E u \in Users :
                    Dropping(u) /\ \A v \in Users : v # u /\ Active(v) => Active(v)'
  BY <1>1, <1>6, <1>7, <1>8, <1>9, <1>10, <1>11, <1>13 DEF Proceed
<1> QED
  BY <1>3, <1>4, <1>5, <1>12, <1>13 DEF Next

(* A used row never becomes more than it was: it is not reused, not given  *)
(* away and not brought back to life.                                      *)
LEMMA UsedRowsDecline ==
  ASSUME TypeOK, WellFormed, LocksHold, LocalsAgree, [Next]_vars,
         NEW t \in Tokens, t \notin Unused
  PROVE  /\ t \notin Unused'
         /\ Stored(t)' => Stored(t) /\ token'[t].owner = token[t].owner
         /\ Live(t)' => Live(t)
<1>1. CASE Declining
  BY <1>1 DEF Declining, Unused, Stored, Live
<1>2. ASSUME NEW s \in Tokens, Opening(s)
      PROVE  token'[t] = token[t]
  BY <1>2 DEF Opening
<1>3. ASSUME NEW s \in Tokens, NEW child \in Tokens, Rotating(s, child)
      PROVE  \/ token'[t] = token[t]
             \/ /\ Live(t) /\ token'[t].status = "revoked"
                /\ token'[t].owner = token[t].owner
  BY <1>3 DEF Rotating
<1>4. ASSUME NEW u \in Users, Dropping(u)
      PROVE  token'[t] = token[t] \/ token'[t].status = "gone"
  BY <1>4 DEF Dropping
<1> QED
  BY <1>1, <1>2, <1>3, <1>4, TokenStep DEF Unused, Stored, Live

-----------------------------------------------------------------------------
(* What the requests remember stays true of the tables.                    *)

LEMMA SlotStays ==
  ASSUME TypeOK, WellFormed, LocksHold, LocalsAgree, [Next]_vars,
         NEW q \in Requests, request'[q] = request[q]
  PROVE  SlotAgrees(q)'
<1>1. SlotAgrees(q) /\ request[q].known \subseteq Tokens
  BY DEF LocalsAgree, TypeOK, Request
<1>2. request[q].pc \in {"rotate", "claimed"} => request[q].token \in Tokens \ Unused
  BY DEF WellFormed
<1>3. \A t \in Tokens : t \notin Unused =>
         /\ t \notin Unused'
         /\ Stored(t)' => Stored(t) /\ token'[t].owner = token[t].owner
         /\ Live(t)' => Live(t)
  BY UsedRowsDecline
<1>4. request[q].pc \in {"rotate", "claimed"} /\ Stored(request[q].token)' =>
         token'[request[q].token].owner = request[q].user
  BY <1>1, <1>2, <1>3 DEF SlotAgrees, Stored
<1>5. ASSUME NEW t \in request[q].known
      PROVE  /\ t \notin Unused'
             /\ Stored(t)' => token'[t].owner = request[q].user
             /\ request[q].pc \in {"replaying", "changing"} /\ Live(t)' =>
                   t \in request[q].targets
  BY <1>1, <1>3, <1>5 DEF SlotAgrees
<1> QED
  BY <1>1, <1>4, <1>5 DEF SlotAgrees, Stored, Live

(* The slot of the request that moves.                                     *)
LEMMA SlotEmptied ==
  ASSUME NEW r \in Requests, request'[r].pc \in {"idle", "failed", "login", "delete"},
         request'[r].known = {}, request'[r].targets = {}
  PROVE  SlotAgrees(r)'
BY DEF SlotAgrees

LEMMA LiveOfAgrees ==
  ASSUME TypeOK, NEW u, NEW t \in LiveOf(u)
  PROVE  t \in Tokens /\ t \notin Unused /\ Live(t) /\ token[t].owner = u
BY DEF LiveOf, Unused, Live

LEMMA SlotServed ==
  ASSUME TypeOK, NEW r \in Requests, Serve(r)
  PROVE  SlotAgrees(r)' /\ Others(r)
<1>1. ASSUME NEW a \in Addresses, NEW p \in Passwords, Login(r, a, p)
      PROVE  SlotAgrees(r)' /\ Others(r)
  BY <1>1, LoginServed, SlotEmptied
<1>2. ASSUME NEW t \in Tokens, Refresh(r, t)
      PROVE  SlotAgrees(r)' /\ Others(r)
  <2>1. UNCHANGED token /\ Others(r) /\ request'[r].targets = {}
    BY <1>2, RefreshServed
  <2>2. CASE request'[r].pc = "idle" /\ request'[r].known = {}
    BY <2>1, <2>2, SlotEmptied
  <2>3. CASE /\ request'[r].pc = "replay" /\ request'[r].user = token[t].owner
             /\ request'[r].known = LiveOf(token[t].owner)
    BY <2>1, <2>3, LiveOfAgrees DEF SlotAgrees, Unused, Stored
  <2>4. CASE /\ request'[r].pc = "rotate" /\ request'[r].user = token[t].owner
             /\ request'[r].token = t /\ request'[r].known = {}
    BY <2>1, <2>4 DEF SlotAgrees
  <2> QED
    BY <1>2, <2>1, <2>2, <2>3, <2>4, RefreshServed
<1>3. ASSUME NEW u \in Users, NEW p \in Passwords, NEW q \in Passwords,
             ChangePassword(r, u, p, q)
      PROVE  SlotAgrees(r)' /\ Others(r)
  <2>1. UNCHANGED token /\ Others(r) /\ request'[r].targets = {}
    BY <1>3, ChangeServed
  <2>2. CASE request'[r].pc = "idle" /\ request'[r].known = {}
    BY <2>1, <2>2, SlotEmptied
  <2>3. CASE /\ request'[r].pc = "change" /\ request'[r].user = u
             /\ request'[r].known = LiveOf(u)
    BY <2>1, <2>3, LiveOfAgrees DEF SlotAgrees, Unused, Stored
  <2> QED
    BY <1>3, <2>1, <2>2, <2>3, ChangeServed
<1>4. ASSUME NEW u \in Users, NEW p \in Passwords, DeleteAccount(r, u, p)
      PROVE  SlotAgrees(r)' /\ Others(r)
  BY <1>4, DeleteServed, SlotEmptied
<1> QED
  BY <1>1, <1>2, <1>3, <1>4 DEF Serve

LEMMA SlotProceeds ==
  ASSUME TypeOK, LocalsAgree, NEW r \in Requests, Proceed(r)
  PROVE  SlotAgrees(r)' /\ Others(r)
<1>1. SlotAgrees(r) /\ request[r].known \subseteq Tokens
  BY DEF LocalsAgree, TypeOK, Request
<1>2. ASSUME Answer(r) \/ Fail(r)
      PROVE  SlotAgrees(r)' /\ Others(r)
  BY <1>2, SlotReleased, SlotEmptied
<1>3. ASSUME NEW pc \in {"claimed", "changed", "deleting"}, Goto(r, pc), UNCHANGED token,
             pc = "claimed" => request[r].pc = "rotate",
             request[r].pc \notin {"replaying", "changing"}
      PROVE  SlotAgrees(r)' /\ Others(r)
  <2>1. /\ request'[r].pc = pc /\ Others(r)
        /\ request'[r].user = request[r].user /\ request'[r].token = request[r].token
        /\ request'[r].known = request[r].known /\ request'[r].targets = request[r].targets
    BY <1>3, SlotMoved
  <2> QED
    BY <1>1, <1>3, <2>1 DEF SlotAgrees, Unused, Stored, Live
<1>4. ASSUME NEW from, NEW to \in {"replaying", "changing"},
             RevokeAllForUser(r, from, to)
      PROVE  SlotAgrees(r)' /\ Others(r)
  <2>1. /\ request'[r].pc = to /\ Others(r) /\ UNCHANGED token
        /\ request'[r].user = request[r].user
        /\ request'[r].known = request[r].known
        /\ request'[r].targets = LiveOf(request[r].user)
    BY <1>4, SlotSweeping
  <2>2. \A t \in request[r].known : Live(t) => t \in LiveOf(request[r].user)
    BY <1>1 DEF SlotAgrees, LiveOf, Live, Stored
  <2> QED
    BY <1>1, <2>1, <2>2 DEF SlotAgrees, Unused, Stored, Live
<1>5. CASE IssueTokens(r) \/ CommitRotation(r) \/ FinishReplayRevocation(r)
              \/ CommitPassword(r) \/ CascadeDelete(r)
  BY <1>2, <1>5 DEF IssueTokens, CommitRotation, FinishReplayRevocation,
                    CommitPassword, CascadeDelete
<1>6. CASE ClaimToken(r)
  BY <1>2, <1>3, <1>6 DEF ClaimToken, At
<1>7. CASE UpdatePassword(r)
  BY <1>2, <1>3, <1>7 DEF UpdatePassword, At
<1>8. CASE LockForDelete(r)
  BY <1>2, <1>3, <1>8 DEF LockForDelete, At
<1>9. CASE StartReplayRevocation(r) \/ StartPasswordRevocation(r)
  BY <1>4, <1>9 DEF StartReplayRevocation, StartPasswordRevocation
<1> QED
  BY <1>5, <1>6, <1>7, <1>8, <1>9 DEF Proceed

LEMMA StepLocals ==
  ASSUME TypeOK, WellFormed, LocksHold, LocalsAgree, [Next]_vars
  PROVE  LocalsAgree'
<1>1. ASSUME UNCHANGED request
      PROVE  LocalsAgree'
  BY <1>1, SlotStays DEF LocalsAgree
<1>2. ASSUME NEW r \in Requests, SlotAgrees(r)', Others(r)
      PROVE  LocalsAgree'
  BY <1>2, SlotStays DEF LocalsAgree, Others
<1>3. ASSUME NEW r \in Requests, Abort(r) \/ AbortDeadlocked(r)
      PROVE  SlotAgrees(r)' /\ Others(r)
  BY <1>3, SlotReleased, SlotEmptied DEF Abort, AbortDeadlocked
<1>4. CASE UNCHANGED vars
  BY <1>1, <1>4 DEF vars
<1>5. CASE \E u \in Users, a \in Addresses, p \in Passwords : Signup(u, a, p)
  BY <1>1, <1>5 DEF Signup
<1>6. CASE \E t \in Tokens : Logout(t) \/ Expire(t)
  BY <1>1, <1>6 DEF Logout, Expire
<1>7. CASE \E r \in Requests : Serve(r) \/ Proceed(r) \/ Abort(r) \/ AbortDeadlocked(r)
  BY <1>2, <1>3, <1>7, SlotServed, SlotProceeds
<1> QED
  BY <1>4, <1>5, <1>6, <1>7 DEF Next

-----------------------------------------------------------------------------
(* The inductive invariant, and the theorems that follow from it.          *)

LEMMA InitIndInv == Init => IndInv
<1> SUFFICES ASSUME Init PROVE IndInv
  OBVIOUS
<1>1. TypeOK /\ WellFormed
  BY InitTyped
<1>2. /\ Blank.status = "unused" /\ Blank.owner = None /\ Blank.next = None
  BY DEF Blank
<1>3. Idle.pc = "idle" /\ Idle.known = {} /\ Idle.targets = {}
  BY DEF Idle
<1>4. \A t \in Tokens : t \in Unused /\ ~Stored(t) /\ ~Live(t) /\ token[t].next = None
                        /\ token[t].owner = None
  BY <1>2 DEF Init, Unused, Stored, Live
<1>5. LocksHold /\ LocalsAgree
  BY <1>3 DEF Init, LocksHold, LocalsAgree, SlotAgrees, At, HoldsUser
<1>6. /\ RowsAgree /\ OneLiveTokenPerSession /\ ChainIsTraceable /\ TokensHaveOwners
  BY <1>4 DEF RowsAgree, OneLiveTokenPerSession, ChainIsTraceable, TokensHaveOwners, Unused
<1> QED
  BY <1>1, <1>5, <1>6 DEF IndInv

LEMMA StepIndInv == IndInv /\ [Next]_vars => IndInv'
<1> SUFFICES ASSUME IndInv, [Next]_vars PROVE IndInv'
  OBVIOUS
<1>1. /\ TypeOK /\ WellFormed /\ LocksHold /\ LocalsAgree
      /\ TableOK /\ TokensHaveOwners
  BY DEF IndInv, TableOK
<1>2. (TypeOK /\ WellFormed)' /\ LocksHold' /\ LocalsAgree'
  BY <1>1, StepTyped, StepLocks, StepLocals
<1>3. TableOK'
  BY <1>1, TokenStep, TableDeclines, TableMints, TableRotates, TableDrops
<1>4. TokensHaveOwners'
  <2>1. CASE Declining /\ \A u \in Users : Active(u) => Active(u)'
    BY <1>1, <2>1 DEF Declining, TokensHaveOwners, Stored, Live, WellFormed, Active
  <2>2. ASSUME NEW t \in Tokens, Opening(t), Active(token'[t].owner), UNCHANGED account
        PROVE  TokensHaveOwners'
    BY <1>1, <2>2 DEF Opening, TokensHaveOwners, Stored, Active
  <2>3. ASSUME NEW t \in Tokens, NEW child \in Tokens, Rotating(t, child), UNCHANGED account
        PROVE  TokensHaveOwners'
    BY <1>1, <2>3 DEF Rotating, TokensHaveOwners, Stored, Live, Active
  <2>4. ASSUME NEW u \in Users, Dropping(u),
               \A v \in Users : v # u /\ Active(v) => Active(v)'
        PROVE  TokensHaveOwners'
    BY <1>1, <2>4 DEF Dropping, TokensHaveOwners, Stored, WellFormed, Active
  <2> QED
    BY <1>1, <2>1, <2>2, <2>3, <2>4, TokenStep
<1> QED
  BY <1>2, <1>3, <1>4 DEF IndInv, TableOK

(* The invariant behind everything below: locks, locals and rows agree.    *)
THEOREM IndInvHolds == Spec => []IndInv
BY InitIndInv, StepIndInv, PTL DEF Spec

(* The tables and the request slots keep their types.                      *)
THEOREM TypeCorrect == Spec => []TypeOK
<1>1. IndInv => TypeOK
  BY DEF IndInv
<1> QED
  BY <1>1, IndInvHolds, PTL

(* A refresh token is redeemed at most once and a session never has two    *)
(* live tokens, with any number of requests racing.                        *)
THEOREM OneLiveToken == Spec => []OneLiveTokenPerSession
<1>1. IndInv => OneLiveTokenPerSession
  BY DEF IndInv
<1> QED
  BY <1>1, IndInvHolds, PTL

(* replacedByTokenHash always leads from a token back to its login.        *)
THEOREM ChainTraceable == Spec => []ChainIsTraceable
<1>1. IndInv => ChainIsTraceable
  BY DEF IndInv
<1> QED
  BY <1>1, IndInvHolds, PTL

(* No refresh token is stored for an account that is gone.                 *)
THEOREM NoOrphanToken == Spec => []TokensHaveOwners
<1>1. IndInv => TokensHaveOwners
  BY DEF IndInv
<1> QED
  BY <1>1, IndInvHolds, PTL

(* When a replay or a password change is answered, every token that was    *)
(* live when it came in is dead, whatever ran in between.                  *)
THEOREM KnownTokensDead == Spec => KnownTokensDie
<1>1. ASSUME IndInv, [Next]_vars, NEW r \in Requests,
             request[r].pc \in {"replay", "replaying", "changed", "changing"},
             request'[r].pc = "idle", NEW t \in request[r].known
      PROVE  token'[t].status # "live"
  <2>1. /\ TypeOK /\ WellFormed /\ LocksHold /\ LocalsAgree
        /\ SlotAgrees(r) /\ t \in Tokens
    BY <1>1 DEF IndInv, LocalsAgree, TypeOK, Request
  <2>2. request'[r] # request[r]
    BY <1>1
  <2>3. ~Ready(r)
    BY <1>1 DEF Ready
  <2>4. \A q \in Requests : Others(q) => q = r
    BY <2>2 DEF Others
  <2>5. \A q \in Requests : Abort(q) \/ AbortDeadlocked(q) => Fail(q)
    BY DEF Abort, AbortDeadlocked
  <2>6. ASSUME NEW q \in Requests, Fail(q)
        PROVE  FALSE
    <3>1. q = r
      BY <2>1, <2>4, <2>6, SlotReleased
    <3>2. [Idle EXCEPT !.pc = "failed"].pc = "failed"
      BY DEF Idle
    <3>3. request'[r].pc = "failed"
      BY <2>1, <2>6, <3>1, <3>2 DEF Fail, TypeOK
    <3> QED
      BY <1>1, <3>3
  <2>7. ASSUME NEW q \in Requests, Serve(q)
        PROVE  FALSE
    <3>1. q = r
      BY <2>1, <2>4, <2>7, SlotServed
    <3> QED
      BY <2>1, <2>3, <2>7, <3>1, LoginServed, RefreshServed, ChangeServed, DeleteServed
         DEF Serve
  <2>8. PICK q \in Requests : Proceed(q)
    BY <1>1, <2>2, <2>5, <2>6, <2>7 DEF Next, vars, Signup, Logout, Expire
  <2>9. q = r
    BY <2>1, <2>4, <2>8, SlotProceeds
  <2>10. FinishReplayRevocation(r) \/ CommitPassword(r)
    <3>1. ~StartReplayRevocation(r) /\ ~StartPasswordRevocation(r)
      BY <1>1, <2>1, SlotSweeping DEF StartReplayRevocation, StartPasswordRevocation
    <3> QED
      BY <1>1, <2>8, <2>9, <3>1
         DEF Proceed, At, IssueTokens, ClaimToken, CommitRotation, UpdatePassword,
             LockForDelete, CascadeDelete
  <2>11. /\ token' = RevokedAmong(request[r].targets)
         /\ request[r].pc \in {"replaying", "changing"}
    BY <2>10 DEF FinishReplayRevocation, CommitPassword, At
  <2>12. Live(t) => t \in request[r].targets
    BY <2>1, <2>11 DEF SlotAgrees
  <2> QED
    BY <2>1, <2>11, <2>12, RowsRevoked DEF Live
<1>2. IndInv /\ [Next]_vars =>
        [\A r \in Requests :
            request[r].pc \in {"replay", "replaying", "changed", "changing"}
                /\ request'[r].pc = "idle" =>
            \A t \in request[r].known : token'[t].status # "live"]_vars
  BY <1>1
<1> QED
  BY <1>2, IndInvHolds, PTL DEF Spec, KnownTokensDie

-----------------------------------------------------------------------------
(* The accounts: who writes them, and that an address has one.             *)

(* The statements that write the users table.                              *)
LEMMA AccountStep ==
  ASSUME TypeOK, [Next]_vars
  PROVE  \/ UNCHANGED account
         \/ \E u \in Users, a \in Addresses, p \in Passwords : Signup(u, a, p)
         \/ \E r \in Requests : CommitPassword(r) \/ CascadeDelete(r)
<1>1. ASSUME NEW r \in Requests, Serve(r) \/ Abort(r) \/ AbortDeadlocked(r)
      PROVE  UNCHANGED account
  BY <1>1, LoginServed, RefreshServed, ChangeServed, DeleteServed
     DEF Serve, Abort, AbortDeadlocked
<1>2. ASSUME NEW r \in Requests, Proceed(r), ~CommitPassword(r), ~CascadeDelete(r)
      PROVE  UNCHANGED account
  BY <1>2 DEF Proceed, IssueTokens, ClaimToken, CommitRotation,
              StartReplayRevocation, FinishReplayRevocation, UpdatePassword,
              StartPasswordRevocation, LockForDelete, RevokeAllForUser
<1>3. ASSUME NEW t \in Tokens, Logout(t) \/ Expire(t)
      PROVE  UNCHANGED account
  BY <1>3 DEF Logout, Expire
<1> QED
  BY <1>1, <1>2, <1>3 DEF Next, vars

(* Addresses are stored in their canonical spelling, each at most once.    *)
AddressesAgree ==
    /\ \A u \in Users : Active(u) =>
          account[u].email \in Addresses
          /\ Canonical[account[u].email] = account[u].email
    /\ \A u, v \in Users :
          Active(u) /\ Active(v) /\ account[u].email = account[v].email => u = v

LEMMA StepAddresses ==
  ASSUME TypeOK, WellFormed, AddressesAgree, [Next]_vars
  PROVE  AddressesAgree'
<1>1. CASE UNCHANGED account
  BY <1>1 DEF AddressesAgree, Active
<1>2. ASSUME NEW u \in Users, NEW a \in Addresses, NEW p \in Passwords,
             Signup(u, a, p)
      PROVE  AddressesAgree'
  <2> DEFINE c == Canonical[a]
  <2>1. c \in Addresses /\ Canonical[c] = c
    BY CanonicalAssumption
  <2>2. /\ account'[u].email = c
        /\ \A v \in Users : v # u => account'[v] = account[v]
        /\ \A v \in Users : Active(v) => account[v].email # c
    BY <1>2 DEF Signup, normaliseEmail, TypeOK
  <2> HIDE DEF c
  <2> QED
    BY <2>1, <2>2 DEF AddressesAgree, Active
<1>3. ASSUME NEW r \in Requests, CommitPassword(r)
      PROVE  AddressesAgree'
  <2>1. \A v \in Users : /\ account'[v].email = account[v].email
                         /\ account'[v].status = account[v].status
    BY <1>3 DEF CommitPassword, TypeOK, Account
  <2> QED
    BY <2>1 DEF AddressesAgree, Active
<1>4. ASSUME NEW r \in Requests, CascadeDelete(r)
      PROVE  AddressesAgree'
  <2>1. PICK u \in Users :
            account' = [account EXCEPT ![u] = [NoAccount EXCEPT !.status = "deleted"]]
    BY <1>4 DEF CascadeDelete, At, WellFormed, Ready
  <2>2. account'[u].status = "deleted"
    BY <2>1 DEF TypeOK, NoAccount
  <2>3. \A v \in Users : v # u => account'[v] = account[v]
    BY <2>1 DEF TypeOK
  <2> QED
    BY <2>2, <2>3 DEF AddressesAgree, Active
<1> QED
  BY <1>1, <1>2, <1>3, <1>4, AccountStep

(* An address never belongs to two accounts, however it is spelled and     *)
(* however often accounts with it are deleted and registered again         *)
(* (Sessions, OneAccountPerAddress).                                       *)
THEOREM AddressesAreUnique == Spec => []OneAccountPerAddress
<1>1. Init => AddressesAgree
  BY DEF Init, AddressesAgree, Active, NoAccount
<1>2. IndInv /\ AddressesAgree /\ [Next]_vars => AddressesAgree'
  BY StepAddresses DEF IndInv
<1>3. AddressesAgree => OneAccountPerAddress
  BY DEF AddressesAgree, OneAccountPerAddress
<1> QED
  BY <1>1, <1>2, <1>3, IndInvHolds, PTL DEF Spec

-----------------------------------------------------------------------------
(* Whose tokens a sweep revokes.                                           *)

TargetsOf(r) ==
    \A t \in request[r].targets :
        t \notin Unused /\ (Stored(t) => token[t].owner = request[r].user)

(* What a running sweep has picked is its user's, and stays so.            *)
TargetsAgree == \A r \in Requests : TargetsOf(r)

LEMMA TargetsMove ==
  ASSUME TypeOK, LocalsAgree, TargetsAgree, NEW r \in Requests,
         Serve(r) \/ Proceed(r) \/ Abort(r) \/ AbortDeadlocked(r)
  PROVE  Others(r) /\ TargetsOf(r)'
<1>1. ASSUME Answer(r) \/ Fail(r)
      PROVE  Others(r) /\ TargetsOf(r)'
  BY <1>1, SlotReleased DEF TargetsOf
<1>2. ASSUME Serve(r)
      PROVE  Others(r) /\ TargetsOf(r)'
  <2>1. Others(r) /\ request'[r].targets = {}
    BY <1>2, LoginServed, RefreshServed, ChangeServed, DeleteServed DEF Serve
  <2> QED
    BY <2>1 DEF TargetsOf
<1>3. ASSUME NEW pc \in {"claimed", "changed", "deleting"}, Goto(r, pc), UNCHANGED token
      PROVE  Others(r) /\ TargetsOf(r)'
  <2>1. /\ Others(r) /\ request'[r].user = request[r].user
        /\ request'[r].targets = request[r].targets
    BY <1>3, SlotMoved
  <2> QED
    BY <1>3, <2>1 DEF TargetsAgree, TargetsOf, Unused, Stored
<1>4. ASSUME NEW from, NEW to \in {"replaying", "changing"}, RevokeAllForUser(r, from, to)
      PROVE  Others(r) /\ TargetsOf(r)'
  <2>1. /\ Others(r) /\ request'[r].user = request[r].user
        /\ request'[r].targets = LiveOf(request[r].user)
        /\ UNCHANGED token
    BY <1>4, SlotSweeping
  <2> QED
    BY <2>1, LiveOfAgrees DEF TargetsOf, Unused, Stored
<1>5. CASE \/ IssueTokens(r) \/ CommitRotation(r) \/ FinishReplayRevocation(r)
           \/ CommitPassword(r) \/ CascadeDelete(r) \/ Abort(r) \/ AbortDeadlocked(r)
  BY <1>1, <1>5 DEF IssueTokens, CommitRotation, FinishReplayRevocation,
                    CommitPassword, CascadeDelete, Abort, AbortDeadlocked
<1>6. CASE ClaimToken(r) \/ UpdatePassword(r) \/ LockForDelete(r)
  BY <1>1, <1>3, <1>6 DEF ClaimToken, UpdatePassword, LockForDelete
<1>7. CASE StartReplayRevocation(r) \/ StartPasswordRevocation(r)
  BY <1>4, <1>7 DEF StartReplayRevocation, StartPasswordRevocation
<1> QED
  BY <1>2, <1>5, <1>6, <1>7 DEF Proceed

LEMMA StepTargets ==
  ASSUME TypeOK, WellFormed, LocksHold, LocalsAgree, TargetsAgree, [Next]_vars
  PROVE  TargetsAgree'
<1>1. ASSUME NEW q \in Requests, request'[q] = request[q]
      PROVE  TargetsOf(q)'
  <2>1. request[q].targets \subseteq Tokens /\ TargetsOf(q)
    BY DEF TypeOK, Request, TargetsAgree
  <2> QED
    BY <1>1, <2>1, UsedRowsDecline DEF TargetsOf
<1>2. CASE UNCHANGED request
  BY <1>1, <1>2 DEF TargetsAgree
<1>3. ASSUME NEW r \in Requests, Serve(r) \/ Proceed(r) \/ Abort(r) \/ AbortDeadlocked(r)
      PROVE  TargetsAgree'
  BY <1>1, <1>3, TargetsMove DEF TargetsAgree, Others
<1> QED
  BY <1>2, <1>3 DEF Next, vars, Signup, Logout, Expire

LEMMA TargetsHold == Spec => []TargetsAgree
<1>1. Init => TargetsAgree
  BY DEF Init, TargetsAgree, TargetsOf, Idle
<1>2. IndInv /\ TargetsAgree /\ [Next]_vars => TargetsAgree'
  BY StepTargets DEF IndInv
<1> QED
  BY <1>1, <1>2, IndInvHolds, PTL DEF Spec

(* A request ends only sessions of the account it runs for                 *)
(* (Sessions, OnlyOwnSessionsEnd).                                         *)
THEOREM SweepsStayAtHome == Spec => OnlyOwnSessionsEnd
<1> DEFINE Own == \A t \in Tokens :
          Live(t) /\ token'[t].status # "live" /\ request' # request =>
          \E r \in Requests :
              /\ request'[r] # request[r]
              /\ request[r].user = token[t].owner
<1>1. ASSUME IndInv, TargetsAgree, [Next]_vars, NEW t \in Tokens,
             Live(t), token'[t].status # "live", request' # request
      PROVE  \E r \in Requests :
                 request'[r] # request[r] /\ request[r].user = token[t].owner
  <2>1. TypeOK /\ WellFormed /\ LocksHold /\ LocalsAgree
    BY <1>1 DEF IndInv
  <2>2. PICK r \in Requests : Proceed(r)
    <3>1. ASSUME NEW r \in Requests, Serve(r) \/ Abort(r) \/ AbortDeadlocked(r)
          PROVE  UNCHANGED token
      BY <2>1, <3>1, LoginServed, RefreshServed, ChangeServed, DeleteServed
         DEF Serve, Abort, AbortDeadlocked
    <3> QED
      BY <1>1, <3>1 DEF Next, vars, Signup, Logout, Expire, Live
  <2>3. request'[r] # request[r]
    <3>1. Others(r) /\ request' \in [Requests -> Request] /\ request \in [Requests -> Request]
      BY <1>1, <2>1, <2>2, SlotProceeds, StepTyped DEF TypeOK
    <3> QED
      BY <1>1, <3>1 DEF Others
  <2>4. CASE IssueTokens(r)
    BY <1>1, <2>4 DEF IssueTokens, Unused, Live, TypeOK, IndInv
  <2>5. CASE CommitRotation(r)
    <3>1. t = request[r].token
      BY <1>1, <2>1, <2>5, RowRotated DEF Live, Unused
    <3> QED
      BY <1>1, <2>1, <2>3, <2>5, <3>1
         DEF CommitRotation, At, LocalsAgree, SlotAgrees, Stored, Live
  <2>6. CASE FinishReplayRevocation(r) \/ CommitPassword(r)
    <3>1. t \in request[r].targets
      BY <1>1, <2>1, <2>6, RowsRevoked DEF FinishReplayRevocation, CommitPassword, Live
    <3> QED
      BY <1>1, <2>3, <3>1 DEF TargetsAgree, TargetsOf, Stored, Live
  <2>7. CASE CascadeDelete(r)
    BY <1>1, <2>1, <2>3, <2>7, RowsDropped
       DEF CascadeDelete, At, WellFormed, Ready, Live
  <2>8. CASE \/ ClaimToken(r) \/ StartReplayRevocation(r) \/ UpdatePassword(r)
             \/ StartPasswordRevocation(r) \/ LockForDelete(r)
    BY <1>1, <2>8 DEF ClaimToken, StartReplayRevocation, UpdatePassword, Live,
                      StartPasswordRevocation, LockForDelete, RevokeAllForUser
  <2> QED
    BY <2>2, <2>4, <2>5, <2>6, <2>7, <2>8 DEF Proceed
<1>2. IndInv /\ TargetsAgree /\ [Next]_vars => [Own]_vars
  BY <1>1
<1> QED
  BY <1>2, IndInvHolds, TargetsHold, PTL DEF Spec, OnlyOwnSessionsEnd

(* A new password and the end of the sessions that were live when it was   *)
(* asked for are one step (Sessions, PasswordAndSessionsCommitTogether).   *)
THEOREM PasswordEndsSessions == Spec => PasswordAndSessionsCommitTogether
<1> DEFINE Together == \A u \in Users :
          Active(u) /\ account'[u].password \notin {account[u].password, None} =>
          \E r \in Requests :
              /\ request[r].user = u
              /\ request[r].fresh = account'[u].password
              /\ \A t \in request[r].known : token'[t].status # "live"
<1>1. ASSUME IndInv, [Next]_vars, NEW u \in Users, Active(u),
             account'[u].password \notin {account[u].password, None}
      PROVE  \E r \in Requests :
                 /\ request[r].user = u
                 /\ request[r].fresh = account'[u].password
                 /\ \A t \in request[r].known : token'[t].status # "live"
  <2>1. TypeOK /\ LocalsAgree
    BY <1>1 DEF IndInv
  <2>2. PICK r \in Requests : CommitPassword(r) \/ CascadeDelete(r)
    <3>1. ASSUME NEW v \in Users, NEW a \in Addresses, NEW p \in Passwords, Signup(v, a, p)
          PROVE  FALSE
      BY <1>1, <2>1, <3>1 DEF Signup, Active, TypeOK
    <3> QED
      BY <1>1, <2>1, <3>1, AccountStep
  <2>3. ~CascadeDelete(r)
    BY <1>1, <2>1 DEF CascadeDelete, NoAccount, TypeOK
  <2>4. /\ request[r].pc = "changing"
        /\ token' = RevokedAmong(request[r].targets)
        /\ account' = [account EXCEPT ![request[r].user].password = request[r].fresh]
    BY <2>2, <2>3 DEF CommitPassword, At
  <2>5. request[r].user = u /\ request[r].fresh = account'[u].password
    BY <1>1, <2>1, <2>4 DEF TypeOK, Account
  <2>6. ASSUME NEW t \in request[r].known
        PROVE  token'[t].status # "live"
    <3>1. t \in Tokens /\ (Live(t) => t \in request[r].targets)
      BY <2>1, <2>4, <2>6 DEF TypeOK, Request, LocalsAgree, SlotAgrees
    <3> QED
      BY <2>1, <2>4, <3>1, RowsRevoked DEF Live
  <2> QED
    BY <2>5, <2>6
<1>2. IndInv /\ [Next]_vars => [Together]_vars
  BY <1>1
<1> QED
  BY <1>2, IndInvHolds, PTL DEF Spec, PasswordAndSessionsCommitTogether

-----------------------------------------------------------------------------
(* Who waits for whom.                                                     *)

(* Whoever waits, waits in the end for a refresh that has claimed its row  *)
(* and is not deadlocked, and that one does not wait.                      *)
LEMMA SomebodyMoves == TypeOK => OnlyKnownDeadlock
<1> SUFFICES ASSUME TypeOK,
                    \A r \in Requests : ~Ready(r) => Waits(r),
                    \A r \in Requests : ~InDeadlock(r)
             PROVE  \A r \in Requests : Ready(r)
  BY DEF OnlyKnownDeadlock
<1>1. \A r \in Requests : ~At(r, "claimed")
  BY DEF At, Ready, Waits, Sweeping, BeingDeleted, InDeadlock, Deadlocked
<1>2. \A t : ~TokenLocked(t)
  BY <1>1 DEF TokenLocked, HoldsToken
<1>3. \A r \in Requests :
         request[r].pc \notin {"deleting", "changing", "replaying", "rotate",
                               "replay", "changed"}
  BY <1>2 DEF Waits, Ready, At, TargetsFree
<1>4. \A u : ~UserLocked(u) /\ ~BeingDeleted(u)
  BY <1>3 DEF UserLocked, HoldsUser, BeingDeleted, At
<1>5. \A r \in Requests : ~Waits(r)
  BY <1>1, <1>2, <1>3, <1>4 DEF Waits, Sweeping, At
<1> QED
  BY <1>5

(* The one deadlock among the row locks is the one the code documents: a   *)
(* refresh against the delete of its user (Sessions, OnlyKnownDeadlock).   *)
THEOREM DeadlocksAreKnown == Spec => []OnlyKnownDeadlock
BY TypeCorrect, SomebodyMoves, PTL

-----------------------------------------------------------------------------
(* Every request ends, under the fairness of FairSpec.  ENABLED is taken   *)
(* from WaitsOnlyForLocks, which TLC checks: the provers cannot open it.   *)

(* One request moves in a step, and only an idle one is served.            *)
LEMMA RequestMoves ==
  ASSUME IndInv, NEW r \in Requests,
         Serve(r) \/ Proceed(r) \/ Abort(r) \/ AbortDeadlocked(r)
  PROVE  Others(r) /\ (Ready(r) \/ Ready(r)' \/ Proceed(r))
<1>1. TypeOK /\ LocalsAgree
  BY DEF IndInv
<1>2. CASE Serve(r)
  BY <1>1, <1>2, LoginServed, RefreshServed, ChangeServed, DeleteServed
     DEF Serve, Refresh, ChangePassword
<1>3. CASE Proceed(r)
  BY <1>1, <1>3, SlotProceeds
<1>4. CASE Abort(r) \/ AbortDeadlocked(r)
  BY <1>1, <1>4, SlotReleased DEF Abort, AbortDeadlocked, Ready
<1> QED
  BY <1>2, <1>3, <1>4

(* A request under way stays where it is, ends, or takes its next step.    *)
LEMMA SlotSteps ==
  ASSUME IndInv, [Next]_vars, NEW r \in Requests, ~Ready(r)
  PROVE  request'[r] = request[r] \/ Ready(r)' \/ Proceed(r)
BY RequestMoves DEF Next, vars, Signup, Logout, Expire, Others

LEMMA OneMoves ==
  ASSUME IndInv, [Next]_vars, NEW r \in Requests, NEW q \in Requests, r # q
  PROVE  request'[r] = request[r] \/ request'[q] = request[q]
BY RequestMoves DEF Next, vars, Signup, Logout, Expire, Others

(* Where the next step of a request leads.                                 *)
LEMMA ProceedLeads ==
  ASSUME IndInv, NEW r \in Requests, Proceed(r)
  PROVE  /\ OneRowAtATime(r) \/ Sweeping(r) => Ready(r)' \/ At(r, "claimed")'
         /\ OneRowAtATime(r) \/ Sweeping(r) => At(r, "rotate") \/ Ready(r)'
         /\ At(r, "replay") => At(r, "replaying")'
         /\ At(r, "changed") => At(r, "changing")'
         /\ At(r, "change") => Ready(r)' \/ At(r, "changed")'
         /\ At(r, "delete") => Ready(r)' \/ At(r, "deleting")'
<1>1. TypeOK
  BY DEF IndInv
<1>2. Answer(r) \/ Fail(r) => Ready(r)'
  BY <1>1, SlotReleased DEF Ready
<1>3. \A pc \in {"claimed", "changed", "deleting"} : Goto(r, pc) => At(r, pc)'
  BY <1>1, SlotMoved DEF At
<1>4. /\ StartReplayRevocation(r) => At(r, "replay") /\ At(r, "replaying")'
      /\ StartPasswordRevocation(r) => At(r, "changed") /\ At(r, "changing")'
  BY <1>1, SlotSweeping DEF StartReplayRevocation, StartPasswordRevocation, At
<1> QED
  BY <1>2, <1>3, <1>4
     DEF Proceed, IssueTokens, ClaimToken, CommitRotation, FinishReplayRevocation,
         UpdatePassword, CommitPassword, LockForDelete, CascadeDelete, At,
         OneRowAtATime, Sweeping

EndsFrom(r, pc) == At(r, pc) ~> Ready(r)
TokenComesFree(t) == []<>~TokenLocked(t)
UserComesFree(u) == []<>~BeingDeleted(u)
RotateMoves(r) == At(r, "rotate") ~> (Ready(r) \/ At(r, "claimed"))

(* A refresh that has claimed its row, and a delete that has locked its    *)
(* user, wait for each other or not at all.                                *)
LEMMA HoldersEnd ==
  ASSUME NEW r \in Requests, NEW pc \in {"claimed", "deleting"}
  PROVE  Spec /\ Served(r) /\ []WaitsOnlyForLocks => EndsFrom(r, pc)
<1>1. IndInv /\ [Next]_vars /\ At(r, pc) => (At(r, pc) \/ Ready(r))'
  BY SlotSteps, ProceedLeads DEF At, Ready, OneRowAtATime
<1>2. IndInv /\ <<Proceed(r)>>_vars /\ At(r, pc) => Ready(r)'
  BY ProceedLeads DEF At, OneRowAtATime
<1>3. IndInv /\ <<AbortDeadlocked(r)>>_vars => Ready(r)'
  BY SlotReleased DEF AbortDeadlocked, IndInv, Ready
<1>4. At(r, pc) => ~Ready(r)
  BY DEF At, Ready
<1>5. IndInv /\ At(r, pc) /\ Waits(r) => InDeadlock(r)
  <2>1. At(r, "claimed") /\ Waits(r) => InDeadlock(r)
    BY DEF At, Waits, Sweeping, BeingDeleted, InDeadlock, Deadlocked
  <2>2. IndInv /\ At(r, "deleting") /\ Waits(r) => InDeadlock(r)
    <3> SUFFICES ASSUME IndInv, At(r, "deleting"), Waits(r)
                 PROVE  InDeadlock(r)
      OBVIOUS
    <3>1. PICK t \in Tokens : token[t].owner = request[r].user /\ TokenLocked(t)
      BY DEF At, Waits, Sweeping
    <3>2. PICK q \in Requests : HoldsToken(q, t)
      BY <3>1 DEF TokenLocked
    <3>3. At(q, "claimed") /\ request[q].user = request[r].user
      BY <3>1, <3>2
         DEF HoldsToken, At, IndInv, LocksHold, LocalsAgree, SlotAgrees, Stored, Live
    <3> QED
      BY <3>3 DEF InDeadlock, Deadlocked
  <2> QED
    BY <2>1, <2>2
<1>6. IndInv /\ WaitsOnlyForLocks /\ At(r, pc) =>
        ENABLED <<Proceed(r)>>_vars \/ ENABLED <<AbortDeadlocked(r)>>_vars
  BY <1>4, <1>5 DEF WaitsOnlyForLocks
<1> QED
  BY <1>1, <1>2, <1>3, <1>4, <1>6, IndInvHolds, PTL DEF Spec, Served, EndsFrom

(* No token stays claimed and no user stays in deletion for ever: the      *)
(* holder ends, and in the step that ends it nobody else gets the lock.    *)
LEMMA TokenFreed ==
  ASSUME NEW t \in Tokens
  PROVE  FairSpec /\ []WaitsOnlyForLocks => TokenComesFree(t)
<1> DEFINE Held == TokenLocked(t)
           By(q) == HoldsToken(q, t)
<1>1. ASSUME NEW q \in Requests
      PROVE  FairSpec /\ []WaitsOnlyForLocks => [](By(q) => <>~Held)
  <2>1. FairSpec => Spec /\ Served(q)
    BY DEF FairSpec, Fairness
  <2>2. Spec /\ Served(q) /\ []WaitsOnlyForLocks => EndsFrom(q, "claimed")
    BY HoldersEnd
  <2>3. /\ By(q) => At(q, "claimed") /\ ~Ready(q)
        /\ ~Ready(q) \/ ~At(q, "claimed")
    BY DEF HoldsToken, At, Ready
  <2>4. IndInv /\ [Next]_vars /\ By(q) => (By(q) \/ ~Held)'
    <3> SUFFICES ASSUME IndInv, [Next]_vars, By(q), ~By(q)', NEW p \in Requests, By(p)'
                 PROVE  FALSE
      BY DEF TokenLocked
    <3>1. p # q /\ request'[q] # request[q]
      BY DEF HoldsToken, At
    <3>2. By(p)
      BY <3>1, OneMoves DEF HoldsToken, At
    <3> QED
      BY <3>1, <3>2 DEF IndInv, LocksHold, HoldsToken
  <2> QED
    BY <2>1, <2>2, <2>3, <2>4, IndInvHolds, PTL DEF Spec, EndsFrom
<1>2. FairSpec /\ []WaitsOnlyForLocks => \A q \in Requests : [](By(q) => <>~Held)
  BY <1>1
<1>3. (\A q \in Requests : [](By(q) => <>~Held)) => [](\A q \in Requests : By(q) => <>~Held)
  OBVIOUS
<1>4. (\A q \in Requests : By(q) => <>~Held) => (Held => <>~Held)
  BY DEF TokenLocked
<1> QED
  BY <1>2, <1>3, <1>4, PTL DEF TokenComesFree

LEMMA UserFreed ==
  ASSUME NEW u \in Users
  PROVE  FairSpec /\ []WaitsOnlyForLocks => UserComesFree(u)
<1> DEFINE Held == BeingDeleted(u)
           By(q) == At(q, "deleting") /\ request[q].user = u
<1>1. ASSUME NEW q \in Requests
      PROVE  FairSpec /\ []WaitsOnlyForLocks => [](By(q) => <>~Held)
  <2>1. FairSpec => Spec /\ Served(q)
    BY DEF FairSpec, Fairness
  <2>2. Spec /\ Served(q) /\ []WaitsOnlyForLocks => EndsFrom(q, "deleting")
    BY HoldersEnd
  <2>3. By(q) => At(q, "deleting") /\ ~Ready(q)
    BY DEF At, Ready
  <2>4. IndInv /\ [Next]_vars /\ By(q) => (By(q) \/ ~Held)'
    <3> SUFFICES ASSUME IndInv, [Next]_vars, By(q), ~By(q)', NEW p \in Requests, By(p)'
                 PROVE  FALSE
      BY DEF BeingDeleted
    <3>1. p # q /\ request'[q] # request[q]
      BY DEF At
    <3>2. By(p)
      BY <3>1, OneMoves DEF At
    <3> QED
      BY <3>1, <3>2 DEF IndInv, LocksHold, HoldsUser, At
  <2> QED
    BY <2>1, <2>2, <2>3, <2>4, IndInvHolds, PTL DEF Spec, EndsFrom
<1>2. FairSpec /\ []WaitsOnlyForLocks => \A q \in Requests : [](By(q) => <>~Held)
  BY <1>1
<1>3. (\A q \in Requests : [](By(q) => <>~Held)) => [](\A q \in Requests : By(q) => <>~Held)
  OBVIOUS
<1>4. (\A q \in Requests : By(q) => <>~Held) => (Held => <>~Held)
  BY DEF BeingDeleted
<1> QED
  BY <1>2, <1>3, <1>4, PTL DEF UserComesFree

(* A login waits at most for the delete of its user, again and again.      *)
LEMMA LoginsEnd ==
  ASSUME NEW r \in Requests
  PROVE  FairSpec /\ []WaitsOnlyForLocks => EndsFrom(r, "login")
<1> DEFINE For(u) == At(r, "login") /\ request[r].user = u
           Over == Ready(r)
<1>1. FairSpec => Spec /\ Served(r)
  BY DEF FairSpec, Fairness
<1>2. ASSUME NEW u \in Users
      PROVE  FairSpec /\ []WaitsOnlyForLocks => [](For(u) => <>Over)
  <2>1. IndInv /\ [Next]_vars /\ For(u) => (For(u) \/ Over)'
    BY SlotSteps, ProceedLeads DEF At, Ready, OneRowAtATime
  <2>2. IndInv /\ <<Proceed(r)>>_vars /\ For(u) => Over'
    BY ProceedLeads DEF At, OneRowAtATime
  <2>3. WaitsOnlyForLocks /\ For(u) /\ ~BeingDeleted(u) => ENABLED <<Proceed(r)>>_vars
    BY DEF WaitsOnlyForLocks, Waits, Sweeping, At, Ready
  <2>4. FairSpec /\ []WaitsOnlyForLocks => UserComesFree(u)
    BY UserFreed
  <2> QED
    BY <1>1, <2>1, <2>2, <2>3, <2>4, IndInvHolds, PTL DEF Spec, Served, UserComesFree
<1>3. FairSpec /\ []WaitsOnlyForLocks => \A u \in Users : [](For(u) => <>Over)
  BY <1>2
<1>4. (\A u \in Users : [](For(u) => <>Over)) => [](\A u \in Users : For(u) => <>Over)
  OBVIOUS
<1>5. IndInv /\ At(r, "login") => \E u \in Users : For(u)
  BY DEF IndInv, WellFormed, At, Ready
<1>6. (\A u \in Users : For(u) => <>Over) => ((\E u \in Users : For(u)) => <>Over)
  OBVIOUS
<1> QED
  BY <1>1, <1>3, <1>4, <1>5, <1>6, IndInvHolds, PTL DEF EndsFrom

(* A refresh waits for the others that claimed its row, then claims it or  *)
(* loses.                                                                  *)
LEMMA RotatesMove ==
  ASSUME NEW r \in Requests
  PROVE  FairSpec /\ []WaitsOnlyForLocks => RotateMoves(r)
<1> DEFINE With(t) == At(r, "rotate") /\ request[r].token = t
           Over == Ready(r) \/ At(r, "claimed")
<1>1. FairSpec => Spec /\ Served(r)
  BY DEF FairSpec, Fairness
<1>2. ASSUME NEW t \in Tokens
      PROVE  FairSpec /\ []WaitsOnlyForLocks => [](With(t) => <>Over)
  <2>1. IndInv /\ [Next]_vars /\ With(t) => (With(t) \/ Over)'
    BY SlotSteps, ProceedLeads DEF At, Ready, OneRowAtATime
  <2>2. IndInv /\ <<Proceed(r)>>_vars /\ With(t) => Over'
    BY ProceedLeads DEF At, OneRowAtATime
  <2>3. WaitsOnlyForLocks /\ With(t) /\ ~TokenLocked(t) => ENABLED <<Proceed(r)>>_vars
    BY DEF WaitsOnlyForLocks, Waits, Sweeping, At, Ready
  <2>4. FairSpec /\ []WaitsOnlyForLocks => TokenComesFree(t)
    BY TokenFreed
  <2> QED
    BY <1>1, <2>1, <2>2, <2>3, <2>4, IndInvHolds, PTL DEF Spec, Served, TokenComesFree
<1>3. FairSpec /\ []WaitsOnlyForLocks => \A t \in Tokens : [](With(t) => <>Over)
  BY <1>2
<1>4. (\A t \in Tokens : [](With(t) => <>Over)) => [](\A t \in Tokens : With(t) => <>Over)
  OBVIOUS
<1>5. IndInv /\ At(r, "rotate") => \E t \in Tokens : With(t)
  BY DEF IndInv, WellFormed, At
<1>6. (\A t \in Tokens : With(t) => <>Over) => ((\E t \in Tokens : With(t)) => <>Over)
  OBVIOUS
<1> QED
  BY <1>1, <1>3, <1>4, <1>5, <1>6, IndInvHolds, PTL DEF RotateMoves

(* Logins, refreshes and deletes end, however many requests are served at  *)
(* once and however their row locks interleave (Sessions, RotationsFinish). *)
THEOREM RotationsDoFinish ==
  FairSpec /\ []WaitsOnlyForLocks => RotationsFinish
<1> SUFFICES ASSUME NEW r \in Requests
             PROVE  FairSpec /\ []WaitsOnlyForLocks => RotationFinishes(r)
  BY DEF RotationsFinish
<1>1. FairSpec => Spec /\ Served(r)
  BY DEF FairSpec, Fairness
<1>2. /\ Spec /\ Served(r) /\ []WaitsOnlyForLocks => EndsFrom(r, "claimed")
      /\ Spec /\ Served(r) /\ []WaitsOnlyForLocks => EndsFrom(r, "deleting")
  BY HoldersEnd
<1>3. OneRowAtATime(r) =>
        At(r, "login") \/ At(r, "rotate") \/ At(r, "claimed") \/ At(r, "deleting")
  BY DEF OneRowAtATime, At
<1>4. /\ FairSpec /\ []WaitsOnlyForLocks => EndsFrom(r, "login")
      /\ FairSpec /\ []WaitsOnlyForLocks => RotateMoves(r)
  BY LoginsEnd, RotatesMove
<1> QED
  BY <1>1, <1>2, <1>3, <1>4, PTL DEF RotationFinishes, EndsFrom, RotateMoves

(* A revoke-all statement ends when its rows come free again and again.    *)
LEMMA SweepsEnd ==
  ASSUME NEW r \in Requests, NEW pc \in {"replaying", "changing"}
  PROVE  Spec /\ Served(r) /\ []WaitsOnlyForLocks /\ GetsItsRows(r) => EndsFrom(r, pc)
<1>1. IndInv /\ [Next]_vars /\ At(r, pc) => (At(r, pc) \/ Ready(r))'
  BY SlotSteps, ProceedLeads DEF At, Ready, Sweeping
<1>2. IndInv /\ <<Proceed(r)>>_vars /\ At(r, pc) => Ready(r)'
  BY ProceedLeads DEF At, Sweeping
<1>3. At(r, pc) => ~Ready(r) /\ Sweeping(r)
  BY DEF At, Ready, Sweeping
<1>4. WaitsOnlyForLocks /\ At(r, pc) /\ (Sweeping(r) => TargetsFree(r)) =>
        ENABLED <<Proceed(r)>>_vars
  BY DEF WaitsOnlyForLocks, Waits, Sweeping, At, Ready
<1> QED
  BY <1>1, <1>2, <1>3, <1>4, IndInvHolds, PTL DEF Spec, Served, GetsItsRows, EndsFrom

(* A revocation that was decided starts, and a password change whose user  *)
(* row is its own goes through.                                            *)
LEMMA RevocationsEnd ==
  ASSUME NEW r \in Requests
  PROVE  Spec /\ Served(r) /\ []WaitsOnlyForLocks /\ GetsItsRows(r) =>
            EndsFrom(r, "replay") /\ EndsFrom(r, "changed")
<1>1. /\ IndInv /\ [Next]_vars /\ At(r, "replay") =>
            (At(r, "replay") \/ At(r, "replaying") \/ Ready(r))'
      /\ IndInv /\ [Next]_vars /\ At(r, "changed") =>
            (At(r, "changed") \/ At(r, "changing") \/ Ready(r))'
  BY SlotSteps, ProceedLeads DEF At, Ready
<1>2. /\ IndInv /\ <<Proceed(r)>>_vars /\ At(r, "replay") => At(r, "replaying")'
      /\ IndInv /\ <<Proceed(r)>>_vars /\ At(r, "changed") => At(r, "changing")'
  BY ProceedLeads
<1>3. WaitsOnlyForLocks /\ (At(r, "replay") \/ At(r, "changed")) =>
        ENABLED <<Proceed(r)>>_vars
  BY DEF WaitsOnlyForLocks, Waits, Sweeping, At, Ready
<1>4. /\ At(r, "replay") => ~At(r, "replaying")
      /\ At(r, "changed") => ~At(r, "changing")
  BY DEF At
<1>5. /\ Spec /\ Served(r) /\ []WaitsOnlyForLocks /\ GetsItsRows(r) =>
            EndsFrom(r, "replaying")
      /\ Spec /\ Served(r) /\ []WaitsOnlyForLocks /\ GetsItsRows(r) =>
            EndsFrom(r, "changing")
  BY SweepsEnd
<1> QED
  BY <1>1, <1>2, <1>3, <1>4, <1>5, IndInvHolds, PTL DEF Spec, Served, EndsFrom

UserUnlocks(u) == []<>~UserLocked(u)

(* The same for the row of a user, which a password change or a delete     *)
(* has locked.                                                             *)
LEMMA UserUnlocked ==
  ASSUME NEW u \in Users
  PROVE  FairSpec /\ []WaitsOnlyForLocks /\ SweepsGetTheirRows => UserUnlocks(u)
<1> DEFINE Held == UserLocked(u)
           By(q) == HoldsUser(q, u)
<1>1. ASSUME NEW q \in Requests
      PROVE  FairSpec /\ []WaitsOnlyForLocks /\ SweepsGetTheirRows =>
                [](By(q) => <>~Held)
  <2>1. /\ FairSpec => Spec /\ Served(q)
        /\ SweepsGetTheirRows => GetsItsRows(q)
    BY DEF FairSpec, Fairness, SweepsGetTheirRows
  <2>2. /\ Spec /\ Served(q) /\ []WaitsOnlyForLocks => EndsFrom(q, "deleting")
        /\ Spec /\ Served(q) /\ []WaitsOnlyForLocks /\ GetsItsRows(q) =>
              EndsFrom(q, "changing")
    BY HoldersEnd, SweepsEnd
  <2>3. Spec /\ Served(q) /\ []WaitsOnlyForLocks /\ GetsItsRows(q) =>
              EndsFrom(q, "changed")
    BY RevocationsEnd
  <2>4. /\ By(q) => At(q, "deleting") \/ At(q, "changing") \/ At(q, "changed")
        /\ By(q) => ~Ready(q)
    BY DEF HoldsUser, At, Ready
  <2>5. IndInv /\ [Next]_vars /\ By(q) => (By(q) \/ ~Held)'
    <3> SUFFICES ASSUME IndInv, [Next]_vars, By(q), ~By(q)', NEW p \in Requests, By(p)'
                 PROVE  FALSE
      BY DEF UserLocked
    <3>1. p # q /\ request'[q] # request[q]
      BY DEF HoldsUser, At
    <3>2. By(p)
      BY <3>1, OneMoves DEF HoldsUser, At
    <3> QED
      BY <3>1, <3>2 DEF IndInv, LocksHold
  <2> QED
    BY <2>1, <2>2, <2>3, <2>4, <2>5, IndInvHolds, PTL DEF Spec, EndsFrom
<1>2. FairSpec /\ []WaitsOnlyForLocks /\ SweepsGetTheirRows =>
        \A q \in Requests : [](By(q) => <>~Held)
  BY <1>1
<1>3. (\A q \in Requests : [](By(q) => <>~Held)) => [](\A q \in Requests : By(q) => <>~Held)
  OBVIOUS
<1>4. (\A q \in Requests : By(q) => <>~Held) => (Held => <>~Held)
  BY DEF UserLocked
<1> QED
  BY <1>2, <1>3, <1>4, PTL DEF UserUnlocks

ChangeMoves(r) == At(r, "change") ~> (Ready(r) \/ At(r, "changed"))
DeleteMoves(r) == At(r, "delete") ~> (Ready(r) \/ At(r, "deleting"))

(* A password change and a delete get the row of their user, or find that  *)
(* the user has gone.                                                      *)
LEMMA UserRowsAreGot ==
  ASSUME NEW r \in Requests
  PROVE  FairSpec /\ []WaitsOnlyForLocks /\ SweepsGetTheirRows =>
            ChangeMoves(r) /\ DeleteMoves(r)
<1> DEFINE Changes(u) == At(r, "change") /\ request[r].user = u
           Deletes(u) == At(r, "delete") /\ request[r].user = u
           Changed == Ready(r) \/ At(r, "changed")
           Deleted == Ready(r) \/ At(r, "deleting")
<1>1. FairSpec => Spec /\ Served(r)
  BY DEF FairSpec, Fairness
<1>2. ASSUME NEW u \in Users
      PROVE  /\ FairSpec /\ []WaitsOnlyForLocks /\ SweepsGetTheirRows =>
                   [](Changes(u) => <>Changed)
             /\ FairSpec /\ []WaitsOnlyForLocks /\ SweepsGetTheirRows =>
                   [](Deletes(u) => <>Deleted)
  <2>1. /\ IndInv /\ [Next]_vars /\ Changes(u) => (Changes(u) \/ Changed)'
        /\ IndInv /\ [Next]_vars /\ Deletes(u) => (Deletes(u) \/ Deleted)'
    BY SlotSteps, ProceedLeads DEF At, Ready
  <2>2. /\ IndInv /\ <<Proceed(r)>>_vars /\ Changes(u) => Changed'
        /\ IndInv /\ <<Proceed(r)>>_vars /\ Deletes(u) => Deleted'
    BY ProceedLeads
  <2>3. WaitsOnlyForLocks /\ (Changes(u) \/ Deletes(u)) /\ ~UserLocked(u) =>
          ENABLED <<Proceed(r)>>_vars
    BY DEF WaitsOnlyForLocks, Waits, Sweeping, At, Ready
  <2>4. FairSpec /\ []WaitsOnlyForLocks /\ SweepsGetTheirRows => UserUnlocks(u)
    BY UserUnlocked
  <2> QED
    BY <1>1, <2>1, <2>2, <2>3, <2>4, IndInvHolds, PTL DEF Spec, Served, UserUnlocks
<1>3. /\ FairSpec /\ []WaitsOnlyForLocks /\ SweepsGetTheirRows =>
            \A u \in Users : [](Changes(u) => <>Changed)
      /\ FairSpec /\ []WaitsOnlyForLocks /\ SweepsGetTheirRows =>
            \A u \in Users : [](Deletes(u) => <>Deleted)
  BY <1>2
<1>4. (\A u \in Users : [](Changes(u) => <>Changed)) =>
        [](\A u \in Users : Changes(u) => <>Changed)
  OBVIOUS
<1>5. (\A u \in Users : [](Deletes(u) => <>Deleted)) =>
        [](\A u \in Users : Deletes(u) => <>Deleted)
  OBVIOUS
<1>6. /\ IndInv /\ At(r, "change") => \E u \in Users : Changes(u)
      /\ IndInv /\ At(r, "delete") => \E u \in Users : Deletes(u)
  BY DEF IndInv, WellFormed, At, Ready
<1>7. (\A u \in Users : Changes(u) => <>Changed) =>
        ((\E u \in Users : Changes(u)) => <>Changed)
  OBVIOUS
<1>8. (\A u \in Users : Deletes(u) => <>Deleted) =>
        ((\E u \in Users : Deletes(u)) => <>Deleted)
  OBVIOUS
<1> QED
  BY <1>1, <1>3, <1>4, <1>5, <1>6, <1>7, <1>8, IndInvHolds, PTL
     DEF ChangeMoves, DeleteMoves

(* Every request ends, if the revoke-all statements get their rows         *)
(* (Sessions, RequestsFinish, SweepsGetTheirRows).                         *)
THEOREM RequestsDoFinish ==
  FairSpec /\ []WaitsOnlyForLocks /\ SweepsGetTheirRows => RequestsFinish
<1> SUFFICES ASSUME NEW r \in Requests
             PROVE  FairSpec /\ []WaitsOnlyForLocks /\ SweepsGetTheirRows => Finishes(r)
  BY DEF RequestsFinish
<1>1. /\ FairSpec => Spec /\ Served(r)
      /\ SweepsGetTheirRows => GetsItsRows(r)
  BY DEF FairSpec, Fairness, SweepsGetTheirRows
<1>2. FairSpec /\ []WaitsOnlyForLocks => RotationFinishes(r)
  BY RotationsDoFinish DEF RotationsFinish
<1>3. Spec /\ Served(r) /\ []WaitsOnlyForLocks /\ GetsItsRows(r) =>
        EndsFrom(r, "replay") /\ EndsFrom(r, "changed")
  BY RevocationsEnd
<1>4. /\ Spec /\ Served(r) /\ []WaitsOnlyForLocks /\ GetsItsRows(r) =>
            EndsFrom(r, "replaying")
      /\ Spec /\ Served(r) /\ []WaitsOnlyForLocks /\ GetsItsRows(r) =>
            EndsFrom(r, "changing")
  BY SweepsEnd
<1>5. FairSpec /\ []WaitsOnlyForLocks /\ SweepsGetTheirRows =>
        ChangeMoves(r) /\ DeleteMoves(r)
  BY UserRowsAreGot
<1>6. /\ IndInv /\ ~Ready(r) =>
            \/ OneRowAtATime(r) \/ At(r, "replay") \/ At(r, "replaying")
            \/ At(r, "change") \/ At(r, "changed") \/ At(r, "changing")
            \/ At(r, "delete")
      /\ At(r, "deleting") => OneRowAtATime(r)
  BY DEF IndInv, TypeOK, Request, Ready, At, OneRowAtATime
<1> QED
  BY <1>1, <1>2, <1>3, <1>4, <1>5, <1>6, IndInvHolds, PTL
     DEF Spec, Finishes, RotationFinishes, EndsFrom, ChangeMoves, DeleteMoves

(* With at most two requests at once, as in the run, nothing has to be     *)
(* asked of the revoke-all statements: one waits for the other request     *)
(* only, and that one ends.                                                *)
THEOREM TwoRequestsFinish ==
  ASSUME \A r, q, p \in Requests : r = q \/ q = p \/ r = p
  PROVE  FairSpec /\ []WaitsOnlyForLocks => RequestsFinish
<1>1. ASSUME NEW r \in Requests
      PROVE  FairSpec /\ []WaitsOnlyForLocks => GetsItsRows(r)
  <2> DEFINE Held == Sweeping(r) /\ ~TargetsFree(r)
             By(q) == At(q, "claimed") /\ Held
  <2>1. ASSUME NEW q \in Requests
        PROVE  FairSpec /\ []WaitsOnlyForLocks => [](By(q) => <>~Held)
    <3>1. FairSpec => Spec /\ Served(q)
      BY DEF FairSpec, Fairness
    <3>2. Spec /\ Served(q) /\ []WaitsOnlyForLocks => EndsFrom(q, "claimed")
      BY HoldersEnd
    <3>3. IndInv /\ [Next]_vars /\ By(q) => (By(q) \/ ~Held)'
      <4> SUFFICES ASSUME By(q), ~By(q)', Held'
                   PROVE  FALSE
        OBVIOUS
      <4>1. PICK p \in Requests : At(p, "claimed")'
        BY DEF TargetsFree, TokenLocked, HoldsToken
      <4>2. r # q /\ r # p /\ p # q
        BY <4>1 DEF Sweeping, At
      <4> QED
        BY <4>1, <4>2
    <3>4. By(q) => At(q, "claimed") /\ ~Ready(q)
      BY DEF At, Ready
    <3> QED
      BY <3>1, <3>2, <3>3, <3>4, IndInvHolds, PTL DEF Spec, EndsFrom
  <2>2. FairSpec /\ []WaitsOnlyForLocks => \A q \in Requests : [](By(q) => <>~Held)
    BY <2>1
  <2>3. (\A q \in Requests : [](By(q) => <>~Held)) =>
          [](\A q \in Requests : By(q) => <>~Held)
    OBVIOUS
  <2>4. (\A q \in Requests : By(q) => <>~Held) => (Held => <>~Held)
    BY DEF TargetsFree, TokenLocked, HoldsToken
  <2>5. ~Held => (Sweeping(r) => TargetsFree(r))
    OBVIOUS
  <2> QED
    BY <2>2, <2>3, <2>4, <2>5, PTL DEF GetsItsRows
<1>2. FairSpec /\ []WaitsOnlyForLocks => SweepsGetTheirRows
  BY <1>1 DEF SweepsGetTheirRows
<1> QED
  BY <1>2, RequestsDoFinish

-----------------------------------------------------------------------------
(* Sessions implements TokenRotation.                                      *)

Redeemable == [s \in Tokens |-> LiveIn(s)]

(* A session has at most one live token, and it belongs to one session.    *)
LEMMA LiveInFacts ==
  ASSUME IndInv, NEW s \in Tokens, NEW t \in LiveIn(s)
  PROVE  LiveIn(s) = {t} /\ t \in Tokens /\ Live(t) /\ token[t].family = s
BY DEF LiveIn, IndInv, OneLiveTokenPerSession

(* Sessions, seen as TokenRotation sees them, only open, rotate and end.   *)
THEOREM RefinesRotation == Spec => ImplementsRotation
<1> USE DEF Redeemable
<1>1. Init => Rotation!RotationInit
  <2> SUFFICES ASSUME Init PROVE Rotation!RotationInit
    OBVIOUS
  <2>1. \A t \in Tokens : t \in Unused /\ ~Live(t)
    <3>1. Blank.status = "unused"
      BY DEF Blank
    <3> QED
      BY <3>1 DEF Init, Unused, Live
  <2> QED
    BY <2>1 DEF Rotation!RotationInit, LiveIn
<1>2. IndInv /\ IndInv' /\ [Next]_vars =>
        [Rotation!RotationNext]_(Rotation!rotationVars)
  <2> SUFFICES ASSUME IndInv, IndInv', [Next]_vars
               PROVE  [Rotation!RotationNext]_(Rotation!rotationVars)
    OBVIOUS
  <2>1. TypeOK /\ WellFormed /\ LocksHold /\ LocalsAgree /\ RowsAgree
    BY DEF IndInv
  <2>2. \A s \in Tokens : \A t \in LiveIn(s) : LiveIn(s) = {t}
    BY LiveInFacts
  <2>3. ASSUME Unused' = Unused, \A s \in Tokens : LiveIn(s)' \subseteq LiveIn(s)
        PROVE  Rotation!RotationNext
    <3> DEFINE S == {s \in Tokens : LiveIn(s)' = {}}
    <3>1. \A s \in Tokens \ S : LiveIn(s)' = LiveIn(s)
      BY <2>2, <2>3
    <3>2. Redeemable' = [s \in Tokens |-> IF s \in S THEN {} ELSE Redeemable[s]]
      BY <3>1
    <3>3. Rotation!End(S)
      BY <2>3, <3>2 DEF Rotation!End
    <3> QED
      BY <3>3 DEF Rotation!RotationNext
  <2>4. CASE Declining
    BY <2>3, <2>4 DEF Declining, Unused, LiveIn, Live
  <2>5. ASSUME NEW u \in Users, Dropping(u)
        PROVE  Rotation!RotationNext
    <3>1. \A t \in Unused : token[t].owner # u
      BY <2>1, NoneAssumption DEF RowsAgree
    <3>2. Unused' = Unused
      BY <2>5, <3>1 DEF Dropping, Unused
    <3> QED
      BY <2>3, <2>5, <3>2 DEF Dropping, LiveIn, Live
  <2>6. ASSUME NEW t \in Tokens, Opening(t)
        PROVE  Rotation!RotationNext
    <3>1. \A s \in Tokens : Live(s) => token[s].family # t
      BY <2>1, <2>6 DEF RowsAgree, Opening, Stored, Live
    <3>2. LiveIn(t)' = {t} /\ \A s \in Tokens : s # t => LiveIn(s)' = LiveIn(s)
      BY <2>6, <3>1 DEF Opening, LiveIn, Live, Unused
    <3>3. (Tokens \ Unused)' = (Tokens \ Unused) \union {t} /\ t \in Unused
      BY <2>6 DEF Opening, Unused
    <3>4. Redeemable' = [Redeemable EXCEPT ![t] = {t}]
      BY <3>2
    <3>5. Rotation!Open(t)
      BY <3>3, <3>4 DEF Rotation!Open
    <3> QED
      BY <3>5 DEF Rotation!RotationNext
  <2>7. ASSUME NEW t \in Tokens, NEW child \in Tokens, Rotating(t, child)
        PROVE  Rotation!RotationNext
    <3>1. PICK f \in Tokens : f = token[t].family /\ LiveIn(f) = {t}
      BY <2>1, <2>2, <2>7 DEF Rotating, RowsAgree, Stored, Live, LiveIn
    <3>2. LiveIn(f)' = {child} /\ \A s \in Tokens : s # f => LiveIn(s)' = LiveIn(s)
      <4>1. \A v \in Tokens : v # t /\ v # child => token'[v] = token[v]
        BY <2>7 DEF Rotating
      <4>2. /\ ~Live(t)' /\ Live(child)' /\ token'[child].family = f
            /\ Live(t) /\ ~Live(child) /\ token[t].family = f
        BY <2>7, <3>1 DEF Rotating, Live, Unused
      <4>3. \A v \in Tokens : Live(v) /\ token[v].family = f => v = t
        BY <3>1 DEF LiveIn
      <4>4. \A v \in Tokens : Live(v)' /\ token'[v].family = f <=> v = child
        BY <4>1, <4>2, <4>3 DEF Live
      <4>5. \A s, v \in Tokens : s # f =>
              (Live(v)' /\ token'[v].family = s <=> Live(v) /\ token[v].family = s)
        BY <4>1, <4>2 DEF Live
      <4> QED
        BY <4>4, <4>5 DEF LiveIn
    <3>3. (Tokens \ Unused)' = (Tokens \ Unused) \union {child} /\ child \in Unused
      BY <2>7 DEF Rotating, Unused, Live
    <3>4. Redeemable' = [Redeemable EXCEPT ![f] = {child}]
      BY <3>2
    <3>5. Rotation!Rotate(f, child)
      BY <3>1, <3>3, <3>4 DEF Rotation!Rotate
    <3> QED
      BY <3>1, <3>5 DEF Rotation!RotationNext
  <2> QED
    BY <2>1, <2>4, <2>5, <2>6, <2>7, TokenStep
<1> QED
  BY <1>1, <1>2, IndInvHolds, PTL DEF Spec, ImplementsRotation, Rotation!RotationSpec

(* A session that has ended never comes back, which every specification    *)
(* that implements TokenRotation promises: a session is opened by a token  *)
(* that was never used, and rotates from one that is still live            *)
(* (auth.service.ts:108-121).                                              *)
THEOREM SessionsEndForGood == Spec => EndsAreFinal
<1> DEFINE EndsLast == \A s \in Tokens : Ended(s) => Ended(s)'
<1>1. ASSUME NEW s \in Tokens, Ended(s), Rotation!RotationNext
      PROVE  Ended(s)'
  <2>1. /\ s \in Tokens \ Unused
        /\ Redeemable[s] = {}
    BY <1>1 DEF Ended, Redeemable
  <2>2. ASSUME NEW t \in Tokens, Rotation!Open(t)
        PROVE  s \in (Tokens \ Unused)' /\ Redeemable'[s] = {}
    <3>1. s # t
      BY <2>1, <2>2 DEF Rotation!Open
    <3> QED
      BY <2>1, <2>2, <3>1 DEF Rotation!Open, Redeemable
  <2>3. ASSUME NEW f \in Tokens, NEW t \in Tokens, Rotation!Rotate(f, t)
        PROVE  s \in (Tokens \ Unused)' /\ Redeemable'[s] = {}
    <3>1. s # f
      BY <2>1, <2>3 DEF Rotation!Rotate, Redeemable
    <3> QED
      BY <2>1, <2>3, <3>1 DEF Rotation!Rotate, Redeemable
  <2>4. ASSUME NEW S \in SUBSET Tokens, Rotation!End(S)
        PROVE  s \in (Tokens \ Unused)' /\ Redeemable'[s] = {}
    BY <2>1, <2>4 DEF Rotation!End, Redeemable
  <2>5. s \in (Tokens \ Unused)' /\ Redeemable'[s] = {}
    BY <1>1, <2>2, <2>3, <2>4 DEF Rotation!RotationNext
  <2> QED
    BY <2>5 DEF Ended, Redeemable
<1>2. ASSUME NEW s \in Tokens, Ended(s), UNCHANGED Rotation!rotationVars
      PROVE  Ended(s)'
  <2>1. (Tokens \ Unused)' = Tokens \ Unused /\ Redeemable' = Redeemable
    BY <1>2 DEF Rotation!rotationVars, Redeemable
  <2>2. LiveIn(s)' = LiveIn(s)
    <3>1. Redeemable[s] = LiveIn(s) /\ Redeemable'[s] = LiveIn(s)'
      BY DEF Redeemable
    <3> QED
      BY <2>1, <3>1
  <2> QED
    BY <1>2, <2>1, <2>2 DEF Ended
<1>3. [Rotation!RotationNext]_(Rotation!rotationVars) => [EndsLast]_vars
  BY <1>1, <1>2
<1> QED
  BY <1>3, RefinesRotation, PTL
     DEF EndsAreFinal, ImplementsRotation, Rotation!RotationSpec

=============================================================================
